------------------------------- MODULE League -------------------------------
(***************************************************************************)
(* What the rating ledger promises: players are added, games are recorded  *)
(* one after the other, and each game moves the ratings of its two players *)
(* from what they are to what RateGame makes of them, in one step.  There  *)
(* are no requests, no stale reads and no recomputes: replaying the games  *)
(* changes nothing, so it is a stuttering step here.                       *)
(***************************************************************************)
EXTENDS Integers, Sequences

CONSTANTS Player, GroupOf, Board, Result, Seed, Rate(_, _, _, _, _), MaxGames

VARIABLES created, overall, grid, games

vars == <<created, overall, grid, games>>

Side == {"black", "white"}
Opponent(s) == IF s = "black" THEN "white" ELSE "black"

Init ==
  /\ created = {}
  /\ overall = Seed
  /\ grid = [p \in Player |-> [d \in Board |-> [state |-> Seed[p], games |-> 0]]]
  /\ games = <<>>

Add(p) ==
  /\ p \notin created
  /\ created' = created \cup {p}
  /\ UNCHANGED <<overall, grid, games>>

\* One game between two players of one group, rated as it is recorded.
Record(who, d, o) ==
  LET before == [s \in Side |-> [overall |-> overall[who[s]],
                                 cat     |-> grid[who[s]][d].state]]
      after  == [s \in Side |->
                  LET opp == before[Opponent(s)].overall
                  IN  [overall |-> Rate(before[s].overall, opp, s, d, o),
                       cat     |-> Rate(before[s].cat, opp, s, d, o)]]
      SideOf(p) == IF who["black"] = p THEN "black" ELSE "white"
      Moved(p)  == \E s \in Side : who[s] = p
  IN  /\ Len(games) < MaxGames
      /\ who["black"] # who["white"]
      /\ \A s \in Side : who[s] \in created
      /\ GroupOf[who["black"]] = GroupOf[who["white"]]
      /\ games' = Append(games,
           [group |-> GroupOf[who["black"]], who |-> who, board |-> d,
            res |-> o, before |-> before, after |-> after])
      /\ overall' = [p \in Player |->
           IF Moved(p) THEN after[SideOf(p)].overall ELSE overall[p]]
      /\ grid' = [p \in Player |-> [e \in Board |->
           IF e = d /\ Moved(p)
             THEN [state |-> after[SideOf(p)].cat, games |-> grid[p][e].games + 1]
             ELSE grid[p][e]]]
      /\ UNCHANGED created

Next ==
  \/ \E p \in Player : Add(p)
  \/ \E who \in [Side -> Player], d \in Board, o \in Result : Record(who, d, o)

Spec == Init /\ [][Next]_vars
=============================================================================
