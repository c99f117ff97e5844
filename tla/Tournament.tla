----------------------------- MODULE Tournament -----------------------------
(***************************************************************************)
(* One tournament and the requests that drive it: CreateTournament,        *)
(* StartTournament, RecordPairingResult and GenerateNextRound of package   *)
(* service, each run by a goroutine (a Handler) that makes several store   *)
(* calls.  A store call is one step: a single statement, or a transaction. *)
(* What a handler has read is held in its local variables until it writes. *)
(*                                                                         *)
(* RecordGame is one step here; Ledger has its inside.  It moves the       *)
(* ratings, to some other ratings of Ratings.                              *)
(***************************************************************************)
EXTENDS PairingEngine

CONSTANTS
  Player,      \* ids of the group's players
  Roster(_),   \* the sets of players a start may ask for, by format
  Formats,     \* the formats a tournament may have
  Rounds,      \* the round counts it may be created with
  Handicaps,   \* the values of its handicap flag
  Ratings,     \* the ratings the players may have
  RankOf(_),   \* the whole rank of a rating
  Handler,     \* request goroutines
  Starter,     \* the handlers that may run StartTournament
  Advancer,    \* the handlers that may run GenerateNextRound
  FailAt,      \* the store calls, by program counter, that a request may not reach
  MaxPairings, \* bound on the rows of tournament_pairings
  MaxGames,    \* bound on the games recorded
  MaxCuts      \* bound on the requests that end between the game and its link

ASSUME TournamentAssumption ==
  /\ Player \subseteq Nat \ {0}
  /\ Formats \subseteq {"round_robin", "mcmahon"}
  /\ Rounds \subseteq Nat
  /\ Handicaps \subseteq BOOLEAN
  /\ Ratings \subseteq [Player -> Nat]
  /\ \A f \in Ratings : \A p \in Player : RankOf(f[p]) \in Nat
  /\ Starter \cup Advancer \subseteq Handler
  /\ MaxPairings \in Nat /\ MaxGames \in Nat /\ MaxCuts \in Nat

ASSUME RosterAssumption ==
  \A f \in Formats \cup {""} : \A S \in Roster(f) : S \subseteq Player /\ IsFiniteSet(S)

VARIABLES
  t,         \* the row of tournaments
  roster,    \* the rows of tournament_players: ids in id order, start scores
  pairings,  \* the rows of tournament_pairings, by id
  games,     \* the games recorded for it, by id, with the pairing they are for
  rating,    \* players.gor
  local,     \* local[h]: program counter and local variables of a request
  cut        \* history: the games whose request ended before it linked them

vars == <<t, roster, pairings, games, rating, local, cut>>

NoScores == [p \in Player |-> 0]

Idle == [pc |-> "idle", want |-> {}, ids |-> <<>>, start |-> NoScores,
         rounds |-> 0, rows |-> <<>>, pair |-> 0, winner |-> "", game |-> 0]

Init ==
  /\ t = [status |-> "absent", format |-> "", handicap |-> FALSE, rounds |-> 0]
  /\ roster = [ids |-> <<>>, start |-> NoScores]
  /\ pairings = <<>>
  /\ games = <<>>
  /\ rating \in Ratings
  /\ local = [h \in Handler |-> Idle]
  /\ cut = {}

\* The ids of S in ascending order.
InOrder(S) == [k \in 1..Cardinality(S) |->
                CHOOSE x \in S : Cardinality({y \in S : y <= x}) = k]

(***************************************************************************)
(* The orders of S by rating, the highest first.  The sort is stable: equal*)
(* ones stay in the order of the form, which may be any.                   *)
(***************************************************************************)
Seedings(S) ==
  {ids \in [1..Cardinality(S) -> S] :
    /\ RangeOf(ids) = S
    /\ \A j, k \in DOMAIN ids :
         j < k => ids[j] # ids[k] /\ rating[ids[j]] >= rating[ids[k]]}

Played(pr) == pr.winner # ""

CurrentRound(list) == Max({0} \cup {list[i].round : i \in 1..Len(list)})

RoundComplete(list, r) ==
  LET of == {i \in 1..Len(list) : list[i].round = r}
  IN  of # {} /\ \A i \in of : Played(list[i])

\* engineResults: the played pairings, in table order.
EngineResults(list) ==
  LET done == SelectSeq(list, Played)
  IN  [i \in 1..Len(done) |->
        [round |-> done[i].round, black |-> done[i].black, white |-> done[i].white,
         winner |-> IF done[i].winner = "white" THEN done[i].white
                                                 ELSE done[i].black]]

\* Mutant: the swap forgets white.
StorePairings_OneSide(pairs, r) ==
  [i \in 1..Len(pairs) |->
     LET pr   == pairs[i]
         swap == t.handicap /\ ~IsBye(pr) /\ rating[pr.black] > rating[pr.white]
     IN  [round |-> r, board |-> pr.board,
          black |-> IF swap THEN pr.white ELSE pr.black, white |-> pr.white,
          winner |-> IF IsBye(pr) THEN "bye" ELSE "", game |-> 0]]

(***************************************************************************)
(* storePairings: one row for each pairing of a round.  With handicap the  *)
(* weaker player takes black.  A bye is stored resolved.                   *)
(***************************************************************************)
StorePairings(pairs, r) ==
  [i \in 1..Len(pairs) |->
     LET pr   == pairs[i]
         swap == t.handicap /\ ~IsBye(pr) /\ rating[pr.black] > rating[pr.white]
     IN  [round |-> r, board |-> pr.board,
          black |-> IF swap THEN pr.white ELSE pr.black,
          white |-> IF swap THEN pr.black ELSE pr.white,
          winner |-> IF IsBye(pr) THEN "bye" ELSE "", game |-> 0]]

\* Mutant: every round gets the pairings of the first.
Concat_FirstRound(rounds) ==
  LET upto[r \in 0..Len(rounds)] ==
        IF r = 0 THEN <<>> ELSE upto[r - 1] \o StorePairings(rounds[1], r)
  IN  upto[Len(rounds)]

Concat(rounds) ==
  LET upto[r \in 0..Len(rounds)] ==
        IF r = 0 THEN <<>> ELSE upto[r - 1] \o StorePairings(rounds[r], r)
  IN  upto[Len(rounds)]

Goto(h, l) == local' = [local EXCEPT ![h] = l]

-----------------------------------------------------------------------------
Create(format, handicap, rounds) ==
  /\ t.status = "absent"
  /\ t' = [status |-> "setup", format |-> format, handicap |-> handicap,
           rounds |-> rounds]
  /\ UNCHANGED <<roster, pairings, games, rating, local, cut>>

(***************************************************************************)
(* StartTournament.  TournamentByID and the check of the status.           *)
(***************************************************************************)
BeginStart(h, want) ==
  /\ h \in Starter
  /\ local[h].pc = "idle"
  /\ t.status = "setup"
  /\ Goto(h, [Idle EXCEPT !.pc = "loadRoster", !.want = want, !.rounds = t.rounds])
  /\ UNCHANGED <<t, roster, pairings, games, rating, cut>>

\* What is computed for the field in seeding order: starting scores, rounds, opening.
SeedField(h, ids) ==
  LET l     == local[h]
      start == IF t.format = "mcmahon"
                 THEN StartScores(ids, [p \in Player |-> RankOf(rating[p])], 0)
                 ELSE NoScores
      plan  == RoundRobinSchedule(ids)
      first == McMahonRound(ids, start, rating, <<>>)
  IN  Goto(h, [l EXCEPT !.pc = "setRoster", !.ids = ids,
        !.start = [p \in Player |-> IF p \in l.want THEN start[p] ELSE 0],
        !.rows = IF t.format = "round_robin"
                   THEN Concat(plan) ELSE StorePairings(first, 1),
        !.rounds = IF t.format = "round_robin" THEN Len(plan)
                   ELSE IF l.rounds > 0 THEN l.rounds
                   ELSE SuggestedRounds(Len(ids))])

(***************************************************************************)
(* loadRoster, and all that is computed from the ratings it read.          *)
(***************************************************************************)
LoadRoster(h) ==
  /\ local[h].pc = "loadRoster"
  /\ IF Cardinality(local[h].want) < 2 THEN Goto(h, Idle)
     ELSE \E ids \in Seedings(local[h].want) : SeedField(h, ids)
  /\ UNCHANGED <<t, roster, pairings, games, rating, cut>>

\* The rows of the roster, in the order the primary key gives them.
RosterRows(l) == [ids |-> InOrder(RangeOf(l.ids)), start |-> l.start]

\* SetTournamentRoster, a transaction that replaces the roster.
SetRoster(h) ==
  /\ local[h].pc = "setRoster"
  /\ roster' = RosterRows(local[h])
  /\ Goto(h, [local[h] EXCEPT !.pc = "insertOpening"])
  /\ UNCHANGED <<t, pairings, games, rating, cut>>

\* InsertPairings, a transaction.
Insert(h) ==
  /\ Len(pairings) + Len(local[h].rows) <= MaxPairings
  /\ pairings' = pairings \o local[h].rows
  /\ UNCHANGED <<t, roster, games, rating, cut>>

InsertOpening(h) ==
  /\ local[h].pc = "insertOpening"
  /\ Insert(h)
  /\ Goto(h, [local[h] EXCEPT !.pc = "setRounds", !.rows = <<>>])

SetRounds(h) ==
  /\ local[h].pc = "setRounds"
  /\ t' = [t EXCEPT !.rounds = local[h].rounds]
  /\ Goto(h, [local[h] EXCEPT !.pc = "setRunning"])
  /\ UNCHANGED <<roster, pairings, games, rating, cut>>

SetRunning(h) ==
  /\ local[h].pc = "setRunning"
  /\ t' = [t EXCEPT !.status = "running"]
  /\ Goto(h, Idle)
  /\ UNCHANGED <<roster, pairings, games, rating, cut>>

-----------------------------------------------------------------------------
\* A pairing that waits for a result.
Open(pr) == ~IsBye(pr) /\ ~Played(pr)

\* Mutant: a pairing that has a result is not rejected.
BeginResult_Again(h, i, winner) ==
  /\ local[h].pc = "idle"
  /\ Len(games) < MaxGames
  /\ ~IsBye(pairings[i])
  /\ Goto(h, [Idle EXCEPT !.pc = "recordGame", !.pair = i, !.winner = winner])
  /\ UNCHANGED <<t, roster, pairings, games, rating, cut>>

(***************************************************************************)
(* RecordPairingResult.  PairingByID and its checks; nothing looks at the  *)
(* status of the tournament.                                               *)
(***************************************************************************)
BeginResult(h, i, winner) ==
  /\ local[h].pc = "idle"
  /\ Len(games) < MaxGames
  /\ Open(pairings[i])
  /\ Goto(h, [Idle EXCEPT !.pc = "recordGame", !.pair = i, !.winner = winner])
  /\ UNCHANGED <<t, roster, pairings, games, rating, cut>>

\* RecordGame: the game is in, the ratings have moved.
RecordGame(h, now) ==
  LET l == local[h]
  IN  /\ l.pc = "recordGame"
      /\ Len(games) < MaxGames
      /\ games' = Append(games,
           [pair |-> l.pair, black |-> pairings[l.pair].black,
            white |-> pairings[l.pair].white, winner |-> l.winner])
      /\ rating' = now
      /\ Goto(h, [l EXCEPT !.pc = "setResult", !.game = Len(games) + 1])
      /\ UNCHANGED <<t, roster, pairings, cut>>

\* Mutant: the link goes to the last game of the table.
ResultRow_LastGame(pr, l) == [pr EXCEPT !.winner = l.winner, !.game = Len(games)]

ResultRow(pr, l) == [pr EXCEPT !.winner = l.winner, !.game = l.game]

SetResult(h) ==
  LET l == local[h]
  IN  /\ l.pc = "setResult"
      /\ pairings' = [pairings EXCEPT ![l.pair] = ResultRow(pairings[l.pair], l)]
      /\ Goto(h, Idle)
      /\ UNCHANGED <<t, roster, games, rating, cut>>

-----------------------------------------------------------------------------
\* GenerateNextRound.  TournamentByID and the check of the status.
BeginNext(h) ==
  /\ h \in Advancer
  /\ local[h].pc = "idle"
  /\ t.status = "running"
  /\ Goto(h, [Idle EXCEPT !.pc = "listPairings", !.rounds = t.rounds])
  /\ UNCHANGED <<t, roster, pairings, games, rating, cut>>

\* Mutant: the current round is not checked.
ListPairings_Unchecked(h) ==
  LET l == local[h]
  IN  /\ l.pc = "listPairings"
      /\ IF CurrentRound(pairings) >= l.rounds
           THEN Goto(h, [l EXCEPT !.pc = "finish"])
         ELSE IF t.format = "round_robin" THEN Goto(h, Idle)
         ELSE Goto(h, [l EXCEPT !.pc = "loadField", !.rows = pairings])
      /\ UNCHANGED <<t, roster, pairings, games, rating, cut>>

\* ListPairings, and the decision taken from the list.
ListPairings(h) ==
  LET l       == local[h]
      current == CurrentRound(pairings)
  IN  /\ l.pc = "listPairings"
      /\ IF ~RoundComplete(pairings, current) THEN Goto(h, Idle)
         ELSE IF current >= l.rounds THEN Goto(h, [l EXCEPT !.pc = "finish"])
         ELSE IF t.format = "round_robin" THEN Goto(h, Idle)
         ELSE Goto(h, [l EXCEPT !.pc = "loadField", !.rows = pairings])
      /\ UNCHANGED <<t, roster, pairings, games, rating, cut>>

(***************************************************************************)
(* ListTournamentPlayers and enginePlayers: the roster with the ratings of *)
(* now, and the next round paired from the list read before.               *)
(***************************************************************************)
LoadField(h) ==
  LET l    == local[h]
      next == McMahonRound(roster.ids, roster.start, rating, EngineResults(l.rows))
  IN  /\ l.pc = "loadField"
      /\ Goto(h, IF next = <<>> THEN [l EXCEPT !.pc = "finish"]
                 ELSE [l EXCEPT !.pc = "insertNext",
                         !.rows = StorePairings(next, CurrentRound(l.rows) + 1)])
      /\ UNCHANGED <<t, roster, pairings, games, rating, cut>>

\* Mutant: the new round replaces the ones before.
InsertNext_Replace(h) ==
  /\ local[h].pc = "insertNext"
  /\ pairings' = local[h].rows
  /\ UNCHANGED <<t, roster, games, rating, cut>>
  /\ Goto(h, Idle)

InsertNext(h) ==
  /\ local[h].pc = "insertNext"
  /\ Insert(h)
  /\ Goto(h, Idle)

Finish(h) ==
  /\ local[h].pc = "finish"
  /\ t' = [t EXCEPT !.status = "finished"]
  /\ Goto(h, Idle)
  /\ UNCHANGED <<roster, pairings, games, rating, cut>>

(***************************************************************************)
(* A request ends between two store calls: its context is cancelled, a     *)
(* statement fails, or the process is killed and started again.            *)
(***************************************************************************)
Fail(h) ==
  /\ local[h].pc \in FailAt
  /\ IF local[h].pc = "setResult"
       THEN Cardinality(cut) < MaxCuts /\ cut' = cut \cup {local[h].game}
       ELSE UNCHANGED cut
  /\ Goto(h, Idle)
  /\ UNCHANGED <<t, roster, pairings, games, rating>>

HandlerNext(h) ==
  \/ \E want \in Roster(t.format) : BeginStart(h, want)
  \/ LoadRoster(h) \/ SetRoster(h) \/ InsertOpening(h)
  \/ SetRounds(h) \/ SetRunning(h)
  \/ \E i \in 1..Len(pairings), winner \in {"black", "white"} :
       BeginResult(h, i, winner)
  \/ \E now \in Ratings : RecordGame(h, now)
  \/ SetResult(h)
  \/ BeginNext(h) \/ ListPairings(h) \/ LoadField(h) \/ InsertNext(h)
  \/ Finish(h)
  \/ Fail(h)

Next ==
  \/ \E f \in Formats, c \in Handicaps, n \in Rounds : Create(f, c, n)
  \/ \E h \in Handler : HandlerNext(h)

Spec == Init /\ [][Next]_vars
-----------------------------------------------------------------------------
PairingRow == [round : Nat \ {0}, board : Nat, black : Player,
               white : Player \cup {Ghost}, winner : {"", "black", "white", "bye"},
               game : 0..MaxGames]

PC == {"idle", "loadRoster", "setRoster", "insertOpening", "setRounds",
       "setRunning", "recordGame", "setResult", "listPairings", "loadField",
       "insertNext", "finish"}

Request == [pc : PC, want : SUBSET Player, ids : Seq(Player),
            start : [Player -> Nat], rounds : Nat, rows : Seq(PairingRow),
            pair : 0..MaxPairings, winner : {"", "black", "white"}, game : 0..MaxGames]

GameRow == [pair : 1..MaxPairings, black : Player, white : Player,
            winner : {"black", "white"}]

StoreOK ==
  /\ t \in [status : {"absent", "setup", "running", "finished"},
             format : Formats \cup {""}, handicap : BOOLEAN, rounds : Nat]
  /\ roster \in [ids : Seq(Player), start : [Player -> Nat]]
  /\ pairings \in Seq(PairingRow) /\ Len(pairings) <= MaxPairings
  /\ games \in Seq(GameRow) /\ Len(games) <= MaxGames
  /\ rating \in Ratings

TypeOK == StoreOK /\ local \in [Handler -> Request]

InRound(r) == {i \in 1..Len(pairings) : pairings[i].round = r}
Paired(i) == {pairings[i].black, pairings[i].white} \ {Ghost}
AtRest == \A h \in Handler : local[h].pc = "idle"

(***************************************************************************)
(* A pairing with a game is linked to a game that was played for it, by    *)
(* its two players with its colours, and won by the colour it says -       *)
(* also when several results for one pairing are recorded at once.         *)
(***************************************************************************)
LinkMatches ==
  \A i \in 1..Len(pairings) : pairings[i].game # 0 =>
    /\ pairings[i].game \in 1..Len(games)
    /\ games[pairings[i].game] =
         [pair |-> i, black |-> pairings[i].black, white |-> pairings[i].white,
          winner |-> pairings[i].winner]

(***************************************************************************)
(* "already-played pairings are rejected": a pairing moves the ratings     *)
(* once.                                                                   *)
(* The code does not keep this: MCTournament_two_results.                  *)
(***************************************************************************)
GamePerPairing ==
  \A f, g \in 1..Len(games) : games[f].pair = games[g].pair => f = g

(***************************************************************************)
(* "writes the underlying rating game [...] and links it to the pairing":  *)
(* between requests, every pairing that a game was recorded for shows one. *)
(* The code does not keep this: MCTournament_result_retried.               *)
(***************************************************************************)
EveryGameShown ==
  AtRest => \A g \in 1..Len(games) : pairings[games[g].pair].game # 0

\* A request has recorded game g and is about to link it.
UnderWay(g) == \E h \in Handler : local[h].pc = "setResult" /\ local[h].game = g

(***************************************************************************)
(* "already-played pairings are rejected", as far as the code keeps it: a  *)
(* request goes on to record a game for a pairing only if every game that  *)
(* was recorded for it is still in the hands of another request, or was    *)
(* left behind by one that ended before it could link it.  A game that was *)
(* linked once is never rated again, whatever came between.                *)
(***************************************************************************)
SecondGameExplained ==
  [][\A h \in Handler :
       local[h].pc = "idle" /\ local'[h].pc = "recordGame" =>
         \A g \in 1..Len(games) :
           games[g].pair = local'[h].pair => g \in cut \/ UnderWay(g)]_vars

(***************************************************************************)
(* Once the tournament runs, every round has every player of the roster    *)
(* exactly once, and nobody else.                                          *)
(***************************************************************************)
RoundsSeatRoster ==
  t.status \in {"running", "finished"} =>
    \A r \in 1..CurrentRound(pairings) :
      /\ UNION {Paired(i) : i \in InRound(r)} = RangeOf(roster.ids)
      /\ \A i, j \in InRound(r) : i # j => Paired(i) \cap Paired(j) = {}

(***************************************************************************)
(* In a running round robin "every player meets every other exactly once": *)
(* any two players of the roster have one pairing, not none and not two.   *)
(***************************************************************************)
EveryoneMeetsOnce ==
  t.status \in {"running", "finished"} /\ t.format = "round_robin" =>
    \A x, y \in RangeOf(roster.ids) : x # y =>
      Cardinality({i \in 1..Len(pairings) : Paired(i) = {x, y}}) = 1

(***************************************************************************)
(* A McMahon round is paired from the full results of the one before: no   *)
(* game of a round is open once the next round is there.  Once the         *)
(* tournament is finished, all games of all rounds planned are played.     *)
(***************************************************************************)
RoundsInOrder ==
  t.format = "mcmahon" =>
    /\ \A i, j \in 1..Len(pairings) :
         pairings[i].round < pairings[j].round => Played(pairings[i])
    /\ t.status = "finished" =>
         /\ \A i \in 1..Len(pairings) : Played(pairings[i])
         /\ CurrentRound(pairings) = t.rounds

(***************************************************************************)
(* "Finish once all is played" (GenerateNextRound, on the round robin).    *)
(* The code does not keep this: MCTournament_round_robin.                  *)
(***************************************************************************)
FinishedAllPlayed ==
  t.status = "finished" => \A i \in 1..Len(pairings) : Played(pairings[i])

Order(s) == CASE s = "absent" -> 0 [] s = "setup" -> 1
              [] s = "running" -> 2 [] s = "finished" -> 3

(***************************************************************************)
(* "status walks 'setup' -> 'running' -> 'finished'" (schema.sql).         *)
(* The code does not keep this: MCTournament_two_starts.                   *)
(***************************************************************************)
StatusForward == [][Order(t'.status) \in Order(t.status)..(Order(t.status) + 1)]_vars

(***************************************************************************)
(* The pairing rows are only added, and a result stays, also while rounds  *)
(* are paired and stored - unless a second request has recorded a game for *)
(* the same pairing, which is the only way to another result.              *)
(***************************************************************************)
RatedOnce(i) == Cardinality({g \in 1..Len(games) : games[g].pair = i}) <= 1

ResultsStay ==
  [][\A i \in 1..Len(pairings) :
       /\ i <= Len(pairings')
       /\ Played(pairings[i]) /\ RatedOnce(i) => pairings'[i] = pairings[i]]_vars
=============================================================================
