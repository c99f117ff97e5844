---------------------------- MODULE PlayerTools ----------------------------
(***************************************************************************)
(* The MCP tools that change players and record games by name: add_player, *)
(* update_player and record_game, beside the tools of GroupAdmins.  They   *)
(* find a player by his name, which is not unique and may change, in one   *)
(* statement, and write to his id in another.  The tools that only read    *)
(* (list_players, ranking, recommend_handicap) are left out.               *)
(***************************************************************************)
EXTENDS GroupAdmins, Sequences

CONSTANTS
  Name,         \* names of players
  Caller,       \* goroutines that serve these tools
  Change,       \* bound: the changes that update_player is asked for
  AtOnce,       \* bound on the tool calls in progress
  MaxPlayers,   \* bound on the rows of players
  MaxGames      \* bound on the games recorded

ASSUME ToolsAssumption ==
  /\ None \notin Name
  /\ Change \subseteq [name : Name \cup {None}, active : BOOLEAN \cup {None}]
  /\ MaxPlayers \in Nat /\ MaxGames \in Nat

VARIABLES
  players,   \* the rows of players, by id
  games,     \* the games recorded by name
  call       \* call[c]: program counter, arguments and local variables

toolVars == <<vars, players, games, call>>

NoCall == [pc |-> "idle", me |-> None, group |-> None, name |-> None, other |-> None,
           change |-> [name |-> None, active |-> None], id |-> 0, white |-> 0,
           row |-> None, crossed |-> FALSE]

ToolsInit ==
  /\ Init
  /\ players = <<>>
  /\ games = <<>>
  /\ call = [c \in Caller |-> NoCall]

\* resolveAdminGroup: the caller is an admin now; l are the arguments.
Begin(c, u, g, l) ==
  /\ call[c].pc = "idle"
  /\ email[u] # None /\ g \in groups /\ IsGroupAdmin(u, g)
  /\ call' = [call EXCEPT ![c] = l]
  /\ UNCHANGED <<vars, players, games>>

Asked(u, g, pc, name) == [NoCall EXCEPT !.pc = pc, !.me = u, !.group = g, !.name = name]

BeginAdd(c, u, g, n) == Begin(c, u, g, Asked(u, g, "insert", n))

BeginUpdate(c, u, g, n, change) ==
  Begin(c, u, g, [Asked(u, g, "find", n) EXCEPT !.change = change])

BeginGame(c, u, g, black, white) ==
  Begin(c, u, g, [Asked(u, g, "findBlack", black) EXCEPT !.other = white])

-----------------------------------------------------------------------------
\* CreatePlayer; players(group_id, name) is not unique.
AddPlayer(c) ==
  /\ call[c].pc = "insert"
  /\ Len(players) < MaxPlayers
  /\ players' = Append(players, [group |-> call[c].group, name |-> call[c].name,
                                 active |-> TRUE])
  /\ call' = [call EXCEPT ![c] = NoCall]
  /\ UNCHANGED <<vars, games>>

Named(g, n) == {i \in 1..Len(players) : players[i].group = g /\ players[i].name = n}

(***************************************************************************)
(* PlayerByGroupAndName: one of the rows, in no order; with none the call  *)
(* ends.  found[id] is the caller's next state.                            *)
(***************************************************************************)
LookUp(c, from, n, found) ==
  /\ call[c].pc = from
  /\ LET ids == Named(call[c].group, n)
     IN  IF ids = {} THEN call' = [call EXCEPT ![c] = NoCall]
         ELSE \E i \in ids : call' = [call EXCEPT ![c] = found[i]]
  /\ UNCHANGED <<vars, players, games>>

\* Mutant: a missing argument means active.
Merged_Active(row, change) ==
  [row EXCEPT !.name = IF change.name = None THEN @ ELSE change.name,
              !.active = IF change.active = None THEN TRUE ELSE change.active]

\* toolUpdatePlayer: what is not given stays as it was read.
Merged(row, change) ==
  [row EXCEPT !.name = IF change.name = None THEN @ ELSE change.name,
              !.active = IF change.active = None THEN @ ELSE change.active]

Find(c) ==
  LookUp(c, "find", call[c].name,
         [i \in 1..Len(players) |-> [call[c] EXCEPT !.pc = "update", !.id = i,
                                    !.row = Merged(players[i], call[c].change)]])

\* UpdatePlayer writes both columns; the calls at the same player are crossed.
Update(c) ==
  LET l == call[c]
  IN  /\ l.pc = "update"
      /\ players' = [players EXCEPT ![l.id] = l.row]
      /\ call' = [d \in Caller |->
           IF d = c THEN NoCall
           ELSE IF l.id \in {call[d].id, call[d].white} THEN [call[d] EXCEPT !.crossed = TRUE]
           ELSE call[d]]
      /\ UNCHANGED <<vars, games>>

\* Mutant: the names the other way round.
FindBlack_White(c) ==
  LookUp(c, "findBlack", call[c].other,
         [i \in 1..Len(players) |-> [call[c] EXCEPT !.pc = "findWhite", !.id = i]])

FindBlack(c) ==
  LookUp(c, "findBlack", call[c].name,
         [i \in 1..Len(players) |-> [call[c] EXCEPT !.pc = "findWhite", !.id = i]])

FindWhite(c) ==
  LookUp(c, "findWhite", call[c].other,
         [i \in 1..Len(players) |-> [call[c] EXCEPT !.pc = "record", !.white = i]])

\* Service.RecordGame, with its checks on the two ids.
RecordGame(c) ==
  LET l == call[c]
  IN  /\ l.pc = "record"
      /\ IF l.id = l.white \/ \E i \in {l.id, l.white} : players[i].group # l.group
           THEN UNCHANGED games
           ELSE /\ Len(games) < MaxGames
                /\ games' = Append(games, [group |-> l.group, black |-> l.id,
                                           white |-> l.white])
      /\ call' = [call EXCEPT ![c] = NoCall]
      /\ UNCHANGED <<vars, players>>

\* A store call fails, or the server dies.
Abandon(c) ==
  /\ call[c].pc # "idle"
  /\ call' = [call EXCEPT ![c] = NoCall]
  /\ UNCHANGED <<vars, players, games>>

CallerNext(c) ==
  \/ \E u \in User, g \in Group, n \in Name :
       \/ BeginAdd(c, u, g, n)
       \/ \E change \in Change : BeginUpdate(c, u, g, n, change)
       \/ \E m \in Name : BeginGame(c, u, g, n, m)
  \/ AddPlayer(c) \/ Find(c) \/ Update(c)
  \/ FindBlack(c) \/ FindWhite(c) \/ RecordGame(c)
  \/ Abandon(c)

InProgress == {h \in Handler : req[h].pc # "idle"} \cup {c \in Caller : call[c].pc # "idle"}

ToolsNext ==
  /\ \/ Next /\ UNCHANGED <<players, games, call>>
     \/ \E c \in Caller : CallerNext(c)
  /\ Cardinality(InProgress') <= AtOnce

ToolsSpec == ToolsInit /\ [][ToolsNext]_toolVars

-----------------------------------------------------------------------------
\* The rows, and the ids that calls and games refer to.
ToolsTypeOK ==
  /\ TypeOK
  /\ players \in Seq([group : groups, name : Name, active : BOOLEAN])
  /\ \A i \in 1..Len(games) :
       games[i].black \in 1..Len(players) /\ games[i].white \in 1..Len(players)
  /\ \A c \in Caller : call[c].id \in 0..Len(players)

(***************************************************************************)
(* The players and games of a group change only by a call for this group   *)
(* of somebody who is or was its admin, however late the call writes.      *)
(***************************************************************************)
AskedByAdmin ==
  [][\A g \in Group :
       LET rows(t) == {<<i, t[i]>> : i \in {j \in 1..Len(t) : t[j].group = g}}
       IN  rows(players') # rows(players) \/ rows(games') # rows(games) =>
             \E c \in Caller : call[c].group = g /\ call'[c] = NoCall
                                 /\ <<call[c].me, g>> \in ever]_toolVars

(***************************************************************************)
(* An update changes nothing it was not asked to change, in a row that had *)
(* the name it was asked to look for, unless an update of the same player  *)
(* came between its read and its write.                                    *)
(***************************************************************************)
UpdateKeepsRest ==
  [][\A c \in Caller :
       LET l == call[c]
       IN  Update(c) /\ ~l.crossed =>
             /\ players[l.id].name = l.name
             /\ l.change.name = None => players'[l.id].name = players[l.id].name
             /\ l.change.active = None => players'[l.id].active = players[l.id].active
    ]_toolVars

(***************************************************************************)
(* A game is recorded for the names it was reported for: players who bear  *)
(* them in the group, black the one and white the other, unless a player   *)
(* was renamed since his name was looked up.                               *)
(***************************************************************************)
GameOfNamed ==
  [][\A c \in Caller :
       LET l == call[c]
       IN  RecordGame(c) /\ games' # games /\ ~l.crossed =>
             /\ players[games'[Len(games')].black].name = l.name
             /\ players[games'[Len(games')].white].name = l.other]_toolVars

(***************************************************************************)
(* "so callers can identify players without having to remember numeric     *)
(* IDs" (PlayerByGroupAndName): a name means one player of the group.  The *)
(* code does not see to it: MCPlayerTools_same_name.                       *)
(***************************************************************************)
OnePerName == \A g \in Group, n \in Name : Cardinality(Named(g, n)) <= 1

(***************************************************************************)
(* Two updates that change one thing each both take effect.  They need     *)
(* not: MCPlayerTools_two_updates.                                         *)
(***************************************************************************)
BothTakeEffect ==
  [][\A c \in Caller :
       LET l == call[c]
       IN  Update(c) =>
             /\ l.change.name = None => players'[l.id].name = players[l.id].name
             /\ l.change.active = None => players'[l.id].active = players[l.id].active
    ]_toolVars
=============================================================================
