------------------------------ MODULE Migration ------------------------------
(***************************************************************************)
(* store.Open on the database files of all versions: v1 (games belong to a *)
(* session), v2 (games belong to a group), v3 (Glicko-2 ratings) and the   *)
(* present one (users have a language).  Each Process is a run of the      *)
(* binary, the server or `go-liga recompute`; it inspects the tables, and  *)
(* migrates what it found old, step after step, each change a transaction. *)
(* A process may die between two steps, and is started again.              *)
(*                                                                         *)
(* A rating is known by how it came about: the games behind it, and how    *)
(* often it was converted from the EGF to the OGS scale.                   *)
(***************************************************************************)
EXTENDS Integers, FiniteSets

CONSTANTS
  Process,     \* runs of the binary
  Old,         \* ids of the games of the old database
  Fresh,       \* ids of games recorded later
  Player,      \* ids of players
  Veteran,     \* the players of the old games
  ReadErrors,  \* TRUE: the look for the table sessions may fail
  MaxCrashes   \* bound on the crashes

ASSUME MigrationAssumption ==
  /\ Old \cap Fresh = {}
  /\ Veteran \subseteq Player
  /\ ReadErrors \in BOOLEAN
  /\ MaxCrashes \in Nat

VARIABLES
  games,     \* table games: its columns, and the scale of each row's snapshot
  sessions,  \* TRUE: table sessions is there, with the sessions of all old games
  players,   \* table players: its columns and rows
  language,  \* table users: "none", "without" or "with" the column language
  proc,      \* proc[q]: program counter of Open, and what it has read
  crashes,   \* crashes so far
  initial    \* history: the games that should be there

vars == <<games, sessions, players, language, proc, crashes, initial>>

Closed == [pc |-> "closed", sessions |-> FALSE]

\* A player's rating and seed: are games behind them, and on which scale.
Rating == [after : 0..1, seed : 0..1, scale : Nat]

\* The players of an old database: the veterans, and some who never played.
PlayerRows(scale) ==
  {[p \in S |-> [after |-> IF p \in Veteran THEN 1 ELSE 0, seed |-> 0, scale |-> scale]] :
     S \in {S \in SUBSET Player : Veteran \subseteq S}}

InitTables ==
  \/ \* no database
     /\ games = [cols |-> "none", rows |-> [i \in {} |-> 0]]
     /\ players = [cols |-> "none", rows |-> [p \in {} |-> 0]]
     /\ sessions = FALSE /\ language = "none"
  \/ \* v1; the table sessions may be gone already
     /\ games = [cols |-> "session", rows |-> [i \in Old |-> 0]]
     /\ \E rows \in PlayerRows(0) : players = [cols |-> "gor", rows |-> rows]
     /\ sessions \in BOOLEAN /\ language = "without"
  \/ \* v2
     /\ games = [cols |-> "group", rows |-> [i \in Old |-> 0]]
     /\ \E rows \in PlayerRows(0) : players = [cols |-> "gor", rows |-> rows]
     /\ sessions = FALSE /\ language = "without"
  \/ \* v3
     /\ games = [cols |-> "group", rows |-> [i \in Old |-> 1]]
     /\ \E rows \in PlayerRows(1) : players = [cols |-> "glicko", rows |-> rows]
     /\ sessions = FALSE /\ language = "without"

Init ==
  /\ InitTables
  /\ proc = [q \in Process |-> Closed]
  /\ crashes = 0
  /\ initial = IF games.cols = "session" /\ ~sessions THEN {} ELSE DOMAIN games.rows

Goto(q, pc) == proc' = [proc EXCEPT ![q].pc = pc]

-----------------------------------------------------------------------------
Open(q) ==
  /\ proc[q].pc = "closed"
  /\ proc' = [proc EXCEPT ![q] = [Closed EXCEPT !.pc = "inspectGames"]]
  /\ UNCHANGED <<games, sessions, players, language, crashes, initial>>

\* migrate: the columns of games.
InspectGames(q) ==
  /\ proc[q].pc = "inspectGames"
  /\ Goto(q, IF games.cols = "session" THEN "lookForSessions" ELSE "inspectPlayers")
  /\ UNCHANGED <<games, sessions, players, language, crashes, initial>>

\* What is found of the table sessions; a read that fails finds none.
SessionsSeen == IF ReadErrors THEN {sessions, FALSE} ELSE {sessions}

\* migrate: sqlite_master is asked for the table sessions; an error is not looked at.
LookForSessions(q) ==
  /\ proc[q].pc = "lookForSessions"
  /\ \E seen \in SessionsSeen :
       proc' = [proc EXCEPT ![q] = [pc |-> "rebuildGames", sessions |-> seen]]
  /\ UNCHANGED <<games, sessions, players, language, crashes, initial>>

\* Mutant: the rows are not copied.
Rebuilt_Empty(q) == [i \in {} |-> 0]

\* The rows of games_new: the join of games and sessions, if there was one.
Rebuilt(q) == IF proc[q].sessions THEN games.rows ELSE [i \in {} |-> 0]

(***************************************************************************)
(* migrate: the transaction that replaces games.  The join fails if        *)
(* games or sessions have changed since they were inspected; Open then     *)
(* returns an error, and the process ends.                                 *)
(***************************************************************************)
RebuildGames(q) ==
  /\ proc[q].pc = "rebuildGames"
  /\ IF proc[q].sessions /\ ~(sessions /\ games.cols = "session")
       THEN Goto(q, "closed") /\ UNCHANGED <<games, sessions>>
       ELSE /\ games' = [cols |-> "group", rows |-> Rebuilt(q)]
            /\ sessions' = FALSE
            /\ Goto(q, "inspectPlayers")
  /\ UNCHANGED <<players, language, crashes, initial>>

\* Mutant: the new columns are not looked for.
InspectPlayers_Always(q) ==
  /\ proc[q].pc = "inspectPlayers"
  /\ Goto(q, IF players.cols # "none" THEN "convert" ELSE "inspectUsers")
  /\ UNCHANGED <<games, sessions, players, language, crashes, initial>>

\* migrateRatings: the columns of players.
InspectPlayers(q) ==
  /\ proc[q].pc = "inspectPlayers"
  /\ Goto(q, IF players.cols = "gor" THEN "convert" ELSE "inspectUsers")
  /\ UNCHANGED <<games, sessions, players, language, crashes, initial>>

\* Mutant: the snapshots of the games keep the old scale.
ConvertedGames_Not == games

ConvertedGames == [games EXCEPT !.rows = [i \in DOMAIN games.rows |-> games.rows[i] + 1]]

\* The rating the player has becomes rating and seed.
ConvertedPlayers ==
  [cols |-> "glicko",
   rows |-> [p \in DOMAIN players.rows |->
     LET r == players.rows[p]
     IN  [after |-> r.after, seed |-> r.after, scale |-> r.scale + 1]]]

(***************************************************************************)
(* migrateRatings: the transaction that adds the columns and converts all  *)
(* ratings.  Adding a column that is there is an error, and Open fails.    *)
(***************************************************************************)
Convert(q) ==
  /\ proc[q].pc = "convert"
  /\ IF players.cols = "glicko"
       THEN Goto(q, "closed") /\ UNCHANGED <<games, players>>
       ELSE /\ games' = ConvertedGames
            /\ players' = ConvertedPlayers
            /\ Goto(q, "inspectUsers")
  /\ UNCHANGED <<sessions, language, crashes, initial>>

\* migrateUserLanguage: the columns of users.
InspectUsers(q) ==
  /\ proc[q].pc = "inspectUsers"
  /\ Goto(q, IF language = "without" THEN "addLanguage" ELSE "schema")
  /\ UNCHANGED <<games, sessions, players, language, crashes, initial>>

AddLanguage(q) ==
  /\ proc[q].pc = "addLanguage"
  /\ IF language = "with" THEN Goto(q, "closed") /\ UNCHANGED language
                          ELSE Goto(q, "schema") /\ language' = "with"
  /\ UNCHANGED <<games, sessions, players, crashes, initial>>

\* schema.sql: every table that is not there is created.
Schema(q) ==
  /\ proc[q].pc = "schema"
  /\ games' = IF games.cols = "none" THEN [games EXCEPT !.cols = "group"] ELSE games
  /\ players' = IF players.cols = "none" THEN [players EXCEPT !.cols = "glicko"]
                                         ELSE players
  /\ language' = IF language = "none" THEN "with" ELSE language
  /\ Goto(q, "open")
  /\ UNCHANGED <<sessions, crashes, initial>>

\* The open store is used: a player is added, a game is recorded.
AddPlayer(q, p) ==
  /\ proc[q].pc = "open"
  /\ p \notin DOMAIN players.rows
  /\ players' = [players EXCEPT !.rows =
       [x \in DOMAIN players.rows \cup {p} |->
          IF x = p THEN [after |-> 0, seed |-> 0, scale |-> 1] ELSE players.rows[x]]]
  /\ UNCHANGED <<games, sessions, language, proc, crashes, initial>>

RecordGame(q, i, b, w) ==
  /\ proc[q].pc = "open"
  /\ b # w /\ {b, w} \subseteq DOMAIN players.rows
  /\ i \notin DOMAIN games.rows
  /\ games' = [games EXCEPT !.rows =
       [x \in DOMAIN games.rows \cup {i} |-> IF x = i THEN 1 ELSE games.rows[x]]]
  /\ players' = [players EXCEPT !.rows[b].after = 1, !.rows[w].after = 1]
  /\ initial' = initial \cup {i}
  /\ UNCHANGED <<sessions, language, proc, crashes>>

\* The process dies, or is stopped.
Crash(q) ==
  /\ proc[q].pc # "closed"
  /\ crashes < MaxCrashes
  /\ crashes' = crashes + 1
  /\ proc' = [proc EXCEPT ![q] = Closed]
  /\ UNCHANGED <<games, sessions, players, language, initial>>

OpenStep(q) ==
  \/ Open(q)
  \/ InspectGames(q) \/ LookForSessions(q) \/ RebuildGames(q)
  \/ InspectPlayers(q) \/ Convert(q)
  \/ InspectUsers(q) \/ AddLanguage(q) \/ Schema(q)

Next ==
  \E q \in Process :
    \/ OpenStep(q)
    \/ \E p \in Player : AddPlayer(q, p)
    \/ \E i \in Fresh, b, w \in Player : RecordGame(q, i, b, w)
    \/ Crash(q)

Spec == Init /\ [][Next]_vars

(***************************************************************************)
(* A process that opens the store goes on, and one that ended is started   *)
(* again: the server by its deployment, the recompute by its user.         *)
(***************************************************************************)
FairSpec == Spec /\ \A q \in Process : WF_vars(OpenStep(q))

-----------------------------------------------------------------------------
IsOpen(q) == proc[q].pc = "open"

(***************************************************************************)
(* Types, and: the table sessions is there only as long as games refers to *)
(* it.                                                                     *)
(***************************************************************************)
TypeOK ==
  /\ games.cols \in {"none", "session", "group"}
  /\ DOMAIN games.rows \subseteq Old \cup Fresh
  /\ sessions \in BOOLEAN /\ (sessions => games.cols = "session")
  /\ players.cols \in {"none", "gor", "glicko"}
  /\ DOMAIN players.rows \subseteq Player
  /\ \A p \in DOMAIN players.rows : players.rows[p] \in Rating
  /\ language \in {"none", "without", "with"}
  /\ proc \in [Process -> [pc : {"closed", "inspectGames", "lookForSessions",
       "rebuildGames", "inspectPlayers", "convert", "inspectUsers", "addLanguage",
       "schema", "open"}, sessions : BOOLEAN]]
  /\ crashes \in 0..MaxCrashes

(***************************************************************************)
(* However the runs of Open interleave and crash, no rating is converted   *)
(* twice, and an open store has the present schema and no rating that is   *)
(* not converted: all are on the scale of the code that reads them.        *)
(***************************************************************************)
ConvertedOnce ==
  /\ \A p \in DOMAIN players.rows : players.rows[p].scale \in 0..1
  /\ \A i \in DOMAIN games.rows : games.rows[i] \in 0..1
  /\ (\E q \in Process : IsOpen(q)) =>
       /\ games.cols = "group" /\ players.cols = "glicko" /\ language = "with"
       /\ \A p \in DOMAIN players.rows : players.rows[p].scale = 1
       /\ \A i \in DOMAIN games.rows : games.rows[i] = 1

(***************************************************************************)
(* "Existing rows survive" (the comment in migrate): every game with a     *)
(* group is still there, and so is every game recorded since.              *)
(* The code does not keep this: Migration_games_lost.                      *)
(***************************************************************************)
GamesSurvive == initial \subseteq DOMAIN games.rows

\* A process found games with sessions; another one has rebuilt the table since.
Overtaken == games.cols # "session"

\* The sessions are there; a process that has not found them could not read.
Misread(q) == sessions /\ ~proc[q].sessions

(***************************************************************************)
(* Existing rows survive every step of every run of Open, except where a   *)
(* process rebuilds games without the old rows because another one has     *)
(* rebuilt them since this one looked, or because its look for the table   *)
(* sessions failed: there, and nowhere else, GamesSurvive is lost.         *)
(***************************************************************************)
SurviveUnlessMistaken ==
  [][(initial \subseteq DOMAIN games.rows) /\ ~(initial' \subseteq DOMAIN games'.rows) =>
       \E q \in Process :
         /\ proc[q].pc = "rebuildGames" /\ proc'[q].pc = "inspectPlayers"
         /\ ~proc[q].sessions
         /\ Overtaken \/ Misread(q)]_vars

(***************************************************************************)
(* Every process gets its store open, though a concurrent migration may    *)
(* make one fail: the next try finds the work done.                        *)
(***************************************************************************)
OpenSucceeds == \A q \in Process : <>IsOpen(q)

(***************************************************************************)
(* "seed_rating is the strength estimate the player started from"          *)
(* (schema.sql): no game is behind a seed.                                 *)
(* The code does not keep this: Migration_seeds.                           *)
(***************************************************************************)
SeedIsStart == \A p \in DOMAIN players.rows : players.rows[p].seed = 0
=============================================================================
