----------------------------- MODULE StartProofs -----------------------------
(***************************************************************************)
(* Proofs about what comes before the work: the database is brought up to  *)
(* date when the store is opened (Migration), and the person signs in      *)
(* (Login).                                                                *)
(***************************************************************************)
EXTENDS Migration, Login, TLAPS

-----------------------------------------------------------------------------
(* The store is opened                                                     *)

PC == {"closed", "inspectGames", "lookForSessions", "rebuildGames", "inspectPlayers",
       "convert", "inspectUsers", "addLanguage", "schema", "open"}

\* Where games, players and users have been looked after.
GamesDone == {"inspectPlayers", "convert", "inspectUsers", "addLanguage", "schema", "open"}
PlayersDone == {"inspectUsers", "addLanguage", "schema", "open"}

Scales(k) ==
  /\ \A p \in DOMAIN players.rows : players.rows[p].scale = k
  /\ \A i \in DOMAIN games.rows : games.rows[i] = k

Tables ==
  /\ games = [cols |-> games.cols, rows |-> games.rows]
  /\ games.rows = [i \in DOMAIN games.rows |-> games.rows[i]]
  /\ games.cols \in {"none", "session", "group"}
  /\ players = [cols |-> players.cols, rows |-> players.rows]
  /\ players.rows \in [DOMAIN players.rows -> Rating]
  /\ players.cols \in {"none", "gor", "glicko"}
  /\ sessions \in BOOLEAN /\ language \in {"none", "without", "with"}
  /\ proc \in [Process -> [pc : PC, sessions : BOOLEAN]]

\* The columns tell the scale, and whether there are any rows.
ColumnsTell ==
  /\ players.cols = "gor" => Scales(0)
  /\ players.cols = "glicko" => Scales(1)
  /\ players.cols = "none" => DOMAIN players.rows = {} /\ DOMAIN games.rows = {}
  /\ (players.cols = "none") <=> (games.cols = "none")
  /\ (players.cols = "none") <=> (language = "none")
  /\ games.cols = "session" /\ ~sessions => initial = {}

\* What a process has found, or done, holds of the tables whatever the others do.
Found(pc, sess) ==
  /\ pc \in {"lookForSessions", "rebuildGames"} => games.cols # "none"
  /\ pc \in GamesDone => games.cols # "session"
  /\ pc = "convert" => players.cols # "none"
  /\ pc \in PlayersDone => players.cols # "gor"
  /\ pc = "addLanguage" => language # "none"
  /\ pc \in {"schema", "open"} => language # "without"
  /\ pc = "open" => players.cols = "glicko"

(***************************************************************************)
(* The inductive invariant of store.Open.  The tables only move forward,   *)
(* so that what a process found stays true, and the transaction that       *)
(* converts the ratings is the one that adds the columns: whoever comes    *)
(* second with a stale inspection fails on the columns.                    *)
(***************************************************************************)
MigrationInv ==
  /\ Tables
  /\ ColumnsTell
  /\ \A q \in Process : Found(proc[q].pc, proc[q].sessions)

LEMMA MigrationInit_Inv == Init => MigrationInv
<1> SUFFICES ASSUME Init PROVE MigrationInv
  OBVIOUS
<1> DEFINE NoRow == [i \in {} |-> 0]
<1>1. /\ proc = [q \in Process |-> Closed]
      /\ initial = IF games.cols = "session" /\ ~sessions THEN {} ELSE DOMAIN games.rows
  BY DEF Init
<1>2. proc \in [Process -> [pc : PC, sessions : BOOLEAN]] /\ \A q \in Process : proc[q].pc = "closed"
  BY <1>1 DEF Closed, PC
<1>3. \A q \in Process : Found(proc[q].pc, proc[q].sessions)
  BY <1>2 DEF Found, GamesDone, PlayersDone
<1>4. ASSUME NEW k \in 0..1, NEW rows \in PlayerRows(k)
      PROVE  rows \in [DOMAIN rows -> Rating] /\ \A p \in DOMAIN rows : rows[p].scale = k
  <2>1. PICK S : rows = [p \in S |-> [after |-> IF p \in Veteran THEN 1 ELSE 0, seed |-> 0, scale |-> k]]
    BY DEF PlayerRows
  <2> QED
    BY <2>1 DEF Rating
<1>5. CASE /\ games = [cols |-> "none", rows |-> NoRow]
           /\ players = [cols |-> "none", rows |-> [p \in {} |-> 0]]
           /\ sessions = FALSE /\ language = "none"
  <2>1. /\ games.cols = "none" /\ games.rows = NoRow /\ DOMAIN games.rows = {}
        /\ players.cols = "none" /\ players.rows = [p \in {} |-> 0] /\ DOMAIN players.rows = {}
    BY <1>5
  <2>2. players.rows \in [DOMAIN players.rows -> Rating]
    BY <2>1
  <2> QED
    BY <1>2, <1>3, <1>5, <2>1, <2>2 DEF MigrationInv, Tables, ColumnsTell
<1>6. ASSUME NEW k \in 0..1, NEW c \in {"session", "group"}, NEW t \in {"gor", "glicko"},
             k = (IF t = "gor" THEN 0 ELSE 1),
             NEW rows \in PlayerRows(k), NEW f \in [Old -> {k}],
             games = [cols |-> c, rows |-> f],
             players = [cols |-> t, rows |-> rows],
             sessions \in BOOLEAN, language = "without"
      PROVE  MigrationInv
  <2>1. /\ games.cols = c /\ games.rows = f /\ DOMAIN games.rows = Old
        /\ players.cols = t /\ players.rows = rows
    BY <1>6
  <2>2. /\ \A i \in DOMAIN games.rows : games.rows[i] = k
        /\ games.rows = [i \in DOMAIN games.rows |-> games.rows[i]]
    BY <2>1
  <2>3. Scales(k)
    BY <1>4, <1>6, <2>1, <2>2 DEF Scales
  <2>4. Tables
    BY <1>2, <1>4, <1>6, <2>1, <2>2 DEF Tables
  <2>5. ColumnsTell
    BY <1>1, <1>6, <2>1, <2>3 DEF ColumnsTell
  <2> QED
    BY <1>3, <2>4, <2>5 DEF MigrationInv
<1>7. CASE /\ games = [cols |-> "session", rows |-> [i \in Old |-> 0]]
           /\ \E rows \in PlayerRows(0) : players = [cols |-> "gor", rows |-> rows]
           /\ sessions \in BOOLEAN /\ language = "without"
  <2>1. PICK rows \in PlayerRows(0) : players = [cols |-> "gor", rows |-> rows]
    BY <1>7
  <2>2. PICK f \in [Old -> {0}] : games = [cols |-> "session", rows |-> f]
    BY <1>7
  <2> QED
    BY <2>1, <2>2, <1>6, <1>7
<1>8. CASE /\ games = [cols |-> "group", rows |-> [i \in Old |-> 0]]
           /\ \E rows \in PlayerRows(0) : players = [cols |-> "gor", rows |-> rows]
           /\ sessions = FALSE /\ language = "without"
  <2>1. PICK rows \in PlayerRows(0) : players = [cols |-> "gor", rows |-> rows]
    BY <1>8
  <2>2. PICK f \in [Old -> {0}] : games = [cols |-> "group", rows |-> f]
    BY <1>8
  <2>3. sessions \in BOOLEAN
    BY <1>8, Zenon
  <2> QED
    BY <2>1, <2>2, <2>3, <1>6, <1>8
<1>9. CASE /\ games = [cols |-> "group", rows |-> [i \in Old |-> 1]]
           /\ \E rows \in PlayerRows(1) : players = [cols |-> "glicko", rows |-> rows]
           /\ sessions = FALSE /\ language = "without"
  <2>1. PICK rows \in PlayerRows(1) : players = [cols |-> "glicko", rows |-> rows]
    BY <1>9
  <2>2. PICK f \in [Old -> {1}] : games = [cols |-> "group", rows |-> f]
    BY <1>9
  <2>3. sessions \in BOOLEAN
    BY <1>9, Zenon
  <2> QED
    BY <2>1, <2>2, <2>3, <1>6, <1>9
<1> QED
  BY <1>5, <1>7, <1>8, <1>9 DEF Init, InitTables

\* The tables move forward.
Forward ==
  /\ games.cols # "none" => games'.cols # "none"
  /\ games'.cols = "session" => games.cols = "session"
  /\ players.cols # "none" => players'.cols # "none"
  /\ players.cols # "gor" => players'.cols # "gor"
  /\ players.cols = "glicko" => players'.cols = "glicko"
  /\ language # "none" => language' # "none"
  /\ language # "without" => language' # "without"

Moved(q, pc, sess) == proc' = [proc EXCEPT ![q] = [pc |-> pc, sessions |-> sess]]

\* A step in which one process comes to pc.
LEMMA StepTo ==
  ASSUME MigrationInv, Tables', ColumnsTell', Forward,
         NEW q \in Process, NEW pc, NEW sess, Moved(q, pc, sess), Found(pc, sess)'
  PROVE  MigrationInv'
<1>1. \A r \in Process : Found(proc[r].pc, proc[r].sessions)
  BY DEF MigrationInv
<1>2. proc \in [Process -> [pc : PC, sessions : BOOLEAN]]
  BY DEF MigrationInv, Tables
<1>3. /\ proc'[q].pc = pc /\ proc'[q].sessions = sess
      /\ \A r \in Process \ {q} : proc'[r] = proc[r]
  BY <1>2 DEF Moved
<1>4. ASSUME NEW r \in Process \ {q} PROVE Found(proc[r].pc, proc[r].sessions)'
  <2>1. Found(proc[r].pc, proc[r].sessions) /\ proc'[r].pc = proc[r].pc
        /\ proc'[r].sessions = proc[r].sessions
    BY <1>1, <1>3
  <2> QED
    BY <2>1 DEF Found, Forward
<1>5. Found(proc[q].pc, proc[q].sessions)'
  BY <1>3 DEF Found
<1> QED
  BY <1>4, <1>5 DEF MigrationInv

\* A step of one process that leaves the tables alone.
LEMMA StepOnly ==
  ASSUME MigrationInv, UNCHANGED <<games, sessions, players, language, initial>>,
         NEW q \in Process, NEW pc \in PC, NEW sess \in BOOLEAN, Moved(q, pc, sess),
         Found(pc, sess)
  PROVE  MigrationInv'
<1>1. Tables'
  <2>1. proc' \in [Process -> [pc : PC, sessions : BOOLEAN]]
    BY DEF MigrationInv, Tables, Moved
  <2> QED
    BY <2>1 DEF MigrationInv, Tables
<1>2. ColumnsTell' /\ Forward
  BY DEF MigrationInv, ColumnsTell, Scales, Forward
<1>3. Found(pc, sess)'
  BY DEF Found
<1> QED
  BY <1>1, <1>2, <1>3, StepTo

LEMMA GotoMoves ==
  ASSUME MigrationInv, NEW q \in Process, NEW pc \in PC, Goto(q, pc)
  PROVE  /\ Moved(q, pc, proc[q].sessions) /\ proc[q].sessions \in BOOLEAN
         /\ proc' \in [Process -> [pc : PC, sessions : BOOLEAN]]
<1>1. proc \in [Process -> [pc : PC, sessions : BOOLEAN]]
  BY DEF MigrationInv, Tables
<1>2. [proc[q] EXCEPT !.pc = pc] = [pc |-> pc, sessions |-> proc[q].sessions]
  BY <1>1
<1>3. proc' = [proc EXCEPT ![q] = [proc[q] EXCEPT !.pc = pc]]
  BY DEF Goto
<1> QED
  BY <1>1, <1>2, <1>3 DEF Moved

LEMMA MigrationNext_Inv == MigrationInv /\ [Next]_vars => MigrationInv'
<1> SUFFICES ASSUME MigrationInv, [Next]_vars PROVE MigrationInv'
  OBVIOUS
<1>t. Tables /\ ColumnsTell
  BY DEF MigrationInv
<1>f. \A q \in Process : /\ Found(proc[q].pc, proc[q].sessions)
                         /\ proc[q].pc \in PC /\ proc[q].sessions \in BOOLEAN
  BY DEF MigrationInv, Tables
<1>g. ASSUME NEW q \in Process, NEW pc \in PC, Goto(q, pc), Found(pc, proc[q].sessions),
             UNCHANGED <<games, sessions, players, language, initial>>
      PROVE  MigrationInv'
  <2> DEFINE sess == proc[q].sessions
  <2>1. Moved(q, pc, sess) /\ sess \in BOOLEAN
    BY <1>g, GotoMoves
  <2>2. Found(pc, sess)
    BY <1>g
  <2> HIDE DEF sess
  <2> QED
    BY <2>1, <2>2, <1>g, StepOnly
<1>1. ASSUME NEW q \in Process, Open(q) PROVE MigrationInv'
  <2>1. Closed \in [pc : PC, sessions : BOOLEAN]
    BY DEF Closed, PC
  <2>2. \A r \in [pc : PC, sessions : BOOLEAN] :
          [r EXCEPT !.pc = "inspectGames"] = [pc |-> "inspectGames", sessions |-> r.sessions]
    OBVIOUS
  <2>3. Closed.sessions \in BOOLEAN
    BY <2>1
  <2>4. Moved(q, "inspectGames", Closed.sessions)
    BY <2>1, <2>2, <1>1 DEF Open, Moved
  <2>5. \A x \in BOOLEAN : Found("inspectGames", x)
    BY DEF Found, GamesDone, PlayersDone
  <2> QED
    BY <1>1, <2>3, <2>4, <2>5, StepOnly DEF Open, PC
<1>2. ASSUME NEW q \in Process, InspectGames(q) PROVE MigrationInv'
  <2>1. CASE games.cols = "session"
    <3>1. Found("lookForSessions", proc[q].sessions)
      BY <2>1 DEF Found, GamesDone, PlayersDone
    <3> QED
      BY <1>2, <2>1, <3>1, <1>g DEF InspectGames, PC
  <2>2. CASE games.cols # "session"
    <3>1. Found("inspectPlayers", proc[q].sessions)
      BY <2>2 DEF Found, GamesDone, PlayersDone
    <3> QED
      BY <1>2, <2>2, <3>1, <1>g DEF InspectGames, PC
  <2> QED
    BY <2>1, <2>2
<1>3. ASSUME NEW q \in Process, LookForSessions(q) PROVE MigrationInv'
  <2>1. \A x \in BOOLEAN : Found("rebuildGames", x)
    BY <1>3, <1>f DEF LookForSessions, Found, GamesDone, PlayersDone
  <2>2. PICK seen \in BOOLEAN : Moved(q, "rebuildGames", seen)
    BY <1>3, <1>t DEF LookForSessions, SessionsSeen, Moved, Tables
  <2>3. UNCHANGED <<games, sessions, players, language, initial>> /\ "rebuildGames" \in PC
    BY <1>3 DEF LookForSessions, PC
  <2>4. \A x \in BOOLEAN : Moved(q, "rebuildGames", x) /\ Found("rebuildGames", x) => MigrationInv'
    BY <2>3, StepOnly
  <2> QED
    BY <2>1, <2>2, <2>4
<1>4. ASSUME NEW q \in Process, RebuildGames(q) PROVE MigrationInv'
  <2>1. UNCHANGED <<players, language, initial>> /\ proc[q].pc = "rebuildGames"
    BY <1>4 DEF RebuildGames
  <2>2. CASE Goto(q, "closed") /\ UNCHANGED <<games, sessions>>
    <3>1. Found("closed", proc[q].sessions)
      BY DEF Found, GamesDone, PlayersDone
    <3> QED
      BY <2>1, <2>2, <3>1, <1>g DEF PC
  <2>3. CASE /\ games' = [cols |-> "group", rows |-> Rebuilt(q)]
             /\ sessions' = FALSE
             /\ Goto(q, "inspectPlayers")
    <3>1. games'.cols = "group" /\ games'.rows = Rebuilt(q)
      BY <2>3
    <3>2. \/ games'.rows = games.rows
          \/ games'.rows = [i \in {} |-> 0] /\ DOMAIN games'.rows = {}
      BY <3>1 DEF Rebuilt
    <3>3. games.cols # "none"
      BY <2>1, <1>f DEF Found
    <3>4. Tables'
      <4>1. proc' \in [Process -> [pc : PC, sessions : BOOLEAN]]
        BY <2>3, GotoMoves DEF PC
      <4>2. games'.rows = [i \in DOMAIN games'.rows |-> games'.rows[i]]
        BY <3>2, <1>t DEF Tables
      <4>3. games' = [cols |-> games'.cols, rows |-> games'.rows]
        BY <2>3
      <4> QED
        BY <4>1, <4>2, <4>3, <2>1, <2>3, <3>1, <1>t DEF Tables
    <3>5. \A k \in 0..1 : Scales(k) => Scales(k)'
      BY <2>1, <3>2 DEF Scales
    <3>6. ColumnsTell'
      BY <1>t, <2>1, <3>1, <3>3, <3>5 DEF ColumnsTell
    <3>7. Forward
      BY <2>1, <3>1 DEF Forward
    <3>8. \A x : Found("inspectPlayers", x)'
      BY <3>1 DEF Found, GamesDone, PlayersDone
    <3>9. \A x : Moved(q, "inspectPlayers", x) => MigrationInv'
      BY <3>4, <3>6, <3>7, <3>8, StepTo
    <3> QED
      BY <3>9, <2>3, GotoMoves DEF PC
  <2> QED
    BY <1>4, <2>2, <2>3 DEF RebuildGames
<1>5. ASSUME NEW q \in Process, InspectPlayers(q) PROVE MigrationInv'
  <2>1. CASE players.cols = "gor"
    <3>1. Found("convert", proc[q].sessions)
      BY <1>5, <2>1, <1>f DEF InspectPlayers, Found, GamesDone, PlayersDone
    <3> QED
      BY <1>5, <2>1, <3>1, <1>g DEF InspectPlayers, PC
  <2>2. CASE players.cols # "gor"
    <3>1. Found("inspectUsers", proc[q].sessions)
      BY <1>5, <2>2, <1>f DEF InspectPlayers, Found, GamesDone, PlayersDone
    <3> QED
      BY <1>5, <2>2, <3>1, <1>g DEF InspectPlayers, PC
  <2> QED
    BY <2>1, <2>2
<1>6. ASSUME NEW q \in Process, Convert(q) PROVE MigrationInv'
  <2>1. UNCHANGED <<sessions, language, initial>> /\ proc[q].pc = "convert"
    BY <1>6 DEF Convert
  <2>2. CASE Goto(q, "closed") /\ UNCHANGED <<games, players>>
    <3>1. Found("closed", proc[q].sessions)
      BY DEF Found, GamesDone, PlayersDone
    <3> QED
      BY <2>1, <2>2, <3>1, <1>g DEF PC
  <2>3. CASE players.cols # "glicko" /\ games' = ConvertedGames /\ players' = ConvertedPlayers
             /\ Goto(q, "inspectUsers")
    <3>1. players.cols = "gor" /\ games.cols = "group"
      BY <2>1, <2>3, <1>f, <1>t DEF Found, GamesDone, Tables, ColumnsTell
    <3>2. Scales(0)
      BY <3>1, <1>t DEF ColumnsTell
    <3>3. /\ games'.cols = "group"
          /\ games'.rows = [i \in DOMAIN games.rows |-> games.rows[i] + 1]
          /\ games' = [cols |-> "group", rows |-> games'.rows]
      BY <2>3, <3>1, <1>t DEF ConvertedGames, Tables
    <3>4. /\ players'.cols = "glicko" /\ DOMAIN players'.rows = DOMAIN players.rows
          /\ players' = [cols |-> "glicko", rows |-> players'.rows]
          /\ players'.rows = [p \in DOMAIN players.rows |->
               [after |-> players.rows[p].after, seed |-> players.rows[p].after,
                scale |-> players.rows[p].scale + 1]]
      BY <2>3 DEF ConvertedPlayers
    <3>5. Scales(1)'
      BY <3>2, <3>3, <3>4 DEF Scales
    <3>6. players'.rows \in [DOMAIN players'.rows -> Rating]
      <4>1. \A p \in DOMAIN players.rows : players.rows[p] \in Rating
        BY <1>t DEF Tables
      <4>2. \A p \in DOMAIN players.rows :
              [after |-> players.rows[p].after, seed |-> players.rows[p].after,
                scale |-> players.rows[p].scale + 1] \in Rating
        BY <4>1 DEF Rating
      <4> QED
        BY <4>2, <3>4
    <3>7. Tables'
      <4>1. proc' \in [Process -> [pc : PC, sessions : BOOLEAN]]
        BY <2>3, GotoMoves DEF PC
      <4>2. games'.rows = [i \in DOMAIN games'.rows |-> games'.rows[i]]
        BY <3>3
      <4> QED
        BY <4>1, <4>2, <2>1, <3>3, <3>4, <3>6, <1>t DEF Tables
    <3>8. ColumnsTell'
      BY <2>1, <3>1, <3>3, <3>4, <3>5, <1>t DEF ColumnsTell
    <3>9. Forward
      BY <2>1, <3>3, <3>4 DEF Forward
    <3>10. \A x : Found("inspectUsers", x)'
      BY <3>3, <3>4 DEF Found, GamesDone, PlayersDone
    <3>11. \A x : Moved(q, "inspectUsers", x) => MigrationInv'
      BY <3>7, <3>8, <3>9, <3>10, StepTo
    <3> QED
      BY <3>11, <2>3, GotoMoves DEF PC
  <2> QED
    BY <1>6, <2>2, <2>3 DEF Convert
<1>7. ASSUME NEW q \in Process, InspectUsers(q) PROVE MigrationInv'
  <2>1. CASE language = "without"
    <3>1. Found("addLanguage", proc[q].sessions)
      BY <1>7, <2>1, <1>f DEF InspectUsers, Found, GamesDone, PlayersDone
    <3> QED
      BY <1>7, <2>1, <3>1, <1>g DEF InspectUsers, PC
  <2>2. CASE language # "without"
    <3>1. Found("schema", proc[q].sessions)
      BY <1>7, <2>2, <1>f DEF InspectUsers, Found, GamesDone, PlayersDone
    <3> QED
      BY <1>7, <2>2, <3>1, <1>g DEF InspectUsers, PC
  <2> QED
    BY <2>1, <2>2
<1>8. ASSUME NEW q \in Process, AddLanguage(q) PROVE MigrationInv'
  <2>1. UNCHANGED <<games, sessions, players, initial>> /\ proc[q].pc = "addLanguage"
    BY <1>8 DEF AddLanguage
  <2>2. CASE Goto(q, "closed") /\ UNCHANGED language
    <3>1. Found("closed", proc[q].sessions)
      BY DEF Found, GamesDone, PlayersDone
    <3> QED
      BY <2>1, <2>2, <3>1, <1>g DEF PC
  <2>3. CASE Goto(q, "schema") /\ language' = "with"
    <3>1. Tables'
      BY <2>1, <2>3, <1>t, GotoMoves DEF Tables, PC
    <3>2. language # "none"
      BY <2>1, <1>f DEF Found
    <3>3. ColumnsTell'
      BY <2>1, <2>3, <3>2, <1>t DEF ColumnsTell, Scales
    <3>4. Forward
      BY <2>1, <2>3 DEF Forward
    <3>5. \A x : Found("schema", x)'
      BY <2>1, <2>3, <1>f DEF Found, GamesDone, PlayersDone
    <3>6. \A x : Moved(q, "schema", x) => MigrationInv'
      BY <3>1, <3>3, <3>4, <3>5, StepTo
    <3> QED
      BY <3>6, <2>3, GotoMoves DEF PC
  <2> QED
    BY <1>8, <2>2, <2>3 DEF AddLanguage
<1>9. ASSUME NEW q \in Process, Schema(q) PROVE MigrationInv'
  <2>1. /\ UNCHANGED <<sessions, initial>> /\ proc[q].pc = "schema" /\ Goto(q, "open")
        /\ games' = IF games.cols = "none" THEN [games EXCEPT !.cols = "group"] ELSE games
        /\ players' = IF players.cols = "none" THEN [players EXCEPT !.cols = "glicko"]
                                               ELSE players
        /\ language' = IF language = "none" THEN "with" ELSE language
    BY <1>9 DEF Schema
  <2>2. /\ games.cols # "session" /\ players.cols # "gor" /\ language # "without"
    BY <2>1, <1>f DEF Found, GamesDone, PlayersDone
  <2>3. /\ games'.cols = "group" /\ games'.rows = games.rows
        /\ games' = [cols |-> games'.cols, rows |-> games'.rows]
    BY <2>1, <2>2, <1>t DEF Tables
  <2>4. /\ players'.cols = "glicko" /\ players'.rows = players.rows
        /\ players' = [cols |-> players'.cols, rows |-> players'.rows]
    BY <2>1, <2>2, <1>t DEF Tables
  <2>5. language' = "with"
    BY <2>1, <2>2, <1>t DEF Tables
  <2>6. Tables'
    <3>1. proc' \in [Process -> [pc : PC, sessions : BOOLEAN]]
      BY <2>1, GotoMoves DEF PC
    <3> QED
      BY <3>1, <2>1, <2>3, <2>4, <2>5, <1>t DEF Tables
  <2>7. Scales(1)'
    <3>1. Scales(1) \/ (DOMAIN players.rows = {} /\ DOMAIN games.rows = {})
      BY <2>2, <1>t DEF Tables, ColumnsTell
    <3> QED
      BY <3>1, <2>3, <2>4 DEF Scales
  <2>8. ColumnsTell'
    BY <2>3, <2>4, <2>5, <2>7 DEF ColumnsTell
  <2>9. Forward
    BY <2>1, <2>3, <2>4, <2>5 DEF Forward
  <2>10. \A x : Found("open", x)'
    BY <2>3, <2>4, <2>5 DEF Found, GamesDone, PlayersDone
  <2>11. \A x : Moved(q, "open", x) => MigrationInv'
    BY <2>6, <2>8, <2>9, <2>10, StepTo
  <2> QED
    BY <2>11, <2>1, GotoMoves DEF PC
<1>o. ASSUME NEW q \in Process, proc[q].pc = "open"
      PROVE  /\ players.cols = "glicko" /\ games.cols = "group" /\ language = "with" /\ Scales(1)
  BY <1>o, <1>f, <1>t DEF Found, GamesDone, PlayersDone, Tables, ColumnsTell
<1>10. ASSUME NEW q \in Process, NEW p \in Player, AddPlayer(q, p) PROVE MigrationInv'
  <2>1. /\ UNCHANGED <<games, sessions, language, proc, initial>> /\ proc[q].pc = "open"
        /\ p \notin DOMAIN players.rows
        /\ players' = [players EXCEPT !.rows =
             [x \in DOMAIN players.rows \cup {p} |->
                IF x = p THEN [after |-> 0, seed |-> 0, scale |-> 1] ELSE players.rows[x]]]
    BY <1>10 DEF AddPlayer
  <2>2. players.cols = "glicko" /\ Scales(1)
    BY <2>1, <1>o
  <2>3. /\ players'.cols = "glicko" /\ players' = [cols |-> "glicko", rows |-> players'.rows]
        /\ players'.rows = [x \in DOMAIN players.rows \cup {p} |->
                IF x = p THEN [after |-> 0, seed |-> 0, scale |-> 1] ELSE players.rows[x]]
    BY <2>1, <2>2, <1>t DEF Tables
  <2>4. players'.rows \in [DOMAIN players'.rows -> Rating]
    <3>1. [after |-> 0, seed |-> 0, scale |-> 1] \in Rating
      BY DEF Rating
    <3>2. players.rows \in [DOMAIN players.rows -> Rating]
      BY <1>t DEF Tables
    <3> QED
      BY <2>3, <3>1, <3>2
  <2>5. Scales(1)'
    BY <2>1, <2>2, <2>3 DEF Scales
  <2>6. Tables'
    BY <2>1, <2>3, <2>4, <1>t DEF Tables
  <2>7. ColumnsTell'
    BY <2>1, <2>2, <2>3, <2>5, <1>t DEF ColumnsTell
  <2>8. \A r \in Process : Found(proc[r].pc, proc[r].sessions)'
    BY <2>1, <2>2, <2>3, <1>f DEF Found
  <2> QED
    BY <2>6, <2>7, <2>8 DEF MigrationInv
<1>11. ASSUME NEW q \in Process, NEW i \in Fresh, NEW b \in Player, NEW w \in Player,
              RecordGame(q, i, b, w)
       PROVE  MigrationInv'
  <2>1. /\ UNCHANGED <<sessions, language, proc>> /\ proc[q].pc = "open"
        /\ b \in DOMAIN players.rows /\ w \in DOMAIN players.rows
        /\ games' = [games EXCEPT !.rows =
             [x \in DOMAIN games.rows \cup {i} |-> IF x = i THEN 1 ELSE games.rows[x]]]
        /\ players' = [players EXCEPT !.rows[b].after = 1, !.rows[w].after = 1]
    BY <1>11 DEF RecordGame
  <2>2. players.cols = "glicko" /\ games.cols = "group" /\ language = "with" /\ Scales(1)
    BY <2>1, <1>o
  <2>3. /\ games'.cols = "group" /\ games' = [cols |-> "group", rows |-> games'.rows]
        /\ games'.rows = [x \in DOMAIN games.rows \cup {i} |-> IF x = i THEN 1 ELSE games.rows[x]]
    BY <2>1, <2>2, <1>t DEF Tables
  <2> DEFINE once == [players.rows EXCEPT ![b].after = 1]
             twice == [once EXCEPT ![w].after = 1]
  <2>4. /\ players'.cols = "glicko" /\ players' = [cols |-> "glicko", rows |-> players'.rows]
        /\ players'.rows = twice
    BY <2>1, <2>2, <1>t DEF Tables
  <2>5. /\ once \in [DOMAIN players.rows -> Rating]
        /\ \A p \in DOMAIN players.rows : once[p].scale = players.rows[p].scale
    <3>1. \A p \in DOMAIN players.rows : players.rows[p] \in Rating
      BY <1>t DEF Tables
    <3>2. once = [p \in DOMAIN players.rows |->
                    IF p = b THEN [players.rows[b] EXCEPT !.after = 1] ELSE players.rows[p]]
      BY <1>t DEF Tables
    <3>3. /\ [players.rows[b] EXCEPT !.after = 1] \in Rating
          /\ [players.rows[b] EXCEPT !.after = 1].scale = players.rows[b].scale
      BY <2>1, <3>1 DEF Rating
    <3> HIDE DEF once
    <3> QED
      BY <3>1, <3>2, <3>3
  <2> HIDE DEF once
  <2>6. /\ twice \in [DOMAIN players.rows -> Rating]
        /\ \A p \in DOMAIN players.rows : twice[p].scale = once[p].scale
    BY <2>1, <2>5 DEF Rating
  <2> HIDE DEF twice
  <2>7. DOMAIN players'.rows = DOMAIN players.rows
    BY <2>4, <2>6
  <2>8. Scales(1)'
    BY <2>2, <2>3, <2>4, <2>5, <2>6, <2>7 DEF Scales
  <2>9. Tables'
    <3>1. games'.rows = [x \in DOMAIN games'.rows |-> games'.rows[x]]
      BY <2>3
    <3>2. players'.rows \in [DOMAIN players'.rows -> Rating]
      BY <2>4, <2>6, <2>7
    <3> QED
      BY <3>1, <3>2, <2>1, <2>3, <2>4, <1>t DEF Tables
  <2>10. ColumnsTell'
    BY <2>1, <2>2, <2>3, <2>4, <2>8, <1>t DEF ColumnsTell
  <2>11. \A r \in Process : Found(proc[r].pc, proc[r].sessions)'
    BY <2>1, <2>2, <2>3, <2>4, <1>f DEF Found
  <2> QED
    BY <2>9, <2>10, <2>11 DEF MigrationInv
<1>12. ASSUME NEW q \in Process, Crash(q) PROVE MigrationInv'
  <2>1. Moved(q, "closed", FALSE)
    BY <1>12 DEF Crash, Moved, Closed
  <2>2. Found("closed", FALSE)
    BY DEF Found, GamesDone, PlayersDone
  <2> QED
    BY <1>12, <2>1, <2>2, StepOnly DEF Crash, PC
<1>13. ASSUME UNCHANGED vars PROVE MigrationInv'
  BY <1>13 DEF vars, MigrationInv, Tables, ColumnsTell, Scales, Found
<1> QED
  BY <1>1, <1>2, <1>3, <1>4, <1>5, <1>6, <1>7, <1>8, <1>9, <1>10, <1>11, <1>12, <1>13
     DEF Next, OpenStep

(***************************************************************************)
(* However many runs of store.Open there are, however they interleave and  *)
(* wherever they end: no rating is converted twice, and an open store has  *)
(* the present schema and every rating on the present scale.               *)
(***************************************************************************)
THEOREM MigratedOnce == Spec => []ConvertedOnce
<1>1. MigrationInv => ConvertedOnce
  <2> SUFFICES ASSUME MigrationInv PROVE ConvertedOnce
    OBVIOUS
  <2>1. Scales(0) \/ Scales(1) \/ (DOMAIN players.rows = {} /\ DOMAIN games.rows = {})
    BY DEF MigrationInv, Tables, ColumnsTell
  <2>2. ASSUME NEW q \in Process, IsOpen(q)
        PROVE  games.cols = "group" /\ players.cols = "glicko" /\ language = "with" /\ Scales(1)
    BY <2>2 DEF IsOpen, MigrationInv, Found, GamesDone, PlayersDone, Tables, ColumnsTell
  <2> QED
    BY <2>1, <2>2 DEF ConvertedOnce, Scales
<1> QED
  BY <1>1, MigrationInit_Inv, MigrationNext_Inv, PTL DEF Spec

(***************************************************************************)
(* "Existing rows survive": no step of any run of store.Open loses a game, *)
(* except where a process rebuilds a table games that another one has      *)
(* rebuilt since it looked, or does so without the sessions that are there *)
(* because it could not read.                                              *)
(***************************************************************************)
THEOREM RowsSurvive == Spec => SurviveUnlessMistaken
<1> DEFINE Lost == initial \subseteq DOMAIN games.rows /\ ~(initial' \subseteq DOMAIN games'.rows)
           Mistaken(q) ==
             /\ proc[q].pc = "rebuildGames" /\ proc'[q].pc = "inspectPlayers"
             /\ ~proc[q].sessions
             /\ Overtaken \/ Misread(q)
           Kept == Lost => \E q \in Process : Mistaken(q)
<1>1. MigrationInv /\ [Next]_vars => [Kept]_vars
  <2> SUFFICES ASSUME MigrationInv, Next, initial \subseteq DOMAIN games.rows,
                      \A q \in Process : ~Mistaken(q)
               PROVE  initial' \subseteq DOMAIN games'.rows
    OBVIOUS
  <2>1. ASSUME NEW q \in Process, RebuildGames(q) PROVE initial' \subseteq DOMAIN games'.rows
    <3>1. initial' = initial /\ proc[q].pc = "rebuildGames"
      BY <2>1 DEF RebuildGames
    <3>2. CASE UNCHANGED games
      BY <3>1, <3>2
    <3>3. CASE games'.rows = Rebuilt(q) /\ Goto(q, "inspectPlayers")
      <4>1. proc'[q].pc = "inspectPlayers"
        BY <3>3 DEF Goto, MigrationInv, Tables
      <4>2. proc[q].sessions \/ (games.cols = "session" /\ ~sessions)
        BY <3>1, <4>1 DEF Overtaken, Misread
      <4>3. proc[q].sessions \/ initial = {}
        BY <4>2 DEF MigrationInv, ColumnsTell
      <4> QED
        BY <3>1, <3>3, <4>3 DEF Rebuilt
    <3> QED
      BY <2>1, <3>2, <3>3 DEF RebuildGames
  <2>2. ASSUME NEW q \in Process, NEW i \in Fresh, NEW b \in Player, NEW w \in Player,
               RecordGame(q, i, b, w)
        PROVE  initial' \subseteq DOMAIN games'.rows
    <3>1. /\ initial' = initial \cup {i}
          /\ games' = [games EXCEPT !.rows =
               [x \in DOMAIN games.rows \cup {i} |-> IF x = i THEN 1 ELSE games.rows[x]]]
      BY <2>2 DEF RecordGame
    <3>2. games = [cols |-> games.cols, rows |-> games.rows]
      BY DEF MigrationInv, Tables
    <3>3. games'.rows = [x \in DOMAIN games.rows \cup {i} |-> IF x = i THEN 1 ELSE games.rows[x]]
      BY <3>1, <3>2
    <3> QED
      BY <3>1, <3>3
  <2>3. ASSUME NEW q \in Process, Convert(q) PROVE initial' \subseteq DOMAIN games'.rows
    <3>1. initial' = initial /\ (UNCHANGED games \/ games' = ConvertedGames)
      BY <2>3 DEF Convert
    <3>2. games = [cols |-> games.cols, rows |-> games.rows]
      BY DEF MigrationInv, Tables
    <3> QED
      BY <3>1, <3>2 DEF ConvertedGames
  <2>4. ASSUME NEW q \in Process, Schema(q) PROVE initial' \subseteq DOMAIN games'.rows
    <3>1. games = [cols |-> games.cols, rows |-> games.rows]
      BY DEF MigrationInv, Tables
    <3> QED
      BY <2>4, <3>1 DEF Schema
  <2>5. ASSUME UNCHANGED <<games, initial>> PROVE initial' \subseteq DOMAIN games'.rows
    BY <2>5
  <2> QED
    BY <2>1, <2>2, <2>3, <2>4, <2>5
       DEF Next, OpenStep, Open, InspectGames, LookForSessions, InspectPlayers,
           InspectUsers, AddLanguage, AddPlayer, Crash
<1> QED
  BY <1>1, MigrationInit_Inv, MigrationNext_Inv, PTL DEF Spec, SurviveUnlessMistaken, Kept, Lost, Mistaken

-----------------------------------------------------------------------------
(* The login                                                               *)

Page == [pc : {"idle", "authorize", "granted", "start", "provider", "callback",
               "exchange", "home", "failed"},
         from : Request \cup {Home}, state : State \cup {None},
         sent : State \cup {None}, returnTo : Request \cup {None}, who : Account \cup {None}]

InFlow(page) == page.pc \in {"provider", "callback", "exchange"}

\* A page sends its own address along to /auth/start, and has it in the exchange.
Asks(page) ==
  /\ page.pc = "authorize" => page.from \in Request
  /\ page.pc = "start" /\ page.from \in Request => page.returnTo = page.from
  /\ InFlow(page) => page.state # None
  /\ page.pc = "exchange" => page.sent = page.state
  /\ /\ page.pc \in {"callback", "exchange"} /\ page.sent = page.state
     /\ page.from \in Request
     => page.returnTo = page.from

\* The state cookie of a flow that came from a request goes with a return_to cookie
\* that names this request and lives at least as long.
Together(page, sc, rc) ==
  page.pc = "provider" /\ page.from \in Request /\ sc.value = page.state
  => rc.value = page.from /\ rc.left >= sc.left

Jar ==
  /\ stateCookie \in Cookies(State) /\ returnCookie \in Cookies(Request)
  /\ session \in Account \cup {None} /\ logouts \in 0..MaxLogouts

OwnStates == \A b, c \in Tab : b # c => tab[b].state = None \/ tab[b].state # tab[c].state

(***************************************************************************)
(* The inductive invariant of the login.  A state belongs to one tab, so   *)
(* that a state cookie that matches is the one this tab's flow has set.    *)
(***************************************************************************)
LoginInv ==
  /\ Jar
  /\ tab \in [Tab -> Page]
  /\ \A b \in Tab : Asks(tab[b]) /\ Together(tab[b], stateCookie, returnCookie)
  /\ OwnStates

LEMMA LoginInit_Inv == LoginInit => LoginInv
<1> SUFFICES ASSUME LoginInit PROVE LoginInv
  OBVIOUS
<1>1. Jar
  BY LoginAssumption DEF LoginInit, Jar, Cookies, Absent
<1>2. At("idle") \in Page
  BY DEF At, Page
<1>3. tab \in [Tab -> Page] /\ \A b \in Tab : tab[b] = At("idle")
  BY <1>2 DEF LoginInit
<1> QED
  BY <1>1, <1>3 DEF LoginInv, Asks, Together, OwnStates, InFlow, At

\* A page that is put in a tab keeps the invariant if it keeps it for itself, has no
\* other tab's state, and the cookies still suit the other tabs.
LEMMA Shown ==
  ASSUME LoginInv, Jar', NEW b \in Tab, NEW page \in Page,
         tab' = [tab EXCEPT ![b] = page],
         Asks(page), Together(page, stateCookie', returnCookie'),
         page.state = None \/ \A c \in Tab \ {b} : tab[c].state # page.state,
         \A c \in Tab \ {b} : Together(tab[c], stateCookie', returnCookie')
  PROVE  LoginInv'
<1>1. tab \in [Tab -> Page]
  BY DEF LoginInv
<1>2. tab' \in [Tab -> Page]
  BY <1>1
<1>3. /\ tab'[b] = page
      /\ \A c \in Tab \ {b} : tab'[c] = tab[c]
  BY <1>1
<1>4. \A c \in Tab : Asks(tab'[c]) /\ Together(tab'[c], stateCookie', returnCookie')
  BY <1>3 DEF LoginInv
<1>5. OwnStates'
  BY <1>3 DEF LoginInv, OwnStates
<1> QED
  BY <1>2, <1>4, <1>5 DEF LoginInv

\* A page without a state, with the cookies as they were.
LEMMA ShownOnly ==
  ASSUME LoginInv, NEW b \in Tab, NEW page \in Page,
         tab' = [tab EXCEPT ![b] = page],
         Asks(page), page.pc # "provider",
         page.state = None \/ page.state = tab[b].state,
         UNCHANGED <<stateCookie, returnCookie>>, Jar'
  PROVE  LoginInv'
<1>1. Together(page, stateCookie', returnCookie')
  BY DEF Together
<1>2. \A c \in Tab \ {b} : Together(tab[c], stateCookie', returnCookie')
  BY DEF LoginInv
<1>3. page.state = None \/ \A c \in Tab \ {b} : tab[c].state # page.state
  BY DEF LoginInv, OwnStates
<1> QED
  BY <1>1, <1>2, <1>3, Shown

LEMMA Absent_Together ==
  ASSUME LoginInv, NEW page \in Page, Asks(page), NEW rc
  PROVE  Together(page, Absent, rc)
BY DEF Together, Absent, Asks, InFlow

LEMMA AgedCookie ==
  ASSUME NEW V, NEW c \in Cookies(V)
  PROVE  /\ Aged(c) \in Cookies(V)
         /\ c.left > 1 => Aged(c).value = c.value /\ Aged(c).left = c.left - 1
         /\ c.left <= 1 => Aged(c).value = None
<1>1. c.value \in V \cup {None} /\ c.left \in 0..CookieLife /\ CookieLife \in Nat
  BY LoginAssumption DEF Cookies
<1>2. CASE c.left > 1
  BY <1>1, <1>2 DEF Aged, Cookies
<1>3. CASE c.left <= 1
  BY <1>1, <1>3 DEF Aged, Cookies, Absent
<1> QED
  BY <1>1, <1>2, <1>3

LEMMA AgedTogether ==
  ASSUME NEW page \in Page, Asks(page),
         NEW sc \in Cookies(State), NEW rc \in Cookies(Request), Together(page, sc, rc)
  PROVE  Together(page, Aged(sc), Aged(rc))
<1> SUFFICES ASSUME page.pc = "provider", page.from \in Request, Aged(sc).value = page.state
             PROVE  Aged(rc).value = page.from /\ Aged(rc).left >= Aged(sc).left
  BY DEF Together
<1>1. sc.left \in Nat /\ rc.left \in Nat
  BY LoginAssumption DEF Cookies
<1>2. sc.left > 1
  BY <1>1, AgedCookie DEF Asks, InFlow
<1>3. Aged(sc).value = sc.value /\ Aged(sc).left = sc.left - 1
  BY <1>2, AgedCookie
<1>4. rc.value = page.from /\ rc.left >= sc.left
  BY <1>3 DEF Together
<1>5. Aged(rc).value = rc.value /\ Aged(rc).left = rc.left - 1
  BY <1>1, <1>2, <1>4, AgedCookie
<1> QED
  BY <1>1, <1>3, <1>4, <1>5

LEMMA LoginNext_Inv == LoginInv /\ [LoginNext]_loginVars => LoginInv'
<1> SUFFICES ASSUME LoginInv, [LoginNext]_loginVars PROVE LoginInv'
  OBVIOUS
<1> USE LoginAssumption
<1>t. tab \in [Tab -> Page]
  BY DEF LoginInv
<1>a. \A b \in Tab : tab[b] \in Page /\ Asks(tab[b])
  BY <1>t DEF LoginInv
<1>j. Jar
  BY DEF LoginInv
<1>f. At("failed") \in Page /\ Asks(At("failed")) /\ At("failed").state = None
  BY DEF At, Page, Asks, InFlow
<1>k. UNCHANGED <<stateCookie, returnCookie, session, logouts>> => Jar'
  BY <1>j DEF Jar
<1>1. ASSUME NEW b \in Tab, NEW r \in Request, Visit(b, r) PROVE LoginInv'
  <2> DEFINE page == [At("authorize") EXCEPT !.from = r]
  <2>1. page \in Page /\ Asks(page) /\ page.pc # "provider" /\ page.state = None
    BY DEF At, Page, Asks, InFlow
  <2>2. tab' = [tab EXCEPT ![b] = page] /\ UNCHANGED <<stateCookie, returnCookie, session, logouts>>
    BY <1>1 DEF Visit, Show
  <2> HIDE DEF page
  <2> QED
    BY <2>1, <2>2, <1>k, ShownOnly
<1>2. ASSUME NEW b \in Tab, OpenLogin(b) PROVE LoginInv'
  <2> DEFINE page == IF session = None THEN At("start") ELSE At("home")
  <2>1. page \in Page /\ Asks(page) /\ page.pc # "provider" /\ page.state = None
    BY DEF At, Page, Asks, InFlow
  <2>2. tab' = [tab EXCEPT ![b] = page] /\ UNCHANGED <<stateCookie, returnCookie, session, logouts>>
    BY <1>2 DEF OpenLogin, Show
  <2> HIDE DEF page
  <2> QED
    BY <2>1, <2>2, <1>k, ShownOnly
<1>3. ASSUME NEW b \in Tab, Authorize(b) PROVE LoginInv'
  <2> DEFINE r == tab[b].from
             page == IF session = None THEN [At("start") EXCEPT !.from = r, !.returnTo = r]
                                       ELSE [At("granted") EXCEPT !.from = r]
  <2>1. r \in Request
    BY <1>3, <1>a DEF Authorize, Asks
  <2>2. page \in Page /\ Asks(page) /\ page.pc # "provider" /\ page.state = None
    BY <2>1 DEF At, Page, Asks, InFlow
  <2>3. tab' = [tab EXCEPT ![b] = page] /\ UNCHANGED <<stateCookie, returnCookie, session, logouts>>
    BY <1>3 DEF Authorize, Show
  <2> HIDE DEF page
  <2> QED
    BY <2>2, <2>3, <1>k, ShownOnly
<1>4. ASSUME NEW b \in Tab, AuthStart(b) PROVE LoginInv'
  <2>1. PICK s \in State \ InUse :
          /\ stateCookie' = Cookie(s)
          /\ \/ Show(b, [tab[b] EXCEPT !.pc = "provider", !.state = s])
             \/ Show(b, At("failed"))
    BY <1>4 DEF AuthStart
  <2>2. tab[b].pc = "start" /\ returnCookie' = ReturnTo(tab[b].returnTo)
        /\ UNCHANGED <<session, logouts>>
    BY <1>4 DEF AuthStart
  <2>3. s \in State /\ s # None /\ \A c \in Tab : tab[c].state # s
    BY DEF InUse
  <2>4. stateCookie'.value = s /\ stateCookie'.left = CookieLife
    BY <2>1 DEF Cookie
  <2>5. Jar'
    BY <2>1, <2>2, <1>j, <1>a DEF Jar, Cookies, Cookie, ReturnTo, Page
  <2>6. \A c \in Tab \ {b} : Together(tab[c], stateCookie', returnCookie')
    BY <2>3, <2>4 DEF Together
  <2>7. CASE Show(b, At("failed"))
    <3>1. Together(At("failed"), stateCookie', returnCookie')
      BY DEF Together, At
    <3> QED
      BY <2>5, <2>6, <2>7, <3>1, <1>f, Shown DEF Show
  <2>8. CASE Show(b, [tab[b] EXCEPT !.pc = "provider", !.state = s])
    <3> DEFINE page == [tab[b] EXCEPT !.pc = "provider", !.state = s]
    <3>1. /\ page \in Page /\ page.pc = "provider" /\ page.state = s
          /\ page.from = tab[b].from
      BY <1>a, <2>3 DEF Page
    <3>2. tab' = [tab EXCEPT ![b] = page]
      BY <2>8 DEF Show
    <3> HIDE DEF page
    <3>3. Asks(page)
      BY <3>1, <2>3 DEF Asks
    <3>4. ASSUME page.from \in Request
          PROVE  returnCookie'.value = page.from /\ returnCookie'.left = CookieLife
      <4>1. tab[b].returnTo = page.from
        BY <3>1, <3>4, <2>2, <1>a DEF Asks
      <4> QED
        BY <4>1, <3>4, <2>2 DEF ReturnTo, Cookie
    <3>5. Together(page, stateCookie', returnCookie')
      BY <3>4, <2>4 DEF Together
    <3> QED
      BY <2>5, <2>6, <2>3, <3>1, <3>2, <3>3, <3>5, Shown
  <2> QED
    BY <2>1, <2>7, <2>8
<1>5. ASSUME NEW b \in Tab, Provider(b) PROVE LoginInv'
  <2>1. UNCHANGED <<stateCookie, returnCookie, session, logouts>> /\ tab[b].pc = "provider"
    BY <1>5 DEF Provider
  <2>2. CASE Show(b, At("failed"))
    BY <2>1, <2>2, <1>f, <1>k, ShownOnly DEF Show, At
  <2>3. ASSUME NEW a \in Account,
               Show(b, [tab[b] EXCEPT !.pc = "callback", !.who = a,
                                      !.sent = stateCookie.value,
                                      !.returnTo = returnCookie.value])
        PROVE  LoginInv'
    <3> DEFINE page == [tab[b] EXCEPT !.pc = "callback", !.who = a,
                          !.sent = stateCookie.value, !.returnTo = returnCookie.value]
    <3>1. /\ page.pc = "callback" /\ page.state = tab[b].state /\ page.from = tab[b].from
          /\ page.sent = stateCookie.value /\ page.returnTo = returnCookie.value
          /\ page.who = a
      BY <1>a DEF Page
    <3>2. page \in Page
      BY <1>a, <1>j DEF Page, Jar, Cookies
    <3>3. tab' = [tab EXCEPT ![b] = page]
      BY <2>3 DEF Show
    <3> HIDE DEF page
    <3>4. Together(tab[b], stateCookie, returnCookie)
      BY DEF LoginInv
    <3>5. Asks(page)
      BY <3>1, <3>4, <2>1, <1>a DEF Asks, Together, InFlow
    <3> QED
      BY <3>1, <3>2, <3>3, <3>5, <2>1, <1>k, ShownOnly
  <2> QED
    BY <1>5, <2>2, <2>3 DEF Provider
<1>6. ASSUME NEW b \in Tab, Callback(b) PROVE LoginInv'
  <2>1. UNCHANGED <<stateCookie, returnCookie, session, logouts>> /\ tab[b].pc = "callback"
    BY <1>6 DEF Callback
  <2>2. CASE ~StateMatches(b)
    BY <1>6, <2>1, <2>2, <1>f, <1>k, ShownOnly DEF Callback, Show, At
  <2>3. CASE StateMatches(b)
    <3> DEFINE page == [tab[b] EXCEPT !.pc = "exchange"]
    <3>1. /\ page.pc = "exchange" /\ page.state = tab[b].state /\ page.from = tab[b].from
          /\ page.sent = tab[b].sent /\ page.returnTo = tab[b].returnTo
      BY <1>a DEF Page
    <3>2. page \in Page
      BY <1>a DEF Page
    <3>3. tab' = [tab EXCEPT ![b] = page]
      BY <1>6, <2>3 DEF Callback, Show
    <3> HIDE DEF page
    <3>4. Asks(page)
      BY <3>1, <2>1, <2>3, <1>a DEF Asks, InFlow, StateMatches
    <3> QED
      BY <3>1, <3>2, <3>3, <3>4, <2>1, <1>k, ShownOnly
  <2> QED
    BY <2>2, <2>3
<1>7. ASSUME NEW b \in Tab, NEW page \in Page,
             stateCookie' = Absent, Jar', tab' = [tab EXCEPT ![b] = page],
             Asks(page), page.state = None
      PROVE  LoginInv'
  <2>1. Together(page, stateCookie', returnCookie')
    BY <1>7, Absent_Together
  <2>2. \A c \in Tab \ {b} : Together(tab[c], stateCookie', returnCookie')
    BY <1>7, <1>a, Absent_Together
  <2> QED
    BY <1>7, <2>1, <2>2, Shown
<1>8. ASSUME NEW b \in Tab, Exchanged(b) PROVE LoginInv'
  <2> DEFINE rt == tab[b].returnTo
             page == IF Landing(rt) = Home THEN [At("home") EXCEPT !.from = tab[b].from]
                       ELSE [At("authorize") EXCEPT !.from = Landing(rt)]
  <2>1. /\ stateCookie' = Absent /\ session' = tab[b].who /\ UNCHANGED logouts
        /\ returnCookie' = IF rt = None THEN returnCookie ELSE Absent
    BY <1>8 DEF Exchanged, Issued
  <2>2. tab' = [tab EXCEPT ![b] = page]
    BY <1>8 DEF Exchanged, Show
  <2>3. rt \in Request \cup {None} /\ tab[b].from \in Request \cup {Home}
        /\ tab[b].who \in Account \cup {None}
    BY <1>a DEF Page
  <2>4. page \in Page /\ Asks(page) /\ page.state = None
    BY <2>3 DEF Page, At, Asks, InFlow, Landing
  <2>5. Absent \in Cookies(State) /\ Absent \in Cookies(Request)
    BY DEF Absent, Cookies
  <2>6. Jar'
    BY <2>1, <2>3, <2>5, <1>j DEF Jar
  <2> HIDE DEF page
  <2> QED
    BY <2>1, <2>2, <2>4, <2>6, <1>7
<1>9. ASSUME NEW b \in Tab, ExchangeFails(b) PROVE LoginInv'
  <2>1. Absent \in Cookies(State)
    BY DEF Absent, Cookies
  <2>2. Jar'
    BY <1>9, <1>j, <2>1 DEF ExchangeFails, Jar
  <2> QED
    BY <1>9, <2>2, <1>f, <1>7 DEF ExchangeFails, Show
<1>10. CASE Logout
  BY <1>10, <1>j DEF Logout, LoginInv, OwnStates, Jar
<1>11. CASE Age
  <2>1. /\ stateCookie' = Aged(stateCookie) /\ returnCookie' = Aged(returnCookie)
        /\ UNCHANGED <<session, tab, logouts>>
    BY <1>11 DEF Age
  <2>2. Jar'
    BY <2>1, <1>j, AgedCookie DEF Jar
  <2>3. \A c \in Tab : Together(tab[c], stateCookie', returnCookie')
    BY <2>1, <1>j, <1>a, AgedTogether DEF Jar, LoginInv
  <2> QED
    BY <2>1, <2>2, <2>3 DEF LoginInv, OwnStates
<1> QED
  BY <1>1, <1>2, <1>3, <1>4, <1>5, <1>6, <1>8, <1>9, <1>10, <1>11
     DEF LoginNext, TabNext, loginVars, LoginInv, Jar, OwnStates

(***************************************************************************)
(* The cookies, the session and the pages of the tabs stay what the        *)
(* handlers expect to read, with any number of tabs.                       *)
(***************************************************************************)
THEOREM LoginTypes == LoginSpec => []LoginTypeOK
<1>1. LoginInv => LoginTypeOK
  BY DEF LoginInv, Jar, LoginTypeOK, Page
<1> QED
  BY <1>1, LoginInit_Inv, LoginNext_Inv, PTL DEF LoginSpec

(***************************************************************************)
(* A login that an authorize page started and that goes through returns    *)
(* to that very request, with any number of tabs, requests and states.     *)
(***************************************************************************)
THEOREM LoginReturns == LoginSpec => ReturnsToRequest
<1> DEFINE Returns == \A b \in Tab :
             /\ tab[b].pc = "exchange" /\ tab[b].from \in Request
             /\ tab'[b].pc \in {"authorize", "home"}
             => tab'[b].pc = "authorize" /\ tab'[b].from = tab[b].from
<1>1. LoginInv /\ [LoginNext]_loginVars => [Returns]_loginVars
  <2> SUFFICES ASSUME LoginInv, LoginNext, NEW b \in Tab,
                      tab[b].pc = "exchange", tab[b].from \in Request,
                      tab'[b].pc \in {"authorize", "home"}
               PROVE  tab'[b].pc = "authorize" /\ tab'[b].from = tab[b].from
    OBVIOUS
  <2>t. tab \in [Tab -> Page] /\ Asks(tab[b])
    BY DEF LoginInv
  <2>1. ASSUME NEW c \in Tab, NEW page, c # b, tab' = [tab EXCEPT ![c] = page]
        PROVE  FALSE
    <3>1. tab'[b] = tab[b]
      BY <2>t, <2>1
    <3> QED
      BY <3>1
  <2>2. ASSUME NEW c \in Tab, NEW r \in Request, Visit(c, r) PROVE FALSE
    BY <2>1, <2>2 DEF Visit, Show
  <2>3. ASSUME NEW c \in Tab, OpenLogin(c) PROVE FALSE
    BY <2>1, <2>3 DEF OpenLogin, Show
  <2>4. ASSUME NEW c \in Tab, Authorize(c) PROVE FALSE
    BY <2>1, <2>4 DEF Authorize, Show
  <2>5. ASSUME NEW c \in Tab, AuthStart(c) PROVE FALSE
    BY <2>1, <2>5 DEF AuthStart, Show
  <2>6. ASSUME NEW c \in Tab, Provider(c) PROVE FALSE
    BY <2>1, <2>6 DEF Provider, Show
  <2>7. ASSUME NEW c \in Tab, Callback(c) PROVE FALSE
    BY <2>1, <2>7 DEF Callback, Show
  <2>8. ASSUME NEW c \in Tab, ExchangeFails(c) PROVE FALSE
    <3>1. tab' = [tab EXCEPT ![c] = At("failed")]
      BY <2>8 DEF ExchangeFails, Show
    <3>2. c = b
      BY <3>1, <2>1
    <3> QED
      BY <3>1, <3>2, <2>t DEF At
  <2>9. ASSUME NEW c \in Tab, Exchanged(c)
        PROVE  tab'[b].pc = "authorize" /\ tab'[b].from = tab[b].from
    <3> DEFINE rt == tab[c].returnTo
               page == IF Landing(rt) = Home THEN [At("home") EXCEPT !.from = tab[c].from]
                         ELSE [At("authorize") EXCEPT !.from = Landing(rt)]
    <3>1. tab' = [tab EXCEPT ![c] = page]
      BY <2>9 DEF Exchanged, Show
    <3>2. c = b
      <4> HIDE DEF page
      <4> QED BY <3>1, <2>1
    <3>3. rt = tab[b].from
      BY <3>2, <2>t DEF Asks
    <3>4. Landing(rt) = tab[b].from /\ Landing(rt) # Home
      BY <3>3, LoginAssumption DEF Landing
    <3>5. tab'[b] = page
      BY <3>1, <3>2, <2>t
    <3> QED
      BY <3>4, <3>5 DEF At
  <2>10. ASSUME tab' = tab PROVE FALSE
    BY <2>10
  <2> QED
    BY <2>2, <2>3, <2>4, <2>5, <2>6, <2>7, <2>8, <2>9, <2>10
       DEF LoginNext, TabNext, Logout, Age
<1> QED
  BY <1>1, LoginInit_Inv, LoginNext_Inv, PTL DEF LoginSpec, ReturnsToRequest, Returns
=============================================================================
