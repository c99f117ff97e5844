---------------------------- MODULE ToolsProofs ----------------------------
(***************************************************************************)
(* Who becomes and stays an admin, and what the tools change: the action   *)
(* properties of GroupAdmins and PlayerTools, for any numbers of users,    *)
(* groups, names, players and goroutines.  A call acts on what it found    *)
(* earlier; the invariants say what of it still holds, and that the rest   *)
(* holds unless the call was crossed.                                      *)
(***************************************************************************)
EXTENDS PlayerTools, FiniteSetTheorems, TLAPS

LoggedIn == {u \in User : email[u] # None}

Checked == {"findTarget", "countAdmins", "write"}

(***************************************************************************)
(* What the local variables l of an admin call say of the users who have   *)
(* logged in, of groups, admins and ever.                                  *)
(***************************************************************************)
Holds(l, users, gs, rows, past) ==
  /\ l \in Request
  /\ l.pc # "idle" => l.me \in users /\ l.group \in gs
  /\ l.pc = "addCreator" =>
       l.tool = "create_group" /\ \A u \in User : <<u, l.group>> \notin past
  /\ l.pc \in Checked =>
       /\ l.tool \in {"add_admin", "remove_admin"}
       /\ <<l.me, l.group>> \in past
       /\ ~l.crossed => <<l.me, l.group>> \in rows
  /\ l.pc = "countAdmins" => l.tool = "remove_admin" /\ l.target = l.me
  /\ l.pc = "write" => l.target \in users
  /\ l.pc = "write" /\ l.tool = "remove_admin" /\ l.target = l.me /\ ~l.crossed =>
       \E x \in User : x # l.me /\ <<x, l.group>> \in rows

RequestsOK == \A h \in Handler : Holds(req[h], LoggedIn, groups, admins, ever)

TablesOK ==
  /\ email \in [User -> Email \cup {None}]
  /\ groups \subseteq Group
  /\ admins \subseteq ever
  /\ ever \subseteq LoggedIn \X groups
  /\ req \in [Handler -> Request]

\* A group is created by one call.
OneCreator ==
  \A h, k \in Handler :
    req[h].pc = "addCreator" /\ req[k].pc = "addCreator" /\ req[h].group = req[k].group
      => h = k

AdminInv == TablesOK /\ RequestsOK /\ OneCreator

-----------------------------------------------------------------------------
LEMMA IdleHolds ==
  ASSUME NEW users, NEW gs, NEW rows, NEW past
  PROVE  Holds(Idle, users, gs, rows, past)
  BY DEF Holds, Idle, Request, PC, Tool, Checked

\* What a call knows survives rows that are added, but for those of a group it creates.
LEMMA HoldsGrow ==
  ASSUME NEW l, NEW users, NEW gs, NEW rows, NEW past,
         NEW users2, NEW gs2, NEW rows2, NEW past2,
         Holds(l, users, gs, rows, past),
         users \subseteq users2, gs \subseteq gs2, rows \subseteq rows2, past \subseteq past2,
         l.pc = "addCreator" => \A u \in User : <<u, l.group>> \notin past2 \ past
  PROVE  Holds(l, users2, gs2, rows2, past2)
  BY DEF Holds

\* A crossed call relies on no row of admins.
LEMMA HoldsCrossed ==
  ASSUME NEW l, NEW users, NEW gs, NEW rows, NEW past, NEW rows2,
         Holds(l, users, gs, rows, past), l.pc # "idle"
  PROVE  Holds([l EXCEPT !.crossed = TRUE], users, gs, rows2, past)
<1> DEFINE m == [l EXCEPT !.crossed = TRUE]
<1>1. l \in Request
  BY DEF Holds
<1>2. /\ m \in Request /\ m.crossed = TRUE
      /\ m.pc = l.pc /\ m.tool = l.tool /\ m.me = l.me /\ m.group = l.group
      /\ m.target = l.target
  BY <1>1 DEF Request
<1> HIDE DEF m
<1>3. Holds(m, users, gs, rows2, past)
  BY <1>2 DEF Holds
<1>4. QED
  BY <1>3 DEF m

\* Rows of other groups are nothing to a call.
LEMMA HoldsElsewhere ==
  ASSUME NEW l, NEW users, NEW gs, NEW rows, NEW past, NEW rows2,
         Holds(l, users, gs, rows, past),
         \A u \in User : <<u, l.group>> \in rows => <<u, l.group>> \in rows2,
         l.pc # "idle" => l.me \in User
  PROVE  Holds(l, users, gs, rows2, past)
  BY DEF Holds, Checked

\* The step of one call: the others keep what they know.
LEMMA OthersHold ==
  ASSUME AdminInv, NEW h \in Handler, NEW l,
         req' = [req EXCEPT ![h] = l],
         LoggedIn \subseteq LoggedIn', groups \subseteq groups', admins \subseteq admins',
         ever \subseteq ever',
         \A k \in Handler : k # h /\ req[k].pc = "addCreator" =>
           \A u \in User : <<u, req[k].group>> \notin ever' \ ever,
         Holds(l, LoggedIn', groups', admins', ever')
  PROVE  RequestsOK' /\ req' \in [Handler -> Request]
<1>1. req' \in [Handler -> Request]
  BY DEF AdminInv, TablesOK, Holds
<1>2. ASSUME NEW k \in Handler PROVE Holds(req'[k], LoggedIn', groups', admins', ever')
  <2>1. CASE k = h
    BY <2>1 DEF AdminInv, TablesOK
  <2>2. CASE k # h
    <3>1. req'[k] = req[k] /\ Holds(req[k], LoggedIn, groups, admins, ever)
      BY <2>2 DEF AdminInv, TablesOK, RequestsOK
    <3>2. QED
      BY <2>2, <3>1, HoldsGrow
  <2>3. QED
    BY <2>1, <2>2
<1>3. QED
  BY <1>1, <1>2 DEF RequestsOK

-----------------------------------------------------------------------------
LEMMA LoginStep ==
  ASSUME AdminInv, NEW u \in User, NEW e \in Email, Login(u, e) PROVE AdminInv'
<1>1. e # None
  BY AdminsAssumption
<1>2. email' \in [User -> Email \cup {None}] /\ LoggedIn \subseteq LoggedIn'
  BY <1>1 DEF AdminInv, TablesOK, Login, LoggedIn
<1>3. UNCHANGED <<groups, admins, req, ever>>
  BY DEF Login
<1>4. ever' \subseteq LoggedIn' \X groups'
  BY <1>2, <1>3 DEF AdminInv, TablesOK
<1>5. ASSUME NEW k \in Handler PROVE Holds(req[k], LoggedIn', groups, admins, ever)
  BY <1>2, HoldsGrow DEF AdminInv, RequestsOK
<1>6. QED
  BY <1>2, <1>3, <1>4, <1>5 DEF AdminInv, TablesOK, RequestsOK, OneCreator

LEMMA CreateGroupStep ==
  ASSUME AdminInv, NEW h \in Handler, NEW u \in User, NEW g \in Group,
         CreateGroup(h, u, g)
  PROVE  AdminInv'
<1> DEFINE l == [Idle EXCEPT !.pc = "addCreator", !.me = u, !.group = g]
<1>1. /\ req' = [req EXCEPT ![h] = l]
      /\ groups' = groups \cup {g} /\ g \notin groups /\ email[u] # None
      /\ UNCHANGED <<email, admins, ever>>
  BY DEF CreateGroup
<1>2. /\ l \in Request /\ l.pc = "addCreator" /\ l.tool = "create_group"
      /\ l.me = u /\ l.group = g
  BY DEF Idle, Request, PC, Tool
<1> HIDE DEF l
<1>3. LoggedIn' = LoggedIn /\ u \in LoggedIn
  BY <1>1 DEF LoggedIn
<1>4. \A x \in User : <<x, g>> \notin ever
  BY <1>1 DEF AdminInv, TablesOK
<1>5. Holds(l, LoggedIn', groups', admins', ever')
  BY <1>1, <1>2, <1>3, <1>4 DEF Holds, Checked
<1>6. RequestsOK' /\ req' \in [Handler -> Request]
  BY <1>1, <1>3, <1>5, OthersHold
<1>7. OneCreator'
  <2>1. \A k \in Handler : req[k].pc = "addCreator" => req[k].group \in groups
    BY DEF AdminInv, RequestsOK, Holds
  <2>2. req \in [Handler -> Request]
    BY DEF AdminInv, TablesOK
  <2>3. \A k \in Handler : req'[k] = IF k = h THEN l ELSE req[k]
    BY <1>1, <2>2
  <2>4. QED
    BY <1>1, <1>2, <2>1, <2>3 DEF AdminInv, OneCreator
<1>8. TablesOK'
  BY <1>1, <1>3, <1>6 DEF AdminInv, TablesOK
<1>9. QED
  BY <1>6, <1>7, <1>8 DEF AdminInv

\* A call that ends or goes on, and creates no group: there is no second creator.
LEMMA CreatorStays ==
  ASSUME AdminInv, NEW h \in Handler, NEW l,
         req' = [req EXCEPT ![h] = l], l.pc # "addCreator"
  PROVE  OneCreator'
<1>1. \A k \in Handler : req'[k] = IF k = h THEN l ELSE req[k]
  BY DEF AdminInv, TablesOK
<1>2. QED
  BY <1>1 DEF AdminInv, OneCreator

\* A step of the local variables only.
LEMMA LocalStep ==
  ASSUME AdminInv, NEW h \in Handler, NEW l, req' = [req EXCEPT ![h] = l],
         UNCHANGED <<email, groups, admins, ever>>,
         Holds(l, LoggedIn, groups, admins, ever), l.pc # "addCreator"
  PROVE  AdminInv'
<1>1. LoggedIn' = LoggedIn
  BY DEF LoggedIn
<1>2. RequestsOK' /\ req' \in [Handler -> Request]
  BY <1>1, OthersHold
<1>3. TablesOK'
  BY <1>1, <1>2 DEF AdminInv, TablesOK
<1>4. QED
  BY <1>2, <1>3, CreatorStays DEF AdminInv

LEMMA EndStep ==
  ASSUME AdminInv, NEW h \in Handler, req' = [req EXCEPT ![h] = Idle],
         UNCHANGED <<email, groups, admins, ever>>
  PROVE  AdminInv'
<1>1. Holds(Idle, LoggedIn, groups, admins, ever)
  BY IdleHolds
<1>2. Idle.pc # "addCreator"
  BY DEF Idle
<1>3. QED
  BY <1>1, <1>2, LocalStep

LEMMA ResolveStep ==
  ASSUME AdminInv, NEW h \in Handler, NEW tool \in {"add_admin", "remove_admin"},
         NEW u \in User, NEW g \in Group, Resolve(h, tool, u, g)
  PROVE  AdminInv'
<1> DEFINE l == [Idle EXCEPT !.pc = "findTarget", !.tool = tool, !.me = u, !.group = g]
<1>1. /\ req' = [req EXCEPT ![h] = l] /\ email[u] # None /\ <<u, g>> \in admins
      /\ g \in groups /\ UNCHANGED <<email, groups, admins, ever>>
  BY DEF Resolve, IsGroupAdmin
<1>2. /\ l \in Request /\ l.pc = "findTarget" /\ l.tool = tool
      /\ l.me = u /\ l.group = g
  BY DEF Idle, Request, PC, Tool
<1> HIDE DEF l
<1>3. Holds(l, LoggedIn, groups, admins, ever)
  BY <1>1, <1>2 DEF Holds, Checked, LoggedIn, AdminInv, TablesOK
<1>4. QED
  BY <1>1, <1>2, <1>3, LocalStep

LEMMA FindTargetStep ==
  ASSUME AdminInv, NEW h \in Handler, NEW e \in Email, FindTarget(h, e)
  PROVE  AdminInv'
<1>1. UNCHANGED <<email, groups, admins, ever>> /\ req[h].pc = "findTarget"
  BY DEF FindTarget
<1>2. CASE req' = [req EXCEPT ![h] = Idle]
  BY <1>1, <1>2, EndStep
<1>3. ASSUME NEW x \in User, email[x] = e,
             req' = [req EXCEPT ![h] =
               [req[h] EXCEPT !.target = x,
                  !.pc = IF req[h].tool = "remove_admin" /\ x = req[h].me
                           THEN "countAdmins" ELSE "write"]]
      PROVE  AdminInv'
  <2> DEFINE l == [req[h] EXCEPT !.target = x,
                     !.pc = IF req[h].tool = "remove_admin" /\ x = req[h].me
                              THEN "countAdmins" ELSE "write"]
  <2>1. Holds(req[h], LoggedIn, groups, admins, ever) /\ req[h] \in Request
    BY DEF AdminInv, RequestsOK, TablesOK
  <2>2. /\ l \in Request
        /\ l.pc = IF req[h].tool = "remove_admin" /\ x = req[h].me
                    THEN "countAdmins" ELSE "write"
        /\ l.tool = req[h].tool /\ l.me = req[h].me /\ l.group = req[h].group
        /\ l.target = x /\ l.crossed = req[h].crossed
    BY <2>1 DEF Request, PC
  <2> HIDE DEF l
  <2>3. x \in LoggedIn
    BY <1>3, AdminsAssumption DEF LoggedIn
  <2>4. Holds(l, LoggedIn, groups, admins, ever)
    BY <1>1, <2>1, <2>2, <2>3 DEF Holds, Checked
  <2>5. req' = [req EXCEPT ![h] = l] /\ l.pc # "addCreator"
    BY <1>3, <2>2 DEF l
  <2>6. QED
    BY <1>1, <2>4, <2>5, LocalStep
<1>4. QED
  BY <1>2, <1>3 DEF FindTarget

LEMMA CountAdminsStep ==
  ASSUME AdminInv, NEW h \in Handler, CountAdmins(h) PROVE AdminInv'
<1>1. UNCHANGED <<email, groups, admins, ever>> /\ req[h].pc = "countAdmins"
  BY DEF CountAdmins
<1>2. CASE req' = [req EXCEPT ![h] = Idle]
  BY <1>1, <1>2, EndStep
<1>3. CASE /\ ~(Cardinality(AdminsOf(req[h].group)) <= 1)
           /\ req' = [req EXCEPT ![h] = [req[h] EXCEPT !.pc = "write"]]
  <2> DEFINE l == [req[h] EXCEPT !.pc = "write"]
             A == AdminsOf(req[h].group)
  <2>1. Holds(req[h], LoggedIn, groups, admins, ever) /\ req[h] \in Request
    BY DEF AdminInv, RequestsOK, TablesOK
  <2>2. /\ l \in Request /\ l.pc = "write"
        /\ l.tool = req[h].tool /\ l.me = req[h].me /\ l.group = req[h].group
        /\ l.target = req[h].target /\ l.crossed = req[h].crossed
    BY <2>1 DEF Request, PC
  <2> HIDE DEF l
  <2>3. \E x \in A : x # req[h].me
    <3>1. SUFFICES ASSUME A \subseteq {req[h].me} PROVE FALSE
      OBVIOUS
    <3>2. IsFiniteSet({req[h].me}) /\ Cardinality({req[h].me}) = 1
      BY FS_Singleton
    <3>3. Cardinality(A) <= 1
      <4> HIDE DEF A
      <4>1. QED BY <3>1, <3>2, FS_Subset
    <3>4. QED
      BY <1>3, <3>3
  <2>4. Holds(l, LoggedIn, groups, admins, ever)
    BY <1>1, <2>1, <2>2, <2>3 DEF Holds, Checked, AdminsOf
  <2>5. req' = [req EXCEPT ![h] = l] /\ l.pc # "addCreator"
    BY <1>3, <2>2 DEF l
  <2>6. QED
    BY <1>1, <2>4, <2>5, LocalStep
<1>4. QED
  BY <1>2, <1>3 DEF CountAdmins

\* A row that a call adds is of a user with an address and of a group that is there.
LEMMA AddRow ==
  ASSUME AdminInv, NEW h \in Handler, NEW u \in LoggedIn, NEW g \in groups,
         admins' = admins \cup {<<u, g>>}, ever' = ever \cup {<<u, g>>},
         req' = [req EXCEPT ![h] = Idle], UNCHANGED <<email, groups>>,
         \A k \in Handler : k # h /\ req[k].pc = "addCreator" => req[k].group # g
  PROVE  AdminInv'
<1>1. LoggedIn' = LoggedIn
  BY DEF LoggedIn
<1>2. RequestsOK' /\ req' \in [Handler -> Request]
  BY <1>1, IdleHolds, OthersHold
<1>3. TablesOK'
  BY <1>1, <1>2 DEF AdminInv, TablesOK
<1>4. OneCreator'
  <2>1. Idle.pc # "addCreator"
    BY DEF Idle
  <2>2. QED
    BY <2>1, CreatorStays
<1>5. QED
  BY <1>2, <1>3, <1>4 DEF AdminInv

LEMMA AddCreatorStep ==
  ASSUME AdminInv, NEW h \in Handler, AddCreator(h) PROVE AdminInv'
<1>1. req[h].me \in LoggedIn /\ req[h].group \in groups
  BY DEF AdminInv, RequestsOK, Holds, AddCreator
<1>2. \A k \in Handler : k # h /\ req[k].pc = "addCreator" => req[k].group # req[h].group
  BY DEF AdminInv, OneCreator, AddCreator
<1>3. QED
  BY <1>1, <1>2, AddRow DEF AddCreator

LEMMA AddAdminStep ==
  ASSUME AdminInv, NEW h \in Handler, AddAdmin(h) PROVE AdminInv'
<1>1. /\ req[h].target \in LoggedIn /\ req[h].group \in groups
      /\ <<req[h].me, req[h].group>> \in ever /\ req[h].me \in User
  BY DEF AdminInv, RequestsOK, Holds, AddAdmin, Checked, LoggedIn
<1>2. \A k \in Handler : k # h /\ req[k].pc = "addCreator" => req[k].group # req[h].group
  BY <1>1 DEF AdminInv, RequestsOK, Holds
<1>3. /\ admins' = admins \cup {<<req[h].target, req[h].group>>}
      /\ ever' = ever \cup {<<req[h].target, req[h].group>>}
      /\ req' = [req EXCEPT ![h] = Idle] /\ UNCHANGED <<email, groups>>
  BY DEF AddAdmin
<1>4. QED
  BY <1>1, <1>2, <1>3, AddRow

LEMMA RemoveAdminStep ==
  ASSUME AdminInv, NEW h \in Handler, RemoveAdmin(h) PROVE AdminInv'
<1> DEFINE g == req[h].group
           row == <<req[h].target, g>>
           Next1(k) == IF k = h THEN Idle
                       ELSE IF req[k].pc # "idle" /\ req[k].group = g
                         THEN [req[k] EXCEPT !.crossed = TRUE]
                         ELSE req[k]
<1>1. /\ admins' = admins \ {row} /\ UNCHANGED <<email, groups, ever>>
      /\ req' = [k \in Handler |-> Next1(k)]
  BY DEF RemoveAdmin
<1>2. LoggedIn' = LoggedIn
  BY <1>1 DEF LoggedIn
<1>3. ASSUME NEW k \in Handler
      PROVE  /\ Holds(req'[k], LoggedIn, groups, admins', ever)
             /\ req'[k].pc = "addCreator" =>
                  req[k].pc = "addCreator" /\ req'[k].group = req[k].group
  <2>1. Holds(req[k], LoggedIn, groups, admins, ever) /\ req[k] \in Request
    BY DEF AdminInv, RequestsOK, TablesOK
  <2>2. req'[k] = Next1(k)
    BY <1>1
  <2>3. CASE k = h
    <3>1. req'[k] = Idle
      BY <2>2, <2>3
    <3>2. Idle.pc # "addCreator"
      BY DEF Idle
    <3>3. QED
      BY <3>1, <3>2, IdleHolds
  <2>4. CASE k # h /\ req[k].pc # "idle" /\ req[k].group = g
    <3>1. req'[k] = [req[k] EXCEPT !.crossed = TRUE]
      BY <2>2, <2>4
    <3>2. Holds(req'[k], LoggedIn, groups, admins', ever)
      BY <2>1, <2>4, <3>1, HoldsCrossed
    <3>3. req'[k].pc = req[k].pc /\ req'[k].group = req[k].group
      BY <2>1, <3>1 DEF Request
    <3>4. QED
      BY <3>2, <3>3
  <2>5. CASE k # h /\ ~(req[k].pc # "idle" /\ req[k].group = g)
    <3>1. req'[k] = req[k]
      BY <2>2, <2>5
    <3>2. CASE req[k].pc = "idle"
      BY <2>1, <3>1, <3>2 DEF Holds, Checked
    <3>3. CASE req[k].pc # "idle"
      <4>1. req[k].group # g /\ req[k].me \in User
        BY <2>1, <2>5, <3>3 DEF Holds, LoggedIn
      <4>2. \A u \in User : <<u, req[k].group>> \in admins => <<u, req[k].group>> \in admins'
        BY <1>1, <4>1
      <4>3. QED
        BY <2>1, <3>1, <4>1, <4>2, HoldsElsewhere
    <3>4. QED
      BY <3>2, <3>3
  <2>6. QED
    BY <2>3, <2>4, <2>5
<1>4. RequestsOK'
  BY <1>1, <1>2, <1>3 DEF RequestsOK
<1>5. OneCreator'
  BY <1>3 DEF AdminInv, OneCreator
<1>6. req' \in [Handler -> Request]
  <2>1. \A k \in Handler : req'[k] \in Request
    BY <1>3 DEF Holds
  <2>2. QED
    <3> HIDE DEF Next1
    <3>1. QED BY <1>1, <2>1
<1>7. TablesOK'
  BY <1>1, <1>2, <1>6 DEF AdminInv, TablesOK
<1>8. QED
  BY <1>4, <1>5, <1>7 DEF AdminInv

LEMMA AdminInit == Init => AdminInv
<1> SUFFICES ASSUME Init PROVE AdminInv
  OBVIOUS
<1>2. TablesOK
  BY DEF Init, TablesOK, Idle, Request, PC, Tool
<1>3. RequestsOK
  BY IdleHolds DEF Init, RequestsOK
<1>4. OneCreator
  BY DEF Init, OneCreator, Idle
<1>5. QED
  BY <1>2, <1>3, <1>4 DEF AdminInv

LEMMA AdminKept == AdminInv /\ UNCHANGED vars => AdminInv'
  BY DEF AdminInv, TablesOK, RequestsOK, OneCreator, LoggedIn, vars

LEMMA AdminStep == AdminInv /\ Next => AdminInv'
<1> SUFFICES ASSUME AdminInv, Next PROVE AdminInv'
  OBVIOUS
<1>2. CASE \E u \in User, e \in Email : Login(u, e)
  BY <1>2, LoginStep
<1>3. ASSUME NEW h \in Handler, HandlerNext(h) PROVE AdminInv'
  <2>1. ASSUME NEW u \in User, NEW g \in Group, CreateGroup(h, u, g) PROVE AdminInv'
    BY <2>1, CreateGroupStep
  <2>2. CASE AddCreator(h)
    BY <2>2, AddCreatorStep
  <2>3. ASSUME NEW u \in User, NEW g \in Group,
               NEW tool \in {"add_admin", "remove_admin"}, Resolve(h, tool, u, g)
        PROVE  AdminInv'
    BY <2>3, ResolveStep
  <2>4. ASSUME NEW e \in Email, FindTarget(h, e) PROVE AdminInv'
    BY <2>4, FindTargetStep
  <2>5. CASE CountAdmins(h)
    BY <2>5, CountAdminsStep
  <2>6. CASE AddAdmin(h)
    BY <2>6, AddAdminStep
  <2>7. CASE RemoveAdmin(h)
    BY <2>7, RemoveAdminStep
  <2>8. CASE Fail(h)
    BY <2>8, EndStep DEF Fail
  <2>9. QED
    BY <1>3, <2>1, <2>2, <2>3, <2>4, <2>5, <2>6, <2>7, <2>8 DEF HandlerNext
<1>4. QED
  BY <1>2, <1>3 DEF Next

-----------------------------------------------------------------------------
\* A removal that no other crossed leaves the caller, or another that he counted.
LEMMA RemovalLeaves ==
  ASSUME AdminInv, NEW h \in Handler, NEW g \in Group,
         RemoveAdmin(h), req[h].group = g, ~req[h].crossed
  PROVE  AdminsOf(g)' # {}
<1> DEFINE l == req[h]
<1>1. /\ l.pc = "write" /\ l.tool = "remove_admin" /\ l.group = g /\ ~l.crossed
      /\ admins' = admins \ {<<l.target, g>>}
  BY DEF RemoveAdmin
<1>2. Holds(l, LoggedIn, groups, admins, ever)
  BY DEF AdminInv, RequestsOK
<1> HIDE DEF l
<1>3. l.me \in User /\ <<l.me, g>> \in admins
  BY <1>1, <1>2 DEF Holds, Checked, LoggedIn
<1>4. CASE l.target # l.me
  BY <1>1, <1>3, <1>4 DEF AdminsOf
<1>5. CASE l.target = l.me
  <2>1. PICK x \in User : x # l.me /\ <<x, g>> \in admins
    BY <1>1, <1>2, <1>5 DEF Holds
  <2>2. QED
    BY <1>1, <1>5, <2>1 DEF AdminsOf
<1>6. QED
  BY <1>4, <1>5

\* Whoever is new among the admins was put there by AddCreator or AddAdmin.
LEMMA NewAdmin ==
  ASSUME AdminInv, Next \/ UNCHANGED vars, NEW u \in User, NEW g \in Group,
         <<u, g>> \in admins' \ admins
  PROVE  \E h \in Handler :
           /\ req[h].group = g
           /\ \/ req[h].tool = "create_group" /\ req[h].me = u /\ AdminsOf(g) = {}
              \/ req[h].tool = "add_admin" /\ <<req[h].me, g>> \in ever
<1>1. PICK h \in Handler : AddCreator(h) \/ AddAdmin(h)
  BY DEF Next, HandlerNext, vars, Login, CreateGroup, Resolve, FindTarget, CountAdmins,
         RemoveAdmin, Fail
<1> DEFINE l == req[h]
<1>2. Holds(l, LoggedIn, groups, admins, ever)
  BY DEF AdminInv, RequestsOK
<1>3. CASE AddCreator(h)
  <2>1. l.pc = "addCreator" /\ admins' = admins \cup {<<l.me, l.group>>}
    BY <1>3 DEF AddCreator
  <2> HIDE DEF l
  <2>2. l.tool = "create_group" /\ \A x \in User : <<x, l.group>> \notin admins
    BY <1>2, <2>1 DEF Holds, AdminInv, TablesOK
  <2>3. l.me = u /\ l.group = g
    BY <2>1
  <2>4. QED
    BY <2>2, <2>3 DEF AdminsOf, l
<1>4. CASE AddAdmin(h)
  <2>1. /\ l.pc = "write" /\ l.tool = "add_admin"
        /\ admins' = admins \cup {<<l.target, l.group>>}
    BY <1>4 DEF AddAdmin
  <2> HIDE DEF l
  <2>2. <<l.me, l.group>> \in ever /\ l.group = g
    BY <1>2, <2>1 DEF Holds, Checked
  <2>3. QED
    BY <2>1, <2>2 DEF l
<1>5. QED
  BY <1>1, <1>3, <1>4

\* What an admin call leaves in its local variables l is not about g.
NotIn(l, g) == l.pc # "idle" => l.group # g

LEMMA IdleIsNowhere == ASSUME NEW g PROVE NotIn(Idle, g)
  BY DEF NotIn, Idle

\* No step of a call touches a group without admins that no call is about.
LEMMA CallElsewhere ==
  ASSUME AdminInv, NEW h \in Handler, HandlerNext(h), NEW g \in Group, Abandoned(g)
  PROVE  \A k \in Handler : NotIn(req'[k], g)
<1>1. req \in [Handler -> Request] /\ \A k \in Handler : NotIn(req[k], g)
  BY DEF AdminInv, TablesOK, Abandoned, NotIn
<1>2. ASSUME NEW l, req' = [req EXCEPT ![h] = l], NotIn(l, g)
      PROVE  \A k \in Handler : NotIn(req'[k], g)
  BY <1>1, <1>2
<1>3. ASSUME NEW u \in User, NEW s \in Group, CreateGroup(h, u, s)
      PROVE  \A k \in Handler : NotIn(req'[k], g)
  <2> DEFINE l == [Idle EXCEPT !.pc = "addCreator", !.me = u, !.group = s]
  <2>1. req' = [req EXCEPT ![h] = l] /\ s \notin groups
    BY <1>3 DEF CreateGroup
  <2>2. l.group = s
    BY DEF Idle
  <2>3. NotIn(l, g)
    BY <2>1, <2>2 DEF NotIn, Abandoned
  <2>4. QED BY <1>2, <2>1, <2>3
<1>4. ASSUME NEW u \in User, NEW s \in Group, NEW tool, Resolve(h, tool, u, s)
      PROVE  \A k \in Handler : NotIn(req'[k], g)
  <2> DEFINE l == [Idle EXCEPT !.pc = "findTarget", !.tool = tool, !.me = u, !.group = s]
  <2>1. req' = [req EXCEPT ![h] = l] /\ <<u, s>> \in admins
    BY <1>4 DEF Resolve, IsGroupAdmin
  <2>2. l.group = s
    BY DEF Idle
  <2>3. NotIn(l, g)
    BY <2>1, <2>2 DEF NotIn, Abandoned, AdminsOf
  <2>4. QED BY <1>2, <2>1, <2>3
<1>5. ASSUME NEW e \in Email, FindTarget(h, e)
      PROVE  \A k \in Handler : NotIn(req'[k], g)
  <2>1. CASE req' = [req EXCEPT ![h] = Idle]
    BY <1>2, <2>1, IdleIsNowhere
  <2>2. CASE req' # [req EXCEPT ![h] = Idle]
    <3> DEFINE next(x) ==
                 [req[h] EXCEPT !.target = x,
                                !.pc = IF req[h].tool = "remove_admin" /\ x = req[h].me
                                         THEN "countAdmins" ELSE "write"]
    <3>1. PICK x : req' = [req EXCEPT ![h] = next(x)] /\ req[h].pc = "findTarget"
      BY <1>5, <2>2 DEF FindTarget
    <3>2. next(x).group = req[h].group
      BY <1>1 DEF Request
    <3>3. NotIn(next(x), g)
      BY <1>1, <3>1, <3>2 DEF NotIn
    <3>4. QED BY <1>2, <3>1, <3>3
  <2>3. QED BY <2>1, <2>2
<1>6. CASE CountAdmins(h)
  <2> DEFINE l == [req[h] EXCEPT !.pc = "write"]
  <2>1. CASE req' = [req EXCEPT ![h] = Idle]
    BY <1>2, <2>1, IdleIsNowhere
  <2>2. CASE req' # [req EXCEPT ![h] = Idle]
    <3>1. req' = [req EXCEPT ![h] = l] /\ req[h].pc = "countAdmins"
      BY <1>6, <2>2 DEF CountAdmins
    <3>2. l.group = req[h].group
      BY <1>1 DEF Request
    <3>3. NotIn(l, g)
      BY <1>1, <3>1, <3>2 DEF NotIn
    <3>4. QED BY <1>2, <3>1, <3>3
  <2>3. QED BY <2>1, <2>2
<1>7. CASE AddCreator(h) \/ AddAdmin(h) \/ Fail(h)
  <2>1. req' = [req EXCEPT ![h] = Idle]
    BY <1>7 DEF AddCreator, AddAdmin, Fail
  <2>2. QED BY <1>2, <2>1, IdleIsNowhere
<1>8. CASE RemoveAdmin(h)
  <2> SUFFICES ASSUME NEW k \in Handler PROVE NotIn(req'[k], g)
    OBVIOUS
  <2>1. \/ req'[k] = Idle \/ req'[k] = req[k]
        \/ req'[k] = [req[k] EXCEPT !.crossed = TRUE]
    BY <1>8 DEF RemoveAdmin
  <2>2. /\ [req[k] EXCEPT !.crossed = TRUE].pc = req[k].pc
        /\ [req[k] EXCEPT !.crossed = TRUE].group = req[k].group
    BY <1>1 DEF Request
  <2>3. QED BY <1>1, <2>1, <2>2, IdleIsNowhere DEF NotIn
<1>9. QED
  BY <1>3, <1>4, <1>5, <1>6, <1>7, <1>8 DEF HandlerNext

LEMMA AbandonedKept ==
  ASSUME AdminInv, Next \/ UNCHANGED vars, NEW g \in Group, Abandoned(g)
  PROVE  Abandoned(g)'
<1>1. ASSUME NEW h \in Handler, HandlerNext(h) PROVE Abandoned(g)'
  <2>1. \A k \in Handler : req'[k].pc # "idle" => req'[k].group # g
    BY <1>1, CallElsewhere DEF NotIn
  <2>2. g \in groups'
    BY <1>1 DEF HandlerNext, Abandoned, CreateGroup, AddCreator, Resolve, FindTarget,
                CountAdmins, AddAdmin, RemoveAdmin, Fail
  <2>3. ASSUME NEW u \in User, <<u, g>> \in admins' PROVE <<u, g>> \in admins
    <3>1. CASE AddCreator(h) \/ AddAdmin(h)
      <4>1. req[h].group # g
        BY <3>1 DEF AddCreator, AddAdmin, Abandoned
      <4>2. QED BY <2>3, <3>1, <4>1 DEF AddCreator, AddAdmin
    <3>2. CASE ~(AddCreator(h) \/ AddAdmin(h))
      BY <1>1, <2>3, <3>2 DEF HandlerNext, CreateGroup, Resolve, FindTarget, CountAdmins,
                              RemoveAdmin, Fail
    <3>3. QED BY <3>1, <3>2
  <2>4. AdminsOf(g)' = {}
    BY <2>3 DEF Abandoned, AdminsOf
  <2>5. QED BY <2>1, <2>2, <2>4 DEF Abandoned
<1>2. CASE UNCHANGED <<groups, admins, req>>
  BY <1>2 DEF Abandoned, AdminsOf
<1>3. QED
  BY <1>1, <1>2 DEF Next, Login, vars

-----------------------------------------------------------------------------
\* The calls of PlayerTools read the tables of GroupAdmins and leave them alone.
LEMMA ToolsStepIsAdminStep ==
  ToolsNext \/ UNCHANGED toolVars => Next \/ UNCHANGED vars
<1>1. ASSUME NEW c \in Caller, CallerNext(c) PROVE UNCHANGED vars
  BY <1>1 DEF CallerNext, BeginAdd, BeginUpdate, BeginGame, Begin, AddPlayer, Find,
              Update, FindBlack, FindWhite, LookUp, RecordGame, Abandon
<1>2. ToolsNext => Next \/ UNCHANGED vars
  BY <1>1 DEF ToolsNext
<1>3. QED
  BY <1>2 DEF toolVars

THEOREM AdminInvariant == ToolsSpec => []AdminInv
<1>1. ToolsInit => AdminInv
  BY AdminInit DEF ToolsInit
<1>2. AdminInv /\ [ToolsNext]_toolVars => AdminInv'
  BY AdminStep, AdminKept, ToolsStepIsAdminStep
<1>3. QED
  BY <1>1, <1>2, PTL DEF ToolsSpec

(***************************************************************************)
(* A group loses its last admin only to a removal that another removal in  *)
(* the same group crossed (remove_admin of tools.go).                      *)
(***************************************************************************)
THEOREM EmptyOnlyToCrossed == ToolsSpec => EmptyOnlyWhenCrossed
<1>1. AdminInv /\ [ToolsNext]_toolVars =>
        [\A h \in Handler, g \in Group :
           RemoveAdmin(h) /\ req[h].group = g /\ ~req[h].crossed /\ AdminsOf(g) # {}
             => AdminsOf(g)' # {}]_vars
  BY RemovalLeaves
<1>2. QED
  BY <1>1, AdminInvariant, PTL DEF ToolsSpec, EmptyOnlyWhenCrossed

(***************************************************************************)
(* Whoever becomes an admin was made one by an earlier admin of the same   *)
(* group, or created it.                                                   *)
(***************************************************************************)
THEOREM AdminsAreAppointed == ToolsSpec => Appointed
<1>1. AdminInv /\ [ToolsNext]_toolVars =>
        [\A u \in User, g \in Group :
           <<u, g>> \in admins' \ admins =>
             \E h \in Handler :
               /\ req[h].group = g
               /\ \/ req[h].tool = "create_group" /\ req[h].me = u /\ AdminsOf(g) = {}
                  \/ req[h].tool = "add_admin" /\ <<req[h].me, g>> \in ever]_vars
  BY NewAdmin, ToolsStepIsAdminStep
<1>2. QED
  BY <1>1, AdminInvariant, PTL DEF ToolsSpec, Appointed

(***************************************************************************)
(* A group that create_group or two crossing removals left without an      *)
(* admin gets none any more.                                               *)
(***************************************************************************)
THEOREM NobodyRescues == ToolsSpec => AbandonedStays
<1>1. AdminInv /\ [ToolsNext]_toolVars =>
        [\A g \in Group : Abandoned(g) => Abandoned(g)']_vars
  BY AbandonedKept, ToolsStepIsAdminStep
<1>2. QED
  BY <1>1, AdminInvariant, PTL DEF ToolsSpec, AbandonedStays

-----------------------------------------------------------------------------
Row == [group : Group, name : Name, active : BOOLEAN]

GameRow == [group : Group, black : Nat, white : Nat]

Call == [pc : {"idle", "insert", "find", "update", "findBlack", "findWhite", "record"},
         me : User \cup {None}, group : Group \cup {None}, name : Name \cup {None},
         other : Name \cup {None},
         change : [name : Name \cup {None}, active : BOOLEAN \cup {None}],
         id : Nat, white : Nat, row : Row \cup {None}, crossed : BOOLEAN]

(***************************************************************************)
(* What the local variables l of a call say of the rows ps of players and  *)
(* of ever: the ids it looked up are of its group, and, unless it was      *)
(* crossed, the names are still the ones it looked for.                    *)
(***************************************************************************)
Found(l, ps, i, n) ==
  /\ i \in 1..Len(ps)
  /\ ps[i].group = l.group
  /\ ~l.crossed => ps[i].name = n

Knows(l, ps, past) ==
  /\ l \in Call
  /\ l.pc # "idle" => <<l.me, l.group>> \in past /\ l.name \in Name
  /\ l.pc \in {"findBlack", "findWhite"} => l.other \in Name
  /\ l.pc \in {"update", "findWhite", "record"} => Found(l, ps, l.id, l.name)
  /\ l.pc = "record" => Found(l, ps, l.white, l.other)
  /\ l.pc = "update" =>
       /\ l.row \in Row /\ l.row.group = l.group
       /\ ~l.crossed => l.row = Merged(ps[l.id], l.change)

CallsKnow == \A c \in Caller : Knows(call[c], players, ever)

ToolsInv ==
  /\ players \in Seq(Row)
  /\ games \in Seq(GameRow)
  /\ call \in [Caller -> Call]
  /\ CallsKnow

\* What a call knows survives rows that are added.
LEMMA KnowsGrow ==
  ASSUME NEW l, NEW ps \in Seq(Row), NEW past, NEW ps2 \in Seq(Row), NEW past2,
         Knows(l, ps, past), past \subseteq past2, Len(ps) <= Len(ps2),
         \A i \in 1..Len(ps) : ps2[i] = ps[i]
  PROVE  Knows(l, ps2, past2)
<1>1. Len(ps) \in Nat /\ Len(ps2) \in Nat
  OBVIOUS
<1>2. ASSUME NEW i, NEW n, Found(l, ps, i, n) PROVE Found(l, ps2, i, n) /\ ps2[i] = ps[i]
  BY <1>1, <1>2 DEF Found
<1>3. QED
  BY <1>2 DEF Knows

LEMMA NoCallKnows ==
  ASSUME NEW ps, NEW past PROVE Knows(NoCall, ps, past)
  BY DEF Knows, NoCall, Call

\* The step of one call that leaves the rows that were there as they were.
LEMMA CallStep ==
  ASSUME ToolsInv, NEW c \in Caller, NEW l,
         call' = [call EXCEPT ![c] = l], ever' = ever,
         players' \in Seq(Row), games' \in Seq(GameRow), Len(players) <= Len(players'),
         \A i \in 1..Len(players) : players'[i] = players[i],
         Knows(l, players', ever)
  PROVE  ToolsInv'
<1>1. ASSUME NEW d \in Caller PROVE Knows(call'[d], players', ever')
  <2>1. CASE d = c
    BY <2>1 DEF ToolsInv
  <2>2. CASE d # c
    <3>1. call'[d] = call[d] /\ Knows(call[d], players, ever)
      BY <2>2 DEF ToolsInv, CallsKnow
    <3>2. players \in Seq(Row)
      BY DEF ToolsInv
    <3>3. QED
      BY <3>1, <3>2, KnowsGrow
  <2>3. QED
    BY <2>1, <2>2
<1>2. call' \in [Caller -> Call]
  BY DEF ToolsInv, Knows
<1>3. QED
  BY <1>1, <1>2 DEF ToolsInv, CallsKnow

LEMMA LookStep ==
  ASSUME ToolsInv, NEW c \in Caller, NEW l, call' = [call EXCEPT ![c] = l],
         UNCHANGED <<ever, players, games>>, Knows(l, players, ever)
  PROVE  ToolsInv'
<1>1. players \in Seq(Row) /\ games \in Seq(GameRow)
  BY DEF ToolsInv
<1>2. Len(players) <= Len(players')
  BY <1>1
<1>3. QED
  BY <1>1, <1>2, CallStep

LEMMA EndCall ==
  ASSUME ToolsInv, NEW c \in Caller, call' = [call EXCEPT ![c] = NoCall], ever' = ever,
         players' \in Seq(Row), games' \in Seq(GameRow), Len(players) <= Len(players'),
         \A i \in 1..Len(players) : players'[i] = players[i]
  PROVE  ToolsInv'
  BY CallStep, NoCallKnows

LEMMA AskedIsCall ==
  ASSUME NEW u \in User, NEW g \in Group, NEW n \in Name,
         NEW pc \in {"insert", "find", "findBlack"}
  PROVE  /\ Asked(u, g, pc, n) \in Call /\ Asked(u, g, pc, n).pc = pc
         /\ Asked(u, g, pc, n).me = u /\ Asked(u, g, pc, n).group = g
         /\ Asked(u, g, pc, n).name = n
  BY DEF Asked, NoCall, Call

LEMMA BeginStep ==
  ASSUME AdminInv, ToolsInv, NEW c \in Caller, NEW u \in User, NEW g \in Group, NEW l \in Call,
         Begin(c, u, g, l), l.pc \in {"insert", "find", "findBlack"},
         l.me = u, l.group = g, l.name \in Name, l.pc = "findBlack" => l.other \in Name
  PROVE  ToolsInv'
<1>1. /\ <<u, g>> \in ever /\ call' = [call EXCEPT ![c] = l]
      /\ UNCHANGED <<ever, players, games>>
  BY DEF Begin, IsGroupAdmin, AdminInv, TablesOK, vars
<1>2. Knows(l, players, ever)
  BY <1>1 DEF Knows
<1>3. QED
  BY <1>1, <1>2, LookStep

LEMMA BeginSteps ==
  ASSUME AdminInv, ToolsInv, NEW c \in Caller, NEW u \in User, NEW g \in Group, NEW n \in Name,
         \/ BeginAdd(c, u, g, n)
         \/ \E change \in Change : BeginUpdate(c, u, g, n, change)
         \/ \E m \in Name : BeginGame(c, u, g, n, m)
  PROVE  ToolsInv'
<1>1. CASE BeginAdd(c, u, g, n)
  BY <1>1, AskedIsCall, BeginStep DEF BeginAdd
<1>2. ASSUME NEW change \in Change, BeginUpdate(c, u, g, n, change) PROVE ToolsInv'
  <2> DEFINE l == [Asked(u, g, "find", n) EXCEPT !.change = change]
  <2>1. change \in [name : Name \cup {None}, active : BOOLEAN \cup {None}]
    BY ToolsAssumption
  <2>2. l \in Call /\ l.pc = "find" /\ l.me = u /\ l.group = g /\ l.name = n
    BY <2>1, AskedIsCall DEF Call
  <2>3. Begin(c, u, g, l)
    BY <1>2 DEF BeginUpdate
  <2> HIDE DEF l
  <2>4. QED
    BY <2>2, <2>3, BeginStep
<1>3. ASSUME NEW m \in Name, BeginGame(c, u, g, n, m) PROVE ToolsInv'
  <2> DEFINE l == [Asked(u, g, "findBlack", n) EXCEPT !.other = m]
  <2>1. /\ l \in Call /\ l.pc = "findBlack" /\ l.me = u /\ l.group = g /\ l.name = n
        /\ l.other = m
    BY AskedIsCall DEF Call
  <2>2. Begin(c, u, g, l)
    BY <1>3 DEF BeginGame
  <2> HIDE DEF l
  <2>3. QED
    BY <2>1, <2>2, BeginStep
<1>4. QED
  BY <1>1, <1>2, <1>3

LEMMA AddPlayerStep ==
  ASSUME AdminInv, ToolsInv, NEW c \in Caller, AddPlayer(c) PROVE ToolsInv'
<1> DEFINE row == [group |-> call[c].group, name |-> call[c].name, active |-> TRUE]
<1>1. /\ call[c].pc = "insert" /\ players' = Append(players, row)
      /\ call' = [call EXCEPT ![c] = NoCall] /\ UNCHANGED <<ever, games>>
  BY DEF AddPlayer, vars
<1>2. call[c].group \in Group /\ call[c].name \in Name
  BY <1>1 DEF ToolsInv, CallsKnow, Knows, AdminInv, TablesOK
<1>3. row \in Row
  BY <1>2 DEF Row
<1> HIDE DEF row
<1>4. /\ players' \in Seq(Row) /\ Len(players) <= Len(players')
      /\ \A i \in 1..Len(players) : players'[i] = players[i]
  BY <1>1, <1>3 DEF ToolsInv
<1>5. QED
  BY <1>1, <1>4, EndCall DEF ToolsInv

LEMMA LookUpStep ==
  ASSUME ToolsInv, NEW c \in Caller, NEW from, NEW n, NEW found, LookUp(c, from, n, found),
         \A i \in Named(call[c].group, n) : Knows(found[i], players, ever)
  PROVE  ToolsInv'
<1>1. UNCHANGED <<ever, players, games>>
  BY DEF LookUp, vars
<1>2. PICK l : call' = [call EXCEPT ![c] = l] /\ Knows(l, players, ever)
  BY NoCallKnows DEF LookUp
<1>3. QED
  BY <1>1, <1>2, LookStep

LEMMA FindStep ==
  ASSUME ToolsInv, NEW c \in Caller, Find(c) PROVE ToolsInv'
<1> DEFINE l == call[c]
           found == [i \in 1..Len(players) |->
                       [l EXCEPT !.pc = "update", !.id = i,
                                 !.row = Merged(players[i], l.change)]]
<1>1. LookUp(c, "find", l.name, found) /\ l.pc = "find"
  BY DEF Find, LookUp
<1>2. l \in Call /\ Knows(l, players, ever) /\ players \in Seq(Row)
  BY DEF ToolsInv, CallsKnow
<1>3. ASSUME NEW i \in Named(l.group, l.name) PROVE Knows(found[i], players, ever)
  <2>1. i \in 1..Len(players) /\ i \in Nat
        /\ players[i] \in Row /\ players[i].group = l.group /\ players[i].name = l.name
    BY <1>2 DEF Named
  <2>2. /\ Merged(players[i], l.change) \in Row
        /\ Merged(players[i], l.change).group = l.group
    BY <1>2, <2>1 DEF Merged, Row, Call
  <2> DEFINE m == [l EXCEPT !.pc = "update", !.id = i, !.row = Merged(players[i], l.change)]
  <2>3. /\ m \in Call /\ m.pc = "update" /\ m.me = l.me /\ m.group = l.group
        /\ m.name = l.name /\ m.change = l.change /\ m.id = i
        /\ m.row = Merged(players[i], l.change) /\ m.crossed = l.crossed
    BY <1>2, <2>1, <2>2 DEF Call
  <2>4. found[i] = m
    BY <2>1
  <2> HIDE DEF m, found, l
  <2>5. QED
    BY <1>1, <1>2, <2>1, <2>2, <2>3, <2>4 DEF Knows, Found
<1>4. QED
  <2> HIDE DEF found
  <2>1. QED BY <1>1, <1>3, LookUpStep

LEMMA FindBlackStep ==
  ASSUME ToolsInv, NEW c \in Caller, FindBlack(c) PROVE ToolsInv'
<1> DEFINE l == call[c]
           found == [i \in 1..Len(players) |-> [l EXCEPT !.pc = "findWhite", !.id = i]]
<1>1. LookUp(c, "findBlack", l.name, found) /\ l.pc = "findBlack"
  BY DEF FindBlack, LookUp
<1>2. l \in Call /\ Knows(l, players, ever) /\ players \in Seq(Row)
  BY DEF ToolsInv, CallsKnow
<1>3. ASSUME NEW i \in Named(l.group, l.name) PROVE Knows(found[i], players, ever)
  <2>1. i \in 1..Len(players) /\ i \in Nat
        /\ players[i].group = l.group /\ players[i].name = l.name
    BY <1>2 DEF Named
  <2> DEFINE m == [l EXCEPT !.pc = "findWhite", !.id = i]
  <2>2. /\ m \in Call /\ m.pc = "findWhite" /\ m.me = l.me /\ m.group = l.group
        /\ m.name = l.name /\ m.other = l.other /\ m.id = i /\ m.crossed = l.crossed
    BY <1>2, <2>1 DEF Call
  <2>3. found[i] = m
    BY <2>1
  <2> HIDE DEF m, found, l
  <2>4. QED
    BY <1>1, <1>2, <2>1, <2>2, <2>3 DEF Knows, Found
<1>4. QED
  <2> HIDE DEF found
  <2>1. QED BY <1>1, <1>3, LookUpStep

LEMMA FindWhiteStep ==
  ASSUME ToolsInv, NEW c \in Caller, FindWhite(c) PROVE ToolsInv'
<1> DEFINE l == call[c]
           found == [i \in 1..Len(players) |-> [l EXCEPT !.pc = "record", !.white = i]]
<1>1. LookUp(c, "findWhite", l.other, found) /\ l.pc = "findWhite"
  BY DEF FindWhite, LookUp
<1>2. l \in Call /\ Knows(l, players, ever) /\ players \in Seq(Row)
  BY DEF ToolsInv, CallsKnow
<1>3. ASSUME NEW i \in Named(l.group, l.other) PROVE Knows(found[i], players, ever)
  <2>1. i \in 1..Len(players) /\ i \in Nat
        /\ players[i].group = l.group /\ players[i].name = l.other
    BY <1>2 DEF Named
  <2> DEFINE m == [l EXCEPT !.pc = "record", !.white = i]
  <2>2. /\ m \in Call /\ m.pc = "record" /\ m.me = l.me /\ m.group = l.group
        /\ m.name = l.name /\ m.other = l.other /\ m.id = l.id /\ m.white = i
        /\ m.crossed = l.crossed
    BY <1>2, <2>1 DEF Call
  <2>3. found[i] = m
    BY <2>1
  <2> HIDE DEF m, found, l
  <2>4. QED
    BY <1>1, <1>2, <2>1, <2>2, <2>3 DEF Knows, Found
<1>4. QED
  <2> HIDE DEF found
  <2>1. QED BY <1>1, <1>3, LookUpStep

LEMMA UpdateStep ==
  ASSUME ToolsInv, NEW c \in Caller, Update(c) PROVE ToolsInv'
<1> DEFINE l == call[c]
<1>1. /\ l.pc = "update" /\ players' = [players EXCEPT ![l.id] = l.row]
      /\ UNCHANGED <<ever, games>>
  BY DEF Update, vars
<1>2. Knows(l, players, ever) /\ players \in Seq(Row) /\ games \in Seq(GameRow)
  BY DEF ToolsInv, CallsKnow
<1>3. l.id \in 1..Len(players) /\ l.row \in Row /\ l.row.group = players[l.id].group
  BY <1>1, <1>2 DEF Knows, Found
<1>4. /\ players' \in Seq(Row) /\ Len(players') = Len(players)
      /\ \A i \in 1..Len(players) :
           players'[i].group = players[i].group /\ (i # l.id => players'[i] = players[i])
  <2> HIDE DEF l
  <2>1. QED BY <1>1, <1>2, <1>3
<1>5. ASSUME NEW d \in Caller PROVE Knows(call'[d], players', ever') /\ call'[d] \in Call
  <2>1. /\ call'[d] = IF d = c THEN NoCall
                      ELSE IF l.id \in {call[d].id, call[d].white}
                        THEN [call[d] EXCEPT !.crossed = TRUE]
                        ELSE call[d]
        /\ Knows(call[d], players, ever) /\ call[d] \in Call
    BY DEF Update, ToolsInv, CallsKnow
  <2>2. CASE d = c
    BY <2>1, <2>2, NoCallKnows DEF Knows
  <2>3. CASE d # c /\ l.id \in {call[d].id, call[d].white}
    <3> DEFINE m == [call[d] EXCEPT !.crossed = TRUE]
    <3>1. /\ m \in Call /\ m.crossed = TRUE /\ m.pc = call[d].pc /\ m.me = call[d].me
          /\ m.group = call[d].group /\ m.name = call[d].name /\ m.other = call[d].other
          /\ m.id = call[d].id /\ m.white = call[d].white /\ m.row = call[d].row
      BY <2>1 DEF Call
    <3>2. call'[d] = m
      BY <2>1, <2>3
    <3> HIDE DEF m, l
    <3>3. ASSUME NEW i, NEW n, Found(call[d], players, i, n) PROVE Found(m, players', i, n)
      BY <1>2, <1>4, <3>1, <3>3 DEF Found
    <3>4. Knows(m, players', ever)
      BY <2>1, <3>1, <3>3 DEF Knows
    <3>5. QED
      BY <1>1, <3>1, <3>2, <3>4
  <2>4. CASE d # c /\ l.id \notin {call[d].id, call[d].white}
    <3>1. call'[d] = call[d]
      BY <2>1, <2>4
    <3> HIDE DEF l
    <3>2. QED
      BY <1>1, <1>4, <2>1, <2>4, <3>1 DEF Knows, Found
  <2>5. QED
    BY <2>2, <2>3, <2>4
<1>6. call' \in [Caller -> Call]
  BY <1>5 DEF Update
<1>7. QED
  BY <1>1, <1>2, <1>4, <1>5, <1>6 DEF ToolsInv, CallsKnow

LEMMA RecordGameStep ==
  ASSUME AdminInv, ToolsInv, NEW c \in Caller, RecordGame(c) PROVE ToolsInv'
<1> DEFINE l == call[c]
<1>1. /\ l.pc = "record" /\ call' = [call EXCEPT ![c] = NoCall]
      /\ UNCHANGED <<ever, players>>
  BY DEF RecordGame, vars
<1>2. Knows(l, players, ever) /\ players \in Seq(Row) /\ games \in Seq(GameRow)
  BY DEF ToolsInv, CallsKnow
<1>3. l.group \in Group /\ l.id \in Nat /\ l.white \in Nat
  BY <1>1, <1>2 DEF Knows, Found, AdminInv, TablesOK
<1>4. games' \in Seq(GameRow)
  <2>1. [group |-> l.group, black |-> l.id, white |-> l.white] \in GameRow
    BY <1>3 DEF GameRow
  <2>2. games' = games \/
        games' = Append(games, [group |-> l.group, black |-> l.id, white |-> l.white])
    BY DEF RecordGame
  <2> HIDE DEF l
  <2>3. QED
    BY <1>2, <2>1, <2>2
<1>5. Len(players) <= Len(players')
  BY <1>1, <1>2
<1>6. QED
  BY <1>1, <1>2, <1>4, <1>5, EndCall

LEMMA NoCallsYet == ToolsInit => ToolsInv
<1> SUFFICES ASSUME ToolsInit PROVE ToolsInv
  OBVIOUS
<1>1. NoCall \in Call
  BY DEF NoCall, Call
<1>2. QED
  BY <1>1, NoCallKnows DEF ToolsInit, ToolsInv, CallsKnow

\* What the logins and the admins' tools do reaches a call through ever only.
LEMMA OthersStep ==
  ASSUME ToolsInv, ever \subseteq ever', UNCHANGED <<players, games, call>> PROVE ToolsInv'
<1>1. players \in Seq(Row) /\ Len(players) <= Len(players)
  BY DEF ToolsInv
<1>2. ASSUME NEW c \in Caller PROVE Knows(call[c], players, ever')
  BY <1>1, KnowsGrow DEF ToolsInv, CallsKnow
<1>3. QED
  BY <1>2 DEF ToolsInv, CallsKnow

LEMMA EverGrows == Next \/ UNCHANGED vars => ever \subseteq ever'
  BY DEF Next, HandlerNext, vars, Login, CreateGroup, AddCreator, Resolve, FindTarget,
         CountAdmins, AddAdmin, RemoveAdmin, Fail

LEMMA ToolsStep ==
  ASSUME AdminInv, ToolsInv, [ToolsNext]_toolVars PROVE ToolsInv'
<1>1. CASE (Next \/ UNCHANGED vars) /\ UNCHANGED <<players, games, call>>
  BY <1>1, EverGrows, OthersStep
<1>2. ASSUME NEW c \in Caller, CallerNext(c) PROVE ToolsInv'
  <2>1. ASSUME NEW u \in User, NEW g \in Group, NEW n \in Name,
               \/ BeginAdd(c, u, g, n)
               \/ \E change \in Change : BeginUpdate(c, u, g, n, change)
               \/ \E m \in Name : BeginGame(c, u, g, n, m)
        PROVE  ToolsInv'
    BY <2>1, BeginSteps
  <2>2. CASE AddPlayer(c)
    BY <2>2, AddPlayerStep
  <2>3. CASE Find(c)
    BY <2>3, FindStep
  <2>4. CASE Update(c)
    BY <2>4, UpdateStep
  <2>5. CASE FindBlack(c)
    BY <2>5, FindBlackStep
  <2>6. CASE FindWhite(c)
    BY <2>6, FindWhiteStep
  <2>7. CASE RecordGame(c)
    BY <2>7, RecordGameStep
  <2>8. CASE Abandon(c)
    <3>1. UNCHANGED <<ever, players, games>> /\ call' = [call EXCEPT ![c] = NoCall]
      BY <2>8 DEF Abandon, vars
    <3>2. QED
      BY <3>1, NoCallKnows, LookStep
  <2>9. QED
    BY <1>2, <2>1, <2>2, <2>3, <2>4, <2>5, <2>6, <2>7, <2>8 DEF CallerNext
<1>3. QED
  BY <1>1, <1>2 DEF ToolsNext, toolVars

THEOREM ToolsInvariant == ToolsSpec => [](AdminInv /\ ToolsInv)
<1>1. ToolsInit => ToolsInv
  BY NoCallsYet
<1>2. AdminInv /\ ToolsInv /\ [ToolsNext]_toolVars => ToolsInv'
  BY ToolsStep
<1>3. QED
  BY <1>1, <1>2, AdminInvariant, PTL DEF ToolsSpec

-----------------------------------------------------------------------------
\* Rows, games and calls refer to groups and players that are there.
Refers ==
  /\ \A i \in 1..Len(players) : players[i].group \in groups
  /\ \A i \in 1..Len(games) :
       games[i].black \in 1..Len(players) /\ games[i].white \in 1..Len(players)
  /\ \A c \in Caller : call[c].id \in 0..Len(players)

LEMMA RefersLocal ==
  ASSUME ToolsInv, Refers, NEW c \in Caller, NEW l, call' = [call EXCEPT ![c] = l],
         UNCHANGED <<vars, players, games>>, l.id \in 0..Len(players)
  PROVE  Refers'
<1>1. \A d \in Caller : call'[d] = IF d = c THEN l ELSE call[d]
  BY DEF ToolsInv
<1>2. QED
  BY <1>1 DEF Refers, vars

LEMMA RefersLookUp ==
  ASSUME ToolsInv, Refers, NEW c \in Caller, NEW from, NEW n, NEW found,
         LookUp(c, from, n, found),
         \A i \in 1..Len(players) : found[i].id \in 0..Len(players)
  PROVE  Refers'
<1>1. UNCHANGED <<vars, players, games>> /\ Len(players) \in Nat
  BY DEF LookUp, ToolsInv
<1>2. NoCall.id \in 0..Len(players)
  BY <1>1 DEF NoCall
<1>3. PICK l : call' = [call EXCEPT ![c] = l] /\ l.id \in 0..Len(players)
  BY <1>2 DEF LookUp, Named
<1>4. QED
  BY <1>1, <1>3, RefersLocal

LEMMA RefersStep ==
  ASSUME AdminInv, ToolsInv, Refers, NEW c \in Caller, CallerNext(c)
  PROVE  Refers'
<1> DEFINE l == call[c]
           n == Len(players)
<1>1. /\ players \in Seq(Row) /\ games \in Seq(GameRow) /\ call \in [Caller -> Call]
      /\ l \in Call /\ Knows(l, players, ever) /\ n \in Nat /\ l.id \in 0..n
  BY DEF ToolsInv, CallsKnow, Refers
<1>2. NoCall.id = 0 /\ 0 \in 0..n
  BY <1>1 DEF NoCall
<1>3. l.pc # "idle" => l.group \in groups
  BY <1>1 DEF Knows, AdminInv, TablesOK
<1>4. ASSUME NEW u \in User, NEW g \in Group, NEW m, NEW k, Begin(c, u, g, k), k.id = 0
      PROVE  Refers'
  BY <1>2, <1>4, RefersLocal DEF Begin
<1>5. ASSUME NEW u \in User, NEW g \in Group, NEW m \in Name,
             \/ BeginAdd(c, u, g, m)
             \/ \E change \in Change : BeginUpdate(c, u, g, m, change)
             \/ \E other \in Name : BeginGame(c, u, g, m, other)
      PROVE  Refers'
  <2>1. \A pc : Asked(u, g, pc, m).id = 0
    BY DEF Asked, NoCall
  <2>2. \A change, other :
          /\ [Asked(u, g, "find", m) EXCEPT !.change = change].id = 0
          /\ [Asked(u, g, "findBlack", m) EXCEPT !.other = other].id = 0
    BY DEF Asked, NoCall
  <2>3. QED BY <1>4, <1>5, <2>1, <2>2 DEF BeginAdd, BeginUpdate, BeginGame
<1>6. CASE AddPlayer(c)
  <2> DEFINE row == [group |-> l.group, name |-> l.name, active |-> TRUE]
  <2>1. /\ players' = Append(players, row) /\ row.group \in groups
        /\ call' = [call EXCEPT ![c] = NoCall] /\ groups' = groups /\ games' = games
    BY <1>3, <1>6 DEF AddPlayer, vars
  <2> HIDE DEF row
  <2>2. /\ Len(players') = n + 1 /\ players'[n + 1] = row
        /\ \A i \in 1..n : players'[i] = players[i]
    BY <1>1, <2>1
  <2>3. \A i \in 1..Len(players') : players'[i].group \in groups'
    BY <1>1, <2>1, <2>2 DEF Refers
  <2>4. \A d \in Caller : call'[d].id \in 0..n
    BY <1>1, <1>2, <2>1 DEF Refers
  <2>5. QED BY <1>1, <2>1, <2>2, <2>3, <2>4 DEF Refers
<1>7. CASE Update(c)
  <2>1. /\ l.pc = "update" /\ players' = [players EXCEPT ![l.id] = l.row]
        /\ UNCHANGED <<groups, games>>
    BY <1>7 DEF Update, vars
  <2>2. l.row.group = l.group /\ l.group \in groups
    BY <1>1, <1>3, <2>1 DEF Knows
  <2>3. /\ Len(players') = n
        /\ \A i \in 1..n : players'[i] = IF i = l.id THEN l.row ELSE players[i]
    <3> HIDE DEF l
    <3>1. QED BY <1>1, <2>1
  <2>4. ASSUME NEW d \in Caller PROVE call'[d].id \in 0..n
    <3>1. call[d] \in Call /\ call[d].id \in 0..n
      BY <1>1 DEF Refers
    <3>2. [call[d] EXCEPT !.crossed = TRUE].id = call[d].id
      BY <3>1 DEF Call
    <3>3. \/ call'[d] = NoCall \/ call'[d] = call[d]
          \/ call'[d] = [call[d] EXCEPT !.crossed = TRUE]
      BY <1>7 DEF Update
    <3>4. QED BY <1>2, <3>1, <3>2, <3>3
  <2> HIDE DEF l
  <2>5. QED BY <1>1, <2>1, <2>2, <2>3, <2>4 DEF Refers
<1>8. CASE Find(c)
  <2> DEFINE found == [i \in 1..Len(players) |->
                         [l EXCEPT !.pc = "update", !.id = i,
                                   !.row = Merged(players[i], l.change)]]
  <2>1. LookUp(c, "find", l.name, found)
    BY <1>8 DEF Find
  <2>2. \A i \in 1..n : found[i].id = i
    BY <1>1 DEF Call
  <2> HIDE DEF found
  <2>3. QED BY <1>1, <2>1, <2>2, RefersLookUp
<1>9. CASE FindBlack(c)
  <2> DEFINE found == [i \in 1..Len(players) |-> [l EXCEPT !.pc = "findWhite", !.id = i]]
  <2>1. LookUp(c, "findBlack", l.name, found)
    BY <1>9 DEF FindBlack
  <2>2. \A i \in 1..n : found[i].id = i
    BY <1>1 DEF Call
  <2> HIDE DEF found
  <2>3. QED BY <1>1, <2>1, <2>2, RefersLookUp
<1>10. CASE FindWhite(c)
  <2> DEFINE found == [i \in 1..Len(players) |-> [l EXCEPT !.pc = "record", !.white = i]]
  <2>1. LookUp(c, "findWhite", l.other, found)
    BY <1>10 DEF FindWhite
  <2>2. \A i \in 1..n : found[i].id = l.id
    BY <1>1 DEF Call
  <2> HIDE DEF found
  <2>3. QED BY <1>1, <2>1, <2>2, RefersLookUp
<1>11. CASE RecordGame(c)
  <2> DEFINE game == [group |-> l.group, black |-> l.id, white |-> l.white]
  <2>1. /\ l.pc = "record" /\ call' = [call EXCEPT ![c] = NoCall]
        /\ UNCHANGED <<groups, players>> /\ games' \in {games, Append(games, game)}
    BY <1>11 DEF RecordGame, vars
  <2>2. l.id \in 1..n /\ l.white \in 1..n
    BY <1>1, <2>1 DEF Knows, Found
  <2>3. game.black = l.id /\ game.white = l.white
    OBVIOUS
  <2> HIDE DEF game
  <2>4. \A i \in 1..Len(games') :
          (i \in 1..Len(games) /\ games'[i] = games[i]) \/ games'[i] = game
    BY <1>1, <2>1
  <2>5. \A d \in Caller : call'[d].id \in 0..n
    BY <1>1, <1>2, <2>1 DEF Refers
  <2> HIDE DEF l
  <2>6. QED BY <2>1, <2>2, <2>3, <2>4, <2>5 DEF Refers
<1>12. CASE Abandon(c)
  BY <1>2, <1>12, RefersLocal DEF Abandon
<1>13. QED
  BY <1>5, <1>6, <1>7, <1>8, <1>9, <1>10, <1>11, <1>12 DEF CallerNext

(***************************************************************************)
(* Types of the admins' and the players' tools; what the tools look up in  *)
(* one statement and write in another, refers to rows that are there.      *)
(***************************************************************************)
THEOREM ToolsTypes == ToolsSpec => []ToolsTypeOK
<1>1. ToolsInit => Refers
  BY DEF ToolsInit, Refers, NoCall
<1>2. AdminInv /\ ToolsInv /\ Refers /\ [ToolsNext]_toolVars => Refers'
  <2> SUFFICES ASSUME AdminInv, ToolsInv, Refers, [ToolsNext]_toolVars PROVE Refers'
    OBVIOUS
  <2>1. CASE (Next \/ UNCHANGED vars) /\ UNCHANGED <<players, games, call>>
    <3>1. groups \subseteq groups'
      BY <2>1 DEF Next, HandlerNext, vars, Login, CreateGroup, AddCreator, Resolve,
                  FindTarget, CountAdmins, AddAdmin, RemoveAdmin, Fail
    <3>2. QED BY <2>1, <3>1 DEF Refers
  <2>2. QED BY <2>1, RefersStep DEF ToolsNext, toolVars
<1>3. AdminInv /\ ToolsInv /\ Refers => ToolsTypeOK
  <2> SUFFICES ASSUME AdminInv, ToolsInv, Refers PROVE ToolsTypeOK
    OBVIOUS
  <2>1. TypeOK
    <3>1. /\ email \in [User -> Email \cup {None}] /\ groups \subseteq Group
          /\ admins \subseteq ever /\ ever \subseteq LoggedIn \X groups
          /\ req \in [Handler -> Request]
      BY DEF AdminInv, TablesOK
    <3>2. admins \subseteq LoggedIn \X groups
      BY <3>1
    <3>3. QED BY <3>1, <3>2 DEF TypeOK, LoggedIn
  <2> DEFINE R == [group : groups, name : Name, active : BOOLEAN]
  <2>2. players \in Seq(Row) /\ \A i \in 1..Len(players) : players[i] \in R
    <3>1. players \in Seq(Row) /\ \A i \in 1..Len(players) : players[i] \in Row
      BY DEF ToolsInv
    <3>2. QED BY <3>1 DEF Refers, Row
  <2> HIDE DEF R
  <2>3. players \in Seq(R)
    BY <2>2
  <2>4. QED BY <2>1, <2>3 DEF ToolsTypeOK, Refers, R
<1>4. QED
  BY <1>1, <1>2, <1>3, ToolsInvariant, PTL DEF ToolsSpec

-----------------------------------------------------------------------------
Rows(t, g) == {<<i, t[i]>> : i \in {j \in 1..Len(t) : t[j].group = g}}

\* Rows of other groups, replaced or added.
LEMMA SameRows ==
  ASSUME NEW t, NEW u, NEW g, Len(t) \in Nat, Len(u) \in Nat, Len(t) <= Len(u),
         \A i \in 1..Len(t) : u[i] = t[i] \/ (t[i].group # g /\ u[i].group # g),
         \A i \in 1..Len(u) : i > Len(t) => u[i].group # g
  PROVE  Rows(u, g) = Rows(t, g)
<1> DEFINE S(s) == {j \in 1..Len(s) : s[j].group = g}
<1>1. S(u) = S(t) /\ \A j \in S(t) : u[j] = t[j]
  OBVIOUS
<1>2. Rows(u, g) = {<<i, u[i]>> : i \in S(u)} /\ Rows(t, g) = {<<i, t[i]>> : i \in S(t)}
  BY DEF Rows
<1> HIDE DEF S
<1>3. {<<i, u[i]>> : i \in S(t)} = {<<i, t[i]>> : i \in S(t)}
  BY <1>1
<1>4. QED
  BY <1>1, <1>2, <1>3

LEMMA AppendRows ==
  ASSUME NEW S, NEW t \in Seq(S), NEW r, NEW g, r.group # g, NEW u, u = Append(t, r)
  PROVE  Rows(u, g) = Rows(t, g)
<1>1. /\ Len(u) = Len(t) + 1 /\ u[Len(t) + 1] = r /\ Len(t) \in Nat
      /\ \A i \in 1..Len(t) : u[i] = t[i]
  OBVIOUS
<1>2. \A i \in 1..Len(u) : i > Len(t) => u[i].group # g
  BY <1>1
<1>3. Len(u) \in Nat /\ Len(t) <= Len(u)
  BY <1>1
<1>4. QED
  BY <1>1, <1>2, <1>3, SameRows

\* Rows change by one of three steps, of a call that ends, and only those of its group.
LEMMA RowsChange ==
  ASSUME AdminInv, ToolsInv, [ToolsNext]_toolVars, NEW g \in Group,
         Rows(players', g) # Rows(players, g) \/ Rows(games', g) # Rows(games, g)
  PROVE  \E c \in Caller :
           call[c].group = g /\ call'[c] = NoCall /\ <<call[c].me, g>> \in ever
<1>1. PICK c \in Caller : AddPlayer(c) \/ Update(c) \/ RecordGame(c)
  <2>1. players' # players \/ games' # games
    OBVIOUS
  <2>2. ASSUME NEW c \in Caller, CallerNext(c), ~(AddPlayer(c) \/ Update(c) \/ RecordGame(c))
        PROVE  UNCHANGED <<players, games>>
    BY <2>2 DEF CallerNext, BeginAdd, BeginUpdate, BeginGame, Begin, Find, FindBlack,
                FindWhite, LookUp, Abandon
  <2>3. QED
    BY <2>1, <2>2 DEF ToolsNext, toolVars
<1> DEFINE l == call[c]
<1>2. Knows(l, players, ever) /\ players \in Seq(Row) /\ games \in Seq(GameRow)
  BY DEF ToolsInv, CallsKnow
<1>3. call'[c] = NoCall /\ l.pc # "idle"
  BY <1>1 DEF AddPlayer, Update, RecordGame, ToolsInv
<1>4. <<l.me, l.group>> \in ever /\ l.group \in Group /\ l.name \in Name
  BY <1>2, <1>3 DEF Knows, AdminInv, TablesOK
<1>5. SUFFICES ASSUME l.group # g PROVE FALSE
  BY <1>3, <1>4
<1>6. CASE AddPlayer(c)
  <2> DEFINE r == [group |-> l.group, name |-> l.name, active |-> TRUE]
  <2>1. players' = Append(players, r) /\ games' = games
    BY <1>6 DEF AddPlayer
  <2>2. r \in Row /\ r.group # g
    BY <1>4, <1>5 DEF Row
  <2> HIDE DEF r, l
  <2>3. Rows(players', g) = Rows(players, g)
    <3>1. players \in Seq(Row) /\ r.group # g /\ players' = Append(players, r)
      BY <1>2, <2>1, <2>2
    <3>2. QED
      BY ONLY <3>1, AppendRows, ZenonT(60)
  <2>4. QED
    BY <2>1, <2>3
<1>7. CASE Update(c)
  <2>1. players' = [players EXCEPT ![l.id] = l.row] /\ games' = games /\ l.pc = "update"
    BY <1>7 DEF Update
  <2>2. /\ l.id \in 1..Len(players) /\ players[l.id].group # g
        /\ l.row \in Row /\ l.row.group # g
    BY <1>2, <1>5, <2>1 DEF Knows, Found
  <2> HIDE DEF l
  <2>3. /\ Len(players) \in Nat /\ Len(players') = Len(players)
        /\ players'[l.id] = l.row
        /\ \A i \in 1..Len(players) : i # l.id => players'[i] = players[i]
    BY <1>2, <2>1, <2>2
  <2>4. Rows(players', g) = Rows(players, g)
    BY <2>2, <2>3, SameRows
  <2>5. QED
    BY <2>1, <2>4
<1>8. CASE RecordGame(c)
  <2> DEFINE r == [group |-> l.group, black |-> l.id, white |-> l.white]
  <2>1. players' = players /\ (games' = games \/ games' = Append(games, r)) /\ l.pc = "record"
    BY <1>8 DEF RecordGame
  <2>2. r \in GameRow /\ r.group # g
    BY <1>2, <1>4, <1>5, <2>1 DEF GameRow, Knows, Found
  <2> HIDE DEF r, l
  <2>3. Rows(games', g) = Rows(games, g)
    BY <1>2, <2>1, <2>2, AppendRows
  <2>4. QED
    BY <2>1, <2>3
<1>9. QED
  BY <1>1, <1>6, <1>7, <1>8

LEMMA UpdateWrites ==
  ASSUME ToolsInv, NEW c \in Caller, Update(c), ~call[c].crossed
  PROVE  LET l == call[c]
         IN  /\ players[l.id].name = l.name
             /\ l.change.name = None => players'[l.id].name = players[l.id].name
             /\ l.change.active = None => players'[l.id].active = players[l.id].active
<1> DEFINE l == call[c]
<1>1. l.pc = "update" /\ players' = [players EXCEPT ![l.id] = l.row]
  BY DEF Update
<1>2. Knows(l, players, ever) /\ players \in Seq(Row)
  BY DEF ToolsInv, CallsKnow
<1>3. /\ l.id \in 1..Len(players) /\ players[l.id].name = l.name
      /\ l.row = Merged(players[l.id], l.change)
  BY <1>1, <1>2 DEF Knows, Found
<1>4. players[l.id] \in Row /\ players'[l.id] = l.row
  <2> HIDE DEF l
  <2>1. QED BY <1>1, <1>2, <1>3
<1>5. /\ l.change.name = None => l.row.name = players[l.id].name
      /\ l.change.active = None => l.row.active = players[l.id].active
  <2> HIDE DEF l
  <2>1. QED BY <1>3, <1>4 DEF Merged, Row
<1>6. QED
  BY <1>3, <1>4, <1>5

LEMMA GameWritten ==
  ASSUME ToolsInv, NEW c \in Caller, RecordGame(c), games' # games, ~call[c].crossed
  PROVE  LET l == call[c]
         IN  /\ players[games'[Len(games')].black].name = l.name
             /\ players[games'[Len(games')].white].name = l.other
<1> DEFINE l == call[c]
           r == [group |-> l.group, black |-> l.id, white |-> l.white]
<1>1. l.pc = "record" /\ games' = Append(games, r)
  BY DEF RecordGame
<1>2. Knows(l, players, ever) /\ games \in Seq(GameRow)
  BY DEF ToolsInv, CallsKnow
<1>3. players[l.id].name = l.name /\ players[l.white].name = l.other
  BY <1>1, <1>2 DEF Knows, Found
<1>4. games'[Len(games')] = r
  <2> HIDE DEF r, l
  <2>1. QED BY <1>1, <1>2
<1>5. QED
  BY <1>3, <1>4

(***************************************************************************)
(* The players and games of a group change only by a call for this group   *)
(* of somebody who is or was its admin (resolveAdminGroup), late as it may *)
(* write.                                                                  *)
(***************************************************************************)
THEOREM OnlyAdminsChangeRows == ToolsSpec => AskedByAdmin
<1>1. AdminInv /\ ToolsInv /\ [ToolsNext]_toolVars =>
        [\A g \in Group :
           LET rows(t) == {<<i, t[i]>> : i \in {j \in 1..Len(t) : t[j].group = g}}
           IN  rows(players') # rows(players) \/ rows(games') # rows(games) =>
                 \E c \in Caller : call[c].group = g /\ call'[c] = NoCall
                                     /\ <<call[c].me, g>> \in ever]_toolVars
  BY RowsChange DEF Rows
<1>2. QED
  BY <1>1, ToolsInvariant, PTL DEF ToolsSpec, AskedByAdmin

(***************************************************************************)
(* An update changes nothing it was not asked to change, in a row that had *)
(* the name it was asked to look for, unless an update of the same player  *)
(* came between its read and its write (toolUpdatePlayer).                 *)
(***************************************************************************)
THEOREM UncrossedUpdateKeepsRest == ToolsSpec => UpdateKeepsRest
<1>1. ToolsInv =>
        [\A c \in Caller :
           LET l == call[c]
           IN  Update(c) /\ ~l.crossed =>
                 /\ players[l.id].name = l.name
                 /\ l.change.name = None => players'[l.id].name = players[l.id].name
                 /\ l.change.active = None => players'[l.id].active = players[l.id].active
        ]_toolVars
  BY UpdateWrites
<1>2. QED
  BY <1>1, ToolsInvariant, PTL DEF ToolsSpec, UpdateKeepsRest

(***************************************************************************)
(* A game is recorded for players who bear the names it was reported for,  *)
(* black the one and white the other, unless a player was renamed since    *)
(* his name was looked up (toolRecordGame).                                *)
(***************************************************************************)
THEOREM UncrossedGameOfNamed == ToolsSpec => GameOfNamed
<1>1. ToolsInv =>
        [\A c \in Caller :
           LET l == call[c]
           IN  RecordGame(c) /\ games' # games /\ ~l.crossed =>
                 /\ players[games'[Len(games')].black].name = l.name
                 /\ players[games'[Len(games')].white].name = l.other]_toolVars
  BY GameWritten
<1>2. QED
  BY <1>1, ToolsInvariant, PTL DEF ToolsSpec, GameOfNamed
=============================================================================
