----------------------------- MODULE GroupAdmins -----------------------------
(***************************************************************************)
(* Who may administer a group: the tables users, groups and group_admins,  *)
(* the login that keeps the e-mail addresses, and the MCP tools            *)
(* create_group, add_admin and remove_admin.  A tool call is served by a   *)
(* goroutine (a Handler) in several store calls, one statement each; what  *)
(* it has read it keeps in its local variables.  Groups and users are      *)
(* never deleted, and a slug never changes, so a slug stands for its       *)
(* group and reading one is no step of its own.                            *)
(***************************************************************************)
EXTENDS Integers, FiniteSets

CONSTANTS
  User,        \* the OIDC subjects that may log in
  Email,       \* their e-mail addresses, which need not be different
  None,        \* no row in users yet, and no value
  Group,       \* slugs
  Handler      \* request goroutines

ASSUME AdminsAssumption ==
  /\ None \notin Email \cup User \cup Group
  /\ User # {} /\ Group # {}

VARIABLES
  email,   \* email[u]: the row of users
  groups,  \* the rows of groups
  admins,  \* the rows of group_admins, <<user, group>>
  req,     \* req[h]: program counter and local variables of a tool call
  ever     \* history: the pairs that have been in admins

vars == <<email, groups, admins, req, ever>>

Tool == {"create_group", "add_admin", "remove_admin"}
PC == {"idle", "addCreator", "findTarget", "countAdmins", "write"}

(***************************************************************************)
(* crossed is history: another call has removed an admin of the same group *)
(* since this one was found to come from an admin.                         *)
(***************************************************************************)
Request == [pc : PC, tool : Tool, me : User \cup {None}, group : Group \cup {None},
            target : User \cup {None}, crossed : BOOLEAN]

Idle == [pc |-> "idle", tool |-> "create_group", me |-> None, group |-> None,
         target |-> None, crossed |-> FALSE]

AdminsOf(g) == {u \in User : <<u, g>> \in admins}

Init ==
  /\ email = [u \in User |-> None]
  /\ groups = {}
  /\ admins = {}
  /\ req = [h \in Handler |-> Idle]
  /\ ever = {}

\* UpsertUserByOIDC: the login of u, with the address the provider gives.
Login(u, e) ==
  /\ email' = [email EXCEPT ![u] = e]
  /\ UNCHANGED <<groups, admins, req, ever>>

-----------------------------------------------------------------------------
\* Mutant: INSERT OR IGNORE, a group that is there is taken.
CreateGroup_Again(h, u, g) ==
  /\ req[h].pc = "idle"
  /\ email[u] # None
  /\ groups' = groups \cup {g}
  /\ req' = [req EXCEPT ![h] = [Idle EXCEPT !.pc = "addCreator", !.me = u, !.group = g]]
  /\ UNCHANGED <<email, admins, ever>>

\* create_group: the INSERT of the group.  A slug that is taken is an error.
CreateGroup(h, u, g) ==
  /\ req[h].pc = "idle"
  /\ email[u] # None
  /\ g \notin groups
  /\ groups' = groups \cup {g}
  /\ req' = [req EXCEPT ![h] = [Idle EXCEPT !.pc = "addCreator", !.me = u, !.group = g]]
  /\ UNCHANGED <<email, admins, ever>>

\* create_group: AddGroupAdmin for the caller.
AddCreator(h) ==
  LET row == <<req[h].me, req[h].group>>
  IN  /\ req[h].pc = "addCreator"
      /\ admins' = admins \cup {row}
      /\ ever' = ever \cup {row}
      /\ req' = [req EXCEPT ![h] = Idle]
      /\ UNCHANGED <<email, groups>>

-----------------------------------------------------------------------------
\* Mutant: the row is looked for by group only.
IsGroupAdmin_SomeRow(u, g) == \E x \in User : <<x, g>> \in admins

IsGroupAdmin(u, g) == <<u, g>> \in admins

(***************************************************************************)
(* add_admin and remove_admin: resolveAdminGroup.  The caller holds a      *)
(* token, so he has a row in users; a caller who is no admin is turned     *)
(* away.                                                                   *)
(***************************************************************************)
Resolve(h, tool, u, g) ==
  /\ req[h].pc = "idle"
  /\ email[u] # None
  /\ g \in groups
  /\ IsGroupAdmin(u, g)
  /\ req' = [req EXCEPT ![h] =
       [Idle EXCEPT !.pc = "findTarget", !.tool = tool, !.me = u, !.group = g]]
  /\ UNCHANGED <<email, groups, admins, ever>>

(***************************************************************************)
(* UserByEmail: some user with the address; with none the call ends.  Only *)
(* a removal of the caller himself counts the admins.                      *)
(***************************************************************************)
FindTarget(h, e) ==
  LET l    == req[h]
      with == {u \in User : email[u] = e}
  IN  /\ l.pc = "findTarget"
      /\ IF with = {} THEN req' = [req EXCEPT ![h] = Idle]
         ELSE \E x \in with : req' = [req EXCEPT ![h] =
           [l EXCEPT !.target = x,
                     !.pc = IF l.tool = "remove_admin" /\ x = l.me
                              THEN "countAdmins" ELSE "write"]]
      /\ UNCHANGED <<email, groups, admins, ever>>

\* Mutant: < for <=.
CountAdmins_Less(h) ==
  /\ req[h].pc = "countAdmins"
  /\ req' = [req EXCEPT ![h] =
       IF Cardinality(AdminsOf(req[h].group)) < 1 THEN Idle
                                                  ELSE [req[h] EXCEPT !.pc = "write"]]
  /\ UNCHANGED <<email, groups, admins, ever>>

\* ListGroupAdmins: the last admin may not go.
CountAdmins(h) ==
  /\ req[h].pc = "countAdmins"
  /\ req' = [req EXCEPT ![h] =
       IF Cardinality(AdminsOf(req[h].group)) <= 1 THEN Idle
                                                   ELSE [req[h] EXCEPT !.pc = "write"]]
  /\ UNCHANGED <<email, groups, admins, ever>>

AddAdmin(h) ==
  LET row == <<req[h].target, req[h].group>>
  IN  /\ req[h].pc = "write" /\ req[h].tool = "add_admin"
      /\ admins' = admins \cup {row}
      /\ ever' = ever \cup {row}
      /\ req' = [req EXCEPT ![h] = Idle]
      /\ UNCHANGED <<email, groups>>

RemoveAdmin(h) ==
  LET l == req[h]
  IN  /\ l.pc = "write" /\ l.tool = "remove_admin"
      /\ admins' = admins \ {<<l.target, l.group>>}
      /\ req' = [k \in Handler |->
           IF k = h THEN Idle
           ELSE IF req[k].pc # "idle" /\ req[k].group = l.group
             THEN [req[k] EXCEPT !.crossed = TRUE]
             ELSE req[k]]
      /\ UNCHANGED <<email, groups, ever>>

\* The call ends between two store calls: an error, or the server dies.
Fail(h) ==
  /\ req[h].pc # "idle"
  /\ req' = [req EXCEPT ![h] = Idle]
  /\ UNCHANGED <<email, groups, admins, ever>>

HandlerNext(h) ==
  \/ \E u \in User, g \in Group : CreateGroup(h, u, g)
  \/ AddCreator(h)
  \/ \E u \in User, g \in Group, tool \in {"add_admin", "remove_admin"} :
       Resolve(h, tool, u, g)
  \/ \E e \in Email : FindTarget(h, e)
  \/ CountAdmins(h)
  \/ AddAdmin(h)
  \/ RemoveAdmin(h)
  \/ Fail(h)

Next ==
  \/ \E u \in User, e \in Email : Login(u, e)
  \/ \E h \in Handler : HandlerNext(h)

Spec == Init /\ [][Next]_vars

-----------------------------------------------------------------------------
(***************************************************************************)
(* Types, and: group_admins refers to users who have logged in and to      *)
(* groups that are there, also when the group's INSERT and the admin's are *)
(* two statements.                                                         *)
(***************************************************************************)
TypeOK ==
  /\ email \in [User -> Email \cup {None}]
  /\ groups \subseteq Group
  /\ admins \subseteq {u \in User : email[u] # None} \X groups
  /\ req \in [Handler -> Request]
  /\ admins \subseteq ever

(***************************************************************************)
(* A group loses its last admin only to a removal that another removal in  *)
(* the same group crossed: the guard is right, its moment may be wrong.    *)
(***************************************************************************)
EmptyOnlyWhenCrossed ==
  [][\A h \in Handler, g \in Group :
       RemoveAdmin(h) /\ req[h].group = g /\ ~req[h].crossed /\ AdminsOf(g) # {}
         => AdminsOf(g)' # {}]_vars

(***************************************************************************)
(* Whoever becomes an admin was made one by an earlier admin of the same   *)
(* group, or created it; stale as the caller's own right may be by then.   *)
(***************************************************************************)
Appointed ==
  [][\A u \in User, g \in Group :
       <<u, g>> \in admins' \ admins =>
         \E h \in Handler :
           /\ req[h].group = g
           /\ \/ req[h].tool = "create_group" /\ req[h].me = u /\ AdminsOf(g) = {}
              \/ req[h].tool = "add_admin" /\ <<req[h].me, g>> \in ever]_vars

\* A group without an admin, and no admin call underway in it.
Abandoned(g) ==
  /\ g \in groups /\ AdminsOf(g) = {}
  /\ \A h \in Handler : req[h].pc # "idle" => req[h].group # g

(***************************************************************************)
(* A group whose create_group ended before AddGroupAdmin, or whose last    *)
(* two admins removed themselves at once, is lost for good: no tool, the   *)
(* create_group sent again included, gives it an admin any more.           *)
(***************************************************************************)
AbandonedStays == [][\A g \in Group : Abandoned(g) => Abandoned(g)']_vars

(***************************************************************************)
(* "Der letzte verbleibende Admin kann sich nicht selbst entfernen" (the   *)
(* description of remove_admin): no admin's removal of himself leaves the  *)
(* group without one.                                                      *)
(* The code does not keep this: GroupAdmins_two_removals.                  *)
(***************************************************************************)
LastAdminStays ==
  [][\A h \in Handler, g \in Group :
       RemoveAdmin(h) /\ req[h].group = g /\ req[h].target = req[h].me
           /\ AdminsOf(g) # {}
         => AdminsOf(g)' # {}]_vars
=============================================================================
