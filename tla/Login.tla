------------------------------- MODULE Login -------------------------------
(***************************************************************************)
(* The web login: /auth/start, the identity provider, /auth/callback, and  *)
(* the authorize page that bounces through it.  Tabs share one cookie jar. *)
(* A request carries the cookies the browser has when it sends it; what a  *)
(* handler sets or clears reaches the jar with its response, and the       *)
(* callback answers only after it has asked the provider, so that other    *)
(* tabs come in between.  The provider is external.                        *)
(***************************************************************************)
EXTENDS Naturals, FiniteSets

CONSTANTS
  Tab,
  State,       \* what RandomState makes: enough that a fresh one is left
  Request,     \* the authorize requests of MCP clients
  Home,        \* the start page
  None,        \* an absent cookie
  Account,     \* accounts at the provider
  CookieLife,  \* the life of the state and return_to cookies
  MaxLogouts   \* bound on the times a session ends

ASSUME LoginAssumption ==
  /\ Home \notin Request /\ None \notin State \cup Request \cup Account
  /\ CookieLife \in Nat \ {0}
  /\ Cardinality(State) > Cardinality(Tab)
  /\ MaxLogouts \in Nat

VARIABLES
  stateCookie, returnCookie,  \* [value, left]: left is the time until it expires
  session,                    \* the account of the session cookie
  tab,                        \* what each tab is doing
  logouts                     \* the sessions ended so far

loginVars == <<stateCookie, returnCookie, session, tab, logouts>>

Absent == [value |-> None, left |-> 0]
Cookie(v) == [value |-> v, left |-> CookieLife]

\* from: the page the login was started from; state: the flow; sent: the state cookie
\* of the callback; returnTo: a parameter of /auth/start, later the cookie of the
\* callback; who: the account signed in.
At(pc) == [pc |-> pc, from |-> Home, state |-> None, sent |-> None, returnTo |-> None,
           who |-> None]

LoginInit ==
  /\ stateCookie = Absent /\ returnCookie = Absent
  /\ session = None
  /\ tab = [b \in Tab |-> At("idle")]
  /\ logouts = 0

Show(b, page) == tab' = [tab EXCEPT ![b] = page]

-----------------------------------------------------------------------------
\* A client sends the person to /oauth/authorize.
Visit(b, r) ==
  /\ tab[b].pc \in {"idle", "home", "granted", "failed"}
  /\ Show(b, [At("authorize") EXCEPT !.from = r])
  /\ UNCHANGED <<stateCookie, returnCookie, session, logouts>>

\* handleIndex, handleLoginPage: without a session to /auth/start, with one home.
OpenLogin(b) ==
  /\ tab[b].pc \in {"idle", "home", "granted", "failed"}
  /\ Show(b, IF session = None THEN At("start") ELSE At("home"))
  /\ UNCHANGED <<stateCookie, returnCookie, session, logouts>>

\* HandleAuthorize: without a session, to the login and back; with one, granted.
Authorize(b) ==
  LET r == tab[b].from
  IN  /\ tab[b].pc = "authorize"
      /\ Show(b, IF session = None
                   THEN [At("start") EXCEPT !.from = r, !.returnTo = r]
                   ELSE [At("granted") EXCEPT !.from = r])
      /\ UNCHANGED <<stateCookie, returnCookie, session, logouts>>

InUse == {stateCookie.value} \cup {tab[b].state : b \in Tab}

\* Mutant: a return_to that is still there is not overwritten.
ReturnTo_First(rt) ==
  IF rt # None /\ returnCookie.value = None THEN Cookie(rt) ELSE returnCookie

\* The return_to cookie after /auth/start: left alone without the parameter.
ReturnTo(rt) == IF rt # None THEN Cookie(rt) ELSE returnCookie

(***************************************************************************)
(* handleAuthStart: a new state replaces the one of any other tab.  The    *)
(* cookies are set even if the provider's metadata cannot be read.         *)
(***************************************************************************)
AuthStart(b) ==
  /\ tab[b].pc = "start"
  /\ \E s \in State \ InUse :
       /\ stateCookie' = Cookie(s)
       /\ \/ Show(b, [tab[b] EXCEPT !.pc = "provider", !.state = s])
          \/ Show(b, At("failed"))
  /\ returnCookie' = ReturnTo(tab[b].returnTo)
  /\ UNCHANGED <<session, logouts>>

\* The person turns back, or signs in at the provider: the browser goes to the
\* callback, with the cookies it has now.
Provider(b) ==
  /\ tab[b].pc = "provider"
  /\ \/ \E a \in Account : Show(b, [tab[b] EXCEPT !.pc = "callback", !.who = a, !.sent = stateCookie.value,
                                             !.returnTo = returnCookie.value])
     \/ Show(b, At("failed"))
  /\ UNCHANGED <<stateCookie, returnCookie, session, logouts>>

StateMatches(b) == tab[b].sent = tab[b].state

\* handleAuthCallback up to the exchange: the state must be that of the cookie.
Callback(b) ==
  /\ tab[b].pc = "callback"
  /\ Show(b, IF StateMatches(b) THEN [tab[b] EXCEPT !.pc = "exchange"] ELSE At("failed"))
  /\ UNCHANGED <<stateCookie, returnCookie, session, logouts>>

\* Where the callback redirects to.
Landing(rt) == IF rt = None THEN Home ELSE rt

\* Mutant: no session is issued.
Issued_None(a) == session

\* Signer.Issue.
Issued(a) == a

(***************************************************************************)
(* The response of the callback: the state cookie is cleared, whichever    *)
(* value it has by now.  If the exchange and the upsert of the user went   *)
(* well there is a session, and a return_to that came along is cleared.    *)
(***************************************************************************)
Exchanged(b) ==
  LET rt == tab[b].returnTo
  IN  /\ tab[b].pc = "exchange"
      /\ stateCookie' = Absent
      /\ session' = Issued(tab[b].who)
      /\ returnCookie' = IF rt = None THEN returnCookie ELSE Absent
      /\ Show(b, IF Landing(rt) = Home THEN [At("home") EXCEPT !.from = tab[b].from]
                   ELSE [At("authorize") EXCEPT !.from = Landing(rt)])
      /\ UNCHANGED logouts

ExchangeFails(b) ==
  /\ tab[b].pc = "exchange"
  /\ stateCookie' = Absent
  /\ Show(b, At("failed"))
  /\ UNCHANGED <<returnCookie, session, logouts>>

\* handleLogout, or the end of the thirty days.
Logout ==
  /\ session # None
  /\ logouts < MaxLogouts
  /\ session' = None
  /\ logouts' = logouts + 1
  /\ UNCHANGED <<stateCookie, returnCookie, tab>>

Aged(c) == IF c.left > 1 THEN [c EXCEPT !.left = @ - 1] ELSE Absent

\* Time passes for the cookies with a MaxAge.
Age ==
  /\ stateCookie # Absent \/ returnCookie # Absent
  /\ stateCookie' = Aged(stateCookie)
  /\ returnCookie' = Aged(returnCookie)
  /\ UNCHANGED <<session, tab, logouts>>

TabNext(b) ==
  \/ Authorize(b) \/ AuthStart(b) \/ Provider(b) \/ Callback(b)
  \/ Exchanged(b) \/ ExchangeFails(b)

LoginNext ==
  \/ \E b \in Tab, r \in Request : Visit(b, r)
  \/ \E b \in Tab : OpenLogin(b) \/ TabNext(b)
  \/ Logout
  \/ Age

LoginSpec == LoginInit /\ [][LoginNext]_loginVars

\* Fairness: a page that has been requested is answered, and the person at the
\* provider signs in or turns back.  Nobody has to visit, log out or wait.  Somebody who kept
\* logging out would never come to rest, hence the bound.
FairLogin == LoginSpec /\ \A b \in Tab : WF_loginVars(TabNext(b))

-----------------------------------------------------------------------------
Cookies(V) == [value : V \cup {None}, left : 0..CookieLife]

LoginTypeOK ==
  /\ stateCookie \in Cookies(State)
  /\ returnCookie \in Cookies(Request)
  /\ session \in Account \cup {None} /\ logouts \in 0..MaxLogouts
  /\ \A b \in Tab :
       tab[b] \in [pc : {"idle", "authorize", "granted", "start", "provider", "callback",
                         "exchange", "home", "failed"},
                   from : Request \cup {Home}, state : State \cup {None},
                   sent : State \cup {None}, returnTo : Request \cup {None}, who : Account \cup {None}]

(***************************************************************************)
(* "so e.g. /oauth/authorize can bounce here and come back after login": a *)
(* login that an authorize page started and that goes through returns to   *)
(* that very request, never to the one of another tab, although the two    *)
(* cookies are shared, outlive failed logins, and age.                     *)
(***************************************************************************)
ReturnsToRequest ==
  [][\A b \in Tab :
       /\ tab[b].pc = "exchange" /\ tab[b].from \in Request
       /\ tab'[b].pc \in {"authorize", "home"}
       => tab'[b].pc = "authorize" /\ tab'[b].from = tab[b].from]_loginVars

(***************************************************************************)
(* Bouncing between the authorize page and the login ends: every tab comes *)
(* to rest, with a page or with an error, whatever the other tabs do.      *)
(***************************************************************************)
SignInEnds ==
  \A b \in Tab :
    tab[b].pc \in {"authorize", "start"} ~> tab[b].pc \in {"granted", "home", "failed"}
=============================================================================
