---------------------------- MODULE OAuthProofs ----------------------------
(***************************************************************************)
(* What the authorization server hands out, for any numbers of clients,    *)
(* users, goroutines and flows, and any lifetimes: one token per code, and *)
(* the token of the flow that the code was granted to.  No fairness is     *)
(* used, and no bound.                                                     *)
(***************************************************************************)
EXTENDS OAuth, TLAPS

Code == [client : Nat, user : User, uri : Uri, challenge : {"S256"} \X Nat,
         expires : Nat, consumed : BOOLEAN]

Token == [user : User, client : Nat, exp : Nat, code : Nat, verifier : Nat]

AppState == [id : Nat, verifier : Nat, code : Nat, token : Nat]

Request == [pc : {"idle", "consume", "check", "answer"}, app : App \cup {0}, id : Nat,
            uri : Uri \cup {0}, verifier : Nat, code : Nat, answer : Nat]

TablesOK ==
  /\ clients \in Seq(SUBSET Uri)
  /\ codes \in Seq(Code)
  /\ tokens \in Seq(Token)
  /\ session \in [user : User \cup {NoUser}, exp : Nat]
  /\ app \in [App -> AppState]
  /\ request \in [Handler -> Request]
  /\ now \in Nat /\ flows \in Nat

\* A code is of a registered client, and a URI of his.
Granted(row) == row.client \in 1..Len(clients) /\ row.uri \in clients[row.client]

CodesOK == \A k \in 1..Len(codes) : Granted(codes[k])

AppOK(c) ==
  /\ c.id <= Len(clients) /\ c.code <= Len(codes)
  /\ c.verifier # 0 => c.id # 0

AppsOK == \A a \in App : AppOK(app[a])

RequestOK(r) ==
  r.pc # "idle" => r.app \in App /\ r.id <= Len(clients) /\ r.code \in 1..Len(codes)

RequestsOK == \A h \in Handler : RequestOK(request[h])

(***************************************************************************)
(* Between the two steps of a token request: the goroutine that has spent  *)
(* a code is alone with it, and no token was signed for it yet.            *)
(***************************************************************************)
SpentBy(h) == request[h].pc = "check"

Alone ==
  \A h \in Handler : SpentBy(h) =>
    /\ codes[request[h].code].consumed
    /\ \A k \in 1..Len(tokens) : tokens[k].code # request[h].code
    /\ \A i \in Handler : SpentBy(i) /\ request[i].code = request[h].code => i = h

TokenOK(t) ==
  /\ t.code \in 1..Len(codes)
  /\ LET row == codes[t.code]
     IN  /\ row.consumed
         /\ row.challenge = Challenge(t.verifier)
         /\ row.user = t.user /\ row.client = t.client

TokensOK == \A k \in 1..Len(tokens) : TokenOK(tokens[k])

OAuthInv ==
  TablesOK /\ CodesOK /\ AppsOK /\ RequestsOK /\ Alone /\ TokensOK /\ OneTokenPerCode

-----------------------------------------------------------------------------
\* Rows are added and kept.
Grown(t, t2) == Len(t) <= Len(t2) /\ \A k \in 1..Len(t) : t2[k] = t[k]

LEMMA AppendGrows ==
  ASSUME NEW S, NEW t \in Seq(S), NEW r \in S
  PROVE  /\ Append(t, r) \in Seq(S) /\ Grown(t, Append(t, r))
         /\ Len(Append(t, r)) = Len(t) + 1 /\ Append(t, r)[Len(t) + 1] = r
  BY DEF Grown

\* A step that serves no token request, whatever rows it adds.
LEMMA ElsewhereStep ==
  ASSUME OAuthInv, TablesOK', AppsOK', Grown(clients, clients'), Grown(codes, codes'),
         \A k \in 1..Len(codes') : k > Len(codes) => Granted(codes[k])',
         UNCHANGED <<tokens, request>>
  PROVE  OAuthInv'
<1>1. /\ Len(codes) \in Nat /\ Len(codes') \in Nat /\ Len(clients) \in Nat
      /\ Len(clients') \in Nat
  BY DEF OAuthInv, TablesOK
<1>2. CodesOK'
  <2>1. SUFFICES ASSUME NEW k \in 1..Len(codes') PROVE Granted(codes[k])'
    BY DEF CodesOK
  <2>2. CASE k \in 1..Len(codes)
    <3>1. codes'[k] = codes[k] /\ Granted(codes[k])
      BY <2>2 DEF OAuthInv, CodesOK, Grown
    <3>2. QED
      BY <1>1, <3>1 DEF Granted, Grown
  <2>3. CASE k > Len(codes)
    BY <2>3
  <2>4. QED
    BY <1>1, <2>2, <2>3
<1>3. RequestsOK'
  <2>1. Len(clients) <= Len(clients') /\ Len(codes) <= Len(codes')
    BY DEF Grown
  <2>2. \A h \in Handler : request[h].id \in Nat /\ RequestOK(request[h])
    BY DEF OAuthInv, RequestsOK, TablesOK, Request
  <2>3. QED
    BY <1>1, <2>1, <2>2 DEF RequestsOK, RequestOK
<1>4. Alone'
  BY <1>1 DEF OAuthInv, Alone, SpentBy, RequestsOK, RequestOK, Grown
<1>5. TokensOK'
  BY <1>1 DEF OAuthInv, TokensOK, TokenOK, Grown
<1>6. QED
  BY <1>2, <1>3, <1>4, <1>5 DEF OAuthInv, OneTokenPerCode

\* A step of one client, of the clock or of the session.
LEMMA ClientStep ==
  ASSUME OAuthInv, TablesOK', AppsOK', UNCHANGED <<clients, codes, tokens, request>>
  PROVE  OAuthInv'
<1>1. Len(codes) \in Nat /\ Len(clients) \in Nat
  BY DEF OAuthInv, TablesOK
<1>2. Grown(clients, clients') /\ Grown(codes, codes')
  BY <1>1 DEF Grown
<1>3. QED
  BY <1>1, <1>2, ElsewhereStep

LEMMA SignInStep ==
  ASSUME OAuthInv, NEW u \in User, SignIn(u) PROVE OAuthInv'
<1>1. TablesOK'
  BY OAuthAssumption DEF OAuthInv, TablesOK, SignIn
<1>2. AppsOK'
  BY DEF OAuthInv, AppsOK, AppOK, SignIn
<1>3. QED
  BY <1>1, <1>2, ClientStep DEF SignIn

LEMMA SignOutStep ==
  ASSUME OAuthInv, SignOut PROVE OAuthInv'
<1>1. TablesOK'
  BY DEF OAuthInv, TablesOK, SignOut, NoSession
<1>2. AppsOK'
  BY DEF OAuthInv, AppsOK, AppOK, SignOut
<1>3. QED
  BY <1>1, <1>2, ClientStep DEF SignOut

LEMMA TickStep ==
  ASSUME OAuthInv, Tick PROVE OAuthInv'
<1>1. TablesOK'
  BY DEF OAuthInv, TablesOK, Tick
<1>2. AppsOK'
  BY DEF OAuthInv, AppsOK, AppOK, Tick
<1>3. QED
  BY <1>1, <1>2, ClientStep DEF Tick

\* What a client may come to know.
LEMMA AppStep ==
  ASSUME OAuthInv, NEW a \in App, NEW c \in AppState, AppOK(c),
         app' = [app EXCEPT ![a] = c], flows' \in Nat,
         UNCHANGED <<clients, codes, session, tokens, request, now>>
  PROVE  OAuthInv'
<1>1. TablesOK'
  BY DEF OAuthInv, TablesOK
<1>2. AppsOK'
  BY DEF OAuthInv, TablesOK, AppsOK, AppOK
<1>3. QED
  BY <1>1, <1>2, ClientStep

LEMMA RegisterStep ==
  ASSUME OAuthInv, NEW a \in App, Register(a) PROVE OAuthInv'
<1> DEFINE c == [app[a] EXCEPT !.id = Len(clients')]
<1>1. /\ clients' = Append(clients, {UriOf(a)}) /\ app' = [app EXCEPT ![a] = c]
      /\ UNCHANGED <<codes, session, tokens, request, flows, now>>
  BY DEF Register
<1>2. UriOf(a) \in Uri /\ clients \in Seq(SUBSET Uri) /\ app[a] \in AppState
  BY OAuthAssumption DEF OAuthInv, TablesOK
<1>3. /\ clients' \in Seq(SUBSET Uri) /\ Grown(clients, clients')
      /\ Len(clients') = Len(clients) + 1 /\ Len(clients) \in Nat
  BY <1>1, <1>2, AppendGrows
<1>4. /\ c \in AppState /\ c.id = Len(clients') /\ c.verifier = app[a].verifier
      /\ c.code = app[a].code
  BY <1>2, <1>3 DEF AppState
<1> HIDE DEF c
<1>5. TablesOK'
  BY <1>1, <1>3, <1>4 DEF OAuthInv, TablesOK
<1>6. AppsOK'
  <2>1. SUFFICES ASSUME NEW b \in App PROVE AppOK(app[b])'
    BY DEF AppsOK
  <2>2. app[b] \in AppState /\ AppOK(app[b]) /\ AppOK(app[a])
    BY DEF OAuthInv, TablesOK, AppsOK
  <2>3. app'[b] = IF b = a THEN c ELSE app[b]
    BY <1>1 DEF OAuthInv, TablesOK
  <2>4. QED
    BY <1>1, <1>3, <1>4, <2>2, <2>3 DEF AppOK, AppState
<1>7. Len(codes) \in Nat /\ Grown(codes, codes')
  BY <1>1 DEF Grown, OAuthInv, TablesOK
<1>8. QED
  BY <1>1, <1>3, <1>5, <1>6, <1>7, ElsewhereStep

LEMMA BeginStep ==
  ASSUME OAuthInv, NEW a \in App, Begin(a) PROVE OAuthInv'
<1> DEFINE c == [app[a] EXCEPT !.verifier = flows']
<1>1. /\ app[a].id # 0 /\ flows' = flows + 1 /\ app' = [app EXCEPT ![a] = c]
      /\ UNCHANGED <<clients, codes, session, tokens, request, now>>
  BY DEF Begin
<1>2. flows' \in Nat /\ app[a] \in AppState /\ AppOK(app[a])
  BY <1>1 DEF OAuthInv, TablesOK, AppsOK
<1>3. c \in AppState /\ AppOK(c)
  BY <1>1, <1>2 DEF AppState, AppOK
<1> HIDE DEF c
<1>4. QED
  BY <1>1, <1>2, <1>3, AppStep

LEMMA AuthorizeStep ==
  ASSUME OAuthInv, NEW a \in App, Authorize(a) PROVE OAuthInv'
<1> DEFINE c == app[a]
           row == [client |-> c.id, user |-> SignedIn, uri |-> UriOf(a),
                   challenge |-> Challenge(c.verifier), expires |-> now + CodeLife,
                   consumed |-> FALSE]
<1>1. /\ c.verifier # 0 /\ UriOf(a) \in clients[c.id] /\ SignedIn # NoUser
      /\ codes' = Append(codes, row)
      /\ UNCHANGED <<clients, session, tokens, app, request, flows, now>>
  BY DEF Authorize, NewCode, Resolved
<1>2. /\ c \in AppState /\ AppOK(c) /\ codes \in Seq(Code) /\ clients \in Seq(SUBSET Uri)
      /\ SignedIn \in User \cup {NoUser} /\ now + CodeLife \in Nat
  BY OAuthAssumption DEF OAuthInv, TablesOK, AppsOK, SignedIn
<1>3. row \in Code /\ Granted(row)
  <2>1. /\ c.id \in 1..Len(clients) /\ c.id \in Nat /\ c.verifier \in Nat
        /\ clients[c.id] \subseteq Uri
    BY <1>1, <1>2 DEF AppState, AppOK
  <2>2. SignedIn \in User /\ UriOf(a) \in clients[c.id] /\ UriOf(a) \in Uri
    BY <1>1, <1>2, <2>1
  <2>3. Challenge(c.verifier) \in {"S256"} \X Nat
    BY <2>1 DEF Challenge
  <2>4. row \in Code
    BY <1>2, <2>1, <2>2, <2>3 DEF Code
  <2>5. Granted(row)
    BY <2>1, <2>2 DEF Granted
  <2>6. QED
    BY <2>4, <2>5
<1> HIDE DEF row, c
<1>4. /\ codes' \in Seq(Code) /\ Grown(codes, codes')
      /\ Len(codes') = Len(codes) + 1 /\ Len(codes) \in Nat /\ codes'[Len(codes) + 1] = row
  BY <1>1, <1>2, <1>3, AppendGrows
<1>5. \A k \in 1..Len(codes') : k > Len(codes) => Granted(codes[k])'
  BY <1>1, <1>3, <1>4 DEF Granted
<1>6. TablesOK'
  BY <1>1, <1>4 DEF OAuthInv, TablesOK
<1>7. AppsOK'
  BY <1>1, <1>4 DEF OAuthInv, TablesOK, AppsOK, AppOK, AppState
<1>8. Grown(clients, clients')
  BY <1>1, <1>2 DEF Grown
<1>9. QED
  BY <1>1, <1>4, <1>5, <1>6, <1>7, <1>8, ElsewhereStep

LEMMA RedirectStep ==
  ASSUME OAuthInv, NEW a \in App, NEW k \in 1..Len(codes), Redirect(a, k) PROVE OAuthInv'
<1> DEFINE c == [app[a] EXCEPT !.code = k]
<1>1. /\ app' = [app EXCEPT ![a] = c]
      /\ UNCHANGED <<clients, codes, session, tokens, request, flows, now>>
  BY DEF Redirect
<1>2. /\ flows \in Nat /\ app[a] \in AppState /\ AppOK(app[a])
      /\ k \in Nat /\ k <= Len(codes)
  BY DEF OAuthInv, TablesOK, AppsOK
<1>3. c \in AppState /\ AppOK(c)
  BY <1>2 DEF AppState, AppOK
<1> HIDE DEF c
<1>4. QED
  BY <1>1, <1>2, <1>3, AppStep

LEMMA UnauthorizedStep ==
  ASSUME OAuthInv, NEW a \in App, Unauthorized(a) PROVE OAuthInv'
<1> DEFINE c == [Fresh EXCEPT !.id = app[a].id]
<1>1. /\ app' = [app EXCEPT ![a] = c]
      /\ UNCHANGED <<clients, codes, session, tokens, request, flows, now>>
  BY DEF Unauthorized
<1>2. /\ flows \in Nat /\ app[a] \in AppState /\ AppOK(app[a]) /\ Len(codes) \in Nat
  BY DEF OAuthInv, TablesOK, AppsOK
<1>3. c \in AppState /\ AppOK(c)
  BY <1>2 DEF AppState, AppOK, Fresh
<1> HIDE DEF c
<1>4. QED
  BY <1>1, <1>2, <1>3, AppStep

-----------------------------------------------------------------------------
\* A request that comes, or is over, and has no code of its own.
LEMMA RequestStep ==
  ASSUME OAuthInv, NEW h \in Handler, NEW r \in Request, RequestOK(r), r.pc # "check",
         request' = [request EXCEPT ![h] = r],
         UNCHANGED <<clients, codes, session, tokens, app, flows, now>>
  PROVE  OAuthInv'
<1>1. TablesOK'
  BY DEF OAuthInv, TablesOK
<1>2. \A i \in Handler : request'[i] = IF i = h THEN r ELSE request[i]
  BY DEF OAuthInv, TablesOK
<1>3. RequestsOK'
  BY <1>2 DEF OAuthInv, RequestsOK, RequestOK
<1>4. Alone'
  BY <1>2 DEF OAuthInv, Alone, SpentBy
<1>5. CodesOK' /\ AppsOK' /\ TokensOK' /\ OneTokenPerCode'
  BY DEF OAuthInv, CodesOK, Granted, AppsOK, AppOK, TokensOK, TokenOK, OneTokenPerCode
<1>6. QED
  BY <1>1, <1>3, <1>4, <1>5 DEF OAuthInv

LEMMA IdleIsOK == Idle \in Request /\ RequestOK(Idle) /\ Idle.pc = "idle"
  BY DEF Idle, Request, RequestOK

LEMMA PostStep ==
  ASSUME OAuthInv, NEW h \in Handler, NEW a \in App, Post(h, a) PROVE OAuthInv'
<1> DEFINE c == app[a]
           r == [Idle EXCEPT !.pc = "consume", !.app = a, !.id = c.id, !.uri = UriOf(a),
                             !.verifier = c.verifier, !.code = c.code]
<1>1. /\ c.code # 0 /\ request' = [request EXCEPT ![h] = r]
      /\ UNCHANGED <<clients, codes, session, tokens, app, flows, now>>
  BY DEF Post
<1>2. c \in AppState /\ AppOK(c) /\ UriOf(a) \in Uri /\ Len(codes) \in Nat
  BY OAuthAssumption DEF OAuthInv, TablesOK, AppsOK
<1>3. c.id \in Nat /\ c.verifier \in Nat /\ c.code \in Nat /\ Idle \in Request
  BY <1>2, IdleIsOK DEF AppState
<1>4. r \in Request /\ RequestOK(r) /\ r.pc # "check"
  <2> HIDE DEF c
  <2>1. r \in Request /\ r.pc = "consume" /\ r.app = a /\ r.id = c.id /\ r.code = c.code
    BY <1>2, <1>3 DEF Request
  <2> HIDE DEF r
  <2>2. QED
    BY <1>1, <1>2, <1>3, <2>1 DEF AppOK, RequestOK
<1> HIDE DEF r, c
<1>5. QED
  BY <1>1, <1>4, RequestStep

LEMMA LoseStep ==
  ASSUME OAuthInv, NEW h \in Handler, Lose(h) PROVE OAuthInv'
<1>1. /\ request' = [request EXCEPT ![h] = Idle]
      /\ UNCHANGED <<clients, codes, session, tokens, app, flows, now>>
  BY DEF Lose
<1>2. Idle \in Request /\ RequestOK(Idle) /\ Idle.pc # "check"
  BY IdleIsOK
<1>3. QED
  BY <1>1, <1>2, RequestStep

LEMMA AnswerStep ==
  ASSUME OAuthInv, NEW h \in Handler, Answer(h) PROVE OAuthInv'
<1> DEFINE r == request[h]
           c == app[r.app]
<1>1. /\ r.pc = "answer" /\ request' = [request EXCEPT ![h] = Idle]
      /\ UNCHANGED <<clients, codes, session, tokens, flows, now>>
      /\ \/ app' = app
         \/ app' = [app EXCEPT ![r.app] = [Fresh EXCEPT !.id = r.id]]
         \/ app' = [app EXCEPT ![r.app] = [c EXCEPT !.token = r.answer]]
  BY DEF Answer
<1>2. /\ r \in Request /\ RequestOK(r) /\ r.app \in App /\ c \in AppState /\ AppOK(c)
      /\ Len(codes) \in Nat
  BY <1>1 DEF OAuthInv, TablesOK, RequestsOK, RequestOK, AppsOK
<1> DEFINE f == [Fresh EXCEPT !.id = r.id]
           t == [c EXCEPT !.token = r.answer]
<1>3. f \in AppState /\ AppOK(f)
  BY <1>1, <1>2 DEF Request, RequestOK, AppState, AppOK, Fresh
<1>4. t \in AppState /\ AppOK(t)
  BY <1>2 DEF Request, AppState, AppOK
<1> HIDE DEF f, t, r, c
<1>5. app' \in [App -> AppState] /\ AppsOK'
  <2>1. app' = app \/ app' = [app EXCEPT ![r.app] = f] \/ app' = [app EXCEPT ![r.app] = t]
    BY <1>1 DEF f, t, c
  <2>2. app \in [App -> AppState] /\ \A b \in App : AppOK(app[b])
    BY DEF OAuthInv, TablesOK, AppsOK
  <2>3. app' \in [App -> AppState] /\ \A b \in App : AppOK(app'[b])
    BY <1>2, <1>3, <1>4, <2>1, <2>2
  <2>4. QED
    BY <1>1, <2>3 DEF AppsOK, AppOK
<1>6. TablesOK'
  BY <1>1, <1>5, IdleIsOK DEF OAuthInv, TablesOK
<1>7. \A i \in Handler : request'[i] = IF i = h THEN Idle ELSE request[i]
  BY <1>1 DEF OAuthInv, TablesOK
<1>8. RequestsOK'
  BY <1>1, <1>7, IdleIsOK DEF OAuthInv, RequestsOK, RequestOK
<1>9. Alone'
  BY <1>1, <1>7, IdleIsOK DEF OAuthInv, Alone, SpentBy
<1>10. CodesOK' /\ TokensOK' /\ OneTokenPerCode'
  BY <1>1 DEF OAuthInv, CodesOK, Granted, TokensOK, TokenOK, OneTokenPerCode
<1>11. QED
  BY <1>5, <1>6, <1>8, <1>9, <1>10 DEF OAuthInv

(***************************************************************************)
(* ConsumeAuthCode: whoever finds the code not yet consumed is the only    *)
(* one to have it, because every other with it has found it consumed.      *)
(***************************************************************************)
LEMMA ConsumeStep ==
  ASSUME OAuthInv, NEW h \in Handler, Consume(h) PROVE OAuthInv'
<1> DEFINE k == request[h].code
<1>1. /\ request[h] \in Request /\ RequestOK(request[h]) /\ request[h].pc = "consume"
      /\ k \in 1..Len(codes) /\ codes \in Seq(Code) /\ codes[k] \in Code
      /\ request \in [Handler -> Request]
      /\ UNCHANGED <<clients, session, tokens, app, flows, now>>
  BY DEF Consume, OAuthInv, TablesOK, RequestsOK, RequestOK
<1>2. CASE ~Valid(codes[k])
  <2> DEFINE r == [request[h] EXCEPT !.pc = "answer"]
  <2>1. request' = [request EXCEPT ![h] = r] /\ codes' = codes
    BY <1>1, <1>2 DEF Consume
  <2>2. r \in Request /\ RequestOK(r) /\ r.pc # "check"
    BY <1>1 DEF Request, RequestOK
  <2> HIDE DEF r
  <2>3. QED
    BY <1>1, <2>1, <2>2, RequestStep
<1>3. CASE Valid(codes[k])
  <2> DEFINE r == [request[h] EXCEPT !.pc = "check"]
             row == [codes[k] EXCEPT !.consumed = TRUE]
  <2>1. request' = [request EXCEPT ![h] = r] /\ codes' = [codes EXCEPT ![k] = row]
    BY <1>1, <1>3 DEF Consume
  <2>2. /\ r \in Request /\ r.pc = "check" /\ r.code = k /\ r.app = request[h].app
        /\ r.id = request[h].id
    BY <1>1 DEF Request
  <2>3. /\ row \in Code /\ row.consumed /\ row.client = codes[k].client
        /\ row.uri = codes[k].uri /\ row.challenge = codes[k].challenge
        /\ row.user = codes[k].user
    BY <1>1 DEF Code
  <2>4. ~codes[k].consumed
    BY <1>3 DEF Valid
  <2> HIDE DEF r, row
  <2>5. /\ codes' \in Seq(Code) /\ Len(codes') = Len(codes) /\ codes'[k] = row
        /\ \A j \in 1..Len(codes) : j # k => codes'[j] = codes[j]
    <3> HIDE DEF k
    <3>1. QED BY <1>1, <2>1, <2>3
  <2>6. /\ request' \in [Handler -> Request]
        /\ \A i \in Handler : request'[i] = IF i = h THEN r ELSE request[i]
    BY <1>1, <2>1, <2>2
  <2> HIDE DEF k
  <2>7. TablesOK'
    BY <1>1, <2>5, <2>6 DEF OAuthInv, TablesOK
  <2>8. CodesOK'
    BY <1>1, <2>3, <2>5 DEF OAuthInv, CodesOK, Granted
  <2>9. AppsOK'
    BY <1>1, <2>5 DEF OAuthInv, AppsOK, AppOK
  <2>10. RequestsOK'
    BY <1>1, <2>2, <2>5, <2>6 DEF OAuthInv, RequestsOK, RequestOK
  <2>11. TokensOK'
    BY <1>1, <2>3, <2>5 DEF OAuthInv, TokensOK, TokenOK
  <2>12. Alone'
    <3>1. \A i \in 1..Len(tokens) : tokens[i].code # k
      BY <2>4 DEF OAuthInv, TokensOK, TokenOK
    <3>2. \A i \in Handler : SpentBy(i) => request[i].code # k
      BY <2>4 DEF OAuthInv, Alone
    <3>3. \A i \in Handler : SpentBy(i) => request[i].code \in 1..Len(codes)
      BY DEF OAuthInv, RequestsOK, RequestOK, SpentBy
    <3>4. SUFFICES ASSUME NEW i \in Handler, SpentBy(i)'
                   PROVE  /\ codes'[request'[i].code].consumed
                          /\ \A j \in 1..Len(tokens) : tokens[j].code # request'[i].code
                          /\ \A j \in Handler :
                               SpentBy(j)' /\ request'[j].code = request'[i].code => j = i
      BY <1>1 DEF Alone, SpentBy
    <3>5. CASE i = h
      BY <2>2, <2>3, <2>5, <2>6, <3>1, <3>2, <3>5 DEF SpentBy
    <3>6. CASE i # h
      <4>1. SpentBy(i) /\ request'[i] = request[i] /\ request[i].code # k
        BY <2>6, <3>2, <3>4, <3>6 DEF SpentBy
      <4>2. /\ codes[request[i].code].consumed
            /\ \A j \in 1..Len(tokens) : tokens[j].code # request[i].code
            /\ \A j \in Handler :
                 SpentBy(j) /\ request[j].code = request[i].code => j = i
        BY <4>1 DEF OAuthInv, Alone
      <4>3. codes'[request[i].code] = codes[request[i].code]
        BY <2>5, <3>3, <4>1
      <4>4. ASSUME NEW j \in Handler, SpentBy(j)', request'[j].code = request'[i].code
            PROVE  j = i
        BY <2>2, <2>6, <4>1, <4>2, <4>4 DEF SpentBy
      <4>5. QED
        BY <4>1, <4>2, <4>3, <4>4
    <3>7. QED
      BY <3>5, <3>6
  <2>13. QED
    BY <1>1, <2>7, <2>8, <2>9, <2>10, <2>11, <2>12 DEF OAuthInv, OneTokenPerCode
<1>4. QED
  BY <1>2, <1>3

(***************************************************************************)
(* The rest of HandleToken: the code is spent by this request alone, so    *)
(* the token is its first, and the comparison has bound the token to the   *)
(* challenge of the code.                                                  *)
(***************************************************************************)
LEMMA CheckStep ==
  ASSUME OAuthInv, NEW h \in Handler, Check(h) PROVE OAuthInv'
<1> DEFINE r == request[h]
           row == codes[r.code]
<1>1. /\ r \in Request /\ RequestOK(r) /\ r.pc = "check" /\ r.code \in 1..Len(codes)
      /\ codes \in Seq(Code) /\ row \in Code /\ tokens \in Seq(Token)
      /\ UNCHANGED <<clients, codes, session, app, flows, now>>
  BY DEF Check, OAuthInv, TablesOK, RequestsOK, RequestOK
<1>2. CASE ~Matches(r, row)
  <2> DEFINE q == [r EXCEPT !.pc = "answer"]
  <2>1. request' = [request EXCEPT ![h] = q] /\ tokens' = tokens
    BY <1>1, <1>2 DEF Check
  <2>2. q \in Request /\ RequestOK(q) /\ q.pc # "check"
    BY <1>1 DEF Request, RequestOK
  <2> HIDE DEF q, r, row
  <2>3. QED
    BY <1>1, <2>1, <2>2, RequestStep
<1>3. CASE Matches(r, row)
  <2> DEFINE q == [r EXCEPT !.pc = "answer", !.answer = Len(tokens')]
             t == [user |-> row.user, client |-> row.client, exp |-> now + TokenLife,
                   code |-> r.code, verifier |-> r.verifier]
  <2>1. request' = [request EXCEPT ![h] = q] /\ tokens' = Append(tokens, t)
    <3>1. /\ request' = [request EXCEPT ![h].pc = "answer", ![h].answer = Len(tokens')]
          /\ tokens' = Append(tokens, t)
      BY <1>3 DEF Check
    <3>2. request \in [Handler -> Request]
      BY DEF OAuthInv, TablesOK
    <3>3. QED
      BY <3>1, <3>2
  <2>2. t \in Token
    <3>1. now + TokenLife \in Nat
      BY OAuthAssumption DEF OAuthInv, TablesOK
    <3>2. row.user \in User /\ row.client \in Nat /\ r.code \in Nat /\ r.verifier \in Nat
      BY <1>1 DEF Code, Request
    <3> HIDE DEF r, row
    <3>3. QED
      BY <3>1, <3>2 DEF Token
  <2>3. row.consumed /\ row.challenge = Challenge(t.verifier)
    BY <1>1, <1>3 DEF Matches, VerifyPKCE, OAuthInv, Alone, SpentBy
  <2>4. TokenOK(t)
    BY <1>1, <2>3 DEF TokenOK
  <2>5. t.code = r.code
    OBVIOUS
  <2>6. \A k \in 1..Len(tokens) : tokens[k].code # r.code
    BY <1>1 DEF OAuthInv, Alone, SpentBy
  <2>7. \A i \in Handler : i # h /\ SpentBy(i) => request[i].code # r.code
    BY <1>1 DEF OAuthInv, Alone, SpentBy
  <2> HIDE DEF t
  <2>8. /\ tokens' \in Seq(Token) /\ Len(tokens) \in Nat /\ Len(tokens') = Len(tokens) + 1
        /\ tokens'[Len(tokens) + 1] = t
        /\ \A k \in 1..Len(tokens) : tokens'[k] = tokens[k]
    BY <1>1, <2>1, <2>2, AppendGrows DEF Grown
  <2>9. /\ q \in Request /\ q.pc = "answer" /\ q.code = r.code /\ q.app = r.app
        /\ q.id = r.id
    <3>1. Len(tokens') \in Nat /\ r \in Request
      BY <1>1, <2>8
    <3> HIDE DEF r
    <3>2. QED
      BY <3>1 DEF Request
  <2> HIDE DEF q
  <2>10. /\ request' \in [Handler -> Request]
         /\ \A i \in Handler : request'[i] = IF i = h THEN q ELSE request[i]
    BY <2>1, <2>9 DEF OAuthInv, TablesOK
  <2> HIDE DEF r, row
  <2>11. TablesOK'
    BY <1>1, <2>8, <2>10 DEF OAuthInv, TablesOK
  <2>12. CodesOK' /\ AppsOK'
    BY <1>1 DEF OAuthInv, CodesOK, Granted, AppsOK, AppOK
  <2>13. RequestsOK'
    BY <1>1, <2>9, <2>10 DEF OAuthInv, RequestsOK, RequestOK
  <2>14. Alone'
    BY <1>1, <2>5, <2>7, <2>8, <2>9, <2>10 DEF OAuthInv, Alone, SpentBy
  <2>15. TokensOK'
    BY <1>1, <2>4, <2>8 DEF OAuthInv, TokensOK, TokenOK
  <2>16. OneTokenPerCode'
    BY <2>5, <2>6, <2>8 DEF OAuthInv, OneTokenPerCode
  <2>17. QED
    BY <2>11, <2>12, <2>13, <2>14, <2>15, <2>16 DEF OAuthInv
<1>4. QED
  BY <1>2, <1>3

-----------------------------------------------------------------------------
LEMMA OAuthInit == Init => OAuthInv
<1> SUFFICES ASSUME Init PROVE OAuthInv
  OBVIOUS
<1>1. TablesOK
  BY IdleIsOK DEF Init, TablesOK, NoSession, Fresh, AppState
<1>2. AppsOK
  BY DEF Init, AppsOK, AppOK, Fresh
<1>3. RequestsOK /\ Alone
  BY IdleIsOK DEF Init, RequestsOK, Alone, SpentBy
<1>4. CodesOK /\ TokensOK /\ OneTokenPerCode
  BY DEF Init, CodesOK, TokensOK, OneTokenPerCode
<1>5. QED
  BY <1>1, <1>2, <1>3, <1>4 DEF OAuthInv

LEMMA OAuthKept == ASSUME OAuthInv, UNCHANGED vars PROVE OAuthInv'
<1>1. TablesOK' /\ AppsOK'
  BY DEF OAuthInv, TablesOK, AppsOK, AppOK, vars
<1>2. QED
  BY <1>1, ClientStep DEF vars

LEMMA OAuthStep == ASSUME OAuthInv, Next PROVE OAuthInv'
<1>1. ASSUME NEW u \in User, SignIn(u) PROVE OAuthInv'
  BY <1>1, SignInStep
<1>2. CASE SignOut
  BY <1>2, SignOutStep
<1>3. ASSUME NEW a \in App, ClientNext(a) PROVE OAuthInv'
  <2>1. CASE Register(a)
    BY <2>1, RegisterStep
  <2>2. CASE Begin(a)
    BY <2>2, BeginStep
  <2>3. CASE Authorize(a)
    BY <2>3, AuthorizeStep
  <2>4. CASE Unauthorized(a)
    BY <2>4, UnauthorizedStep
  <2>5. ASSUME NEW k \in 1..Len(codes), Redirect(a, k) PROVE OAuthInv'
    BY <2>5, RedirectStep
  <2>6. ASSUME NEW h \in Handler, Post(h, a) PROVE OAuthInv'
    BY <2>6, PostStep
  <2>7. QED
    BY <1>3, <2>1, <2>2, <2>3, <2>4, <2>5, <2>6 DEF ClientNext
<1>4. ASSUME NEW h \in Handler, ServerNext(h) \/ Lose(h) PROVE OAuthInv'
  BY <1>4, ConsumeStep, CheckStep, AnswerStep, LoseStep DEF ServerNext
<1>5. CASE Tick
  BY <1>5, TickStep
<1>6. QED
  BY <1>1, <1>2, <1>3, <1>4, <1>5 DEF Next

THEOREM OAuthInvariant == Spec => []OAuthInv
<1>1. OAuthInv /\ [Next]_vars => OAuthInv'
  BY OAuthStep, OAuthKept
<1>2. QED
  BY <1>1, OAuthInit, PTL DEF Spec

(***************************************************************************)
(* ConsumeAuthCode "atomically marks a code as used": a code gives at most *)
(* one token, however often and concurrently clients ask for it.           *)
(***************************************************************************)
THEOREM CodesGiveOneToken == Spec => []OneTokenPerCode
<1>1. OAuthInv => OneTokenPerCode
  BY DEF OAuthInv
<1>2. QED
  BY <1>1, OAuthInvariant, PTL

(***************************************************************************)
(* A token is for the verifier, the user and the client that its code was  *)
(* granted to, and the code's URI is one the client registered.            *)
(***************************************************************************)
THEOREM TokensOfOwnFlow == Spec => []TokenForOwnFlow
<1>1. OAuthInv => TokenForOwnFlow
  BY DEF OAuthInv, TokenForOwnFlow, TokensOK, TokenOK, CodesOK, Granted
<1>2. QED
  BY <1>1, OAuthInvariant, PTL
=============================================================================
