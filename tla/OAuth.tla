------------------------------- MODULE OAuth -------------------------------
(***************************************************************************)
(* The authorization server of package mcp: client registration, the       *)
(* authorize endpoint, the exchange of a code for an access token, and the *)
(* check of the token on a call.  A token request is two steps, because    *)
(* ConsumeAuthCode is a transaction of its own: what the request says of   *)
(* client, redirect URI and verifier is compared after the code is spent.  *)
(*                                                                         *)
(* The MCP clients (App) are external.  One person's browser carries their *)
(* redirects; Login has how it gets its session.  Trouble is what a client  *)
(* meets or makes beyond the plain flow: it starts over, gets the code of  *)
(* an earlier flow, repeats a request it has no answer to, the person      *)
(* signs out, an answer is lost.                                           *)
(***************************************************************************)
EXTENDS Naturals, Sequences

CONSTANTS
  User, NoUser,   \* accounts, and nobody signed in
  App,            \* MCP clients
  Uri, UriOf(_),  \* redirect URIs, and the one of a client
  Handler,        \* goroutines that serve token requests
  CodeLife, TokenLife, SessionLife,
  MaxClients,     \* bound on the rows of oauth_clients
  MaxFlows,       \* bound on the verifiers the clients make up
  MaxCodes,       \* bound on the rows of oauth_codes
  MaxTrouble,     \* bound on the trouble
  MaxTime         \* bound on the clock

ASSUME OAuthAssumption ==
  /\ NoUser \notin User
  /\ \A a \in App : UriOf(a) \in Uri
  /\ {CodeLife, TokenLife, SessionLife} \subseteq Nat
  /\ {MaxClients, MaxFlows, MaxCodes, MaxTrouble, MaxTime} \subseteq Nat

VARIABLES
  clients,  \* oauth_clients: the redirect URIs of each registration, by number
  codes,    \* oauth_codes, by number
  session,  \* the session cookie in the browser
  tokens,   \* the access tokens signed so far
  app,      \* what each client knows
  request,  \* request[h]: the token request that goroutine h serves
  flows,    \* the verifiers made up so far
  trouble,  \* the trouble so far
  now

vars == <<clients, codes, session, tokens, app, request, flows, trouble, now>>

NoSession == [user |-> NoUser, exp |-> 0]
Fresh == [id |-> 0, verifier |-> 0, code |-> 0, token |-> 0]
Idle == [pc |-> "idle", app |-> 0, id |-> 0, uri |-> 0, verifier |-> 0, code |-> 0,
         answer |-> 0]

Init ==
  /\ clients = <<>> /\ codes = <<>> /\ tokens = <<>>
  /\ session = NoSession
  /\ app = [a \in App |-> Fresh]
  /\ request = [h \in Handler |-> Idle]
  /\ flows = 0 /\ trouble = 0 /\ now = 0

\* Signer.Read: the user of a session cookie that is not over.
SignedIn == IF now > session.exp THEN NoUser ELSE session.user

\* The S256 challenge of a verifier: no two verifiers share one.
Challenge(verifier) == <<"S256", verifier>>

VerifyPKCE(verifier, challenge) == Challenge(verifier) = challenge

\* A step outside the plain flow adds to the trouble.
Troubled(plain) ==
  IF plain THEN UNCHANGED trouble
           ELSE trouble < MaxTrouble /\ trouble' = trouble + 1

-----------------------------------------------------------------------------
\* The callback of the web login (see Login) issues the session cookie.
SignIn(u) ==
  /\ SignedIn = NoUser
  /\ session' = [user |-> u, exp |-> now + SessionLife]
  /\ UNCHANGED <<clients, codes, tokens, app, request, flows, trouble, now>>

SignOut ==
  /\ session # NoSession
  /\ session' = NoSession
  /\ Troubled(FALSE)
  /\ UNCHANGED <<clients, codes, tokens, app, request, flows, now>>

\* HandleRegister: every call makes a new client, also for one known before.
Register(a) ==
  /\ app[a].code = 0 /\ app[a].token = 0
  /\ Troubled(app[a].id = 0)
  /\ Len(clients) < MaxClients
  /\ clients' = Append(clients, {UriOf(a)})
  /\ app' = [app EXCEPT ![a].id = Len(clients')]
  /\ UNCHANGED <<codes, session, tokens, request, flows, now>>

\* A client makes up a verifier and opens the browser.
Begin(a) ==
  /\ app[a].id # 0 /\ app[a].code = 0 /\ app[a].token = 0
  /\ Troubled(app[a].verifier = 0)
  /\ flows < MaxFlows
  /\ flows' = flows + 1
  /\ app' = [app EXCEPT ![a].verifier = flows']
  /\ UNCHANGED <<clients, codes, session, tokens, request, now>>

\* The session cookie names a user.
Resolved(u) == u # NoUser

\* Mutant: a code the client was given before is given out again.
NewCode_Reused(row) ==
  IF \E k \in 1..Len(codes) : codes[k].client = row.client
    THEN codes ELSE Append(codes, row)

\* SaveAuthCode.
NewCode(row) == Append(codes, row)

(***************************************************************************)
(* HandleAuthorize for a browser that is signed in: a registered client    *)
(* and URI get a code.  A reload of the page gets another one for the same *)
(* verifier.                                                               *)
(***************************************************************************)
Authorize(a) ==
  LET c == app[a]
  IN  /\ c.verifier # 0 /\ c.code = 0 /\ c.token = 0
      /\ Troubled(~ \E k \in 1..Len(codes) : codes[k].challenge = Challenge(c.verifier))
      /\ UriOf(a) \in clients[c.id]
      /\ Resolved(SignedIn)
      /\ Len(codes) < MaxCodes
      /\ codes' = NewCode([client |-> c.id, user |-> SignedIn, uri |-> UriOf(a),
                           challenge |-> Challenge(c.verifier),
                           expires |-> now + CodeLife, consumed |-> FALSE])
      /\ UNCHANGED <<clients, session, tokens, app, request, flows, now>>

\* The redirect brings a code to a client behind its URI.
Redirect(a, k) ==
  /\ app[a].verifier # 0 /\ app[a].code = 0 /\ app[a].token = 0
  /\ codes[k].uri = UriOf(a)
  /\ Troubled(codes[k].challenge = Challenge(app[a].verifier))
  /\ app' = [app EXCEPT ![a].code = k]
  /\ UNCHANGED <<clients, codes, session, tokens, request, flows, now>>

-----------------------------------------------------------------------------
\* A client posts to the token endpoint, perhaps once more.
Post(h, a) ==
  /\ request[h].pc = "idle"
  /\ app[a].code # 0 /\ app[a].token = 0
  /\ Troubled(\A i \in Handler : request[i].pc = "idle" \/ request[i].app # a)
  /\ request' = [request EXCEPT ![h] =
       [Idle EXCEPT !.pc = "consume", !.app = a, !.id = app[a].id, !.uri = UriOf(a),
                    !.verifier = app[a].verifier, !.code = app[a].code]]
  /\ UNCHANGED <<clients, codes, session, tokens, app, flows, now>>

\* Mutant: consumed is set and not looked at.
Valid_Consumed(row) == now <= row.expires

Valid(row) == ~row.consumed /\ now <= row.expires

\* ConsumeAuthCode, one transaction: a valid code is spent.
Consume(h) ==
  /\ request[h].pc = "consume"
  /\ IF Valid(codes[request[h].code])
       THEN /\ codes' = [codes EXCEPT ![request[h].code].consumed = TRUE]
            /\ request' = [request EXCEPT ![h].pc = "check"]
       ELSE /\ request' = [request EXCEPT ![h].pc = "answer"]
            /\ UNCHANGED codes
  /\ UNCHANGED <<clients, session, tokens, app, flows, trouble, now>>

\* Mutant: the verifier is not asked for.
Matches_NoPKCE(r, row) == row.client = r.id /\ row.uri = r.uri

Matches(r, row) ==
  row.client = r.id /\ row.uri = r.uri /\ VerifyPKCE(r.verifier, row.challenge)

(***************************************************************************)
(* The rest of HandleToken: whoever has spent the code gets a token if     *)
(* client, URI and verifier are those of the code.  The fields code and    *)
(* verifier of a token are not in the JWT; the properties use them.        *)
(***************************************************************************)
Check(h) ==
  LET r == request[h]
      row == codes[r.code]
  IN  /\ r.pc = "check"
      /\ IF Matches(r, row)
           THEN /\ tokens' = Append(tokens, [user |-> row.user, client |-> row.client,
                       exp |-> now + TokenLife, code |-> r.code, verifier |-> r.verifier])
                /\ request' = [request EXCEPT ![h].pc = "answer", ![h].answer = Len(tokens')]
           ELSE /\ request' = [request EXCEPT ![h].pc = "answer"]
                /\ UNCHANGED tokens
      /\ UNCHANGED <<clients, codes, session, app, flows, trouble, now>>

\* The answer arrives: a token, or an error that ends the flow.
Answer(h) ==
  LET r == request[h]
  IN  /\ r.pc = "answer"
      /\ request' = [request EXCEPT ![h] = Idle]
      /\ app' = IF app[r.app].code # r.code \/ app[r.app].token # 0 THEN app
                ELSE [app EXCEPT ![r.app] =
                        IF r.answer = 0 THEN [Fresh EXCEPT !.id = r.id]
                                        ELSE [@ EXCEPT !.token = r.answer]]
      /\ UNCHANGED <<clients, codes, session, tokens, flows, trouble, now>>

\* The connection is gone before the answer.
Lose(h) ==
  /\ request[h].pc = "answer"
  /\ Troubled(FALSE)
  /\ request' = [request EXCEPT ![h] = Idle]
  /\ UNCHANGED <<clients, codes, session, tokens, app, flows, now>>

\* authenticate, VerifyAccess: a token is taken until it expires.
Accepted(k) == k # 0 /\ now <= tokens[k].exp

\* A call with a token that is over: 401, and the client starts again.
Unauthorized(a) ==
  /\ app[a].token # 0 /\ ~Accepted(app[a].token)
  /\ app' = [app EXCEPT ![a] = [Fresh EXCEPT !.id = app[a].id]]
  /\ UNCHANGED <<clients, codes, session, tokens, request, flows, trouble, now>>

Tick ==
  /\ now < MaxTime
  /\ now' = now + 1
  /\ UNCHANGED <<clients, codes, session, tokens, app, request, flows, trouble>>

ClientNext(a) ==
  \/ Register(a) \/ Begin(a) \/ Authorize(a) \/ Unauthorized(a)
  \/ \E k \in 1..Len(codes) : Redirect(a, k)
  \/ \E h \in Handler : Post(h, a)

ServerNext(h) == Consume(h) \/ Check(h) \/ Answer(h)

Next ==
  \/ \E u \in User : SignIn(u)
  \/ SignOut
  \/ \E a \in App : ClientNext(a)
  \/ \E h \in Handler : ServerNext(h) \/ Lose(h)
  \/ Tick

Spec == Init /\ [][Next]_vars

(***************************************************************************)
(* Fairness: net/http serves a request it has accepted; the person signs   *)
(* in when asked to, and a client that has no token goes on with its flow. *)
(***************************************************************************)
FairSpec ==
  /\ Spec
  /\ WF_vars(\E u \in User : SignIn(u))
  /\ \A a \in App : WF_vars(ClientNext(a))
  /\ \A h \in Handler : WF_vars(ServerNext(h))

-----------------------------------------------------------------------------
TypeOK ==
  /\ clients \in Seq(SUBSET Uri)
  /\ \A k \in 1..Len(codes) :
       codes[k] \in [client : 1..Len(clients), user : User, uri : Uri,
                     challenge : {Challenge(v) : v \in 1..flows},
                     expires : 0..(MaxTime + CodeLife), consumed : BOOLEAN]
  /\ session.user \in User \cup {NoUser}
  /\ \A k \in 1..Len(tokens) : tokens[k].code \in 1..Len(codes)
  /\ \A a \in App :
       app[a] \in [id : 0..Len(clients), verifier : 0..flows, code : 0..Len(codes),
                   token : 0..Len(tokens)]
  /\ \A h \in Handler : request[h].pc \in {"idle", "consume", "check", "answer"}
  /\ now \in 0..MaxTime /\ trouble \in 0..MaxTrouble /\ flows \in 0..MaxFlows

(***************************************************************************)
(* "atomically marks a code as used": a code gives at most one token,      *)
(* however often and however concurrently a client asks for it.            *)
(***************************************************************************)
OneTokenPerCode ==
  \A j, k \in 1..Len(tokens) : tokens[j].code = tokens[k].code => j = k

(***************************************************************************)
(* A token goes to the flow its code was granted to.  A code that arrives  *)
(* late, in a flow begun after it or under a new registration, is spent    *)
(* and gives nothing; it never connects the client as somebody who         *)
(* approved another flow.                                                  *)
(***************************************************************************)
TokenForOwnFlow ==
  \A k \in 1..Len(tokens) :
    LET row == codes[tokens[k].code]
    IN  /\ row.consumed
        /\ row.challenge = Challenge(tokens[k].verifier)
        /\ row.user = tokens[k].user /\ row.client = tokens[k].client
        /\ row.uri \in clients[row.client]

(***************************************************************************)
(* A spent or expired code, a lost answer, a session or a token that runs  *)
(* out never lock a client out for good: in the end it has a token that    *)
(* calls are accepted with.                                                *)
(***************************************************************************)
Connected == \A a \in App : <>[]Accepted(app[a].token)
=============================================================================
