------------------------------- MODULE Wizard -------------------------------
(***************************************************************************)
(* The play wizard of package web on the tablets of a club, for two        *)
(* players of a group.  The server keeps nothing of a wizard: what was     *)
(* picked is in the URL of the page that is shown (at), what is to be      *)
(* recorded in the form of the finish and confirm pages (sheet).  So a     *)
(* reload, the back button and the language switch repeat whatever request *)
(* made the page.  A GET is one step; the commit is a POST that may be     *)
(* answered late or never, or be sent again.                               *)
(***************************************************************************)
EXTENDS Handicap, Sequences, FiniteSets

CONSTANTS
  Tablet,         \* browsers
  MaxGap,         \* bound: the lead of player 1, in sixteenths of a rank
  SessionLead,    \* bound: the leads at which the wizard is used
  SessionBoard,   \* bound: the boards that are picked
  Edit,           \* bound: what is changed in the finish form
  MaxPosts,       \* bound: commits sent by one tablet
  MaxGames        \* bound on the games recorded

Player == {1, 2}

ASSUME WizardAssumption ==
  /\ "elsewhere" \notin Tablet
  /\ MaxGap \in Nat /\ SessionLead \subseteq Int /\ SessionBoard \subseteq Boards
  /\ Edit \subseteq [stones : {"shown", "more"}, komi : {"shown", "up", "cleared"},
                     swap : BOOLEAN, winner : {"black", "white"}]

VARIABLES
  lead,     \* the rating of player 1 less that of player 2, in ranks
  games,    \* the games recorded: by is history, the tablet that sent it
  wire,     \* commits the server has yet to handle
  tab,      \* tab[t]: the page of tablet t
  presses,  \* history: presses[t], the sheets whose "Ja" was pressed
  again     \* history: again[t], how often a lost commit was sent again

vars == <<lead, games, wire, tab, presses, again>>

\* Pages by the request that makes them; "out" is any page of the rest.
Page == {"out", "start", "p1", "p2", "board", "result", "finish", "confirm",
         "commit", "done"}

NoSheet == [black |-> 0, white |-> 0, board |-> 0, stones |-> 0, komi |-> 0,
            winner |-> "none"]

(***************************************************************************)
(* got: the page is shown, its request underway, or nothing has come.      *)
(* posts numbers the commits; game is the parameter of the done page.      *)
(***************************************************************************)
Home == [at |-> "out", got |-> "shown", flow |-> "g", p1 |-> 0, p2 |-> 0, board |-> 0,
         sheet |-> NoSheet, posts |-> 0, game |-> 0]

Init ==
  /\ lead = 0
  /\ games = <<>>
  /\ wire = {}
  /\ tab = [t \in Tablet |-> Home]
  /\ presses = [t \in Tablet |-> <<>>]
  /\ again = [t \in Tablet |-> 0]

(***************************************************************************)
(* Ratings move with games.  The lead grows from nothing before the wizard *)
(* is used, so that neighbouring proposals can be compared; from then on a *)
(* game leaves it at any value of SessionLead.                             *)
(***************************************************************************)
Widen ==
  /\ tab = [t \in Tablet |-> Home] /\ games = <<>>
  /\ lead < MaxGap
  /\ lead' = lead + 1
  /\ UNCHANGED <<games, wire, tab, presses, again>>

\* A game of a tournament or a tool call.
RecordElsewhere ==
  /\ lead \in SessionLead
  /\ Len(games) < MaxGames
  /\ games' = Append(games, [by |-> "elsewhere", terms |-> NoSheet])
  /\ lead' \in SessionLead
  /\ UNCHANGED <<wire, tab, presses, again>>

-----------------------------------------------------------------------------
\* A GET from one page to another; the tablet's next state is new.
Get(t, from, new) ==
  /\ tab[t].at = from /\ tab[t].got = "shown"
  /\ tab' = [tab EXCEPT ![t] = new]
  /\ UNCHANGED <<lead, games, wire, presses, again>>

\* handlePlayStart, from the rest of the pages, and "Abbrechen", "Fertig".
Open(t) ==
  /\ lead \in SessionLead
  /\ \E from \in {"out", "p1", "result", "confirm"} :
       Get(t, from, [Home EXCEPT !.at = "start", !.posts = tab[t].posts])

\* handleRecP1, handleGameP1; "Noch eine Partie" starts flow g again.
PickFlow(t, f) ==
  \E from \in {"start", "p2", "done"} :
    /\ from = "done" => f = "g"
    /\ from = "p2" => f = tab[t].flow
    /\ Get(t, from, [Home EXCEPT !.at = "p1", !.flow = f, !.posts = tab[t].posts])

\* handleRecP2, handleGameP2, with the first player in the URL.
PickFirst(t, p) == Get(t, "p1", [tab[t] EXCEPT !.at = "p2", !.p1 = p])

\* handleRecBoard, handleGameBoard: filterPlayers has left out the first.
PickSecond(t, p) ==
  p # tab[t].p1 /\ Get(t, "p2", [tab[t] EXCEPT !.at = "board", !.p2 = p])

\* Service.Recommend: the weaker player, and on a tie the first, has black.
RatingOf(p) == IF p = 1 THEN lead ELSE 0

Recommend(p1, p2, b) ==
  LET black == IF RatingOf(p1) > RatingOf(p2) THEN p2 ELSE p1
      h     == Recommended(Abs(lead), b)
  IN  [black |-> black, white |-> 3 - black, board |-> b, stones |-> h.stones,
       komi |-> h.komi, winner |-> "none"]

\* What a page of handleRecResult or handleGameFinish shows: current ratings.
Proposed(l, at) == [l EXCEPT !.at = at, !.sheet = Recommend(l.p1, l.p2, l.board)]

PickBoard(t, b) ==
  Get(t, "board", Proposed([tab[t] EXCEPT !.board = b],
                           IF tab[t].flow = "r" THEN "result" ELSE "finish"))

\* From the recommendation to the finish page, black as the first player.
RecordIt(t) ==
  LET s == tab[t].sheet
  IN  Get(t, "result", Proposed([tab[t] EXCEPT !.flow = "g", !.p1 = s.black, !.p2 = s.white],
                                "finish"))

\* "Zurueck" on the later pages.
Back(t) ==
  \/ Get(t, "board", [tab[t] EXCEPT !.at = "p2", !.p2 = 0])
  \/ Get(t, "finish", [tab[t] EXCEPT !.at = "board", !.board = 0, !.sheet = NoSheet])

-----------------------------------------------------------------------------
(***************************************************************************)
(* The form as it is sent.  The number fields let only half komi through,  *)
(* and stones up to the board's; bump keeps komi in [-29.5, 29.5].  A      *)
(* cleared komi is no number: parseFloat makes it 0.                       *)
(***************************************************************************)
Filled(s, e) ==
  LET side == IF e.swap THEN [black |-> s.white, white |-> s.black]
                        ELSE [black |-> s.black, white |-> s.white]
  IN  [black |-> side.black, white |-> side.white, board |-> s.board,
       stones |-> IF e.stones = "more" /\ s.stones < MaxStones(s.board)
                    THEN s.stones + 1 ELSE s.stones,
       komi |-> CASE e.komi = "shown" -> s.komi
                  [] e.komi = "up" -> Clamp(s.komi + Points(1), -Points(30) + Half,
                                            Points(30) - Half)
                  [] e.komi = "cleared" -> 0,
       winner |-> e.winner]

\* Mutant: the confirm page shows komi as it came.
Confirmed_AsTyped(form) == form

\* handleGameConfirm: what the page shows, and its hidden fields send.
Confirmed(form) == [form EXCEPT !.komi = NormalizeKomi(form.komi)]

Submit(t, e) ==
  Get(t, "finish", [Home EXCEPT !.at = "confirm", !.posts = tab[t].posts,
                                !.sheet = Confirmed(Filled(tab[t].sheet, e))])

\* Page l with its commit sent; the commits of a tablet are numbered.
Sent(l) == [l EXCEPT !.at = "commit", !.got = "sent", !.posts = @ + 1]

Post(t) ==
  /\ tab[t].posts < MaxPosts
  /\ wire' = wire \cup {[from |-> t, n |-> tab[t].posts + 1, sheet |-> tab[t].sheet]}
  /\ tab' = [tab EXCEPT ![t] = Sent(@)]
  /\ UNCHANGED <<lead, games>>

\* "Ja, eintragen" on the confirm page, also while a first commit is underway.
Press(t) ==
  /\ \/ tab[t].at = "confirm"
     \/ tab[t].at = "commit" /\ tab[t].got = "sent"
  /\ Post(t)
  /\ presses' = [presses EXCEPT ![t] = Append(@, tab[t].sheet)]
  /\ UNCHANGED again

\* The browser follows the answer to the last request only.
Awaited(m) == tab[m.from].at = "commit" /\ tab[m.from].got = "sent"
                /\ m.n = tab[m.from].posts

\* Service.RecordGame with the fields of the form.
Row(m) == [by |-> m.from, terms |-> [m.sheet EXCEPT !.komi = NormalizeKomi(m.sheet.komi)]]

\* Mutant: the result page is the answer to the POST.
Followed_Shown(l, id) == [l EXCEPT !.got = "shown", !.game = id]

\* The redirect to the done page of the game that was recorded.
Followed(l, id) == [l EXCEPT !.at = "done", !.game = id]

(***************************************************************************)
(* handleGameCommit: one game and the redirect to it, which the browser    *)
(* follows if it still waits for this answer and if the answer comes.      *)
(***************************************************************************)
Commit(m) ==
  /\ Len(games) < MaxGames
  /\ games' = Append(games, Row(m))
  /\ lead' \in SessionLead
  /\ wire' = wire \ {m}
  /\ \/ Awaited(m) /\ tab' = [tab EXCEPT ![m.from] = Followed(@, Len(games'))]
     \/ UNCHANGED tab
  /\ UNCHANGED <<presses, again>>

\* An error page: no admin any more, or RecordGame fails.
Refuse(m) ==
  /\ wire' = wire \ {m}
  /\ \/ Awaited(m) /\ tab' = [tab EXCEPT ![m.from].got = "shown"]
     \/ UNCHANGED tab
  /\ UNCHANGED <<lead, games, presses, again>>

\* handleGameDone: the page of the game in the URL; GameByID finds it.
ShowDone(t) ==
  /\ tab[t].at = "done" /\ tab[t].got = "sent"
  /\ tab' = [tab EXCEPT ![t].got = "shown"]
  /\ UNCHANGED <<lead, games, wire, presses, again>>

\* The browser waits no longer.
GiveUp(t) ==
  /\ tab[t].got = "sent"
  /\ tab' = [tab EXCEPT ![t].got = "lost"]
  /\ UNCHANGED <<lead, games, wire, presses, again>>

(***************************************************************************)
(* The request of the page once more.  A recommendation is made anew; the  *)
(* other pages of the wizard come as they were; a commit is sent again     *)
(* when it gave an error or nothing.                                       *)
(***************************************************************************)
Reload(t) ==
  \/ \E at \in {"result", "finish"} : Get(t, at, Proposed(tab[t], at))
  \/ /\ tab[t].at = "done" /\ tab[t].got = "lost"
     /\ tab' = [tab EXCEPT ![t].got = "sent"]
     /\ UNCHANGED <<lead, games, wire, presses, again>>
  \/ /\ tab[t].at = "commit" /\ tab[t].got # "sent"
     /\ Post(t)
     /\ again' = [again EXCEPT ![t] = IF tab[t].got = "lost" THEN @ + 1 ELSE @]
     /\ UNCHANGED presses

\* The back button: to the confirm page again, whose form is sent anew.
BackButton(t) ==
  /\ tab[t].at \in {"commit", "done"}
  /\ tab' = [tab EXCEPT ![t] = [@ EXCEPT !.at = "confirm", !.got = "shown", !.game = 0]]
  /\ UNCHANGED <<lead, games, wire, presses, again>>

(***************************************************************************)
(* handleSetLanguage sends the browser to return_to, the URI of the page,  *)
(* with a GET: on a page that came by POST only "GET /" fits.              *)
(***************************************************************************)
SwitchLanguage(t) ==
  \/ \E at \in {"result", "finish"} : Get(t, at, Proposed(tab[t], at))
  \/ Get(t, "confirm", [Home EXCEPT !.posts = tab[t].posts])

\* To the rest of the pages, by a link or because the admin's right is gone.
Leave(t) ==
  /\ tab[t].at # "out"
  /\ tab' = [tab EXCEPT ![t] = [Home EXCEPT !.posts = tab[t].posts]]
  /\ UNCHANGED <<lead, games, wire, presses, again>>

TabletNext(t) ==
  \/ Open(t) \/ \E f \in {"r", "g"} : PickFlow(t, f)
  \/ \E p \in Player : PickFirst(t, p) \/ PickSecond(t, p)
  \/ \E b \in SessionBoard : PickBoard(t, b)
  \/ RecordIt(t) \/ Back(t) \/ \E e \in Edit : Submit(t, e)
  \/ Press(t) \/ ShowDone(t) \/ GiveUp(t)
  \/ Reload(t) \/ BackButton(t) \/ SwitchLanguage(t) \/ Leave(t)

Next ==
  \/ Widen \/ RecordElsewhere
  \/ \E t \in Tablet : TabletNext(t)
  \/ \E m \in wire : Commit(m) \/ Refuse(m)

Spec == Init /\ [][Next]_vars

-----------------------------------------------------------------------------
Sheet == [black : Player, white : Player, board : Boards, stones : 0..9, komi : Int,
          winner : {"none", "black", "white"}] \cup {NoSheet}

TypeOK ==
  /\ lead \in Int
  /\ games \in Seq([by : Tablet \cup {"elsewhere"}, terms : Sheet])
  /\ wire \subseteq [from : Tablet, n : 1..MaxPosts, sheet : Sheet]
  /\ tab \in [Tablet -> [at : Page, got : {"shown", "sent", "lost"}, flow : {"r", "g"},
                         p1 : 0..2, p2 : 0..2, board : {0} \cup Boards, sheet : Sheet,
                         posts : 0..MaxPosts, game : 0..MaxGames]]
  /\ presses \in [Tablet -> Seq(Sheet)]
  /\ again \in [Tablet -> Nat]

(***************************************************************************)
(* What the wizard proposes is rated as an even game (EvenAt), on every    *)
(* board and at every lead.                                                *)
(***************************************************************************)
RatedEven == \A b \in Boards : EvenAt(Abs(lead), b)

(***************************************************************************)
(* When the stronger player gets stronger, black gets no less, also where  *)
(* a stone is added and komi jumps back up.                                *)
(***************************************************************************)
NeverLess ==
  [][Abs(lead') > Abs(lead) => \A b \in Boards : NoLessAt(Abs(lead), Abs(lead'), b)]_lead

(***************************************************************************)
(* "Snap komi to a half-integer so the preview matches what gets           *)
(* recorded": every game has exactly the terms of a sheet on which the     *)
(* button was pressed at its tablet, and the result page shows a game with *)
(* the terms pressed on last, whoever else records in between.             *)
(***************************************************************************)
AsConfirmed ==
  /\ \A i \in 1..Len(games) : games[i].by \in Tablet =>
       \E k \in 1..Len(presses[games[i].by]) :
         presses[games[i].by][k] = games[i].terms
  /\ \A t \in Tablet :
       tab[t].at = "done" =>
         games[tab[t].game] =
           [by |-> t, terms |-> presses[t][Len(presses[t])]]

\* How often the sheet s stands in a sequence of sheets.
Times(s, sheets) == Cardinality({k \in 1..Len(sheets) : sheets[k] = s})

RecordedBy(t, s) == Cardinality({i \in 1..Len(games) : games[i] = [by |-> t, terms |-> s]})

(***************************************************************************)
(* A press of the button records one game, whatever is reloaded: more are  *)
(* only where a commit was sent again because no answer had come.          *)
(***************************************************************************)
RecordedOnce ==
  \A t \in Tablet : \A i \in 1..Len(games) :
    RecordedBy(t, games[i].terms) <= Times(games[i].terms, presses[t]) + again[t]

(***************************************************************************)
(* "so a browser refresh can't record the game twice" (handleGameCommit).  *)
(* It can after a lost answer: MCWizard_lost_answer.                       *)
(***************************************************************************)
RefreshNeverTwice ==
  \A t \in Tablet : \A i \in 1..Len(games) :
    RecordedBy(t, games[i].terms) <= Times(games[i].terms, presses[t])

(***************************************************************************)
(* "so switching language mid-wizard returns to the exact same step"       *)
(* (render).  Not on the confirm page: MCWizard_language.                  *)
(***************************************************************************)
SameStep ==
  [][\A t \in Tablet : tab[t].at = "confirm" /\ SwitchLanguage(t)
       => tab'[t].at = "confirm"]_vars
=============================================================================
