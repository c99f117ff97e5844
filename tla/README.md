# A formal model of go-liga

go-liga keeps the Go league of several groups: it records games, rates the
players with Glicko-2, runs round-robin and McMahon tournaments, and lets a
trainer do the same through MCP tools. This directory holds TLA+ models of the
program, the TLC runs that check them, and TLAPS proofs.

All paths below are relative to the repository, `src/` being its root; packages are
named without `src/internal/`.

## 1. The system

One Go binary, one SQLite file. `src/cmd/server/main.go` runs the HTTP server;
`go-liga recompute`, started by hand beside it, is a second process on the same
file. The store has one connection per process (`SetMaxOpenConns(1)`), so a
statement outside a transaction is one atomic step and so is a transaction.
Everything that a handler does between two store calls interleaves with the other
handlers: there are no locks above the database, no queues and no background jobs.
What is hard in this program follows from that: handlers that read, compute and
write in several calls; requests that are repeated or cut off; and the second
process.

| Component | State | Operations | Interacts with |
|---|---|---|---|
| Rating ledger (`service/service.go`, `store/store.go`) | `players`, `player_ratings`, `games` | RecordGame, RecomputeGroup, add player | Glicko-2, tournament service |
| Pairing engine (`tournament/tournament.go`) | none, pure | schedule, McMahon round, starting scores, standings | tournament service |
| Tournament service (`service/tournament.go`, `store/tournament.go`) | `tournaments`, `tournament_players`, `tournament_pairings` | create, start, result, next round | engine, RecordGame, ratings |
| Group admins (`mcp/tools.go`, `mcp/server.go`) | `users`, `groups`, `group_admins` | create_group, add_admin, remove_admin, check of the caller | login |
| Schema and migrations (`store/store.go`, `schema.sql`) | the tables' columns, old ratings | Open | both processes |
| Players and record_game (`mcp/tools.go`, `store/store.go`) | `players` | add_player, update_player, record_game by name | admins, RecordGame |
| Handicap (`rating/handicap.go`) | none, pure | Recommended, HandicapRankDifference, NormalizeKomi | wizard, pairings, rating |
| Authorization server (`mcp/oauth.go`, `auth/jwt.go`) | `oauth_clients`, `oauth_codes`, signed tokens | register, authorize, token, verify | login session, MCP |
| Web login (`web/web.go`, `auth/`) | three cookies of a browser | start, callback, logout | identity provider, authorize page |
| Play wizard (`web/web.go`, `web/templates/play_*.html`) | URLs and forms in browsers | pick, recommend, fill in, confirm, commit | ledger, handicap, language switch |
| Pages (`web/web.go`) | none | profile and dashboard, three SELECTs each | ledger |
| MCP protocol, language, manual | none, or one column | - | - |

What makes each of them correct:

- ledger: the stored ratings are those a replay of the games gives; rows are never
  lost; games are between different players of one group;
- engine: everybody plays exactly once a round, everybody meets everybody in a
  round robin, byes go round, rematches are avoided, tables count what was played;
- tournament: a pairing shows the game that was rated for it, rounds seat the roster
  and come in order, the end comes after the games;
- pages: what they show of a player's rating and of his games agrees;
- admins and tools: no group without an admin, only admins appoint and change the
  group's players and games, a call changes what it was asked to, for the players named;
- migrations: whatever version a file has and whoever opens it, it ends on the
  present schema with its games, converted once;
- handicap and wizard: what is proposed is rated as even and grows with the gap; what
  is recorded is what was confirmed, once;
- login and OAuth: one token per code and only for the flow that was approved, a
  login returns to the page that asked for it, and nobody is locked out or loops.

`PROJECT.json` lists the hazards line by line ("hazards"), each with the
properties that cover it.

## 2. The modules

| Module | Models | Extends |
|---|---|---|
| `Ledger` | RecordGame and RecomputeGroup, statement by statement | |
| `League` | the abstract league: games recorded and rated one at a time | |
| `Pages`, `MCPages` | profile and dashboard, read while games are recorded | Ledger |
| `MCLedger` | instances of Ledger | Ledger |
| `LedgerProofs` | proofs about Ledger and Pages, and that Ledger implements League | Pages |
| `PairingEngine` | the functions of package tournament | |
| `PairingProofs` | what these functions return, for any field | PairingEngine |
| `RoundRobin` | the circle method as a machine, round by round | PairingEngine |
| `McMahon`, `MCMcMahon` | a McMahon event as the engine sees it | PairingEngine |
| `EventProofs` | proofs about both | RoundRobin, McMahon, PairingProofs |
| `Tournament`, `MCTournament` | the tournament service and its table rows | PairingEngine |
| `TournamentProofs` | its proofs | Tournament, PairingProofs |
| `GroupAdmins` | logins and the admin tools | |
| `PlayerTools`, `MCPlayerTools` | add_player, update_player, record_game by name | GroupAdmins |
| `ToolsProofs` | proofs about both | PlayerTools |
| `Migration` | store.Open on every version of the database | |
| `Handicap` | the functions of handicap.go | |
| `Wizard`, `MCWizard` | the play wizard on tablets | Handicap |
| `WizardProofs` | proofs about Handicap and Wizard | Wizard |
| `OAuth`, `MCOAuth` | the authorization server | |
| `OAuthProofs` | its proofs | OAuth |
| `Login` | the web login in a browser with tabs | |
| `StartProofs` | proofs about Migration and Login | Migration, Login |

`Pages` puts readers beside the goroutines of `Ledger`, and `PlayerTools` the other tools
beside those of `GroupAdmins`, all actors interleaving. `Tournament`, `Wizard` and
`PlayerTools` meet `Ledger` in RecordGame, which is one step there: `Ledger` has its
inside. `OAuth` takes the session as given, `Login` has how a
session comes about. `PROJECT.json` ("map") gives the lines of code behind every
definition.

The code's loops are recursive functions, sorting is `Ranked` (the k-th is the one below
k - 1 others), and the powers of two in `SuggestedRounds` a function too: forms that TLC
evaluates and the proofs can reason about.

### How state and actions correspond to the code

*Ledger.* `overall[p]` is the Glicko-2 triple on the players row, `grid[p][d]` the
row of `player_ratings`; a missing row is read as "the seed, zero games", as
`loadCategory` does, and written rows count at least one game, so the model has no
separate value for it. With `ReadErrors` a read of a category may also fail, which the
code takes for a missing row. `games` holds the rows in id order. `rec[r]` is one RecordGame
(idle, after each of its reads, committing), `rep[q]` one recompute process. A commit
is one action with everything `store.RecordGame` writes. Glicko-2 is the operator
`Rate`. A game row stores one rating number per side before and after; the model
keeps the whole states, overall and category, as history that no action reads.

*Pages.* `page[v]` is one GET of the profile or the dashboard: which SELECT comes next,
and what the earlier ones gave. Games are kept as their numbers in the table.

*Tournament.* `t`, `roster` and `pairings` are the three tables; `games` and `rating`
stand for the ledger. A handler's `pc` is the next store call and its other fields are
its local variables. `StartTournament` is LoadRoster, SetRoster, InsertOpening,
SetRounds, SetRunning; a result is BeginResult, RecordGame, SetResult; a next round is
BeginNext, ListPairings, LoadField, InsertNext or Finish. `Fail` ends a request
before one of the store calls of `FailAt`; `cut` is history: the games left without a link
that way. Ratings are re-chosen at every recorded game, so the
engine sees any movement of them. The reads of single players by `loadRoster` are one
step. The sort of a start is stable, so players of one rating stay in the order of the form,
which may be any (`Seedings`). The roster is read back in primary-key order, as SQLite
returns it.

*GroupAdmins.* `req[h]` is a tool call: resolve the caller, find the target, count,
then insert or delete. `ever` and `crossed` are history for the properties.

*PlayerTools.* `call[c]` is a tool call after the caller was checked: the next statement,
the arguments, the id that the name gave, the row as update_player will write it.
`crossed` is history: another update of the same player came in between.

*Migration.* The tables are their columns and rows. A rating is known by its
provenance: whether games are behind the rating and the seed, and how often it was
converted. `initial` is the set of games that should be there. The look for the table
sessions may fail (`ReadErrors`): `migrate` throws the error away and goes on as if the table
were not there.

*OAuth.* `ConsumeAuthCode` is one step (a transaction), the comparison of client,
URI and verifier another. The clients, their browser and the network are external
actions: deliver, repeat, lose; `trouble` counts what goes beyond the plain flow.
*Login.* A request carries the cookies at the time
it is sent, the response changes the jar when it comes; the callback is three steps,
because it asks the provider in between.

*Handicap.* Gaps count in sixteenths of a rank and points in eighths; in these units
all arithmetic of `handicap.go` is exact on all boards.
*Wizard.* The server keeps nothing of a wizard, so its state is in the browsers: `tab[t]`
is the request that made the page of tablet t, with what its URL or form carries, and
whether the page is shown, underway or lost. A GET is one step; a commit goes over `wire`
and may be answered late or never. `Reload`, `BackButton` and `SwitchLanguage` repeat the
request the page came from, as a browser does. `lead` is the difference of the two
ratings, moved by every game. `presses` and `again` are history: the sheets on which
"Ja" was pressed, and the commits sent again after no answer.

## 3. The runs

Every run has its bounds in its `.cfg`. The last one is a "violation" run: it checks
a sentence of the repository that the code does not keep.

| Run | Shows | Bounds |
|---|---|---|
| pages | whatever two requests read and when, the ratings a game starts from were held before it, and a stored rating is the "after" of the player's last game; a page that lists every game it counts shows no rating without the game behind it | 3 players, 2 boards, 2 requests at a time, 2 games, 1 page, 1 recent game |
| ledger_recompute | rows are consistent, counters never too high, the history only grows, a recompute that was not overtaken repairs what an overtaken one or a failed read did | 3 players in 2 groups, 2 boards, 2 games, 1 recorder and 1 recompute, any number of recomputes, reads that fail |
| ledger_serial | ratings are reproducible; Ledger implements League | 4 players in 2 groups, 3 games, one request at a time |
| round_robin_schedule | one board each, everybody meets, colours balanced | every field up to 18 |
| mcmahon | once per round, places, byes, colours, how low a rematch is | fields of 2 to 5, 3 rounds, of 2 and 3 players 5 rounds, every outcome, ratings that move |
| tournament | links, second games, seats, meetings, order of rounds, end and results of both formats, from draft to end | 2 handlers, round robins of 3 and McMahon fields of 3 and 4, 6 pairings, 3 games, 2 ratings with a tie, 2 requests that end between the game and its link |
| tools | only crossing removals empty a group, and an empty one stays so; only admins and creators appoint, and only admins change players and games; an update leaves the rest; a game is for the names given | 1 group, 2 users, 2 addresses, 2 names, 2 calls at a time, 2 players, 1 game, ends anywhere |
| migration | games, scale and schema; where games may be lost; the open comes through | 2 old games, 1 new, 3 players, 2 processes, 2 crashes, a look for the sessions that fails |
| wizard | the proposal at every gap; a recorded game is what was confirmed, and only commits sent again after no answer record twice | leads of 0 to 60 ranks by sixteenths, all boards for the proposal; the wizard at leads 0 and 2.5 on 19x19, 1 tablet, 3 ways to fill in the form, 2 commits, 3 games |
| oauth | one token per code, in its own flow; the client is connected in the end | 2 users, 1 client, 2 concurrent requests, 2 pieces of trouble, 3 ticks |
| login | the login returns, and ends | 2 tabs, 2 authorize requests, 1 logout |
| tournament_round_robin (violation) | a round robin is finished with games open | 3 players, 1 handler |

In `tournament` either handler records results, also for the same pairing at once; only
one starts (`Starter`) and only one advances (`Advancer`), and a request may end before any
store call but the two that leave a start half done (`FailAt`). Beyond these the properties
fail, which the further configurations of section 5 show.

`TypeOK` of a module says which values its variables take. It is proved for Ledger (with
`Aligned`, as `TypeInv`), RoundRobin (`CircleTypeOK`; modules that are proved about together
have names of their own for these), McMahon, PlayerTools with GroupAdmins (`ToolsTypeOK`),
Tournament and Login (`LoginTypeOK`), and no run's time is spent on it. TLC confirms it for
the other modules under the configurations above (`PageTypeOK` in Pages), and the invariants
of section 4 contain types of their own for Migration and OAuth.

`GroupAdmins.cfg` checks the admin tools alone with two groups; `tools` has one group,
because no call touches two.

### Why the bounds are enough

Two concurrent actors with one shared object are what all interleavings of these
handlers need: no handler reads what more than one other wrote between two of its
own steps. Two games that share a player are the least for a lost update, and for reads
that straddle a commit; a third player makes the games overlap in part. Ratings are
hashes of everything that made them (`MCRate`), so that equal ratings mean equal
histories. The circle method is checked for all fields up to 18 and proved for all. Five
rounds give every one of three players a bye and somebody a second. Three games finish a
round robin and a McMahon tournament of three, and leave a McMahon field of four in its
second round, whose first had two boards. Two games without their links and a third one are
enough for a pairing that is rated three times. In `oauth` the bounds on codes and flows are
above what two pieces of trouble and three ticks can use up, so that no bound ends a run.
Two players, of which one may be renamed to the other's name, are the least for a name
that means two. Two commits are a game sent again; the third game comes from elsewhere.
Gaps of sixteenths hit every rounding of `handicap.go`, and beyond 60 ranks there are only
the most stones. The run has one tablet, because tablets share nothing but the table of
games; the proof is for any number.

`CHECK_DEADLOCK FALSE` stands where the bounds stop the system: games, rounds,
pairings, crashes, time, or where a schedule is done. `Login` has no such end and checks
deadlock, and so does `GroupAdmins.cfg`.

### Fairness

- `migration`: a process goes on with Open, and is started again after an error or a
  crash: the server by its deployment, the recompute by whoever wants it.
- `oauth`: the server answers requests it has, the person signs in when asked, and the
  client goes on with its flow. Trouble and time are bounded.
- `login`: a page that was requested is answered, and the person at the provider
  signs in or turns back. Somebody who logs out again and again in another tab can keep
  a tab bouncing for ever, so logouts are bounded.

## 4. What is proved

For every value of the constants that the modules' ASSUMEs allow. Where a theorem has a
hypothesis beyond them, it is named here, and a configuration of section 5 has the
counterexample without it.

*Ledger* (`LedgerProofs`), for any players, groups, boards, recorders, recompute
processes and any rating function into the rating states (`RateAssumption`):

- `TypeCorrect`: types of tables and local variables. The invariant `TypeInv` adds to
  the types that a recompute's copy of the games has exactly the games it listed, in
  order, a prefix of the table (`Aligned`); without it SaveRecompute could not be shown
  to write rows that exist.
- `AppendOnly`: no step removes or reorders games or changes their players, board or
  result. From `TypeInv`, action by action.
- `WellFormed`, `Consistent`: a game is between two players of its group; its "after" is
  one step of RateGame from its "before". Both follow from `RowInv`, which says the
  same of what a request has read so far (`RequestsChecked`) and of what a recompute
  has replayed so far.
- `LastGame`, `HeldBefore`, both without a recompute (the properties say so): every stored
  rating is the "after" of the player's last game in that category, or the seed; and what
  a game started from was the player's state at some earlier moment. The argument is on
  `Standing`: a commit moves exactly the standing of its two players in its two
  categories, because the row of the game and the ratings are written by one transaction.
  A request has read only such standings, and they stay true of the games up to then,
  because rows are only added.
- `CountsBounded`: no counter exceeds the games in the table. It is inductive only
  together with the same bound on what requests have read (`ReadsCounted`), and with what
  a recompute has counted in its replay (`RepairInv`).
- `RecomputeRepairsGroup`: whatever the ratings were, a recompute that was not overtaken
  leaves its group reproducible. Its invariant says that after k games of its list a
  recompute holds a replay of exactly these k (`RepairInv`); at SaveRecompute, not
  overtaken, these are all games of the group.
- `SerialReproducible`, `SerialImplementsLeague`, if `OneAtATime` and no `ReadErrors`
  (otherwise `MCLedger_lost_update` and `MCLedger_misread`): the ledger is always
  reproducible, and every step of it maps to a step of `League` or to none. A commit maps
  to League's game because what the request has read is still what is stored
  (`SerialInv`); a recompute maps to no step, because it writes what was there.
- `PagesConsistent` (`PagesExplained`), for any number of requests and pages: the ledger's
  steps are those of `Ledger`, so `RowInv`, `LastGame` and `CountsBounded` carry over, and
  `PageInv` says of what a page has read that games now in the table explain it. It stays
  true because rows are only added. A dashboard whose group has at most `RecentLimit` games
  when it lists them lists all of them; that is where the hypothesis of the property comes in.

*Pairing engine* (`PairingProofs`), for any field, scores, ratings and results:
`McMahonSeatsAll` and `ScheduleSeatsAll`, that every player sits at exactly one board of a
round, `ScheduleMeetsAll`, that in the round-robin schedule every two players meet in
one round and in no other, and `StandingsPlaces`, that a place of the table counts the
players who are better. `McMahonSeatsAll` also says what a round owes to the results before
it: the bye (`ByeIsFair`), the colours (`ColoursFair`) and the rematches
(`RematchesForced`: one of the two has met all who sit below). For McMahon the loop is
followed turn by turn: the players left and those paired are always the field, each once,
and the boards so far are as they should be (`AfterTurns`). For the circle method a rotation
permutes the seats, and the closed form of the table after r rotations (`TablesTurned`) turns "meet"
into arithmetic: two seats share a board in round r iff their numbers add up to a fixed
value modulo the number of movers, which has one solution r for each pair. For the
standings the order of the sort is shown to be strict and total and never to put the better
row second (`RowAboveOrders`), so that those before a row are the better ones and some of
its equals, and a place shared with the row before is shared with all equals
(`PlacesAreAbove`). Scores, SOS and SOSOS are numbers by induction on the size of the set
that is summed (`SumType`). Beside them stand the lemmas that the other
modules cite: `Ranked` lists every member of a set once, `StartScores` are not negative, `SuggestedRounds` is between 1 and n - 1.

*McMahon* (`EventProofs`), for any field and number of rounds, any outcomes and ratings
that move: `EveryoneOnce`, `ByesShareOut`, that byes go round, `PlacesAreRight`
(`PlacesCountBetter`) from `StandingsPlaces`, `ColoursStayClose` (`BlacksClose`) and
`RematchesStayLow` (`RematchesLow`). The invariant
`EventInv` has besides the types that every round so far seats everybody once, and the
claim on byes without cardinalities; it is kept because ByeIndex takes a player without a
bye as long as there is one.
For the colours a bound on each player is not inductive: a player's next black is checked
against his foe only. `ColourInv` bounds the blacks of every set of players (`InBounds`): k
of n have had black at most k * r / 2 + k * (n - k) / 4 times in r rounds, a quarter more
if k is odd. In the step (`BoundsStep`) the players of a set who have black against others had it no
more often than these foes (`FoesHaveMore`), so that the blacks of the set are at most the
mean of those of two other sets, the one without these players and the one with their foes
too; the bound is concave in k, so that what it is lower at these two than at k leaves room
for the games of the round (`MostStep`). In an even field the blacks add up to half of all seats, and the bound of all players but one
bounds that one from below. Every opponent of a player came from a round of its own
(`FewOpponents`), which turns what `RematchesForced` says of one round into `RematchesLow`.

*RoundRobin* (`EventProofs`), for every field size: `NeverTwice`, `OneBoard`,
`Complete` and `Balanced` (`ColoursBalanced`). The invariant `LoopInv` says where every
seat is after r rotations; the arithmetic of the circle is that of `PairingProofs`. A player's
colours alternate from round to round except where the rotation carries him from one half
of the table to the other, which happens at most twice (`FewRepeats`); a sequence with at
most two repeats is off balance by at most three (`AtMostTwo`), and the one bye of an odd
field takes one game more.

*Migration* (`StartProofs`), for any number of processes, crashes, players and games:
`MigratedOnce` (`ConvertedOnce`) and `RowsSurvive` (`SurviveUnlessMistaken`): games go only
in a rebuild without the sessions, by a process that failed to see them (`Misread`) or came
after another rebuild (`Overtaken`). The columns
tell the scale of the rows (`ColumnsTell`), because the transaction that converts the rows
is the one that adds the columns. What a process has found out, and what it has done, stays
true whatever the others do (`Found`), because the tables only move forward (`Forward`); a
process with a stale inspection fails on the columns instead of converting again.

*Login* (`StartProofs`), for any number of tabs, requests and states: `LoginTypes` and
`LoginReturns` (`ReturnsToRequest`). The two cookies are shared by the tabs, so the property
is not one of the tab. `LoginInv` says that no two tabs have the same state (`OwnStates`), and
that as long as the state cookie is that of a tab sent from a request, the return_to cookie
is there, names this request and lives as long (`Together`): a login elsewhere replaces
the state first of all.

*Tournament* (`TournamentProofs`), for any players, rosters, handlers and bounds:

- `ResultsLinked` (`LinkMatches`), `RowsAndResultsStay` (`ResultsStay`), with any handlers
  and any failures. The property speaks of rows; `LinkInv` also of a handler between
  RecordGame and SetResult: the game it is about to link is there, for its pairing, with
  the players and colours the pairing has, and no other handler has the same game.
- `SecondGamesExplained` (`SecondGameExplained`), with any handlers and any failures, also
  between the game and its link. `ExplainedInv` says that at any time the pairing of a game
  has a result, or a handler is about to link the game, or one ended before it did (`cut`).
  That a second game comes at all is `MCTournament_two_results` and
  `MCTournament_result_retried`; this says that they are the only two ways.
- `RoundsSeatAll` (`RoundsSeatRoster`) and `RoundsFollow` (`RoundsInOrder`), under
  `OneOfEach`: at most one Starter (`MCTournament_two_starts`), at most one Advancer
  (`MCTournament_two_rounds`), and no start that ends between the pairings and the status
  (`MCTournament_start_retried`). Results may overlap and fail as they like. `RoundsInv`
  relates the locals of a handler to the tables: the roster a start has loaded is the one
  stored, its rows are whole rounds on that roster, an advancer's list is the table but for
  results that came later, and they only come for pairings that were open; its new
  rows are the next round on the whole roster.
- `MeetOnceEach` (`EveryoneMeetsOnce`), under the same `OneOfEach`: what a start of a round
  robin holds, and what is then stored, is row by row the schedule of `ScheduleMeetsAll`
  (`FromPlan`), whatever colours storePairings swaps and whatever results come (`MeetInv`).

*GroupAdmins, PlayerTools* (`ToolsProofs`), for any users, groups, names and calls, which
may end anywhere: `AdminsAreAppointed`, `EmptyOnlyToCrossed`, `NobodyRescues`
(`AbandonedStays`: a group that has neither an admin nor an admin call underway never has
one again), `OnlyAdminsChangeRows`, `UncrossedUpdateKeepsRest`, `UncrossedGameOfNamed`, and
`ToolsTypes`, that rows and games refer to groups and players that are there. `AdminInv`
keeps for a call underway that its caller was an admin (`ever`) and, if it was not crossed,
is one; and for a removal that has counted and was not crossed that somebody else is an
admin too. `ToolsInv` says the same of a tool call: the rows its names were resolved to have
these names still, unless it was crossed.

*OAuth* (`OAuthProofs`), for any users, clients, flows, concurrent requests, lost and
repeated messages: `CodesGiveOneToken`, `TokensOfOwnFlow`. Between ConsumeAuthCode and the
answer a request holds a code that no token has yet, and it is alone in that (`Alone`); a
code that nobody consumed has no token.

*Handicap* (`WizardProofs`), for every gap and every board: `EvenEverywhere`, that the
stones and komi of the proposal are rated as even to half a point as long as stones
remain, and `NeverLessEverywhere`, that a wider gap never gets fewer stones or a smaller
head start. `Proposal` describes the search for the number of stones by its result: the
fewest that reach the gap, or all. What makes neighbouring gaps not cross is that
NormalizeKomi is monotone, and a fixed point on what it returns (`NormalizeMonotone`,
`NormalizeFixed`), while one more stone is worth more than what komi jumps by. `AlwaysEven`
and `StrongerGivesMore` state the two for the wizard (`RatedEven`, `NeverLess`,
the second proved only); their invariant is only that the lead is a whole number.

*Wizard* (`WizardProofs`), for any number of tablets, commits and games:
`RecordsConfirmed`, that is `AsConfirmed`. The invariant `IInv` is needed because the
property is about games and a sheet travels: from the confirm page it is pressed, goes
over the wire, may be sent again from the page, and comes back as the redirect. So it says
of every commit underway that its sheet was pressed and has a komi RecordGame will not
change, of every page from confirm on that it carries the sheet pressed last, and of the
awaited commit that it is the page's (`CommitOK`, `PageOK`). `RecordsOnce` (`RecordedOnce`)
counts: of every sheet, the games recorded, the commits underway and the one that a reload
of an error page would send are together no more than the presses and the commits sent
again after a lost answer (`OnceInv`). A reload of the result page adds to none of them,
because that page came by a redirect.

Induction. The provers cannot use the library's induction theorems, whose parameter is an
operator, so induction over natural numbers is stated here with sets: `Least` (a set of
naturals that is not empty has a least member, from the library's WellFoundedInduction),
`Induct`, and `Recursion`, that a recursive function exists and keeps what each of its
steps keeps. With them what the recursive functions of the engine return is proved for
all arguments.

Only model-checked:

- liveness (`OpenSucceeds`, `Connected`, `SignInEnds`): out of the prover's reach.

## 5. Where the code and its words differ

The first is a run of its own and a finding of `PROJECT.json`. For the others a
configuration beside the runs gives the counterexample, in seconds:
`tlc -config <configuration>.cfg <module>`.

| What the code does | What the repository says | Configuration |
|---|---|---|
| A round robin is finished as soon as its last round is, with earlier games open. | "Finish once all is played" (`service/tournament.go:229`) | `MCTournament_round_robin` |
| Two overlapping results for one pairing record two rated games. | "already-played pairings are rejected" (`service/tournament.go:178`) | `MCTournament_two_results` |
| A result request that ends after the game was committed leaves a game no pairing shows; the retry rates it again. | "writes the underlying rating game [...] and links it" (`service/tournament.go:175`) | `MCTournament_result_retried` |
| A start that failed half-way and is repeated doubles the schedule. | "every player meets every other exactly once" (`tournament/tournament.go:76`) | `MCTournament_start_retried` |
| A late second start sets a finished tournament back to running. | "status walks 'setup' -> 'running' -> 'finished'" (`schema.sql:99`) | `MCTournament_two_starts` |
| Two overlapping requests for the next round insert it twice. | - | `MCTournament_two_rounds` |
| A McMahon round may have a rematch that another pairing would avoid. | "avoiding rematches until unavoidable" (`tournament/tournament.go:186`) | `MCMcMahon_rematch` |
| Overlapping RecordGame requests of one player lose an update. | "a recompute must reproduce the exact same ratings" (`service/service_test.go:128`) | `MCLedger_lost_update` |
| A read of a category rating that fails starts the game from the seed. | "a recompute must reproduce the exact same ratings" (`service/service_test.go:128`) | `MCLedger_misread` |
| A recompute leaves out games recorded while it runs. | "replays a group's entire game history" (`service/service.go:165`) | `MCLedger_overtaken` |
| Two admins removing themselves at once leave a group without one. | "Der letzte verbleibende Admin kann sich nicht selbst entfernen" (`mcp/tools.go:45`) | `GroupAdmins_two_removals` |
| A name may be given to two players of a group, and a call by name takes either. | "so callers can identify players without having to remember numeric IDs" (`store/store.go:444`) | `MCPlayerTools_same_name` |
| Of two updates of a player that change one thing each, one may be lost. | - | `MCPlayerTools_two_updates` |
| A commit whose answer was lost is sent again by a refresh and recorded twice. | "so a browser refresh can't record the game twice" (`web/web.go:893`) | `MCWizard_lost_answer` |
| On the confirm page, which came by POST, the language switch leads to the start page. | "returns to the exact same step" (`web/web.go:392`) | `MCWizard_language` |
| Opening a v1 database loses its games if the look for the table sessions fails, whose error is dropped (`store/store.go:192`). | "Existing rows survive" (`store/store.go:220`) | `Migration_games_lost` |
| Two processes opening a v1 database at once may lose its games, though every read succeeds. | the same | `Migration_games_lost` with `ReadErrors = FALSE` |
| The conversion to Glicko-2 makes current ratings seeds. | "the strength estimate the player started from" (`schema.sql:27`) | `Migration_seeds` |

The passing runs say what is true instead. `RematchesLow` says where a rematch may be.
`RecomputeRepairs`, `EmptyOnlyWhenCrossed`,
`SurviveUnlessMistaken`, `SecondGameExplained`, `ResultsStay`, `UpdateKeepsRest`,
`GameOfNamed` and `RecordedOnce` name the interleavings or failures that break the sentence
and hold in all others;
`RatingIsLastGame` and `BeforeWasHeld` say what of the ledger survives every interleaving of requests.

## 6. Abstractions and what is not modelled

- Glicko-2 and ranks (`glicko2.go`, `rank.go`): floating-point iteration. Ledger takes it
  as an operator; ratings and ranks elsewhere are whole numbers.
- The clock: games are in id order, that is, the clock does not step back. Cookies, codes
  and tokens have coarse ticks with the code's order of lifetimes.
- Reads succeed or end the request, but for those of `loadCategory`, which takes an error
  for "no row" (`ReadErrors` of Ledger), and the look for the table sessions in `migrate`,
  which takes one for "no table" (`ReadErrors` of Migration). A read of a page that fails
  would leave its part empty; in Pages they succeed. So do the loops of `Open` over columns,
  players and games, which do not ask `rows.Err` (`store/store.go:68`, 111, 140, 170, 253): a
  read cut short there would be taken for a complete one.
- `schema.sql` is one step of Migration, though `Exec` runs its statements one by one. Each
  creates what is not there, so a run of it that stops is completed by the next.
- In Migration no old database has tournament pairings, and old sessions cover all games.
- Stones and komi of pairings. Names, slugs, wording, form parsing and the templates, but
  for the finish form, its fields and its buttons.
- The wizard is for two players of a group; more only add pages to choose from. The tools
  that only read: list_players, ranking, recommend_handicap, list_my_groups.
- Wizard and login meet only in that an admin who lost his right gets an error page.
- The cache of the provider's metadata, the shutdown timeout, routing and logging.
- i18n (but for where the language switch leads), the manual and the JSON-RPC envelope: stateless.

## 7. Plan

Done, in this order: Ledger with League; PairingEngine with RoundRobin and McMahon;
Tournament; GroupAdmins; Migration; Handicap; OAuth and Login; the proofs about Ledger and
RoundRobin; failing reads and Pages; PlayerTools; Wizard; the proofs about Handicap and
Wizard; those about the tools, OAuth, the engine, McMahon and Tournament; the serial ledger
as an implementation of League; the proofs about Pages, standings, colours, Migration and
Login; those about colours and rematches of a McMahon event.

Next to model: stones and komi of pairings that are stale when they are played.
