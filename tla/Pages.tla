------------------------------- MODULE Pages -------------------------------
(***************************************************************************)
(* The two pages that show ratings and games together, read while games    *)
(* are recorded: a player's profile (player row, rating grid, his games)   *)
(* and the dashboard of a group (players, recent games, their number).     *)
(* Each is put together from three SELECTs outside a transaction, so the   *)
(* ledger may move between them.  A Viewer is one such GET; it writes      *)
(* nothing.  The list of all players, read for their names, is left out.   *)
(* A read that fails leaves its part of the page empty; the model's reads  *)
(* succeed.  Recent games come by played_at, which the model takes for the *)
(* order of their ids.                                                     *)
(***************************************************************************)
EXTENDS Ledger, FiniteSetsExt

CONSTANTS
  Viewer,       \* goroutines that serve pages
  Watched,      \* bound: the players whose ratings are followed
  RecentLimit   \* games on the dashboard

ASSUME PagesAssumption == RecentLimit \in Nat \ {0} /\ Watched \subseteq Player

VARIABLE page   \* page[v]: program counter and what has been read so far

pageVars == <<vars, page>>

\* Rows of games are kept as their numbers in the table.
NoPage == [pc |-> "none", who |-> AnyPlayer, group |-> GroupOf[AnyPlayer],
           ratings |-> Seed, grid |-> [d \in Board |-> NoRow(AnyPlayer)], listed |-> {}]

PagesInit == Init /\ page = [v \in Viewer |-> NoPage]

\* One SELECT between the steps of the ledger.
Read(v, from, what) ==
  /\ page[v].pc = from
  /\ page' = [page EXCEPT ![v] = what]
  /\ UNCHANGED vars

\* handlePlayerProfile: PlayerByID; an unknown id is not found.
OpenProfile(v, p) ==
  /\ p \in created
  /\ Read(v, "none",
          [NoPage EXCEPT !.pc = "readGrid", !.who = p, !.group = GroupOf[p],
                         !.ratings = [NoPage.ratings EXCEPT ![p] = overall[p]]])

\* ListCategoryRatings.
ReadGrid(v) ==
  Read(v, "readGrid",
       [page[v] EXCEPT !.pc = "readGames", !.grid = grid[page[v].who]])

\* ListGamesByPlayer, and the page goes out.
ReadGames(v) == Read(v, "readGames", NoPage)

\* handleDashboard: ListPlayers.
OpenDashboard(v, g) ==
  Read(v, "none",
       [NoPage EXCEPT !.pc = "readRecent", !.group = g,
          !.ratings = [p \in Player |->
             IF p \in created \cap Watched /\ GroupOf[p] = g THEN overall[p] ELSE Seed[p]]])

\* Mutant: the games with black only.
GamesOf_AsBlack(p) == {i \in 1..Len(games) : games[i].who["black"] = p}

\* What ListGamesByPlayer finds: the games as black or as white.
GamesOf(p) == {i \in 1..Len(games) : InGame(games[i], p)}

GamesIn(g) == {i \in 1..Len(games) : games[i].group = g}

\* ListRecentGames: the newest ones, up to the limit.
Recent(g) == {i \in GamesIn(g) : Cardinality({j \in GamesIn(g) : j > i}) < RecentLimit}

ReadRecent(v) ==
  Read(v, "readRecent",
       [page[v] EXCEPT !.pc = "readTotal", !.listed = Recent(page[v].group)])

\* CountGames, and the page goes out.
ReadTotal(v) == Read(v, "readTotal", NoPage)

PagesNext ==
  \/ Next /\ UNCHANGED page
  \/ \E v \in Viewer :
       \/ \E p \in Watched : OpenProfile(v, p)
       \/ ReadGrid(v) \/ ReadGames(v)
       \/ \E g \in Group : OpenDashboard(v, g)
       \/ ReadRecent(v) \/ ReadTotal(v)

PagesSpec == PagesInit /\ [][PagesNext]_pageVars

-----------------------------------------------------------------------------
PageType ==
  [pc : {"none", "readGrid", "readGames", "readRecent", "readTotal"},
   who : Player, group : Group, ratings : [Player -> Entry], grid : [Board -> GridRow],
   listed : SUBSET Nat]

PageTypeOK == page \in [Viewer -> PageType]

\* One of the listed games explains the rating e of p in category c.
Explained(list, p, c, e) ==
  e = Seed[p] \/ \E i \in list : Plays(games[i], p, c) /\ e = After(games[i], p, c)

(***************************************************************************)
(* A profile put together from three reads never shows a rating, or a      *)
(* number of games on a board, that the games listed below it do not       *)
(* explain, whatever is recorded between the reads: what was read first    *)
(* comes from games that are read last.                                    *)
(***************************************************************************)
ProfileExplained(v) ==
  ReadGames(v) =>
    LET w == page[v]
        listed == GamesOf(w.who)
    IN  /\ Explained(listed, w.who, Overall, w.ratings[w.who])
        /\ \A d \in Board :
             /\ Explained(listed, w.who, d, w.grid[d].state)
             /\ w.grid[d].games <= Cardinality({i \in listed : games[i].board = d})

(***************************************************************************)
(* A dashboard lists no more games than it counts, and, as long as it      *)
(* counts no more than it may list, all games its ratings come from.       *)
(***************************************************************************)
DashboardExplained(v) ==
  ReadTotal(v) =>
    LET w == page[v]
        total == Cardinality(GamesIn(w.group))
    IN  /\ Cardinality(w.listed) <= total
        /\ total <= RecentLimit =>
             \A p \in Player : Explained(w.listed, p, Overall, w.ratings[p])

\* Both pages, with requests only.
PagesExplained ==
  [][Replayer = {} => \A v \in Viewer : ProfileExplained(v) /\ DashboardExplained(v)]_pageVars
=============================================================================
