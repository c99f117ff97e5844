------------------------------- MODULE Ledger -------------------------------
(***************************************************************************)
(* The rating ledger of go-liga: the games of every group, each player's   *)
(* overall rating (players.gor/deviation/volatility) and the per-board     *)
(* rating grid (player_ratings), with the two programs that write them:    *)
(*                                                                         *)
(*   - service.RecordGame, run by one goroutine per HTTP or MCP request    *)
(*     (a Recorder).  It reads four rows in four separate statements,      *)
(*     computes the new ratings in memory and commits one transaction.     *)
(*   - service.RecomputeGroup, run by `go-liga recompute` (a Replayer).    *)
(*     It lists the players, then the games, replays the games from the    *)
(*     seeds in memory and saves everything in one transaction.            *)
(*                                                                         *)
(* The store has one connection (SetMaxOpenConns(1)) and SQLite has one    *)
(* writer, so a statement outside a transaction and a whole transaction    *)
(* are one step each; everything between them interleaves.                 *)
(*                                                                         *)
(* Glicko-2 itself is the uninterpreted constant operator Rate.  A rating  *)
(* state (rating, deviation, volatility) is one value of the set Entry.    *)
(***************************************************************************)
EXTENDS Integers, Sequences, FiniteSets

CONSTANTS
  Player,           \* ids of the players that may ever be added
  Group,            \* ids of the groups
  GroupOf,          \* players.group_id: set by the INSERT, never updated
  Board,            \* board sizes, which are the rating categories
  Overall,          \* the category kept on the players row
  Result,           \* what the replay needs besides players and board:
                    \* stones, komi and winner
  Entry,            \* rating states
  Seed,             \* the state a player's seed_rating stands for
  ZeroEntry,        \* Go's zero value Glicko2Entry{}
  DefaultEntry,     \* NewGlicko2Entry(0, 350, 0.06)
  Rate(_, _, _, _, _), \* new state of a player: own state, opponent's
                    \* overall state, the player's side, board, result
  Recorder,         \* request goroutines that may record a game
  Replayer,         \* `go-liga recompute` processes
  OneAtATime,       \* TRUE: a request starts only when nothing else runs
  ReadErrors,       \* TRUE: the read of a category may fail
  MaxGames          \* bound on the number of games

Side == {"black", "white"}
Opponent(s) == IF s = "black" THEN "white" ELSE "black"
Category == Board \cup {Overall}

\* A player's two states that one game touches.
Pair == [overall : Entry, cat : Entry]

(***************************************************************************)
(* A row of games.  The row stores the rating number of before[s].overall  *)
(* and after[s].overall; the rest of the two pairs is history the code     *)
(* computes and does not store, kept here to say what the row should be.   *)
(***************************************************************************)
Game == [group : Group, who : [Side -> Player], board : Board,
         res : Result, before : [Side -> Pair], after : [Side -> Pair]]

\* A row of player_ratings.
GridRow == [state : Entry, games : Nat]

(***************************************************************************)
(* No row in player_ratings: loadCategory reads it as the seed and zero    *)
(* games.  A stored row always has games >= 1.                             *)
(***************************************************************************)
NoRow(p) == [state |-> Seed[p], games |-> 0]

ASSUME LedgerAssumption ==
  /\ Player # {}
  /\ Group # {}
  /\ Board # {}
  /\ Result # {}
  /\ Overall \notin Board
  /\ GroupOf \in [Player -> Group]
  /\ Seed \in [Player -> Entry]
  /\ ZeroEntry \in Entry
  /\ DefaultEntry \in Entry
  /\ OneAtATime \in BOOLEAN
  /\ ReadErrors \in BOOLEAN
  /\ MaxGames \in Nat

\* RateGame returns a rating state whatever the states it is given.
ASSUME RateAssumption ==
  \A own, opp \in Entry, s \in Side, d \in Board, o \in Result :
    Rate(own, opp, s, d, o) \in Entry

-----------------------------------------------------------------------------
VARIABLES
  created,  \* the ids in table players
  overall,  \* overall[p]: the Glicko-2 triple on the players row
  grid,     \* grid[p][d]: the row of player_ratings
  games,    \* the rows of games in id order, which is (played_at, id) order
            \* as long as the clock does not step back
  rec,      \* rec[r]: program counter and local variables of RecordGame
  rep       \* rep[q]: program counter and local variables of RecomputeGroup

vars == <<created, overall, grid, games, rec, rep>>

\* Mutant: the opponent is taken from the board category.
RateSide_CatOpponent(before, s, d, o) ==
  LET opp == before[Opponent(s)]
  IN  [overall |-> Rate(before[s].overall, opp.overall, s, d, o),
       cat     |-> Rate(before[s].cat, opp.cat, s, d, o)]

(***************************************************************************)
(* rating.RateGame for one side: the opponent of both updates is taken     *)
(* from the overall category.                                              *)
(***************************************************************************)
RateSide(before, s, d, o) ==
  LET opp == before[Opponent(s)].overall
  IN  [overall |-> Rate(before[s].overall, opp, s, d, o),
       cat     |-> Rate(before[s].cat, opp, s, d, o)]

RateGame(before, d, o) == [s \in Side |-> RateSide(before, s, d, o)]

\* p is one of the two players of the game (or of the request) gm.
InGame(gm, p) == \E s \in Side : gm.who[s] = p

SideOf(gm, p) == IF gm.who["black"] = p THEN "black" ELSE "white"

AnyPlayer == CHOOSE p \in Player : TRUE
AnyPair == [overall |-> ZeroEntry, cat |-> ZeroEntry]

RecPC == {"idle", "readWhite", "readBlackCat", "readWhiteCat", "commit"}

IdleRec ==
  [pc |-> "idle", group |-> GroupOf[AnyPlayer],
   who |-> [s \in Side |-> AnyPlayer],
   board |-> CHOOSE d \in Board : TRUE, res |-> CHOOSE o \in Result : TRUE,
   read |-> [s \in Side |-> AnyPair], count |-> [s \in Side |-> 0]]

RepPC == {"idle", "listGames", "replay"}

IdleRep ==
  [pc |-> "idle", group |-> GroupOf[AnyPlayer], listed |-> {}, n |-> 0,
   overall |-> Seed, cats |-> [p \in Player |-> [d \in Board |-> Seed[p]]],
   count |-> [p \in Player |-> [d \in Board |-> 0]], out |-> <<>>]

\* A request may start: always, or only on an idle server.
MayStart ==
  OneAtATime => /\ \A r \in Recorder : rec[r].pc = "idle"
                /\ \A q \in Replayer : rep[q].pc = "idle"

Init ==
  /\ created = {}
  /\ overall = Seed
  /\ grid = [p \in Player |-> [d \in Board |-> NoRow(p)]]
  /\ games = <<>>
  /\ rec = [r \in Recorder |-> IdleRec]
  /\ rep = [q \in Replayer |-> IdleRep]

-----------------------------------------------------------------------------
(***************************************************************************)
(* store.CreatePlayer, one INSERT: the overall rating is the seed.         *)
(***************************************************************************)
CreatePlayer(p) ==
  /\ MayStart
  /\ p \notin created
  /\ created' = created \cup {p}
  /\ overall' = [overall EXCEPT ![p] = Seed[p]]
  /\ UNCHANGED <<grid, games, rec, rep>>

(***************************************************************************)
(* RecordGame: the arguments, the check that the players differ and the    *)
(* read of black's row.  An unknown black player is an error return.       *)
(***************************************************************************)
BeginRecord(r, g, b, w, d, o) ==
  /\ rec[r].pc = "idle"
  /\ MayStart
  /\ Len(games) < MaxGames
  /\ b # w
  /\ b \in created
  /\ rec' = [rec EXCEPT ![r] =
       [IdleRec EXCEPT !.pc = "readWhite", !.group = g,
          !.who = [s \in Side |-> IF s = "black" THEN b ELSE w],
          !.board = d, !.res = o,
          !.read = [IdleRec.read EXCEPT !["black"].overall = overall[b]]]]
  /\ UNCHANGED <<created, overall, grid, games, rep>>

\* Mutant: black's row is read twice.
ReadWhite_BlackAgain(r) ==
  LET b == rec[r].who["black"]
      w == rec[r].who["white"]
      g == rec[r].group
  IN  /\ rec[r].pc = "readWhite"
      /\ w \in created /\ GroupOf[b] = g /\ GroupOf[w] = g
      /\ rec' = [rec EXCEPT ![r] =
           [rec[r] EXCEPT !.pc = "readBlackCat",
                          !.read["white"].overall = overall[b]]]
      /\ UNCHANGED <<created, overall, grid, games, rep>>

(***************************************************************************)
(* The read of white's row, and the check that both are in the group.      *)
(***************************************************************************)
ReadWhite(r) ==
  LET b == rec[r].who["black"]
      w == rec[r].who["white"]
      g == rec[r].group
  IN  /\ rec[r].pc = "readWhite"
      /\ IF w \in created /\ GroupOf[b] = g /\ GroupOf[w] = g
           THEN rec' = [rec EXCEPT ![r] =
                  [rec[r] EXCEPT !.pc = "readBlackCat",
                                 !.read["white"].overall = overall[w]]]
           ELSE rec' = [rec EXCEPT ![r] = IdleRec]
      /\ UNCHANGED <<created, overall, grid, games, rep>>

(***************************************************************************)
(* What the SELECT of loadCategory may give.  Every error is taken for     *)
(* "no games yet", also that of a statement that found the file locked by  *)
(* the save of a recompute.                                                *)
(***************************************************************************)
CategoryReads(p, d) ==
  IF ReadErrors THEN {grid[p][d], NoRow(p)} ELSE {grid[p][d]}

\* loadCategory of one side, one SELECT.
ReadCat(r, s, from, to) ==
  /\ rec[r].pc = from
  /\ \E row \in CategoryReads(rec[r].who[s], rec[r].board) :
       rec' = [rec EXCEPT ![r] =
         [rec[r] EXCEPT !.pc = to, !.read[s].cat = row.state,
                        !.count[s] = row.games]]
  /\ UNCHANGED <<created, overall, grid, games, rep>>

ReadBlackCat(r) == ReadCat(r, "black", "readBlackCat", "readWhiteCat")
ReadWhiteCat(r) == ReadCat(r, "white", "readWhiteCat", "commit")

\* Mutant: only black's rating is written.
WriteOverall_BlackOnly(q, af) ==
  [overall EXCEPT ![q.who["black"]] = af["black"].overall]

\* updatePlayerOverall for both players of request q.
WriteOverall(q, af) ==
  [p \in Player |-> IF InGame(q, p) THEN af[SideOf(q, p)].overall ELSE overall[p]]

\* Mutant: the counter is written as it was read.
UpsertCategory_SameCount(q, af) ==
  [p \in Player |-> [d \in Board |->
     IF d = q.board /\ InGame(q, p)
       THEN [state |-> af[SideOf(q, p)].cat, games |-> q.count[SideOf(q, p)]]
       ELSE grid[p][d]]]

\* Mutant: the counter is bumped when it is read and when it is written.
UpsertCategory_CountTwice(q, af) ==
  [p \in Player |-> [d \in Board |->
     IF d = q.board /\ InGame(q, p)
       THEN [state |-> af[SideOf(q, p)].cat, games |-> q.count[SideOf(q, p)] + 2]
       ELSE grid[p][d]]]

\* upsertCategory for both players of request q.
UpsertCategory(q, af) ==
  [p \in Player |-> [d \in Board |->
     IF d = q.board /\ InGame(q, p)
       THEN [state |-> af[SideOf(q, p)].cat, games |-> q.count[SideOf(q, p)] + 1]
       ELSE grid[p][d]]]

(***************************************************************************)
(* store.RecordGame, one transaction: insert the game, write both overall  *)
(* ratings, upsert both category rows, all from what was read before.      *)
(***************************************************************************)
CommitGame(r) ==
  LET q  == rec[r]
      af == RateGame(q.read, q.board, q.res)
  IN  /\ q.pc = "commit"
      /\ Len(games) < MaxGames
      /\ games' = Append(games,
           [group |-> q.group, who |-> q.who, board |-> q.board,
            res |-> q.res, before |-> q.read, after |-> af])
      /\ overall' = WriteOverall(q, af)
      /\ grid' = UpsertCategory(q, af)
      /\ rec' = [rec EXCEPT ![r] = IdleRec]
      /\ UNCHANGED <<created, rep>>

(***************************************************************************)
(* The request ends before its transaction: the client goes away and the   *)
(* context is cancelled, a statement fails, or the process is killed.      *)
(***************************************************************************)
AbandonRecord(r) ==
  /\ rec[r].pc # "idle"
  /\ rec' = [rec EXCEPT ![r] = IdleRec]
  /\ UNCHANGED <<created, overall, grid, games, rep>>

-----------------------------------------------------------------------------
\* RecomputeGroup: ListPlayers(groupID, includeInactive = true).
ListPlayers(q, g) ==
  /\ rep[q].pc = "idle"
  /\ MayStart
  /\ rep' = [rep EXCEPT ![q] = [IdleRep EXCEPT !.pc = "listGames", !.group = g,
               !.listed = {p \in created : GroupOf[p] = g}]]
  /\ UNCHANGED <<created, overall, grid, games, rec>>

\* Mutant: the replay starts from the ratings it should rebuild.
Start_Current(listed, p, c) == IF c = Overall THEN overall[p] ELSE grid[p][c].state

(***************************************************************************)
(* The seed maps of the replay.  A player who is in no map gives Go's zero *)
(* values: Glicko2Entry{} as overall, and a category seeded from rating 0, *)
(* which NewGlicko2Entry turns into the default.                           *)
(***************************************************************************)
Start(listed, p, c) ==
  IF p \in listed THEN Seed[p]
  ELSE IF c = Overall THEN ZeroEntry ELSE DefaultEntry

(***************************************************************************)
(* ListGamesByGroupAsc, and the initial maps.  The columns a replay reads  *)
(* are never updated, so the list is known by its length n.                *)
(***************************************************************************)
ListGames(q) ==
  /\ rep[q].pc = "listGames"
  /\ rep' = [rep EXCEPT ![q] = [IdleRep EXCEPT !.pc = "replay",
       !.group = rep[q].group, !.listed = rep[q].listed, !.n = Len(games),
       !.overall = [p \in Player |-> Start(rep[q].listed, p, Overall)],
       !.cats = [p \in Player |-> [d \in Board |-> Start(rep[q].listed, p, d)]]]]
  /\ UNCHANGED <<created, overall, grid, games, rec>>

(***************************************************************************)
(* One turn of the replay loop on the local variables l.  A row of another *)
(* group is not in the list (it is copied to keep out aligned with games,  *)
(* and ignored when saving).                                               *)
(***************************************************************************)
Before(l, gm) == [s \in Side |-> [overall |-> l.overall[gm.who[s]],
                                  cat     |-> l.cats[gm.who[s]][gm.board]]]

Replay(l, gm) ==
  LET be == Before(l, gm)
      af == RateGame(be, gm.board, gm.res)
      mine(p, d) == d = gm.board /\ InGame(gm, p)
  IN  IF gm.group # l.group
        THEN [l EXCEPT !.out = Append(l.out, gm)]
        ELSE [l EXCEPT
          !.out = Append(l.out, [gm EXCEPT !.before = be, !.after = af]),
          !.overall = [p \in Player |->
             IF InGame(gm, p) THEN af[SideOf(gm, p)].overall ELSE l.overall[p]],
          !.cats = [p \in Player |-> [d \in Board |->
             IF mine(p, d) THEN af[SideOf(gm, p)].cat ELSE l.cats[p][d]]],
          !.count = [p \in Player |-> [d \in Board |->
             IF mine(p, d) THEN l.count[p][d] + 1 ELSE l.count[p][d]]]]

ReplayGame(q) ==
  /\ rep[q].pc = "replay"
  /\ Len(rep[q].out) < rep[q].n
  /\ rep' = [rep EXCEPT ![q] = Replay(rep[q], games[Len(rep[q].out) + 1])]
  /\ UNCHANGED <<created, overall, grid, games, rec>>

\* Mutant: the before-columns are not written.
Snapshot_AfterOnly(gm, out) == [gm EXCEPT !.after = out.after]

\* UPDATE games: the four snapshot columns of one row.
Snapshot(gm, out) == [gm EXCEPT !.before = out.before, !.after = out.after]

\* Mutant: the table is replaced by the list.
SavedGames_Listed(l) == [i \in 1..l.n |-> l.out[i]]

SavedGames(l) ==
  [i \in 1..Len(games) |->
     IF i <= l.n /\ games[i].group = l.group THEN Snapshot(games[i], l.out[i])
                                             ELSE games[i]]

\* DELETE FROM player_ratings for the group, then the rebuilt rows.
SavedGrid(l) ==
  [p \in Player |-> [d \in Board |->
     IF GroupOf[p] # l.group THEN grid[p][d]
     ELSE IF l.count[p][d] > 0
       THEN [state |-> l.cats[p][d], games |-> l.count[p][d]]
       ELSE NoRow(p)]]

(***************************************************************************)
(* SaveRecompute, one transaction: the overall ratings of the listed       *)
(* players, the grid of every player now in the group rebuilt from         *)
(* scratch, the snapshot columns of the listed games.                      *)
(***************************************************************************)
SaveRecompute(q) ==
  LET l == rep[q]
  IN  /\ l.pc = "replay"
      /\ Len(l.out) = l.n
      /\ overall' = [p \in Player |-> IF p \in l.listed THEN l.overall[p]
                                                        ELSE overall[p]]
      /\ grid' = SavedGrid(l)
      /\ games' = SavedGames(l)
      /\ rep' = [rep EXCEPT ![q] = IdleRep]
      /\ UNCHANGED <<created, rec>>

\* The recompute process fails or is killed before its transaction.
AbandonRecompute(q) ==
  /\ rep[q].pc # "idle"
  /\ rep' = [rep EXCEPT ![q] = IdleRep]
  /\ UNCHANGED <<created, overall, grid, games, rec>>

-----------------------------------------------------------------------------
RecorderNext(r) ==
  \/ \E g \in Group, b, w \in Player, d \in Board, o \in Result :
       BeginRecord(r, g, b, w, d, o)
  \/ ReadWhite(r)
  \/ ReadBlackCat(r)
  \/ ReadWhiteCat(r)
  \/ CommitGame(r)
  \/ AbandonRecord(r)

ReplayerNext(q) ==
  \/ \E g \in Group : ListPlayers(q, g)
  \/ ListGames(q)
  \/ ReplayGame(q)
  \/ SaveRecompute(q)
  \/ AbandonRecompute(q)

Next ==
  \/ \E p \in Player : CreatePlayer(p)
  \/ \E r \in Recorder : RecorderNext(r)
  \/ \E q \in Replayer : ReplayerNext(q)

Spec == Init /\ [][Next]_vars

-----------------------------------------------------------------------------
(***************************************************************************)
(* Types.  Names the sets the rows and the local variables range over.     *)
(***************************************************************************)
RecType == [pc : RecPC, group : Group, who : [Side -> Player], board : Board,
            res : Result, read : [Side -> Pair], count : [Side -> Nat]]

RepType == [pc : RepPC, group : Group, listed : SUBSET Player, n : Nat,
            overall : [Player -> Entry],
            cats : [Player -> [Board -> Entry]],
            count : [Player -> [Board -> Nat]], out : Seq(Game)]

TypeOK ==
  /\ created \in SUBSET Player
  /\ overall \in [Player -> Entry]
  /\ grid \in [Player -> [Board -> GridRow]]
  /\ games \in Seq(Game)
  /\ rec \in [Recorder -> RecType]
  /\ rep \in [Replayer -> RepType]

\* The columns of a game that are facts, not ratings.
Facts(gm) == <<gm.group, gm.who, gm.board, gm.res>>

(***************************************************************************)
(* A running replay works on a prefix of the table: the list it read is    *)
(* still there, and its copies are of the games with the same ids.         *)
(***************************************************************************)
Aligned ==
  \A q \in Replayer : rep[q].pc = "replay" =>
    /\ rep[q].n <= Len(games)
    /\ Len(rep[q].out) <= rep[q].n
    /\ \A i \in 1..Len(rep[q].out) : Facts(rep[q].out[i]) = Facts(games[i])

TypeInv == TypeOK /\ Aligned

-----------------------------------------------------------------------------
(* What the ledger should be. *)

\* gm counts for player p in category c.
Plays(gm, p, c) == InGame(gm, p) /\ (c = Overall \/ gm.board = c)

\* p's state in category c in a pair of gm.
Part(pair, c) == IF c = Overall THEN pair.overall ELSE pair.cat

After(gm, p, c) == Part(gm.after[SideOf(gm, p)], c)

(***************************************************************************)
(* e is p's state in category c after the first n games of gs, when p      *)
(* starts from e0: the state after p's last such game, or e0.              *)
(***************************************************************************)
Standing(gs, n, p, c, e0, e) ==
  \/ /\ \A j \in 1..n : ~Plays(gs[j], p, c)
     /\ e = e0
  \/ \E j \in 1..n :
       /\ Plays(gs[j], p, c)
       /\ e = After(gs[j], p, c)
       /\ \A k \in (j+1)..n : ~Plays(gs[k], p, c)

\* The stored state of p in category c.
Stored(p, c) == IF c = Overall THEN overall[p] ELSE grid[p][c].state

\* The games of p on board d among the first n of gs.
GamesOn(gs, n, p, d) == {j \in 1..n : Plays(gs[j], p, d)}

(***************************************************************************)
(* A game is between two different players of its group.  RecordGame       *)
(* checks it against rows it read, in front of a commit made later.        *)
(***************************************************************************)
GamesWellFormed ==
  \A i \in 1..Len(games) :
    /\ games[i].who["black"] # games[i].who["white"]
    /\ \A s \in Side : /\ games[i].who[s] \in created
                       /\ GroupOf[games[i].who[s]] = games[i].group

(***************************************************************************)
(* Whatever runs concurrently, each row of games is one application of     *)
(* RateGame: its after-ratings are the result of its before-ratings, also  *)
(* when a recompute rewrites the four snapshot columns.                    *)
(***************************************************************************)
RowsConsistent ==
  \A i \in 1..Len(games) :
    games[i].after = RateGame(games[i].before, games[i].board, games[i].res)

(***************************************************************************)
(* Whatever runs concurrently, player_ratings.games never counts a game    *)
(* that was not played.  (It may miss games: see Reproducible.)            *)
(***************************************************************************)
CountsNeverExceed ==
  \A p \in Player, d \in Board :
    grid[p][d].games <= Cardinality(GamesOn(games, Len(games), p, d))

\* The players a request has read so far are as its game will need them.
RequestsChecked ==
  \A r \in Recorder : rec[r].pc # "idle" =>
    /\ rec[r].who["black"] # rec[r].who["white"]
    /\ rec[r].who["black"] \in created
    /\ rec[r].pc # "readWhite" =>
         \A s \in Side : /\ rec[r].who[s] \in created
                        /\ GroupOf[rec[r].who[s]] = rec[r].group

\* The rows a replay has rated are applications of RateGame.
OutConsistent ==
  \A q \in Replayer : rep[q].pc = "replay" =>
    \A i \in 1..Len(rep[q].out) :
      LET gm == rep[q].out[i]
      IN  gm.after = RateGame(gm.before, gm.board, gm.res)

RowInv ==
  TypeInv /\ RequestsChecked /\ GamesWellFormed /\ OutConsistent /\ RowsConsistent

(***************************************************************************)
(* With requests only, however they interleave, a player's overall and     *)
(* board rating is what his last game says it is after that game, so the   *)
(* player page (rating) and the game page (snapshot) agree.                *)
(***************************************************************************)
RatingIsLastGame ==
  Replayer = {} =>
    \A p \in Player, c \in Category :
      Standing(games, Len(games), p, c, Seed[p], Stored(p, c))

(***************************************************************************)
(* With requests only, the ratings a game starts from are ratings the      *)
(* player had at some moment before it, never a mixture and never later.   *)
(***************************************************************************)
BeforeWasHeld ==
  Replayer = {} =>
    \A i \in 1..Len(games), s \in Side :
      LET p == games[i].who[s]
      IN  \A c \in {Overall, games[i].board} :
            \E m \in 0..(i-1) :
              Standing(games, m, p, c, Seed[p], Part(games[i].before[s], c))

(***************************************************************************)
(* The ratings of group g are what a replay of its games from the seeds    *)
(* gives: every game starts from the states the games before it left,      *)
(* every stored state is the one its last game left, and the grid counts   *)
(* exactly the games played.                                               *)
(***************************************************************************)
ChainedIn(g) ==
  \A i \in 1..Len(games), s \in Side :
    games[i].group = g =>
      LET p == games[i].who[s]
      IN  \A c \in {Overall, games[i].board} :
            Standing(games, i-1, p, c, Seed[p], Part(games[i].before[s], c))

StoredFromGamesIn(g) ==
  \A p \in Player : GroupOf[p] = g =>
    /\ \A c \in Category :
         Standing(games, Len(games), p, c, Seed[p], Stored(p, c))
    /\ \A d \in Board :
         grid[p][d].games = Cardinality(GamesOn(games, Len(games), p, d))

ReproducibleIn(g) == ChainedIn(g) /\ StoredFromGamesIn(g) /\ RowsConsistent

(***************************************************************************)
(* "since live recording also starts from the seed, a recompute must       *)
(* reproduce the exact same ratings" (service_test.go:128).  Holds when    *)
(* requests are served one at a time.                                      *)
(***************************************************************************)
Reproducible == \A g \in Group : ReproducibleIn(g)

Appends ==
  /\ Len(games) <= Len(games')
  /\ \A i \in 1..Len(games) : Facts(games'[i]) = Facts(games[i])

(***************************************************************************)
(* Games are only appended, and the facts of a game never change: a        *)
(* recompute may rewrite its ratings and nothing else.                     *)
(***************************************************************************)
GamesAppendOnly == [][Appends]_vars

\* No game of its group was recorded behind the back of recompute q.
Undisturbed(q) ==
  LET l == rep[q]
  IN  \A i \in 1..Len(games) : games[i].group = l.group =>
        i <= l.n /\ \A s \in Side : games[i].who[s] \in l.listed

(***************************************************************************)
(* A recompute that no game of its group overtook leaves the group's       *)
(* ratings reproducible, however wrong they were before it: it repairs     *)
(* what concurrent requests did, in ratings, grid and snapshots.           *)
(***************************************************************************)
RecomputeRepairs ==
  [][\A q \in Replayer, g \in Group :
       SaveRecompute(q) /\ rep[q].group = g /\ Undisturbed(q)
         => ReproducibleIn(g)']_vars

(***************************************************************************)
(* "replays a group's entire game history [...] and safe to run            *)
(* repeatedly" (RecomputeGroup's comment): the same without the proviso.   *)
(* The code does not keep this: MCLedger_overtaken.                        *)
(***************************************************************************)
RecomputeRebuilds ==
  [][\A q \in Replayer, g \in Group :
       SaveRecompute(q) /\ rep[q].group = g => ReproducibleIn(g)']_vars

(***************************************************************************)
(* The ledger with requests served one at a time implements the league:    *)
(* the commit of RecordGame is League's Record, everything else, the save  *)
(* of a recompute included, is a stuttering step.                          *)
(***************************************************************************)
Abstract == INSTANCE League WITH
  Player <- Player, GroupOf <- GroupOf, Board <- Board, Result <- Result,
  Seed <- Seed, Rate <- Rate, MaxGames <- MaxGames,
  created <- created, overall <- overall, grid <- grid, games <- games

ImplementsLeague == Abstract!Spec
=============================================================================
