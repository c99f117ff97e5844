---------------------------- MODULE LedgerProofs ----------------------------
(***************************************************************************)
(* Theorems about the rating ledger, for any players, groups, boards,      *)
(* rating function, requests and recompute processes: first what holds of  *)
(* the rows and of the steps alone, then how the stored ratings follow     *)
(* from the games, and at last what a page shows that is read beside the   *)
(* requests.                                                               *)
(***************************************************************************)
EXTENDS Pages, FiniteSetTheorems, WellFoundedInduction, TLAPS

LEMMA AnyPlayerType == AnyPlayer \in Player
  BY LedgerAssumption DEF AnyPlayer

LEMMA AnyPairType == AnyPair \in Pair
  BY LedgerAssumption DEF AnyPair, Pair

\* The initial local variables have their types.
LEMMA IdleRecType == IdleRec \in RecType
<1>1. (CHOOSE d \in Board : TRUE) \in Board
  BY LedgerAssumption
<1>2. (CHOOSE o \in Result : TRUE) \in Result
  BY LedgerAssumption
<1>3. QED
  BY <1>1, <1>2, AnyPlayerType, AnyPairType, LedgerAssumption
     DEF IdleRec, RecType, RecPC

LEMMA IdleRepType == IdleRep \in RepType
<1>1. <<>> \in Seq(Game)
  OBVIOUS
<1>2. QED
  BY <1>1, AnyPlayerType, LedgerAssumption DEF IdleRep, RepType, RepPC

\* RateGame is total: it turns two pairs into two pairs.
LEMMA RateGameType ==
  ASSUME NEW before \in [Side -> Pair], NEW d \in Board, NEW o \in Result
  PROVE  RateGame(before, d, o) \in [Side -> Pair]
<1> SUFFICES ASSUME NEW s \in Side
             PROVE  RateSide(before, s, d, o) \in Pair
  BY DEF RateGame
<1>1. Opponent(s) \in Side
  BY DEF Opponent, Side
<1>2. /\ before[s].overall \in Entry
      /\ before[s].cat \in Entry
      /\ before[Opponent(s)].overall \in Entry
  BY <1>1 DEF Pair
<1>3. QED
  BY <1>1, <1>2, RateAssumption DEF RateSide, Pair

LEMMA SideOfType == ASSUME NEW gm, NEW p PROVE SideOf(gm, p) \in Side
  BY DEF SideOf, Side

-----------------------------------------------------------------------------
LEMMA InitTypeOK == Init => TypeOK
<1> SUFFICES ASSUME Init PROVE TypeOK
  OBVIOUS
<1>1. \A p \in Player : NoRow(p) \in GridRow
  BY LedgerAssumption DEF NoRow, GridRow
<1>2. games \in Seq(Game)
  BY DEF Init
<1>3. QED
  BY <1>1, <1>2, IdleRecType, IdleRepType, LedgerAssumption DEF Init, TypeOK

LEMMA CreatePlayerType ==
  ASSUME TypeOK, NEW p \in Player, CreatePlayer(p)
  PROVE  TypeOK'
  BY LedgerAssumption DEF TypeOK, CreatePlayer

LEMMA BeginRecordType ==
  ASSUME TypeOK, NEW r \in Recorder, NEW g \in Group, NEW b \in Player,
         NEW w \in Player, NEW d \in Board, NEW o \in Result,
         BeginRecord(r, g, b, w, d, o)
  PROVE  TypeOK'
<1> DEFINE who == [s \in Side |-> IF s = "black" THEN b ELSE w]
           read == [IdleRec.read EXCEPT !["black"].overall = overall[b]]
           new == [IdleRec EXCEPT !.pc = "readWhite", !.group = g, !.who = who,
                     !.board = d, !.res = o, !.read = read]
<1>1. who \in [Side -> Player]
  OBVIOUS
<1>2. read \in [Side -> Pair]
  <2>1. IdleRec.read \in [Side -> Pair] /\ overall[b] \in Entry
    BY IdleRecType DEF RecType, TypeOK
  <2>2. [IdleRec.read["black"] EXCEPT !.overall = overall[b]] \in Pair
    BY <2>1 DEF Pair, Side
  <2>3. QED
    BY <2>1, <2>2
<1>3. new \in RecType
  <2> HIDE DEF who, read
  <2> QED
    BY <1>1, <1>2, IdleRecType DEF RecType, RecPC
<1>4. rec' = [rec EXCEPT ![r] = new]
  BY DEF BeginRecord
<1>5. rec' \in [Recorder -> RecType]
  <2> HIDE DEF new
  <2> QED
    BY <1>3, <1>4 DEF TypeOK
<1>6. QED
  BY <1>5 DEF TypeOK, BeginRecord

LEMMA ReadWhiteType ==
  ASSUME TypeOK, NEW r \in Recorder, ReadWhite(r)
  PROVE  TypeOK'
<1> DEFINE l == rec[r]
           w == l.who["white"]
           new == [l EXCEPT !.pc = "readBlackCat",
                            !.read["white"].overall = overall[w]]
<1>1. l \in RecType
  BY DEF TypeOK
<1>2. w \in Player /\ overall[w] \in Entry
  BY <1>1 DEF RecType, Side, TypeOK
<1>3. new \in RecType
  <2>1. l.read \in [Side -> Pair] /\ l.read["white"] \in Pair
    BY <1>1 DEF RecType, Side
  <2> DEFINE row == [l.read["white"] EXCEPT !.overall = overall[w]]
             read == [l.read EXCEPT !["white"] = row]
  <2>2. row \in Pair
    BY <1>2, <2>1 DEF Pair
  <2> HIDE DEF row
  <2>3. read \in [Side -> Pair]
    BY <2>1, <2>2
  <2>4. new = [l EXCEPT !.pc = "readBlackCat", !.read = read]
    BY DEF row
  <2> HIDE DEF read, new
  <2>5. QED
    BY <1>1, <2>3, <2>4 DEF RecType, RecPC
<1>4. rec' \in [Recorder -> RecType]
  <2>1. CASE rec' = [rec EXCEPT ![r] = IdleRec]
    BY <2>1, IdleRecType DEF TypeOK
  <2>2. CASE rec' = [rec EXCEPT ![r].pc = "readBlackCat",
                                ![r].read["white"].overall = overall[w]]
    <3>1. rec' = [rec EXCEPT ![r] = new]
      BY <2>2, <1>1 DEF TypeOK, RecType
    <3>2. QED
      BY <3>1, <1>3 DEF TypeOK
  <2>3. QED
    BY <2>1, <2>2 DEF ReadWhite
<1>5. QED
  BY <1>4 DEF TypeOK, ReadWhite

LEMMA ReadCatType ==
  ASSUME TypeOK, NEW r \in Recorder, NEW s \in Side,
         NEW from, NEW to \in RecPC, ReadCat(r, s, from, to)
  PROVE  TypeOK'
<1> DEFINE l == rec[r]
<1>0. PICK row \in CategoryReads(l.who[s], l.board) :
        rec' = [rec EXCEPT ![r] = [l EXCEPT !.pc = to, !.read[s].cat = row.state,
                                            !.count[s] = row.games]]
  BY DEF ReadCat
<1> DEFINE new == [l EXCEPT !.pc = to, !.read[s].cat = row.state,
                            !.count[s] = row.games]
<1>1. l \in RecType
  BY DEF TypeOK
<1>2. row.state \in Entry /\ row.games \in Nat
  <2>1. l.who[s] \in Player /\ l.board \in Board
    BY <1>1 DEF RecType
  <2>2. row \in GridRow
    BY <2>1, LedgerAssumption DEF TypeOK, CategoryReads, NoRow, GridRow
  <2>3. QED
    BY <2>2 DEF GridRow
<1>3. new \in RecType
  <2>1. l.read[s] \in Pair /\ l.read \in [Side -> Pair]
    BY <1>1 DEF RecType
  <2>2. [l.read[s] EXCEPT !.cat = row.state] \in Pair
    BY <2>1, <1>2 DEF Pair
  <2> DEFINE read == [l.read EXCEPT ![s] = [l.read[s] EXCEPT !.cat = row.state]]
             count == [l.count EXCEPT ![s] = row.games]
  <2>3. read \in [Side -> Pair]
    BY <2>1, <2>2
  <2>4. count \in [Side -> Nat]
    BY <1>1, <1>2 DEF RecType
  <2>5. new = [l EXCEPT !.pc = to, !.read = read, !.count = count]
    BY <1>1 DEF RecType
  <2> HIDE DEF new, read, count
  <2> QED
    BY <1>1, <2>3, <2>4, <2>5 DEF RecType
<1>4. rec' = [rec EXCEPT ![r] = new]
  BY <1>0
<1>5. rec' \in [Recorder -> RecType]
  <2> HIDE DEF new
  <2> QED
    BY <1>3, <1>4 DEF TypeOK
<1>6. QED
  BY <1>5 DEF TypeOK, ReadCat

LEMMA CommitGameType ==
  ASSUME TypeOK, NEW r \in Recorder, CommitGame(r)
  PROVE  TypeOK'
<1> DEFINE q == rec[r]
           af == RateGame(q.read, q.board, q.res)
           new == [group |-> q.group, who |-> q.who, board |-> q.board,
                   res |-> q.res, before |-> q.read, after |-> af]
<1>1. q \in RecType
  BY DEF TypeOK
<1>2. af \in [Side -> Pair]
  BY <1>1, RateGameType DEF RecType
<1> HIDE DEF af
<1>3. \A p \in Player : SideOf(q, p) \in Side
  BY SideOfType
<1>4. games' \in Seq(Game)
  <2>1. new \in Game
    BY <1>1, <1>2 DEF RecType, Game
  <2>2. games' = Append(games, new)
    BY DEF CommitGame, af
  <2>3. QED
    BY <2>1, <2>2 DEF TypeOK
<1>5. overall' \in [Player -> Entry]
  <2>1. \A p \in Player : af[SideOf(q, p)].overall \in Entry
    BY <1>2, <1>3 DEF Pair
  <2>2. overall' = [p \in Player |->
           IF InGame(q, p) THEN af[SideOf(q, p)].overall ELSE overall[p]]
    BY DEF CommitGame, WriteOverall, af
  <2>3. QED
    BY <2>1, <2>2 DEF TypeOK
<1>6. grid' \in [Player -> [Board -> GridRow]]
  <2> DEFINE row(p) == [state |-> af[SideOf(q, p)].cat,
                        games |-> q.count[SideOf(q, p)] + 1]
  <2>1. \A p \in Player : row(p) \in GridRow
    BY <1>1, <1>2, <1>3 DEF Pair, GridRow, RecType
  <2>2. grid' = [p \in Player |-> [d \in Board |->
           IF d = q.board /\ InGame(q, p) THEN row(p) ELSE grid[p][d]]]
    BY DEF CommitGame, UpsertCategory, af
  <2> HIDE DEF row
  <2>3. QED
    BY <2>1, <2>2 DEF TypeOK
<1>7. rec' \in [Recorder -> RecType]
  BY IdleRecType DEF TypeOK, CommitGame
<1>8. QED
  BY <1>4, <1>5, <1>6, <1>7 DEF TypeOK, CommitGame

LEMMA AbandonRecordType ==
  ASSUME TypeOK, NEW r \in Recorder, AbandonRecord(r)
  PROVE  TypeOK'
  BY IdleRecType DEF TypeOK, AbandonRecord

LEMMA ListPlayersType ==
  ASSUME TypeOK, NEW q \in Replayer, NEW g \in Group, ListPlayers(q, g)
  PROVE  TypeOK'
<1> DEFINE new == [IdleRep EXCEPT !.pc = "listGames", !.group = g,
                     !.listed = {p \in created : GroupOf[p] = g}]
<1>1. new \in RepType
  BY IdleRepType DEF RepType, RepPC, TypeOK
<1>2. rep' = [rep EXCEPT ![q] = new]
  BY DEF ListPlayers
<1>3. rep' \in [Replayer -> RepType]
  <2> HIDE DEF new
  <2> QED
    BY <1>1, <1>2 DEF TypeOK
<1>4. QED
  BY <1>3 DEF TypeOK, ListPlayers

LEMMA StartType ==
  ASSUME NEW listed, NEW p \in Player, NEW c
  PROVE  Start(listed, p, c) \in Entry
  BY LedgerAssumption DEF Start

LEMMA ListGamesType ==
  ASSUME TypeOK, NEW q \in Replayer, ListGames(q)
  PROVE  TypeOK'
<1> DEFINE l == rep[q]
           ov == [p \in Player |-> Start(l.listed, p, Overall)]
           ca == [p \in Player |-> [d \in Board |-> Start(l.listed, p, d)]]
           new == [IdleRep EXCEPT !.pc = "replay", !.group = l.group,
                     !.listed = l.listed, !.n = Len(games),
                     !.overall = ov, !.cats = ca]
<1>1. l \in RepType
  BY DEF TypeOK
<1>2. ov \in [Player -> Entry] /\ ca \in [Player -> [Board -> Entry]]
  BY StartType
<1>3. new \in RepType
  <2>1. Len(games) \in Nat
    BY DEF TypeOK
  <2> HIDE DEF ov, ca
  <2> QED
    BY <1>1, <1>2, <2>1, IdleRepType DEF RepType, RepPC
<1>4. rep' = [rep EXCEPT ![q] = new]
  BY DEF ListGames
<1>5. rep' \in [Replayer -> RepType]
  <2> HIDE DEF new
  <2> QED
    BY <1>3, <1>4 DEF TypeOK
<1>6. QED
  BY <1>5 DEF TypeOK, ListGames

\* One turn of the loop keeps the types of the local variables.
LEMMA ReplayType ==
  ASSUME NEW l \in RepType, NEW gm \in Game
  PROVE  Replay(l, gm) \in RepType
<1> DEFINE d == gm.board
           be == Before(l, gm)
           af == RateGame(be, d, gm.res)
           row == [gm EXCEPT !.before = be, !.after = af]
           mine(p, e) == e = d /\ InGame(gm, p)
           ov == [p \in Player |-> IF InGame(gm, p) THEN af[SideOf(gm, p)].overall
                                                    ELSE l.overall[p]]
           ca == [p \in Player |-> [e \in Board |->
                     IF mine(p, e) THEN af[SideOf(gm, p)].cat ELSE l.cats[p][e]]]
           co == [p \in Player |-> [e \in Board |->
                     IF mine(p, e) THEN l.count[p][e] + 1 ELSE l.count[p][e]]]
           taken == Append(l.out, row)
           copied == Append(l.out, gm)
<1>1. d \in Board /\ gm.res \in Result /\ gm.who \in [Side -> Player]
  BY DEF Game
<1>2. be \in [Side -> Pair]
  <2>1. \A s \in Side : l.overall[gm.who[s]] \in Entry /\ l.cats[gm.who[s]][d] \in Entry
    BY <1>1 DEF RepType
  <2>2. QED
    BY <2>1 DEF Pair, Before
<1>3. af \in [Side -> Pair]
  <2> HIDE DEF be
  <2> QED
    BY <1>1, <1>2, RateGameType
<1>4. row \in Game
  <2> HIDE DEF be, af
  <2> QED
    BY <1>2, <1>3 DEF Game
<1>5. \A p \in Player : /\ af[SideOf(gm, p)].overall \in Entry
                        /\ af[SideOf(gm, p)].cat \in Entry
  <2> HIDE DEF af
  <2> QED
    BY <1>3, SideOfType DEF Pair
<1>6. /\ ov \in [Player -> Entry]
      /\ ca \in [Player -> [Board -> Entry]]
      /\ co \in [Player -> [Board -> Nat]]
  <2> HIDE DEF af, d, mine
  <2> QED
    BY <1>5 DEF RepType
<1>7. taken \in Seq(Game) /\ copied \in Seq(Game)
  <2>1. l.out \in Seq(Game)
    BY DEF RepType
  <2> HIDE DEF row
  <2> QED
    BY <1>4, <2>1
<1>8. Replay(l, gm) = IF gm.group # l.group THEN [l EXCEPT !.out = copied]
                      ELSE [l EXCEPT !.out = taken, !.overall = ov,
                                     !.cats = ca, !.count = co]
  BY DEF Replay
<1>9. QED
  <2> HIDE DEF ov, ca, co, taken, copied
  <2> QED
    BY <1>6, <1>7, <1>8 DEF RepType

\* One turn of the loop appends a copy of the game to out.
LEMMA ReplayShape ==
  ASSUME NEW l \in RepType, NEW gm \in Game
  PROVE  \E row : /\ Replay(l, gm).out = Append(l.out, row)
                  /\ Replay(l, gm).n = l.n
                  /\ Facts(row) = Facts(gm)
<1>1. CASE gm.group # l.group
  BY <1>1 DEF Replay, RepType
<1>2. CASE gm.group = l.group
  <2> DEFINE be == Before(l, gm)
             af == RateGame(be, gm.board, gm.res)
             row == [gm EXCEPT !.before = be, !.after = af]
  <2>1. Replay(l, gm).out = Append(l.out, row) /\ Replay(l, gm).n = l.n
    BY <1>2 DEF Replay, RepType
  <2>2. Facts(row) = Facts(gm)
    BY DEF Facts, Game
  <2>3. QED
    BY <2>1, <2>2
<1>3. QED
  BY <1>1, <1>2

\* The game a turn of the loop reads is there.
LEMMA NextGame ==
  ASSUME TypeInv, NEW q \in Replayer, ReplayGame(q)
  PROVE  /\ Len(rep[q].out) + 1 \in 1..rep[q].n
         /\ Len(rep[q].out) + 1 \in 1..Len(games)
         /\ games[Len(rep[q].out) + 1] \in Game
<1>1. /\ rep[q].out \in Seq(Game)
      /\ rep[q].n \in Nat
      /\ games \in Seq(Game)
  BY DEF RepType, TypeInv, TypeOK
<1>2. Len(rep[q].out) + 1 <= rep[q].n /\ rep[q].n <= Len(games)
  BY <1>1 DEF ReplayGame, TypeInv, Aligned
<1>3. QED
  BY <1>1, <1>2

LEMMA ReplayGameType ==
  ASSUME TypeInv, NEW q \in Replayer, ReplayGame(q)
  PROVE  TypeOK'
<1>1. rep[q] \in RepType
  BY DEF TypeInv, TypeOK
<1>2. Replay(rep[q], games[Len(rep[q].out) + 1]) \in RepType
  BY <1>1, NextGame, ReplayType
<1>3. rep' \in [Replayer -> RepType]
  BY <1>2 DEF ReplayGame, TypeInv, TypeOK
<1>4. QED
  BY <1>3 DEF TypeInv, TypeOK, ReplayGame

LEMMA SaveRecomputeType ==
  ASSUME TypeInv, NEW q \in Replayer, SaveRecompute(q)
  PROVE  TypeOK'
<1> DEFINE l == rep[q]
<1>1. l \in RepType /\ rep \in [Replayer -> RepType]
  BY DEF TypeInv, TypeOK
<1>2. overall' \in [Player -> Entry]
  BY <1>1 DEF SaveRecompute, RepType, TypeInv, TypeOK
<1>3. grid' \in [Player -> [Board -> GridRow]]
  <2> DEFINE row(p, d) == [state |-> l.cats[p][d], games |-> l.count[p][d]]
  <2>1. \A p \in Player, d \in Board : row(p, d) \in GridRow
    BY <1>1 DEF RepType, GridRow
  <2>2. \A p \in Player : NoRow(p) \in GridRow
    BY LedgerAssumption DEF NoRow, GridRow
  <2>3. grid' = [p \in Player |-> [d \in Board |->
           IF GroupOf[p] # l.group THEN grid[p][d]
           ELSE IF l.count[p][d] > 0 THEN row(p, d) ELSE NoRow(p)]]
    BY DEF SaveRecompute, SavedGrid
  <2> HIDE DEF row
  <2>4. QED
    BY <2>1, <2>2, <2>3 DEF TypeInv, TypeOK
<1>4. games' \in Seq(Game)
  <2> DEFINE mine(i) == i <= l.n /\ games[i].group = l.group
             row(i) == [games[i] EXCEPT !.before = l.out[i].before,
                                        !.after = l.out[i].after]
  <2>1. \A i \in 1..Len(games) : games[i] \in Game
    BY DEF TypeInv, TypeOK
  <2>2. \A i \in 1..Len(games) : mine(i) => row(i) \in Game
    <3> SUFFICES ASSUME NEW i \in 1..Len(games), mine(i) PROVE row(i) \in Game
      OBVIOUS
    <3>0. Len(l.out) = l.n
      BY DEF SaveRecompute
    <3>1. l.out \in Seq(Game) /\ l.n \in Nat
      BY <1>1 DEF RepType
    <3>2. l.out[i] \in Game
      BY <3>1, <3>0
    <3>3. QED
      BY <3>2, <2>1 DEF Game
  <2>3. games' = [i \in 1..Len(games) |-> IF mine(i) THEN row(i) ELSE games[i]]
    BY DEF SaveRecompute, SavedGames, Snapshot
  <2>4. Len(games) \in Nat
    BY DEF TypeInv, TypeOK
  <2> HIDE DEF mine, row
  <2>5. games' \in [1..Len(games) -> Game]
    BY <2>1, <2>2, <2>3
  <2>6. QED
    BY <2>4, <2>5
<1>5. rep' \in [Replayer -> RepType]
  BY <1>1, IdleRepType DEF SaveRecompute
<1>6. QED
  BY <1>2, <1>3, <1>4, <1>5 DEF SaveRecompute, TypeInv, TypeOK

LEMMA AbandonRecomputeType ==
  ASSUME TypeOK, NEW q \in Replayer, AbandonRecompute(q)
  PROVE  TypeOK'
  BY IdleRepType DEF TypeOK, AbandonRecompute

-----------------------------------------------------------------------------
(* The facts of the games, and the replays that read them. *)

LEMMA CommitAppends ==
  ASSUME TypeInv, NEW r \in Recorder, CommitGame(r)
  PROVE  /\ Len(games') = Len(games) + 1
         /\ \A i \in 1..Len(games) : games'[i] = games[i]
<1>1. games \in Seq(Game)
  BY DEF TypeInv, TypeOK
<1>2. PICK gm : games' = Append(games, gm)
  BY DEF CommitGame
<1>3. QED
  BY <1>1, <1>2

LEMMA SaveKeepsFacts ==
  ASSUME TypeInv, NEW q \in Replayer, SaveRecompute(q)
  PROVE  /\ Len(games') = Len(games)
         /\ \A i \in 1..Len(games) : Facts(games'[i]) = Facts(games[i])
<1>1. games \in Seq(Game) /\ Len(games) \in Nat
  BY DEF TypeInv, TypeOK
<1>2. DOMAIN games' = 1..Len(games) /\ games' \in Seq(Game)
  BY SaveRecomputeType DEF SaveRecompute, SavedGames, TypeOK
<1>3. Len(games') = Len(games)
  BY <1>1, <1>2
<1>4. ASSUME NEW i \in 1..Len(games)
      PROVE  Facts(games'[i]) = Facts(games[i])
  <2>1. games[i] \in Game
    BY <1>1
  <2>2. \/ games'[i] = games[i]
        \/ games'[i] = [games[i] EXCEPT !.before = rep[q].out[i].before,
                                        !.after = rep[q].out[i].after]
    BY DEF SaveRecompute, SavedGames, Snapshot
  <2>3. QED
    BY <2>1, <2>2 DEF Facts, Game
<1>5. QED
  BY <1>3, <1>4

\* Three steps write to the tables.
LEMMA TableSteps ==
  ASSUME [Next]_vars
  PROVE  \/ UNCHANGED <<created, overall, grid, games>>
         \/ \E p \in Player : CreatePlayer(p)
         \/ \E r \in Recorder : CommitGame(r)
         \/ \E q \in Replayer : SaveRecompute(q)
<1>1. ASSUME NEW r \in Recorder, RecorderNext(r)
      PROVE  CommitGame(r) \/ UNCHANGED <<created, overall, grid, games>>
  BY <1>1 DEF RecorderNext, BeginRecord, ReadWhite, ReadBlackCat, ReadWhiteCat, ReadCat,
     AbandonRecord
<1>2. ASSUME NEW q \in Replayer, ReplayerNext(q)
      PROVE  SaveRecompute(q) \/ UNCHANGED <<created, overall, grid, games>>
  BY <1>2 DEF ReplayerNext, ListPlayers, ListGames, ReplayGame, AbandonRecompute
<1>3. ASSUME UNCHANGED vars PROVE UNCHANGED <<created, overall, grid, games>>
  BY <1>3 DEF vars
<1>4. QED
  BY <1>1, <1>2, <1>3 DEF Next

\* A recompute moves by its own steps.
LEMMA ReplayersStep ==
  ASSUME [Next]_vars
  PROVE  rep' = rep \/ \E q \in Replayer : ReplayerNext(q)
<1>1. ASSUME NEW r \in Recorder, RecorderNext(r) PROVE rep' = rep
  BY <1>1 DEF RecorderNext, BeginRecord, ReadWhite, ReadBlackCat, ReadWhiteCat, ReadCat,
     CommitGame, AbandonRecord
<1>2. ASSUME NEW p \in Player, CreatePlayer(p) PROVE rep' = rep
  BY <1>2 DEF CreatePlayer
<1>3. QED
  BY <1>1, <1>2 DEF Next, vars

\* Two steps write the table games.
LEMMA GameSteps ==
  ASSUME [Next]_vars
  PROVE  \/ games' = games
         \/ \E r \in Recorder : CommitGame(r)
         \/ \E q \in Replayer : SaveRecompute(q)
BY TableSteps DEF CreatePlayer

\* Every step only appends games and keeps the facts of those there are.
LEMMA NextAppends == TypeInv /\ [Next]_vars => Appends
<1> SUFFICES ASSUME TypeInv, [Next]_vars PROVE Appends
  OBVIOUS
<1>1. Len(games) \in Nat
  BY DEF TypeInv, TypeOK
<1>2. CASE games' = games
  BY <1>1, <1>2 DEF Appends
<1>3. ASSUME NEW r \in Recorder, CommitGame(r) PROVE Appends
  BY <1>1, <1>3, CommitAppends DEF Appends, Facts
<1>4. ASSUME NEW q \in Replayer, SaveRecompute(q) PROVE Appends
  BY <1>1, <1>4, SaveKeepsFacts DEF Appends
<1>5. QED
  BY <1>2, <1>3, <1>4, GameSteps

LEMMA NextTypeOK == TypeInv /\ [Next]_vars => TypeOK'
<1> SUFFICES ASSUME TypeInv, [Next]_vars PROVE TypeOK'
  OBVIOUS
<1>0. TypeOK
  BY DEF TypeInv
<1>1. ASSUME NEW p \in Player, CreatePlayer(p) PROVE TypeOK'
  BY <1>0, <1>1, CreatePlayerType
<1>2. ASSUME NEW r \in Recorder, RecorderNext(r) PROVE TypeOK'
  <2>1. ASSUME NEW g \in Group, NEW b \in Player, NEW w \in Player,
               NEW d \in Board, NEW o \in Result, BeginRecord(r, g, b, w, d, o)
        PROVE  TypeOK'
    BY <1>0, <2>1, BeginRecordType
  <2>2. CASE ReadWhite(r)
    BY <1>0, <2>2, ReadWhiteType
  <2>3. CASE ReadBlackCat(r)
    BY <1>0, <2>3, ReadCatType DEF ReadBlackCat, Side, RecPC
  <2>4. CASE ReadWhiteCat(r)
    BY <1>0, <2>4, ReadCatType DEF ReadWhiteCat, Side, RecPC
  <2>5. CASE CommitGame(r)
    BY <1>0, <2>5, CommitGameType
  <2>6. CASE AbandonRecord(r)
    BY <1>0, <2>6, AbandonRecordType
  <2>7. QED
    BY <1>2, <2>1, <2>2, <2>3, <2>4, <2>5, <2>6 DEF RecorderNext
<1>3. ASSUME NEW q \in Replayer, ReplayerNext(q) PROVE TypeOK'
  <2>1. ASSUME NEW g \in Group, ListPlayers(q, g) PROVE TypeOK'
    BY <1>0, <2>1, ListPlayersType
  <2>2. CASE ListGames(q)
    BY <1>0, <2>2, ListGamesType
  <2>3. CASE ReplayGame(q)
    BY <2>3, ReplayGameType
  <2>4. CASE SaveRecompute(q)
    BY <2>4, SaveRecomputeType
  <2>5. CASE AbandonRecompute(q)
    BY <1>0, <2>5, AbandonRecomputeType
  <2>6. QED
    BY <1>3, <2>1, <2>2, <2>3, <2>4, <2>5 DEF ReplayerNext
<1>4. CASE UNCHANGED vars
  BY <1>0, <1>4 DEF TypeOK, vars
<1>5. QED
  BY <1>1, <1>2, <1>3, <1>4 DEF Next

\* A step of q's own, or one that leaves q's replay alone.
LEMMA RepSteps ==
  ASSUME TypeInv, [Next]_vars, NEW q \in Replayer
  PROVE  \/ rep'[q] = rep[q]
         \/ rep'[q].pc # "replay"
         \/ ListGames(q)
         \/ ReplayGame(q)
<1> DEFINE Goal == \/ rep'[q] = rep[q]
                   \/ rep'[q].pc # "replay"
                   \/ ListGames(q)
                   \/ ReplayGame(q)
<1>0. rep \in [Replayer -> RepType]
  BY DEF TypeInv, TypeOK
<1>1. ASSUME NEW u \in Replayer, ReplayerNext(u) PROVE Goal
  <2>1. IdleRep.pc = "idle"
    BY DEF IdleRep
  <2>2. ASSUME NEW g \in Group, ListPlayers(u, g) PROVE Goal
    <3>1. rep'[u].pc = "listGames"
      BY <1>0, <2>2 DEF ListPlayers, IdleRep
    <3>2. u # q => rep'[q] = rep[q]
      BY <1>0, <2>2 DEF ListPlayers
    <3>3. QED
      BY <3>1, <3>2
  <2>3. CASE ListGames(u)
    BY <1>0, <2>3 DEF ListGames
  <2>4. CASE ReplayGame(u)
    BY <1>0, <2>4 DEF ReplayGame
  <2>5. CASE SaveRecompute(u)
    BY <1>0, <2>1, <2>5 DEF SaveRecompute
  <2>6. CASE AbandonRecompute(u)
    BY <1>0, <2>1, <2>6 DEF AbandonRecompute
  <2>7. QED
    BY <1>1, <2>2, <2>3, <2>4, <2>5, <2>6 DEF ReplayerNext
<1>2. CASE rep' = rep
  BY <1>2
<1>3. rep' = rep \/ \E u \in Replayer : ReplayerNext(u)
  BY ReplayersStep
<1>4. QED
  BY <1>1, <1>2, <1>3

LEMMA NextAligned == TypeInv /\ [Next]_vars => Aligned'
<1> SUFFICES ASSUME TypeInv, [Next]_vars, NEW q \in Replayer,
                    rep'[q].pc = "replay"
             PROVE  /\ rep'[q].n <= Len(games')
                    /\ Len(rep'[q].out) <= rep'[q].n
                    /\ \A i \in 1..Len(rep'[q].out) :
                         Facts(rep'[q].out[i]) = Facts(games'[i])
  BY DEF Aligned
<1>1. Appends
  BY NextAppends
<1>2. /\ rep[q] \in RepType
      /\ games \in Seq(Game)
      /\ Len(games) \in Nat
      /\ Len(games') \in Nat
      /\ rep \in [Replayer -> RepType]
  BY NextTypeOK DEF TypeInv, TypeOK
<1>3. /\ rep[q].n \in Nat
      /\ rep[q].out \in Seq(Game)
      /\ Len(rep[q].out) \in Nat
  BY <1>2 DEF RepType
<1>4. CASE rep'[q] = rep[q]
  <2>1. /\ rep[q].n <= Len(games)
        /\ Len(rep[q].out) <= rep[q].n
        /\ \A i \in 1..Len(rep[q].out) : Facts(rep[q].out[i]) = Facts(games[i])
    BY <1>4 DEF TypeInv, Aligned
  <2>2. rep[q].n <= Len(games')
    BY <1>1, <1>2, <1>3, <2>1 DEF Appends
  <2>3. \A i \in 1..Len(rep[q].out) : Facts(rep[q].out[i]) = Facts(games'[i])
    BY <1>1, <1>2, <1>3, <2>1 DEF Appends
  <2>4. QED
    BY <1>4, <2>1, <2>2, <2>3
<1>5. CASE ListGames(q)
  <2>1. /\ rep'[q].n = Len(games)
        /\ rep'[q].out = <<>>
        /\ games' = games
    BY <1>2, <1>5 DEF ListGames, IdleRep
  <2>2. QED
    BY <1>2, <2>1
<1>6. CASE ReplayGame(q)
  <2>1. games' = games
    BY <1>6 DEF ReplayGame
  <2>2. /\ rep[q].n <= Len(games)
        /\ Len(rep[q].out) + 1 <= rep[q].n
        /\ \A i \in 1..Len(rep[q].out) : Facts(rep[q].out[i]) = Facts(games[i])
    BY <1>3, <1>6 DEF ReplayGame, TypeInv, Aligned
  <2>3. PICK row : /\ rep'[q].out = Append(rep[q].out, row)
                   /\ rep'[q].n = rep[q].n
                   /\ Facts(row) = Facts(games[Len(rep[q].out) + 1])
    <3>1. rep'[q] = Replay(rep[q], games[Len(rep[q].out) + 1])
      BY <1>2, <1>6 DEF ReplayGame
    <3>2. games[Len(rep[q].out) + 1] \in Game
      BY <1>6, NextGame
    <3>3. QED
      BY <1>2, <3>1, <3>2, ReplayShape
  <2>4. QED
    BY <1>2, <1>3, <2>1, <2>2, <2>3
<1>7. QED
  BY <1>4, <1>5, <1>6, RepSteps

(***************************************************************************)
(* The state of the ledger keeps its types, and a running replay stays     *)
(* aligned with the table, for any number of requests and recomputes.      *)
(***************************************************************************)
THEOREM TypeCorrect == Spec => []TypeInv
<1>1. Init => TypeInv
  BY InitTypeOK DEF TypeInv, Aligned, Init, IdleRep
<1>2. TypeInv /\ [Next]_vars => TypeInv'
  BY NextTypeOK, NextAligned DEF TypeInv
<1>3. QED
  BY <1>1, <1>2, PTL DEF Spec

(***************************************************************************)
(* No game is ever lost, reordered or altered in its facts.                *)
(***************************************************************************)
THEOREM AppendOnly == Spec => GamesAppendOnly
<1>1. TypeInv /\ [Next]_vars => [Appends]_vars
  BY NextAppends
<1>2. QED
  BY <1>1, TypeCorrect, PTL DEF Spec, GamesAppendOnly

-----------------------------------------------------------------------------
(* Every row is a well-formed game, rated by one application of RateGame. *)

LEMMA RecSteps ==
  ASSUME TypeInv, [Next]_vars, NEW r \in Recorder
  PROVE  \/ rec'[r] = rec[r]
         \/ rec'[r].pc = "idle"
         \/ \E g \in Group, b, w \in Player, d \in Board, o \in Result :
              BeginRecord(r, g, b, w, d, o)
         \/ ReadWhite(r)
         \/ ReadBlackCat(r)
         \/ ReadWhiteCat(r)
<1> DEFINE Goal == \/ rec'[r] = rec[r]
                   \/ rec'[r].pc = "idle"
                   \/ \E g \in Group, b, w \in Player, d \in Board, o \in Result :
                        BeginRecord(r, g, b, w, d, o)
                   \/ ReadWhite(r)
                   \/ ReadBlackCat(r)
                   \/ ReadWhiteCat(r)
<1>0. rec \in [Recorder -> RecType]
  BY DEF TypeInv, TypeOK
<1>1. ASSUME NEW u \in Recorder, RecorderNext(u) PROVE Goal
  <2>1. CASE u = r
    <3>1. CASE CommitGame(r)
      BY <1>0, <3>1 DEF CommitGame, IdleRec
    <3>2. CASE AbandonRecord(r)
      BY <1>0, <3>2 DEF AbandonRecord, IdleRec
    <3>3. QED
      BY <1>1, <2>1, <3>1, <3>2 DEF RecorderNext
  <2>2. CASE u # r
    BY <1>0, <1>1, <2>2 DEF RecorderNext, BeginRecord, ReadWhite, ReadBlackCat,
       ReadWhiteCat, ReadCat, CommitGame, AbandonRecord
  <2>3. QED
    BY <2>1, <2>2
<1>2. CASE rec' = rec
  BY <1>2
<1>3. rec' = rec \/ \E u \in Recorder : RecorderNext(u)
  BY DEF Next, ReplayerNext, vars, CreatePlayer, ListPlayers, ListGames,
         ReplayGame, SaveRecompute, AbandonRecompute
<1>4. QED
  BY <1>1, <1>2, <1>3

\* Players are never deleted.
LEMMA CreatedGrows == [Next]_vars => created \subseteq created'
BY TableSteps DEF CreatePlayer, CommitGame, SaveRecompute

LEMMA NextRequestsChecked ==
  TypeInv /\ RequestsChecked /\ [Next]_vars => RequestsChecked'
<1> SUFFICES ASSUME TypeInv, RequestsChecked, [Next]_vars,
                    NEW r \in Recorder, rec'[r].pc # "idle"
             PROVE  /\ rec'[r].who["black"] # rec'[r].who["white"]
                    /\ rec'[r].who["black"] \in created'
                    /\ rec'[r].pc # "readWhite" =>
                         \A s \in Side : /\ rec'[r].who[s] \in created'
                                        /\ GroupOf[rec'[r].who[s]] = rec'[r].group
  BY DEF RequestsChecked
<1>0. /\ rec \in [Recorder -> RecType]
      /\ rec[r] \in RecType
      /\ created \subseteq created'
  BY CreatedGrows DEF TypeInv, TypeOK
<1>1. CASE rec'[r] = rec[r]
  BY <1>0, <1>1 DEF RequestsChecked
<1>2. ASSUME NEW g \in Group, NEW b \in Player, NEW w \in Player,
             NEW d \in Board, NEW o \in Result, BeginRecord(r, g, b, w, d, o)
      PROVE  /\ rec'[r].who["black"] # rec'[r].who["white"]
             /\ rec'[r].who["black"] \in created'
             /\ rec'[r].pc = "readWhite"
  <2>1. rec'[r] = [IdleRec EXCEPT !.pc = "readWhite", !.group = g,
          !.who = [s \in Side |-> IF s = "black" THEN b ELSE w],
          !.board = d, !.res = o,
          !.read = [IdleRec.read EXCEPT !["black"].overall = overall[b]]]
    BY <1>0, <1>2 DEF BeginRecord
  <2>2. rec'[r].who = [s \in Side |-> IF s = "black" THEN b ELSE w]
        /\ rec'[r].pc = "readWhite"
    BY <2>1 DEF IdleRec
  <2>3. b # w /\ b \in created
    BY <1>2 DEF BeginRecord
  <2>4. QED
    BY <1>0, <2>2, <2>3 DEF Side
<1>3. CASE ReadWhite(r)
  <2>1. PICK n : \/ rec' = [rec EXCEPT ![r] = IdleRec]
                 \/ /\ rec' = [rec EXCEPT ![r] = [rec[r] EXCEPT
                          !.pc = "readBlackCat", !.read["white"].overall = n]]
                    /\ rec[r].who["white"] \in created
                    /\ GroupOf[rec[r].who["black"]] = rec[r].group
                    /\ GroupOf[rec[r].who["white"]] = rec[r].group
    BY <1>3 DEF ReadWhite
  <2>2. CASE rec' = [rec EXCEPT ![r] = IdleRec]
    BY <1>0, <2>2 DEF IdleRec
  <2>3. CASE /\ rec' = [rec EXCEPT ![r] = [rec[r] EXCEPT
                          !.pc = "readBlackCat", !.read["white"].overall = n]]
             /\ rec[r].who["white"] \in created
             /\ GroupOf[rec[r].who["black"]] = rec[r].group
             /\ GroupOf[rec[r].who["white"]] = rec[r].group
    <3>1. rec'[r].who = rec[r].who /\ rec'[r].group = rec[r].group
      BY <1>0, <2>3 DEF RecType
    <3>2. /\ rec[r].who["black"] # rec[r].who["white"]
          /\ rec[r].who["black"] \in created
      BY <1>3 DEF ReadWhite, RequestsChecked
    <3>3. QED
      BY <1>0, <2>3, <3>1, <3>2 DEF Side
  <2>4. QED
    BY <2>1, <2>2, <2>3
<1>4. ASSUME NEW s \in Side, NEW from, NEW to, ReadCat(r, s, from, to),
             from \notin {"idle", "readWhite"}
      PROVE  /\ rec'[r].who["black"] # rec'[r].who["white"]
             /\ rec'[r].who["black"] \in created'
             /\ \A t \in Side : /\ rec'[r].who[t] \in created'
                                /\ GroupOf[rec'[r].who[t]] = rec'[r].group
  <2>1. rec'[r].who = rec[r].who /\ rec'[r].group = rec[r].group
    BY <1>0, <1>4 DEF ReadCat, RecType
  <2>2. /\ rec[r].who["black"] # rec[r].who["white"]
        /\ rec[r].who["black"] \in created
        /\ \A t \in Side : /\ rec[r].who[t] \in created
                           /\ GroupOf[rec[r].who[t]] = rec[r].group
    BY <1>4 DEF ReadCat, RequestsChecked
  <2>3. QED
    BY <1>0, <2>1, <2>2
<1>5. CASE ReadBlackCat(r)
  BY <1>4, <1>5 DEF ReadBlackCat, Side
<1>6. CASE ReadWhiteCat(r)
  BY <1>4, <1>6 DEF ReadWhiteCat, Side
<1>7. QED
  BY <1>1, <1>2, <1>3, <1>5, <1>6, RecSteps

LEMMA NextGamesWellFormed ==
  TypeInv /\ RequestsChecked /\ GamesWellFormed /\ [Next]_vars => GamesWellFormed'
<1> SUFFICES ASSUME TypeInv, RequestsChecked, GamesWellFormed, [Next]_vars,
                    NEW i \in 1..Len(games')
             PROVE  /\ games'[i].who["black"] # games'[i].who["white"]
                    /\ \A s \in Side : /\ games'[i].who[s] \in created'
                                       /\ GroupOf[games'[i].who[s]] = games'[i].group
  BY DEF GamesWellFormed
<1>0. /\ created \subseteq created'
      /\ games \in Seq(Game)
      /\ Len(games) \in Nat
      /\ Appends
  BY CreatedGrows, NextAppends DEF TypeInv, TypeOK
<1>1. CASE i \in 1..Len(games)
  <2>1. games'[i].who = games[i].who /\ games'[i].group = games[i].group
    BY <1>0, <1>1 DEF Appends, Facts
  <2>2. QED
    BY <1>0, <1>1, <2>1 DEF GamesWellFormed
<1>2. CASE i \notin 1..Len(games)
  <2>1. PICK r \in Recorder : CommitGame(r)
    <3>1. Len(games') # Len(games)
      BY <1>0, <1>2
    <3>2. \A q \in Replayer : ~SaveRecompute(q)
      BY <3>1, SaveKeepsFacts
    <3>3. QED
      BY <3>1, <3>2, GameSteps
  <2>2. i = Len(games) + 1
    BY <1>0, <1>2, <2>1, CommitAppends
  <2>3. games'[i].who = rec[r].who /\ games'[i].group = rec[r].group
    BY <1>0, <2>1, <2>2 DEF CommitGame
  <2>4. QED
    BY <1>0, <2>1, <2>3 DEF CommitGame, RequestsChecked
<1>3. QED
  BY <1>1, <1>2

LEMMA NextOutConsistent ==
  TypeInv /\ OutConsistent /\ RowsConsistent /\ [Next]_vars => OutConsistent'
<1> DEFINE OK(gm) == gm.after = RateGame(gm.before, gm.board, gm.res)
<1> SUFFICES ASSUME TypeInv, OutConsistent, RowsConsistent, [Next]_vars,
                    NEW q \in Replayer, rep'[q].pc = "replay",
                    NEW i \in 1..Len(rep'[q].out)
             PROVE  OK(rep'[q].out[i])
  BY DEF OutConsistent
<1>0. /\ rep \in [Replayer -> RepType]
      /\ rep[q] \in RepType
      /\ rep[q].out \in Seq(Game)
      /\ games \in Seq(Game)
  BY DEF TypeInv, TypeOK, RepType
<1>1. CASE rep'[q] = rep[q]
  BY <1>1 DEF OutConsistent
<1>2. CASE ListGames(q)
  <2>1. rep'[q].out = <<>>
    BY <1>0, <1>2 DEF ListGames, IdleRep
  <2>2. QED
    BY <2>1
<1>3. CASE ReplayGame(q)
  <2> DEFINE l == rep[q]
             n == Len(l.out) + 1
             gm == games[n]
             row == [gm EXCEPT !.before = Before(l, gm),
                       !.after = RateGame(Before(l, gm), gm.board, gm.res)]
  <2>1. gm \in Game /\ n \in 1..Len(games)
    BY <1>3, NextGame
  <2>2. rep'[q].out = Append(l.out, gm) \/ rep'[q].out = Append(l.out, row)
    <3> HIDE DEF gm
    <3>1. rep'[q] = Replay(l, gm)
      BY <1>0, <1>3 DEF ReplayGame, gm
    <3>2. QED
      BY <1>0, <3>1 DEF Replay, RepType
  <2>3. OK(gm) /\ OK(row)
    <3>1. OK(gm)
      BY <2>1 DEF RowsConsistent
    <3>2. OK(row)
      <4> HIDE DEF gm
      <4> QED
        BY <2>1 DEF Game
    <3>3. QED
      BY <3>1, <3>2
  <2>4. \A j \in 1..Len(l.out) : OK(l.out[j])
    BY <1>3 DEF OutConsistent, ReplayGame
  <2> HIDE DEF gm, row, OK
  <2>5. CASE i \in 1..Len(l.out)
    <3>1. \A x : Append(l.out, x)[i] = l.out[i]
      BY <1>0, <2>5
    <3>2. rep'[q].out[i] = l.out[i]
      BY <2>2, <3>1
    <3>3. QED
      BY <2>4, <2>5, <3>2
  <2>6. CASE i = n
    BY <1>0, <2>2, <2>3, <2>6
  <2>7. i \in 1..Len(l.out) \/ i = n
    BY <1>0, <2>2
  <2>8. QED
    BY <2>5, <2>6, <2>7
<1>4. QED
  <2> HIDE DEF OK
  <2> QED
    BY <1>1, <1>2, <1>3, RepSteps

LEMMA NextRowsConsistent ==
  TypeInv /\ OutConsistent /\ RowsConsistent /\ [Next]_vars => RowsConsistent'
<1> DEFINE OK(gm) == gm.after = RateGame(gm.before, gm.board, gm.res)
<1> SUFFICES ASSUME TypeInv, OutConsistent, RowsConsistent, [Next]_vars,
                    NEW i \in 1..Len(games')
             PROVE  OK(games'[i])
  BY DEF RowsConsistent
<1>0. games \in Seq(Game) /\ Len(games) \in Nat
  BY DEF TypeInv, TypeOK
<1>1. CASE games' = games
  BY <1>1 DEF RowsConsistent
<1>2. ASSUME NEW r \in Recorder, CommitGame(r) PROVE OK(games'[i])
  <2>1. CASE i \in 1..Len(games)
    <3>1. games'[i] = games[i]
      BY <1>2, <2>1, CommitAppends
    <3>2. QED
      BY <2>1, <3>1 DEF RowsConsistent
  <2>2. CASE i = Len(games) + 1
    <3> DEFINE q == rec[r]
               new == [group |-> q.group, who |-> q.who, board |-> q.board,
                       res |-> q.res, before |-> q.read,
                       after |-> RateGame(q.read, q.board, q.res)]
    <3>1. games' = Append(games, new)
      BY <1>2 DEF CommitGame
    <3> HIDE DEF new
    <3>2. games'[i] = new
      BY <1>0, <2>2, <3>1
    <3>3. OK(new)
      BY DEF new
    <3>4. QED
      BY <3>2, <3>3
  <2>3. QED
    BY <1>0, <1>2, <2>1, <2>2, CommitAppends
<1>3. ASSUME NEW q \in Replayer, SaveRecompute(q) PROVE OK(games'[i])
  <2> DEFINE l == rep[q]
             row == [games[i] EXCEPT !.before = l.out[i].before,
                                     !.after = l.out[i].after]
  <2>1. i \in 1..Len(games) /\ games[i] \in Game
    BY <1>0, <1>3, SaveKeepsFacts
  <2>2. CASE games'[i] = games[i]
    BY <2>1, <2>2 DEF RowsConsistent
  <2>3. CASE games'[i] = row /\ i <= l.n
    <3>0. Len(l.out) = l.n /\ l.n \in Nat
      BY <1>3 DEF SaveRecompute, TypeInv, TypeOK, RepType
    <3>1. i \in 1..Len(l.out)
      BY <1>0, <2>1, <2>3, <3>0
    <3>2. l.pc = "replay" /\ Facts(l.out[i]) = Facts(games[i])
      BY <1>3, <3>1 DEF SaveRecompute, TypeInv, Aligned
    <3>3. OK(l.out[i])
      BY <3>1, <3>2 DEF OutConsistent
    <3>4. l.out[i].board = games[i].board /\ l.out[i].res = games[i].res
      BY <3>2 DEF Facts
    <3>5. /\ row.board = games[i].board /\ row.res = games[i].res
          /\ row.before = l.out[i].before /\ row.after = l.out[i].after
      BY <2>1 DEF Game
    <3>6. QED
      BY <2>3, <3>3, <3>4, <3>5
  <2>4. QED
    BY <1>3, <2>1, <2>2, <2>3 DEF SaveRecompute, SavedGames, Snapshot
<1>4. QED
  BY <1>1, <1>2, <1>3, GameSteps

LEMMA RowInvariant == Spec => []RowInv
<1>1. Init => RowInv
  <2> SUFFICES ASSUME Init PROVE RowInv
    OBVIOUS
  <2>1. TypeInv
    BY InitTypeOK DEF TypeInv, Aligned, Init, IdleRep
  <2>2. RequestsChecked /\ OutConsistent
    BY DEF Init, RequestsChecked, OutConsistent, IdleRec, IdleRep
  <2>3. Len(games) = 0
    BY DEF Init
  <2>4. GamesWellFormed /\ RowsConsistent
    BY <2>3 DEF GamesWellFormed, RowsConsistent
  <2>5. QED
    BY <2>1, <2>2, <2>4 DEF RowInv
<1>2. RowInv /\ [Next]_vars => RowInv'
  BY NextTypeOK, NextAligned, NextRequestsChecked, NextGamesWellFormed,
     NextOutConsistent, NextRowsConsistent DEF RowInv, TypeInv
<1>3. QED
  BY <1>1, <1>2, PTL DEF Spec

(***************************************************************************)
(* Every game is between two different players of its group, who exist.    *)
(***************************************************************************)
THEOREM WellFormed == Spec => []GamesWellFormed
<1>1. RowInv => GamesWellFormed
  BY DEF RowInv
<1>2. QED
  BY <1>1, RowInvariant, PTL

(***************************************************************************)
(* Every row of games is one application of RateGame, under every          *)
(* interleaving of requests and recomputes.                                *)
(***************************************************************************)
THEOREM Consistent == Spec => []RowsConsistent
<1>1. RowInv => RowsConsistent
  BY DEF RowInv
<1>2. QED
  BY <1>1, RowInvariant, PTL

-----------------------------------------------------------------------------
(* The stored ratings and the games. *)

\* Standing looks only at the first n games.
LEMMA StandingPrefix ==
  ASSUME NEW gs, NEW hs, NEW n \in Nat, \A j \in 1..n : gs[j] = hs[j],
         NEW p, NEW c, NEW e0, NEW e, Standing(gs, n, p, c, e0, e)
  PROVE  Standing(hs, n, p, c, e0, e)
  BY DEF Standing

\* A game p does not play in category c leaves p's standing there.
LEMMA StandingKept ==
  ASSUME NEW gs, NEW n \in Nat, NEW p, NEW c, NEW e0, NEW e,
         Standing(gs, n, p, c, e0, e), ~Plays(gs[n+1], p, c)
  PROVE  Standing(gs, n+1, p, c, e0, e)
<1>1. CASE (\A j \in 1..n : ~Plays(gs[j], p, c)) /\ e = e0
  <2>1. \A j \in 1..(n+1) : j \in 1..n \/ j = n+1
    OBVIOUS
  <2>2. QED
    BY <1>1, <2>1 DEF Standing
<1>2. ASSUME NEW j \in 1..n, Plays(gs[j], p, c), e = After(gs[j], p, c),
             \A k \in (j+1)..n : ~Plays(gs[k], p, c)
      PROVE  Standing(gs, n+1, p, c, e0, e)
  <2>1. \A k \in (j+1)..(n+1) : k \in (j+1)..n \/ k = n+1
    OBVIOUS
  <2>2. j \in 1..(n+1)
    OBVIOUS
  <2>3. QED
    BY <1>2, <2>1, <2>2 DEF Standing
<1>3. QED
  BY <1>1, <1>2 DEF Standing

\* A game p plays in category c is p's standing there.
LEMMA StandingMoved ==
  ASSUME NEW gs, NEW n \in Nat, NEW p, NEW c, NEW e0, Plays(gs[n+1], p, c)
  PROVE  Standing(gs, n+1, p, c, e0, After(gs[n+1], p, c))
<1>1. n+1 \in 1..(n+1) /\ (n+1+1)..(n+1) = {}
  OBVIOUS
<1>2. QED
  BY <1>1 DEF Standing

\* Who has played no game stands at the seed.
LEMMA StandingSeed ==
  ASSUME NEW gs, NEW n \in Nat, NEW p, NEW c, NEW e0, NEW e,
         Standing(gs, n, p, c, e0, e), \A j \in 1..n : ~InGame(gs[j], p)
  PROVE  e = e0
  BY DEF Standing, Plays

\* A player's standing is one state.
LEMMA StandingUnique ==
  ASSUME NEW gs, NEW n \in Nat, NEW p, NEW c, NEW e0, NEW e, NEW f,
         Standing(gs, n, p, c, e0, e), Standing(gs, n, p, c, e0, f)
  PROVE  e = f
<1>1. CASE \A j \in 1..n : ~Plays(gs[j], p, c)
  BY <1>1 DEF Standing
<1>2. CASE \E j \in 1..n : Plays(gs[j], p, c)
  <2>1. PICK j \in 1..n : /\ Plays(gs[j], p, c) /\ e = After(gs[j], p, c)
                          /\ \A k \in (j+1)..n : ~Plays(gs[k], p, c)
    BY <1>2 DEF Standing
  <2>2. PICK i \in 1..n : /\ Plays(gs[i], p, c) /\ f = After(gs[i], p, c)
                          /\ \A k \in (i+1)..n : ~Plays(gs[k], p, c)
    BY <1>2 DEF Standing
  <2>3. i = j
    <3>1. ~(j < i)
      BY <2>1, <2>2
    <3>2. ~(i < j)
      BY <2>1, <2>2
    <3>3. QED
      BY <3>1, <3>2
  <2>4. QED
    BY <2>1, <2>2, <2>3
<1>3. QED
  BY <1>1, <1>2

-----------------------------------------------------------------------------
(* Requests only: a player's rating is what his last game left. *)

AllStand ==
  \A p \in Player, c \in Category :
    Standing(games, Len(games), p, c, Seed[p], Stored(p, c))

LEMMA CommitStands ==
  ASSUME TypeInv, AllStand, NEW r \in Recorder, CommitGame(r)
  PROVE  AllStand'
<1> SUFFICES ASSUME NEW p \in Player, NEW c \in Category
             PROVE  Standing(games', Len(games'), p, c, Seed[p], Stored(p, c)')
  BY DEF AllStand
<1> DEFINE n == Len(games)
           q == rec[r]
           af == RateGame(q.read, q.board, q.res)
           gm == games'[n+1]
<1>1. /\ games \in Seq(Game)
      /\ n \in Nat
      /\ Len(games') = n + 1
      /\ \A j \in 1..n : games[j] = games'[j]
  BY CommitAppends DEF TypeInv, TypeOK
<1>2. gm.who = q.who /\ gm.board = q.board /\ gm.after = af
  BY <1>1 DEF CommitGame
<1>3. Standing(games', n, p, c, Seed[p], Stored(p, c))
  <2>1. Standing(games, n, p, c, Seed[p], Stored(p, c))
    BY DEF AllStand
  <2>2. QED
    BY <1>1, <2>1, StandingPrefix
<1> HIDE DEF gm, af
<1>4. CASE ~Plays(gm, p, c)
  <2>1. Stored(p, c)' = Stored(p, c)
    <3>1. CASE c = Overall
      <4>1. ~InGame(q, p)
        BY <1>2, <1>4, <3>1 DEF Plays, InGame
      <4>2. overall'[p] = overall[p]
        BY <4>1 DEF CommitGame, WriteOverall
      <4>3. QED
        BY <3>1, <4>2 DEF Stored
    <3>2. CASE c # Overall
      <4>1. c \in Board
        BY <3>2 DEF Category
      <4>2. ~(c = q.board /\ InGame(q, p))
        BY <1>2, <1>4 DEF Plays, InGame
      <4>3. grid'[p][c] = grid[p][c]
        BY <4>1, <4>2 DEF CommitGame, UpsertCategory
      <4>4. QED
        BY <3>2, <4>3 DEF Stored
    <3>3. QED
      BY <3>1, <3>2
  <2>2. Standing(games', n+1, p, c, Seed[p], Stored(p, c))
    BY <1>1, <1>3, <1>4, StandingKept DEF gm
  <2>3. QED
    BY <1>1, <2>1, <2>2
<1>5. CASE Plays(gm, p, c)
  <2>1. InGame(q, p) /\ (c = Overall \/ c = q.board)
    BY <1>2, <1>5 DEF Plays, InGame
  <2>2. SideOf(gm, p) = SideOf(q, p)
    BY <1>2 DEF SideOf
  <2>3. Stored(p, c)' = After(gm, p, c)
    <3>1. CASE c = Overall
      <4>1. overall'[p] = af[SideOf(q, p)].overall
        BY <2>1 DEF CommitGame, WriteOverall, af
      <4>2. QED
        BY <1>2, <2>2, <3>1, <4>1 DEF Stored, After, Part
    <3>2. CASE c # Overall
      <4>1. c \in Board /\ c = q.board
        BY <2>1, <3>2 DEF Category
      <4>2. grid'[p][c].state = af[SideOf(q, p)].cat
        BY <2>1, <4>1 DEF CommitGame, UpsertCategory, af
      <4>3. QED
        BY <1>2, <2>2, <3>2, <4>2 DEF Stored, After, Part
    <3>3. QED
      BY <3>1, <3>2
  <2>4. Standing(games', n+1, p, c, Seed[p], After(gm, p, c))
    BY <1>1, <1>5, StandingMoved DEF gm
  <2>5. QED
    BY <1>1, <2>3, <2>4
<1>6. QED
  BY <1>4, <1>5

LEMMA CreateStands ==
  ASSUME TypeInv, GamesWellFormed, AllStand, NEW p \in Player, CreatePlayer(p)
  PROVE  AllStand'
<1>1. games' = games /\ grid' = grid /\ Len(games) \in Nat
  BY DEF CreatePlayer, TypeInv, TypeOK
<1>2. \A j \in 1..Len(games) : ~InGame(games[j], p)
  BY DEF GamesWellFormed, CreatePlayer, InGame
<1>3. overall[p] = Seed[p]
  <2>1. Standing(games, Len(games), p, Overall, Seed[p], overall[p])
    BY DEF AllStand, Category, Stored
  <2>2. QED
    BY <1>1, <1>2, <2>1, StandingSeed
<1>4. overall' = overall
  BY <1>3 DEF CreatePlayer, TypeInv, TypeOK
<1>5. \A u \in Player, c \in Category : Stored(u, c)' = Stored(u, c)
  BY <1>1, <1>4 DEF Stored
<1>6. QED
  BY <1>1, <1>5 DEF AllStand

LEMMA NextStands ==
  Replayer = {} /\ RowInv /\ AllStand /\ [Next]_vars => AllStand'
<1> SUFFICES ASSUME Replayer = {}, RowInv, AllStand, [Next]_vars PROVE AllStand'
  OBVIOUS
<1>1. CASE UNCHANGED <<overall, grid, games>>
  BY <1>1 DEF AllStand, Stored
<1>2. ASSUME NEW p \in Player, CreatePlayer(p) PROVE AllStand'
  BY <1>2, CreateStands DEF RowInv
<1>3. ASSUME NEW r \in Recorder, CommitGame(r) PROVE AllStand'
  BY <1>3, CommitStands DEF RowInv
<1>4. QED
  BY <1>1, <1>2, <1>3, TableSteps

LEMMA InitStands == Init => AllStand
<1> SUFFICES ASSUME Init, NEW p \in Player, NEW c \in Category
             PROVE  Standing(games, Len(games), p, c, Seed[p], Stored(p, c))
  BY DEF AllStand
<1>1. Stored(p, c) = Seed[p]
  BY DEF Init, Stored, Category, NoRow
<1>2. Len(games) = 0
  BY DEF Init
<1>3. QED
  BY <1>1, <1>2 DEF Standing

(***************************************************************************)
(* With requests only, however many run and interleave, each player's      *)
(* overall and board rating is the after-rating of his last game on it.    *)
(***************************************************************************)
THEOREM LastGame == Spec => []RatingIsLastGame
<1>1. CASE Replayer = {}
  <2>1. Init => AllStand
    BY InitStands
  <2>2. RowInv /\ AllStand /\ [Next]_vars => AllStand'
    BY <1>1, NextStands
  <2>3. AllStand => RatingIsLastGame
    BY DEF AllStand, RatingIsLastGame
  <2>4. QED
    BY <2>1, <2>2, <2>3, RowInvariant, PTL DEF Spec
<1>2. CASE Replayer # {}
  <2>1. RatingIsLastGame
    BY <1>2 DEF RatingIsLastGame
  <2>2. QED
    BY <2>1, PTL
<1>3. QED
  BY <1>1, <1>2

-----------------------------------------------------------------------------
(* Requests only: what a request has read was once the player's rating. *)

Held(gs, p, c, e) == \E m \in 0..Len(gs) : Standing(gs, m, p, c, Seed[p], e)

LocalReadsHeld(gs, l) ==
  LET b == l.who["black"]
      w == l.who["white"]
  IN  /\ l.pc # "idle" => Held(gs, b, Overall, l.read["black"].overall)
      /\ l.pc \in {"readBlackCat", "readWhiteCat", "commit"} =>
           Held(gs, w, Overall, l.read["white"].overall)
      /\ l.pc \in {"readWhiteCat", "commit"} => Held(gs, b, l.board, l.read["black"].cat)
      /\ l.pc = "commit" => Held(gs, w, l.board, l.read["white"].cat)

ReadsHeld == \A r \in Recorder : LocalReadsHeld(games, rec[r])

BeforeHeld ==
  \A i \in 1..Len(games), s \in Side :
    LET p == games[i].who[s]
    IN  \A c \in {Overall, games[i].board} :
          \E m \in 0..(i-1) :
            Standing(games, m, p, c, Seed[p], Part(games[i].before[s], c))

\* A rating that is stored is held.
LEMMA StoredHeld ==
  ASSUME TypeInv, AllStand, NEW p \in Player, NEW c \in Category
  PROVE  Held(games, p, c, Stored(p, c))
<1>1. Len(games) \in Nat
  BY DEF TypeInv, TypeOK
<1>2. QED
  BY <1>1 DEF AllStand, Held

\* The seed was everybody's rating before the first game.
LEMMA SeedHeld ==
  ASSUME TypeInv, NEW p, NEW c PROVE Held(games, p, c, Seed[p])
<1>1. Len(games) \in Nat
  BY DEF TypeInv, TypeOK
<1>2. Standing(games, 0, p, c, Seed[p], Seed[p])
  BY DEF Standing
<1>3. QED
  BY <1>1, <1>2 DEF Held

LEMMA HeldStays ==
  ASSUME TypeInv, Replayer = {}, [Next]_vars, NEW p, NEW c, NEW e, Held(games, p, c, e)
  PROVE  Held(games', p, c, e)
<1>1. Len(games) \in Nat
  BY DEF TypeInv, TypeOK
<1>2. PICK m \in 0..Len(games) : Standing(games, m, p, c, Seed[p], e)
  BY DEF Held
<1>3. Len(games') >= Len(games) /\ \A j \in 1..Len(games) : games'[j] = games[j]
  BY <1>1, GameSteps, CommitAppends
<1>4. Len(games') \in Nat
  BY NextTypeOK DEF TypeOK
<1>5. Standing(games', m, p, c, Seed[p], e)
  <2>1. m \in Nat /\ \A j \in 1..m : games[j] = games'[j]
    BY <1>1, <1>3
  <2>2. QED
    BY <1>2, <2>1, StandingPrefix
<1>6. m \in 0..Len(games')
  BY <1>1, <1>3, <1>4
<1>7. QED
  BY <1>5, <1>6 DEF Held

LEMMA BeginReadsHeld ==
  ASSUME TypeInv, AllStand, NEW r \in Recorder, NEW g \in Group, NEW b \in Player,
         NEW w \in Player, NEW d \in Board, NEW o \in Result,
         BeginRecord(r, g, b, w, d, o)
  PROVE  LocalReadsHeld(games, rec'[r])
<1> DEFINE read == [IdleRec.read EXCEPT !["black"].overall = overall[b]]
           who == [s \in Side |-> IF s = "black" THEN b ELSE w]
           l == rec'[r]
<1>1. l = [IdleRec EXCEPT !.pc = "readWhite", !.group = g, !.who = who,
                          !.board = d, !.res = o, !.read = read]
  BY DEF BeginRecord, TypeInv, TypeOK
<1>2. IdleRec.read \in [Side -> Pair] /\ IdleRec \in RecType
  BY IdleRecType DEF RecType
<1>3. l.pc = "readWhite" /\ l.who = who /\ l.read = read
  <2> HIDE DEF read, who
  <2>1. QED BY <1>1, <1>2 DEF RecType
<1>4. who["black"] = b /\ read["black"].overall = overall[b]
  BY <1>2 DEF Side, Pair
<1>5. Held(games, b, Overall, overall[b])
  BY StoredHeld DEF Stored, Category
<1> HIDE DEF read, who, l
<1>6. QED
  BY <1>3, <1>4, <1>5 DEF LocalReadsHeld, l

LEMMA ReadWhiteHeld ==
  ASSUME TypeInv, AllStand, ReadsHeld, NEW r \in Recorder, ReadWhite(r),
         rec'[r].pc # "idle"
  PROVE  LocalReadsHeld(games, rec'[r])
<1> DEFINE l == rec[r]
           w == l.who["white"]
           n == rec'[r]
<1>1. l \in RecType /\ l.pc = "readWhite" /\ LocalReadsHeld(games, l)
  BY DEF TypeInv, TypeOK, ReadsHeld, ReadWhite
<1>2. n = [l EXCEPT !.pc = "readBlackCat", !.read["white"].overall = overall[w]]
  BY DEF ReadWhite, TypeInv, TypeOK, IdleRec
<1>3. /\ n.pc = "readBlackCat" /\ n.who = l.who
      /\ n.read["black"] = l.read["black"]
      /\ n.read["white"].overall = overall[w]
  BY <1>1, <1>2 DEF RecType, Side, Pair
<1>4. w \in Player
  BY <1>1 DEF RecType, Side
<1> HIDE DEF w, n, l
<1>5. Held(games, w, Overall, overall[w])
  BY <1>4, StoredHeld DEF Stored, Category
<1>6. QED
  BY <1>1, <1>3, <1>5 DEF LocalReadsHeld, w, n

\* Also a read that failed reads a rating that was held.
LEMMA CategoryHeld ==
  ASSUME TypeInv, AllStand, NEW p \in Player, NEW d \in Board, NEW row \in CategoryReads(p, d)
  PROVE  Held(games, p, d, row.state)
<1>1. row = grid[p][d] \/ row = NoRow(p)
  BY DEF CategoryReads
<1>2. CASE row = grid[p][d]
  <2>1. d # Overall /\ d \in Category
    BY LedgerAssumption DEF Category
  <2>2. QED
    BY <1>2, <2>1, StoredHeld DEF Stored
<1>3. CASE row = NoRow(p)
  BY <1>3, SeedHeld DEF NoRow
<1>4. QED
  BY <1>1, <1>2, <1>3

LEMMA ReadCatHeld ==
  ASSUME TypeInv, AllStand, ReadsHeld, NEW r \in Recorder,
         ReadBlackCat(r) \/ ReadWhiteCat(r)
  PROVE  LocalReadsHeld(games, rec'[r])
<1> DEFINE l == rec[r]
           n == rec'[r]
<1>1. PICK s \in Side, to \in RecPC :
        /\ ReadCat(r, s, l.pc, to)
        /\ \/ s = "black" /\ l.pc = "readBlackCat" /\ to = "readWhiteCat"
           \/ s = "white" /\ l.pc = "readWhiteCat" /\ to = "commit"
  BY DEF ReadBlackCat, ReadWhiteCat, ReadCat, Side, RecPC
<1>2. l \in RecType /\ LocalReadsHeld(games, l)
  BY DEF TypeInv, TypeOK, ReadsHeld
<1>3. PICK row \in CategoryReads(l.who[s], l.board) :
        n = [l EXCEPT !.pc = to, !.read[s].cat = row.state, !.count[s] = row.games]
  BY <1>1 DEF ReadCat, TypeInv, TypeOK
<1>4. l.who[s] \in Player /\ l.board \in Board
  BY <1>2 DEF RecType
<1>5. Held(games, l.who[s], l.board, row.state)
  BY <1>4, CategoryHeld
<1>6. /\ n.pc = to /\ n.who = l.who /\ n.board = l.board
      /\ n.read[s].cat = row.state
      /\ \A t \in Side : n.read[t].overall = l.read[t].overall
      /\ \A t \in Side : t # s => n.read[t].cat = l.read[t].cat
  BY <1>2, <1>3 DEF RecType, Pair
<1> HIDE DEF n, l
<1>7. LocalReadsHeld(games, n)
  BY <1>1, <1>2, <1>5, <1>6 DEF LocalReadsHeld, Side
<1>8. QED
  BY <1>7 DEF n

LEMMA NextReadsHeld ==
  ASSUME Replayer = {}, TypeInv, AllStand, ReadsHeld, [Next]_vars
  PROVE  ReadsHeld'
<1> SUFFICES ASSUME NEW r \in Recorder PROVE LocalReadsHeld(games', rec'[r])
  BY DEF ReadsHeld
<1>1. LocalReadsHeld(games, rec'[r])
  <2>1. CASE rec'[r] = rec[r]
    BY <2>1 DEF ReadsHeld
  <2>2. CASE rec'[r].pc = "idle"
    BY <2>2 DEF LocalReadsHeld
  <2>3. QED
    BY <2>1, <2>2, RecSteps, BeginReadsHeld, ReadWhiteHeld, ReadCatHeld
<1>2. QED
  BY <1>1, HeldStays DEF LocalReadsHeld

LEMMA CommitBeforeHeld ==
  ASSUME TypeInv, ReadsHeld, BeforeHeld, NEW r \in Recorder, CommitGame(r)
  PROVE  BeforeHeld'
<1> DEFINE q == rec[r]
           n == Len(games)
<1>1. /\ n \in Nat /\ Len(games') = n + 1
      /\ \A j \in 1..n : games'[j] = games[j]
  BY CommitAppends DEF TypeInv, TypeOK
<1>2. games'[n+1].who = q.who /\ games'[n+1].board = q.board /\ games'[n+1].before = q.read
  BY DEF CommitGame, TypeInv, TypeOK
<1>3. q.pc = "commit" /\ q.board # Overall /\ LocalReadsHeld(games, q)
  BY LedgerAssumption DEF CommitGame, ReadsHeld, TypeInv, TypeOK, RecType
<1> SUFFICES ASSUME NEW i \in 1..Len(games'), NEW s \in Side,
                    NEW c \in {Overall, games'[i].board}
             PROVE  \E m \in 0..(i-1) :
                      Standing(games', m, games'[i].who[s], c, Seed[games'[i].who[s]],
                               Part(games'[i].before[s], c))
  BY DEF BeforeHeld
<1>4. CASE i \in 1..n
  <2>1. games'[i] = games[i]
    BY <1>1, <1>4
  <2>2. PICK m \in 0..(i-1) :
          Standing(games, m, games[i].who[s], c, Seed[games[i].who[s]],
                   Part(games[i].before[s], c))
    BY <1>4, <2>1 DEF BeforeHeld
  <2>3. m \in Nat /\ \A j \in 1..m : games[j] = games'[j]
    BY <1>1, <1>4
  <2>4. Standing(games', m, games[i].who[s], c, Seed[games[i].who[s]],
                 Part(games[i].before[s], c))
    BY <2>2, <2>3, StandingPrefix
  <2>5. QED
    BY <2>1, <2>4
<1>5. CASE i = n + 1
  <2>1. Held(games, q.who[s], c, Part(q.read[s], c))
    BY <1>2, <1>3, <1>5 DEF LocalReadsHeld, Part, Side
  <2>2. PICK m \in 0..n : Standing(games, m, q.who[s], c, Seed[q.who[s]], Part(q.read[s], c))
    BY <2>1 DEF Held
  <2>3. m \in Nat /\ m \in 0..(i-1) /\ \A j \in 1..m : games[j] = games'[j]
    BY <1>1, <1>5
  <2>4. QED
    BY <1>2, <1>5, <2>2, <2>3, StandingPrefix
<1>6. QED
  BY <1>1, <1>4, <1>5

(***************************************************************************)
(* With requests only, the ratings a game starts from are ratings its      *)
(* players had at some moment before it, also when reads of a category     *)
(* fail (Service.RecordGame, loadCategory).                                *)
(***************************************************************************)
THEOREM HeldBefore == Spec => []BeforeWasHeld
<1>1. CASE Replayer = {}
  <2> DEFINE Inv == AllStand /\ ReadsHeld /\ BeforeHeld
  <2>1. Init => Inv
    <3>1. Init => ReadsHeld
      BY DEF Init, ReadsHeld, LocalReadsHeld, IdleRec
    <3>2. Init => BeforeHeld
      <4>1. Init => Len(games) = 0
        BY DEF Init
      <4>2. QED
        BY <4>1 DEF BeforeHeld
    <3>3. QED
      BY <3>1, <3>2, InitStands
  <2>2. RowInv /\ Inv /\ [Next]_vars => Inv'
    <3> SUFFICES ASSUME RowInv, Inv, [Next]_vars PROVE Inv'
      OBVIOUS
    <3>1. AllStand' /\ ReadsHeld'
      BY <1>1, NextStands, NextReadsHeld DEF RowInv
    <3>2. BeforeHeld'
      <4>1. CASE games' = games
        BY <4>1 DEF BeforeHeld
      <4>2. QED
        BY <1>1, <4>1, GameSteps, CommitBeforeHeld DEF RowInv
    <3>3. QED
      BY <3>1, <3>2
  <2>3. Inv => BeforeWasHeld
    BY DEF BeforeHeld, BeforeWasHeld
  <2>4. QED
    BY <2>1, <2>2, <2>3, RowInvariant, PTL DEF Spec
<1>2. CASE Replayer # {}
  <2>1. BeforeWasHeld
    BY <1>2 DEF BeforeWasHeld
  <2>2. QED
    BY <2>1, PTL
<1>3. QED
  BY <1>1, <1>2

-----------------------------------------------------------------------------
(* The replay: its ratings are the standings of the rows it has rated. *)

\* Two tables in which p plays the same games, with the same ratings after them.
LEMMA StandingAgree ==
  ASSUME NEW gs, NEW hs, NEW n \in Nat, NEW p, NEW c, NEW e0, NEW e,
         \A j \in 1..n : /\ Plays(hs[j], p, c) <=> Plays(gs[j], p, c)
                         /\ Plays(gs[j], p, c) => After(hs[j], p, c) = After(gs[j], p, c),
         Standing(gs, n, p, c, e0, e)
  PROVE  Standing(hs, n, p, c, e0, e)
<1>1. CASE (\A j \in 1..n : ~Plays(gs[j], p, c)) /\ e = e0
  BY <1>1 DEF Standing
<1>2. ASSUME NEW j \in 1..n, Plays(gs[j], p, c), e = After(gs[j], p, c),
             \A k \in (j+1)..n : ~Plays(gs[k], p, c)
      PROVE  Standing(hs, n, p, c, e0, e)
  <2>1. \A k \in (j+1)..n : k \in 1..n
    OBVIOUS
  <2>2. QED
    BY <1>2, <2>1 DEF Standing
<1>3. QED
  BY <1>1, <1>2 DEF Standing

\* Games of others change nothing.
LEMMA StandingExtend ==
  ASSUME NEW gs, NEW n \in Nat, NEW m \in Nat, n <= m, NEW p, NEW c, NEW e0, NEW e,
         \A k \in (n+1)..m : ~Plays(gs[k], p, c), Standing(gs, n, p, c, e0, e)
  PROVE  Standing(gs, m, p, c, e0, e)
<1>1. CASE (\A j \in 1..n : ~Plays(gs[j], p, c)) /\ e = e0
  <2>1. \A j \in 1..m : j \in 1..n \/ j \in (n+1)..m
    OBVIOUS
  <2>2. QED
    BY <1>1, <2>1 DEF Standing
<1>2. ASSUME NEW j \in 1..n, Plays(gs[j], p, c), e = After(gs[j], p, c),
             \A k \in (j+1)..n : ~Plays(gs[k], p, c)
      PROVE  Standing(gs, m, p, c, e0, e)
  <2>1. \A k \in (j+1)..m : k \in (j+1)..n \/ k \in (n+1)..m
    OBVIOUS
  <2>2. j \in 1..m
    OBVIOUS
  <2>3. QED
    BY <1>2, <2>1, <2>2 DEF Standing
<1>3. QED
  BY <1>1, <1>2 DEF Standing

LEMMA GamesOnFinite ==
  ASSUME NEW gs, NEW n \in Nat, NEW p, NEW d
  PROVE  /\ IsFiniteSet(GamesOn(gs, n, p, d))
         /\ Cardinality(GamesOn(gs, n, p, d)) \in Nat
<1>1. IsFiniteSet(1..n)
  BY FS_Interval
<1>2. GamesOn(gs, n, p, d) \subseteq 1..n
  BY DEF GamesOn
<1>3. QED
  BY <1>1, <1>2, FS_Subset, FS_CardinalityType

\* One game more is counted if it is p's and on the board.
LEMMA GamesOnNext ==
  ASSUME NEW gs, NEW n \in Nat, NEW p, NEW d
  PROVE  /\ Plays(gs[n+1], p, d) =>
              Cardinality(GamesOn(gs, n+1, p, d)) = Cardinality(GamesOn(gs, n, p, d)) + 1
         /\ ~Plays(gs[n+1], p, d) =>
              Cardinality(GamesOn(gs, n+1, p, d)) = Cardinality(GamesOn(gs, n, p, d))
<1> DEFINE A == GamesOn(gs, n, p, d)
<1>1. \A j \in 1..(n+1) : j \in 1..n \/ j = n+1
  OBVIOUS
<1>2. IsFiniteSet(A) /\ n+1 \notin A
  BY GamesOnFinite DEF GamesOn
<1>3. ASSUME Plays(gs[n+1], p, d)
      PROVE  Cardinality(GamesOn(gs, n+1, p, d)) = Cardinality(A) + 1
  <2>1. GamesOn(gs, n+1, p, d) = A \cup {n+1}
    BY <1>1, <1>3 DEF GamesOn
  <2> HIDE DEF A
  <2>2. QED
    BY <1>2, <2>1, FS_AddElement
<1>4. ASSUME ~Plays(gs[n+1], p, d)
      PROVE  GamesOn(gs, n+1, p, d) = A
  BY <1>1, <1>4 DEF GamesOn
<1>5. QED
  BY <1>3, <1>4

\* The count is of the games that are there.
LEMMA GamesOnSame ==
  ASSUME NEW gs, NEW hs, NEW n \in Nat, NEW p, NEW d, \A j \in 1..n : hs[j] = gs[j]
  PROVE  GamesOn(hs, n, p, d) = GamesOn(gs, n, p, d)
  BY DEF GamesOn

Current(l, p, c) == IF c = Overall THEN l.overall[p] ELSE l.cats[p][c]

(***************************************************************************)
(* The loop invariant of RecomputeGroup on its local variables l: for the  *)
(* players of its group, ratings and counters are those of the rows rated  *)
(* so far, and each of these started where the rows before it ended.       *)
(***************************************************************************)
Replayed(l) ==
  \A p \in Player : GroupOf[p] = l.group =>
    /\ \A c \in Category :
         Standing(l.out, Len(l.out), p, c, Start(l.listed, p, c), Current(l, p, c))
    /\ \A d \in Board : l.count[p][d] = Cardinality(GamesOn(l.out, Len(l.out), p, d))

ReplayChained(l) ==
  \A i \in 1..Len(l.out), s \in Side :
    l.out[i].group = l.group =>
      LET p == l.out[i].who[s]
      IN  \A c \in {Overall, l.out[i].board} :
            Standing(l.out, i-1, p, c, Start(l.listed, p, c), Part(l.out[i].before[s], c))

\* The players in front of the replay are of its group.
Listed(l) == \A p \in l.listed : GroupOf[p] = l.group

ReplayInv ==
  \A q \in Replayer :
    LET l == rep[q]
    IN  /\ l.pc # "idle" => Listed(l)
        /\ l.pc = "replay" => Replayed(l) /\ ReplayChained(l)

\* Before his first game a player has his seed.
Unplayed ==
  \A p \in Player :
    (\A j \in 1..Len(games) : ~InGame(games[j], p)) => overall[p] = Seed[p]

\* The players of a game are of its group.
OfGroup(gm) == \A s \in Side : GroupOf[gm.who[s]] = gm.group

LEMMA ReplayTurn ==
  ASSUME NEW l \in RepType, NEW gm \in Game, OfGroup(gm), Replayed(l), ReplayChained(l)
  PROVE  Replayed(Replay(l, gm)) /\ ReplayChained(Replay(l, gm))
<1> DEFINE k == Len(l.out)
           be == Before(l, gm)
           af == RateGame(be, gm.board, gm.res)
           m == Replay(l, gm)
           row == [gm EXCEPT !.before = be, !.after = af]
<1>1. l.out \in Seq(Game) /\ k \in Nat
  BY DEF RepType
<1>2. PICK x : m.out = Append(l.out, x) /\ Facts(x) = Facts(gm)
               /\ (gm.group = l.group => x = row) /\ (gm.group # l.group => x = gm)
               /\ m.group = l.group /\ m.listed = l.listed
  <2>1. CASE gm.group # l.group
    BY <2>1 DEF Replay, RepType
  <2>2. CASE gm.group = l.group
    <3>1. /\ m.out = Append(l.out, row) /\ m.group = l.group /\ m.listed = l.listed
      BY <2>2 DEF Replay, RepType
    <3>2. Facts(row) = Facts(gm)
      BY DEF Facts, Game
    <3>3. QED
      BY <2>2, <3>1, <3>2
  <2>3. QED
    BY <2>1, <2>2
<1>3. /\ Len(m.out) = k + 1 /\ m.out[k+1] = x
      /\ \A j \in 1..k : m.out[j] = l.out[j]
  <2> HIDE DEF m
  <2>1. QED BY <1>1, <1>2
<1>4. x.group = gm.group /\ x.who = gm.who /\ x.board = gm.board
  BY <1>2 DEF Facts
<1>5. ASSUME NEW p \in Player, NEW c, gm.group # l.group, GroupOf[p] = l.group
      PROVE  ~Plays(x, p, c)
  BY <1>4, <1>5 DEF Plays, InGame, OfGroup
<1>6. ASSUME NEW p \in Player, NEW c \in Category, GroupOf[p] = l.group
      PROVE  Current(m, p, c) = IF Plays(x, p, c) THEN After(x, p, c) ELSE Current(l, p, c)
  <2>1. CASE gm.group # l.group
    <3>1. m.overall = l.overall /\ m.cats = l.cats
      BY <2>1 DEF Replay, RepType
    <3>2. QED
      BY <1>5, <1>6, <2>1, <3>1 DEF Current
  <2>2. CASE gm.group = l.group
    <3>1. /\ m.overall[p] = IF InGame(gm, p) THEN af[SideOf(gm, p)].overall ELSE l.overall[p]
          /\ c # Overall => m.cats[p][c] = IF c = gm.board /\ InGame(gm, p)
                              THEN af[SideOf(gm, p)].cat ELSE l.cats[p][c]
      BY <2>2 DEF Replay, RepType, Category
    <3>2. x.after = af
      BY <1>2, <2>2 DEF Game
    <3>3. InGame(x, p) <=> InGame(gm, p)
      BY <1>4 DEF InGame
    <3>4. SideOf(x, p) = SideOf(gm, p)
      BY <1>4 DEF SideOf
    <3> HIDE DEF af, m
    <3>5. QED
      BY <1>4, <3>1, <3>2, <3>3, <3>4 DEF Current, Plays, After, Part
  <2>3. QED
    BY <2>1, <2>2
<1>7. ASSUME NEW p \in Player, NEW d \in Board, GroupOf[p] = l.group
      PROVE  m.count[p][d] = l.count[p][d] + (IF Plays(x, p, d) THEN 1 ELSE 0)
  <2>1. d # Overall /\ l.count[p][d] \in Nat
    BY LedgerAssumption DEF RepType
  <2>2. CASE gm.group # l.group
    <3>1. m.count = l.count
      BY <2>2 DEF Replay, RepType
    <3>2. QED
      BY <1>5, <1>7, <2>1, <2>2, <3>1
  <2>3. CASE gm.group = l.group
    <3>1. m.count[p][d] = IF d = gm.board /\ InGame(gm, p) THEN l.count[p][d] + 1
                                                           ELSE l.count[p][d]
      BY <2>3 DEF Replay, RepType
    <3>2. InGame(x, p) <=> InGame(gm, p)
      BY <1>4 DEF InGame
    <3> HIDE DEF m
    <3>3. QED
      BY <1>4, <2>1, <3>1, <3>2 DEF Plays
  <2>4. QED
    BY <2>2, <2>3
<1> HIDE DEF m
<1>8. ASSUME NEW n \in 0..k, NEW p, NEW c, NEW e0, NEW e, Standing(l.out, n, p, c, e0, e)
      PROVE  Standing(m.out, n, p, c, e0, e)
  <2>1. n \in Nat /\ \A j \in 1..n : l.out[j] = m.out[j]
    BY <1>1, <1>3
  <2>2. QED
    BY <1>8, <2>1, StandingPrefix
<1>9. Replayed(m)
  <2>1. ASSUME NEW p \in Player, GroupOf[p] = l.group, NEW c \in Category
        PROVE  Standing(m.out, k+1, p, c, Start(l.listed, p, c), Current(m, p, c))
    <3>1. Standing(m.out, k, p, c, Start(l.listed, p, c), Current(l, p, c))
      BY <1>1, <1>8, <2>1 DEF Replayed
    <3>2. CASE Plays(x, p, c)
      <4>1. Standing(m.out, k+1, p, c, Start(l.listed, p, c), After(m.out[k+1], p, c))
        BY <1>1, <1>3, <3>2, StandingMoved
      <4>2. QED
        BY <1>3, <1>6, <2>1, <3>2, <4>1
    <3>3. CASE ~Plays(x, p, c)
      <4>1. Standing(m.out, k+1, p, c, Start(l.listed, p, c), Current(l, p, c))
        BY <1>1, <1>3, <3>1, <3>3, StandingKept
      <4>2. QED
        BY <1>6, <2>1, <3>3, <4>1
    <3>4. QED
      BY <3>2, <3>3
  <2>2. ASSUME NEW p \in Player, GroupOf[p] = l.group, NEW d \in Board
        PROVE  m.count[p][d] = Cardinality(GamesOn(m.out, k+1, p, d))
    <3>1. GamesOn(m.out, k, p, d) = GamesOn(l.out, k, p, d)
      <4>1. k \in Nat /\ \A j \in 1..k : m.out[j] = l.out[j]
        BY <1>1, <1>3
      <4> HIDE DEF k
      <4>2. QED
        BY <4>1, GamesOnSame
    <3>2. /\ Plays(m.out[k+1], p, d) =>
               Cardinality(GamesOn(m.out, k+1, p, d)) = Cardinality(GamesOn(m.out, k, p, d)) + 1
          /\ ~Plays(m.out[k+1], p, d) =>
               Cardinality(GamesOn(m.out, k+1, p, d)) = Cardinality(GamesOn(m.out, k, p, d))
      BY <1>1, GamesOnNext
    <3>3. /\ l.count[p][d] = Cardinality(GamesOn(l.out, k, p, d))
          /\ l.count[p][d] \in Nat
      BY <2>2 DEF Replayed, RepType
    <3>4. QED
      BY <1>3, <1>7, <2>2, <3>1, <3>2, <3>3
  <2>3. QED
    BY <1>2, <1>3, <2>1, <2>2 DEF Replayed
<1>10. ReplayChained(m)
  <2> SUFFICES ASSUME NEW i \in 1..Len(m.out), NEW s \in Side, m.out[i].group = m.group,
                      NEW c \in {Overall, m.out[i].board}
               PROVE  Standing(m.out, i-1, m.out[i].who[s], c,
                               Start(m.listed, m.out[i].who[s], c),
                               Part(m.out[i].before[s], c))
    BY DEF ReplayChained
  <2>1. CASE i \in 1..k
    <3>1. m.out[i] = l.out[i] /\ i-1 \in 0..k
      BY <1>1, <1>3, <2>1
    <3>2. Standing(l.out, i-1, l.out[i].who[s], c, Start(l.listed, l.out[i].who[s], c),
                   Part(l.out[i].before[s], c))
      BY <1>2, <2>1, <3>1 DEF ReplayChained
    <3>3. QED
      BY <1>2, <1>8, <3>1, <3>2
  <2>2. CASE i = k + 1
    <3> DEFINE p == gm.who[s]
    <3>1. gm.group = l.group /\ x = row /\ m.out[i] = x
      BY <1>2, <1>3, <1>4, <2>2
    <3>2. p \in Player /\ GroupOf[p] = l.group /\ gm.board \in Board
      BY <3>1 DEF Game, OfGroup
    <3>3. x.before = be /\ x.who[s] = p /\ c \in {Overall, gm.board} /\ c \in Category
      BY <1>4, <3>1, <3>2 DEF Game, Category
    <3>4. Part(be[s], c) = Current(l, p, c)
      BY <3>3, LedgerAssumption DEF Before, Part, Current
    <3>5. Standing(l.out, k, p, c, Start(l.listed, p, c), Current(l, p, c))
      BY <3>2, <3>3 DEF Replayed
    <3>6. Standing(m.out, k, p, c, Start(l.listed, p, c), Current(l, p, c))
      BY <1>1, <1>8, <3>5
    <3> HIDE DEF be, p
    <3>7. QED
      BY <1>1, <1>2, <2>2, <3>1, <3>3, <3>4, <3>6
  <2>3. QED
    BY <1>1, <1>3, <2>1, <2>2
<1>11. QED
  BY <1>9, <1>10 DEF m

LEMMA ReplayStarts ==
  ASSUME TypeInv, ReplayInv, NEW q \in Replayer, ListGames(q)
  PROVE  Listed(rep'[q]) /\ Replayed(rep'[q]) /\ ReplayChained(rep'[q])
<1> DEFINE l == rep[q]
           m == rep'[q]
<1>1. rep \in [Replayer -> RepType] /\ IdleRep \in RepType /\ l \in RepType
  BY IdleRepType DEF TypeInv, TypeOK
<1>2. /\ m.group = l.group /\ m.listed = l.listed /\ m.out = <<>>
      /\ m.overall = [p \in Player |-> Start(l.listed, p, Overall)]
      /\ m.cats = [p \in Player |-> [d \in Board |-> Start(l.listed, p, d)]]
      /\ m.count = [p \in Player |-> [d \in Board |-> 0]]
  <2>1. IdleRep.out = <<>> /\ IdleRep.count = [p \in Player |-> [d \in Board |-> 0]]
    BY DEF IdleRep
  <2> DEFINE ov == [p \in Player |-> Start(l.listed, p, Overall)]
             ca == [p \in Player |-> [d \in Board |-> Start(l.listed, p, d)]]
  <2>2. m = [IdleRep EXCEPT !.pc = "replay", !.group = l.group, !.listed = l.listed,
                            !.n = Len(games), !.overall = ov, !.cats = ca]
    BY <1>1 DEF ListGames
  <2> HIDE DEF ov, ca, l, m
  <2>3. /\ m.group = l.group /\ m.listed = l.listed /\ m.out = IdleRep.out
        /\ m.overall = ov /\ m.cats = ca /\ m.count = IdleRep.count
    BY <1>1, <2>2 DEF RepType
  <2>4. QED
    BY <2>1, <2>3 DEF ov, ca
<1>3. Listed(l)
  BY DEF ReplayInv, ListGames
<1> HIDE DEF l, m
<1>4. Listed(m) /\ Len(m.out) = 0 /\ 1..0 = {}
  BY <1>2, <1>3 DEF Listed
<1>5. ASSUME NEW p \in Player, NEW c \in Category
      PROVE  Standing(m.out, 0, p, c, Start(m.listed, p, c), Current(m, p, c))
  <2>1. Current(m, p, c) = Start(m.listed, p, c)
    BY <1>2 DEF Current, Category
  <2>2. QED
    BY <1>4, <2>1 DEF Standing
<1>6. ASSUME NEW p \in Player, NEW d \in Board
      PROVE  m.count[p][d] = Cardinality(GamesOn(m.out, 0, p, d))
  <2>1. GamesOn(m.out, 0, p, d) = {}
    BY <1>4 DEF GamesOn
  <2>2. m.count[p][d] = 0
    BY <1>2
  <2>3. Cardinality(GamesOn(m.out, 0, p, d)) = 0
    BY <2>1, FS_EmptySet, Zenon
  <2>4. QED
    BY <2>2, <2>3
<1>7. Replayed(m) /\ ReplayChained(m)
  BY <1>4, <1>5, <1>6 DEF Replayed, ReplayChained
<1>8. QED
  BY <1>4, <1>7 DEF m

\* What a step may do to a recompute that has listed its players.
LEMMA ListedSteps ==
  ASSUME TypeInv, [Next]_vars, NEW q \in Replayer
  PROVE  \/ rep'[q] = rep[q]
         \/ rep'[q].pc = "idle"
         \/ \E g \in Group : ListPlayers(q, g)
         \/ ListGames(q)
         \/ ReplayGame(q)
<1> DEFINE Goal == \/ rep'[q] = rep[q]
                   \/ rep'[q].pc = "idle"
                   \/ \E g \in Group : ListPlayers(q, g)
                   \/ ListGames(q)
                   \/ ReplayGame(q)
<1>0. rep \in [Replayer -> RepType]
  BY DEF TypeInv, TypeOK
<1>1. ASSUME NEW u \in Replayer, ReplayerNext(u) PROVE Goal
  <2>1. CASE u = q
    <3>1. IdleRep.pc = "idle"
      BY DEF IdleRep
    <3>2. CASE SaveRecompute(q) \/ AbandonRecompute(q)
      BY <1>0, <3>1, <3>2 DEF SaveRecompute, AbandonRecompute
    <3>3. QED
      BY <1>1, <2>1, <3>2 DEF ReplayerNext
  <2>2. CASE u # q
    BY <1>0, <1>1, <2>2 DEF ReplayerNext, ListPlayers, ListGames, ReplayGame,
       SaveRecompute, AbandonRecompute
  <2>3. QED
    BY <2>1, <2>2
<1>2. CASE rep' = rep
  BY <1>2
<1>3. rep' = rep \/ \E u \in Replayer : ReplayerNext(u)
  BY ReplayersStep
<1>4. QED
  BY <1>1, <1>2, <1>3

LEMMA NextReplayInv ==
  ASSUME TypeInv, GamesWellFormed, ReplayInv, [Next]_vars
  PROVE  ReplayInv'
<1> SUFFICES ASSUME NEW q \in Replayer
             PROVE  /\ rep'[q].pc # "idle" => Listed(rep'[q])
                    /\ rep'[q].pc = "replay" => Replayed(rep'[q]) /\ ReplayChained(rep'[q])
  BY DEF ReplayInv
<1>0. rep \in [Replayer -> RepType] /\ rep[q] \in RepType
  BY DEF TypeInv, TypeOK
<1>1. CASE rep'[q] = rep[q]
  BY <1>1 DEF ReplayInv
<1>2. CASE rep'[q].pc = "idle"
  BY <1>2
<1>3. ASSUME NEW g \in Group, ListPlayers(q, g)
      PROVE  rep'[q].pc = "listGames" /\ Listed(rep'[q])
  <2>1. /\ rep'[q].pc = "listGames" /\ rep'[q].group = g
        /\ rep'[q].listed = {p \in created : GroupOf[p] = g}
    BY <1>0, <1>3, IdleRepType DEF ListPlayers, RepType
  <2>2. QED
    BY <2>1 DEF Listed
<1>4. CASE ListGames(q)
  BY <1>4, ReplayStarts
<1>5. CASE ReplayGame(q)
  <2> DEFINE l == rep[q]
             k == Len(l.out) + 1
             gm == games[k]
  <2>1. k \in 1..Len(games) /\ gm \in Game
    BY <1>5, NextGame
  <2>2. OfGroup(gm)
    BY <2>1 DEF GamesWellFormed, OfGroup
  <2>3. rep'[q] = Replay(l, gm)
    BY <1>0, <1>5 DEF ReplayGame
  <2>4. Listed(l) /\ Replayed(l) /\ ReplayChained(l)
    BY <1>5 DEF ReplayInv, ReplayGame
  <2> HIDE DEF gm, k
  <2>5. Replayed(Replay(l, gm)) /\ ReplayChained(Replay(l, gm))
    BY <1>0, <2>1, <2>2, <2>4, ReplayTurn
  <2>6. Replay(l, gm).group = l.group /\ Replay(l, gm).listed = l.listed
    BY <1>0 DEF Replay, RepType
  <2>7. Listed(Replay(l, gm))
    BY <2>4, <2>6 DEF Listed
  <2>8. QED
    BY <2>3, <2>5, <2>7
<1>6. QED
  BY <1>1, <1>2, <1>3, <1>4, <1>5, ListedSteps

\* The rows of the list are the rows of the table.
LEMMA OutIsGames ==
  ASSUME TypeInv, NEW q \in Replayer, rep[q].pc = "replay", NEW i \in 1..Len(rep[q].out)
  PROVE  /\ i \in 1..Len(games)
         /\ rep[q].out[i].group = games[i].group
         /\ rep[q].out[i].who = games[i].who
         /\ rep[q].out[i].board = games[i].board
         /\ rep[q].out[i].res = games[i].res
<1>1. /\ rep[q].out \in Seq(Game) /\ rep[q].n \in Nat /\ Len(games) \in Nat
      /\ Len(rep[q].out) \in Nat
  BY DEF TypeInv, TypeOK, RepType
<1>2. /\ rep[q].n <= Len(games) /\ Len(rep[q].out) <= rep[q].n
      /\ Facts(rep[q].out[i]) = Facts(games[i])
  BY DEF TypeInv, Aligned
<1>3. QED
  BY <1>1, <1>2 DEF Facts

LEMMA SaveUnplayed ==
  ASSUME TypeInv, ReplayInv, Unplayed, NEW q \in Replayer, SaveRecompute(q)
  PROVE  Unplayed'
<1> DEFINE l == rep[q]
<1> SUFFICES ASSUME NEW p \in Player, \A j \in 1..Len(games') : ~InGame(games'[j], p)
             PROVE  overall'[p] = Seed[p]
  BY DEF Unplayed
<1>1. \A j \in 1..Len(games) : ~InGame(games[j], p)
  BY SaveKeepsFacts DEF InGame, Facts
<1>2. CASE p \notin l.listed
  BY <1>1, <1>2 DEF SaveRecompute, Unplayed
<1>3. CASE p \in l.listed
  <2>1. l.pc = "replay" /\ Listed(l) /\ Replayed(l) /\ l.out \in Seq(Game)
    BY DEF SaveRecompute, ReplayInv, TypeInv, TypeOK, RepType
  <2>2. Standing(l.out, Len(l.out), p, Overall, Seed[p], l.overall[p])
    BY <1>3, <2>1 DEF Replayed, Listed, Category, Start, Current
  <2>3. \A j \in 1..Len(l.out) : ~InGame(l.out[j], p)
    BY <1>1, <2>1, OutIsGames DEF InGame
  <2>4. l.overall[p] = Seed[p]
    BY <2>1, <2>2, <2>3, StandingSeed
  <2>5. QED
    BY <1>3, <2>4 DEF SaveRecompute
<1>4. QED
  BY <1>2, <1>3

LEMMA CommitUnplayed ==
  ASSUME TypeInv, Unplayed, NEW r \in Recorder, CommitGame(r)
  PROVE  Unplayed'
<1> SUFFICES ASSUME NEW p \in Player, \A j \in 1..Len(games') : ~InGame(games'[j], p)
             PROVE  overall'[p] = Seed[p]
  BY DEF Unplayed
<1>1. games \in Seq(Game) /\ Len(games) \in Nat
  BY DEF TypeInv, TypeOK
<1>2. \A j \in 1..Len(games) : ~InGame(games[j], p)
  BY <1>1, CommitAppends
<1>3. games'[Len(games) + 1].who = rec[r].who
  BY <1>1 DEF CommitGame
<1>4. ~InGame(rec[r], p)
  BY <1>1, <1>3, CommitAppends DEF InGame
<1>5. overall'[p] = overall[p]
  BY <1>4 DEF CommitGame, WriteOverall
<1>6. QED
  BY <1>2, <1>5 DEF Unplayed

LEMMA NextUnplayed ==
  ASSUME TypeInv, ReplayInv, Unplayed, [Next]_vars
  PROVE  Unplayed'
<1>1. CASE games' = games /\ overall' = overall
  BY <1>1 DEF Unplayed
<1>2. ASSUME NEW p \in Player, CreatePlayer(p) PROVE Unplayed'
  BY <1>2 DEF CreatePlayer, Unplayed, TypeInv, TypeOK
<1>3. ASSUME NEW r \in Recorder, CommitGame(r) PROVE Unplayed'
  BY <1>3, CommitUnplayed
<1>4. ASSUME NEW q \in Replayer, SaveRecompute(q) PROVE Unplayed'
  BY <1>4, SaveUnplayed
<1>5. QED
  BY <1>1, <1>2, <1>3, <1>4, TableSteps

RepairInv == RowInv /\ ReplayInv /\ Unplayed

LEMMA RepairInvariant == Spec => []RepairInv
<1>1. Init => ReplayInv /\ Unplayed
  <2> SUFFICES ASSUME Init PROVE ReplayInv /\ Unplayed
    OBVIOUS
  <2>1. ReplayInv
    BY DEF Init, ReplayInv, IdleRep
  <2>2. Unplayed
    BY DEF Init, Unplayed
  <2>3. QED
    BY <2>1, <2>2
<1>2. RowInv /\ ReplayInv /\ Unplayed /\ [Next]_vars => ReplayInv' /\ Unplayed'
  BY NextReplayInv, NextUnplayed DEF RowInv
<1>3. QED
  BY <1>1, <1>2, RowInvariant, PTL DEF Spec, RepairInv

-----------------------------------------------------------------------------
(* The save of a recompute that no game of its group overtook. *)

\* What the save leaves in row i of the table.
LEMMA SavedRow ==
  ASSUME TypeInv, NEW q \in Replayer, SaveRecompute(q), NEW i \in 1..Len(games)
  PROVE  /\ games'[i].group = games[i].group
         /\ games'[i].who = games[i].who
         /\ games'[i].board = games[i].board
         /\ i <= rep[q].n /\ games[i].group = rep[q].group =>
              /\ games'[i].before = rep[q].out[i].before
              /\ games'[i].after = rep[q].out[i].after
         /\ ~(i <= rep[q].n /\ games[i].group = rep[q].group) => games'[i] = games[i]
<1>1. games \in Seq(Game) /\ games[i] \in Game
  BY DEF TypeInv, TypeOK
<1>2. games'[i] = IF i <= rep[q].n /\ games[i].group = rep[q].group
                    THEN Snapshot(games[i], rep[q].out[i]) ELSE games[i]
  BY DEF SaveRecompute, SavedGames
<1>3. QED
  BY <1>1, <1>2 DEF Snapshot, Game

\* For its group, the table is the list and then games of others.
LEMMA SavedTable ==
  ASSUME TypeInv, GamesWellFormed, NEW q \in Replayer, SaveRecompute(q), Undisturbed(q),
         NEW p \in Player, GroupOf[p] = rep[q].group, NEW c
  PROVE  /\ rep[q].n \in Nat /\ rep[q].n <= Len(games) /\ Len(rep[q].out) = rep[q].n
         /\ Len(games) \in Nat /\ Len(games') = Len(games)
         /\ \A j \in 1..rep[q].n :
              /\ Plays(games'[j], p, c) <=> Plays(rep[q].out[j], p, c)
              /\ Plays(rep[q].out[j], p, c) =>
                   After(games'[j], p, c) = After(rep[q].out[j], p, c)
         /\ \A j \in (rep[q].n + 1)..Len(games) : ~Plays(games'[j], p, c)
<1> DEFINE l == rep[q]
<1>1. /\ l.pc = "replay" /\ l.n \in Nat /\ l.n <= Len(games) /\ Len(l.out) = l.n
      /\ Len(games) \in Nat
  BY DEF SaveRecompute, TypeInv, TypeOK, RepType, Aligned
<1>2. Len(games') = Len(games)
  BY SaveKeepsFacts
<1>3. ASSUME NEW j \in 1..Len(games), InGame(games[j], p)
      PROVE  games[j].group = l.group /\ j <= l.n
  BY <1>3 DEF GamesWellFormed, InGame, Undisturbed
<1>4. ASSUME NEW j \in 1..l.n
      PROVE  /\ Plays(games'[j], p, c) <=> Plays(l.out[j], p, c)
             /\ Plays(l.out[j], p, c) => After(games'[j], p, c) = After(l.out[j], p, c)
  <2>1. j \in 1..Len(games) /\ j \in 1..Len(l.out)
    BY <1>1
  <2>2. games'[j].who = l.out[j].who /\ games'[j].board = l.out[j].board
    BY <1>1, <2>1, SavedRow, OutIsGames
  <2>3. Plays(games'[j], p, c) <=> Plays(l.out[j], p, c)
    BY <2>2 DEF Plays, InGame
  <2>4. ASSUME Plays(l.out[j], p, c)
        PROVE  After(games'[j], p, c) = After(l.out[j], p, c)
    <3>1. InGame(games[j], p)
      BY <1>1, <2>1, <2>4, OutIsGames DEF Plays, InGame
    <3>2. games'[j].after = l.out[j].after
      BY <1>3, <2>1, <3>1, SavedRow
    <3>3. QED
      BY <2>2, <3>2 DEF After, SideOf
  <2>5. QED
    BY <2>3, <2>4
<1>5. ASSUME NEW j \in (l.n + 1)..Len(games) PROVE ~Plays(games'[j], p, c)
  <2>1. j \in 1..Len(games) /\ ~(j <= l.n)
    BY <1>1
  <2>2. ~InGame(games[j], p)
    BY <1>3, <2>1
  <2>3. QED
    BY <2>1, <2>2, SavedRow DEF Plays, InGame
<1>6. QED
  BY <1>1, <1>2, <1>4, <1>5

LEMMA SavedChained ==
  ASSUME RepairInv, NEW q \in Replayer, SaveRecompute(q), Undisturbed(q), NEW g,
         rep[q].group = g
  PROVE  ChainedIn(g)'
<1> DEFINE l == rep[q]
<1> SUFFICES ASSUME NEW i \in 1..Len(games'), NEW s \in Side, games'[i].group = g,
                    NEW c \in {Overall, games'[i].board}
             PROVE  Standing(games', i-1, games'[i].who[s], c, Seed[games'[i].who[s]],
                             Part(games'[i].before[s], c))
  BY DEF ChainedIn
<1> DEFINE p == games'[i].who[s]
<1>1. TypeInv /\ GamesWellFormed /\ l.pc = "replay" /\ ReplayChained(l)
  BY DEF RepairInv, RowInv, ReplayInv, SaveRecompute
<1>2. i \in 1..Len(games) /\ games[i] \in Game
  BY <1>1, SaveKeepsFacts DEF TypeInv, TypeOK
<1>3. /\ games[i].group = g /\ games[i].who = games'[i].who
      /\ games[i].board = games'[i].board
  BY <1>1, <1>2, SavedRow
<1>4. i <= l.n /\ p \in l.listed
  BY <1>2, <1>3 DEF Undisturbed
<1>5. p \in Player /\ GroupOf[p] = g
  BY <1>1, <1>2, <1>3 DEF GamesWellFormed, Game
<1>6. i \in 1..Len(l.out)
  BY <1>2, <1>4 DEF SaveRecompute
<1>7. games'[i].before = l.out[i].before
  BY <1>1, <1>2, <1>3, <1>4, SavedRow
<1>8. l.out[i].group = g /\ l.out[i].who[s] = p /\ l.out[i].board = games'[i].board
  BY <1>1, <1>3, <1>6, OutIsGames
<1>9. Start(l.listed, p, c) = Seed[p]
  BY <1>4 DEF Start
<1>10. Standing(l.out, i-1, p, c, Seed[p], Part(l.out[i].before[s], c))
  BY <1>1, <1>6, <1>8, <1>9 DEF ReplayChained
<1>11. i-1 \in Nat /\ \A j \in 1..(i-1) :
         /\ Plays(games'[j], p, c) <=> Plays(l.out[j], p, c)
         /\ Plays(l.out[j], p, c) => After(games'[j], p, c) = After(l.out[j], p, c)
  <2> HIDE DEF p
  <2>1. l.n \in Nat /\ \A j \in 1..l.n :
         /\ Plays(games'[j], p, c) <=> Plays(l.out[j], p, c)
         /\ Plays(l.out[j], p, c) => After(games'[j], p, c) = After(l.out[j], p, c)
    BY <1>1, <1>5, SavedTable
  <2>2. QED
    BY <1>2, <1>4, <2>1
<1> HIDE DEF p, l
<1>12. Standing(games', i-1, p, c, Seed[p], Part(l.out[i].before[s], c))
  BY <1>10, <1>11, StandingAgree
<1>13. QED
  BY <1>7, <1>12 DEF p

LEMMA SavedStands ==
  ASSUME RepairInv, NEW q \in Replayer, SaveRecompute(q), Undisturbed(q), NEW g,
         rep[q].group = g
  PROVE  StoredFromGamesIn(g)'
<1> DEFINE l == rep[q]
           n == l.n
<1> SUFFICES ASSUME NEW p \in Player, GroupOf[p] = g
             PROVE  /\ \A c \in Category :
                         Standing(games', Len(games'), p, c, Seed[p], Stored(p, c)')
                    /\ \A d \in Board : grid'[p][d].games =
                         Cardinality(GamesOn(games', Len(games'), p, d))
  BY DEF StoredFromGamesIn
<1>1. /\ TypeInv /\ GamesWellFormed /\ Unplayed /\ Replayed(l) /\ l.pc = "replay"
      /\ l \in RepType
  BY DEF RepairInv, RowInv, ReplayInv, SaveRecompute, TypeInv, TypeOK
<1>2. /\ n \in Nat /\ n <= Len(games) /\ Len(l.out) = n
      /\ Len(games) \in Nat /\ Len(games') = Len(games)
  BY <1>1, SavedTable
<1>3. ASSUME NEW c
      PROVE  /\ \A j \in 1..n :
                  /\ Plays(games'[j], p, c) <=> Plays(l.out[j], p, c)
                  /\ Plays(l.out[j], p, c) => After(games'[j], p, c) = After(l.out[j], p, c)
             /\ \A j \in (n + 1)..Len(games) : ~Plays(games'[j], p, c)
  BY <1>1, SavedTable
<1>4. ASSUME NEW c, NEW e, Standing(l.out, n, p, c, Seed[p], e)
      PROVE  Standing(games', Len(games'), p, c, Seed[p], e)
  <2> HIDE DEF l, n
  <2>1. Standing(games', n, p, c, Seed[p], e)
    BY <1>2, <1>3, <1>4, StandingAgree
  <2>2. QED
    BY <1>2, <1>3, <2>1, StandingExtend
<1>5. p \notin l.listed => /\ \A j \in 1..n : ~InGame(l.out[j], p)
                           /\ overall[p] = Seed[p]
  <2> SUFFICES ASSUME p \notin l.listed
               PROVE  /\ \A j \in 1..n : ~InGame(l.out[j], p)
                      /\ overall[p] = Seed[p]
    OBVIOUS
  <2>1. \A j \in 1..Len(games) : ~InGame(games[j], p)
    BY <1>1 DEF GamesWellFormed, InGame, Undisturbed
  <2>2. QED
    BY <1>1, <1>2, <2>1, OutIsGames DEF InGame, Unplayed
<1>6. ASSUME NEW d \in Board
      PROVE  /\ l.count[p][d] \in Nat
             /\ l.count[p][d] = Cardinality(GamesOn(l.out, n, p, d))
             /\ GamesOn(games', Len(games'), p, d) = GamesOn(l.out, n, p, d)
  <2>1. l.count[p][d] = Cardinality(GamesOn(l.out, n, p, d)) /\ l.count[p][d] \in Nat
    BY <1>1, <1>2 DEF Replayed, RepType
  <2>2. \A j \in 1..Len(games) : j \in 1..n \/ j \in (n+1)..Len(games)
    BY <1>2
  <2>3. \A j \in 1..n : j \in 1..Len(games)
    BY <1>2
  <2> HIDE DEF l, n
  <2>4. GamesOn(games', Len(games'), p, d) = GamesOn(l.out, n, p, d)
    BY <1>2, <1>3, <2>2, <2>3 DEF GamesOn
  <2>5. QED
    BY <2>1, <2>4
<1>7. ASSUME NEW d \in Board
      PROVE  /\ l.count[p][d] > 0 => /\ grid'[p][d].state = l.cats[p][d]
                                     /\ grid'[p][d].games = l.count[p][d]
             /\ ~(l.count[p][d] > 0) => /\ grid'[p][d].state = Seed[p]
                                        /\ grid'[p][d].games = 0
  <2>1. grid'[p][d] = IF l.count[p][d] > 0
          THEN [state |-> l.cats[p][d], games |-> l.count[p][d]] ELSE NoRow(p)
    BY DEF SaveRecompute, SavedGrid
  <2>2. QED
    BY <2>1 DEF NoRow
<1>8. ASSUME NEW d \in Board
      PROVE  grid'[p][d].games = Cardinality(GamesOn(games', Len(games'), p, d))
  <2>1. grid'[p][d].games = l.count[p][d]
    BY <1>6, <1>7
  <2>2. QED
    BY <1>6, <2>1
<1>9. ASSUME NEW d \in Board, ~(l.count[p][d] > 0)
      PROVE  \A j \in 1..n : ~Plays(l.out[j], p, d)
  <2>1. IsFiniteSet(GamesOn(l.out, n, p, d))
    BY <1>2, GamesOnFinite
  <2>2. Cardinality(GamesOn(l.out, n, p, d)) = 0
    BY <1>6, <1>9
  <2>3. GamesOn(l.out, n, p, d) = {}
    BY <2>1, <2>2, FS_EmptySet
  <2>4. QED
    BY <2>3 DEF GamesOn
<1>10. ASSUME NEW c \in Category
       PROVE  Standing(l.out, n, p, c, Seed[p], Stored(p, c)')
  <2>1. CASE /\ \A j \in 1..n : ~Plays(l.out[j], p, c)
             /\ Stored(p, c)' = Seed[p]
    BY <2>1 DEF Standing
  <2>2. CASE p \in l.listed /\ Stored(p, c)' = Current(l, p, c)
    <3>1. Start(l.listed, p, c) = Seed[p]
      BY <2>2 DEF Start
    <3>2. QED
      BY <1>1, <1>2, <2>2, <3>1 DEF Replayed
  <2>3. CASE c = Overall
    <3>1. Stored(p, c)' = IF p \in l.listed THEN l.overall[p] ELSE overall[p]
      BY <2>3 DEF Stored, SaveRecompute
    <3>2. QED
      BY <1>5, <2>1, <2>2, <2>3, <3>1 DEF Current, Plays
  <2>4. CASE c # Overall
    <3>1. c \in Board /\ Stored(p, c)' = grid'[p][c].state
      BY <2>4 DEF Stored, Category
    <3>2. CASE l.count[p][c] > 0
      <4>1. Stored(p, c)' = Current(l, p, c)
        <5>1. grid'[p][c].state = l.cats[p][c]
          BY <1>7, <3>1, <3>2
        <5>2. QED
          BY <2>4, <3>1, <5>1 DEF Current
      <4>2. p \in l.listed
        <5>1. SUFFICES ASSUME p \notin l.listed PROVE FALSE
          OBVIOUS
        <5>2. GamesOn(l.out, n, p, c) = {}
          BY <1>5, <5>1 DEF GamesOn, Plays
        <5>3. l.count[p][c] = 0
          BY <1>6, <3>1, <5>2, FS_EmptySet
        <5>4. QED
          BY <3>2, <5>3
      <4>3. QED
        BY <2>2, <4>1, <4>2
    <3>3. CASE ~(l.count[p][c] > 0)
      <4>1. Stored(p, c)' = Seed[p]
        BY <1>7, <3>1, <3>3
      <4>2. QED
        BY <1>9, <2>1, <3>1, <3>3, <4>1
    <3>4. QED
      BY <3>2, <3>3
  <2>5. QED
    BY <2>3, <2>4
<1>11. QED
  BY <1>4, <1>8, <1>10

(***************************************************************************)
(* A recompute that no game of its group overtook leaves the group's       *)
(* ratings, counters and snapshots as a replay of its games from the seeds *)
(* gives them, whatever they were before and whatever else runs            *)
(* (Service.RecomputeGroup, Store.SaveRecompute).                          *)
(***************************************************************************)
THEOREM RecomputeRepairsGroup == Spec => RecomputeRepairs
<1> DEFINE Repairs == \A q \in Replayer, g \in Group :
             SaveRecompute(q) /\ rep[q].group = g /\ Undisturbed(q) => ReproducibleIn(g)'
<1>1. RepairInv /\ [Next]_vars => Repairs
  <2> SUFFICES ASSUME RepairInv, NEW q \in Replayer, NEW g \in Group, [Next]_vars,
                      SaveRecompute(q), rep[q].group = g, Undisturbed(q)
               PROVE  ReproducibleIn(g)'
    OBVIOUS
  <2>1. RowsConsistent'
    BY NextRowsConsistent DEF RepairInv, RowInv
  <2>2. QED
    BY <2>1, SavedChained, SavedStands DEF ReproducibleIn
<1>2. RepairInv /\ [Next]_vars => [Repairs]_vars
  BY <1>1
<1>3. QED
  BY <1>2, RepairInvariant, PTL DEF Spec, RecomputeRepairs

-----------------------------------------------------------------------------
(* No counter runs ahead of the games. *)

Played(gs, p, d) == Cardinality(GamesOn(gs, Len(gs), p, d))

\* What a request has read never counts a game that was not played.
ReadsCounted ==
  \A r \in Recorder : rec[r].pc # "idle" =>
    \A s \in Side : rec[r].count[s] <= Played(games, rec[r].who[s], rec[r].board)

LEMMA GamesOnGrows ==
  ASSUME TypeInv, [Next]_vars, NEW p, NEW d
  PROVE  /\ Played(games, p, d) \in Nat
         /\ Played(games', p, d) \in Nat
         /\ Played(games, p, d) <= Played(games', p, d)
<1> DEFINE A == GamesOn(games, Len(games), p, d)
           B == GamesOn(games', Len(games'), p, d)
<1>1. /\ Len(games) \in Nat /\ Len(games') \in Nat /\ Appends
  BY NextTypeOK, NextAppends DEF TypeInv, TypeOK
<1>2. A \subseteq B
  BY <1>1 DEF GamesOn, Appends, Facts, Plays, InGame
<1>3. IsFiniteSet(B) /\ Cardinality(A) \in Nat /\ Cardinality(B) \in Nat
  BY <1>1, GamesOnFinite
<1> HIDE DEF A, B
<1>4. Cardinality(A) <= Cardinality(B)
  BY <1>2, <1>3, FS_Subset
<1>5. QED
  BY <1>3, <1>4 DEF A, B, Played

LEMMA ReadCatCounted ==
  ASSUME TypeInv, CountsNeverExceed, ReadsCounted, NEW r \in Recorder,
         ReadBlackCat(r) \/ ReadWhiteCat(r), NEW s \in Side
  PROVE  /\ rec'[r].count[s] <= Played(games, rec[r].who[s], rec[r].board)
         /\ rec'[r].who = rec[r].who /\ rec'[r].board = rec[r].board
<1> DEFINE l == rec[r]
           n == rec'[r]
<1>1. PICK t \in Side, to \in RecPC : ReadCat(r, t, l.pc, to)
  BY DEF ReadBlackCat, ReadWhiteCat, ReadCat, Side, RecPC
<1>2. l \in RecType /\ l.pc # "idle" /\ Len(games) \in Nat
  <2>1. l \in RecType /\ Len(games) \in Nat
    BY DEF TypeInv, TypeOK
  <2>2. l.pc # "idle"
    BY DEF ReadBlackCat, ReadWhiteCat, ReadCat
  <2>3. QED
    BY <2>1, <2>2
<1>3. PICK row \in CategoryReads(l.who[t], l.board) :
        n = [l EXCEPT !.pc = to, !.read[t].cat = row.state, !.count[t] = row.games]
  BY <1>1 DEF ReadCat, TypeInv, TypeOK
<1>4. /\ n.who = l.who /\ n.board = l.board /\ n.count[t] = row.games
      /\ \A u \in Side : u # t => n.count[u] = l.count[u]
  BY <1>2, <1>3 DEF RecType
<1>5. l.who[t] \in Player /\ l.board \in Board
  BY <1>2 DEF RecType
<1>6. Played(games, l.who[t], l.board) \in Nat
  BY <1>2, GamesOnFinite DEF Played
<1>7. row.games <= Played(games, l.who[t], l.board)
  <2>1. CASE row = grid[l.who[t]][l.board]
    BY <1>5, <2>1 DEF CountsNeverExceed, Played
  <2>2. CASE row = NoRow(l.who[t])
    BY <1>6, <2>2 DEF NoRow
  <2>3. QED
    BY <2>1, <2>2 DEF CategoryReads
<1>8. l.count[s] <= Played(games, l.who[s], l.board)
  BY <1>2 DEF ReadsCounted
<1> HIDE DEF n, l
<1>9. QED
  BY <1>4, <1>7, <1>8 DEF n, l

LEMMA NextReadsCounted ==
  ASSUME TypeInv, CountsNeverExceed, ReadsCounted, [Next]_vars
  PROVE  ReadsCounted'
<1> SUFFICES ASSUME NEW r \in Recorder, rec'[r].pc # "idle", NEW s \in Side
             PROVE  rec'[r].count[s] <= Played(games', rec'[r].who[s], rec'[r].board)
  BY DEF ReadsCounted
<1> DEFINE l == rec[r]
           n == rec'[r]
<1>1. l \in RecType /\ n \in RecType
  BY NextTypeOK DEF TypeInv, TypeOK
<1>2. CASE n.count[s] = 0
  <2>1. Played(games', n.who[s], n.board) \in Nat
    BY GamesOnGrows
  <2>2. QED
    BY <1>2, <2>1
<1>3. CASE /\ n.count[s] <= Played(games, l.who[s], l.board)
           /\ n.who = l.who /\ n.board = l.board
  <2>1. n.count[s] \in Nat
    BY <1>1 DEF RecType
  <2>2. /\ Played(games, l.who[s], l.board) \in Nat
        /\ Played(games', l.who[s], l.board) \in Nat
        /\ Played(games, l.who[s], l.board) <= Played(games', l.who[s], l.board)
    BY GamesOnGrows
  <2>3. QED
    BY <1>3, <2>1, <2>2
<1>4. ASSUME NEW g \in Group, NEW b \in Player, NEW w \in Player, NEW d \in Board,
             NEW o \in Result, BeginRecord(r, g, b, w, d, o)
      PROVE  n.count[s] = 0
  <2> DEFINE read == [IdleRec.read EXCEPT !["black"].overall = overall[b]]
             who == [t \in Side |-> IF t = "black" THEN b ELSE w]
  <2>1. n = [IdleRec EXCEPT !.pc = "readWhite", !.group = g, !.who = who,
                            !.board = d, !.res = o, !.read = read]
    BY <1>4 DEF BeginRecord, TypeInv, TypeOK
  <2> HIDE DEF who, read, n
  <2>2. n.count = IdleRec.count
    BY <2>1, IdleRecType DEF RecType
  <2>3. QED
    BY <2>2 DEF IdleRec
<1>5. CASE ReadWhite(r)
  <2>1. n = [l EXCEPT !.pc = "readBlackCat",
                      !.read["white"].overall = overall[l.who["white"]]]
    BY <1>5 DEF ReadWhite, TypeInv, TypeOK, IdleRec
  <2>2. n.count = l.count /\ n.who = l.who /\ n.board = l.board
    BY <1>1, <2>1 DEF RecType
  <2>3. l.pc # "idle"
    BY <1>5 DEF ReadWhite
  <2>4. QED
    BY <1>3, <2>2, <2>3 DEF ReadsCounted
<1>6. CASE ReadBlackCat(r) \/ ReadWhiteCat(r)
  BY <1>3, <1>6, ReadCatCounted
<1>7. CASE n = l
  BY <1>3, <1>7 DEF ReadsCounted
<1>8. QED
  BY <1>2, <1>4, <1>5, <1>6, <1>7, RecSteps

LEMMA CommitCounts ==
  ASSUME TypeInv, CountsNeverExceed, ReadsCounted, [Next]_vars, NEW r \in Recorder,
         CommitGame(r), NEW p \in Player, NEW d \in Board
  PROVE  grid'[p][d].games <= Played(games', p, d)
<1> DEFINE q == rec[r]
           n == Len(games)
<1>1. /\ games \in Seq(Game) /\ n \in Nat /\ Len(games') = n + 1 /\ q \in RecType
      /\ \A j \in 1..n : games'[j] = games[j]
  BY CommitAppends DEF TypeInv, TypeOK
<1>2. games'[n+1].who = q.who /\ games'[n+1].board = q.board
  BY <1>1 DEF CommitGame
<1>3. CASE d = q.board /\ InGame(q, p)
  <2> DEFINE s == SideOf(q, p)
  <2>1. s \in Side /\ q.who[s] = p
    BY <1>3 DEF SideOf, InGame, Side
  <2>2. grid'[p][d].games = q.count[s] + 1
    BY <1>3 DEF CommitGame, UpsertCategory
  <2>3. q.count[s] <= Played(games, p, d) /\ q.count[s] \in Nat
    BY <1>1, <1>3, <2>1 DEF ReadsCounted, CommitGame, RecType
  <2>4. Plays(games'[n+1], p, d)
    BY <1>2, <1>3 DEF Plays, InGame
  <2>5. GamesOn(games', n, p, d) = GamesOn(games, n, p, d)
    BY <1>1, GamesOnSame
  <2>6. Cardinality(GamesOn(games', n+1, p, d)) = Cardinality(GamesOn(games', n, p, d)) + 1
    BY <1>1, <2>4, GamesOnNext
  <2>7. Played(games', p, d) = Played(games, p, d) + 1
    BY <1>1, <2>5, <2>6 DEF Played
  <2>8. Played(games, p, d) \in Nat
    BY GamesOnGrows
  <2> HIDE DEF s
  <2>9. QED
    BY <2>2, <2>3, <2>7, <2>8
<1>4. CASE ~(d = q.board /\ InGame(q, p))
  <2>1. grid'[p][d] = grid[p][d]
    BY <1>4 DEF CommitGame, UpsertCategory
  <2>2. grid[p][d].games <= Played(games, p, d) /\ grid[p][d].games \in Nat
    BY DEF CountsNeverExceed, Played, TypeInv, TypeOK, GridRow
  <2>3. QED
    BY <2>1, <2>2, GamesOnGrows
<1>5. QED
  BY <1>3, <1>4

LEMMA SaveCounts ==
  ASSUME TypeInv, ReplayInv, CountsNeverExceed, [Next]_vars, NEW q \in Replayer,
         SaveRecompute(q), NEW p \in Player, NEW d \in Board
  PROVE  grid'[p][d].games <= Played(games', p, d)
<1> DEFINE l == rep[q]
           n == Len(l.out)
<1>1. /\ l.pc = "replay" /\ Replayed(l) /\ n \in Nat /\ l.n <= Len(games) /\ n = l.n
      /\ Len(games) \in Nat /\ Len(games') = Len(games)
  <2>1. l.pc = "replay" /\ n = l.n
    BY DEF SaveRecompute
  <2>2. Replayed(l)
    BY <2>1 DEF ReplayInv
  <2>3. l.n \in Nat /\ l.n <= Len(games) /\ Len(games) \in Nat
    BY <2>1 DEF TypeInv, TypeOK, RepType, Aligned
  <2>4. QED
    BY <2>1, <2>2, <2>3, SaveKeepsFacts
<1>2. /\ Played(games, p, d) \in Nat /\ Played(games', p, d) \in Nat
      /\ Played(games, p, d) <= Played(games', p, d)
  BY GamesOnGrows
<1>3. CASE GroupOf[p] # l.group
  <2>1. grid'[p][d] = grid[p][d]
    BY <1>3 DEF SaveRecompute, SavedGrid
  <2>2. grid[p][d].games <= Played(games, p, d) /\ grid[p][d].games \in Nat
    BY DEF CountsNeverExceed, Played, TypeInv, TypeOK, GridRow
  <2>3. QED
    BY <1>2, <2>1, <2>2
<1>4. CASE GroupOf[p] = l.group
  <2>1. grid'[p][d] = IF l.count[p][d] > 0
          THEN [state |-> l.cats[p][d], games |-> l.count[p][d]] ELSE NoRow(p)
    BY <1>4 DEF SaveRecompute, SavedGrid
  <2>2. CASE l.count[p][d] > 0
    <3>1. grid'[p][d].games = Cardinality(GamesOn(l.out, n, p, d))
      BY <1>1, <1>4, <2>1, <2>2 DEF Replayed
    <3>2. GamesOn(l.out, n, p, d) \subseteq GamesOn(games, Len(games), p, d)
      <4>1. ASSUME NEW j \in GamesOn(l.out, n, p, d)
            PROVE  j \in GamesOn(games, Len(games), p, d)
        <5>1. j \in 1..n /\ Plays(l.out[j], p, d)
          BY <4>1 DEF GamesOn
        <5>2. /\ j \in 1..Len(games) /\ l.out[j].who = games[j].who
              /\ l.out[j].board = games[j].board
          BY <1>1, <5>1, OutIsGames
        <5>3. QED
          BY <5>1, <5>2 DEF GamesOn, Plays, InGame
      <4>2. QED
        BY <4>1
    <3>3. /\ IsFiniteSet(GamesOn(games, Len(games), p, d))
          /\ Cardinality(GamesOn(l.out, n, p, d)) \in Nat
      BY <1>1, GamesOnFinite
    <3>4. Cardinality(GamesOn(l.out, n, p, d)) <= Played(games, p, d)
      BY <3>2, <3>3, FS_Subset DEF Played
    <3>5. QED
      BY <1>2, <3>1, <3>3, <3>4
  <2>3. CASE ~(l.count[p][d] > 0)
    BY <1>2, <2>1, <2>3 DEF NoRow
  <2>4. QED
    BY <2>2, <2>3
<1>5. QED
  BY <1>3, <1>4

(***************************************************************************)
(* Whatever runs concurrently, also when reads fail and recomputes rebuild *)
(* the grid, player_ratings.games counts no game that was not played.      *)
(***************************************************************************)
THEOREM CountsBounded == Spec => []CountsNeverExceed
<1> DEFINE Inv == CountsNeverExceed /\ ReadsCounted
<1>1. Init => Inv
  <2> SUFFICES ASSUME Init PROVE Inv
    OBVIOUS
  <2>1. ReadsCounted
    BY DEF Init, ReadsCounted, IdleRec
  <2>2. Len(games) = 0 /\ 0 \in Nat
    BY DEF Init
  <2>3. ASSUME NEW p \in Player, NEW d \in Board
        PROVE  grid[p][d].games <= Cardinality(GamesOn(games, Len(games), p, d))
    <3>1. grid[p][d].games = 0
      BY DEF Init, NoRow
    <3>2. QED
      BY <2>2, <3>1, GamesOnFinite
  <2>4. QED
    BY <2>1, <2>3 DEF CountsNeverExceed
<1>2. RepairInv /\ Inv /\ [Next]_vars => Inv'
  <2> SUFFICES ASSUME RepairInv, Inv, [Next]_vars PROVE Inv'
    OBVIOUS
  <2>1. TypeInv /\ ReplayInv
    BY DEF RepairInv, RowInv
  <2>2. ReadsCounted'
    BY <2>1, NextReadsCounted
  <2>3. CASE grid' = grid
    <3> SUFFICES ASSUME NEW p \in Player, NEW d \in Board
                 PROVE  grid'[p][d].games <= Played(games', p, d)
      BY <2>2 DEF CountsNeverExceed, Played
    <3>1. grid[p][d].games <= Played(games, p, d) /\ grid[p][d].games \in Nat
      BY <2>1 DEF CountsNeverExceed, Played, TypeInv, TypeOK, GridRow
    <3>2. QED
      BY <2>1, <2>3, <3>1, GamesOnGrows
  <2>4. ASSUME NEW r \in Recorder, CommitGame(r) PROVE CountsNeverExceed'
    BY <2>1, <2>4, CommitCounts DEF CountsNeverExceed, Played
  <2>5. ASSUME NEW q \in Replayer, SaveRecompute(q) PROVE CountsNeverExceed'
    BY <2>1, <2>5, SaveCounts DEF CountsNeverExceed, Played
  <2>6. QED
    BY <2>2, <2>3, <2>4, <2>5, TableSteps DEF CreatePlayer
<1>3. QED
  BY <1>1, <1>2, RepairInvariant, PTL DEF Spec

-----------------------------------------------------------------------------
(* Requests served one at a time: every rating is reproducible. *)

\* At most one request or recompute is under way.
Alone ==
  /\ \A r \in Recorder : rec[r].pc # "idle" =>
       /\ \A u \in Recorder : u # r => rec[u].pc = "idle"
       /\ \A q \in Replayer : rep[q].pc = "idle"
  /\ \A q \in Replayer : rep[q].pc # "idle" =>
       /\ \A u \in Replayer : u # q => rep[u].pc = "idle"
       /\ \A r \in Recorder : rec[r].pc = "idle"

\* What the local variables l of a request have read is what is stored.
ReadCurrent(l) ==
  LET b == l.who["black"]
      w == l.who["white"]
  IN  /\ l.pc # "idle" => l.read["black"].overall = overall[b]
      /\ l.pc \in {"readBlackCat", "readWhiteCat", "commit"} =>
           l.read["white"].overall = overall[w]
      /\ l.pc \in {"readWhiteCat", "commit"} =>
           /\ l.read["black"].cat = grid[b][l.board].state
           /\ l.count["black"] = grid[b][l.board].games
      /\ l.pc = "commit" =>
           /\ l.read["white"].cat = grid[w][l.board].state
           /\ l.count["white"] = grid[w][l.board].games

ReadsCurrent == \A r \in Recorder : ReadCurrent(rec[r])

\* What a recompute has listed is all there is.
ListsCurrent ==
  \A q \in Replayer :
    /\ rep[q].pc # "idle" => rep[q].listed = {p \in created : GroupOf[p] = rep[q].group}
    /\ rep[q].pc = "replay" => rep[q].n = Len(games)

SerialInv == RepairInv /\ Alone /\ ReadsCurrent /\ ListsCurrent /\ Reproducible

LEMMA SerialUndisturbed ==
  ASSUME RepairInv, ListsCurrent, NEW q \in Replayer, rep[q].pc = "replay"
  PROVE  Undisturbed(q)
  BY DEF ListsCurrent, Undisturbed, RepairInv, RowInv, GamesWellFormed

LEMMA ReproducibleStands ==
  Reproducible <=> /\ \A g \in Group : ChainedIn(g)
                   /\ \A g \in Group : StoredFromGamesIn(g)
                   /\ RowsConsistent
  BY LedgerAssumption DEF Reproducible, ReproducibleIn

\* A request that starts, starts alone.
LEMMA NextAlone ==
  ASSUME OneAtATime, TypeInv, Alone, [Next]_vars
  PROVE  Alone'
<1>0. rec \in [Recorder -> RecType] /\ rep \in [Replayer -> RepType]
  BY DEF TypeInv, TypeOK
<1>1. CASE rec' = rec /\ rep' = rep
  BY <1>1 DEF Alone
<1>2. ASSUME NEW r \in Recorder, RecorderNext(r) PROVE Alone'
  <2>1. rep' = rep /\ \A u \in Recorder : u # r => rec'[u] = rec[u]
    BY <1>0, <1>2 DEF RecorderNext, BeginRecord, ReadWhite, ReadBlackCat, ReadWhiteCat,
       ReadCat, CommitGame, AbandonRecord
  <2>2. (rec[r].pc = "idle" /\ MayStart) \/ rec[r].pc # "idle"
    BY <1>2 DEF RecorderNext, BeginRecord, ReadWhite, ReadBlackCat, ReadWhiteCat,
       ReadCat, CommitGame, AbandonRecord
  <2>3. /\ \A u \in Recorder : u # r => rec[u].pc = "idle"
        /\ \A q \in Replayer : rep[q].pc = "idle"
    BY <2>2 DEF MayStart, Alone
  <2>4. QED
    BY <2>1, <2>3 DEF Alone
<1>3. ASSUME NEW q \in Replayer, ReplayerNext(q) PROVE Alone'
  <2>1. rec' = rec /\ \A u \in Replayer : u # q => rep'[u] = rep[u]
    BY <1>0, <1>3 DEF ReplayerNext, ListPlayers, ListGames, ReplayGame, SaveRecompute,
       AbandonRecompute
  <2>2. (rep[q].pc = "idle" /\ MayStart) \/ rep[q].pc # "idle"
    BY <1>3 DEF ReplayerNext, ListPlayers, ListGames, ReplayGame, SaveRecompute,
       AbandonRecompute
  <2>3. /\ \A u \in Replayer : u # q => rep[u].pc = "idle"
        /\ \A r \in Recorder : rec[r].pc = "idle"
    BY <2>2 DEF MayStart, Alone
  <2>4. QED
    BY <2>1, <2>3 DEF Alone
<1>4. QED
  BY <1>1, <1>2, <1>3 DEF Next, CreatePlayer, vars

\* What is stored changes only when no request is in front of its commit.
LEMMA StoredSteps ==
  ASSUME OneAtATime, TypeInv, Alone, [Next]_vars
  PROVE  \/ UNCHANGED <<created, overall, grid, games>>
         \/ /\ \A r \in Recorder : rec'[r].pc = "idle"
            /\ \A q \in Replayer : rep'[q].pc = "idle"
<1>0. rec \in [Recorder -> RecType] /\ rep \in [Replayer -> RepType]
  BY DEF TypeInv, TypeOK
<1>1. ASSUME NEW p \in Player, CreatePlayer(p)
      PROVE  /\ \A r \in Recorder : rec'[r].pc = "idle"
             /\ \A q \in Replayer : rep'[q].pc = "idle"
  BY <1>1 DEF CreatePlayer, MayStart
<1>2. ASSUME NEW r \in Recorder, CommitGame(r)
      PROVE  /\ \A u \in Recorder : rec'[u].pc = "idle"
             /\ \A q \in Replayer : rep'[q].pc = "idle"
  <2>1. /\ rep' = rep /\ rec'[r].pc = "idle"
        /\ \A u \in Recorder : u # r => rec'[u] = rec[u]
    BY <1>0, <1>2 DEF CommitGame, IdleRec
  <2>2. rec[r].pc # "idle"
    BY <1>2 DEF CommitGame
  <2>3. QED
    BY <2>1, <2>2 DEF Alone
<1>3. ASSUME NEW q \in Replayer, SaveRecompute(q)
      PROVE  /\ \A r \in Recorder : rec'[r].pc = "idle"
             /\ \A u \in Replayer : rep'[u].pc = "idle"
  <2>1. /\ rec' = rec /\ rep'[q].pc = "idle"
        /\ \A u \in Replayer : u # q => rep'[u] = rep[u]
    BY <1>0, <1>3 DEF SaveRecompute, IdleRep
  <2>2. rep[q].pc # "idle"
    BY <1>3 DEF SaveRecompute
  <2>3. QED
    BY <2>1, <2>2 DEF Alone
<1>4. ASSUME NEW r \in Recorder, RecorderNext(r), ~CommitGame(r)
      PROVE  UNCHANGED <<created, overall, grid, games>>
  <2>1. CASE \E g \in Group, b, w \in Player, d \in Board, o \in Result :
               BeginRecord(r, g, b, w, d, o)
    BY <2>1 DEF BeginRecord
  <2>2. CASE ReadWhite(r) \/ ReadBlackCat(r) \/ ReadWhiteCat(r)
    BY <2>2 DEF ReadWhite, ReadBlackCat, ReadWhiteCat, ReadCat
  <2>3. CASE AbandonRecord(r)
    BY <2>3 DEF AbandonRecord
  <2>4. QED
    BY <1>4, <2>1, <2>2, <2>3 DEF RecorderNext
<1>5. ASSUME NEW q \in Replayer, ReplayerNext(q), ~SaveRecompute(q)
      PROVE  UNCHANGED <<created, overall, grid, games>>
  BY <1>5 DEF ReplayerNext, ListPlayers, ListGames, ReplayGame, AbandonRecompute
<1>6. CASE UNCHANGED vars
  BY <1>6 DEF vars
<1>7. QED
  BY <1>1, <1>2, <1>3, <1>4, <1>5, <1>6 DEF Next

LEMMA BeginCurrent ==
  ASSUME TypeInv, NEW r \in Recorder, NEW g \in Group, NEW b \in Player,
         NEW w \in Player, NEW d \in Board, NEW o \in Result,
         BeginRecord(r, g, b, w, d, o)
  PROVE  ReadCurrent(rec'[r])
<1> DEFINE read == [IdleRec.read EXCEPT !["black"].overall = overall[b]]
           who == [s \in Side |-> IF s = "black" THEN b ELSE w]
           l == rec'[r]
<1>1. l = [IdleRec EXCEPT !.pc = "readWhite", !.group = g, !.who = who,
                          !.board = d, !.res = o, !.read = read]
  BY DEF BeginRecord, TypeInv, TypeOK
<1>2. IdleRec.read \in [Side -> Pair] /\ IdleRec \in RecType
  BY IdleRecType DEF RecType
<1>3. l.pc = "readWhite" /\ l.who = who /\ l.read = read
  <2> HIDE DEF read, who
  <2>1. QED BY <1>1, <1>2 DEF RecType
<1>4. who["black"] = b /\ read["black"].overall = overall[b]
  BY <1>2 DEF Side, Pair
<1> HIDE DEF read, who, l
<1>5. QED
  BY <1>3, <1>4 DEF ReadCurrent, l

LEMMA ReadWhiteCurrent ==
  ASSUME TypeInv, ReadsCurrent, NEW r \in Recorder, ReadWhite(r), rec'[r].pc # "idle"
  PROVE  ReadCurrent(rec'[r])
<1> DEFINE l == rec[r]
           w == l.who["white"]
           n == rec'[r]
<1>1. l \in RecType /\ l.pc = "readWhite" /\ ReadCurrent(l)
  BY DEF TypeInv, TypeOK, ReadsCurrent, ReadWhite
<1>2. n = [l EXCEPT !.pc = "readBlackCat", !.read["white"].overall = overall[w]]
  BY DEF ReadWhite, TypeInv, TypeOK, IdleRec
<1>3. /\ n.pc = "readBlackCat" /\ n.who = l.who
      /\ n.read["black"] = l.read["black"]
      /\ n.read["white"].overall = overall[w]
  BY <1>1, <1>2 DEF RecType, Side, Pair
<1> HIDE DEF n, l
<1>4. QED
  BY <1>1, <1>3 DEF ReadCurrent, n

LEMMA ReadCatCurrent ==
  ASSUME ~ReadErrors, TypeInv, ReadsCurrent, NEW r \in Recorder,
         ReadBlackCat(r) \/ ReadWhiteCat(r)
  PROVE  ReadCurrent(rec'[r])
<1> DEFINE l == rec[r]
           n == rec'[r]
<1>1. PICK s \in Side, to \in RecPC :
        /\ ReadCat(r, s, l.pc, to)
        /\ \/ s = "black" /\ l.pc = "readBlackCat" /\ to = "readWhiteCat"
           \/ s = "white" /\ l.pc = "readWhiteCat" /\ to = "commit"
  BY DEF ReadBlackCat, ReadWhiteCat, ReadCat, Side, RecPC
<1>2. l \in RecType /\ ReadCurrent(l)
  BY DEF TypeInv, TypeOK, ReadsCurrent
<1> DEFINE row == grid[l.who[s]][l.board]
<1>3. n = [l EXCEPT !.pc = to, !.read[s].cat = row.state, !.count[s] = row.games]
  BY <1>1 DEF ReadCat, TypeInv, TypeOK, CategoryReads
<1>4. /\ n.pc = to /\ n.who = l.who /\ n.board = l.board
      /\ n.read[s].cat = row.state /\ n.count[s] = row.games
      /\ \A t \in Side : n.read[t].overall = l.read[t].overall
      /\ \A t \in Side : t # s => n.read[t].cat = l.read[t].cat /\ n.count[t] = l.count[t]
  <2> HIDE DEF row
  <2>1. QED BY <1>2, <1>3 DEF RecType, Pair
<1> HIDE DEF n, l
<1>5. ReadCurrent(n)
  BY <1>1, <1>2, <1>4 DEF ReadCurrent, Side
<1>6. QED
  BY <1>5 DEF n

LEMMA NextReadsCurrent ==
  ASSUME OneAtATime, ~ReadErrors, TypeInv, Alone, ReadsCurrent, [Next]_vars
  PROVE  ReadsCurrent'
<1>1. CASE \A r \in Recorder : rec'[r].pc = "idle"
  BY <1>1 DEF ReadsCurrent, ReadCurrent
<1>2. CASE UNCHANGED <<overall, grid>>
  <2> SUFFICES ASSUME NEW r \in Recorder, rec'[r].pc # "idle"
               PROVE  ReadCurrent(rec'[r])
    BY <1>2 DEF ReadsCurrent, ReadCurrent
  <2>1. CASE rec'[r] = rec[r]
    BY <2>1 DEF ReadsCurrent
  <2>2. QED
    BY <2>1, RecSteps, BeginCurrent, ReadWhiteCurrent, ReadCatCurrent
<1>3. QED
  BY <1>1, <1>2, StoredSteps

LEMMA NextListsCurrent ==
  ASSUME OneAtATime, TypeInv, Alone, ListsCurrent, [Next]_vars
  PROVE  ListsCurrent'
<1>0. rep \in [Replayer -> RepType] /\ IdleRep \in RepType
  BY IdleRepType DEF TypeInv, TypeOK
<1>1. CASE \A q \in Replayer : rep'[q].pc = "idle"
  BY <1>1 DEF ListsCurrent
<1>2. CASE UNCHANGED <<created, games>>
  <2> SUFFICES ASSUME NEW q \in Replayer
               PROVE  /\ rep'[q].pc # "idle" =>
                           rep'[q].listed = {p \in created : GroupOf[p] = rep'[q].group}
                      /\ rep'[q].pc = "replay" => rep'[q].n = Len(games)
    BY <1>2 DEF ListsCurrent
  <2>1. CASE rep'[q] = rep[q]
    BY <2>1 DEF ListsCurrent
  <2>2. CASE rep'[q].pc = "idle"
    BY <2>2
  <2>3. ASSUME NEW g \in Group, ListPlayers(q, g)
        PROVE  /\ rep'[q].pc = "listGames"
               /\ rep'[q].listed = {p \in created : GroupOf[p] = rep'[q].group}
    BY <1>0, <2>3 DEF ListPlayers, RepType
  <2>4. CASE ListGames(q)
    <3> DEFINE ov == [p \in Player |-> Start(rep[q].listed, p, Overall)]
               ca == [p \in Player |-> [d \in Board |-> Start(rep[q].listed, p, d)]]
    <3>1. rep'[q] = [IdleRep EXCEPT !.pc = "replay", !.group = rep[q].group,
            !.listed = rep[q].listed, !.n = Len(games), !.overall = ov, !.cats = ca]
      BY <1>0, <2>4 DEF ListGames
    <3> HIDE DEF ov, ca
    <3>2. /\ rep'[q].n = Len(games) /\ rep'[q].group = rep[q].group
          /\ rep'[q].listed = rep[q].listed
      BY <1>0, <3>1 DEF RepType
    <3>3. QED
      BY <2>4, <3>2 DEF ListsCurrent, ListGames
  <2>5. CASE ReplayGame(q)
    <3> DEFINE gm == games[Len(rep[q].out) + 1]
    <3>1. rep'[q] = Replay(rep[q], gm) /\ rep[q] \in RepType
      BY <1>0, <2>5 DEF ReplayGame
    <3> HIDE DEF gm
    <3>2. /\ rep'[q].n = rep[q].n /\ rep'[q].group = rep[q].group
          /\ rep'[q].listed = rep[q].listed
      BY <3>1 DEF Replay, RepType
    <3>3. QED
      BY <2>5, <3>2 DEF ListsCurrent, ReplayGame
  <2>6. QED
    BY <2>1, <2>2, <2>3, <2>4, <2>5, ListedSteps
<1>3. QED
  BY <1>1, <1>2, StoredSteps

LEMMA StandsForAll ==
  ASSUME TypeInv, \A g \in Group : StoredFromGamesIn(g)
  PROVE  AllStand /\ \A p \in Player, d \in Board :
           grid[p][d].games = Cardinality(GamesOn(games, Len(games), p, d))
<1>1. \A p \in Player : GroupOf[p] \in Group
  BY LedgerAssumption
<1>2. QED
  BY <1>1 DEF AllStand, StoredFromGamesIn

LEMMA CommitReproducible ==
  ASSUME SerialInv, NEW r \in Recorder, CommitGame(r), NEW g \in Group
  PROVE  ChainedIn(g)' /\ StoredFromGamesIn(g)'
<1> DEFINE q == rec[r]
           n == Len(games)
<1>1. /\ games \in Seq(Game) /\ n \in Nat /\ Len(games') = n + 1 /\ q \in RecType
      /\ \A j \in 1..n : games'[j] = games[j]
  BY CommitAppends DEF SerialInv, RepairInv, RowInv, TypeInv, TypeOK
<1>2. /\ games'[n+1].who = q.who /\ games'[n+1].board = q.board
      /\ games'[n+1].before = q.read
  BY <1>1 DEF CommitGame
<1>3. /\ TypeInv /\ AllStand
      /\ \A p \in Player, d \in Board :
           grid[p][d].games = Cardinality(GamesOn(games, n, p, d))
  BY StandsForAll, ReproducibleStands DEF SerialInv, RepairInv, RowInv
<1>4. ReadCurrent(q) /\ q.pc = "commit"
  BY DEF SerialInv, ReadsCurrent, CommitGame
<1>5. ChainedIn(g)'
  <2> SUFFICES ASSUME NEW i \in 1..Len(games'), NEW s \in Side, games'[i].group = g,
                      NEW c \in {Overall, games'[i].board}
               PROVE  Standing(games', i-1, games'[i].who[s], c, Seed[games'[i].who[s]],
                               Part(games'[i].before[s], c))
    BY DEF ChainedIn
  <2>1. i-1 \in Nat /\ \A j \in 1..(i-1) : games[j] = games'[j]
    BY <1>1
  <2>2. CASE i \in 1..n
    <3>1. games'[i] = games[i]
      BY <1>1, <2>2
    <3>2. Standing(games, i-1, games[i].who[s], c, Seed[games[i].who[s]],
                   Part(games[i].before[s], c))
      BY <2>2, <3>1, ReproducibleStands DEF SerialInv, ChainedIn
    <3>3. QED
      BY <2>1, <3>1, <3>2, StandingPrefix
  <2>3. CASE i = n + 1
    <3> DEFINE p == q.who[s]
    <3>1. p \in Player /\ q.board \in Board /\ q.board # Overall /\ c \in {Overall, q.board}
      BY <1>1, <1>2, <2>3, LedgerAssumption DEF RecType
    <3>2. Part(q.read[s], c) = Stored(p, c)
      BY <1>4, <3>1 DEF Part, Stored, ReadCurrent, Side
    <3>3. Standing(games, n, p, c, Seed[p], Stored(p, c))
      BY <1>3, <3>1 DEF AllStand, Category
    <3> HIDE DEF p
    <3>4. Standing(games', n, p, c, Seed[p], Stored(p, c))
      BY <1>1, <3>3, StandingPrefix
    <3>5. QED
      BY <1>1, <1>2, <2>3, <3>2, <3>4 DEF p
  <2>4. QED
    BY <1>1, <2>2, <2>3
<1>6. AllStand'
  BY <1>3, CommitStands
<1>7. ASSUME NEW p \in Player, NEW d \in Board
      PROVE  grid'[p][d].games = Cardinality(GamesOn(games', Len(games'), p, d))
  <2>1. /\ Plays(games'[n+1], p, d) => Cardinality(GamesOn(games', n+1, p, d)) =
                                         Cardinality(GamesOn(games', n, p, d)) + 1
        /\ ~Plays(games'[n+1], p, d) => Cardinality(GamesOn(games', n+1, p, d)) =
                                         Cardinality(GamesOn(games', n, p, d))
    BY <1>1, GamesOnNext
  <2>2. GamesOn(games', n, p, d) = GamesOn(games, n, p, d)
    BY <1>1, GamesOnSame
  <2>3. Plays(games'[n+1], p, d) <=> d = q.board /\ InGame(q, p)
    BY <1>2, LedgerAssumption DEF Plays, InGame
  <2>4. CASE d = q.board /\ InGame(q, p)
    <3> DEFINE s == SideOf(q, p)
    <3>1. s \in Side /\ q.who[s] = p
      BY <2>4 DEF SideOf, InGame, Side
    <3>2. grid'[p][d].games = q.count[s] + 1
      BY <2>4 DEF CommitGame, UpsertCategory
    <3> HIDE DEF s
    <3>3. q.count[s] = grid[p][d].games
      BY <1>4, <2>4, <3>1 DEF ReadCurrent, Side
    <3>4. QED
      BY <1>1, <1>3, <2>1, <2>2, <2>3, <2>4, <3>2, <3>3
  <2>5. CASE ~(d = q.board /\ InGame(q, p))
    <3>1. grid'[p][d] = grid[p][d]
      BY <2>5 DEF CommitGame, UpsertCategory
    <3>2. QED
      BY <1>1, <1>3, <2>1, <2>2, <2>3, <2>5, <3>1
  <2>6. QED
    BY <2>4, <2>5
<1>8. QED
  BY <1>5, <1>6, <1>7 DEF AllStand, StoredFromGamesIn

LEMMA CreateReproducible ==
  ASSUME SerialInv, NEW p \in Player, CreatePlayer(p), NEW g \in Group
  PROVE  ChainedIn(g)' /\ StoredFromGamesIn(g)'
<1>1. /\ AllStand /\ TypeInv /\ GamesWellFormed
      /\ \A u \in Player, d \in Board :
           grid[u][d].games = Cardinality(GamesOn(games, Len(games), u, d))
  BY StandsForAll, ReproducibleStands DEF SerialInv, RepairInv, RowInv
<1>2. AllStand'
  BY <1>1, CreateStands
<1>3. games' = games /\ grid' = grid
  BY DEF CreatePlayer
<1>4. ChainedIn(g)
  BY ReproducibleStands DEF SerialInv
<1>5. QED
  BY <1>1, <1>2, <1>3, <1>4 DEF AllStand, StoredFromGamesIn, ChainedIn

\* The save of a recompute leaves the other groups as they are.
LEMMA SaveElsewhere ==
  ASSUME RepairInv, NEW q \in Replayer, SaveRecompute(q), NEW g, g # rep[q].group,
         ChainedIn(g), StoredFromGamesIn(g)
  PROVE  ChainedIn(g)' /\ StoredFromGamesIn(g)'
<1> DEFINE l == rep[q]
           n == Len(games)
<1>1. /\ TypeInv /\ GamesWellFormed /\ n \in Nat /\ Len(games') = n /\ Listed(l)
      /\ games \in Seq(Game)
  <2>1. TypeInv /\ GamesWellFormed
    BY DEF RepairInv, RowInv
  <2>2. games \in Seq(Game) /\ n \in Nat
    BY <2>1 DEF TypeInv, TypeOK
  <2>3. Listed(l)
    BY DEF RepairInv, ReplayInv, SaveRecompute
  <2>4. QED
    BY <2>1, <2>2, <2>3, SaveKeepsFacts
<1>2. ASSUME NEW j \in 1..n, games[j].group = g
      PROVE  games'[j] = games[j]
  BY <1>1, <1>2, SavedRow
<1>3. ASSUME NEW p, GroupOf[p] = g, NEW c, NEW j \in 1..n
      PROVE  /\ Plays(games'[j], p, c) <=> Plays(games[j], p, c)
             /\ Plays(games[j], p, c) => After(games'[j], p, c) = After(games[j], p, c)
  <2>1. games'[j].who = games[j].who /\ games'[j].board = games[j].board
    BY <1>1, SavedRow
  <2>2. Plays(games'[j], p, c) <=> Plays(games[j], p, c)
    BY <2>1 DEF Plays, InGame
  <2>3. Plays(games[j], p, c) => games[j].group = g
    BY <1>1, <1>3 DEF Plays, InGame, GamesWellFormed
  <2>4. QED
    BY <1>2, <2>2, <2>3
<1>4. ASSUME NEW p, GroupOf[p] = g, NEW c, NEW e, NEW m \in 0..n,
             Standing(games, m, p, c, Seed[p], e)
      PROVE  Standing(games', m, p, c, Seed[p], e)
  <2>1. m \in Nat /\ \A j \in 1..m : j \in 1..n
    BY <1>1
  <2>2. \A j \in 1..m :
          /\ Plays(games'[j], p, c) <=> Plays(games[j], p, c)
          /\ Plays(games[j], p, c) => After(games'[j], p, c) = After(games[j], p, c)
    BY <1>3, <1>4, <2>1
  <2>3. QED
    BY <1>4, <2>1, <2>2, StandingAgree
<1>5. ChainedIn(g)'
  <2> SUFFICES ASSUME NEW i \in 1..Len(games'), NEW s \in Side, games'[i].group = g,
                      NEW c \in {Overall, games'[i].board}
               PROVE  Standing(games', i-1, games'[i].who[s], c, Seed[games'[i].who[s]],
                               Part(games'[i].before[s], c))
    BY DEF ChainedIn
  <2>1. i \in 1..n /\ i-1 \in 0..n
    BY <1>1
  <2>2. games'[i] = games[i]
    BY <1>1, <1>2, <2>1, SavedRow
  <2>3. GroupOf[games[i].who[s]] = g
    BY <1>1, <2>1, <2>2 DEF GamesWellFormed
  <2>4. Standing(games, i-1, games[i].who[s], c, Seed[games[i].who[s]],
                 Part(games[i].before[s], c))
    BY <2>1, <2>2 DEF ChainedIn
  <2>5. QED
    BY <1>4, <2>1, <2>2, <2>3, <2>4
<1>6. ASSUME NEW p \in Player, GroupOf[p] = g
      PROVE  /\ \A c \in Category :
                  Standing(games', Len(games'), p, c, Seed[p], Stored(p, c)')
             /\ \A d \in Board :
                  grid'[p][d].games = Cardinality(GamesOn(games', Len(games'), p, d))
  <2>1. /\ \A c \in Category : Standing(games, n, p, c, Seed[p], Stored(p, c))
        /\ \A d \in Board : grid[p][d].games = Cardinality(GamesOn(games, n, p, d))
    BY <1>6 DEF StoredFromGamesIn
  <2>2. overall'[p] = overall[p] /\ \A d \in Board : grid'[p][d] = grid[p][d]
    BY <1>1, <1>6 DEF SaveRecompute, SavedGrid, Listed
  <2>3. \A c \in Category : Stored(p, c)' = Stored(p, c)
    BY <2>2 DEF Stored, Category
  <2>4. \A c \in Category : Standing(games', n, p, c, Seed[p], Stored(p, c))
    BY <1>1, <1>4, <1>6, <2>1
  <2>5. \A d \in Board : GamesOn(games', n, p, d) = GamesOn(games, n, p, d)
    BY <1>3, <1>6 DEF GamesOn
  <2>6. QED
    BY <1>1, <2>1, <2>2, <2>3, <2>4, <2>5
<1>7. QED
  BY <1>5, <1>6 DEF StoredFromGamesIn

LEMMA NextReproducible ==
  ASSUME SerialInv, RowsConsistent', [Next]_vars
  PROVE  Reproducible'
<1>1. \A g \in Group : ChainedIn(g) /\ StoredFromGamesIn(g)
  BY ReproducibleStands DEF SerialInv
<1> SUFFICES ASSUME NEW g \in Group PROVE ChainedIn(g)' /\ StoredFromGamesIn(g)'
  BY DEF Reproducible, ReproducibleIn
<1>2. CASE UNCHANGED <<overall, grid, games>>
  BY <1>1, <1>2 DEF ChainedIn, StoredFromGamesIn, Stored
<1>3. ASSUME NEW p \in Player, CreatePlayer(p) PROVE ChainedIn(g)' /\ StoredFromGamesIn(g)'
  BY <1>3, CreateReproducible
<1>4. ASSUME NEW r \in Recorder, CommitGame(r) PROVE ChainedIn(g)' /\ StoredFromGamesIn(g)'
  BY <1>4, CommitReproducible
<1>5. ASSUME NEW q \in Replayer, SaveRecompute(q)
      PROVE  ChainedIn(g)' /\ StoredFromGamesIn(g)'
  <2>1. RepairInv /\ Undisturbed(q)
    BY <1>5, SerialUndisturbed DEF SerialInv, SaveRecompute
  <2>2. CASE rep[q].group = g
    BY <1>5, <2>1, <2>2, SavedChained, SavedStands
  <2>3. CASE rep[q].group # g
    BY <1>1, <1>5, <2>1, <2>3, SaveElsewhere
  <2>4. QED
    BY <2>2, <2>3
<1>6. ASSUME NEW r \in Recorder, RecorderNext(r) PROVE ChainedIn(g)' /\ StoredFromGamesIn(g)'
  <2>1. UNCHANGED <<overall, grid, games>> \/ CommitGame(r)
    BY <1>6 DEF RecorderNext, BeginRecord, ReadWhite, ReadBlackCat, ReadWhiteCat, ReadCat,
                AbandonRecord
  <2>2. QED
    BY <1>2, <1>4, <2>1
<1>7. ASSUME NEW q \in Replayer, ReplayerNext(q) PROVE ChainedIn(g)' /\ StoredFromGamesIn(g)'
  <2>1. UNCHANGED <<overall, grid, games>> \/ SaveRecompute(q)
    BY <1>7 DEF ReplayerNext, ListPlayers, ListGames, ReplayGame, AbandonRecompute
  <2>2. QED
    BY <1>2, <1>5, <2>1
<1>8. CASE UNCHANGED vars
  BY <1>2, <1>8 DEF vars
<1>9. QED
  BY <1>3, <1>6, <1>7, <1>8 DEF Next

LEMMA InitSerial == Init => Alone /\ ReadsCurrent /\ ListsCurrent /\ Reproducible
<1> SUFFICES ASSUME Init PROVE Alone /\ ReadsCurrent /\ ListsCurrent /\ Reproducible
  OBVIOUS
<1>1. Alone /\ ReadsCurrent /\ ListsCurrent
  BY DEF Init, Alone, ReadsCurrent, ReadCurrent, ListsCurrent, IdleRec, IdleRep
<1>2. Len(games) = 0 /\ 1..0 = {}
  BY DEF Init
<1>3. \A p, d : Cardinality(GamesOn(games, 0, p, d)) = 0
  <2>1. \A p, d : GamesOn(games, 0, p, d) = {}
    BY <1>2 DEF GamesOn
  <2>2. QED
    BY <2>1, FS_EmptySet
<1>4. AllStand
  BY InitStands
<1>5. \A p \in Player, d \in Board : grid[p][d].games = 0
  BY DEF Init, NoRow
<1>6. \A g \in Group : ChainedIn(g) /\ StoredFromGamesIn(g)
  BY <1>2, <1>3, <1>4, <1>5 DEF ChainedIn, StoredFromGamesIn, AllStand
<1>7. RowsConsistent
  BY <1>2 DEF RowsConsistent
<1>8. QED
  BY <1>1, <1>6, <1>7 DEF Reproducible, ReproducibleIn

LEMMA SerialInvariant ==
  ASSUME OneAtATime, ~ReadErrors
  PROVE  Spec => []SerialInv
<1> DEFINE Inv == Alone /\ ReadsCurrent /\ ListsCurrent /\ Reproducible
<1>1. RepairInv /\ RepairInv' /\ Inv /\ [Next]_vars => Inv'
  <2> SUFFICES ASSUME RepairInv, RepairInv', Inv, [Next]_vars PROVE Inv'
    OBVIOUS
  <2>1. TypeInv /\ SerialInv /\ RowsConsistent'
    BY DEF RepairInv, RowInv, SerialInv
  <2>2. QED
    BY <2>1, NextAlone, NextReadsCurrent, NextListsCurrent, NextReproducible
<1>2. QED
  BY <1>1, InitSerial, RepairInvariant, PTL DEF Spec, SerialInv

(***************************************************************************)
(* With requests served one at a time and no failing read, every rating,   *)
(* counter and snapshot is what a replay of the games from the seeds       *)
(* gives: live recording and a recompute agree (Service.RecordGame,        *)
(* Service.RecomputeGroup).                                                *)
(***************************************************************************)
THEOREM SerialReproducible ==
  ASSUME OneAtATime, ~ReadErrors
  PROVE  Spec => []Reproducible
<1>1. SerialInv => Reproducible
  BY DEF SerialInv
<1>2. QED
  BY <1>1, SerialInvariant, PTL

-----------------------------------------------------------------------------
(* Requests served one at a time: the ledger implements the league. *)

\* A set of numbers that is not empty has a least one.
LEMMA Least ==
  ASSUME NEW S \in SUBSET Nat, S # {}
  PROVE  \E m \in S : \A k \in S : m <= k
<1> DEFINE R == {ss \in Nat \X Nat : ss[1] < ss[2]}
<1>1. IsWellFoundedOn(R, Nat)
  BY NatLessThanWellFounded DEF OpToRel
<1>2. ASSUME NEW x \in Nat, NEW y \in Nat, y < x
      PROVE  <<y, x>> \in R
  BY <1>2
<1> HIDE DEF R
<1>3. PICK x \in S : \A y \in S : ~(<<y, x>> \in R)
  BY <1>1, WFMin
<1>4. \A y \in S : ~(y < x)
  BY <1>2, <1>3
<1>5. \A y \in S : x <= y
  BY <1>4
<1>6. QED
  BY <1>5

\* A step that keeps the facts of the games and reproduces both before and
\* after changes no rating.
LEMMA SaveStutters ==
  ASSUME SerialInv, Reproducible', TypeOK', NEW q \in Replayer, SaveRecompute(q)
  PROVE  games' = games /\ overall' = overall /\ grid' = grid
<1> DEFINE n == Len(games)
           Differ == {i \in 1..n : games'[i] # games[i]}
<1>1. /\ TypeInv /\ GamesWellFormed /\ RowsConsistent /\ RowsConsistent'
      /\ \A g \in Group : ChainedIn(g) /\ StoredFromGamesIn(g)
      /\ \A g \in Group : ChainedIn(g)' /\ StoredFromGamesIn(g)'
  BY LedgerAssumption DEF SerialInv, RepairInv, RowInv, Reproducible, ReproducibleIn
<1>2. /\ games \in Seq(Game) /\ games' \in Seq(Game) /\ n \in Nat /\ Len(games') = n
      /\ \A i \in 1..n : Facts(games'[i]) = Facts(games[i])
  BY <1>1, SaveKeepsFacts DEF TypeInv, TypeOK
<1>3. Differ = {}
  <2> SUFFICES ASSUME Differ # {} PROVE FALSE
    OBVIOUS
  <2>1. Differ \in SUBSET Nat
    BY <1>2
  <2>2. PICK i \in Differ : \A k \in Differ : i <= k
    <3> HIDE DEF Differ
    <3>1. QED BY <2>1, Least
  <2>3. /\ i \in 1..n /\ games'[i] # games[i] /\ games[i] \in Game /\ games'[i] \in Game
        /\ \A j \in 1..(i-1) : games'[j] = games[j]
    BY <1>2, <2>2
  <2>4. /\ games'[i].group = games[i].group /\ games'[i].who = games[i].who
        /\ games'[i].board = games[i].board /\ games'[i].res = games[i].res
    BY <1>2, <2>3 DEF Facts
  <2>5. ASSUME NEW s \in Side, NEW c \in {Overall, games[i].board}
        PROVE  Part(games'[i].before[s], c) = Part(games[i].before[s], c)
    <3> DEFINE p == games[i].who[s]
               g == games[i].group
    <3>1. g \in Group
      BY <2>3 DEF Game
    <3>2. Standing(games, i-1, p, c, Seed[p], Part(games[i].before[s], c))
      BY <1>1, <2>3, <3>1 DEF ChainedIn
    <3>3. Standing(games', i-1, p, c, Seed[p], Part(games'[i].before[s], c))
      BY <1>1, <1>2, <2>3, <2>4, <3>1 DEF ChainedIn
    <3>4. i-1 \in Nat
      BY <2>3
    <3> HIDE DEF p
    <3>5. Standing(games, i-1, p, c, Seed[p], Part(games'[i].before[s], c))
      BY <2>3, <3>3, <3>4, StandingPrefix
    <3>6. QED
      BY <3>2, <3>4, <3>5, StandingUnique
  <2>6. games[i].board # Overall
    BY <2>3, LedgerAssumption DEF Game
  <2>7. \A s \in Side : games'[i].before[s] = games[i].before[s]
    <3> SUFFICES ASSUME NEW s \in Side PROVE games'[i].before[s] = games[i].before[s]
      OBVIOUS
    <3>1. /\ games'[i].before[s].overall = games[i].before[s].overall
          /\ games'[i].before[s].cat = games[i].before[s].cat
      BY <2>5, <2>6 DEF Part
    <3>2. games'[i].before[s] \in Pair /\ games[i].before[s] \in Pair
      BY <2>3 DEF Game
    <3>3. QED
      BY <3>1, <3>2 DEF Pair
  <2>8. games'[i].before = games[i].before
    BY <2>3, <2>7 DEF Game
  <2>9. games'[i].after = games[i].after
    BY <1>1, <1>2, <2>3, <2>4, <2>8 DEF RowsConsistent
  <2>10. games'[i] = games[i]
    BY <2>3, <2>4, <2>8, <2>9 DEF Game
  <2>11. QED
    BY <2>3, <2>10
<1>4. games' = games
  BY <1>2, <1>3
<1>5. ASSUME NEW p \in Player, NEW c \in Category
      PROVE  Stored(p, c)' = Stored(p, c)
  <2>1. GroupOf[p] \in Group
    BY LedgerAssumption
  <2>2. Standing(games, n, p, c, Seed[p], Stored(p, c))
    BY <1>1, <2>1 DEF StoredFromGamesIn
  <2>3. Standing(games', Len(games'), p, c, Seed[p], Stored(p, c)')
    BY <1>1, <2>1 DEF StoredFromGamesIn
  <2>4. QED
    BY <1>2, <1>4, <2>2, <2>3, StandingUnique
<1>6. ASSUME NEW p \in Player, NEW d \in Board
      PROVE  grid'[p][d] = grid[p][d]
  <2>1. GroupOf[p] \in Group
    BY LedgerAssumption
  <2>2. grid'[p][d].games = grid[p][d].games
    BY <1>1, <1>4, <2>1 DEF StoredFromGamesIn
  <2>3. grid'[p][d].state = grid[p][d].state
    BY <1>5, LedgerAssumption DEF Category, Stored
  <2>4. grid'[p][d] \in GridRow /\ grid[p][d] \in GridRow
    BY <1>1 DEF TypeInv, TypeOK
  <2>5. QED
    BY <2>2, <2>3, <2>4 DEF GridRow
<1>7. \A p \in Player : overall'[p] = overall[p]
  BY <1>5 DEF Category, Stored
<1>8. overall \in [Player -> Entry] /\ overall' \in [Player -> Entry]
  BY <1>1 DEF TypeInv, TypeOK
<1>9. overall' = overall
  BY <1>7, <1>8
<1>10. grid \in [Player -> [Board -> GridRow]] /\ grid' \in [Player -> [Board -> GridRow]]
  BY <1>1 DEF TypeInv, TypeOK
<1>11. grid' = grid
  <2>1. \A p \in Player : grid'[p] = grid[p]
    BY <1>6, <1>10
  <2>2. QED
    BY <1>10, <2>1
<1>12. QED
  BY <1>4, <1>9, <1>11

\* The INSERT of a player is the league's Add: his rating is his seed already.
LEMMA CreateIsAdd ==
  ASSUME RepairInv, NEW p \in Player, CreatePlayer(p)
  PROVE  Abstract!Add(p)
<1>1. TypeInv /\ GamesWellFormed /\ Unplayed
  BY DEF RepairInv, RowInv
<1>2. \A j \in 1..Len(games) : ~InGame(games[j], p)
  BY <1>1 DEF GamesWellFormed, CreatePlayer, InGame
<1>3. overall[p] = Seed[p] /\ overall \in [Player -> Entry]
  BY <1>1, <1>2 DEF Unplayed, TypeInv, TypeOK
<1>4. overall' = overall
  BY <1>3 DEF CreatePlayer
<1>5. QED
  BY <1>4 DEF CreatePlayer, Abstract!Add

\* The commit of a game is the league's Record of it.
LEMMA CommitIsRecord ==
  ASSUME SerialInv, NEW r \in Recorder, CommitGame(r)
  PROVE  Abstract!Record(rec[r].who, rec[r].board, rec[r].res)
<1> DEFINE q == rec[r]
           before == [s \in Side |-> [overall |-> overall[q.who[s]],
                                      cat     |-> grid[q.who[s]][q.board].state]]
           after == [s \in Side |->
                      LET opp == before[Opponent(s)].overall
                      IN  [overall |-> Rate(before[s].overall, opp, s, q.board, q.res),
                           cat     |-> Rate(before[s].cat, opp, s, q.board, q.res)]]
<1>1. /\ q \in RecType /\ q.pc = "commit" /\ ReadCurrent(q)
      /\ q.who["black"] # q.who["white"]
      /\ \A s \in Side : q.who[s] \in created /\ GroupOf[q.who[s]] = q.group
  <2>1. RequestsChecked /\ ReadCurrent(q) /\ q \in RecType
    BY DEF SerialInv, RepairInv, RowInv, TypeInv, TypeOK, ReadsCurrent
  <2>2. q.pc = "commit"
    BY DEF CommitGame
  <2>3. QED
    BY <2>1, <2>2 DEF RequestsChecked
<1>2. q.read = before
  <2>1. q.read \in [Side -> Pair]
    BY <1>1 DEF RecType
  <2>2. \A s \in Side : q.read[s] = [overall |-> overall[q.who[s]],
                                     cat |-> grid[q.who[s]][q.board].state]
    <3>1. \A s \in Side : /\ q.read[s].overall = overall[q.who[s]]
                          /\ q.read[s].cat = grid[q.who[s]][q.board].state
      BY <1>1 DEF ReadCurrent, Side
    <3>2. QED
      BY <2>1, <3>1 DEF Pair
  <2>3. QED
    BY <2>1, <2>2
<1>3. after = RateGame(q.read, q.board, q.res)
  <2> HIDE DEF before
  <2>1. QED BY <1>2 DEF RateGame, RateSide
<1>4. q.group = GroupOf[q.who["black"]] /\ GroupOf[q.who["black"]] = GroupOf[q.who["white"]]
  BY <1>1 DEF Side
<1>5. games' = Append(games,
        [group |-> GroupOf[q.who["black"]], who |-> q.who, board |-> q.board,
         res |-> q.res, before |-> before, after |-> after])
  <2> HIDE DEF before, after
  <2>1. QED BY <1>2, <1>3, <1>4 DEF CommitGame
<1>6. overall' = [p \in Player |-> IF \E s \in Side : q.who[s] = p
                    THEN after[IF q.who["black"] = p THEN "black" ELSE "white"].overall
                    ELSE overall[p]]
  <2> HIDE DEF after
  <2>1. QED BY <1>3 DEF CommitGame, WriteOverall, InGame, SideOf
<1>7. \A p \in Player : InGame(q, p) =>
        q.count[SideOf(q, p)] = grid[p][q.board].games
  BY <1>1 DEF ReadCurrent, InGame, SideOf, Side
<1>8. grid' = [p \in Player |-> [e \in Board |->
        IF e = q.board /\ \E s \in Side : q.who[s] = p
          THEN [state |-> after[IF q.who["black"] = p THEN "black" ELSE "white"].cat,
                games |-> grid[p][e].games + 1]
          ELSE grid[p][e]]]
  <2> HIDE DEF after
  <2>1. grid' = UpsertCategory(q, after)
    BY <1>3 DEF CommitGame
  <2>2. ASSUME NEW p \in Player, NEW e \in Board
        PROVE  (IF e = q.board /\ InGame(q, p)
                  THEN [state |-> after[SideOf(q, p)].cat,
                        games |-> q.count[SideOf(q, p)] + 1]
                  ELSE grid[p][e]) =
               (IF e = q.board /\ \E s \in Side : q.who[s] = p
                  THEN [state |-> after[IF q.who["black"] = p THEN "black" ELSE "white"].cat,
                        games |-> grid[p][e].games + 1]
                  ELSE grid[p][e])
    BY <1>7 DEF InGame, SideOf
  <2>3. QED
    BY <2>1, <2>2 DEF UpsertCategory
<1>9. Len(games) < MaxGames /\ created' = created
  BY DEF CommitGame
<1> HIDE DEF q
<1>10. Abstract!Record(q.who, q.board, q.res)
  BY <1>1, <1>4, <1>5, <1>6, <1>8, <1>9
     DEF Abstract!Record, Abstract!Side, Abstract!Opponent, Side, Opponent
<1>11. QED
  BY <1>10 DEF q

LEMMA StepImplements ==
  ASSUME SerialInv, Reproducible', TypeOK', [Next]_vars
  PROVE  [Abstract!Next]_(Abstract!vars)
<1>1. CASE UNCHANGED <<created, overall, grid, games>>
  BY <1>1 DEF Abstract!vars
<1>2. ASSUME NEW p \in Player, CreatePlayer(p) PROVE Abstract!Next
  BY <1>2, CreateIsAdd DEF SerialInv, Abstract!Next
<1>3. ASSUME NEW r \in Recorder, CommitGame(r) PROVE Abstract!Next
  <2>1. Abstract!Record(rec[r].who, rec[r].board, rec[r].res)
    BY <1>3, CommitIsRecord
  <2>2. rec[r].who \in [Side -> Player] /\ rec[r].board \in Board /\ rec[r].res \in Result
    BY DEF SerialInv, RepairInv, RowInv, TypeInv, TypeOK, RecType
  <2>3. QED
    BY <2>1, <2>2 DEF Abstract!Next, Abstract!Side, Side
<1>4. ASSUME NEW q \in Replayer, SaveRecompute(q)
      PROVE  UNCHANGED <<created, overall, grid, games>>
  BY <1>4, SaveStutters DEF SaveRecompute
<1>5. QED
  BY <1>1, <1>2, <1>3, <1>4, TableSteps

(***************************************************************************)
(* With requests served one at a time, the five statements of RecordGame   *)
(* are one atomic step of the league, and a recompute is no step at all.   *)
(***************************************************************************)
THEOREM SerialImplementsLeague ==
  ASSUME OneAtATime, ~ReadErrors
  PROVE  Spec => ImplementsLeague
<1>1. Init => Abstract!Init
  BY DEF Init, Abstract!Init, NoRow
<1>2. SerialInv /\ SerialInv' /\ [Next]_vars => [Abstract!Next]_(Abstract!vars)
  <2> SUFFICES ASSUME SerialInv, SerialInv', [Next]_vars
               PROVE  [Abstract!Next]_(Abstract!vars)
    OBVIOUS
  <2>1. Reproducible' /\ TypeOK'
    BY DEF SerialInv, RepairInv, RowInv, TypeInv
  <2>2. QED
    BY <2>1, StepImplements
<1>3. QED
  BY <1>1, <1>2, SerialInvariant, PTL DEF Spec, ImplementsLeague, Abstract!Spec

-----------------------------------------------------------------------------
(* Pages read beside the requests. *)

\* The games of hs are those of gs and newer ones.
Newer(gs, hs) ==
  /\ Len(gs) \in Nat /\ Len(hs) \in Nat /\ Len(gs) <= Len(hs)
  /\ \A i \in 1..Len(gs) : hs[i] = gs[i]

\* Explained, GamesOf and GamesIn of any games.
ExplainedBy(gs, list, p, c, e) ==
  e = Seed[p] \/ \E i \in list : Plays(gs[i], p, c) /\ e = After(gs[i], p, c)

PlayedBy(gs, p) == {i \in 1..Len(gs) : InGame(gs[i], p)}
InGroup(gs, g) == {i \in 1..Len(gs) : gs[i].group = g}

\* What has been read of a profile, and of a dashboard, is explained by the games.
ProfileOK(gs, w) ==
  /\ w.pc \in {"readGrid", "readGames"} =>
       ExplainedBy(gs, PlayedBy(gs, w.who), w.who, Overall, w.ratings[w.who])
  /\ w.pc = "readGames" => \A d \in Board :
       /\ ExplainedBy(gs, PlayedBy(gs, w.who), w.who, d, w.grid[d].state)
       /\ w.grid[d].games <= Cardinality(GamesOn(gs, Len(gs), w.who, d))

DashboardOK(gs, w) ==
  /\ w.pc = "readRecent" =>
       \A p \in Player : ExplainedBy(gs, InGroup(gs, w.group), p, Overall, w.ratings[p])
  /\ w.pc = "readTotal" =>
       /\ w.listed \subseteq InGroup(gs, w.group)
       /\ Cardinality(InGroup(gs, w.group)) <= RecentLimit =>
            \A p \in Player : ExplainedBy(gs, w.listed, p, Overall, w.ratings[p])

PageOK(gs, w) == ProfileOK(gs, w) /\ DashboardOK(gs, w)

PageInv == PageTypeOK /\ (Replayer = {} => \A v \in Viewer : PageOK(games, page[v]))

LEMMA ExplainedStays ==
  ASSUME NEW gs, NEW hs, Newer(gs, hs), NEW list, list \subseteq 1..Len(gs),
         NEW more, list \subseteq more, NEW p, NEW c, NEW e, ExplainedBy(gs, list, p, c, e)
  PROVE  ExplainedBy(hs, more, p, c, e)
BY DEF ExplainedBy, Newer

LEMMA InGroupFacts ==
  ASSUME NEW gs, Len(gs) \in Nat, NEW g
  PROVE  IsFiniteSet(InGroup(gs, g)) /\ Cardinality(InGroup(gs, g)) \in Nat
<1>1. IsFiniteSet(1..Len(gs)) /\ InGroup(gs, g) \subseteq 1..Len(gs)
  BY FS_Interval DEF InGroup
<1> DEFINE A == InGroup(gs, g)
<1> HIDE DEF A
<1>2. IsFiniteSet(A)
  BY <1>1, FS_Subset DEF A
<1>3. QED
  BY <1>2, FS_CardinalityType DEF A

\* What a page has read stays explained when games are recorded.
LEMMA PageStays ==
  ASSUME NEW gs, NEW hs, Newer(gs, hs), NEW w \in PageType, PageOK(gs, w)
  PROVE  PageOK(hs, w)
<1>1. /\ PlayedBy(gs, w.who) \subseteq 1..Len(gs)
      /\ PlayedBy(gs, w.who) \subseteq PlayedBy(hs, w.who)
  BY DEF PlayedBy, Newer
<1>2. /\ InGroup(gs, w.group) \subseteq 1..Len(gs)
      /\ InGroup(gs, w.group) \subseteq InGroup(hs, w.group)
  BY DEF InGroup, Newer
<1>3. ASSUME NEW d \in Board, NEW n \in Nat, n <= Cardinality(GamesOn(gs, Len(gs), w.who, d))
      PROVE  n <= Cardinality(GamesOn(hs, Len(hs), w.who, d))
  <2> DEFINE A == GamesOn(gs, Len(gs), w.who, d)
             B == GamesOn(hs, Len(hs), w.who, d)
  <2>1. A \subseteq B
    BY DEF GamesOn, Newer
  <2>2. IsFiniteSet(B) /\ Cardinality(A) \in Nat /\ Cardinality(B) \in Nat
    BY GamesOnFinite DEF Newer
  <2> HIDE DEF A, B
  <2>3. Cardinality(A) <= Cardinality(B)
    BY <2>1, <2>2, FS_Subset
  <2>4. QED
    BY <1>3, <2>2, <2>3 DEF A, B
<1>4. ProfileOK(hs, w)
  <2>1. \A d \in Board : w.grid[d].games \in Nat
    BY DEF PageType, GridRow
  <2>2. \A c, e : ExplainedBy(gs, PlayedBy(gs, w.who), w.who, c, e)
                    => ExplainedBy(hs, PlayedBy(hs, w.who), w.who, c, e)
    BY <1>1, ExplainedStays
  <2>3. QED
    BY <1>3, <2>1, <2>2 DEF PageOK, ProfileOK
<1>5. DashboardOK(hs, w)
  <2> DEFINE A == InGroup(gs, w.group)
             B == InGroup(hs, w.group)
  <2>1. IsFiniteSet(B) /\ Cardinality(A) \in Nat /\ Cardinality(B) \in Nat
    BY InGroupFacts DEF Newer
  <2>2. A \subseteq B /\ A \subseteq 1..Len(gs)
    BY <1>2
  <2> HIDE DEF A, B
  <2>3. Cardinality(A) <= Cardinality(B)
    BY <2>1, <2>2, FS_Subset
  <2>4. CASE w.pc = "readRecent"
    <3>1. \A p \in Player : ExplainedBy(gs, A, p, Overall, w.ratings[p])
      BY <2>4 DEF PageOK, DashboardOK, A
    <3>2. ASSUME NEW p \in Player PROVE ExplainedBy(hs, B, p, Overall, w.ratings[p])
      <4>1. ExplainedBy(gs, A, p, Overall, w.ratings[p])
        BY <3>1
      <4>2. QED
        BY <2>2, <4>1, ExplainedStays
    <3>3. QED
      BY <2>4, <3>2 DEF DashboardOK, B
  <2>5. CASE w.pc = "readTotal"
    <3>1. w.listed \subseteq A
      BY <2>5 DEF PageOK, DashboardOK, A
    <3>2. ASSUME Cardinality(B) <= RecentLimit
          PROVE  \A p \in Player : ExplainedBy(hs, w.listed, p, Overall, w.ratings[p])
      <4>1. Cardinality(A) <= RecentLimit
        BY <2>1, <2>3, <3>2, PagesAssumption
      <4>2. \A p \in Player : ExplainedBy(gs, w.listed, p, Overall, w.ratings[p])
        BY <2>5, <4>1 DEF PageOK, DashboardOK, A
      <4>3. w.listed \subseteq 1..Len(gs)
        BY <2>2, <3>1
      <4>4. QED
        BY <4>2, <4>3, ExplainedStays
    <3>3. QED
      BY <2>2, <2>5, <3>1, <3>2 DEF DashboardOK, B
  <2>6. QED
    BY <2>4, <2>5 DEF DashboardOK
<1>6. QED
  BY <1>4, <1>5 DEF PageOK

\* A rating that is stored is explained by the games of its player.
LEMMA StoredExplained ==
  ASSUME RowInv, RatingIsLastGame, Replayer = {}, NEW p \in Player, NEW c \in Category
  PROVE  /\ ExplainedBy(games, PlayedBy(games, p), p, c, Stored(p, c))
         /\ ExplainedBy(games, InGroup(games, GroupOf[p]), p, c, Stored(p, c))
<1>1. Standing(games, Len(games), p, c, Seed[p], Stored(p, c))
  BY DEF RatingIsLastGame
<1>2. \A i \in 1..Len(games) : Plays(games[i], p, c) =>
        i \in PlayedBy(games, p) /\ i \in InGroup(games, GroupOf[p])
  BY DEF RowInv, GamesWellFormed, Plays, InGame, PlayedBy, InGroup
<1>3. QED
  BY <1>1, <1>2 DEF Standing, ExplainedBy

\* A dashboard that may list all games of its group lists them.
LEMMA RecentFacts ==
  ASSUME TypeOK, NEW g
  PROVE  /\ Recent(g) \subseteq InGroup(games, g)
         /\ Cardinality(InGroup(games, g)) <= RecentLimit => Recent(g) = InGroup(games, g)
<1> DEFINE A == InGroup(games, g)
           newer(i) == {j \in A : j > i}
<1>1. Len(games) \in Nat
  BY DEF TypeOK
<1>2. IsFiniteSet(A) /\ Cardinality(A) \in Nat
  BY <1>1, InGroupFacts
<1>3. Recent(g) = {i \in A : Cardinality(newer(i)) < RecentLimit}
  BY DEF Recent, GamesIn, InGroup
<1>4. ASSUME NEW i \in A PROVE Cardinality(newer(i)) < Cardinality(A)
  <2>1. newer(i) \subseteq A \ {i}
    <3>1. i \in Nat
      BY <1>1 DEF InGroup
    <3>2. QED
      BY <3>1
  <2> DEFINE rest == A \ {i}
             late == newer(i)
  <2> HIDE DEF A
  <2>2. IsFiniteSet(rest) /\ Cardinality(rest) = Cardinality(A) - 1
    BY <1>2, FS_RemoveElement
  <2> HIDE DEF rest, late
  <2>3. Cardinality(late) <= Cardinality(rest) /\ IsFiniteSet(late)
    BY <2>1, <2>2, FS_Subset DEF rest, late
  <2>4. Cardinality(late) \in Nat
    BY <2>3, FS_CardinalityType
  <2>5. QED
    BY <1>2, <2>2, <2>3, <2>4 DEF late
<1>5. ASSUME NEW i \in A PROVE Cardinality(newer(i)) \in Nat
  <2> DEFINE late == newer(i)
  <2>1. late \subseteq A
    OBVIOUS
  <2> HIDE DEF late
  <2>2. QED
    BY <1>2, <2>1, FS_Subset, FS_CardinalityType DEF late
<1> HIDE DEF newer, A
<1>6. Cardinality(A) <= RecentLimit =>
        \A i \in A : Cardinality(newer(i)) < RecentLimit
  BY <1>2, <1>4, <1>5, PagesAssumption
<1>7. QED
  BY <1>3, <1>6 DEF A

LEMMA NoPageType == NoPage \in PageType
<1>1. AnyPlayer \in Player /\ GroupOf[AnyPlayer] \in Group /\ Seed \in [Player -> Entry]
  BY AnyPlayerType, LedgerAssumption
<1>2. NoRow(AnyPlayer) \in GridRow
  BY <1>1 DEF NoRow, GridRow
<1>3. QED
  BY <1>1, <1>2 DEF NoPage, PageType

\* What a read has to show of the page.
LEMMA PageRead ==
  ASSUME PageInv, NEW v \in Viewer, NEW from, NEW what \in PageType, Read(v, from, what),
         Replayer = {} => PageOK(games, what)
  PROVE  PageInv'
<1>1. /\ page \in [Viewer -> PageType] /\ page' = [page EXCEPT ![v] = what]
      /\ games' = games
  BY DEF PageInv, PageTypeOK, Read, vars
<1>2. \A u \in Viewer : page'[u] = IF u = v THEN what ELSE page[u]
  BY <1>1
<1>3. PageTypeOK'
  BY <1>1 DEF PageTypeOK
<1>4. Replayer = {} => \A u \in Viewer : PageOK(games, page'[u])
  BY <1>2 DEF PageInv
<1>5. QED
  BY <1>1, <1>3, <1>4 DEF PageInv

LEMMA ProfileReads ==
  ASSUME RowInv, RatingIsLastGame, CountsNeverExceed, PageInv, NEW v \in Viewer,
         (\E p \in Watched : OpenProfile(v, p)) \/ ReadGrid(v) \/ ReadGames(v)
  PROVE  PageInv'
<1> DEFINE w == page[v]
<1>1. w \in PageType /\ TypeOK
  BY DEF PageInv, PageTypeOK, RowInv, TypeInv
<1>2. ASSUME NEW p \in Watched, OpenProfile(v, p) PROVE PageInv'
  <2> DEFINE new == [NoPage EXCEPT !.pc = "readGrid", !.who = p, !.group = GroupOf[p],
                       !.ratings = [NoPage.ratings EXCEPT ![p] = overall[p]]]
  <2>1. /\ p \in Player /\ GroupOf[p] \in Group /\ overall[p] \in Entry
        /\ Stored(p, Overall) = overall[p] /\ Overall \in Category
    BY <1>1, PagesAssumption, LedgerAssumption DEF TypeOK, Stored, Category
  <2>2. NoPage.ratings \in [Player -> Entry]
    BY NoPageType DEF PageType
  <2>3. /\ new \in PageType /\ new.pc = "readGrid" /\ new.who = p
        /\ new.ratings[p] = overall[p]
    BY <2>1, <2>2, NoPageType DEF PageType
  <2>4. Read(v, "none", new)
    BY <1>2 DEF OpenProfile
  <2> HIDE DEF new
  <2>5. ASSUME Replayer = {} PROVE PageOK(games, new)
    <3>1. ExplainedBy(games, PlayedBy(games, p), p, Overall, overall[p])
      BY <2>1, <2>5, StoredExplained
    <3>2. QED
      BY <2>3, <3>1 DEF PageOK, ProfileOK, DashboardOK
  <2>6. QED
    BY <2>3, <2>4, <2>5, PageRead
<1>3. CASE ReadGrid(v)
  <2> DEFINE new == [w EXCEPT !.pc = "readGames", !.grid = grid[w.who]]
  <2>1. Read(v, "readGrid", new) /\ w.pc = "readGrid"
    BY <1>3 DEF ReadGrid, Read
  <2>2. w.who \in Player
    BY <1>1 DEF PageType
  <2>3. grid[w.who] \in [Board -> GridRow]
    BY <1>1, <2>2 DEF TypeOK
  <2> HIDE DEF w
  <2>4. /\ new \in PageType /\ new.pc = "readGames" /\ new.who = w.who
        /\ new.ratings = w.ratings /\ new.grid = grid[w.who]
    BY <1>1, <2>3 DEF PageType
  <2> HIDE DEF new
  <2>5. ASSUME Replayer = {} PROVE PageOK(games, new)
    <3>1. PageOK(games, w)
      BY <2>5 DEF PageInv, w
    <3>2. ASSUME NEW d \in Board
          PROVE  /\ ExplainedBy(games, PlayedBy(games, w.who), w.who, d, grid[w.who][d].state)
                 /\ grid[w.who][d].games <= Cardinality(GamesOn(games, Len(games), w.who, d))
      <4>1. d \in Category /\ Stored(w.who, d) = grid[w.who][d].state
        BY LedgerAssumption DEF Category, Stored
      <4>2. ExplainedBy(games, PlayedBy(games, w.who), w.who, d, Stored(w.who, d))
        BY <2>2, <2>5, <4>1, StoredExplained
      <4>3. QED
        BY <2>2, <4>1, <4>2 DEF CountsNeverExceed
    <3>3. QED
      BY <2>1, <2>4, <3>1, <3>2 DEF PageOK, ProfileOK, DashboardOK
  <2>6. QED
    BY <2>1, <2>4, <2>5, PageRead
<1>4. CASE ReadGames(v)
  <2>1. NoPage.pc = "none"
    BY DEF NoPage
  <2>2. PageOK(games, NoPage)
    BY <2>1 DEF PageOK, ProfileOK, DashboardOK
  <2>3. QED
    BY <1>4, <2>2, NoPageType, PageRead DEF ReadGames
<1>5. QED
  BY <1>2, <1>3, <1>4

LEMMA DashboardReads ==
  ASSUME RowInv, RatingIsLastGame, PageInv, NEW v \in Viewer,
         (\E g \in Group : OpenDashboard(v, g)) \/ ReadRecent(v) \/ ReadTotal(v)
  PROVE  PageInv'
<1> DEFINE w == page[v]
<1>1. w \in PageType /\ TypeOK
  BY DEF PageInv, PageTypeOK, RowInv, TypeInv
<1>2. ASSUME NEW g \in Group, OpenDashboard(v, g) PROVE PageInv'
  <2> DEFINE Of(p) == p \in created \cap Watched /\ GroupOf[p] = g
             shown == [p \in Player |-> IF Of(p) THEN overall[p] ELSE Seed[p]]
             new == [NoPage EXCEPT !.pc = "readRecent", !.group = g, !.ratings = shown]
  <2>1. Read(v, "none", new)
    BY <1>2 DEF OpenDashboard
  <2>2. \A p \in Player : /\ overall[p] \in Entry /\ Seed[p] \in Entry
                          /\ Stored(p, Overall) = overall[p]
    BY <1>1, LedgerAssumption DEF TypeOK, Stored
  <2>3. /\ shown \in [Player -> Entry]
        /\ \A p \in Player :
             shown[p] = Seed[p] \/ (shown[p] = overall[p] /\ GroupOf[p] = g)
    BY <2>2
  <2> HIDE DEF shown
  <2>4. new \in PageType /\ new.pc = "readRecent" /\ new.group = g /\ new.ratings = shown
    BY <2>3, NoPageType DEF PageType
  <2> HIDE DEF new
  <2>5. ASSUME Replayer = {} PROVE PageOK(games, new)
    <3>1. ASSUME NEW p \in Player
          PROVE  ExplainedBy(games, InGroup(games, g), p, Overall, shown[p])
      <4>1. CASE shown[p] = Seed[p]
        BY <4>1 DEF ExplainedBy
      <4>2. CASE shown[p] = overall[p] /\ GroupOf[p] = g
        BY <2>2, <2>5, <4>2, StoredExplained DEF Category
      <4>3. QED
        BY <2>3, <4>1, <4>2
    <3>2. QED
      BY <2>4, <3>1 DEF PageOK, ProfileOK, DashboardOK
  <2>6. QED
    BY <2>1, <2>4, <2>5, PageRead
<1>3. CASE ReadRecent(v)
  <2> DEFINE recent == Recent(w.group)
             new == [w EXCEPT !.pc = "readTotal", !.listed = recent]
  <2>1. Read(v, "readRecent", new) /\ w.pc = "readRecent"
    BY <1>3 DEF ReadRecent, Read
  <2>2. /\ recent \subseteq InGroup(games, w.group)
        /\ Cardinality(InGroup(games, w.group)) <= RecentLimit
             => recent = InGroup(games, w.group)
    BY <1>1, RecentFacts
  <2>3. recent \in SUBSET Nat
    BY <1>1, <2>2 DEF InGroup, TypeOK
  <2> HIDE DEF recent, w
  <2>4. /\ new \in PageType /\ new.pc = "readTotal" /\ new.group = w.group
        /\ new.ratings = w.ratings /\ new.listed = recent
    BY <1>1, <2>3 DEF PageType
  <2> HIDE DEF new
  <2>5. ASSUME Replayer = {} PROVE PageOK(games, new)
    <3>1. PageOK(games, w)
      BY <2>5 DEF PageInv, w
    <3>2. QED
      BY <2>1, <2>2, <2>4, <3>1 DEF PageOK, ProfileOK, DashboardOK
  <2>6. QED
    BY <2>1, <2>4, <2>5, PageRead
<1>4. CASE ReadTotal(v)
  <2>1. NoPage.pc = "none"
    BY DEF NoPage
  <2>2. PageOK(games, NoPage)
    BY <2>1 DEF PageOK, ProfileOK, DashboardOK
  <2>3. QED
    BY <1>4, <2>2, NoPageType, PageRead DEF ReadTotal
<1>5. QED
  BY <1>2, <1>3, <1>4

\* With requests only, a step of the ledger leaves the games and may add one.
LEMMA NextNewer ==
  ASSUME TypeInv, [Next]_vars, Replayer = {} PROVE Newer(games, games')
<1>1. Len(games) \in Nat
  BY DEF TypeInv, TypeOK
<1>2. CASE games' = games
  BY <1>1, <1>2 DEF Newer
<1>3. ASSUME NEW r \in Recorder, CommitGame(r) PROVE Newer(games, games')
  BY <1>1, <1>3, CommitAppends DEF Newer
<1>4. QED
  BY <1>2, <1>3, GameSteps

LEMMA NextPageInv ==
  ASSUME RowInv, RatingIsLastGame, CountsNeverExceed, PageInv, [PagesNext]_pageVars
  PROVE  PageInv'
<1>1. ASSUME [Next]_vars, page' = page PROVE PageInv'
  <2>1. PageTypeOK /\ PageTypeOK'
    BY <1>1 DEF PageInv, PageTypeOK
  <2>2. ASSUME Replayer = {}, NEW v \in Viewer PROVE PageOK(games', page[v])
    <3>1. Newer(games, games')
      BY <1>1, <2>2, NextNewer DEF RowInv
    <3>2. PageOK(games, page[v]) /\ page[v] \in PageType
      BY <2>1, <2>2 DEF PageInv, PageTypeOK
    <3>3. QED
      BY <3>1, <3>2, PageStays
  <2>3. QED
    BY <1>1, <2>1, <2>2 DEF PageInv
<1>2. ASSUME NEW v \in Viewer,
             \/ \E p \in Watched : OpenProfile(v, p)
             \/ ReadGrid(v) \/ ReadGames(v)
             \/ \E g \in Group : OpenDashboard(v, g)
             \/ ReadRecent(v) \/ ReadTotal(v)
      PROVE  PageInv'
  BY <1>2, ProfileReads, DashboardReads
<1>3. QED
  BY <1>1, <1>2 DEF PagesNext, pageVars

LEMMA PagesLedger == PagesSpec => Spec
<1>1. PagesInit => Init
  BY DEF PagesInit
<1>2. [PagesNext]_pageVars => [Next]_vars
  BY DEF PagesNext, pageVars, OpenProfile, ReadGrid, ReadGames, OpenDashboard,
     ReadRecent, ReadTotal, Read
<1>3. QED
  BY <1>1, <1>2, PTL DEF PagesSpec, Spec

\* When the page goes out, what it shows is what was kept of it.
LEMMA PageGoesOut ==
  ASSUME PageInv, TypeOK, Replayer = {}, NEW v \in Viewer
  PROVE  ProfileExplained(v) /\ DashboardExplained(v)
<1> DEFINE w == page[v]
<1>1. PageOK(games, w) /\ w \in PageType
  BY DEF PageInv, PageTypeOK
<1>2. ASSUME ReadGames(v) PROVE ProfileExplained(v)
  <2>1. w.pc = "readGames"
    BY <1>2 DEF ReadGames, Read
  <2>2. GamesOf(w.who) = PlayedBy(games, w.who)
    BY DEF GamesOf, PlayedBy
  <2>3. ASSUME NEW d \in Board
        PROVE  {i \in GamesOf(w.who) : games[i].board = d}
                 = GamesOn(games, Len(games), w.who, d)
    BY LedgerAssumption DEF GamesOf, GamesOn, Plays
  <2> HIDE DEF w
  <2>4. /\ Explained(GamesOf(w.who), w.who, Overall, w.ratings[w.who])
        /\ \A d \in Board :
             /\ Explained(GamesOf(w.who), w.who, d, w.grid[d].state)
             /\ w.grid[d].games <= Cardinality(GamesOn(games, Len(games), w.who, d))
    BY <1>1, <2>1, <2>2 DEF PageOK, ProfileOK, Explained, ExplainedBy
  <2>5. QED
    BY <2>3, <2>4 DEF ProfileExplained, w
<1>3. ASSUME ReadTotal(v) PROVE DashboardExplained(v)
  <2>1. w.pc = "readTotal"
    BY <1>3 DEF ReadTotal, Read
  <2> DEFINE A == GamesIn(w.group)
             shown == w.listed
  <2>2. A = InGroup(games, w.group)
    BY DEF GamesIn, InGroup
  <2>3. IsFiniteSet(InGroup(games, w.group))
    BY InGroupFacts DEF TypeOK
  <2>4. /\ shown \subseteq A
        /\ Cardinality(A) <= RecentLimit =>
             \A p \in Player : Explained(shown, p, Overall, w.ratings[p])
    BY <1>1, <2>1, <2>2 DEF PageOK, DashboardOK, Explained, ExplainedBy
  <2>5. IsFiniteSet(A)
    BY <2>2, <2>3
  <2> HIDE DEF A, shown
  <2>6. Cardinality(shown) <= Cardinality(A)
    BY <2>4, <2>5, FS_Subset
  <2>7. QED
    BY <2>4, <2>6 DEF DashboardExplained, A, shown, w
<1>4. QED
  BY <1>2, <1>3 DEF ProfileExplained, DashboardExplained

(***************************************************************************)
(* With requests only, a profile and a dashboard that are put together     *)
(* from three reads show no rating and no count that the games they show   *)
(* do not explain, whatever is recorded between the reads.                 *)
(***************************************************************************)
THEOREM PagesConsistent == PagesSpec => PagesExplained
<1> DEFINE Inv == RowInv /\ RatingIsLastGame /\ CountsNeverExceed
           Shown == Replayer = {} =>
                      \A v \in Viewer : ProfileExplained(v) /\ DashboardExplained(v)
<1>1. Spec => []Inv
  BY RowInvariant, LastGame, CountsBounded, PTL
<1>2. PagesInit => PageInv
  <2>1. ASSUME PagesInit PROVE PageInv
    <3>1. /\ page \in [Viewer -> PageType]
          /\ \A v \in Viewer : page[v] = NoPage
      BY <2>1, NoPageType DEF PagesInit
    <3>2. NoPage.pc = "none"
      BY DEF NoPage
    <3>3. PageOK(games, NoPage)
      BY <3>2 DEF PageOK, ProfileOK, DashboardOK
    <3>4. QED
      BY <3>1, <3>3 DEF PageInv, PageTypeOK
  <2>2. QED
    BY <2>1
<1>3. Inv /\ PageInv /\ [PagesNext]_pageVars => PageInv'
  BY NextPageInv
<1>4. Inv /\ PageInv => Shown
  BY PageGoesOut DEF RowInv, TypeInv
<1>5. QED
  BY <1>1, <1>2, <1>3, <1>4, PagesLedger, PTL DEF PagesSpec, PagesExplained
=============================================================================
