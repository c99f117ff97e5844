-------------------------- MODULE TournamentProofs --------------------------
(***************************************************************************)
(* A tournament of any size, driven by any number of requests.  Without    *)
(* any assumption on the requests: a result is linked to the game that was *)
(* played for it, and stays.  With one request that starts and one that    *)
(* pairs the next round: every round seats the roster, a round is paired   *)
(* when the one before is played, and in a round robin any two players     *)
(* have one pairing.  What the engine's rounds look like is proved in      *)
(* PairingProofs.                                                          *)
(***************************************************************************)
EXTENDS Tournament, PairingProofs

-----------------------------------------------------------------------------
(* The inductive invariants. *)

\* A row as storePairings makes it.
Fresh(pr) == pr.game = 0 /\ pr.winner = IF IsBye(pr) THEN "bye" ELSE ""

AllFresh(list) == \A i \in 1..Len(list) : Fresh(list[i])

\* The game that shows w as the winner of row i.
GameOf(i, pr, w) ==
  [pair |-> i, black |-> pr.black, white |-> pr.white, winner |-> w]

\* A row is as it was stored, or linked to the game it shows.
RowLinked(pr, i, played) ==
  IF pr.game = 0 THEN Fresh(pr)
  ELSE /\ ~IsBye(pr) /\ pr.game \in 1..Len(played)
       /\ played[pr.game] = GameOf(i, pr, pr.winner)

RowsLinked(list, played) == \A i \in 1..Len(list) : RowLinked(list[i], i, played)

\* What a request holds between reading a pairing and writing its result.
ResultHeld(l, list, played) ==
  /\ l.pc \in {"recordGame", "setResult"} =>
       /\ l.pair \in 1..Len(list) /\ ~IsBye(list[l.pair])
       /\ l.winner \in {"black", "white"}
  /\ l.pc = "setResult" =>
       /\ l.game \in 1..Len(played)
       /\ played[l.game] = GameOf(l.pair, list[l.pair], l.winner)
       /\ \A i \in 1..Len(list) : list[i].game # l.game

\* What a request holds on the way to storing a round.
RoundHeld(l) ==
  /\ l.pc = "loadRoster" => IsFiniteSet(l.want)
  /\ l.pc = "setRoster" => Distinct(l.ids)
  /\ l.pc \in {"setRoster", "insertOpening", "insertNext"} => AllFresh(l.rows)

OwnGames ==
  \A g, h \in Handler :
    /\ local[g].pc = "setResult" /\ local[h].pc = "setResult"
    /\ local[g].game = local[h].game
    => g = h

LinkInv ==
  /\ Distinct(roster.ids)
  /\ RowsLinked(pairings, games)
  /\ \A h \in Handler : ResultHeld(local[h], pairings, games) /\ RoundHeld(local[h])
  /\ OwnGames

\* The pairing of game g has a result, or g is still to be linked, or was left behind.
Explained(g) ==
  /\ games[g].pair \in 1..Len(pairings)
  /\ Played(pairings[games[g].pair]) \/ g \in cut \/ UnderWay(g)

ExplainedInv == \A g \in 1..Len(games) : Explained(g)

\* In round r of a list everybody of R sits at exactly one board.
FullIn(list, r, R) ==
  /\ \A i \in 1..Len(list) : list[i].round = r =>
       list[i].black \in R /\ list[i].white \in R \cup {Ghost}
         /\ list[i].black # list[i].white
  /\ \A x \in R : \E i \in 1..Len(list) : list[i].round = r /\ Sits(list[i], x)
  /\ \A i, j \in 1..Len(list) : \A x \in R :
       /\ list[i].round = r /\ list[j].round = r
       /\ Sits(list[i], x) /\ Sits(list[j], x)
       => i = j

\* The rounds of a list are those from b to c, and all full.
FullRounds(list, b, c, R) ==
  /\ \A i \in 1..Len(list) : list[i].round \in b..c
  /\ \A r \in b..c : FullIn(list, r, R)

InStart == {"loadRoster", "setRoster", "insertOpening", "setRounds", "setRunning"}
InNext == {"listPairings", "loadField", "insertNext", "finish"}

\* The same games, whatever their results.
SameBoards(list, other) ==
  /\ Len(list) = Len(other)
  /\ \A i \in 1..Len(list) :
       /\ list[i].round = other[i].round
       /\ list[i].black = other[i].black /\ list[i].white = other[i].white

AllPlayed(list, r) ==
  \A i \in 1..Len(list) : list[i].round = r => Played(list[i])

\* The games of a McMahon tournament are played round by round.
PlayedInOrder(list) ==
  \A i, j \in 1..Len(list) : list[i].round < list[j].round => Played(list[i])

\* The opening that a start has computed: round 1, or the whole schedule.
Opening(l, format) ==
  /\ Len(l.ids) >= 2 /\ Distinct(l.ids) /\ l.rounds >= 1
  /\ FullRounds(l.rows, 1, CurrentRound(l.rows), RangeOf(l.ids))
  /\ CurrentRound(l.rows) >= 1
  /\ format = "mcmahon" => CurrentRound(l.rows) = 1

(***************************************************************************)
(* What the request l of h knows of the tournament tt, its roster rs and   *)
(* its pairings list: while it starts the tournament, ...                  *)
(***************************************************************************)
StartHeld(h, l, tt, rs, list) ==
  /\ l.pc \in InStart => h \in Starter /\ tt.status = "setup"
  /\ l.pc \in {"loadRoster", "setRoster", "insertOpening"} => Len(list) = 0
  /\ l.pc \in {"setRoster", "insertOpening"} => Opening(l, tt.format)
  /\ l.pc = "insertOpening" => rs = RosterRows(l)
  /\ l.pc \in {"setRounds", "setRunning"} =>
       /\ Len(list) # 0 /\ l.rounds >= 1
       /\ tt.format = "mcmahon" => CurrentRound(list) = 1
  /\ l.pc = "setRunning" => tt.rounds = l.rounds

\* ... and while it makes the next round.
NextHeld(h, l, tt, rs, list) ==
  /\ l.pc \in InNext =>
       h \in Advancer /\ tt.status = "running" /\ l.rounds = tt.rounds
  /\ l.pc \in {"loadField", "insertNext", "finish"} =>
       AllPlayed(list, CurrentRound(list))
  /\ l.pc \in {"loadField", "insertNext"} =>
       tt.format = "mcmahon" /\ CurrentRound(list) < tt.rounds
  /\ l.pc = "loadField" => SameBoards(l.rows, list)
  /\ l.pc = "insertNext" =>
       FullRounds(l.rows, CurrentRound(list) + 1, CurrentRound(list) + 1, RangeOf(rs.ids))
  /\ l.pc = "finish" /\ tt.format = "mcmahon" => CurrentRound(list) = tt.rounds

RoundsStored(tt, rs, list) ==
  /\ tt.status = "absent" => Len(list) = 0
  /\ tt.status # "absent" => tt.format \in Formats
  /\ tt.status \in {"running", "finished"} => Len(list) # 0
  /\ Len(list) # 0 =>
       /\ Len(rs.ids) >= 2 /\ CurrentRound(list) >= 1
       /\ FullRounds(list, 1, CurrentRound(list), RangeOf(rs.ids))
  /\ tt.format = "mcmahon" =>
       /\ PlayedInOrder(list)
       /\ tt.status \in {"running", "finished"} => CurrentRound(list) <= tt.rounds
       /\ tt.status = "finished" =>
            AllPlayed(list, CurrentRound(list)) /\ CurrentRound(list) = tt.rounds

HandlersHeld(tt, rs, list, reqs) ==
  \A h \in Handler : StartHeld(h, reqs[h], tt, rs, list) /\ NextHeld(h, reqs[h], tt, rs, list)

\* Pairings are there before the tournament runs only while it is being started.
StartUnderWay(tt, list, reqs) ==
  tt.status = "setup" /\ Len(list) # 0 =>
    \E h \in Handler : reqs[h].pc \in {"setRounds", "setRunning"}

RoundsInv ==
  /\ HandlersHeld(t, roster, pairings, local)
  /\ StartUnderWay(t, pairings, local)
  /\ RoundsStored(t, roster, pairings)

\* One request starts the tournament, and does not end in between; one advances it.
OneOfEach ==
  /\ \A g, h \in Starter : g = h
  /\ \A g, h \in Advancer : g = h
  /\ {"setRounds", "setRunning"} \cap FailAt = {}

-----------------------------------------------------------------------------
(* A round robin. *)

\* The same two players, whatever their colours.
SameTwo(pr, other) == \A x : Sits(pr, x) <=> Sits(other, x)

\* The rows are the pairings of round r, stored.
Stores(rows, pairs, r) ==
  /\ Len(rows) = Len(pairs)
  /\ \A i \in 1..Len(rows) : rows[i].round = r /\ SameTwo(rows[i], pairs[i])

\* The list has the games of the first k rounds of the plan, and no others.
FromPlan(list, plan, k) ==
  /\ \A i \in 1..Len(list) :
       /\ list[i].round \in 1..k
       /\ \E b \in 1..Len(plan[list[i].round]) : SameTwo(list[i], plan[list[i].round][b])
  /\ \A r \in 1..k : \A b \in 1..Len(plan[r]) :
       \E i \in 1..Len(list) : list[i].round = r /\ SameTwo(list[i], plan[r][b])

\* Any two of R have one row of the list.
MeetOnce(list, R) ==
  \A x, y \in R : x # y =>
    /\ \E i \in 1..Len(list) : Together(list[i], x, y)
    /\ \A i, j \in 1..Len(list) :
         Together(list[i], x, y) /\ Together(list[j], x, y) => i = j

\* What a start of a round robin holds until it has stored the schedule, and what is stored.
MeetHeld(l) == l.pc \in {"setRoster", "insertOpening"} => MeetOnce(l.rows, RangeOf(l.ids))

MeetInv ==
  t.format = "round_robin" =>
    /\ Len(pairings) # 0 => MeetOnce(pairings, RangeOf(roster.ids))
    /\ \A h \in Handler : MeetHeld(local[h])

-----------------------------------------------------------------------------
(* The lists of players. *)

\* The ids in order: everyone once.
LEMMA InOrderLists ==
  ASSUME NEW S \in SUBSET Nat, IsFiniteSet(S)
  PROVE  Lists(InOrder(S), S)
<1> DEFINE above == {xy \in S \X S : xy[1] < xy[2]}
           n == Cardinality(S)
<1>1. \A x, y \in S : <<x, y>> \in above <=> x < y
  OBVIOUS
<1> HIDE DEF above
<1>2. StrictOrder(S, above)
  BY <1>1 DEF StrictOrder
<1>3. Lists(Ranked(S, above), S)
  BY <1>2, RankedLists
<1>4. n \in Nat
  BY FS_CardinalityType
<1>5. ASSUME NEW x \in S
      PROVE  Cardinality({y \in S : y <= x})
               = Cardinality({y \in S : <<y, x>> \in above}) + 1
  <2> DEFINE low == {y \in S : <<y, x>> \in above}
  <2>1. {y \in S : y <= x} = low \cup {x} /\ x \notin low /\ low \subseteq S
    <3>1. \A y \in S : y <= x <=> y < x \/ y = x
      OBVIOUS
    <3>2. \A y \in S : y \in low <=> y < x
      BY <1>1
    <3>3. low \subseteq S /\ x \notin low
      BY <3>2
    <3> HIDE DEF low
    <3>4. QED BY <3>1, <3>2, <3>3
  <2> HIDE DEF low
  <2>2. IsFiniteSet(low)
    BY <2>1, FS_Subset
  <2>3. Cardinality(low \cup {x}) = Cardinality(low) + 1
    BY <2>1, <2>2, FS_AddElement
  <2>4. QED BY <2>1, <2>3 DEF low
<1>6. ASSUME NEW x \in S
      PROVE  Cardinality({y \in S : <<y, x>> \in above}) \in Nat
  BY FS_Subset, FS_CardinalityType
<1> DEFINE at(k) == CHOOSE x \in S : Cardinality({y \in S : <<y, x>> \in above}) = k - 1
           in(k) == CHOOSE x \in S : Cardinality({y \in S : y <= x}) = k
           f == [k \in 1..n |-> at(k)]
<1>7. ASSUME NEW k \in 1..n PROVE in(k) = at(k)
  <2>1. k \in Nat
    BY <1>4
  <2>2. ASSUME NEW x \in S
        PROVE  Cardinality({y \in S : y <= x}) = k
                 <=> Cardinality({y \in S : <<y, x>> \in above}) = k - 1
    BY <1>5, <1>6, <2>1
  <2>3. QED BY <2>2
<1>8. InOrder(S) = [k \in 1..n |-> in(k)]
  BY DEF InOrder
<1>9. InOrder(S) = Ranked(S, above)
  <2>1. Ranked(S, above) = <<>> \o f
    BY DEF Ranked
  <2> HIDE DEF at, in
  <2>2. InOrder(S) = f
    BY <1>7, <1>8
  <2>3. f \in Seq({at(k) : k \in 1..n})
    BY <1>4
  <2> HIDE DEF f
  <2>4. QED BY <2>1, <2>2, <2>3
<1>10. QED
  BY <1>3, <1>9

\* A seeding lists the players who were asked for, each once.
LEMMA SeedingLists ==
  ASSUME NEW S, IsFiniteSet(S), NEW ids \in Seedings(S)
  PROVE  Lists(ids, S)
<1> DEFINE n == Cardinality(S)
<1>1. /\ ids \in [1..n -> S] /\ RangeOf(ids) = S
      /\ \A j, k \in DOMAIN ids : j < k => ids[j] # ids[k]
  BY DEF Seedings
<1>2. n \in Nat
  BY FS_CardinalityType
<1> HIDE DEF n
<1>3. ids \in Seq(S) /\ Len(ids) = n /\ DOMAIN ids = 1..n
  BY <1>1, <1>2
<1>4. \A j, k \in 1..n : ids[j] = ids[k] => j = k
  <2>1. ASSUME NEW j \in 1..n, NEW k \in 1..n, ids[j] = ids[k] PROVE j = k
    <3>1. ~(j < k) /\ ~(k < j)
      BY <1>1, <1>3, <2>1
    <3>2. QED BY <1>2, <3>1
  <2>2. QED BY <2>1
<1>5. \A x \in S : \E k \in 1..n : ids[k] = x
  BY <1>1, <1>3 DEF RangeOf
<1>6. QED
  BY <1>3, <1>4, <1>5 DEF Lists, n

LEMMA ListsFacts ==
  ASSUME NEW S, NEW s, Lists(s, S)
  PROVE  s \in Seq(S) /\ Distinct(s) /\ RangeOf(s) = S /\ Len(s) = Cardinality(S)
<1>1. s \in Seq(S) /\ Distinct(s) /\ Len(s) = Cardinality(S)
  BY DEF Lists, Distinct
<1>2. \A k \in 1..Len(s) : s[k] \in S
  BY <1>1
<1>3. RangeOf(s) = S
  BY <1>2 DEF Lists, RangeOf
<1>4. QED
  BY <1>1, <1>3

-----------------------------------------------------------------------------
(* The rows of a round. *)

\* storePairings makes one fresh row of each pairing, with the same two players.
LEMMA StoredRows ==
  ASSUME NEW R \in SUBSET Player, NEW pairs \in Seq(BoardsOf(R)), NEW r \in Nat \ {0}
  PROVE  LET rows == StorePairings(pairs, r)
         IN  /\ rows \in Seq(PairingRow) /\ AllFresh(rows) /\ Len(rows) = Len(pairs)
             /\ \A i \in 1..Len(rows) :
                  /\ rows[i].round = r
                  /\ rows[i].black \in R /\ rows[i].white \in R \cup {Ghost}
                  /\ rows[i].black # rows[i].white <=> pairs[i].black # pairs[i].white
                  /\ \A x : Sits(rows[i], x) <=> Sits(pairs[i], x)
<1> DEFINE n == Len(pairs)
           rows == StorePairings(pairs, r)
           swap(pr) == t.handicap /\ ~IsBye(pr) /\ rating[pr.black] > rating[pr.white]
           row(pr) == [round |-> r, board |-> pr.board,
                       black |-> IF swap(pr) THEN pr.white ELSE pr.black,
                       white |-> IF swap(pr) THEN pr.black ELSE pr.white,
                       winner |-> IF IsBye(pr) THEN "bye" ELSE "", game |-> 0]
<1>1. rows = [i \in 1..n |-> row(pairs[i])] /\ n \in Nat
  BY DEF StorePairings
<1>2. ASSUME NEW pr \in BoardsOf(R)
      PROVE  /\ row(pr) \in PairingRow /\ Fresh(row(pr)) /\ row(pr).round = r
             /\ row(pr).black \in R /\ row(pr).white \in R \cup {Ghost}
             /\ row(pr).black # row(pr).white <=> pr.black # pr.white
             /\ \A x : Sits(row(pr), x) <=> Sits(pr, x)
  <2>1. /\ pr.board \in Nat /\ pr.black \in R /\ pr.white \in R \cup {Ghost}
        /\ swap(pr) => pr.white # Ghost
    BY DEF BoardsOf, IsBye
  <2>2. Ghost \notin R /\ 0 \in 0..MaxGames
    BY TournamentAssumption DEF Ghost
  <2> HIDE DEF swap
  <2>3. QED BY <2>1, <2>2 DEF PairingRow, Fresh, IsBye, Sits
<1>3. \A i \in 1..n : pairs[i] \in BoardsOf(R)
  OBVIOUS
<1> HIDE DEF row
<1>4. rows \in Seq(PairingRow) /\ Len(rows) = n
  <2>1. rows \in [1..n -> PairingRow]
    BY <1>1, <1>2, <1>3
  <2>2. QED BY <1>1, <2>1
<1>5. \A i \in 1..n : rows[i] = row(pairs[i])
  BY <1>1
<1> HIDE DEF rows
<1>6. AllFresh(rows)
  BY <1>2, <1>3, <1>4, <1>5 DEF AllFresh
<1>7. QED
  BY <1>2, <1>3, <1>4, <1>5, <1>6 DEF rows

\* A full round stays full when it is stored.
LEMMA StoredRound ==
  ASSUME NEW R \in SUBSET Player, NEW pairs, FullRound(pairs, R), NEW r \in Nat \ {0}
  PROVE  /\ StorePairings(pairs, r) \in Seq(PairingRow)
         /\ AllFresh(StorePairings(pairs, r))
         /\ FullRounds(StorePairings(pairs, r), r, r, R)
         /\ Stores(StorePairings(pairs, r), pairs, r)
<1> DEFINE rows == StorePairings(pairs, r)
<1>1. pairs \in Seq(BoardsOf(R)) /\ OnceSeated(pairs)
      /\ \A x \in R : \E i \in 1..Len(pairs) : Sits(pairs[i], x)
  BY DEF FullRound
<1>2. /\ rows \in Seq(PairingRow) /\ AllFresh(rows) /\ Len(rows) = Len(pairs)
      /\ \A i \in 1..Len(rows) :
           /\ rows[i].round = r
           /\ rows[i].black \in R /\ rows[i].white \in R \cup {Ghost}
           /\ rows[i].black # rows[i].white <=> pairs[i].black # pairs[i].white
           /\ \A x : Sits(rows[i], x) <=> Sits(pairs[i], x)
  BY <1>1, StoredRows
<1> HIDE DEF rows
<1>3. FullIn(rows, r, R)
  BY <1>1, <1>2 DEF FullIn, OnceSeated
<1>4. Stores(rows, pairs, r)
  BY <1>2 DEF Stores, SameTwo
<1>5. QED
  BY <1>2, <1>3, <1>4 DEF FullRounds, rows

LEMMA JoinFresh ==
  ASSUME NEW list \in Seq(PairingRow), NEW more \in Seq(PairingRow),
         AllFresh(list), AllFresh(more)
  PROVE  AllFresh(list \o more)
<1>1. Joins(list \o more, list, more)
  BY ConcatFacts
<1> DEFINE all == list \o more
<1>2. Joins(all, list, more)
  BY <1>1
<1> HIDE DEF all
<1>3. ASSUME NEW i \in 1..Len(all) PROVE Fresh(all[i])
  <2>1. i \in 1..Len(list) \/ \E k \in 1..Len(more) : i = Len(list) + k
    BY <1>2 DEF Joins
  <2>2. CASE i \in 1..Len(list)
    BY <1>2, <2>2 DEF Joins, AllFresh
  <2>3. ASSUME NEW k \in 1..Len(more), i = Len(list) + k PROVE Fresh(all[i])
    BY <1>2, <2>3 DEF Joins, AllFresh
  <2>4. QED
    BY <2>1, <2>2, <2>3
<1>4. QED
  BY <1>3 DEF AllFresh, all

\* The next round, put after the rounds there are.
LEMMA JoinRounds ==
  ASSUME NEW list \in Seq(PairingRow), NEW more \in Seq(PairingRow), NEW R,
         NEW c \in Nat, FullRounds(list, 1, c, R), FullRounds(more, c + 1, c + 1, R)
  PROVE  FullRounds(list \o more, 1, c + 1, R)
<1> DEFINE all == list \o more
           n == Len(list)
           m == Len(more)
<1>1. Joins(all, list, more) /\ n \in Nat /\ m \in Nat
  BY ConcatFacts
<1> HIDE DEF all
<1>2. /\ Len(all) = n + m
      /\ \A i \in 1..n : all[i] = list[i] /\ all[i].round \in 1..c /\ i \in 1..(n + m)
      /\ \A k \in 1..m : /\ all[n + k] = more[k] /\ all[n + k].round = c + 1
                         /\ n + k \in 1..(n + m)
      /\ \A i \in 1..(n + m) : i \in 1..n \/ \E k \in 1..m : i = n + k
  <2>1. \A k \in 1..m : more[k].round = c + 1
    <3>1. \A k \in 1..m : more[k].round \in (c + 1)..(c + 1)
      BY DEF FullRounds
    <3>2. QED BY <3>1
  <2>2. \A i \in 1..n : list[i].round \in 1..c
    BY DEF FullRounds
  <2>3. \A k \in 1..m : n + k \in 1..(n + m)
    BY <1>1
  <2>4. \A i \in 1..n : i \in 1..(n + m)
    BY <1>1
  <2>5. QED BY <1>1, <2>1, <2>2, <2>3, <2>4 DEF Joins
<1>3. \A i \in 1..Len(all) : all[i].round \in 1..(c + 1)
  <2>1. \A r \in 1..c : r \in 1..(c + 1)
    OBVIOUS
  <2>2. c + 1 \in 1..(c + 1)
    OBVIOUS
  <2>3. ASSUME NEW i \in 1..Len(all) PROVE all[i].round \in 1..(c + 1)
    <3>1. i \in 1..n \/ \E k \in 1..m : i = n + k
      BY <1>2
    <3>2. CASE i \in 1..n
      BY <1>2, <2>1, <3>2
    <3>3. CASE \E k \in 1..m : i = n + k
      BY <1>2, <2>2, <3>3
    <3>4. QED BY <3>1, <3>2, <3>3
  <2>4. QED BY <2>3
<1>4. ASSUME NEW r \in 1..c PROVE FullIn(all, r, R)
  <2>1. FullIn(list, r, R)
    BY DEF FullRounds
  <2>2. \A i \in 1..Len(all) : all[i].round = r => i \in 1..n
    BY <1>2
  <2>3. \A i \in 1..n : i \in 1..Len(all) /\ all[i] = list[i]
    BY <1>2
  <2>4. QED BY <2>1, <2>2, <2>3 DEF FullIn
<1>5. FullIn(all, c + 1, R)
  <2>1. FullIn(more, c + 1, R)
    BY DEF FullRounds
  <2>2. ASSUME NEW i \in 1..Len(all), all[i].round = c + 1
        PROVE  \E k \in 1..m : i = n + k /\ all[i] = more[k]
    BY <1>2, <2>2
  <2>3. \A k \in 1..m : n + k \in 1..Len(all) /\ all[n + k] = more[k]
    BY <1>2
  <2>4. \A i \in 1..Len(all) : all[i].round = c + 1 =>
          all[i].black \in R /\ all[i].white \in R \cup {Ghost} /\ all[i].black # all[i].white
    <3>1. \A k \in 1..m : more[k].round = c + 1
      BY <1>2
    <3>2. QED BY <2>1, <2>2, <3>1 DEF FullIn
  <2>5. \A x \in R : \E i \in 1..Len(all) : all[i].round = c + 1 /\ Sits(all[i], x)
    BY <1>2, <2>1, <2>3 DEF FullIn
  <2>6. ASSUME NEW i \in 1..Len(all), NEW j \in 1..Len(all), NEW x \in R,
               all[i].round = c + 1, all[j].round = c + 1,
               Sits(all[i], x), Sits(all[j], x)
        PROVE  i = j
    <3>1. PICK k \in 1..m : i = n + k /\ all[i] = more[k]
      BY <2>2, <2>6
    <3>2. PICK l \in 1..m : j = n + l /\ all[j] = more[l]
      BY <2>2, <2>6
    <3>3. k = l
      BY <1>2, <2>1, <2>6, <3>1, <3>2 DEF FullIn
    <3>4. QED BY <3>1, <3>2, <3>3
  <2>7. QED BY <2>4, <2>5, <2>6 DEF FullIn
<1>6. \A r \in 1..(c + 1) : r \in 1..c \/ r = c + 1
  OBVIOUS
<1>7. QED
  BY <1>3, <1>4, <1>5, <1>6 DEF FullRounds, all

\* The last round of a list.
LEMMA CurrentFacts ==
  ASSUME NEW list \in Seq(PairingRow)
  PROVE  /\ CurrentRound(list) \in Nat
         /\ \A i \in 1..Len(list) : list[i].round <= CurrentRound(list)
         /\ CurrentRound(list) = 0 \/ \E i \in 1..Len(list) : list[i].round = CurrentRound(list)
<1> DEFINE of == [i \in 0..Len(list) |-> IF i = 0 THEN 0 ELSE list[i].round]
           S == {0} \cup {list[i].round : i \in 1..Len(list)}
<1>1. Len(list) \in Nat /\ \A i \in 1..Len(list) : list[i].round \in Nat
  <2>1. ASSUME NEW pr \in PairingRow PROVE pr.round \in Nat
    BY DEF PairingRow
  <2>2. \A i \in 1..Len(list) : list[i] \in PairingRow
    OBVIOUS
  <2>3. QED BY <2>1, <2>2
<1>2. IsFiniteSet(0..Len(list))
  BY <1>1, FS_Interval
<1>3. of \in Surjection(0..Len(list), S)
  <2>1. \A i \in 0..Len(list) : of[i] \in S
    BY <1>1
  <2>2. \A x \in S : \E i \in 0..Len(list) : of[i] = x
    BY <1>1
  <2> HIDE DEF S
  <2>3. QED BY <2>1, <2>2 DEF Surjection
<1>4. S \in SUBSET Nat /\ 0 \in S
  BY <1>1
<1> HIDE DEF S, of
<1>5. IsFiniteSet(S)
  BY <1>2, <1>3, FS_Surjection
<1>6. Max(S) \in S /\ \A k \in S : k <= Max(S)
  BY <1>4, <1>5, MaxInSet
<1>7. CurrentRound(list) = Max(S)
  BY DEF CurrentRound, S
<1>8. QED
  BY <1>4, <1>6, <1>7 DEF S

\* The last of the rounds 1 to c, when there are players to sit in them.
LEMMA CurrentOfRounds ==
  ASSUME NEW list \in Seq(PairingRow), NEW c \in Nat, NEW R, R # {},
         FullRounds(list, 1, c, R)
  PROVE  CurrentRound(list) = c
<1>1. \A i \in 1..Len(list) : list[i].round \in 1..c
  BY DEF FullRounds
<1>2. c = 0 \/ \E i \in 1..Len(list) : list[i].round = c
  BY DEF FullRounds, FullIn
<1>3. QED
  BY <1>1, <1>2, CurrentFacts

\* The next round of the plan, put after the rounds there are.
LEMMA JoinPlan ==
  ASSUME NEW list \in Seq(PairingRow), NEW more \in Seq(PairingRow), NEW plan,
         NEW k \in Nat, FromPlan(list, plan, k - 1), k >= 1,
         Stores(more, plan[k], k)
  PROVE  FromPlan(list \o more, plan, k)
<1> DEFINE all == list \o more
           n == Len(list)
           m == Len(more)
           of(pr) == \E b \in 1..Len(plan[pr.round]) : SameTwo(pr, plan[pr.round][b])
<1>1. Joins(all, list, more) /\ n \in Nat /\ m \in Nat
  BY ConcatFacts
<1> HIDE DEF all
<1>2. /\ Len(all) = n + m
      /\ \A i \in 1..n : all[i] = list[i] /\ i \in 1..(n + m)
      /\ \A i \in 1..m : all[n + i] = more[i] /\ n + i \in 1..(n + m)
      /\ \A i \in 1..(n + m) : i \in 1..n \/ \E j \in 1..m : i = n + j
  BY <1>1 DEF Joins
<1>3. \A i \in 1..n : list[i].round \in 1..(k - 1) /\ of(list[i])
  BY DEF FromPlan
<1>4. Len(plan[k]) = m /\ \A i \in 1..m : more[i].round = k /\ of(more[i])
  BY DEF Stores
<1> HIDE DEF of
<1>5. ASSUME NEW i \in 1..Len(all) PROVE all[i].round \in 1..k /\ of(all[i])
  <2>1. k \in 1..k /\ \A r \in 1..(k - 1) : r \in 1..k
    OBVIOUS
  <2>2. CASE i \in 1..n
    BY <1>2, <1>3, <2>1, <2>2
  <2>3. CASE \E j \in 1..m : i = n + j
    BY <1>2, <1>4, <2>1, <2>3
  <2>4. QED BY <1>2, <2>2, <2>3
<1>6. ASSUME NEW r \in 1..k, NEW b \in 1..Len(plan[r])
      PROVE  \E i \in 1..Len(all) : all[i].round = r /\ SameTwo(all[i], plan[r][b])
  <2>1. CASE r = k
    <3>1. b \in 1..m /\ more[b].round = r /\ SameTwo(more[b], plan[r][b])
      BY <1>4, <2>1 DEF Stores
    <3>2. QED BY <1>2, <3>1
  <2>2. CASE r # k
    <3>1. r \in 1..(k - 1)
      BY <2>2
    <3>2. PICK i \in 1..n : list[i].round = r /\ SameTwo(list[i], plan[r][b])
      BY <3>1 DEF FromPlan
    <3>3. QED BY <1>2, <3>2
  <2>3. QED BY <2>1, <2>2
<1>7. QED
  BY <1>5, <1>6 DEF FromPlan, all, of

\* A list of the games of a plan in which everybody meets once.
LEMMA PlanRows ==
  ASSUME NEW list, NEW plan, NEW R, NEW m \in Nat, Len(plan) = m,
         PlanMeets(plan, R), FullRounds(list, 1, m, R), FromPlan(list, plan, m)
  PROVE  MeetOnce(list, R)
<1>1. SUFFICES ASSUME NEW x \in R, NEW y \in R, x # y
               PROVE  /\ \E i \in 1..Len(list) : Together(list[i], x, y)
                      /\ \A i, j \in 1..Len(list) :
                           Together(list[i], x, y) /\ Together(list[j], x, y) => i = j
  BY DEF MeetOnce
<1>2. \E i \in 1..Len(list) : Together(list[i], x, y)
  <2>1. PICK r \in 1..m : \E b \in 1..Len(plan[r]) : Together(plan[r][b], x, y)
    BY <1>1 DEF PlanMeets
  <2>2. PICK b \in 1..Len(plan[r]) : Together(plan[r][b], x, y)
    BY <2>1
  <2>3. PICK i \in 1..Len(list) : SameTwo(list[i], plan[r][b])
    BY DEF FromPlan
  <2>4. QED BY <2>2, <2>3 DEF Together, SameTwo
<1>3. ASSUME NEW i \in 1..Len(list), NEW j \in 1..Len(list),
             Together(list[i], x, y), Together(list[j], x, y)
      PROVE  i = j
  <2> DEFINE q == list[i].round
             r == list[j].round
  <2>1. q \in 1..m /\ r \in 1..m
    BY DEF FromPlan
  <2>2. PICK b \in 1..Len(plan[q]) : SameTwo(list[i], plan[q][b])
    BY DEF FromPlan
  <2>3. PICK d \in 1..Len(plan[r]) : SameTwo(list[j], plan[r][d])
    BY DEF FromPlan
  <2>4. Together(plan[q][b], x, y) /\ Together(plan[r][d], x, y)
    BY <1>3, <2>2, <2>3 DEF Together, SameTwo
  <2> HIDE DEF q, r
  <2>5. q = r
    BY <1>1, <2>1, <2>4 DEF PlanMeets
  <2>6. FullIn(list, q, R)
    BY <2>1 DEF FullRounds
  <2>7. QED BY <1>1, <1>3, <2>5, <2>6 DEF FullIn, Together, q, r
<1>4. QED
  BY <1>2, <1>3

(***************************************************************************)
(* The rows of a schedule: those of its rounds, one after the other.       *)
(***************************************************************************)
LEMMA ConcatRounds ==
  ASSUME NEW R \in SUBSET Player, NEW plan, NEW m \in Nat, Len(plan) = m,
         \A r \in 1..m : FullRound(plan[r], R)
  PROVE  /\ Concat(plan) \in Seq(PairingRow) /\ AllFresh(Concat(plan))
         /\ FullRounds(Concat(plan), 1, m, R) /\ FromPlan(Concat(plan), plan, m)
<1> DEFINE Good(list, k) ==
             AllFresh(list) /\ FullRounds(list, 1, k, R) /\ FromPlan(list, plan, k)
           Q == [k \in 0..m |-> {list \in Seq(PairingRow) : Good(list, k)}]
           next(k, list) == list \o StorePairings(plan[k], k)
           step == [k \in 1..m |-> [list \in Seq(PairingRow) |-> next(k, list)]]
           is(f) == f = [r \in 0..m |-> IF r = 0 THEN <<>> ELSE next(r, f[r - 1])]
           upto == CHOOSE f : is(f)
<1>1. ASSUME NEW k \in 1..m, NEW list \in Seq(PairingRow), Good(list, k - 1)
      PROVE  next(k, list) \in Seq(PairingRow) /\ Good(next(k, list), k)
  <2> DEFINE rows == StorePairings(plan[k], k)
  <2>1. /\ rows \in Seq(PairingRow) /\ AllFresh(rows) /\ FullRounds(rows, k, k, R)
        /\ Stores(rows, plan[k], k)
    <3>1. FullRound(plan[k], R) /\ k \in Nat \ {0}
      OBVIOUS
    <3> DEFINE p == plan[k]
    <3>2. FullRound(p, R)
      BY <3>1
    <3> HIDE DEF p
    <3>3. /\ StorePairings(p, k) \in Seq(PairingRow) /\ AllFresh(StorePairings(p, k))
          /\ FullRounds(StorePairings(p, k), k, k, R) /\ Stores(StorePairings(p, k), p, k)
      BY <3>1, <3>2, StoredRound
    <3>4. QED
      BY <3>3 DEF p
  <2>2. k - 1 \in Nat /\ (k - 1) + 1 = k /\ k \in Nat \ {0} /\ k >= 1
    OBVIOUS
  <2> HIDE DEF rows
  <2>3. AllFresh(list \o rows) /\ FullRounds(list \o rows, 1, k, R)
    BY <1>1, <2>1, <2>2, JoinFresh, JoinRounds
  <2>4. FromPlan(list \o rows, plan, k)
    BY <1>1, <2>1, <2>2, JoinPlan
  <2>5. list \o rows \in Seq(PairingRow)
    BY <2>1
  <2>6. QED BY <2>3, <2>4, <2>5 DEF rows
<1>2. <<>> \in Seq(PairingRow) /\ Good(<<>>, 0)
  <2> DEFINE e == <<>>
  <2>1. e \in Seq(PairingRow) /\ Len(e) = 0
    OBVIOUS
  <2> HIDE DEF e
  <2>2. Good(e, 0)
    BY <2>1 DEF AllFresh, FullRounds, FromPlan
  <2>3. QED BY <2>1, <2>2 DEF e
<1> HIDE DEF Good, next
<1>3. <<>> \in Q[0] /\ \A k \in 1..m : \A x \in Q[k - 1] : step[k][x] \in Q[k]
  <2>1. <<>> \in Q[0]
    BY <1>2
  <2>2. ASSUME NEW k \in 1..m, NEW x \in Q[k - 1] PROVE step[k][x] \in Q[k]
    <3>1. x \in Seq(PairingRow) /\ Good(x, k - 1)
      OBVIOUS
    <3>2. step[k][x] = next(k, x)
      BY <3>1
    <3>3. QED BY <1>1, <3>1, <3>2
  <2>3. QED BY <2>1, <2>2
<1> HIDE DEF Q, step
<1>4. PICK f : Iterates(f, m, <<>>, step)
  BY <1>3, Recursion
<1>5. \A k \in 0..m : f[k] \in Q[k]
  BY <1>3, <1>4, Recursion
<1>6. is(f)
  <2>1. \A k \in 1..m : step[k][f[k - 1]] = next(k, f[k - 1])
    BY <1>5 DEF step, Q
  <2>2. f = [k \in 0..m |-> IF k = 0 THEN <<>> ELSE step[k][f[k - 1]]]
    BY <1>4 DEF Iterates
  <2>3. \A k \in 0..m : k = 0 \/ k \in 1..m
    OBVIOUS
  <2>4. QED BY <2>1, <2>2, <2>3
<1>7. is(upto)
  BY <1>6
<1>8. Concat(plan) = upto[m]
  BY DEF Concat, next
<1> HIDE DEF upto
<1>9. \A k \in 0..m : upto[k] \in Seq(PairingRow) /\ Good(upto[k], k)
  <2> DEFINE S == {k \in 0..m : upto[k] \in Seq(PairingRow) /\ Good(upto[k], k)}
  <2>1. 0 \in S
    BY <1>2, <1>7
  <2>2. ASSUME NEW k \in 0..(m - 1), k \in S PROVE k + 1 \in S
    <3>1. k + 1 \in 1..m /\ (k + 1) - 1 = k /\ k + 1 \in 0..m
      OBVIOUS
    <3>2. upto[k + 1] = next(k + 1, upto[k])
      BY <1>7, <3>1
    <3>3. QED BY <1>1, <2>2, <3>1, <3>2
  <2> HIDE DEF S
  <2>3. 0..m \subseteq S
    BY <2>1, <2>2, Induct
  <2>4. QED BY <2>3 DEF S
<1>10. upto[m] \in Seq(PairingRow) /\ Good(upto[m], m)
  BY <1>9
<1>11. QED
  BY <1>8, <1>10 DEF Good

-----------------------------------------------------------------------------
(* What a request computes from what it has read. *)

LEMMA IdleType == Idle \in Request
<1>1. NoScores \in [Player -> Nat]
  BY DEF NoScores
<1>2. <<>> \in Seq(Player) /\ <<>> \in Seq(PairingRow)
  OBVIOUS
<1>3. 0 \in 0..MaxPairings /\ 0 \in 0..MaxGames
  BY TournamentAssumption
<1>4. QED
  BY <1>1, <1>2, <1>3 DEF Idle, Request, PC

LEMMA GotoFacts ==
  ASSUME local \in [Handler -> Request], NEW h \in Handler, NEW l \in Request, Goto(h, l)
  PROVE  /\ local' \in [Handler -> Request] /\ local'[h] = l
         /\ \A g \in Handler : g # h => local'[g] = local[g]
BY DEF Goto

LEMMA Typed ==
  ASSUME TypeOK
  PROVE  /\ pairings \in Seq(PairingRow) /\ Len(pairings) \in Nat
         /\ Len(pairings) <= MaxPairings
         /\ games \in Seq(GameRow) /\ Len(games) \in Nat /\ Len(games) <= MaxGames
         /\ \A h \in Handler : local[h] \in Request
<1>1. pairings \in Seq(PairingRow) /\ Len(pairings) <= MaxPairings
  BY DEF TypeOK, StoreOK
<1>2. games \in Seq(GameRow) /\ Len(games) <= MaxGames
  BY DEF TypeOK, StoreOK
<1>3. \A h \in Handler : local[h] \in Request
  BY DEF TypeOK
<1>4. Len(pairings) \in Nat /\ Len(games) \in Nat
  BY <1>1, <1>2
<1>5. QED
  BY <1>1, <1>2, <1>3, <1>4

\* What the whole schedule and the first McMahon round have in common.
LEMMA OpeningRows ==
  ASSUME TypeOK, NEW S \in SUBSET Player, IsFiniteSet(S), NEW ids, Lists(ids, S),
         Cardinality(S) >= 2, NEW start, \A p \in S : start[p] \in Nat
  PROVE  /\ StorePairings(McMahonRound(ids, start, rating, <<>>), 1) \in Seq(PairingRow)
         /\ AllFresh(StorePairings(McMahonRound(ids, start, rating, <<>>), 1))
         /\ FullRounds(StorePairings(McMahonRound(ids, start, rating, <<>>), 1), 1, 1, S)
         /\ Concat(RoundRobinSchedule(ids)) \in Seq(PairingRow)
         /\ AllFresh(Concat(RoundRobinSchedule(ids)))
         /\ Len(RoundRobinSchedule(ids)) \in Nat \ {0}
         /\ FullRounds(Concat(RoundRobinSchedule(ids)), 1,
                       Len(RoundRobinSchedule(ids)), S)
         /\ MeetOnce(Concat(RoundRobinSchedule(ids)), S)
<1> DEFINE first == McMahonRound(ids, start, rating, <<>>)
           plan == RoundRobinSchedule(ids)
<1>1. /\ ids \in Seq(S) /\ Distinct(ids) /\ RangeOf(ids) = S /\ Len(ids) >= 2
      /\ Ghost \notin S
  <2>1. Ghost \notin S
    BY TournamentAssumption DEF Ghost
  <2>2. QED BY <2>1, ListsFacts
<1>2. \A p \in S : start[p] \in Int /\ rating[p] \in Int
  <2>1. rating \in [Player -> Nat]
    BY TournamentAssumption DEF TypeOK, StoreOK
  <2>2. QED BY <2>1
<1>3. FullRound(first, S)
  <2>1. Len(<<>>) \in Nat
    OBVIOUS
  <2> HIDE DEF first
  <2>2. QED BY <1>1, <1>2, <2>1, McMahonSeatsAll DEF first
<1>4. /\ Len(plan) \in Nat \ {0}
      /\ \A r \in 1..Len(plan) : FullRound(plan[r], S)
  BY <1>1, ScheduleSeatsAll
<1>5. PlanMeets(plan, S)
  BY <1>1, ScheduleMeetsAll
<1> HIDE DEF first, plan
<1>6. 1 \in Nat \ {0}
  OBVIOUS
<1>7. /\ StorePairings(first, 1) \in Seq(PairingRow) /\ AllFresh(StorePairings(first, 1))
      /\ FullRounds(StorePairings(first, 1), 1, 1, S)
  BY <1>3, <1>6, StoredRound
<1>8. /\ Concat(plan) \in Seq(PairingRow) /\ AllFresh(Concat(plan))
      /\ FullRounds(Concat(plan), 1, Len(plan), S)
      /\ FromPlan(Concat(plan), plan, Len(plan))
  BY <1>4, ConcatRounds
<1>9. MeetOnce(Concat(plan), S)
  BY <1>4, <1>8, <1>5, PlanRows
<1>10. QED
  BY <1>4, <1>7, <1>8, <1>9 DEF first, plan

(***************************************************************************)
(* loadRoster leaves a request with an opening that seats the players it   *)
(* was asked for, or ends it.                                              *)
(***************************************************************************)
LEMMA LoadRosterFacts ==
  ASSUME TypeOK, NEW h \in Handler, LoadRoster(h), IsFiniteSet(local[h].want)
  PROVE  \E l \in Request :
           /\ Goto(h, l)
           /\ \/ l = Idle
              \/ l.pc = "setRoster" /\ Distinct(l.ids) /\ AllFresh(l.rows)
                 /\ Opening(l, t.format)
                 /\ (t.format = "round_robin" => MeetOnce(l.rows, RangeOf(l.ids)))
<1> DEFINE l == local[h]
           S == l.want
           rank == [p \in Player |-> RankOf(rating[p])]
           robin == t.format = "round_robin"
<1>1. CASE Cardinality(S) < 2
  BY <1>1, IdleType DEF LoadRoster
<1>2. ASSUME ~(Cardinality(S) < 2), NEW ids \in Seedings(S), SeedField(h, ids)
      PROVE  \E m \in Request :
               /\ Goto(h, m) /\ m.pc = "setRoster"
               /\ Distinct(m.ids) /\ AllFresh(m.rows) /\ Opening(m, t.format)
               /\ (t.format = "round_robin" => MeetOnce(m.rows, RangeOf(m.ids)))
  <2> DEFINE start == IF t.format = "mcmahon" THEN StartScores(ids, rank, 0) ELSE NoScores
             plan == RoundRobinSchedule(ids)
             opening == StorePairings(McMahonRound(ids, start, rating, <<>>), 1)
             schedule == Concat(plan)
             rows == IF robin THEN schedule ELSE opening
             rounds == IF robin THEN Len(plan) ELSE IF l.rounds > 0 THEN l.rounds
                       ELSE SuggestedRounds(Len(ids))
             scores == [p \in Player |-> IF p \in S THEN start[p] ELSE 0]
             next == [l EXCEPT !.pc = "setRoster", !.ids = ids, !.start = scores,
                               !.rows = rows, !.rounds = rounds]
  <2>1. Goto(h, next)
    BY <1>2 DEF SeedField
  <2>2. l \in Request /\ S \in SUBSET Player /\ rating \in Ratings /\ IsFiniteSet(S)
    BY DEF TypeOK, StoreOK, Request
  <2>3. Cardinality(S) \in Nat /\ Cardinality(S) >= 2
    BY <1>2, FS_CardinalityType
  <2> HIDE DEF S
  <2>4. Lists(ids, S)
    BY <2>2, SeedingLists DEF S
  <2>5. ids \in Seq(S) /\ Distinct(ids) /\ RangeOf(ids) = S /\ Len(ids) = Cardinality(S)
    BY <2>4, ListsFacts
  <2>6. \A p \in RangeOf(ids) : rank[p] \in Nat
    BY <2>2, <2>5, TournamentAssumption
  <2> HIDE DEF rank
  <2>7. StartScores(ids, rank, 0) \in [S -> Nat]
    BY <2>3, <2>5, <2>6, StartScoresType
  <2>8. \A p \in S : start[p] \in Nat
    BY <2>2, <2>7 DEF NoScores
  <2> HIDE DEF start
  <2>9. /\ opening \in Seq(PairingRow) /\ AllFresh(opening) /\ FullRounds(opening, 1, 1, S)
        /\ schedule \in Seq(PairingRow) /\ AllFresh(schedule)
        /\ Len(plan) \in Nat \ {0} /\ FullRounds(schedule, 1, Len(plan), S)
        /\ MeetOnce(schedule, S)
    BY <2>2, <2>3, <2>4, <2>8, OpeningRows
  <2> HIDE DEF plan, opening, schedule
  <2>10. rows \in Seq(PairingRow) /\ AllFresh(rows) /\ (robin => MeetOnce(rows, S))
    BY <2>9
  <2>11. S # {}
    BY <2>3, FS_EmptySet
  <2>12. /\ FullRounds(rows, 1, CurrentRound(rows), S) /\ CurrentRound(rows) >= 1
         /\ t.format = "mcmahon" => CurrentRound(rows) = 1
    <3>1. CASE robin
      <4>1. CurrentRound(schedule) = Len(plan)
        BY <2>9, <2>11, CurrentOfRounds
      <4>2. QED BY <2>9, <3>1, <4>1
    <3>2. CASE ~robin
      <4>1. CurrentRound(opening) = 1
        BY <2>9, <2>11, CurrentOfRounds
      <4>2. QED BY <2>9, <3>2, <4>1
    <3>3. QED BY <3>1, <3>2
  <2>13. rounds \in Nat /\ rounds >= 1
    <3>1. SuggestedRounds(Len(ids)) \in Nat /\ SuggestedRounds(Len(ids)) >= 1
      <4>1. Len(ids) \in Nat /\ Len(ids) >= 2
        BY <2>3, <2>5
      <4>2. QED BY <4>1, SuggestedRoundsType
    <3>2. l.rounds \in Nat
      BY <2>2 DEF Request
    <3>3. QED BY <2>9, <3>1, <3>2
  <2>14. scores \in [Player -> Nat]
    BY <2>8
  <2>15. ids \in Seq(Player)
    BY <2>2, <2>5
  <2> HIDE DEF rows, rounds, scores, l
  <2>16. /\ next.pc = "setRoster" /\ next.ids = ids /\ next.rows = rows
         /\ next.rounds = rounds /\ next \in Request
    BY <2>2, <2>10, <2>13, <2>14, <2>15 DEF Request, PC
  <2> HIDE DEF next
  <2>17. Opening(next, t.format)
    BY <2>3, <2>5, <2>12, <2>13, <2>16 DEF Opening
  <2>18. t.format = "round_robin" => MeetOnce(next.rows, RangeOf(next.ids))
    BY <2>5, <2>10, <2>16
  <2>19. QED BY <2>1, <2>5, <2>10, <2>16, <2>17, <2>18
<1>3. CASE ~(Cardinality(S) < 2)
  <2>1. PICK ids \in Seedings(S) : SeedField(h, ids)
    BY <1>3 DEF LoadRoster
  <2>2. QED BY <1>2, <1>3, <2>1
<1>4. QED
  BY <1>1, <1>3

(***************************************************************************)
(* loadField leaves a request with the round after the last one of its     *)
(* list, which seats the roster; with a roster of one, there is none.      *)
(***************************************************************************)
LEMMA LoadFieldFacts ==
  ASSUME TypeOK, Distinct(roster.ids), NEW h \in Handler, LoadField(h)
  PROVE  \E l \in Request :
           /\ Goto(h, l) /\ l.rounds = local[h].rounds
           /\ \/ l.pc = "finish" /\ Len(roster.ids) < 2
              \/ /\ l.pc = "insertNext" /\ AllFresh(l.rows)
                 /\ FullRounds(l.rows, CurrentRound(local[h].rows) + 1,
                               CurrentRound(local[h].rows) + 1, RangeOf(roster.ids))
<1> DEFINE l == local[h]
           ids == roster.ids
           R == RangeOf(ids)
           results == EngineResults(l.rows)
           round == McMahonRound(ids, roster.start, rating, results)
           c == CurrentRound(l.rows)
           rows == StorePairings(round, c + 1)
           over == [l EXCEPT !.pc = "finish"]
           next == [l EXCEPT !.pc = "insertNext", !.rows = rows]
<1>1. Goto(h, IF round = <<>> THEN over ELSE next)
  BY DEF LoadField
<1>2. /\ l \in Request /\ l.rows \in Seq(PairingRow) /\ ids \in Seq(Player)
      /\ roster.start \in [Player -> Nat] /\ rating \in [Player -> Nat]
  <2>1. l \in Request
    BY DEF TypeOK, StoreOK
  <2>2. l.rows \in Seq(PairingRow)
    BY <2>1 DEF Request
  <2>3. QED BY <2>1, <2>2, TournamentAssumption DEF TypeOK, StoreOK
<1>3. R \in SUBSET Player /\ Ghost \notin R /\ Len(ids) \in Nat
  <2>1. \A i \in 1..Len(ids) : ids[i] \in Player
    BY <1>2
  <2>2. Ghost \notin Player
    BY TournamentAssumption DEF Ghost
  <2>3. QED BY <1>2, <2>1, <2>2 DEF RangeOf
<1>4. over \in Request /\ over.pc = "finish" /\ over.rounds = l.rounds
  <2> HIDE DEF l
  <2>1. QED BY <1>2 DEF Request, PC
<1>5. CASE Len(ids) < 2
  <2>1. round = <<>>
    BY <1>5 DEF McMahonRound
  <2>2. QED BY <1>1, <1>4, <1>5, <2>1
<1>6. CASE ~(Len(ids) < 2)
  <2>1. Len(results) \in Nat
    BY <1>2 DEF EngineResults
  <2> HIDE DEF results
  <2>2. \A p \in R : roster.start[p] \in Int /\ rating[p] \in Int
    BY <1>2, <1>3
  <2>3. Len(ids) >= 2
    BY <1>3, <1>6
  <2>4. FullRound(round, R)
    <3> HIDE DEF round
    <3>1. QED BY <1>2, <1>3, <2>1, <2>2, <2>3, McMahonSeatsAll DEF round
  <2>5. c + 1 \in Nat \ {0}
    BY <1>2, CurrentFacts
  <2> HIDE DEF round
  <2>6. rows \in Seq(PairingRow) /\ AllFresh(rows) /\ FullRounds(rows, c + 1, c + 1, R)
    BY <1>3, <2>4, <2>5, StoredRound
  <2>7. round # <<>>
    <3>1. PICK i \in 1..Len(round) : Sits(round[i], ids[1])
      <4>1. ids[1] \in R
        BY <1>3, <2>3 DEF RangeOf
      <4>2. QED BY <2>4, <4>1 DEF FullRound
    <3>2. Len(round) \in Nat
      BY <2>4 DEF FullRound
    <3>3. QED BY <3>1, <3>2
  <2> HIDE DEF rows, l
  <2>8. /\ next \in Request /\ next.pc = "insertNext" /\ next.rows = rows
        /\ next.rounds = l.rounds
    BY <1>2, <2>6 DEF Request, PC
  <2> HIDE DEF next
  <2>9. QED BY <1>1, <2>6, <2>7, <2>8 DEF l
<1>7. QED
  BY <1>5, <1>6

-----------------------------------------------------------------------------
(* Results and their games. *)

(***************************************************************************)
(* What a step has to show: what it stores is well linked, what the other  *)
(* requests hold stays true of it, and what h holds afterwards is true.    *)
(***************************************************************************)
LEMMA LinkStep ==
  ASSUME TypeOK, LinkInv, NEW h \in Handler, NEW l \in Request, Goto(h, l),
         StoreOK', Distinct(roster'.ids), RowsLinked(pairings', games'),
         RoundHeld(l), ResultHeld(l, pairings', games'),
         \A g \in Handler : g # h => ResultHeld(local[g], pairings', games'),
         l.pc = "setResult" => \A g \in Handler :
           g # h /\ local[g].pc = "setResult" => local[g].game # l.game
  PROVE  TypeOK' /\ LinkInv'
<1>1. /\ local' \in [Handler -> Request] /\ local'[h] = l
      /\ \A g \in Handler : g # h => local'[g] = local[g]
  BY GotoFacts DEF TypeOK
<1>2. TypeOK'
  BY <1>1 DEF TypeOK
<1>3. \A g \in Handler : RoundHeld(local'[g]) /\ ResultHeld(local'[g], pairings', games')
  BY <1>1 DEF LinkInv
<1>4. OwnGames'
  BY <1>1 DEF LinkInv, OwnGames
<1>5. QED
  BY <1>2, <1>3, <1>4 DEF LinkInv

\* A step that leaves pairings and games alone, by a request without a result.
LEMMA LinkAside ==
  ASSUME TypeOK, LinkInv, NEW h \in Handler, NEW l \in Request, Goto(h, l),
         UNCHANGED <<pairings, games>>, StoreOK', Distinct(roster'.ids), RoundHeld(l),
         l.pc \notin {"recordGame", "setResult"}
  PROVE  TypeOK' /\ LinkInv'
<1>1. ResultHeld(l, pairings', games')
  BY DEF ResultHeld
<1>2. QED
  BY <1>1, LinkStep DEF LinkInv

\* A step that adds fresh rows.
LEMMA LinkAppend ==
  ASSUME TypeOK, LinkInv, NEW h \in Handler, Insert(h), AllFresh(local[h].rows),
         NEW l \in Request, Goto(h, l), RoundHeld(l),
         l.pc \notin {"recordGame", "setResult"}
  PROVE  TypeOK' /\ LinkInv'
<1> DEFINE rows == local[h].rows
           n == Len(pairings)
<1>1. /\ pairings' = pairings \o rows /\ n + Len(rows) <= MaxPairings
      /\ UNCHANGED <<t, roster, games, rating>>
  BY DEF Insert
<1>2. /\ pairings \in Seq(PairingRow) /\ rows \in Seq(PairingRow)
      /\ n \in Nat /\ Len(rows) \in Nat
  <2>1. local[h] \in Request
    BY DEF TypeOK
  <2>2. rows \in Seq(PairingRow)
    BY <2>1 DEF Request
  <2>3. pairings \in Seq(PairingRow)
    BY DEF TypeOK, StoreOK
  <2> HIDE DEF rows
  <2>4. QED BY <2>2, <2>3
<1>3. pairings' \in Seq(PairingRow) /\ Joins(pairings', pairings, rows)
  BY <1>1, <1>2, ConcatFacts
<1> HIDE DEF rows
<1>4. StoreOK'
  BY <1>1, <1>2, <1>3 DEF TypeOK, StoreOK, Joins
<1>5. /\ Len(pairings') = n + Len(rows)
      /\ \A i \in 1..n : pairings'[i] = pairings[i] /\ i \in 1..Len(pairings')
      /\ \A i \in 1..Len(pairings') :
           i \in 1..n \/ Fresh(pairings'[i])
  <2>1. \A i \in 1..n : i \in 1..(n + Len(rows))
    BY <1>2
  <2>2. \A k \in 1..Len(rows) : Fresh(rows[k])
    BY DEF AllFresh, rows
  <2>3. QED BY <1>3, <2>1, <2>2 DEF Joins
<1>6. RowsLinked(pairings', games')
  <2>1. games' = games
    BY <1>1
  <2>2. SUFFICES ASSUME NEW i \in 1..Len(pairings')
                 PROVE  RowLinked(pairings'[i], i, games)
    BY <2>1 DEF RowsLinked
  <2>3. CASE i \in 1..n
    BY <1>5, <2>3 DEF RowsLinked, LinkInv
  <2>4. CASE Fresh(pairings'[i])
    BY <2>4 DEF RowLinked, Fresh
  <2>5. QED BY <1>5, <2>3, <2>4
<1>7. ASSUME NEW g \in Handler PROVE ResultHeld(local[g], pairings', games')
  <2>1. ResultHeld(local[g], pairings, games)
    BY DEF LinkInv
  <2>2. local[g].pc = "setResult" => local[g].game # 0
    <3>1. games \in Seq(GameRow)
      BY DEF TypeOK, StoreOK
    <3>2. QED BY <2>1, <3>1 DEF ResultHeld
  <2>3. QED BY <1>1, <1>5, <2>1, <2>2 DEF ResultHeld, Fresh
<1>8. ResultHeld(l, pairings', games')
  BY DEF ResultHeld
<1>9. Distinct(roster'.ids)
  BY <1>1 DEF LinkInv
<1>10. QED
  BY <1>4, <1>6, <1>7, <1>8, <1>9, LinkStep

\* A game is recorded for the pairing a request has read.
LEMMA LinkRecord ==
  ASSUME TypeOK, LinkInv, NEW h \in Handler, NEW now \in Ratings, RecordGame(h, now)
  PROVE  TypeOK' /\ LinkInv'
<1> DEFINE q == local[h]
           pr == pairings[q.pair]
           n == Len(games)
           game == GameOf(q.pair, pr, q.winner)
           l == [q EXCEPT !.pc = "setResult", !.game = n + 1]
<1>1. /\ q.pc = "recordGame" /\ n < MaxGames /\ games' = Append(games, game)
      /\ rating' = now /\ Goto(h, l) /\ UNCHANGED <<t, roster, pairings>>
  BY DEF RecordGame, GameOf
<1>2. /\ q \in Request /\ games \in Seq(GameRow) /\ n \in Nat
      /\ pairings \in Seq(PairingRow) /\ Len(pairings) <= MaxPairings
  BY Typed
<1>3. /\ q.pair \in 1..Len(pairings) /\ ~IsBye(pr) /\ q.winner \in {"black", "white"}
  BY <1>1 DEF LinkInv, ResultHeld
<1>4. pr \in PairingRow
  BY <1>2, <1>3
<1>5. game \in GameRow
  <2>1. pr.black \in Player /\ pr.white \in Player
    BY <1>3, <1>4 DEF PairingRow, IsBye
  <2>2. q.pair \in 1..MaxPairings
    BY <1>2, <1>3, TournamentAssumption
  <2> HIDE DEF pr, q
  <2>3. QED BY <1>3, <2>1, <2>2 DEF GameRow, GameOf
<1>6. l \in Request /\ l.pc = "setResult" /\ l.game = n + 1
      /\ l.pair = q.pair /\ l.winner = q.winner
  <2>1. n + 1 \in 0..MaxGames
    BY <1>1, <1>2, TournamentAssumption
  <2> HIDE DEF q, n
  <2>2. QED BY <1>2, <2>1 DEF Request, PC
<1> HIDE DEF game, l
<1>7. /\ games' \in Seq(GameRow) /\ Len(games') = n + 1 /\ games'[n + 1] = game
      /\ \A k \in 1..n : games'[k] = games[k] /\ k \in 1..(n + 1) /\ k # n + 1
      /\ n + 1 \in 1..(n + 1)
  BY <1>1, <1>2, <1>5
<1>8. StoreOK'
  <2>1. n + 1 <= MaxGames
    BY <1>1, <1>2, TournamentAssumption
  <2>2. QED BY <1>1, <1>7, <2>1 DEF TypeOK, StoreOK
<1>9. RowsLinked(pairings', games')
  BY <1>1, <1>7 DEF LinkInv, RowsLinked, RowLinked
<1>10. \A g \in Handler : ResultHeld(local[g], pairings', games')
  <2>1. ASSUME NEW g \in Handler PROVE ResultHeld(local[g], pairings', games')
    <3>1. ResultHeld(local[g], pairings, games)
      BY DEF LinkInv
    <3>2. QED BY <1>1, <1>7, <3>1 DEF ResultHeld
  <2>2. QED BY <2>1
<1>11. ResultHeld(l, pairings', games')
  <2>1. \A i \in 1..Len(pairings) : pairings[i].game # n + 1
    <3>1. ASSUME NEW i \in 1..Len(pairings) PROVE pairings[i].game # n + 1
      <4>1. RowLinked(pairings[i], i, games)
        BY DEF LinkInv, RowsLinked
      <4>2. pairings[i].game = 0 \/ pairings[i].game \in 1..n
        BY <4>1 DEF RowLinked
      <4>3. QED BY <1>2, <4>2
    <3>2. QED BY <3>1
  <2>2. QED BY <1>1, <1>3, <1>6, <1>7, <2>1 DEF ResultHeld, game
<1>12. \A g \in Handler : local[g].pc = "setResult" => local[g].game # l.game
  <2>1. ASSUME NEW g \in Handler, local[g].pc = "setResult" PROVE local[g].game \in 1..n
    BY <2>1 DEF LinkInv, ResultHeld
  <2>2. QED BY <1>2, <1>6, <2>1
<1>13. RoundHeld(l)
  BY <1>6 DEF RoundHeld
<1>14. Distinct(roster'.ids)
  BY <1>1 DEF LinkInv
<1>15. QED
  BY <1>1, <1>6, <1>8, <1>9, <1>10, <1>11, <1>12, <1>13, <1>14, LinkStep

\* The row that a result is written to, and the ones it leaves.
SetFacts(h) ==
  LET l == local[h]
  IN  /\ l.pair \in 1..Len(pairings) /\ l.winner \in {"black", "white"}
      /\ l.game \in 1..Len(games)
      /\ games[l.game] = GameOf(l.pair, pairings[l.pair], l.winner)
      /\ \A i \in 1..Len(pairings) : pairings[i].game # l.game
      /\ ~IsBye(pairings[l.pair])
      /\ pairings' \in Seq(PairingRow) /\ Len(pairings') = Len(pairings)
      /\ \A i \in 1..Len(pairings) : i # l.pair => pairings'[i] = pairings[i]
      /\ \A i \in 1..Len(pairings) :
           /\ pairings'[i].round = pairings[i].round
           /\ pairings'[i].black = pairings[i].black
           /\ pairings'[i].white = pairings[i].white
      /\ pairings'[l.pair].winner = l.winner /\ pairings'[l.pair].game = l.game

LEMMA SetResultRow ==
  ASSUME TypeOK, LinkInv, NEW h \in Handler, SetResult(h)
  PROVE  SetFacts(h)
<1> DEFINE l == local[h]
           pr == pairings[l.pair]
           row == ResultRow(pr, l)
<1>1. /\ l.pc = "setResult" /\ pairings' = [pairings EXCEPT ![l.pair] = row]
  BY DEF SetResult
<1>2. /\ l.pair \in 1..Len(pairings) /\ l.winner \in {"black", "white"} /\ ~IsBye(pr)
      /\ l.game \in 1..Len(games) /\ games[l.game] = GameOf(l.pair, pr, l.winner)
      /\ \A i \in 1..Len(pairings) : pairings[i].game # l.game
  BY <1>1 DEF LinkInv, ResultHeld
<1>3. /\ l \in Request /\ pairings \in Seq(PairingRow) /\ Len(pairings) \in Nat
      /\ pr \in PairingRow
  <2>1. l \in Request /\ pairings \in Seq(PairingRow) /\ Len(pairings) \in Nat
    BY Typed
  <2> HIDE DEF l
  <2>2. QED BY <1>2, <2>1
<1>4. l.game \in 0..MaxGames
  BY <1>3 DEF Request
<1>5. /\ row \in PairingRow /\ row.round = pr.round /\ row.black = pr.black
      /\ row.white = pr.white /\ row.winner = l.winner /\ row.game = l.game
  <2> HIDE DEF pr, l
  <2>1. QED BY <1>2, <1>3, <1>4 DEF PairingRow, ResultRow
<1> HIDE DEF row
<1>6. /\ pairings' \in Seq(PairingRow) /\ Len(pairings') = Len(pairings)
      /\ \A i \in 1..Len(pairings) :
           pairings'[i] = IF i = l.pair THEN row ELSE pairings[i]
  BY <1>1, <1>2, <1>3, <1>5
<1>7. QED
  BY <1>2, <1>5, <1>6 DEF SetFacts

LEMMA LinkSet ==
  ASSUME TypeOK, LinkInv, NEW h \in Handler, SetResult(h)
  PROVE  TypeOK' /\ LinkInv'
<1> DEFINE l == local[h]
<1>1. SetFacts(h)
  BY SetResultRow
<1>2. l.pc = "setResult" /\ Goto(h, Idle) /\ UNCHANGED <<t, roster, games, rating>>
  BY DEF SetResult
<1>3. StoreOK'
  BY <1>1, <1>2 DEF TypeOK, StoreOK, SetFacts
<1>4. RowsLinked(pairings', games')
  <2>1. ASSUME NEW i \in 1..Len(pairings) PROVE RowLinked(pairings'[i], i, games)
    <3>1. RowLinked(pairings[i], i, games)
      BY DEF LinkInv, RowsLinked
    <3>2. CASE i # l.pair
      BY <1>1, <3>1, <3>2 DEF SetFacts
    <3>3. CASE i = l.pair
      <4>1. l.game # 0
        <5>1. l.game \in 1..Len(games) /\ Len(games) \in Nat
          BY <1>1, Typed DEF SetFacts
        <5>2. QED BY <5>1
      <4>2. QED BY <1>1, <3>3, <4>1 DEF SetFacts, RowLinked, GameOf, IsBye
    <3>4. QED BY <3>2, <3>3
  <2>2. QED BY <1>1, <1>2, <2>1 DEF RowsLinked, SetFacts
<1>5. ASSUME NEW g \in Handler, g # h PROVE ResultHeld(local[g], pairings', games')
  <2>1. ResultHeld(local[g], pairings, games)
    BY DEF LinkInv
  <2>2. local[g].pc = "setResult" => local[g].game # l.game
    BY <1>2, <1>5 DEF LinkInv, OwnGames
  <2>3. \A i \in 1..Len(pairings) : \A w :
          /\ IsBye(pairings'[i]) <=> IsBye(pairings[i])
          /\ GameOf(i, pairings'[i], w) = GameOf(i, pairings[i], w)
    BY <1>1 DEF SetFacts, IsBye, GameOf
  <2>4. \A i \in 1..Len(pairings) : pairings'[i] = pairings[i] \/ pairings'[i].game = l.game
    BY <1>1 DEF SetFacts
  <2>5. Len(pairings') = Len(pairings) /\ games' = games
    BY <1>1, <1>2 DEF SetFacts
  <2>6. QED BY <2>1, <2>2, <2>3, <2>4, <2>5 DEF ResultHeld
<1>6. Idle.pc = "idle"
  BY DEF Idle
<1>7. RoundHeld(Idle) /\ ResultHeld(Idle, pairings', games')
  BY <1>6 DEF RoundHeld, ResultHeld
<1>8. Distinct(roster'.ids)
  BY <1>2 DEF LinkInv
<1>9. QED
  BY <1>2, <1>3, <1>4, <1>5, <1>6, <1>7, <1>8, IdleType, LinkStep

LEMMA LinkInit == Init => TypeOK /\ LinkInv
<1> SUFFICES ASSUME Init PROVE TypeOK /\ LinkInv
  OBVIOUS
<1> DEFINE e == <<>>
<1>1. e \in Seq(Player) /\ e \in Seq(PairingRow) /\ e \in Seq(GameRow) /\ Len(e) = 0
  OBVIOUS
<1>2. NoScores \in [Player -> Nat] /\ 0 <= MaxPairings /\ 0 <= MaxGames
  BY TournamentAssumption DEF NoScores
<1>3. /\ t = [status |-> "absent", format |-> "", handicap |-> FALSE, rounds |-> 0]
      /\ roster = [ids |-> e, start |-> NoScores] /\ pairings = e /\ games = e
      /\ rating \in Ratings /\ local = [h \in Handler |-> Idle]
  BY DEF Init
<1> HIDE DEF e
<1>4. StoreOK
  BY <1>1, <1>2, <1>3 DEF StoreOK
<1>5. TypeOK
  BY <1>3, <1>4, IdleType DEF TypeOK
<1>6. Idle.pc = "idle"
  BY DEF Idle
<1>7. LinkInv
  <2>1. \A h \in Handler : local[h] = Idle
    BY <1>3
  <2>2. Distinct(roster.ids) /\ RowsLinked(pairings, games)
    <3>1. roster.ids = e /\ pairings = e
      BY <1>3
    <3>2. Distinct(e) /\ RowsLinked(e, games)
      BY <1>1 DEF Distinct, RowsLinked
    <3>3. QED BY <3>1, <3>2
  <2>3. ResultHeld(Idle, pairings, games) /\ RoundHeld(Idle)
    BY <1>6 DEF ResultHeld, RoundHeld
  <2>4. OwnGames
    BY <1>6, <2>1 DEF OwnGames
  <2>5. QED BY <2>1, <2>2, <2>3, <2>4 DEF LinkInv
<1>8. QED
  BY <1>5, <1>7

\* The id sequence of a stored roster.
LEMMA RosterRowsFacts ==
  ASSUME NEW l \in Request, Distinct(l.ids)
  PROVE  /\ RosterRows(l).ids \in Seq(Player) /\ RosterRows(l).start = l.start
         /\ Lists(RosterRows(l).ids, RangeOf(l.ids))
         /\ RangeOf(l.ids) \in SUBSET Player /\ Cardinality(RangeOf(l.ids)) = Len(l.ids)
<1> DEFINE S == RangeOf(l.ids)
<1>1. l.ids \in Seq(Player)
  BY DEF Request
<1>2. IsFiniteSet(S) /\ Cardinality(S) = Len(l.ids)
  BY <1>1, FieldSize
<1>3. S \in SUBSET Player
  BY <1>1 DEF RangeOf
<1>4. S \in SUBSET Nat
  BY <1>3, TournamentAssumption
<1> HIDE DEF S
<1>5. Lists(InOrder(S), S)
  BY <1>2, <1>4, InOrderLists
<1>6. InOrder(S) \in Seq(S)
  BY <1>5 DEF Lists
<1>7. InOrder(S) \in Seq(Player)
  BY <1>3, <1>6
<1>8. QED
  BY <1>2, <1>3, <1>5, <1>7 DEF RosterRows, S

\* A request that has left off, or goes on without rows or a game.
Light(l) ==
  l.pc \in {"idle", "setRounds", "setRunning", "listPairings", "loadField", "finish"}

LEMMA LightHeld ==
  ASSUME NEW l, Light(l)
  PROVE  RoundHeld(l) /\ l.pc \notin {"recordGame", "setResult"}
BY DEF Light, RoundHeld

\* A step of a start.
LEMMA LinkStart ==
  ASSUME TypeOK, LinkInv, NEW h \in Handler,
         \/ \E want \in Roster(t.format) : BeginStart(h, want)
         \/ LoadRoster(h) \/ SetRoster(h) \/ InsertOpening(h)
         \/ SetRounds(h) \/ SetRunning(h)
  PROVE  TypeOK' /\ LinkInv'
<1> DEFINE q == local[h]
<1>1. q \in Request /\ RoundHeld(q)
  BY DEF TypeOK, LinkInv
<1>2. ASSUME NEW want \in Roster(t.format), BeginStart(h, want) PROVE TypeOK' /\ LinkInv'
  <2> DEFINE l == [Idle EXCEPT !.pc = "loadRoster", !.want = want, !.rounds = t.rounds]
  <2>1. Goto(h, l) /\ UNCHANGED <<t, roster, pairings, games, rating>>
    BY <1>2 DEF BeginStart
  <2>2. want \subseteq Player /\ IsFiniteSet(want) /\ t.rounds \in Nat
    <3>1. t.format \in Formats \cup {""} /\ t.rounds \in Nat
      BY DEF TypeOK, StoreOK
    <3>2. QED BY <3>1, RosterAssumption
  <2>3. l \in Request /\ l.pc = "loadRoster" /\ l.want = want
    BY <2>2, IdleType DEF Request, PC
  <2> HIDE DEF l
  <2>4. RoundHeld(l) /\ l.pc \notin {"recordGame", "setResult"}
    BY <2>2, <2>3 DEF RoundHeld
  <2>5. StoreOK' /\ Distinct(roster'.ids)
    BY <2>1 DEF TypeOK, StoreOK, LinkInv
  <2>6. QED BY <2>1, <2>3, <2>4, <2>5, LinkAside
<1>3. CASE LoadRoster(h)
  <2>1. UNCHANGED <<t, roster, pairings, games, rating>> /\ q.pc = "loadRoster"
    BY <1>3 DEF LoadRoster
  <2>2. IsFiniteSet(q.want)
    BY <1>1, <2>1 DEF RoundHeld
  <2>3. PICK l \in Request :
          /\ Goto(h, l)
          /\ \/ l = Idle
             \/ l.pc = "setRoster" /\ Distinct(l.ids) /\ AllFresh(l.rows)
                 /\ Opening(l, t.format)
    BY <1>3, <2>2, LoadRosterFacts
  <2>4. RoundHeld(l) /\ l.pc \notin {"recordGame", "setResult"}
    <3>1. Light(Idle)
      BY DEF Light, Idle
    <3>2. CASE l = Idle
      BY <3>1, <3>2, LightHeld
    <3>3. CASE l.pc = "setRoster" /\ Distinct(l.ids) /\ AllFresh(l.rows)
      BY <3>3 DEF RoundHeld
    <3>4. QED BY <2>3, <3>2, <3>3
  <2>5. StoreOK' /\ Distinct(roster'.ids)
    BY <2>1 DEF TypeOK, StoreOK, LinkInv
  <2>6. QED BY <2>1, <2>3, <2>4, <2>5, LinkAside
<1>4. CASE SetRoster(h)
  <2> DEFINE l == [q EXCEPT !.pc = "insertOpening"]
  <2>1. /\ q.pc = "setRoster" /\ roster' = RosterRows(q) /\ Goto(h, l)
        /\ UNCHANGED <<t, pairings, games, rating>>
    BY <1>4 DEF SetRoster
  <2>2. Distinct(q.ids) /\ AllFresh(q.rows)
    BY <1>1, <2>1 DEF RoundHeld
  <2> HIDE DEF q
  <2>3. l \in Request /\ l.pc = "insertOpening" /\ l.rows = q.rows
    BY <1>1 DEF Request, PC
  <2> HIDE DEF l
  <2>4. RoundHeld(l) /\ l.pc \notin {"recordGame", "setResult"}
    BY <2>2, <2>3 DEF RoundHeld
  <2>5. /\ RosterRows(q).ids \in Seq(Player) /\ Distinct(RosterRows(q).ids)
        /\ RosterRows(q).start \in [Player -> Nat]
    <3>1. q.start \in [Player -> Nat]
      BY <1>1 DEF Request
    <3>2. QED BY <1>1, <2>2, <3>1, RosterRowsFacts, ListsFacts
  <2>6. RosterRows(q) \in [ids : Seq(Player), start : [Player -> Nat]]
    BY <2>5 DEF RosterRows
  <2>7. StoreOK' /\ Distinct(roster'.ids)
    BY <2>1, <2>5, <2>6 DEF TypeOK, StoreOK
  <2>8. QED BY <2>1, <2>3, <2>4, <2>7, LinkAside
<1>5. CASE InsertOpening(h)
  <2> DEFINE l == [q EXCEPT !.pc = "setRounds", !.rows = <<>>]
  <2>1. q.pc = "insertOpening" /\ Insert(h) /\ Goto(h, l)
    BY <1>5 DEF InsertOpening
  <2>2. AllFresh(q.rows)
    BY <1>1, <2>1 DEF RoundHeld
  <2>3. <<>> \in Seq(PairingRow)
    OBVIOUS
  <2> HIDE DEF q
  <2>4. l \in Request /\ Light(l)
    BY <1>1, <2>3 DEF Request, PC, Light
  <2> HIDE DEF l
  <2>5. QED BY <2>1, <2>2, <2>4, LightHeld, LinkAppend DEF q
<1>6. CASE SetRounds(h)
  <2> DEFINE l == [q EXCEPT !.pc = "setRunning"]
  <2>1. /\ t' = [t EXCEPT !.rounds = q.rounds] /\ Goto(h, l)
        /\ UNCHANGED <<roster, pairings, games, rating>>
    BY <1>6 DEF SetRounds
  <2> HIDE DEF q
  <2>2. l \in Request /\ Light(l) /\ q.rounds \in Nat
    BY <1>1 DEF Request, PC, Light
  <2> HIDE DEF l
  <2>3. StoreOK' /\ Distinct(roster'.ids)
    BY <2>1, <2>2 DEF TypeOK, StoreOK, LinkInv
  <2>4. QED BY <2>1, <2>2, <2>3, LightHeld, LinkAside
<1>7. CASE SetRunning(h)
  <2>1. /\ t' = [t EXCEPT !.status = "running"] /\ Goto(h, Idle)
        /\ UNCHANGED <<roster, pairings, games, rating>>
    BY <1>7 DEF SetRunning
  <2>2. Light(Idle)
    BY DEF Light, Idle
  <2>3. StoreOK' /\ Distinct(roster'.ids)
    BY <2>1 DEF TypeOK, StoreOK, LinkInv
  <2>4. QED BY <2>1, <2>2, <2>3, IdleType, LightHeld, LinkAside
<1>8. QED
  BY <1>2, <1>3, <1>4, <1>5, <1>6, <1>7

\* A step of a result.
LEMMA LinkResult ==
  ASSUME TypeOK, LinkInv, NEW h \in Handler,
         \/ \E i \in 1..Len(pairings), winner \in {"black", "white"} :
              BeginResult(h, i, winner)
         \/ \E now \in Ratings : RecordGame(h, now)
         \/ SetResult(h)
  PROVE  TypeOK' /\ LinkInv'
<1>1. ASSUME NEW i \in 1..Len(pairings), NEW winner \in {"black", "white"},
             BeginResult(h, i, winner)
      PROVE  TypeOK' /\ LinkInv'
  <2> DEFINE l == [Idle EXCEPT !.pc = "recordGame", !.pair = i, !.winner = winner]
  <2>1. /\ Goto(h, l) /\ UNCHANGED <<t, roster, pairings, games, rating>>
        /\ ~IsBye(pairings[i])
    BY <1>1 DEF BeginResult, Open
  <2>2. i \in 0..MaxPairings
    BY Typed, TournamentAssumption
  <2>3. l \in Request /\ l.pc = "recordGame" /\ l.pair = i /\ l.winner = winner
    BY <2>2, IdleType DEF Request, PC
  <2> HIDE DEF l
  <2>4. RoundHeld(l) /\ ResultHeld(l, pairings, games)
    BY <2>1, <2>3 DEF RoundHeld, ResultHeld
  <2>5. \A g \in Handler : ResultHeld(local[g], pairings, games)
    BY DEF LinkInv
  <2>6. StoreOK' /\ Distinct(roster'.ids) /\ RowsLinked(pairings', games')
    BY <2>1 DEF TypeOK, StoreOK, LinkInv
  <2>7. QED BY <2>1, <2>3, <2>4, <2>5, <2>6, LinkStep
<1>2. QED
  BY <1>1, LinkRecord, LinkSet

\* A step of a request for the next round, or its end at any point.
LEMMA LinkAdvance ==
  ASSUME TypeOK, LinkInv, NEW h \in Handler,
         \/ BeginNext(h) \/ ListPairings(h) \/ LoadField(h) \/ InsertNext(h)
         \/ Finish(h) \/ Fail(h)
  PROVE  TypeOK' /\ LinkInv'
<1> DEFINE q == local[h]
<1>1. q \in Request /\ RoundHeld(q)
  BY DEF TypeOK, LinkInv
<1>2. Idle \in Request /\ Light(Idle)
  BY IdleType DEF Light, Idle
<1>3. CASE BeginNext(h)
  <2> DEFINE l == [Idle EXCEPT !.pc = "listPairings", !.rounds = t.rounds]
  <2>1. Goto(h, l) /\ UNCHANGED <<t, roster, pairings, games, rating>>
    BY <1>3 DEF BeginNext
  <2>2. t.rounds \in Nat
    BY DEF TypeOK, StoreOK
  <2>3. l \in Request /\ Light(l)
    BY <2>2, IdleType DEF Request, PC, Light
  <2> HIDE DEF l
  <2>4. StoreOK' /\ Distinct(roster'.ids)
    BY <2>1 DEF TypeOK, StoreOK, LinkInv
  <2>5. QED BY <2>1, <2>3, <2>4, LightHeld, LinkAside
<1>4. CASE ListPairings(h)
  <2> DEFINE over == [q EXCEPT !.pc = "finish"]
             more == [q EXCEPT !.pc = "loadField", !.rows = pairings]
  <2>1. /\ Goto(h, Idle) \/ Goto(h, over) \/ Goto(h, more)
        /\ UNCHANGED <<t, roster, pairings, games, rating>>
    BY <1>4 DEF ListPairings
  <2>2. pairings \in Seq(PairingRow)
    BY Typed
  <2> HIDE DEF q
  <2>3. over \in Request /\ Light(over)
    BY <1>1 DEF Request, PC, Light
  <2>4. more \in Request /\ Light(more)
    BY <1>1, <2>2 DEF Request, PC, Light
  <2> HIDE DEF over, more
  <2>5. PICK l \in Request : Goto(h, l) /\ Light(l)
    BY <1>2, <2>1, <2>3, <2>4
  <2>6. StoreOK' /\ Distinct(roster'.ids)
    BY <2>1 DEF TypeOK, StoreOK, LinkInv
  <2>7. QED BY <2>1, <2>5, <2>6, LightHeld, LinkAside
<1>5. CASE LoadField(h)
  <2>1. UNCHANGED <<t, roster, pairings, games, rating>>
    BY <1>5 DEF LoadField
  <2>2. PICK l \in Request :
          /\ Goto(h, l)
          /\ l.pc = "finish" \/ (l.pc = "insertNext" /\ AllFresh(l.rows))
    BY <1>5, LoadFieldFacts DEF LinkInv
  <2>3. RoundHeld(l) /\ l.pc \notin {"recordGame", "setResult"}
    BY <2>2 DEF RoundHeld
  <2>4. StoreOK' /\ Distinct(roster'.ids)
    BY <2>1 DEF TypeOK, StoreOK, LinkInv
  <2>5. QED BY <2>1, <2>2, <2>3, <2>4, LinkAside
<1>6. CASE InsertNext(h)
  <2>1. q.pc = "insertNext" /\ Insert(h) /\ Goto(h, Idle)
    BY <1>6 DEF InsertNext
  <2>2. AllFresh(q.rows)
    BY <1>1, <2>1 DEF RoundHeld
  <2>3. QED BY <1>2, <2>1, <2>2, LightHeld, LinkAppend
<1>7. CASE Finish(h)
  <2>1. /\ t' = [t EXCEPT !.status = "finished"] /\ Goto(h, Idle)
        /\ UNCHANGED <<roster, pairings, games, rating>>
    BY <1>7 DEF Finish
  <2>2. StoreOK' /\ Distinct(roster'.ids)
    BY <2>1 DEF TypeOK, StoreOK, LinkInv
  <2>3. QED BY <1>2, <2>1, <2>2, LightHeld, LinkAside
<1>8. CASE Fail(h)
  <2>1. Goto(h, Idle) /\ UNCHANGED <<t, roster, pairings, games, rating>>
    BY <1>8 DEF Fail
  <2>2. StoreOK' /\ Distinct(roster'.ids)
    BY <2>1 DEF TypeOK, StoreOK, LinkInv
  <2>3. QED BY <1>2, <2>1, <2>2, LightHeld, LinkAside
<1>9. QED
  BY <1>3, <1>4, <1>5, <1>6, <1>7, <1>8

LEMMA LinkNext ==
  ASSUME TypeOK, LinkInv, [Next]_vars
  PROVE  TypeOK' /\ LinkInv'
<1>1. ASSUME NEW f \in Formats, NEW c \in Handicaps, NEW n \in Rounds, Create(f, c, n)
      PROVE  TypeOK' /\ LinkInv'
  <2>1. /\ t' = [status |-> "setup", format |-> f, handicap |-> c, rounds |-> n]
        /\ UNCHANGED <<roster, pairings, games, rating, local>>
    BY <1>1 DEF Create
  <2>2. c \in BOOLEAN /\ n \in Nat
    BY TournamentAssumption
  <2>3. TypeOK'
    BY <2>1, <2>2 DEF TypeOK, StoreOK
  <2>4. LinkInv'
    BY <2>1 DEF LinkInv, OwnGames
  <2>5. QED BY <2>3, <2>4
<1>2. ASSUME NEW h \in Handler, HandlerNext(h) PROVE TypeOK' /\ LinkInv'
  BY <1>2, LinkStart, LinkResult, LinkAdvance DEF HandlerNext
<1>3. CASE UNCHANGED vars
  BY <1>3 DEF vars, TypeOK, StoreOK, LinkInv, OwnGames
<1>4. QED
  BY <1>1, <1>2, <1>3 DEF Next

(***************************************************************************)
(* Whatever the requests do and wherever they end: the store is typed, a   *)
(* row is as it was paired or linked to the game it shows, and a request   *)
(* that is about to write a result holds a game of its own.                *)
(***************************************************************************)
THEOREM LinkInvariant == Spec => [](TypeOK /\ LinkInv)
<1>1. TypeOK /\ LinkInv /\ [Next]_vars => (TypeOK /\ LinkInv)'
  BY LinkNext
<1>2. QED
  BY LinkInit, <1>1, PTL DEF Spec

(***************************************************************************)
(* LinkMatches: a result is linked to the game that was played for it, by  *)
(* its two players with its colours - for any number of requests at once,  *)
(* with a failure at any store call.                                       *)
(***************************************************************************)
THEOREM ResultsLinked == Spec => []LinkMatches
<1>1. TypeOK /\ LinkInv => LinkMatches
  BY DEF LinkInv, RowsLinked, RowLinked, LinkMatches, GameOf
<1>2. QED
  BY LinkInvariant, <1>1, PTL

\* Nothing but a result request starts to record a game.
LEMMA BeginsResult ==
  ASSUME TypeOK, [Next]_vars, NEW h \in Handler,
         local[h].pc = "idle", local'[h].pc = "recordGame"
  PROVE  \E i \in 1..Len(pairings), winner \in {"black", "white"} :
           BeginResult(h, i, winner)
<1>1. local \in [Handler -> Request] /\ Idle.pc = "idle"
  BY DEF TypeOK, Idle
<1>2. local'[h] # local[h]
  OBVIOUS
<1>3. PICK k \in Handler : HandlerNext(k)
  BY <1>2 DEF Next, Create, vars
<1>4. \E l : Goto(k, l)
  BY <1>3 DEF HandlerNext, BeginStart, LoadRoster, SeedField, SetRoster, InsertOpening,
     SetRounds, SetRunning, BeginResult, RecordGame, SetResult, BeginNext, ListPairings,
     LoadField, InsertNext, Finish, Fail
<1>5. k = h
  BY <1>1, <1>2, <1>4 DEF Goto
<1>6. ASSUME NEW want \in Roster(t.format), BeginStart(h, want) PROVE FALSE
  BY <1>1, <1>6 DEF BeginStart, Goto, Idle
<1>7. ASSUME BeginNext(h) PROVE FALSE
  BY <1>1, <1>7 DEF BeginNext, Goto, Idle
<1>8. ASSUME Fail(h) PROVE FALSE
  BY <1>1, <1>8 DEF Fail, Goto
<1>9. QED
  BY <1>3, <1>5, <1>6, <1>7, <1>8 DEF HandlerNext, LoadRoster, SetRoster, InsertOpening,
     SetRounds, SetRunning, RecordGame, SetResult, ListPairings, LoadField, InsertNext,
     Finish

\* The pairing of a game is played, or a request holds the game, or held it when it ended.
LEMMA ExplainedNext ==
  ASSUME TypeOK, LinkInv, ExplainedInv, [Next]_vars
  PROVE  ExplainedInv'
<1> USE DEF ExplainedInv
<1> DEFINE Kept == /\ games' = games /\ cut \subseteq cut'
                   /\ Len(pairings) <= Len(pairings')
                   /\ \A i \in 1..Len(pairings) : pairings'[i] = pairings[i]
<1>1. /\ Len(pairings) \in Nat /\ Len(games) \in Nat /\ games \in Seq(GameRow)
      /\ pairings \in Seq(PairingRow) /\ local \in [Handler -> Request]
  BY Typed DEF TypeOK
<1>2. ASSUME NEW h \in Handler, NEW l, Goto(h, l), Kept, Len(pairings') \in Nat,
             local[h].pc = "setResult" => local[h].game \in cut'
      PROVE  ExplainedInv'
  <2>1. \A g \in Handler : g # h => local'[g] = local[g]
    BY <1>1, <1>2 DEF Goto
  <2>2. ASSUME NEW k \in 1..Len(games) PROVE Explained(k)'
    <3>1. Explained(k)
      OBVIOUS
    <3>2. games[k].pair \in 1..Len(pairings')
      BY <1>1, <1>2, <3>1 DEF Explained
    <3>3. CASE Played(pairings[games[k].pair])
      BY <1>2, <3>1, <3>2, <3>3 DEF Explained
    <3>4. CASE k \in cut
      BY <1>2, <3>2, <3>4 DEF Explained
    <3>5. CASE UnderWay(k)
      <4>1. PICK g \in Handler : local[g].pc = "setResult" /\ local[g].game = k
        BY <3>5 DEF UnderWay
      <4>2. CASE g = h
        BY <1>2, <3>2, <4>1, <4>2 DEF Explained
      <4>3. CASE g # h
        BY <1>2, <2>1, <3>2, <4>1, <4>3 DEF Explained, UnderWay
      <4>4. QED BY <4>2, <4>3
    <3>6. QED BY <3>1, <3>3, <3>4, <3>5 DEF Explained
  <2>3. QED BY <1>2, <2>2
<1> HIDE DEF ExplainedInv
<1>3. ASSUME UNCHANGED <<pairings, games>>, cut \subseteq cut'
      PROVE  Kept /\ Len(pairings') \in Nat
  BY <1>1, <1>3
<1>4. ASSUME NEW h \in Handler, Insert(h) PROVE Kept /\ Len(pairings') \in Nat
  <2> DEFINE rows == local[h].rows
  <2>1. pairings' = pairings \o rows /\ games' = games /\ cut' = cut
    BY <1>4 DEF Insert
  <2>2. rows \in Seq(PairingRow)
    BY Typed DEF Request
  <2>3. Joins(pairings', pairings, rows) /\ Len(rows) \in Nat
    BY <1>1, <2>1, <2>2, ConcatFacts
  <2>4. Len(pairings') = Len(pairings) + Len(rows)
    BY <2>3 DEF Joins
  <2> HIDE DEF rows
  <2>5. QED BY <1>1, <2>1, <2>3, <2>4 DEF Joins
<1> HIDE DEF Kept
<1>5. ASSUME NEW f \in Formats, NEW c \in Handicaps, NEW n \in Rounds, Create(f, c, n)
      PROVE  ExplainedInv'
  BY <1>5 DEF Create, ExplainedInv, Explained, UnderWay
<1>6. ASSUME NEW h \in Handler, HandlerNext(h) PROVE ExplainedInv'
  <2>1. ASSUME NEW want \in Roster(t.format), BeginStart(h, want) PROVE ExplainedInv'
    BY <1>2, <1>3, <2>1 DEF BeginStart
  <2>2. CASE LoadRoster(h)
    <3>1. /\ UNCHANGED <<pairings, games, cut>>
          /\ local[h].pc # "setResult" /\ \E l : Goto(h, l)
      BY <2>2 DEF LoadRoster, SeedField
    <3>2. QED BY <1>2, <1>3, <3>1
  <2>3. CASE SetRoster(h)
    BY <1>2, <1>3, <2>3 DEF SetRoster
  <2>4. CASE InsertOpening(h)
    BY <1>2, <1>4, <2>4 DEF InsertOpening
  <2>5. CASE SetRounds(h)
    BY <1>2, <1>3, <2>5 DEF SetRounds
  <2>6. CASE SetRunning(h)
    BY <1>2, <1>3, <2>6 DEF SetRunning
  <2>7. ASSUME NEW i \in 1..Len(pairings), NEW winner \in {"black", "white"},
               BeginResult(h, i, winner)
        PROVE  ExplainedInv'
    BY <1>2, <1>3, <2>7 DEF BeginResult
  <2>8. ASSUME NEW now \in Ratings, RecordGame(h, now) PROVE ExplainedInv'
    <3> DEFINE l == local[h]
               n == Len(games)
               game == GameOf(l.pair, pairings[l.pair], l.winner)
               held == [l EXCEPT !.pc = "setResult", !.game = n + 1]
    <3>1. /\ l.pc = "recordGame" /\ games' = Append(games, game) /\ Goto(h, held)
          /\ UNCHANGED <<pairings, cut>>
      BY <2>8 DEF RecordGame, GameOf
    <3>2. l.pair \in 1..Len(pairings)
      BY <3>1 DEF LinkInv, ResultHeld
    <3>3. \A g \in Handler : g # h => local'[g] = local[g]
      BY <1>1, <3>1 DEF Goto
    <3>4. local'[h].pc = "setResult" /\ local'[h].game = n + 1
      <4>1. local'[h] = held /\ l \in Request
        BY <1>1, <3>1 DEF Goto
      <4> HIDE DEF l, n
      <4>2. QED BY <4>1 DEF Request
    <3>5. game.pair = l.pair
      BY DEF GameOf
    <3> HIDE DEF game, held
    <3>6. /\ Len(games') = n + 1 /\ games'[n + 1] = game
          /\ \A k \in 1..n : games'[k] = games[k]
      BY <1>1, <3>1
    <3>7. ASSUME NEW k, k = n + 1 PROVE Explained(k)'
      BY <3>7, <3>1, <3>2, <3>4, <3>5, <3>6 DEF Explained, UnderWay
    <3>8. ASSUME NEW k \in 1..n PROVE Explained(k)'
      <4>1. Explained(k) /\ games'[k] = games[k]
        BY <3>6 DEF ExplainedInv
      <4>2. \A g \in Handler : local[g].pc = "setResult" => local'[g] = local[g]
        BY <3>1, <3>3
      <4>3. QED BY <3>1, <4>1, <4>2 DEF Explained, UnderWay
    <3>9. ASSUME NEW k \in 1..Len(games') PROVE Explained(k)'
      <4>1. k \in 1..n \/ k = n + 1
        BY <1>1, <3>6
      <4>2. QED BY <3>7, <3>8, <4>1
    <3>10. QED BY <3>9 DEF ExplainedInv
  <2>9. CASE SetResult(h)
    <3> DEFINE l == local[h]
    <3>1. SetFacts(h) /\ games' = games /\ cut' = cut /\ Goto(h, Idle)
      BY <2>9, SetResultRow DEF SetResult
    <3>2. \A g \in Handler : g # h => local'[g] = local[g]
      BY <1>1, <3>1 DEF Goto
    <3>3. Played(pairings'[l.pair]) /\ games[l.game].pair = l.pair
      <4>1. /\ games[l.game].pair = l.pair /\ l.winner \in {"black", "white"}
            /\ pairings'[l.pair].winner = l.winner
        BY <3>1 DEF SetFacts, GameOf
      <4>2. QED BY <4>1 DEF Played
    <3>4. ASSUME NEW k \in 1..Len(games) PROVE Explained(k)'
      <4>1. Explained(k) /\ games'[k] = games[k]
        BY <3>1 DEF ExplainedInv
      <4>2. games[k].pair \in 1..Len(pairings') /\ games[k].pair \in 1..Len(pairings)
        BY <3>1, <4>1 DEF Explained, SetFacts
      <4>3. CASE games[k].pair = l.pair
        BY <3>1, <3>3, <4>1, <4>2, <4>3 DEF Explained, SetFacts
      <4>4. CASE games[k].pair # l.pair
        <5>1. pairings'[games[k].pair] = pairings[games[k].pair]
          BY <3>1, <4>2, <4>4 DEF SetFacts
        <5>2. CASE Played(pairings[games[k].pair]) \/ k \in cut
          BY <3>1, <4>1, <4>2, <5>1, <5>2 DEF Explained
        <5>3. CASE UnderWay(k)
          <6>1. PICK g \in Handler : local[g].pc = "setResult" /\ local[g].game = k
            BY <5>3 DEF UnderWay
          <6>2. g # h
            BY <3>3, <4>4, <6>1
          <6>3. QED BY <3>2, <4>1, <4>2, <6>1, <6>2 DEF Explained, UnderWay
        <5>4. QED BY <4>1, <5>2, <5>3 DEF Explained
      <4>5. QED BY <4>3, <4>4
    <3>5. QED BY <3>1, <3>4 DEF ExplainedInv
  <2>10. CASE BeginNext(h)
    BY <1>2, <1>3, <2>10 DEF BeginNext
  <2>11. CASE ListPairings(h)
    <3>1. /\ UNCHANGED <<pairings, games, cut>>
          /\ local[h].pc # "setResult" /\ \E l : Goto(h, l)
      BY <2>11 DEF ListPairings
    <3>2. QED BY <1>2, <1>3, <3>1
  <2>12. CASE LoadField(h)
    BY <1>2, <1>3, <2>12 DEF LoadField
  <2>13. CASE InsertNext(h)
    BY <1>2, <1>4, <2>13 DEF InsertNext
  <2>14. CASE Finish(h)
    BY <1>2, <1>3, <2>14 DEF Finish
  <2>15. CASE Fail(h)
    <3>1. /\ UNCHANGED <<pairings, games>> /\ cut \subseteq cut' /\ Goto(h, Idle)
          /\ local[h].pc = "setResult" => local[h].game \in cut'
      BY <2>15 DEF Fail
    <3>2. QED BY <1>2, <1>3, <3>1
  <2>16. QED
    BY <1>6, <2>1, <2>2, <2>3, <2>4, <2>5, <2>6, <2>7, <2>8, <2>9, <2>10, <2>11,
       <2>12, <2>13, <2>14, <2>15 DEF HandlerNext
<1>7. CASE UNCHANGED vars
  BY <1>7 DEF vars, ExplainedInv, Explained, UnderWay
<1>8. QED
  BY <1>5, <1>6, <1>7 DEF Next

(***************************************************************************)
(* SecondGameExplained, with a request ending wherever it likes: a game    *)
(* more for a pairing means that each one before is still to be linked by  *)
(* another request, or was left behind by one that ended before it did.    *)
(***************************************************************************)
THEOREM SecondGamesExplained == Spec => SecondGameExplained
<1> DEFINE IInv == TypeOK /\ LinkInv /\ ExplainedInv
           Fine == \A h \in Handler :
                     local[h].pc = "idle" /\ local'[h].pc = "recordGame" =>
                       \A g \in 1..Len(games) :
                         games[g].pair = local'[h].pair => g \in cut \/ UnderWay(g)
<1>1. Init => IInv
  <2>1. Init => Len(games) = 0
    <3> DEFINE e == <<>>
    <3>1. Len(e) = 0
      OBVIOUS
    <3>2. Init => games = e
      BY DEF Init
    <3> HIDE DEF e
    <3>3. QED BY <3>1, <3>2
  <2>2. QED BY <2>1, LinkInit DEF ExplainedInv
<1>2. IInv /\ [Next]_vars => IInv'
  BY LinkNext, ExplainedNext
<1>3. IInv /\ [Next]_vars => Fine
  <2> SUFFICES ASSUME TypeOK, ExplainedInv, [Next]_vars, NEW h \in Handler,
                      local[h].pc = "idle", local'[h].pc = "recordGame",
                      NEW g \in 1..Len(games), games[g].pair = local'[h].pair
               PROVE  g \in cut \/ UnderWay(g)
    OBVIOUS
  <2>1. PICK i \in 1..Len(pairings), winner \in {"black", "white"} :
          BeginResult(h, i, winner)
    BY BeginsResult
  <2>2. local'[h].pair = i /\ ~Played(pairings[i])
    BY <2>1 DEF BeginResult, Open, Goto, Idle, TypeOK
  <2>3. QED BY <2>2 DEF ExplainedInv, Explained
<1>4. IInv /\ [Next]_vars => [Fine]_vars
  BY <1>3
<1> HIDE DEF IInv
<1>5. QED
  BY <1>1, <1>2, <1>4, PTL DEF Spec, SecondGameExplained

-----------------------------------------------------------------------------
(* A result stays. *)

LEMMA AtMostOne ==
  ASSUME NEW S, IsFiniteSet(S), Cardinality(S) <= 1, NEW x \in S, NEW y \in S
  PROVE  x = y
<1>1. Cardinality(S) \in Nat
  BY FS_CardinalityType
<1>2. Cardinality(S) # 0
  BY FS_EmptySet
<1>3. Cardinality(S) = 1
  BY <1>1, <1>2
<1>4. \E z : S = {z}
  BY <1>3, FS_Singleton
<1>5. QED
  BY <1>4

LEMMA StayNext ==
  ASSUME TypeOK, LinkInv, Next
  PROVE  \A i \in 1..Len(pairings) :
           /\ i <= Len(pairings')
           /\ Played(pairings[i]) /\ RatedOnce(i) => pairings'[i] = pairings[i]
<1> DEFINE Kept == /\ Len(pairings) <= Len(pairings')
                   /\ \A i \in 1..Len(pairings) : pairings'[i] = pairings[i]
<1>1. /\ Len(pairings) \in Nat /\ Len(games) \in Nat
      /\ pairings \in Seq(PairingRow)
  BY Typed
<1>2. ASSUME UNCHANGED pairings PROVE Kept
  BY <1>1, <1>2
<1>3. ASSUME NEW h \in Handler, Insert(h) PROVE Kept
  <2> DEFINE rows == local[h].rows
  <2>1. pairings' = pairings \o rows
    BY <1>3 DEF Insert
  <2>2. rows \in Seq(PairingRow)
    BY Typed DEF Request
  <2>3. Joins(pairings', pairings, rows) /\ Len(rows) \in Nat
    BY <1>1, <2>1, <2>2, ConcatFacts
  <2> HIDE DEF rows
  <2>4. QED BY <1>1, <2>3 DEF Joins
<1>4. ASSUME NEW h \in Handler, SetResult(h), NEW i \in 1..Len(pairings)
      PROVE  /\ i <= Len(pairings')
             /\ Played(pairings[i]) /\ RatedOnce(i) => pairings'[i] = pairings[i]
  <2> DEFINE l == local[h]
  <2>1. SetFacts(h)
    BY <1>4, SetResultRow
  <2>2. i <= Len(pairings')
    BY <1>1, <2>1 DEF SetFacts
  <2>3. ASSUME Played(pairings[i]), RatedOnce(i) PROVE pairings'[i] = pairings[i]
    <3>1. SUFFICES ASSUME i = l.pair PROVE FALSE
      BY <2>1 DEF SetFacts
    <3> DEFINE own == {g \in 1..Len(games) : games[g].pair = i}
               k == pairings[i].game
    <3>2. RowLinked(pairings[i], i, games) /\ ~IsBye(pairings[i])
      BY <2>1, <3>1 DEF LinkInv, RowsLinked, SetFacts
    <3>3. k \in 1..Len(games) /\ games[k] = GameOf(i, pairings[i], pairings[i].winner)
      BY <2>3, <3>2 DEF RowLinked, Fresh, Played
    <3>4. l.game \in 1..Len(games) /\ games[l.game].pair = i /\ k # l.game
      BY <2>1, <3>1 DEF SetFacts, GameOf
    <3>5. {k, l.game} \subseteq own
      BY <3>3, <3>4 DEF GameOf
    <3>6. IsFiniteSet(own)
      <4>1. IsFiniteSet(1..Len(games)) /\ own \subseteq 1..Len(games)
        BY <1>1, FS_Interval
      <4>2. QED BY <4>1, FS_Subset
    <3>7. Cardinality(own) <= 1
      BY <2>3 DEF RatedOnce
    <3> HIDE DEF own
    <3>8. k \in own /\ l.game \in own
      BY <3>5
    <3>9. QED BY <3>4, <3>6, <3>7, <3>8, AtMostOne
  <2>4. QED BY <2>2, <2>3
<1>5. ASSUME NEW h \in Handler, HandlerNext(h), ~SetResult(h) PROVE Kept
  <2>1. UNCHANGED pairings \/ Insert(h)
    BY <1>5 DEF HandlerNext, BeginStart, LoadRoster, SetRoster, InsertOpening,
       SetRounds, SetRunning, BeginResult, RecordGame, BeginNext, ListPairings,
       LoadField, InsertNext, Finish, Fail
  <2>2. QED BY <1>2, <1>3, <2>1
<1>6. ASSUME NEW f \in Formats, NEW c \in Handicaps, NEW n \in Rounds, Create(f, c, n)
      PROVE  Kept
  BY <1>2, <1>6 DEF Create
<1>7. Kept \/ \E h \in Handler : SetResult(h)
  BY <1>5, <1>6 DEF Next
<1>8. CASE Kept
  BY <1>1, <1>8
<1>9. QED
  BY <1>4, <1>7, <1>8

(***************************************************************************)
(* ResultsStay: no row is taken away, and the result of a pairing that one *)
(* game was recorded for stays as it is, whatever the requests do.         *)
(***************************************************************************)
THEOREM RowsAndResultsStay == Spec => ResultsStay
<1>1. TypeOK /\ LinkInv /\ [Next]_vars =>
        [\A i \in 1..Len(pairings) :
           /\ i <= Len(pairings')
           /\ Played(pairings[i]) /\ RatedOnce(i) => pairings'[i] = pairings[i]]_vars
  BY StayNext
<1>2. QED
  BY LinkInvariant, <1>1, PTL DEF Spec, ResultsStay

-----------------------------------------------------------------------------
(* Rounds. *)

\* A request that neither starts nor advances the tournament knows nothing of it.
LEMMA AsideHeld ==
  ASSUME NEW h, NEW l, NEW tt, NEW rs, NEW list, l.pc \notin InStart \cup InNext
  PROVE  StartHeld(h, l, tt, rs, list) /\ NextHeld(h, l, tt, rs, list)
BY DEF StartHeld, NextHeld, InStart, InNext

\* While the tournament is being started, or advanced, the other requests are aside.
LEMMA Alone ==
  ASSUME RoundsInv, OneOfEach, NEW h \in Handler,
         local[h].pc \in InStart \cup InNext,
         NEW g \in Handler, g # h
  PROVE  local[g].pc \notin InStart \cup InNext
<1>1. /\ StartHeld(h, local[h], t, roster, pairings)
      /\ NextHeld(h, local[h], t, roster, pairings)
      /\ StartHeld(g, local[g], t, roster, pairings)
      /\ NextHeld(g, local[g], t, roster, pairings)
  BY DEF RoundsInv, HandlersHeld
<1>2. \A k \in {g, h} : /\ local[k].pc \in InStart => k \in Starter /\ t.status = "setup"
                        /\ local[k].pc \in InNext => k \in Advancer /\ t.status = "running"
  BY <1>1 DEF StartHeld, NextHeld
<1>3. QED
  BY <1>2 DEF OneOfEach

\* What a step has to show of the rounds.
LEMMA RoundsStep ==
  ASSUME local \in [Handler -> Request], NEW h \in Handler, NEW l \in Request, Goto(h, l),
         StartHeld(h, l, t', roster', pairings'), NextHeld(h, l, t', roster', pairings'),
         \A g \in Handler : g # h =>
           /\ StartHeld(g, local[g], t', roster', pairings')
           /\ NextHeld(g, local[g], t', roster', pairings'),
         RoundsStored(t', roster', pairings'),
         t'.status = "setup" /\ Len(pairings') # 0 =>
           \/ l.pc \in {"setRounds", "setRunning"}
           \/ \E g \in Handler : g # h /\ local[g].pc \in {"setRounds", "setRunning"}
  PROVE  RoundsInv'
<1>1. /\ local' \in [Handler -> Request] /\ local'[h] = l
      /\ \A g \in Handler : g # h => local'[g] = local[g]
  BY GotoFacts
<1>2. HandlersHeld(t', roster', pairings', local')
  BY <1>1 DEF HandlersHeld
<1>3. StartUnderWay(t', pairings', local')
  <2>1. SUFFICES ASSUME t'.status = "setup", Len(pairings') # 0
                 PROVE  \E g \in Handler : local'[g].pc \in {"setRounds", "setRunning"}
    BY DEF StartUnderWay
  <2>2. CASE l.pc \in {"setRounds", "setRunning"}
    BY <1>1, <2>2
  <2>3. CASE \E g \in Handler : g # h /\ local[g].pc \in {"setRounds", "setRunning"}
    BY <1>1, <2>3
  <2>4. QED BY <2>1, <2>2, <2>3
<1>4. QED
  BY <1>2, <1>3 DEF RoundsInv

\* A step that leaves the tournament, its roster and its pairings alone.
LEMMA RoundsAside ==
  ASSUME local \in [Handler -> Request], RoundsInv, NEW h \in Handler,
         NEW l \in Request, Goto(h, l), UNCHANGED <<t, roster, pairings>>,
         StartHeld(h, l, t, roster, pairings), NextHeld(h, l, t, roster, pairings),
         local[h].pc \notin {"setRounds", "setRunning"}
  PROVE  RoundsInv'
<1>1. \A g \in Handler : /\ StartHeld(g, local[g], t', roster', pairings')
                         /\ NextHeld(g, local[g], t', roster', pairings')
  BY DEF RoundsInv, HandlersHeld
<1>2. RoundsStored(t', roster', pairings')
  BY DEF RoundsInv
<1>3. t'.status = "setup" /\ Len(pairings') # 0 =>
        \E g \in Handler : g # h /\ local[g].pc \in {"setRounds", "setRunning"}
  BY DEF RoundsInv, StartUnderWay
<1>4. QED
  BY <1>1, <1>2, <1>3, RoundsStep

\* Results change nothing in the rounds, and no game stops being played.
LEMMA SameBoardsFacts ==
  ASSUME NEW list \in Seq(PairingRow), NEW next \in Seq(PairingRow),
         SameBoards(list, next)
  PROVE  /\ Len(next) = Len(list) /\ CurrentRound(next) = CurrentRound(list)
         /\ \A b, c, R : FullRounds(list, b, c, R) => FullRounds(next, b, c, R)
         /\ \A other : SameBoards(other, list) => SameBoards(other, next)
<1>1. /\ Len(next) = Len(list)
      /\ \A i \in 1..Len(list) : /\ next[i].round = list[i].round
                                 /\ next[i].black = list[i].black
                                 /\ next[i].white = list[i].white
  BY DEF SameBoards
<1>2. CurrentRound(next) = CurrentRound(list)
  <2>1. {next[i].round : i \in 1..Len(next)} = {list[i].round : i \in 1..Len(list)}
    BY <1>1
  <2>2. QED BY <2>1 DEF CurrentRound
<1>3. \A r, R : FullIn(list, r, R) => FullIn(next, r, R)
  <2>1. ASSUME NEW r, NEW R, FullIn(list, r, R) PROVE FullIn(next, r, R)
    <3>1. \A i \in 1..Len(list) : \A x : Sits(next[i], x) <=> Sits(list[i], x)
      BY <1>1 DEF Sits
    <3>2. \A i \in 1..Len(next) : next[i].round = r =>
            next[i].black \in R /\ next[i].white \in R \cup {Ghost}
              /\ next[i].black # next[i].white
      BY <1>1, <2>1 DEF FullIn
    <3>3. \A x \in R : \E i \in 1..Len(next) : next[i].round = r /\ Sits(next[i], x)
      BY <1>1, <2>1, <3>1 DEF FullIn
    <3>4. ASSUME NEW i \in 1..Len(next), NEW j \in 1..Len(next), NEW x \in R,
                 next[i].round = r, next[j].round = r, Sits(next[i], x), Sits(next[j], x)
          PROVE  i = j
      BY <1>1, <2>1, <3>1, <3>4 DEF FullIn
    <3>5. QED
      BY <3>2, <3>3, <3>4 DEF FullIn
  <2>2. QED
    BY <2>1
<1>4. \A b, c, R : FullRounds(list, b, c, R) => FullRounds(next, b, c, R)
  BY <1>1, <1>3 DEF FullRounds
<1>5. \A other : SameBoards(other, list) => SameBoards(other, next)
  BY <1>1 DEF SameBoards
<1>6. QED
  BY <1>1, <1>2, <1>4, <1>5

\* A result: nothing that a request knows of the rounds becomes false.
LEMMA RoundsSet ==
  ASSUME TypeOK, LinkInv, RoundsInv, NEW h \in Handler, SetResult(h)
  PROVE  RoundsInv'
<1> DEFINE q == local[h]
<1>1. SetFacts(h)
  BY SetResultRow
<1>2. q.pc = "setResult" /\ Goto(h, Idle) /\ t' = t /\ roster' = roster
  BY DEF SetResult
<1>3. SameBoards(pairings, pairings') /\ Len(pairings') = Len(pairings)
  BY <1>1 DEF SetFacts, SameBoards
<1>4. pairings \in Seq(PairingRow) /\ pairings' \in Seq(PairingRow)
  BY <1>1, Typed DEF SetFacts
<1>5. \A i \in 1..Len(pairings) : Played(pairings[i]) => Played(pairings'[i])
  <2>1. ASSUME NEW i \in 1..Len(pairings), Played(pairings[i])
        PROVE  Played(pairings'[i])
    <3>1. CASE i = q.pair
      BY <1>1, <3>1 DEF SetFacts, Played
    <3>2. CASE i # q.pair
      BY <1>1, <2>1, <3>2 DEF SetFacts
    <3>3. QED BY <3>1, <3>2
  <2>2. QED BY <2>1
<1>6. /\ CurrentRound(pairings') = CurrentRound(pairings)
      /\ \A b, c, R : FullRounds(pairings, b, c, R) => FullRounds(pairings', b, c, R)
      /\ \A other : SameBoards(other, pairings) => SameBoards(other, pairings')
  BY <1>3, <1>4, SameBoardsFacts
<1>7. \A r : AllPlayed(pairings, r) => AllPlayed(pairings', r)
  BY <1>3, <1>5 DEF AllPlayed, SameBoards
<1>8. PlayedInOrder(pairings) => PlayedInOrder(pairings')
  BY <1>3, <1>5 DEF PlayedInOrder, SameBoards
<1>9. \A g \in Handler : /\ StartHeld(g, local[g], t', roster', pairings')
                         /\ NextHeld(g, local[g], t', roster', pairings')
  <2>1. ASSUME NEW g \in Handler
        PROVE  /\ StartHeld(g, local[g], t', roster', pairings')
               /\ NextHeld(g, local[g], t', roster', pairings')
    <3>1. /\ StartHeld(g, local[g], t, roster, pairings)
          /\ NextHeld(g, local[g], t, roster, pairings)
      BY DEF RoundsInv, HandlersHeld
    <3>2. StartHeld(g, local[g], t', roster', pairings')
      BY <1>2, <1>3, <1>6, <3>1 DEF StartHeld
    <3>3. NextHeld(g, local[g], t', roster', pairings')
      BY <1>2, <1>6, <1>7, <3>1 DEF NextHeld
    <3>4. QED BY <3>2, <3>3
  <2>2. QED BY <2>1
<1>10. RoundsStored(t', roster', pairings')
  <2>1. RoundsStored(t, roster, pairings)
    BY DEF RoundsInv
  <2>2. QED BY <1>2, <1>3, <1>6, <1>7, <1>8, <2>1 DEF RoundsStored
<1>11. t'.status = "setup" /\ Len(pairings') # 0 =>
         \E g \in Handler : g # h /\ local[g].pc \in {"setRounds", "setRunning"}
  BY <1>2, <1>3 DEF RoundsInv, StartUnderWay
<1>12. StartHeld(h, Idle, t', roster', pairings') /\ NextHeld(h, Idle, t', roster', pairings')
  <2>1. Idle.pc \notin InStart \cup InNext
    BY DEF Idle, InStart, InNext
  <2>2. QED BY <2>1, AsideHeld
<1>13. local \in [Handler -> Request]
  BY DEF TypeOK
<1>14. QED
  BY <1>2, <1>9, <1>10, <1>11, <1>12, <1>13, IdleType, RoundsStep

\* The steps of a start.
LEMMA RoundsStart ==
  ASSUME TypeOK, LinkInv, RoundsInv, OneOfEach, NEW h \in Handler,
         \/ \E want \in Roster(t.format) : BeginStart(h, want)
         \/ LoadRoster(h) \/ SetRoster(h) \/ InsertOpening(h)
         \/ SetRounds(h) \/ SetRunning(h)
  PROVE  RoundsInv'
<1> DEFINE q == local[h]
<1>1. q \in Request /\ RoundHeld(q) /\ local \in [Handler -> Request]
  BY DEF TypeOK, LinkInv
<1>2. StartHeld(h, q, t, roster, pairings) /\ RoundsStored(t, roster, pairings)
  BY DEF RoundsInv, HandlersHeld
<1>3. Idle.pc \notin InStart \cup InNext
  BY DEF Idle, InStart, InNext
\* The other requests are aside, whatever becomes of the tournament.
<1>4. ASSUME q.pc \in InStart \cup InNext
      PROVE  \A g \in Handler : g # h =>
               /\ StartHeld(g, local[g], t', roster', pairings')
               /\ NextHeld(g, local[g], t', roster', pairings')
  BY <1>4, Alone, AsideHeld
<1>5. ASSUME NEW want \in Roster(t.format), BeginStart(h, want) PROVE RoundsInv'
  <2> DEFINE l == [Idle EXCEPT !.pc = "loadRoster", !.want = want, !.rounds = t.rounds]
  <2>1. /\ Goto(h, l) /\ UNCHANGED <<t, roster, pairings>> /\ h \in Starter
        /\ q.pc = "idle" /\ t.status = "setup"
    BY <1>5 DEF BeginStart
  <2>2. want \subseteq Player /\ t.rounds \in Nat
    <3>1. t.format \in Formats \cup {""} /\ t.rounds \in Nat
      BY DEF TypeOK, StoreOK
    <3>2. QED BY <3>1, RosterAssumption
  <2>3. l \in Request /\ l.pc = "loadRoster"
    BY <2>2, IdleType DEF Request, PC
  <2> HIDE DEF l
  <2>4. Len(pairings) = 0
    <3>1. SUFFICES ASSUME NEW g \in Handler, local[g].pc \in {"setRounds", "setRunning"}
                   PROVE  FALSE
      BY <2>1 DEF RoundsInv, StartUnderWay
    <3>2. g \in Starter
      BY <3>1 DEF RoundsInv, HandlersHeld, StartHeld, InStart
    <3>3. QED BY <2>1, <3>1, <3>2 DEF OneOfEach
  <2>5. StartHeld(h, l, t, roster, pairings) /\ NextHeld(h, l, t, roster, pairings)
    BY <2>1, <2>3, <2>4 DEF StartHeld, NextHeld, InNext
  <2>6. QED BY <1>1, <2>1, <2>3, <2>5, RoundsAside
<1>6. CASE LoadRoster(h)
  <2>1. UNCHANGED <<t, roster, pairings>> /\ q.pc = "loadRoster"
    BY <1>6 DEF LoadRoster
  <2>2. IsFiniteSet(q.want)
    BY <1>1, <2>1 DEF RoundHeld
  <2>3. PICK l \in Request :
          /\ Goto(h, l)
          /\ \/ l = Idle
             \/ l.pc = "setRoster" /\ Opening(l, t.format)
    BY <1>6, <2>2, LoadRosterFacts
  <2>4. StartHeld(h, l, t, roster, pairings) /\ NextHeld(h, l, t, roster, pairings)
    <3>1. CASE l = Idle
      BY <1>3, <3>1, AsideHeld
    <3>2. CASE l.pc = "setRoster" /\ Opening(l, t.format)
      BY <1>2, <2>1, <3>2 DEF StartHeld, NextHeld, InStart, InNext
    <3>3. QED BY <2>3, <3>1, <3>2
  <2>5. QED BY <1>1, <2>1, <2>3, <2>4, RoundsAside
<1>7. CASE SetRoster(h)
  <2> DEFINE l == [q EXCEPT !.pc = "insertOpening"]
  <2>1. /\ q.pc = "setRoster" /\ roster' = RosterRows(q) /\ Goto(h, l)
        /\ t' = t /\ pairings' = pairings
    BY <1>7 DEF SetRoster
  <2>2. /\ h \in Starter /\ t.status = "setup" /\ Len(pairings) = 0
        /\ Opening(q, t.format)
    BY <1>2, <2>1 DEF StartHeld, InStart
  <2>3. q.pc \in InStart
    BY <2>1 DEF InStart
  <2>4. \A g \in Handler : g # h =>
          /\ StartHeld(g, local[g], t', roster', pairings')
          /\ NextHeld(g, local[g], t', roster', pairings')
    BY <1>4, <2>3
  <2> HIDE DEF q
  <2>5. /\ l \in Request /\ l.pc = "insertOpening" /\ l.rows = q.rows /\ l.ids = q.ids
        /\ l.start = q.start /\ l.rounds = q.rounds
    BY <1>1 DEF Request, PC
  <2> HIDE DEF l
  <2>6. Opening(l, t.format) /\ RosterRows(l) = RosterRows(q)
    BY <2>2, <2>5 DEF Opening, RosterRows
  <2>7. /\ StartHeld(h, l, t', roster', pairings') /\ NextHeld(h, l, t', roster', pairings')
    BY <2>1, <2>2, <2>5, <2>6 DEF StartHeld, NextHeld, InNext
  <2>8. RoundsStored(t', roster', pairings')
    BY <1>2, <2>1, <2>2 DEF RoundsStored
  <2>9. QED BY <1>1, <2>1, <2>2, <2>4, <2>5, <2>7, <2>8, RoundsStep
<1>8. CASE InsertOpening(h)
  <2> DEFINE l == [q EXCEPT !.pc = "setRounds", !.rows = <<>>]
             R == RangeOf(q.ids)
  <2>1. /\ q.pc = "insertOpening" /\ Goto(h, l) /\ t' = t /\ roster' = roster
        /\ pairings' = pairings \o q.rows
    BY <1>8 DEF InsertOpening, Insert
  <2>2. /\ h \in Starter /\ t.status = "setup" /\ Len(pairings) = 0
        /\ Opening(q, t.format) /\ roster = RosterRows(q)
    BY <1>2, <2>1 DEF StartHeld, InStart
  <2>3. q.pc \in InStart
    BY <2>1 DEF InStart
  <2>4. \A g \in Handler : g # h =>
          /\ StartHeld(g, local[g], t', roster', pairings')
          /\ NextHeld(g, local[g], t', roster', pairings')
    BY <1>4, <2>3
  <2>5. q.rows \in Seq(PairingRow) /\ <<>> \in Seq(PairingRow)
    <3> HIDE DEF q
    <3>1. q.rows \in Seq(PairingRow)
      BY <1>1 DEF Request
    <3>2. QED BY <3>1
  <2>6. pairings' = q.rows
    <3>1. pairings \in Seq(PairingRow)
      BY Typed
    <3> HIDE DEF q
    <3>2. QED BY <2>1, <2>2, <2>5, <3>1
  <2>7. /\ RangeOf(roster.ids) = R /\ Len(roster.ids) >= 2
    <3>1. Distinct(q.ids) /\ Len(q.ids) >= 2
      BY <2>2 DEF Opening
    <3>2. Lists(roster.ids, R) /\ Cardinality(R) = Len(q.ids)
      BY <1>1, <2>2, <3>1, RosterRowsFacts
    <3> HIDE DEF R
    <3>3. QED BY <3>1, <3>2, ListsFacts
  <2> HIDE DEF q
  <2>8. l \in Request /\ l.pc = "setRounds" /\ l.rounds = q.rounds
    BY <1>1, <2>5 DEF Request, PC
  <2> HIDE DEF l, R
  <2>9. /\ FullRounds(q.rows, 1, CurrentRound(q.rows), R)
        /\ CurrentRound(q.rows) >= 1 /\ q.rounds >= 1
        /\ t.format = "mcmahon" => CurrentRound(q.rows) = 1
    BY <2>2 DEF Opening, R
  <2>10. Len(q.rows) # 0
    <3>1. CurrentRound(q.rows) = 0 \/ \E i \in 1..Len(q.rows) : TRUE
      BY <2>5, CurrentFacts
    <3>2. CurrentRound(q.rows) \in Nat
      BY <2>5, CurrentFacts
    <3>3. QED BY <2>9, <3>1, <3>2
  <2>11. /\ StartHeld(h, l, t', roster', pairings') /\ NextHeld(h, l, t', roster', pairings')
    BY <2>1, <2>2, <2>6, <2>8, <2>9, <2>10 DEF StartHeld, NextHeld, InNext
  <2>12. t.format = "mcmahon" => PlayedInOrder(q.rows)
    <3>1. \A i \in 1..Len(q.rows) : q.rows[i].round \in 1..CurrentRound(q.rows)
      BY <2>9 DEF FullRounds
    <3>2. t.format = "mcmahon" => \A i \in 1..Len(q.rows) : q.rows[i].round = 1
      BY <2>9, <3>1
    <3>3. QED BY <3>2 DEF PlayedInOrder
  <2>13. RoundsStored(t', roster', pairings')
    BY <1>2, <2>1, <2>2, <2>6, <2>7, <2>9, <2>10, <2>12 DEF RoundsStored
  <2>14. QED BY <1>1, <2>1, <2>4, <2>8, <2>11, <2>13, RoundsStep
<1>9. CASE SetRounds(h)
  <2> DEFINE l == [q EXCEPT !.pc = "setRunning"]
  <2>1. /\ t' = [t EXCEPT !.rounds = q.rounds] /\ Goto(h, l) /\ q.pc = "setRounds"
        /\ roster' = roster /\ pairings' = pairings
    BY <1>9 DEF SetRounds
  <2>2. /\ h \in Starter /\ t.status = "setup" /\ Len(pairings) # 0 /\ q.rounds >= 1
        /\ t.format = "mcmahon" => CurrentRound(pairings) = 1
    BY <1>2, <2>1 DEF StartHeld, InStart
  <2>3. q.pc \in InStart
    BY <2>1 DEF InStart
  <2>4. \A g \in Handler : g # h =>
          /\ StartHeld(g, local[g], t', roster', pairings')
          /\ NextHeld(g, local[g], t', roster', pairings')
    BY <1>4, <2>3
  <2> HIDE DEF q
  <2>5. l \in Request /\ l.pc = "setRunning" /\ l.rounds = q.rounds
    BY <1>1 DEF Request, PC
  <2> HIDE DEF l
  <2>6. t'.status = t.status /\ t'.format = t.format /\ t'.rounds = q.rounds
    BY <2>1 DEF TypeOK, StoreOK
  <2>7. /\ StartHeld(h, l, t', roster', pairings') /\ NextHeld(h, l, t', roster', pairings')
    BY <2>1, <2>2, <2>5, <2>6 DEF StartHeld, NextHeld, InNext
  <2>8. RoundsStored(t', roster', pairings')
    BY <1>2, <2>1, <2>2, <2>6 DEF RoundsStored
  <2>9. QED BY <1>1, <2>1, <2>4, <2>5, <2>7, <2>8, RoundsStep
<1>10. CASE SetRunning(h)
  <2>1. /\ t' = [t EXCEPT !.status = "running"] /\ Goto(h, Idle) /\ q.pc = "setRunning"
        /\ roster' = roster /\ pairings' = pairings
    BY <1>10 DEF SetRunning
  <2>2. /\ h \in Starter /\ t.status = "setup" /\ Len(pairings) # 0 /\ q.rounds >= 1
        /\ t.format = "mcmahon" => CurrentRound(pairings) = 1
        /\ t.rounds = q.rounds
    BY <1>2, <2>1 DEF StartHeld, InStart
  <2>3. q.pc \in InStart
    BY <2>1 DEF InStart
  <2>4. \A g \in Handler : g # h =>
          /\ StartHeld(g, local[g], t', roster', pairings')
          /\ NextHeld(g, local[g], t', roster', pairings')
    BY <1>4, <2>3
  <2>5. t'.status = "running" /\ t'.format = t.format /\ t'.rounds = t.rounds
    BY <2>1 DEF TypeOK, StoreOK
  <2>6. /\ StartHeld(h, Idle, t', roster', pairings')
        /\ NextHeld(h, Idle, t', roster', pairings')
    BY <1>3, AsideHeld
  <2>7. t.rounds \in Nat
    BY DEF TypeOK, StoreOK
  <2>8. RoundsStored(t', roster', pairings')
    BY <1>2, <2>1, <2>2, <2>5, <2>7 DEF RoundsStored
  <2>9. QED BY <1>1, <2>1, <2>4, <2>5, <2>6, <2>8, IdleType, RoundsStep
<1>11. QED
  BY <1>5, <1>6, <1>7, <1>8, <1>9, <1>10

\* The steps of a request for the next round, and the end of a request.
LEMMA RoundsAdvance ==
  ASSUME TypeOK, LinkInv, RoundsInv, OneOfEach, NEW h \in Handler,
         \/ BeginNext(h) \/ ListPairings(h) \/ LoadField(h) \/ InsertNext(h)
         \/ Finish(h) \/ Fail(h)
  PROVE  RoundsInv'
<1> DEFINE q == local[h]
           c == CurrentRound(pairings)
           R == RangeOf(roster.ids)
<1>1. q \in Request /\ local \in [Handler -> Request]
  BY DEF TypeOK
<1>2. NextHeld(h, q, t, roster, pairings) /\ RoundsStored(t, roster, pairings)
  BY DEF RoundsInv, HandlersHeld
<1>3. /\ StartHeld(h, Idle, t, roster, pairings)
      /\ NextHeld(h, Idle, t, roster, pairings)
      /\ StartHeld(h, Idle, t', roster', pairings')
      /\ NextHeld(h, Idle, t', roster', pairings')
  <2>1. Idle.pc \notin InStart \cup InNext
    BY DEF Idle, InStart, InNext
  <2>2. QED BY <2>1, AsideHeld
<1>4. ASSUME q.pc \in InStart \cup InNext
      PROVE  \A g \in Handler : g # h =>
               /\ StartHeld(g, local[g], t', roster', pairings')
               /\ NextHeld(g, local[g], t', roster', pairings')
  BY <1>4, Alone, AsideHeld
<1>5. /\ pairings \in Seq(PairingRow) /\ Len(pairings) \in Nat /\ c \in Nat
      /\ t.rounds \in Nat
  <2>1. pairings \in Seq(PairingRow) /\ Len(pairings) \in Nat
    BY Typed
  <2>2. t.rounds \in Nat
    BY DEF TypeOK, StoreOK
  <2>3. QED BY <2>1, <2>2, CurrentFacts
<1>6. CASE BeginNext(h)
  <2> DEFINE l == [Idle EXCEPT !.pc = "listPairings", !.rounds = t.rounds]
  <2>1. /\ Goto(h, l) /\ UNCHANGED <<t, roster, pairings>> /\ h \in Advancer
        /\ q.pc = "idle" /\ t.status = "running"
    BY <1>6 DEF BeginNext
  <2>2. l \in Request /\ l.pc = "listPairings" /\ l.rounds = t.rounds
    BY <1>5, IdleType DEF Request, PC
  <2> HIDE DEF l
  <2>3. StartHeld(h, l, t, roster, pairings) /\ NextHeld(h, l, t, roster, pairings)
    BY <2>1, <2>2 DEF StartHeld, NextHeld, InStart
  <2>4. QED BY <1>1, <2>1, <2>2, <2>3, RoundsAside
<1>7. CASE ListPairings(h)
  <2> DEFINE over == [q EXCEPT !.pc = "finish"]
             more == [q EXCEPT !.pc = "loadField", !.rows = pairings]
  <2>1. /\ UNCHANGED <<t, roster, pairings>> /\ q.pc = "listPairings"
        /\ \/ Goto(h, Idle)
           \/ Goto(h, over) /\ RoundComplete(pairings, c) /\ c >= q.rounds
           \/ /\ Goto(h, more) /\ RoundComplete(pairings, c) /\ ~(c >= q.rounds)
              /\ t.format # "round_robin"
    BY <1>7 DEF ListPairings
  <2>2. h \in Advancer /\ t.status = "running" /\ q.rounds = t.rounds
    BY <1>2, <2>1 DEF NextHeld, InNext
  <2>3. RoundComplete(pairings, c) => AllPlayed(pairings, c)
    BY DEF RoundComplete, AllPlayed
  <2>4. t.format = "mcmahon" => c <= t.rounds
    BY <1>2, <2>2 DEF RoundsStored
  <2>5. t.format \in {"round_robin", "mcmahon"}
    BY <1>2, <2>2, TournamentAssumption DEF TypeOK, StoreOK, RoundsStored
  <2> HIDE DEF q
  <2>6. over \in Request /\ over.pc = "finish" /\ over.rounds = q.rounds
    BY <1>1 DEF Request, PC
  <2>7. /\ more \in Request /\ more.pc = "loadField" /\ more.rounds = q.rounds
        /\ more.rows = pairings
    BY <1>1, <1>5 DEF Request, PC
  <2> HIDE DEF over, more, c
  <2>8. CASE Goto(h, Idle)
    BY <1>1, <1>3, <2>1, <2>8, IdleType, RoundsAside DEF q
  <2>9. CASE Goto(h, over) /\ RoundComplete(pairings, c) /\ c >= q.rounds
    <3>1. t.format = "mcmahon" => c = t.rounds
      BY <1>5, <2>2, <2>4, <2>9
    <3>2. StartHeld(h, over, t, roster, pairings) /\ NextHeld(h, over, t, roster, pairings)
      BY <2>2, <2>3, <2>6, <2>9, <3>1 DEF StartHeld, NextHeld, InStart, c
    <3>3. QED BY <1>1, <2>1, <2>6, <2>9, <3>2, RoundsAside DEF q
  <2>10. CASE /\ Goto(h, more) /\ RoundComplete(pairings, c) /\ ~(c >= q.rounds)
              /\ t.format # "round_robin"
    <3>1. c < t.rounds /\ t.format = "mcmahon"
      BY <1>5, <2>2, <2>5, <2>10
    <3>2. SameBoards(pairings, pairings)
      BY DEF SameBoards
    <3>3. StartHeld(h, more, t, roster, pairings) /\ NextHeld(h, more, t, roster, pairings)
      BY <2>2, <2>3, <2>7, <2>10, <3>1, <3>2 DEF StartHeld, NextHeld, InStart, c
    <3>4. QED BY <1>1, <2>1, <2>7, <2>10, <3>3, RoundsAside DEF q
  <2>11. QED BY <2>1, <2>8, <2>9, <2>10
<1>8. CASE LoadField(h)
  <2>1. UNCHANGED <<t, roster, pairings>> /\ q.pc = "loadField"
    BY <1>8 DEF LoadField
  <2>2. /\ h \in Advancer /\ t.status = "running" /\ q.rounds = t.rounds
        /\ AllPlayed(pairings, c) /\ t.format = "mcmahon" /\ c < t.rounds
        /\ SameBoards(q.rows, pairings)
    BY <1>2, <2>1 DEF NextHeld, InNext
  <2>3. Len(roster.ids) >= 2
    BY <1>2, <2>2 DEF RoundsStored
  <2>4. Distinct(roster.ids) /\ Len(roster.ids) \in Nat
    <3>1. roster.ids \in Seq(Player)
      BY DEF TypeOK, StoreOK
    <3>2. QED BY <3>1 DEF LinkInv
  <2>5. CurrentRound(q.rows) = c
    <3>1. q.rows \in Seq(PairingRow)
      <4> HIDE DEF q
      <4>1. QED BY <1>1 DEF Request
    <3>2. QED BY <1>5, <2>2, <3>1, SameBoardsFacts
  <2>6. PICK l \in Request :
          /\ Goto(h, l) /\ l.rounds = q.rounds
          /\ \/ l.pc = "finish" /\ Len(roster.ids) < 2
             \/ /\ l.pc = "insertNext"
                /\ FullRounds(l.rows, CurrentRound(q.rows) + 1,
                              CurrentRound(q.rows) + 1, RangeOf(roster.ids))
    BY <1>8, <2>4, LoadFieldFacts
  <2>7. l.pc = "insertNext" /\ FullRounds(l.rows, c + 1, c + 1, R)
    <3>1. ~(Len(roster.ids) < 2)
      BY <2>3, <2>4
    <3>2. QED BY <2>5, <2>6, <3>1
  <2>8. StartHeld(h, l, t, roster, pairings) /\ NextHeld(h, l, t, roster, pairings)
    BY <2>2, <2>6, <2>7 DEF StartHeld, NextHeld, InStart
  <2>9. QED BY <1>1, <2>1, <2>6, <2>8, RoundsAside
<1>9. CASE InsertNext(h)
  <2>1. /\ q.pc = "insertNext" /\ Goto(h, Idle) /\ t' = t /\ roster' = roster
        /\ pairings' = pairings \o q.rows
    BY <1>9 DEF InsertNext, Insert
  <2>2. /\ h \in Advancer /\ t.status = "running"
        /\ AllPlayed(pairings, c) /\ t.format = "mcmahon" /\ c < t.rounds
        /\ FullRounds(q.rows, c + 1, c + 1, R)
    BY <1>2, <2>1 DEF NextHeld, InNext
  <2>3. q.pc \in InNext
    BY <2>1 DEF InNext
  <2>4. \A g \in Handler : g # h =>
          /\ StartHeld(g, local[g], t', roster', pairings')
          /\ NextHeld(g, local[g], t', roster', pairings')
    BY <1>4, <2>3
  <2>5. /\ Len(pairings) # 0 /\ Len(roster.ids) >= 2 /\ c >= 1
        /\ FullRounds(pairings, 1, c, R) /\ PlayedInOrder(pairings)
    BY <1>2, <2>2 DEF RoundsStored
  <2>6. q.rows \in Seq(PairingRow)
    <3> HIDE DEF q
    <3>1. QED BY <1>1 DEF Request
  <2>7. R # {}
    <3>1. roster.ids \in Seq(Player)
      BY DEF TypeOK, StoreOK
    <3>2. 1 \in 1..Len(roster.ids)
      BY <2>5, <3>1
    <3>3. QED BY <3>2 DEF RangeOf
  <2> HIDE DEF q, c, R
  <2>8. FullRounds(pairings', 1, c + 1, R) /\ pairings' \in Seq(PairingRow)
    BY <1>5, <2>1, <2>2, <2>5, <2>6, JoinRounds
  <2>9. CurrentRound(pairings') = c + 1 /\ c + 1 \in Nat
    BY <1>5, <2>7, <2>8, CurrentOfRounds
  <2>10. Joins(pairings', pairings, q.rows) /\ Len(q.rows) \in Nat
    BY <1>5, <2>1, <2>6, ConcatFacts
  <2>11. \A i \in 1..Len(pairings) : Played(pairings[i])
    <3>1. ASSUME NEW i \in 1..Len(pairings) PROVE Played(pairings[i])
      <4>1. pairings[i].round \in 1..c
        BY <2>5 DEF FullRounds
      <4>2. CASE pairings[i].round = c
        BY <2>2, <4>2 DEF AllPlayed
      <4>3. CASE pairings[i].round < c
        <5>1. c = 0 \/ \E j \in 1..Len(pairings) : pairings[j].round = c
          BY <1>5, CurrentFacts DEF c
        <5>2. PICK j \in 1..Len(pairings) : pairings[j].round = c
          BY <1>5, <2>5, <5>1
        <5>3. QED BY <2>5, <4>3, <5>2 DEF PlayedInOrder
      <4>4. QED BY <1>5, <4>1, <4>2, <4>3
    <3>2. QED BY <3>1
  <2>12. PlayedInOrder(pairings')
    <3>1. ASSUME NEW i \in 1..Len(pairings'), NEW j \in 1..Len(pairings'),
                 pairings'[i].round < pairings'[j].round
          PROVE  Played(pairings'[i])
      <4>1. i \in 1..Len(pairings) \/ \E k \in 1..Len(q.rows) : i = Len(pairings) + k
        BY <2>10 DEF Joins
      <4>2. CASE i \in 1..Len(pairings)
        BY <2>10, <2>11, <4>2 DEF Joins
      <4>3. CASE \E k \in 1..Len(q.rows) : i = Len(pairings) + k
        <5>1. PICK k \in 1..Len(q.rows) : i = Len(pairings) + k
          BY <4>3
        <5>2. q.rows[k].round \in (c + 1)..(c + 1)
          BY <2>2 DEF FullRounds
        <5>3. pairings'[i].round = c + 1
          BY <1>5, <2>10, <5>1, <5>2 DEF Joins
        <5>4. pairings'[j].round \in 1..(c + 1)
          BY <2>8 DEF FullRounds
        <5>5. QED BY <1>5, <3>1, <5>3, <5>4
      <4>4. QED BY <4>1, <4>2, <4>3
    <3>2. QED BY <3>1 DEF PlayedInOrder
  <2>13. Len(pairings') # 0 /\ c + 1 <= t.rounds /\ c + 1 >= 1
    BY <1>5, <2>2, <2>5, <2>10 DEF Joins
  <2>14. RoundsStored(t', roster', pairings')
    BY <1>2, <2>1, <2>2, <2>5, <2>8, <2>9, <2>12, <2>13 DEF RoundsStored, R
  <2>15. QED BY <1>1, <1>3, <2>1, <2>2, <2>4, <2>14, IdleType, RoundsStep
<1>10. CASE Finish(h)
  <2>1. /\ t' = [t EXCEPT !.status = "finished"] /\ Goto(h, Idle) /\ q.pc = "finish"
        /\ roster' = roster /\ pairings' = pairings
    BY <1>10 DEF Finish
  <2>2. /\ t.status = "running" /\ AllPlayed(pairings, c)
        /\ t.format = "mcmahon" => c = t.rounds
    BY <1>2, <2>1 DEF NextHeld, InNext
  <2>3. q.pc \in InNext
    BY <2>1 DEF InNext
  <2>4. \A g \in Handler : g # h =>
          /\ StartHeld(g, local[g], t', roster', pairings')
          /\ NextHeld(g, local[g], t', roster', pairings')
    BY <1>4, <2>3
  <2>5. t'.status = "finished" /\ t'.format = t.format /\ t'.rounds = t.rounds
    BY <2>1 DEF TypeOK, StoreOK
  <2>6. RoundsStored(t', roster', pairings')
    BY <1>2, <2>1, <2>2, <2>5 DEF RoundsStored
  <2>7. QED BY <1>1, <1>3, <2>1, <2>4, <2>5, <2>6, IdleType, RoundsStep
<1>11. CASE Fail(h)
  <2>1. Goto(h, Idle) /\ UNCHANGED <<t, roster, pairings>> /\ q.pc \in FailAt
    BY <1>11 DEF Fail
  <2>2. q.pc \notin {"setRounds", "setRunning"}
    BY <2>1 DEF OneOfEach
  <2>3. QED BY <1>1, <1>3, <2>1, <2>2, IdleType, RoundsAside
<1>12. QED
  BY <1>6, <1>7, <1>8, <1>9, <1>10, <1>11

LEMMA RoundsResult ==
  ASSUME TypeOK, LinkInv, RoundsInv, NEW h \in Handler,
         \/ \E i \in 1..Len(pairings), winner \in {"black", "white"} :
              BeginResult(h, i, winner)
         \/ \E now \in Ratings : RecordGame(h, now)
         \/ SetResult(h)
  PROVE  RoundsInv'
<1> DEFINE q == local[h]
<1>1. q \in Request /\ local \in [Handler -> Request]
  BY DEF TypeOK
<1>2. ASSUME NEW i \in 1..Len(pairings), NEW winner \in {"black", "white"},
             BeginResult(h, i, winner)
      PROVE  RoundsInv'
  <2> DEFINE l == [Idle EXCEPT !.pc = "recordGame", !.pair = i, !.winner = winner]
  <2>1. Goto(h, l) /\ UNCHANGED <<t, roster, pairings>> /\ q.pc = "idle"
    BY <1>2 DEF BeginResult
  <2>2. i \in 0..MaxPairings
    BY Typed, TournamentAssumption
  <2>3. l \in Request /\ l.pc = "recordGame"
    BY <2>2, IdleType DEF Request, PC
  <2> HIDE DEF l
  <2>4. StartHeld(h, l, t, roster, pairings) /\ NextHeld(h, l, t, roster, pairings)
    BY <2>3, AsideHeld DEF InStart, InNext
  <2>5. QED BY <1>1, <2>1, <2>3, <2>4, RoundsAside
<1>3. ASSUME NEW now \in Ratings, RecordGame(h, now) PROVE RoundsInv'
  <2> DEFINE n == Len(games) + 1
             l == [q EXCEPT !.pc = "setResult", !.game = n]
  <2>1. /\ Goto(h, l) /\ UNCHANGED <<t, roster, pairings>> /\ q.pc = "recordGame"
        /\ Len(games) < MaxGames
    BY <1>3 DEF RecordGame
  <2>2. n \in 0..MaxGames
    BY <2>1, Typed, TournamentAssumption
  <2> HIDE DEF q, n
  <2>3. l \in Request /\ l.pc = "setResult"
    BY <1>1, <2>2 DEF Request, PC
  <2> HIDE DEF l
  <2>4. StartHeld(h, l, t, roster, pairings) /\ NextHeld(h, l, t, roster, pairings)
    BY <2>3, AsideHeld DEF InStart, InNext
  <2>5. QED BY <1>1, <2>1, <2>3, <2>4, RoundsAside DEF q
<1>4. QED
  BY <1>2, <1>3, RoundsSet

LEMMA RoundsNext ==
  ASSUME TypeOK, LinkInv, RoundsInv, OneOfEach, [Next]_vars
  PROVE  RoundsInv'
<1>1. ASSUME NEW f \in Formats, NEW c \in Handicaps, NEW n \in Rounds, Create(f, c, n)
      PROVE  RoundsInv'
  <2>1. /\ t.status = "absent"
        /\ t' = [status |-> "setup", format |-> f, handicap |-> c, rounds |-> n]
        /\ roster' = roster /\ pairings' = pairings /\ local' = local
    BY <1>1 DEF Create
  <2>2. Len(pairings) = 0
    BY <2>1 DEF RoundsInv, RoundsStored
  <2>3. \A h \in Handler : local[h].pc \notin InStart \cup InNext
    BY <2>1 DEF RoundsInv, HandlersHeld, StartHeld, NextHeld
  <2>4. HandlersHeld(t', roster', pairings', local')
    BY <2>1, <2>3, AsideHeld DEF HandlersHeld
  <2>5. StartUnderWay(t', pairings', local')
    BY <2>1, <2>2 DEF StartUnderWay
  <2>6. t'.status = "setup" /\ t'.format = f
    BY <2>1
  <2>7. RoundsStored(t', roster', pairings')
    <3>1. PlayedInOrder(pairings)
      BY <2>2 DEF PlayedInOrder
    <3>2. QED BY <2>1, <2>2, <2>6, <3>1 DEF RoundsStored
  <2>8. QED BY <2>4, <2>5, <2>7 DEF RoundsInv
<1>2. ASSUME NEW h \in Handler, HandlerNext(h) PROVE RoundsInv'
  BY <1>2, RoundsStart, RoundsResult, RoundsAdvance DEF HandlerNext
<1>3. CASE UNCHANGED vars
  BY <1>3 DEF vars, RoundsInv
<1>4. QED
  BY <1>1, <1>2, <1>3 DEF Next

LEMMA RoundsInit == Init => RoundsInv
<1> SUFFICES ASSUME Init PROVE RoundsInv
  OBVIOUS
<1>1. t.status = "absent" /\ t.format = "" /\ \A h \in Handler : local[h] = Idle
  BY DEF Init
<1>2. Len(pairings) = 0
  <2> DEFINE e == <<>>
  <2>1. Len(e) = 0
    OBVIOUS
  <2>2. pairings = e
    BY DEF Init
  <2> HIDE DEF e
  <2>3. QED BY <2>1, <2>2
<1>3. Idle.pc \notin InStart \cup InNext
  BY DEF Idle, InStart, InNext
<1>4. HandlersHeld(t, roster, pairings, local)
  BY <1>1, <1>3, AsideHeld DEF HandlersHeld
<1>5. QED
  BY <1>1, <1>2, <1>4 DEF RoundsInv, RoundsStored, StartUnderWay

(***************************************************************************)
(* While one request starts the tournament, without an end between its     *)
(* rounds and its status, and one pairs the next rounds: what each of them *)
(* has read stays true until it writes, and every round stored is full.    *)
(***************************************************************************)
THEOREM RoundsInvariant ==
  ASSUME OneOfEach
  PROVE  Spec => [](TypeOK /\ LinkInv /\ RoundsInv)
<1>1. TypeOK /\ LinkInv /\ RoundsInv /\ [Next]_vars => (TypeOK /\ LinkInv /\ RoundsInv)'
  BY LinkNext, RoundsNext
<1>2. QED
  BY LinkInit, RoundsInit, <1>1, PTL DEF Spec

(***************************************************************************)
(* RoundsSeatRoster: in every round of a running tournament every player   *)
(* of the roster sits once, and nobody else - for any roster, any ratings, *)
(* any number of rounds and any results recorded meanwhile.                *)
(***************************************************************************)
THEOREM RoundsSeatAll ==
  ASSUME OneOfEach
  PROVE  Spec => []RoundsSeatRoster
<1>1. ASSUME TypeOK, RoundsInv PROVE RoundsSeatRoster
  <2> DEFINE R == RangeOf(roster.ids)
  <2>1. SUFFICES ASSUME t.status \in {"running", "finished"},
                        NEW r \in 1..CurrentRound(pairings)
                 PROVE  /\ UNION {Paired(i) : i \in InRound(r)} = R
                        /\ \A i, j \in InRound(r) : i # j => Paired(i) \cap Paired(j) = {}
    BY DEF RoundsSeatRoster
  <2>2. FullIn(pairings, r, R)
    BY <1>1, <2>1 DEF RoundsInv, RoundsStored, FullRounds
  <2>3. Ghost \notin R
    <3>1. roster.ids \in Seq(Player)
      BY <1>1 DEF TypeOK, StoreOK
    <3>2. R \subseteq Player
      BY <3>1 DEF RangeOf
    <3>3. QED BY <3>2, TournamentAssumption DEF Ghost
  <2> HIDE DEF R
  <2>4. ASSUME NEW i \in InRound(r), NEW x
        PROVE  x \in Paired(i) <=> x \in R /\ Sits(pairings[i], x)
    <3>1. i \in 1..Len(pairings) /\ pairings[i].round = r
      BY DEF InRound
    <3>2. pairings[i].black \in R /\ pairings[i].white \in R \cup {Ghost}
      BY <2>2, <3>1 DEF FullIn
    <3>3. QED BY <2>3, <3>2 DEF Paired, Sits
  <2>5. \A x \in R : \E i \in InRound(r) : Sits(pairings[i], x)
    BY <2>2 DEF FullIn, InRound
  <2>6. UNION {Paired(i) : i \in InRound(r)} = R
    BY <2>4, <2>5
  <2>7. ASSUME NEW i \in InRound(r), NEW j \in InRound(r), NEW x,
               x \in Paired(i), x \in Paired(j)
        PROVE  i = j
    BY <2>2, <2>4, <2>7 DEF FullIn, InRound
  <2>8. QED BY <2>6, <2>7
<1>2. QED
  BY RoundsInvariant, <1>1, PTL

(***************************************************************************)
(* RoundsInOrder: a McMahon round is there only when the one before is     *)
(* played, also when results arrive while the next round is paired, and a  *)
(* finished tournament is played through.                                  *)
(***************************************************************************)
THEOREM RoundsFollow ==
  ASSUME OneOfEach
  PROVE  Spec => []RoundsInOrder
<1>1. ASSUME TypeOK, RoundsInv PROVE RoundsInOrder
  <2>1. SUFFICES ASSUME t.format = "mcmahon"
                 PROVE  /\ PlayedInOrder(pairings)
                        /\ t.status = "finished" =>
                             /\ \A i \in 1..Len(pairings) : Played(pairings[i])
                             /\ CurrentRound(pairings) = t.rounds
    BY DEF RoundsInOrder, PlayedInOrder
  <2> DEFINE c == CurrentRound(pairings)
  <2>2. PlayedInOrder(pairings)
    BY <1>1, <2>1 DEF RoundsInv, RoundsStored
  <2>3. ASSUME t.status = "finished"
        PROVE  c = t.rounds /\ \A i \in 1..Len(pairings) : Played(pairings[i])
    <3>1. /\ AllPlayed(pairings, c) /\ c = t.rounds /\ Len(pairings) # 0 /\ c >= 1
      BY <1>1, <2>1, <2>3 DEF RoundsInv, RoundsStored
    <3>2. pairings \in Seq(PairingRow)
      BY <1>1, Typed
    <3>3. /\ c \in Nat /\ \A i \in 1..Len(pairings) : pairings[i].round <= c
          /\ \E i \in 1..Len(pairings) : pairings[i].round = c
      <4>1. c \in Nat /\ (c = 0 \/ \E i \in 1..Len(pairings) : pairings[i].round = c)
        BY <3>2, CurrentFacts
      <4>2. \A i \in 1..Len(pairings) : pairings[i].round <= c
        BY <3>2, CurrentFacts
      <4>3. QED BY <3>1, <4>1, <4>2
    <3>4. ASSUME NEW i \in 1..Len(pairings) PROVE pairings[i].round \in Nat
      <4>1. pairings[i] \in PairingRow
        BY <3>2
      <4>2. QED BY <4>1 DEF PairingRow
    <3> HIDE DEF c
    <3>5. ASSUME NEW i \in 1..Len(pairings) PROVE Played(pairings[i])
      <4>1. CASE pairings[i].round = c
        BY <3>1, <4>1 DEF AllPlayed
      <4>2. CASE pairings[i].round < c
        BY <2>2, <3>3, <4>2 DEF PlayedInOrder
      <4>3. QED BY <3>3, <3>4, <4>1, <4>2
    <3>6. QED BY <3>1, <3>5
  <2>4. QED BY <2>2, <2>3
<1>2. QED
  BY RoundsInvariant, <1>1, PTL

-----------------------------------------------------------------------------
(* Everybody meets everybody in a round robin. *)

\* What a step has to show.
LEMMA MeetStep ==
  ASSUME local \in [Handler -> Request], MeetInv, NEW h \in Handler,
         NEW l \in Request, Goto(h, l), t'.format = t.format,
         t.format = "round_robin" => MeetHeld(l),
         t.format = "round_robin" =>
           (Len(pairings') # 0 => MeetOnce(pairings', RangeOf(roster'.ids)))
  PROVE  MeetInv'
<1>1. /\ local'[h] = l
      /\ \A g \in Handler : g # h => local'[g] = local[g]
  BY GotoFacts
<1>2. ASSUME t'.format = "round_robin", NEW g \in Handler
      PROVE  MeetHeld(local'[g])
  <2>1. CASE g = h
    BY <1>1, <1>2, <2>1
  <2>2. CASE g # h
    BY <1>1, <1>2, <2>2 DEF MeetInv
  <2>3. QED BY <2>1, <2>2
<1>3. QED
  BY <1>2 DEF MeetInv

\* A step that leaves the tournament, its roster and its pairings alone.
LEMMA MeetAside ==
  ASSUME local \in [Handler -> Request], MeetInv, NEW h \in Handler,
         NEW l \in Request, Goto(h, l), UNCHANGED <<t, roster, pairings>>,
         t.format = "round_robin" => MeetHeld(l)
  PROVE  MeetInv'
<1>1. t.format = "round_robin" =>
        (Len(pairings') # 0 => MeetOnce(pairings', RangeOf(roster'.ids)))
  BY DEF MeetInv
<1>2. QED
  BY <1>1, MeetStep

\* The rows are put to an empty list.
LEMMA AppendToNone ==
  ASSUME NEW list \in Seq(PairingRow), Len(list) = 0, NEW more \in Seq(PairingRow)
  PROVE  list \o more = more
OBVIOUS

\* The start stores its schedule, for the roster it stored before.
LEMMA MeetStart ==
  ASSUME TypeOK, LinkInv, RoundsInv, MeetInv, NEW h \in Handler,
         \/ \E want \in Roster(t.format) : BeginStart(h, want)
         \/ LoadRoster(h) \/ SetRoster(h) \/ InsertOpening(h)
         \/ SetRounds(h) \/ SetRunning(h)
  PROVE  MeetInv'
<1> DEFINE q == local[h]
<1>1. /\ q \in Request /\ RoundHeld(q) /\ local \in [Handler -> Request]
      /\ t.format = "round_robin" => MeetHeld(q)
  BY DEF TypeOK, LinkInv, MeetInv
<1>2. StartHeld(h, q, t, roster, pairings)
  BY DEF RoundsInv, HandlersHeld
<1>3. Idle \in Request /\ MeetHeld(Idle)
  BY IdleType DEF MeetHeld, Idle
<1>4. ASSUME NEW want \in Roster(t.format), BeginStart(h, want) PROVE MeetInv'
  <2> DEFINE l == [Idle EXCEPT !.pc = "loadRoster", !.want = want, !.rounds = t.rounds]
  <2>1. Goto(h, l) /\ UNCHANGED <<t, roster, pairings>>
    BY <1>4 DEF BeginStart
  <2>2. want \subseteq Player /\ t.rounds \in Nat
    <3>1. t.format \in Formats \cup {""} /\ t.rounds \in Nat
      BY DEF TypeOK, StoreOK
    <3>2. QED BY <3>1, RosterAssumption
  <2>3. l \in Request /\ l.pc = "loadRoster"
    BY <2>2, IdleType DEF Request, PC
  <2> HIDE DEF l
  <2>4. MeetHeld(l)
    BY <2>3 DEF MeetHeld
  <2>5. QED BY <1>1, <2>1, <2>3, <2>4, MeetAside
<1>5. CASE LoadRoster(h)
  <2>1. UNCHANGED <<t, roster, pairings>> /\ q.pc = "loadRoster"
    BY <1>5 DEF LoadRoster
  <2>2. IsFiniteSet(q.want)
    BY <1>1, <2>1 DEF RoundHeld
  <2>3. PICK l \in Request :
          /\ Goto(h, l)
          /\ \/ l = Idle
             \/ t.format = "round_robin" => MeetOnce(l.rows, RangeOf(l.ids))
    BY <1>5, <2>2, LoadRosterFacts
  <2>4. t.format = "round_robin" => MeetHeld(l)
    BY <1>3, <2>3 DEF MeetHeld
  <2>5. QED BY <1>1, <2>1, <2>3, <2>4, MeetAside
<1>6. CASE SetRoster(h)
  <2> DEFINE l == [q EXCEPT !.pc = "insertOpening"]
  <2>1. /\ q.pc = "setRoster" /\ Goto(h, l) /\ t' = t /\ pairings' = pairings
    BY <1>6 DEF SetRoster
  <2>2. Len(pairings) = 0
    BY <1>2, <2>1 DEF StartHeld
  <2> HIDE DEF q
  <2>3. l \in Request /\ l.rows = q.rows /\ l.ids = q.ids
    BY <1>1 DEF Request, PC
  <2> HIDE DEF l
  <2>4. t.format = "round_robin" => MeetHeld(l)
    BY <1>1, <2>1, <2>3 DEF MeetHeld
  <2>5. QED BY <1>1, <2>1, <2>2, <2>3, <2>4, MeetStep
<1>7. CASE InsertOpening(h)
  <2> DEFINE l == [q EXCEPT !.pc = "setRounds", !.rows = <<>>]
  <2>1. /\ q.pc = "insertOpening" /\ Goto(h, l) /\ t' = t /\ roster' = roster
        /\ pairings' = pairings \o q.rows
    BY <1>7 DEF InsertOpening, Insert
  <2>2. Len(pairings) = 0 /\ Opening(q, t.format) /\ roster = RosterRows(q)
    BY <1>2, <2>1 DEF StartHeld
  <2>3. RangeOf(roster.ids) = RangeOf(q.ids)
    <3>1. Distinct(q.ids)
      BY <2>2 DEF Opening
    <3>2. Lists(RosterRows(q).ids, RangeOf(q.ids))
      BY <1>1, <3>1, RosterRowsFacts
    <3>3. QED BY <2>2, <3>2, ListsFacts
  <2> HIDE DEF q
  <2>4. pairings' = q.rows
    <3>1. pairings \in Seq(PairingRow) /\ q.rows \in Seq(PairingRow)
      BY <1>1, Typed DEF Request
    <3>2. QED BY <2>1, <2>2, <3>1, AppendToNone
  <2>5. l \in Request /\ l.pc = "setRounds"
    <3>1. <<>> \in Seq(PairingRow)
      OBVIOUS
    <3>2. QED BY <1>1, <3>1 DEF Request, PC
  <2> HIDE DEF l
  <2>6. MeetHeld(l)
    BY <2>5 DEF MeetHeld
  <2>7. t.format = "round_robin" => MeetOnce(pairings', RangeOf(roster'.ids))
    BY <1>1, <2>1, <2>3, <2>4 DEF MeetHeld
  <2>8. QED BY <1>1, <2>1, <2>5, <2>6, <2>7, MeetStep
<1>8. CASE SetRounds(h)
  <2> DEFINE l == [q EXCEPT !.pc = "setRunning"]
  <2>1. /\ Goto(h, l) /\ t' = [t EXCEPT !.rounds = q.rounds]
        /\ roster' = roster /\ pairings' = pairings
    BY <1>8 DEF SetRounds
  <2>2. t'.format = t.format
    BY <2>1 DEF TypeOK, StoreOK
  <2> HIDE DEF q
  <2>3. l \in Request /\ l.pc = "setRunning"
    BY <1>1 DEF Request, PC
  <2> HIDE DEF l
  <2>4. MeetHeld(l)
    BY <2>3 DEF MeetHeld
  <2>5. t.format = "round_robin" =>
          (Len(pairings') # 0 => MeetOnce(pairings', RangeOf(roster'.ids)))
    BY <2>1 DEF MeetInv
  <2>6. QED BY <1>1, <2>1, <2>2, <2>3, <2>4, <2>5, MeetStep
<1>9. CASE SetRunning(h)
  <2>1. /\ Goto(h, Idle) /\ t' = [t EXCEPT !.status = "running"]
        /\ roster' = roster /\ pairings' = pairings
    BY <1>9 DEF SetRunning
  <2>2. t'.format = t.format
    BY <2>1 DEF TypeOK, StoreOK
  <2>3. t.format = "round_robin" =>
          (Len(pairings') # 0 => MeetOnce(pairings', RangeOf(roster'.ids)))
    BY <2>1 DEF MeetInv
  <2>4. QED BY <1>1, <1>3, <2>1, <2>2, <2>3, MeetStep
<1>10. QED
  BY <1>4, <1>5, <1>6, <1>7, <1>8, <1>9

\* A result leaves the two players of its row where they are.
LEMMA MeetResult ==
  ASSUME TypeOK, LinkInv, MeetInv, NEW h \in Handler,
         \/ \E i \in 1..Len(pairings), winner \in {"black", "white"} :
              BeginResult(h, i, winner)
         \/ \E now \in Ratings : RecordGame(h, now)
         \/ SetResult(h)
  PROVE  MeetInv'
<1> DEFINE q == local[h]
<1>1. q \in Request /\ local \in [Handler -> Request]
  BY DEF TypeOK
<1>2. ASSUME NEW i \in 1..Len(pairings), NEW winner \in {"black", "white"},
             BeginResult(h, i, winner)
      PROVE  MeetInv'
  <2> DEFINE l == [Idle EXCEPT !.pc = "recordGame", !.pair = i, !.winner = winner]
  <2>1. Goto(h, l) /\ UNCHANGED <<t, roster, pairings>>
    BY <1>2 DEF BeginResult
  <2>2. i \in 0..MaxPairings
    BY Typed, TournamentAssumption
  <2>3. l \in Request /\ l.pc = "recordGame"
    BY <2>2, IdleType DEF Request, PC
  <2> HIDE DEF l
  <2>4. MeetHeld(l)
    BY <2>3 DEF MeetHeld
  <2>5. QED BY <1>1, <2>1, <2>3, <2>4, MeetAside
<1>3. ASSUME NEW now \in Ratings, RecordGame(h, now) PROVE MeetInv'
  <2> DEFINE n == Len(games) + 1
             l == [q EXCEPT !.pc = "setResult", !.game = n]
  <2>1. Goto(h, l) /\ UNCHANGED <<t, roster, pairings>> /\ Len(games) < MaxGames
    BY <1>3 DEF RecordGame
  <2>2. n \in 0..MaxGames
    BY <2>1, Typed, TournamentAssumption
  <2> HIDE DEF q, n
  <2>3. l \in Request /\ l.pc = "setResult"
    BY <1>1, <2>2 DEF Request, PC
  <2> HIDE DEF l
  <2>4. MeetHeld(l)
    BY <2>3 DEF MeetHeld
  <2>5. QED BY <1>1, <2>1, <2>3, <2>4, MeetAside
<1>4. CASE SetResult(h)
  <2>1. Goto(h, Idle) /\ t' = t /\ roster' = roster
    BY <1>4 DEF SetResult
  <2>2. SetFacts(h)
    BY <1>4, SetResultRow
  <2>3. /\ Len(pairings') = Len(pairings)
        /\ \A i \in 1..Len(pairings) : /\ pairings'[i].black = pairings[i].black
                                       /\ pairings'[i].white = pairings[i].white
    BY <2>2 DEF SetFacts
  <2>4. \A R : MeetOnce(pairings, R) => MeetOnce(pairings', R)
    <3>1. \A i \in 1..Len(pairings) : \A x, y :
            Together(pairings'[i], x, y) <=> Together(pairings[i], x, y)
      BY <2>3 DEF Together, Sits
    <3>2. QED BY <2>3, <3>1 DEF MeetOnce
  <2>5. t.format = "round_robin" =>
          (Len(pairings') # 0 => MeetOnce(pairings', RangeOf(roster'.ids)))
    BY <2>1, <2>3, <2>4 DEF MeetInv
  <2>6. Idle \in Request /\ MeetHeld(Idle)
    BY IdleType DEF MeetHeld, Idle
  <2>7. QED BY <1>1, <2>1, <2>5, <2>6, MeetStep
<1>5. QED
  BY <1>2, <1>3, <1>4

\* No round is added to a round robin.
LEMMA MeetAdvance ==
  ASSUME TypeOK, LinkInv, RoundsInv, MeetInv, NEW h \in Handler,
         \/ BeginNext(h) \/ ListPairings(h) \/ LoadField(h) \/ InsertNext(h)
         \/ Finish(h) \/ Fail(h)
  PROVE  MeetInv'
<1> DEFINE q == local[h]
<1>1. q \in Request /\ local \in [Handler -> Request]
  BY DEF TypeOK
<1>2. NextHeld(h, q, t, roster, pairings)
  BY DEF RoundsInv, HandlersHeld
<1>3. Idle \in Request /\ MeetHeld(Idle)
  BY IdleType DEF MeetHeld, Idle
<1>4. CASE BeginNext(h)
  <2> DEFINE l == [Idle EXCEPT !.pc = "listPairings", !.rounds = t.rounds]
  <2>1. Goto(h, l) /\ UNCHANGED <<t, roster, pairings>>
    BY <1>4 DEF BeginNext
  <2>2. t.rounds \in Nat
    BY DEF TypeOK, StoreOK
  <2>3. l \in Request /\ l.pc = "listPairings"
    BY <2>2, IdleType DEF Request, PC
  <2> HIDE DEF l
  <2>4. MeetHeld(l)
    BY <2>3 DEF MeetHeld
  <2>5. QED BY <1>1, <2>1, <2>3, <2>4, MeetAside
<1>5. CASE ListPairings(h)
  <2> DEFINE done == [q EXCEPT !.pc = "finish"]
             more == [q EXCEPT !.pc = "loadField", !.rows = pairings]
  <2>1. /\ UNCHANGED <<t, roster, pairings>>
        /\ Goto(h, Idle) \/ Goto(h, done) \/ Goto(h, more)
    BY <1>5 DEF ListPairings
  <2>2. pairings \in Seq(PairingRow)
    BY Typed
  <2> HIDE DEF q
  <2>3. /\ done \in Request /\ done.pc = "finish"
        /\ more \in Request /\ more.pc = "loadField"
    BY <1>1, <2>2 DEF Request, PC
  <2> HIDE DEF done, more
  <2>4. MeetHeld(done) /\ MeetHeld(more)
    BY <2>3 DEF MeetHeld
  <2>5. QED BY <1>1, <1>3, <2>1, <2>3, <2>4, MeetAside
<1>6. CASE LoadField(h)
  <2>1. UNCHANGED <<t, roster, pairings>> /\ q.pc = "loadField"
    BY <1>6 DEF LoadField
  <2>2. t.format # "round_robin"
    BY <1>2, <2>1 DEF NextHeld
  <2>3. t'.format # "round_robin"
    BY <2>1, <2>2
  <2>4. QED BY <2>3 DEF MeetInv
<1>7. CASE InsertNext(h)
  <2>1. t' = t /\ q.pc = "insertNext"
    BY <1>7 DEF InsertNext, Insert
  <2>2. t.format # "round_robin"
    BY <1>2, <2>1 DEF NextHeld
  <2>3. QED BY <2>1, <2>2 DEF MeetInv
<1>8. CASE Finish(h)
  <2>1. /\ Goto(h, Idle) /\ t' = [t EXCEPT !.status = "finished"]
        /\ roster' = roster /\ pairings' = pairings
    BY <1>8 DEF Finish
  <2>2. t'.format = t.format
    BY <2>1 DEF TypeOK, StoreOK
  <2>3. t.format = "round_robin" =>
          (Len(pairings') # 0 => MeetOnce(pairings', RangeOf(roster'.ids)))
    BY <2>1 DEF MeetInv
  <2>4. QED BY <1>1, <1>3, <2>1, <2>2, <2>3, MeetStep
<1>9. CASE Fail(h)
  BY <1>1, <1>3, <1>9, MeetAside DEF Fail
<1>10. QED
  BY <1>4, <1>5, <1>6, <1>7, <1>8, <1>9

LEMMA MeetNext ==
  ASSUME TypeOK, LinkInv, RoundsInv, MeetInv, [Next]_vars
  PROVE  MeetInv'
<1>1. ASSUME NEW f \in Formats, NEW c \in Handicaps, NEW n \in Rounds, Create(f, c, n)
      PROVE  MeetInv'
  <2>1. t.status = "absent" /\ pairings' = pairings /\ local' = local
    BY <1>1 DEF Create
  <2>2. Len(pairings) = 0
    BY <2>1 DEF RoundsInv, RoundsStored
  <2>3. \A h \in Handler : local[h].pc \notin InStart
    BY <2>1 DEF RoundsInv, HandlersHeld, StartHeld
  <2>4. \A h \in Handler : MeetHeld(local'[h])
    BY <2>1, <2>3 DEF MeetHeld, InStart
  <2>5. QED BY <2>1, <2>2, <2>4 DEF MeetInv
<1>2. ASSUME NEW h \in Handler, HandlerNext(h) PROVE MeetInv'
  BY <1>2, MeetStart, MeetResult, MeetAdvance DEF HandlerNext
<1>3. CASE UNCHANGED vars
  BY <1>3 DEF vars, MeetInv
<1>4. QED
  BY <1>1, <1>2, <1>3 DEF Next

(***************************************************************************)
(* EveryoneMeetsOnce: in a running round robin any two players of the      *)
(* roster have one pairing - for any roster, odd or even, also when its    *)
(* start was repeated and while results are recorded.                      *)
(***************************************************************************)
THEOREM MeetOnceEach ==
  ASSUME OneOfEach
  PROVE  Spec => []EveryoneMeetsOnce
<1>1. ASSUME TypeOK, RoundsInv, MeetInv PROVE EveryoneMeetsOnce
  <2> DEFINE R == RangeOf(roster.ids)
  <2>1. SUFFICES ASSUME t.status \in {"running", "finished"}, t.format = "round_robin",
                        NEW x \in R, NEW y \in R, x # y
                 PROVE  Cardinality({i \in 1..Len(pairings) : Paired(i) = {x, y}}) = 1
    BY DEF EveryoneMeetsOnce
  <2>2. Len(pairings) # 0 /\ FullRounds(pairings, 1, CurrentRound(pairings), R)
    BY <1>1, <2>1 DEF RoundsInv, RoundsStored
  <2>3. MeetOnce(pairings, R)
    BY <1>1, <2>1, <2>2 DEF MeetInv
  <2>4. Ghost \notin R
    <3>1. roster.ids \in Seq(Player)
      BY <1>1 DEF TypeOK, StoreOK
    <3>2. R \subseteq Player
      BY <3>1 DEF RangeOf
    <3>3. QED BY <3>2, TournamentAssumption DEF Ghost
  <2> HIDE DEF R
  <2>5. \A i \in 1..Len(pairings) :
          pairings[i].black \in R /\ pairings[i].white \in R \cup {Ghost}
    BY <2>2 DEF FullRounds, FullIn
  <2>6. ASSUME NEW i \in 1..Len(pairings)
        PROVE  Paired(i) = {x, y} <=> Together(pairings[i], x, y)
    BY <2>1, <2>4, <2>5 DEF Paired, Together, Sits
  <2>7. PICK i \in 1..Len(pairings) : Together(pairings[i], x, y)
    BY <2>1, <2>3 DEF MeetOnce
  <2>8. \A j \in 1..Len(pairings) : Together(pairings[j], x, y) => j = i
    BY <2>1, <2>3, <2>7 DEF MeetOnce
  <2>9. {j \in 1..Len(pairings) : Paired(j) = {x, y}} = {i}
    BY <2>6, <2>7, <2>8
  <2>10. Cardinality({i}) = 1
    BY FS_Singleton
  <2>11. QED BY <2>9, <2>10, Zenon
<1>2. Init => MeetInv
  <2>1. ASSUME Init PROVE MeetInv
    <3>1. t.format = ""
      BY <2>1 DEF Init
    <3>2. QED BY <3>1 DEF MeetInv
  <2>2. QED BY <2>1
<1>3. TypeOK /\ LinkInv /\ RoundsInv /\ MeetInv /\ [Next]_vars => MeetInv'
  BY MeetNext
<1>4. QED
  BY RoundsInvariant, <1>1, <1>2, <1>3, PTL DEF Spec
=============================================================================
