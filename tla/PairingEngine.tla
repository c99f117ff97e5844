---------------------------- MODULE PairingEngine ----------------------------
(***************************************************************************)
(* Package tournament: the pure pairing engine, as operators.              *)
(*                                                                         *)
(* A field is a sequence of player ids (numbers above 0) in the order the  *)
(* caller passes them.  A rating and a starting score are functions of the *)
(* id, given as whole numbers: the engine only compares ratings, and       *)
(* starting scores are differences of rounded ranks.                       *)
(***************************************************************************)
EXTENDS Integers, Sequences, FiniteSets, FiniteSetsExt

\* The id 0: the odd player's opponent in a round robin, and WhiteID of a bye.
Ghost == 0

IsBye(pr) == pr.white = Ghost

ByePoints == 1

-----------------------------------------------------------------------------
(* Round robin: the circle method. *)

\* An odd field gets a ghost at the end of the table.
Seats(ids) == IF Len(ids) % 2 = 1 THEN Append(ids, Ghost) ELSE ids

\* Mutant: the whole circle moves, the first seat with it.
Rotate_All(arr) ==
  [k \in 1..Len(arr) |-> IF k = 1 THEN arr[Len(arr)] ELSE arr[k - 1]]

\* The first seat stays, the others move one up, the last comes second.
Rotate(arr) ==
  IF Len(arr) <= 2 THEN arr
  ELSE [k \in 1..Len(arr) |-> CASE k = 1 -> arr[1]
                                [] k = 2 -> arr[Len(arr)]
                                [] OTHER -> arr[k - 1]]

\* Mutant: n - i for n - 1 - i.
Opposite_OffByOne(arr, i) == IF i = 1 THEN 1 ELSE Len(arr) + 2 - i

\* Board i of the circle has seat i and the seat opposite.
Opposite(arr, i) == Len(arr) + 1 - i

HasGhost(arr, i) == arr[i] = Ghost \/ arr[Opposite(arr, i)] = Ghost

\* Mutant: the seat of the lower index always has black.
LayBoard_NoSwap(arr, r, i) ==
  IF HasGhost(arr, i)
    THEN [board |-> 0, white |-> Ghost,
          black |-> IF arr[i] = Ghost THEN arr[Opposite(arr, i)] ELSE arr[i]]
    ELSE [board |-> Cardinality({j \in 1..i : ~HasGhost(arr, j)}),
          black |-> arr[i], white |-> arr[Opposite(arr, i)]]

\* Board i of round r (from 0).  Colours swap in every second round.
LayBoard(arr, r, i) ==
  LET a == arr[i]
      b == arr[Opposite(arr, i)]
  IN  IF HasGhost(arr, i)
        THEN [board |-> 0, black |-> IF a = Ghost THEN b ELSE a, white |-> Ghost]
        ELSE [board |-> Cardinality({j \in 1..i : ~HasGhost(arr, j)}),
              black |-> IF r % 2 = 1 THEN b ELSE a,
              white |-> IF r % 2 = 1 THEN a ELSE b]

LayRound(arr, r) == [i \in 1..(Len(arr) \div 2) |-> LayBoard(arr, r, i)]

\* The number of rounds of a field.
RoundsFor(ids) == IF Len(ids) < 2 THEN 0 ELSE Len(Seats(ids)) - 1

RoundRobinSchedule(ids) ==
  LET seating[r \in 0..Len(ids)] ==
        IF r = 0 THEN Seats(ids) ELSE Rotate(seating[r - 1])
  IN  [r \in 1..RoundsFor(ids) |-> LayRound(seating[r - 1], r - 1)]

-----------------------------------------------------------------------------
(* McMahon.  A result is [round, black, white, winner]; white = Ghost for a *)
(* bye.  results is a sequence of them; results of players who are not in   *)
(* the field are skipped.                                                   *)

RangeOf(s) == {s[i] : i \in 1..Len(s)}

\* The results that count for player p, by index.
Of(results, field, p) ==
  {i \in 1..Len(results) :
     /\ p \in {results[i].black, results[i].white}
     /\ {results[i].black, results[i].white} \subseteq field \cup {Ghost}}

\* Mutant: a bye scores but is not remembered.
HadBye_Forgotten(results, mine) == FALSE

HadBye(results, mine) == \E i \in mine : IsBye(results[i])

\* What p scores: a point for a win and ByePoints for a bye.
Points(wins, games, mine) ==
  Cardinality(wins) + ByePoints * Cardinality(mine \ games)

(***************************************************************************)
(* tally: what the results say of each player.  White wins whenever the    *)
(* winner is not black.                                                    *)
(***************************************************************************)
Tally(ids, start, results) ==
  [p \in RangeOf(ids) |->
     LET mine  == Of(results, RangeOf(ids), p)
         games == {i \in mine : ~IsBye(results[i])}
         wins  == {i \in games : (results[i].winner = results[i].black)
                                   = (results[i].black = p)}
     IN  [score  |-> start[p] + Points(wins, games, mine),
          wins   |-> Cardinality(wins),
          played |-> Cardinality(games),
          blacks |-> Cardinality({i \in games : results[i].black = p}),
          opponents |-> ({results[i].black : i \in games}
                          \cup {results[i].white : i \in games}) \ {p},
          hadBye |-> HadBye(results, mine)]]

\* The place of id p in the roster.
PlaceIn(ids, p) == CHOOSE i \in 1..Len(ids) : ids[i] = p

(***************************************************************************)
(* The members of S, the highest first.  above is a strict total order, as *)
(* a set of pairs: the k-th member is the one below k - 1 others.  (The    *)
(* concatenation has TLC evaluate the table once.)                         *)
(***************************************************************************)
Ranked(S, above) == <<>> \o
  [k \in 1..Cardinality(S) |->
     CHOOSE x \in S : Cardinality({y \in S : <<y, x>> \in above}) = k - 1]

(***************************************************************************)
(* sortStandings: by score, then rating; equal players keep their order.   *)
(***************************************************************************)
SortStandings(ids, tally, rating) ==
  LET rows == {[id |-> p, score |-> tally[p].score, rating |-> rating[p],
                place |-> PlaceIn(ids, p)] : p \in RangeOf(ids)}
      Above(a, b) ==
        \/ a.score > b.score
        \/ a.score = b.score /\ a.rating > b.rating
        \/ a.score = b.score /\ a.rating = b.rating /\ a.place < b.place
  IN  Ranked(RangeOf(ids),
        {<<pr[1].id, pr[2].id>> : pr \in {pq \in rows \X rows : Above(pq[1], pq[2])}})

Without(s, i) == [k \in 1..(Len(s) - 1) |-> IF k < i THEN s[k] ELSE s[k + 1]]

\* The place of the bye: the lowest player without one, or the lowest.
ByeIndex(ordered, tally) ==
  LET free == {i \in 1..Len(ordered) : ~tally[ordered[i]].hadBye}
  IN  IF free = {} THEN Len(ordered) ELSE Max(free)

\* Mutant: the player with more blacks takes black.
AssignColours_More(a, b, tally, rating) ==
  IF tally[a].blacks >= tally[b].blacks THEN <<a, b>> ELSE <<b, a>>

\* Fewer blacks takes black, then the lower rating.
AssignColours(a, b, tally, rating) ==
  LET aBlack == \/ tally[a].blacks < tally[b].blacks
                \/ tally[a].blacks = tally[b].blacks /\ rating[a] <= rating[b]
  IN  IF aBlack THEN <<a, b>> ELSE <<b, a>>

\* Mutant: the opponent is paired and stays in the list.
PairOff_Keep(st, tally, rating) ==
  LET a == st.left[1]
      colours == AssignColours(a, st.left[2], tally, rating)
  IN  [left   |-> Tail(st.left),
       paired |-> Append(st.paired,
                    [board |-> Len(st.paired) + 1,
                     black |-> colours[1], white |-> colours[2]])]

\* Mutant: the next player is the opponent, met or not.
PairOff_Next(st, tally, rating) ==
  LET colours == AssignColours(st.left[1], st.left[2], tally, rating)
  IN  [left   |-> Tail(Tail(st.left)),
       paired |-> Append(st.paired,
                    [board |-> Len(st.paired) + 1,
                     black |-> colours[1], white |-> colours[2]])]

(***************************************************************************)
(* One turn of the pairing loop: the first player left meets the first     *)
(* later one he has not met, or the next one if he has met them all.       *)
(***************************************************************************)
PairOff(st, tally, rating) ==
  LET a     == st.left[1]
      met   == tally[a].opponents
      unmet == {j \in 2..Len(st.left) : st.left[j] \notin met}
      opp   == IF unmet = {} THEN 2 ELSE Min(unmet)
      colours == AssignColours(a, st.left[opp], tally, rating)
  IN  [left   |-> Tail(Without(st.left, opp)),
       paired |-> Append(st.paired,
                    [board |-> Len(st.paired) + 1,
                     black |-> colours[1], white |-> colours[2]])]

McMahonRound(ids, start, rating, results) ==
  LET tally   == Tally(ids, start, results)
      ordered == SortStandings(ids, tally, rating)
      odd     == Len(ordered) % 2 = 1
      bye     == ByeIndex(ordered, tally)
      free    == IF odd THEN Without(ordered, bye) ELSE ordered
      after[k \in 0..(Len(free) \div 2)] ==
        IF k = 0 THEN [left |-> free, paired |-> <<>>]
                 ELSE PairOff(after[k - 1], tally, rating)
      paired  == after[Len(free) \div 2].paired
  IN  IF Len(ids) < 2 THEN <<>>
      ELSE IF odd
        THEN Append(paired, [board |-> 0, black |-> ordered[bye], white |-> Ghost])
        ELSE paired

-----------------------------------------------------------------------------
(* Standings. *)

SumOver(S, f) == MapThenSumSet(LAMBDA p : f[p], S)

SOS(tally) == [p \in DOMAIN tally |->
  SumOver(tally[p].opponents, [q \in DOMAIN tally |-> tally[q].score])]

SOSOS(tally) == [p \in DOMAIN tally |-> SumOver(tally[p].opponents, SOS(tally))]

\* Mutant: only the score makes a place.
SameRank_Score(a, b) == a.score = b.score

SameRank(a, b) == a.score = b.score /\ a.sos = b.sos /\ a.sosos = b.sosos

(***************************************************************************)
(* Standings: the table by score, SOS, SOSOS and rating, and the places,   *)
(* shared by neighbours equal in the first three.                          *)
(***************************************************************************)
Standings(ids, start, rating, results) ==
  LET tally == Tally(ids, start, results)
      sos   == SOS(tally)
      sosos == SOSOS(tally)
      rows  == [i \in 1..Len(ids) |->
        [player |-> ids[i], score |-> tally[ids[i]].score,
         wins |-> tally[ids[i]].wins, played |-> tally[ids[i]].played,
         sos |-> sos[ids[i]], sosos |-> sosos[ids[i]]]]
      Above(a, b) ==
        \/ a.score > b.score
        \/ a.score = b.score /\ a.sos > b.sos
        \/ a.score = b.score /\ a.sos = b.sos /\ a.sosos > b.sosos
        \/ SameRank(a, b) /\ rating[a.player] > rating[b.player]
      table == Ranked(RangeOf(rows), {pr \in RangeOf(rows) \X RangeOf(rows) :
        \/ Above(pr[1], pr[2])
        \/ /\ ~Above(pr[2], pr[1])
           /\ PlaceIn(ids, pr[1].player) < PlaceIn(ids, pr[2].player)})
      place[i \in 1..Len(ids)] ==
        IF i > 1 /\ SameRank(table[i - 1], table[i]) THEN place[i - 1] ELSE i
  IN  [i \in 1..Len(ids) |-> [row |-> table[i], place |-> place[i]]]

-----------------------------------------------------------------------------
(* Starting scores and the number of rounds. *)

(***************************************************************************)
(* StartScores: rank[p] is the rounded rank of p's rating, bar the rounded *)
(* rank of the bar rating, 0 for no bar.                                   *)
(***************************************************************************)
StartScores(ids, rank, bar) ==
  LET ranks == {rank[p] : p \in RangeOf(ids)}
      top   == IF bar > 0 THEN bar ELSE Max(ranks)
  IN  [p \in RangeOf(ids) |-> (IF rank[p] > top THEN top ELSE rank[p]) - Min(ranks)]

\* ceil(log2 n) + 1, between 1 and n - 1.
SuggestedRounds(n) ==
  LET twoTo[k \in 0..n] == IF k = 0 THEN 1 ELSE 2 * twoTo[k - 1]
      log  == Min({k \in 0..n : twoTo[k] >= n})
      most == IF log + 1 > n - 1 THEN n - 1 ELSE log + 1
  IN  IF n < 2 THEN 0 ELSE IF most < 1 THEN 1 ELSE most
=============================================================================
