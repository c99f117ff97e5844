------------------------------ MODULE Handicap ------------------------------
(***************************************************************************)
(* The handicap model of package rating: what Recommended proposes for a   *)
(* rank gap, and what HandicapRankDifference makes of the proposal when    *)
(* the game is rated.  A rank gap is counted in sixteenths of a rank, komi *)
(* and head start in eighths of a point: on every board a sixteenth of a   *)
(* rank is a whole number of eighths.                                      *)
(***************************************************************************)
EXTENDS Integers

Points(n) == 8 * n
Half == 4

PerfectKomi == Points(6)
StoneValue == Points(12)
RecKomiMax == Points(6) + Half
RecKomiMin == -RecKomiMax

Boards == {9, 13, 19}

BoardMultiplier(b) == IF b = 9 THEN 6 ELSE IF b = 13 THEN 3 ELSE 1

MaxStones(b) == IF b \in {9, 13} THEN 5 ELSE 9

\* math.Round to whole points, half away from zero.
Round(v) == IF v >= 0 THEN Points((v + Half) \div 8) ELSE -Points((Half - v) \div 8)

\* The nearest komi n + 1/2.
NormalizeKomi(v) == Round(v - Half) + Half

\* The moves black has in advance: one stone is only the first move.
ExtraMoves(stones) == IF stones > 1 THEN stones - 1 ELSE 0

(***************************************************************************)
(* Black's advantage in points.  HandicapRankDifference is this times the  *)
(* multiplier of the board, over the value of a stone.                     *)
(***************************************************************************)
HeadStart(stones, komi) == PerfectKomi - komi + StoneValue * ExtraMoves(stones)

\* The advantage that makes up for the gap, in points: the inverse.
Target(gap, b) == (gap * 6) \div BoardMultiplier(b)

Clamp(v, lo, hi) == IF v < lo THEN lo ELSE IF v > hi THEN hi ELSE v

\* Mutant: the first stone is worth a move.
KomiFor_EveryStone(gap, b, stones) ==
  PerfectKomi - Target(gap, b) + StoneValue * stones

\* The komi that makes it even with so many stones.
KomiFor(gap, b, stones) ==
  PerfectKomi - Target(gap, b) + StoneValue * ExtraMoves(stones)

Enough(gap, b, stones) ==
  KomiFor(gap, b, stones) >= RecKomiMin \/ stones = MaxStones(b)

\* Recommended: the fewest stones that leave a playable komi; never one.
Recommended(gap, b) ==
  LET stones == CHOOSE s \in (0..MaxStones(b)) \ {1} :
        /\ Enough(gap, b, s)
        /\ \A fewer \in (0..(s - 1)) \ {1} : ~Enough(gap, b, fewer)
  IN  [stones |-> stones,
       komi   |-> NormalizeKomi(Clamp(KomiFor(gap, b, stones), -Points(50), RecKomiMax))]

-----------------------------------------------------------------------------
Abs(n) == IF n < 0 THEN -n ELSE n
Given(gap, b) == HeadStart(Recommended(gap, b).stones, Recommended(gap, b).komi)

\* The largest head start a board can give: all stones, and the komi clamp.
Limit(b) == HeadStart(MaxStones(b), -Points(50))

(***************************************************************************)
(* The proposed game is rated as an even one: the head start that RateGame *)
(* computes from stones and komi makes up for the gap to half a point,     *)
(* until stones and komi are used up.                                      *)
(***************************************************************************)
EvenAt(gap, b) ==
  Target(gap, b) <= Limit(b) => Abs(Given(gap, b) - Target(gap, b)) <= Half

\* A wider gap gives black no less: neither stones nor head start.
NoLessAt(gap, wider, b) ==
  /\ Recommended(wider, b).stones >= Recommended(gap, b).stones
  /\ Given(wider, b) >= Given(gap, b)
=============================================================================
