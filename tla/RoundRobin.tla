----------------------------- MODULE RoundRobin -----------------------------
(***************************************************************************)
(* RoundRobinSchedule as it runs: the loop that lays one round of the      *)
(* circle and rotates the table.  The players are named by their seeding   *)
(* order, 1 to size; the ghost of an odd field is 0.                       *)
(***************************************************************************)
EXTENDS PairingEngine

CONSTANT MaxField   \* the largest field

ASSUME FieldAssumption == MaxField \in Nat \ {0, 1}

VARIABLES
  size,      \* len(ids)
  arr,       \* the table, rotated in place
  schedule   \* the rounds laid so far

circleVars == <<size, arr, schedule>>

Ids(k) == [i \in 1..k |-> i]

CircleInit ==
  /\ size \in 2..MaxField
  /\ arr = Seats(Ids(size))
  /\ schedule = <<>>

Lay ==
  /\ Len(schedule) < Len(arr) - 1
  /\ schedule' = Append(schedule, LayRound(arr, Len(schedule)))
  /\ arr' = Rotate(arr)
  /\ UNCHANGED size

CircleSpec == CircleInit /\ [][Lay]_circleVars

-----------------------------------------------------------------------------
Finished == Len(schedule) = Len(arr) - 1

Field == 1..size

\* The players, and the ghost if the field is odd.
Table == IF size % 2 = 1 THEN Field \cup {Ghost} ELSE Field

\* The two seats of a pairing.  A bye is a meeting with the ghost.
Both(pr) == {pr.black, pr.white}

\* In round r, x meets y.
Meets(r, x, y) == \E i \in 1..Len(schedule[r]) : Both(schedule[r][i]) = {x, y}

PairingType == [board : 0..MaxField, black : 0..MaxField, white : 0..MaxField]

CircleTypeOK ==
  /\ size \in 2..MaxField
  /\ arr \in Seq(Table) /\ Len(arr) = Cardinality(Table)
  /\ schedule \in Seq(Seq(PairingType))

(***************************************************************************)
(* Nobody meets the same opponent in two rounds, and nobody has two byes:  *)
(* the rotation never brings two seats back to the same board.             *)
(***************************************************************************)
NoRematch ==
  \A q, r \in 1..Len(schedule) : \A x, y \in Table :
    x # y /\ Meets(q, x, y) /\ Meets(r, x, y) => q = r

(***************************************************************************)
(* In every round everybody sits at exactly one board.                     *)
(***************************************************************************)
OneBoardEach ==
  \A r \in 1..Len(schedule), x \in Table :
    /\ \E i \in 1..Len(schedule[r]) : x \in Both(schedule[r][i])
    /\ \A i, j \in 1..Len(schedule[r]) :
         x \in Both(schedule[r][i]) /\ x \in Both(schedule[r][j]) => i = j

(***************************************************************************)
(* "everyone plays everyone exactly once", "an odd field gives each player *)
(* exactly one bye": with NoRematch, this is the "exactly".                *)
(***************************************************************************)
EveryoneMeets ==
  Finished => \A x, y \in Table :
    x # y => \E r \in 1..Len(schedule) : Meets(r, x, y)

\* The rounds in which x has black, or white.
BlackIn(x) == {r \in 1..Len(schedule) :
  \E i \in 1..Len(schedule[r]) :
     ~IsBye(schedule[r][i]) /\ schedule[r][i].black = x}

WhiteIn(x) == {r \in 1..Len(schedule) :
  \E i \in 1..Len(schedule[r]) :
     ~IsBye(schedule[r][i]) /\ schedule[r][i].white = x}

(***************************************************************************)
(* "Colours alternate by round for a rough balance."  How rough: over the  *)
(* whole schedule nobody has four games more of one colour than of the     *)
(* other in an even field, five in an odd one, and nobody has the same     *)
(* colour in four rounds in a row.                                         *)
(***************************************************************************)
ColoursBalanced ==
  /\ Finished => \A x \in Field :
       LET balance == Cardinality(BlackIn(x)) - Cardinality(WhiteIn(x))
       IN  IF size % 2 = 0 THEN balance \in -3..3 ELSE balance \in -4..4
  /\ \A x \in Field, r \in 1..(Len(schedule) - 3) :
       ~ (r..(r+3) \subseteq BlackIn(x)) /\ ~ (r..(r+3) \subseteq WhiteIn(x))
=============================================================================
