------------------------------ MODULE MCLedger ------------------------------
(***************************************************************************)
(* Small instances of Ledger.  Rating states are numbers and RateGame is a *)
(* hash of its arguments, so that two different histories give two         *)
(* different states: an equality of states in these runs is an equality of *)
(* the games that led to them.                                             *)
(***************************************************************************)
EXTENDS Ledger, TLC

MCEntry == 0..256

MCRate(own, opp, s, d, o) ==
  ((own * 31) + (opp * 17) + (IF s = "black" THEN 3 ELSE 7)
    + (IF d = "9x9" THEN 101 ELSE 211) + (IF o = "blackWon" THEN 1009 ELSE 2003))
  % 257

MCSeed == [p \in Player |-> 10 * Cardinality({q \in Player : q <= p})]

\* Players 1 to 3 are in the first group, the others in the second.
MCGroupOf == [p \in Player |-> IF p <= 3 THEN "g1" ELSE "g2"]

Interchangeable == Permutations(Recorder)

OnePlayerGroup == {"g1"}
BothGroups == {"g1", "g2"}

=============================================================================
