------------------------------ MODULE MCMcMahon ------------------------------
(***************************************************************************)
(* Small instances of McMahon.  A field rises, falls or has two strong    *)
(* players at the end of the roster.                                       *)
(***************************************************************************)
EXTENDS McMahon

Rising(n)  == [p \in 1..n |-> p]
Falling(n) == [p \in 1..n |-> n + 1 - p]
TwoStrong(n) == [p \in 1..n |-> IF p + 1 >= n THEN 4 ELSE p % 2]

FewRatings(n) == {Rising(n), Falling(n)}
MoreRatings(n) == {Rising(n), Falling(n), TwoStrong(n)}

\* Two ratings to a rank; the lowest ratings share rank 0.
HalfRank(x) == x \div 2
OneRank(x) == 10

\* Three players are followed until each has had a bye, and into the next circle.
UpToFive(n) == IF n <= 3 THEN 5 ELSE 3
=============================================================================
