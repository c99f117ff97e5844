---------------------------- MODULE MCTournament ----------------------------
(***************************************************************************)
(* Small instances of Tournament.                                          *)
(***************************************************************************)
EXTENDS Tournament

\* Ratings by id, one way round and the other, with two of them equal.
Rising  == [p \in Player |-> p]
Falling == [p \in Player |-> 10 - (p \div 2)]

TwoRatings == {Rising, Falling}

Starts(format) ==
  IF format = "mcmahon" THEN {{1}, {1, 2, 3}, {1, 2, 3, 4}} ELSE {{1}, {1, 2, 3}}
ThreePlayers(format) == {{1, 2, 3}}

\* All but the two that leave a start half done (MCTournament_start_retried).
Failures == {"loadRoster", "setRoster", "insertOpening", "recordGame", "setResult",
             "listPairings", "loadField", "insertNext", "finish"}

HalfRank(x) == x \div 2
=============================================================================
