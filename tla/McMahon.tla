------------------------------- MODULE McMahon -------------------------------
(***************************************************************************)
(* A McMahon event as the engine sees it: a field with starting scores,    *)
(* then round after round McMahonRound pairs the players from all results  *)
(* so far, and every game gets a winner.  The games also move the ratings, *)
(* so each round may be paired with other ratings than the one before; the *)
(* starting scores are those of the first.                                 *)
(***************************************************************************)
EXTENDS PairingEngine

CONSTANTS
  Sizes,        \* the field sizes
  Ratings(_),   \* the ratings a field of so many players may have
  RankOf(_),    \* the whole rank of a rating
  MaxRounds(_)  \* bound on the number of rounds of a field of so many players

ASSUME McMahonAssumption ==
  /\ Sizes \subseteq Nat \ {0, 1}
  /\ \A n \in Sizes :
       /\ Ratings(n) \subseteq [1..n -> Nat]
       /\ \A f \in Ratings(n), p \in 1..n : RankOf(f[p]) \in Nat
       /\ MaxRounds(n) \in Nat

VARIABLES
  ids,      \* the roster
  start,    \* the starting scores
  rating,   \* the ratings the last round was paired with
  results,  \* the results, in round order
  round     \* the rounds played

vars == <<ids, start, rating, results, round>>

Players == RangeOf(ids)

Init ==
  \E n \in Sizes :
    /\ ids = [i \in 1..n |-> i]
    /\ rating \in Ratings(n)
    /\ start = StartScores(ids, [p \in 1..n |-> RankOf(rating[p])], 0)
    /\ results = <<>>
    /\ round = 0

(***************************************************************************)
(* One round: pair, play.  blackWins says who wins at each board.          *)
(***************************************************************************)
PlayRound(now, blackWins) ==
  LET pairs == McMahonRound(ids, start, now, results)
      won(pr, i) == IF blackWins[i] \/ IsBye(pr) THEN pr.black ELSE pr.white
  IN  /\ round < MaxRounds(Len(ids))
      /\ rating' = now
      /\ round' = round + 1
      /\ results' = results \o
           [i \in 1..Len(pairs) |->
              [round |-> round + 1, black |-> pairs[i].black,
               white |-> pairs[i].white, winner |-> won(pairs[i], i)]]
      /\ UNCHANGED <<ids, start>>

Next ==
  \E now \in Ratings(Len(ids)) :
    \E blackWins \in [1..(Len(ids) \div 2) + 1 -> BOOLEAN] :
      (Len(ids) % 2 = 0 => blackWins[(Len(ids) \div 2) + 1])
        /\ PlayRound(now, blackWins)

Spec == Init /\ [][Next]_vars

-----------------------------------------------------------------------------
TypeOK ==
  /\ Len(ids) \in Sizes
  /\ rating \in Ratings(Len(ids))
  /\ start \in [Players -> Nat]
  /\ round \in 0..MaxRounds(Len(ids))
  /\ results \in Seq([round : 1..MaxRounds(Len(ids)), black : Players,
                      white : Players \cup {Ghost}, winner : Players])

tally == Tally(ids, start, results)

ResultsOf(p) == {i \in 1..Len(results) : p \in {results[i].black, results[i].white}}
Byes(p) == {i \in ResultsOf(p) : IsBye(results[i])}

(***************************************************************************)
(* Every round has every player exactly once, though the pairing loop      *)
(* takes players out of a list it walks.                                   *)
(***************************************************************************)
EveryoneOncePerRound ==
  \A r \in 1..round, p \in Players :
    Cardinality({i \in ResultsOf(p) : results[i].round = r}) = 1

(***************************************************************************)
(* Nobody has a second bye while somebody has had none, whatever the       *)
(* results and however the ratings move between the rounds.                *)
(***************************************************************************)
ByesGoRound ==
  \A p, q \in Players : Cardinality(Byes(p)) > 1 => Byes(q) # {}

(***************************************************************************)
(* The places of the table are what a reader takes them for: one more than *)
(* the number of players who are strictly better in (score, SOS, SOSOS).   *)
(***************************************************************************)
PlacesCountBetter ==
  LET better(a, b) == \/ a.score > b.score
                      \/ a.score = b.score /\ a.sos > b.sos
                      \/ a.score = b.score /\ a.sos = b.sos /\ a.sosos > b.sosos
      t == Standings(ids, start, rating, results)
  IN  /\ {t[i].row.player : i \in 1..Len(t)} = Players
      /\ \A i \in 1..Len(t) :
           t[i].place =
             1 + Cardinality({j \in 1..Len(t) : better(t[j].row, t[i].row)})

(***************************************************************************)
(* The colour rule looks only at the two players of a game, but it keeps   *)
(* the whole field together: nobody has black in more than half of the     *)
(* rounds and a quarter of the field, and in an even field no two players  *)
(* are further apart than half of the field.                               *)
(***************************************************************************)
BlacksClose ==
  LET n == Len(ids)
  IN  /\ \A p \in Players : 4 * tally[p].blacks <= 2 * round + n
      /\ n % 2 = 0 => \A p, q \in Players :
           tally[p].blacks - tally[q].blacks <= n \div 2

\* Results i and j are games of the same two players, i in an earlier round.
MetBefore(i, j) ==
  /\ results[i].round < results[j].round /\ ~IsBye(results[j])
  /\ {results[i].black, results[i].white} = {results[j].black, results[j].white}

(***************************************************************************)
(* The greedy search has rematches that another pairing would avoid, but   *)
(* never high up: at the boards below a rematch there sit fewer players    *)
(* than rounds were played before.                                         *)
(***************************************************************************)
RematchesLow ==
  \A i, j \in 1..Len(results) :
    LET board == Cardinality({k \in 1..j : results[k].round = results[j].round})
    IN  MetBefore(i, j) =>
          2 * ((Len(ids) \div 2) - board) < results[j].round - 1

\* Round r of an even field can be paired without a rematch.
Perfect(r) ==
  LET before(p) == {q \in Players : \E i \in 1..Len(results) :
                      /\ results[i].round < r
                      /\ {p, q} = {results[i].black, results[i].white}}
  IN  \E f \in [Players -> Players] :
        \A p \in Players : f[p] # p /\ f[f[p]] = p /\ f[p] \notin before(p)

Rematch(r) ==
  \E i, j \in 1..Len(results) : results[j].round = r /\ MetBefore(i, j)

(***************************************************************************)
(* "avoiding rematches until unavoidable" (McMahonRound's comment): no     *)
(* rematch in a round that could have been paired without one.             *)
(* The code does not keep this: MCMcMahon_rematch.                         *)
(***************************************************************************)
NoAvoidableRematch ==
  Len(ids) % 2 = 0 => \A r \in 1..round : Rematch(r) => ~Perfect(r)
=============================================================================
