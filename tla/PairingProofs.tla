---------------------------- MODULE PairingProofs ----------------------------
(***************************************************************************)
(* Facts about the pairing engine, for fields of any size: the sort puts   *)
(* every member in one place, the pairing loop seats everybody once, the   *)
(* schedule of a round robin is made of pairings.  The loops are recursive *)
(* functions; what they return is proved by induction on the turn.         *)
(***************************************************************************)
EXTENDS PairingEngine, FiniteSetTheorems, WellFoundedInduction, TLAPS

-----------------------------------------------------------------------------
(* Induction, and the functions defined by it. *)

\* A set of numbers that is not empty has a least one.
LEMMA Least ==
  ASSUME NEW S \in SUBSET Nat, S # {}
  PROVE  \E m \in S : \A k \in S : m <= k
<1> DEFINE R == {ss \in Nat \X Nat : ss[1] < ss[2]}
<1>1. IsWellFoundedOn(R, Nat)
  BY NatLessThanWellFounded DEF OpToRel
<1>2. ASSUME NEW x \in Nat, NEW y \in Nat, y < x
      PROVE  <<y, x>> \in R
  BY <1>2
<1> HIDE DEF R
<1>3. PICK x \in S : \A y \in S : ~(<<y, x>> \in R)
  BY <1>1, WFMin
<1>4. \A y \in S : ~(y < x)
  BY <1>2, <1>3
<1>5. QED
  BY <1>4

\* The numbers up to n are in S if 0 is, and the next one of every member.
LEMMA Induct ==
  ASSUME NEW n \in Nat, NEW S, 0 \in S,
         \A k \in 0..(n - 1) : k \in S => k + 1 \in S
  PROVE  0..n \subseteq S
<1> DEFINE Out == {k \in 0..n : k \notin S}
<1> SUFFICES ASSUME Out # {} PROVE FALSE
  OBVIOUS
<1>1. Out \in SUBSET Nat
  OBVIOUS
<1>2. PICK m \in Out : \A k \in Out : m <= k
  <2> HIDE DEF Out
  <2>1. QED BY <1>1, Least
<1>3. m \in 1..n /\ m \notin S
  BY <1>2
<1>4. m - 1 \notin Out /\ m - 1 \in 0..(n - 1)
  BY <1>2, <1>3
<1>5. m - 1 \in S
  BY <1>4
<1>6. QED
  BY <1>3, <1>4, <1>5

\* f starts with base and takes each value up to the n-th from the one before.
Iterates(f, n, base, step) ==
  f = [k \in 0..n |-> IF k = 0 THEN base ELSE step[k][f[k - 1]]]

(***************************************************************************)
(* A function that starts with base and takes each value from the one      *)
(* before exists, and its k-th value is in Q[k] if every step leads from   *)
(* Q[k - 1] to Q[k].                                                       *)
(***************************************************************************)
LEMMA Recursion ==
  ASSUME NEW n \in Nat, NEW base, NEW step, NEW Q, base \in Q[0],
         \A k \in 1..n : \A x \in Q[k - 1] : step[k][x] \in Q[k]
  PROVE  /\ \E f : Iterates(f, n, base, step)
         /\ \A f : Iterates(f, n, base, step) => \A k \in 0..n : f[k] \in Q[k]
<1> DEFINE Is(f, m) == f = [k \in 0..m |-> IF k = 0 THEN base ELSE step[k][f[k - 1]]]
           S == {m \in Nat : \E f : Is(f, m)}
<1>1. 0 \in S
  <2> DEFINE f == [k \in 0..0 |-> base]
  <2>1. Is(f, 0)
    OBVIOUS
  <2>2. QED BY <2>1
<1>2. ASSUME NEW m \in Nat, m \in S PROVE m + 1 \in S
  <2>1. PICK f : Is(f, m)
    BY <1>2
  <2> DEFINE g == [k \in 0..(m + 1) |-> IF k = m + 1 THEN step[m + 1][f[m]] ELSE f[k]]
  <2>2. \A k \in 0..m : f[k] = IF k = 0 THEN base ELSE step[k][f[k - 1]]
    BY <2>1
  <2>3. \A k \in 0..m : g[k] = f[k]
    OBVIOUS
  <2>4. ASSUME NEW k \in 0..(m + 1)
        PROVE  g[k] = IF k = 0 THEN base ELSE step[k][g[k - 1]]
    <3>1. CASE k = m + 1
      <4>1. g[k - 1] = f[m] /\ g[k] = step[k][f[m]] /\ k # 0
        BY <3>1
      <4>2. QED BY <4>1
    <3>2. CASE k \in 0..m /\ k # 0
      <4>1. k - 1 \in 0..m
        BY <3>2
      <4>2. QED BY <2>2, <2>3, <3>2, <4>1
    <3>3. CASE k = 0
      BY <2>2, <2>3, <3>3
    <3>4. QED BY <3>1, <3>2, <3>3
  <2>5. g = [k \in 0..(m + 1) |-> g[k]]
    OBVIOUS
  <2>6. Is(g, m + 1)
    <3> HIDE DEF g
    <3>1. QED BY <2>4, <2>5
  <2>7. QED
    <3> HIDE DEF g, Is
    <3>1. QED BY <2>6
<1>3. n \in S
  <2> HIDE DEF S
  <2>1. 0..n \subseteq S
    BY <1>1, <1>2, Induct
  <2>2. QED BY <2>1
<1>4. ASSUME NEW f, Is(f, n) PROVE \A k \in 0..n : f[k] \in Q[k]
  <2> DEFINE T == {k \in 0..n : f[k] \in Q[k]}
  <2>1. 0 \in T
    BY <1>4
  <2>2. \A k \in 0..(n - 1) : k \in T => k + 1 \in T
    BY <1>4
  <2>3. 0..n \subseteq T
    <3> HIDE DEF T
    <3>1. QED BY <2>1, <2>2, Induct
  <2>4. QED BY <2>3
<1>5. QED
  BY <1>3, <1>4 DEF Iterates

-----------------------------------------------------------------------------
(* The sort. *)

\* above says of any two members of S which one stands higher.
StrictOrder(S, above) ==
  /\ \A x \in S : <<x, x>> \notin above
  /\ \A x, y \in S : x # y => <<x, y>> \in above \/ <<y, x>> \in above
  /\ \A x, y, z \in S :
       <<x, y>> \in above /\ <<y, z>> \in above => <<x, z>> \in above

\* A sequence that lists S, each member once.
Lists(s, S) ==
  /\ s \in Seq(S) /\ Len(s) = Cardinality(S)
  /\ \A x \in S : \E k \in 1..Len(s) : s[k] = x
  /\ \A j, k \in 1..Len(s) : s[j] = s[k] => j = k

\* The sorted table has every member once, and who stands higher comes first.
LEMMA RankedLists ==
  ASSUME NEW S, IsFiniteSet(S), NEW above, StrictOrder(S, above)
  PROVE  /\ Lists(Ranked(S, above), S)
         /\ \A j, k \in 1..Cardinality(S) :
              j < k => <<Ranked(S, above)[j], Ranked(S, above)[k]>> \in above
<1> DEFINE n == Cardinality(S)
           Over(x) == {y \in S : <<y, x>> \in above}
           c == [x \in S |-> Cardinality(Over(x))]
           at(k) == CHOOSE x \in S : Cardinality(Over(x)) = k - 1
           s == [k \in 1..n |-> at(k)]
<1>1. n \in Nat
  BY FS_CardinalityType
<1>2. ASSUME NEW x \in S
      PROVE  IsFiniteSet(Over(x)) /\ c[x] = Cardinality(Over(x)) /\ c[x] \in 0..(n - 1)
  <2>1. IsFiniteSet(Over(x)) /\ Cardinality(Over(x)) \in Nat
    BY FS_Subset, FS_CardinalityType
  <2>2. IsFiniteSet(S \ {x}) /\ Cardinality(S \ {x}) = n - 1
    BY FS_RemoveElement
  <2>3. Over(x) \subseteq S \ {x}
    BY DEF StrictOrder
  <2>4. Cardinality(Over(x)) <= n - 1
    <3>1. Over(x) \in SUBSET (S \ {x})
      BY <2>3
    <3> HIDE DEF Over
    <3>2. Cardinality(Over(x)) <= Cardinality(S \ {x})
      BY <2>2, <3>1, FS_Subset
    <3>3. QED BY <2>2, <3>2
  <2>5. QED BY <1>1, <2>1, <2>4
<1>3. ASSUME NEW x \in S, NEW y \in S, <<x, y>> \in above
      PROVE  c[x] < c[y]
  <2>1. x \notin Over(x)
    BY DEF StrictOrder
  <2>2. Over(x) \cup {x} \in SUBSET Over(y)
    BY <1>3 DEF StrictOrder
  <2>3. Cardinality(Over(x) \cup {x}) = Cardinality(Over(x)) + 1
    BY <1>2, <2>1, FS_AddElement
  <2>4. Cardinality(Over(x) \cup {x}) <= Cardinality(Over(y))
    BY <1>2, <2>2, FS_Subset
  <2>5. c[x] \in Int /\ c[y] \in Int
    BY <1>1, <1>2
  <2>6. QED BY <1>2, <2>3, <2>4, <2>5
<1>4. \A x, y \in S : c[x] = c[y] => x = y
  <2> SUFFICES ASSUME NEW x \in S, NEW y \in S, c[x] = c[y], x # y PROVE FALSE
    OBVIOUS
  <2>1. c[x] \in Int /\ c[y] \in Int
    BY <1>1, <1>2
  <2>2. <<x, y>> \in above \/ <<y, x>> \in above
    BY DEF StrictOrder
  <2> HIDE DEF c
  <2>3. c[x] < c[y] \/ c[y] < c[x]
    BY <1>3, <2>2
  <2>4. QED BY <2>1, <2>3
<1>5. c \in [S -> 0..(n - 1)]
  BY <1>2
<1>6. c \in Injection(S, 0..(n - 1))
  <2> HIDE DEF c
  <2>1. QED BY <1>4, <1>5 DEF Injection, IsInjective
<1>7. IsFiniteSet(0..(n - 1)) /\ Cardinality(0..(n - 1)) = n
  <2>1. 0 \in Int /\ n - 1 \in Int /\ n = (IF 0 > n - 1 THEN 0 ELSE n - 1 - 0 + 1)
    BY <1>1
  <2>2. \A m \in Int : /\ IsFiniteSet(0..m)
                       /\ Cardinality(0..m) = IF 0 > m THEN 0 ELSE m - 0 + 1
    BY FS_Interval
  <2>3. QED BY <2>1, <2>2
<1>8. c \in Surjection(S, 0..(n - 1))
  <2> HIDE DEF c
  <2>1. QED BY <1>6, <1>7, FS_Injection
<1>9. ASSUME NEW k \in 1..n PROVE s[k] \in S /\ c[s[k]] = k - 1
  <2>1. k - 1 \in 0..(n - 1)
    BY <1>1
  <2>2. \E x \in S : c[x] = k - 1
    <3> HIDE DEF c
    <3>1. QED BY <1>8, <2>1 DEF Surjection
  <2>3. \E x \in S : Cardinality(Over(x)) = k - 1
    BY <2>2, <1>2
  <2>4. s[k] \in S /\ Cardinality(Over(s[k])) = k - 1
    <3> HIDE DEF Over
    <3>1. QED BY <2>3
  <2>5. QED BY <2>4, <1>2
<1>10. Ranked(S, above) = <<>> \o s
  BY DEF Ranked
<1>11. s \in [1..n -> S]
  <2>1. \A k \in 1..n : at(k) \in S
    BY <1>9
  <2> HIDE DEF at
  <2>2. QED BY <2>1
<1> HIDE DEF s, c
<1>12. s \in Seq(S) /\ Len(s) = n
  BY <1>1, <1>11
<1>13. <<>> \o s = s
  BY <1>12
<1>14. ASSUME NEW x \in S PROVE \E k \in 1..n : s[k] = x
  <2>1. c[x] \in 0..(n - 1) /\ c[x] + 1 \in 1..n
    BY <1>1, <1>5
  <2>2. s[c[x] + 1] \in S /\ c[s[c[x] + 1]] = c[x]
    BY <1>1, <1>9, <2>1
  <2>3. QED BY <1>4, <2>1, <2>2
<1>15. ASSUME NEW j \in 1..n, NEW k \in 1..n, s[j] = s[k] PROVE j = k
  BY <1>1, <1>9, <1>15
<1>16. ASSUME NEW j \in 1..n, NEW k \in 1..n, j < k PROVE <<s[j], s[k]>> \in above
  <2>1. s[j] \in S /\ s[k] \in S /\ c[s[j]] = j - 1 /\ c[s[k]] = k - 1
    BY <1>9
  <2>2. s[j] # s[k] /\ ~(c[s[k]] < c[s[j]])
    BY <1>1, <1>16, <2>1
  <2>3. <<s[j], s[k]>> \in above \/ <<s[k], s[j]>> \in above
    BY <2>1, <2>2 DEF StrictOrder
  <2>4. QED BY <1>3, <2>1, <2>2, <2>3
<1>17. QED
  BY <1>10, <1>12, <1>13, <1>14, <1>15, <1>16 DEF Lists

-----------------------------------------------------------------------------
(* The pairing loop. *)

Distinct(s) == \A j, k \in 1..Len(s) : s[j] = s[k] => j = k

LEMMA MinInSet ==
  ASSUME NEW S \in SUBSET Nat, S # {}
  PROVE  Min(S) \in S /\ \A k \in S : Min(S) <= k
<1>1. \E m \in S : \A k \in S : m <= k
  BY Least
<1>2. QED
  BY <1>1 DEF Min

LEMMA WithoutFacts ==
  ASSUME NEW T, NEW s \in Seq(T), Distinct(s), NEW i \in 1..Len(s)
  PROVE  /\ Without(s, i) \in Seq(T) /\ Len(Without(s, i)) = Len(s) - 1
         /\ Distinct(Without(s, i))
         /\ RangeOf(Without(s, i)) = RangeOf(s) \ {s[i]}
         /\ \A k \in 1..(i - 1) : Without(s, i)[k] = s[k]
<1> DEFINE w == Without(s, i)
<1>1. w = [k \in 1..(Len(s) - 1) |-> IF k < i THEN s[k] ELSE s[k + 1]]
  BY DEF Without
<1>2. Len(s) - 1 \in Nat
  OBVIOUS
<1>3. \A k \in 1..(Len(s) - 1) : w[k] = (IF k < i THEN s[k] ELSE s[k + 1]) /\ w[k] \in T
  BY <1>1
<1>4. w \in [1..(Len(s) - 1) -> T]
  BY <1>1, <1>3
<1> HIDE DEF w
<1>5. w \in Seq(T) /\ Len(w) = Len(s) - 1
  BY <1>2, <1>4
<1>6. Distinct(w)
  BY <1>2, <1>3, <1>5 DEF Distinct
<1>7. ASSUME NEW x \in RangeOf(w) PROVE x \in RangeOf(s) \ {s[i]}
  <2>1. PICK k \in 1..(Len(s) - 1) : x = w[k]
    BY <1>5 DEF RangeOf
  <2>2. CASE k < i
    BY <1>3, <2>1, <2>2 DEF RangeOf, Distinct
  <2>3. CASE ~(k < i)
    <3>1. k + 1 \in 1..Len(s) /\ k + 1 # i /\ x = s[k + 1]
      BY <1>3, <2>1, <2>3
    <3>2. QED BY <3>1 DEF RangeOf, Distinct
  <2>4. QED BY <2>2, <2>3
<1>8. ASSUME NEW x \in RangeOf(s) \ {s[i]} PROVE x \in RangeOf(w)
  <2>1. PICK k \in 1..Len(s) : x = s[k] /\ k # i
    BY DEF RangeOf
  <2>2. CASE k < i
    BY <1>3, <1>5, <2>1, <2>2 DEF RangeOf
  <2>3. CASE k > i
    <3>1. k - 1 \in 1..(Len(s) - 1) /\ w[k - 1] = s[k]
      BY <1>3, <2>1, <2>3
    <3>2. QED BY <1>5, <2>1, <3>1 DEF RangeOf
  <2>4. QED BY <2>1, <2>2, <2>3
<1>9. \A k \in 1..(i - 1) : w[k] = s[k]
  BY <1>3
<1>10. QED
  BY <1>5, <1>6, <1>7, <1>8, <1>9 DEF w

LEMMA TailFacts ==
  ASSUME NEW T, NEW s \in Seq(T), Distinct(s), Len(s) > 0
  PROVE  /\ Tail(s) \in Seq(T) /\ Len(Tail(s)) = Len(s) - 1
         /\ Distinct(Tail(s))
         /\ RangeOf(Tail(s)) = RangeOf(s) \ {s[1]}
<1>1. /\ Tail(s) \in Seq(T) /\ Len(Tail(s)) = Len(s) - 1
      /\ \A k \in 1..(Len(s) - 1) : Tail(s)[k] = s[k + 1]
  OBVIOUS
<1>2. Distinct(Tail(s))
  BY <1>1 DEF Distinct
<1>3. ASSUME NEW x \in RangeOf(Tail(s)) PROVE x \in RangeOf(s) \ {s[1]}
  <2>1. PICK k \in 1..(Len(s) - 1) : x = s[k + 1]
    BY <1>1 DEF RangeOf
  <2>2. k + 1 \in 1..Len(s) /\ k + 1 # 1
    BY <2>1
  <2>3. QED BY <2>1, <2>2 DEF RangeOf, Distinct
<1>4. ASSUME NEW x \in RangeOf(s) \ {s[1]} PROVE x \in RangeOf(Tail(s))
  <2>1. PICK k \in 1..Len(s) : x = s[k] /\ k # 1
    BY DEF RangeOf
  <2>2. k - 1 \in 1..(Len(s) - 1) /\ Tail(s)[k - 1] = s[k]
    BY <1>1, <2>1
  <2>3. QED BY <1>1, <2>1, <2>2 DEF RangeOf
<1>5. QED
  BY <1>1, <1>2, <1>3, <1>4

LEMMA SeqOver ==
  ASSUME NEW T, NEW U, NEW s \in Seq(T), \A i \in 1..Len(s) : s[i] \in U
  PROVE  s \in Seq(U)
OBVIOUS

\* all is s, with u after it.
Joins(all, s, u) ==
  /\ Len(all) = Len(s) + Len(u)
  /\ \A i \in 1..Len(s) : all[i] = s[i]
  /\ \A i \in 1..Len(u) : all[Len(s) + i] = u[i]
  /\ \A i \in 1..(Len(s) + Len(u)) :
       i \in 1..Len(s) \/ \E k \in 1..Len(u) : i = Len(s) + k

LEMMA ConcatFacts ==
  ASSUME NEW T, NEW s \in Seq(T), NEW u \in Seq(T)
  PROVE  s \o u \in Seq(T) /\ Joins(s \o u, s, u)
<1>1. s \o u \in Seq(T) /\ Len(s \o u) = Len(s) + Len(u)
  OBVIOUS
<1>2. \A i \in 1..Len(s) : (s \o u)[i] = s[i]
  OBVIOUS
<1>3. \A i \in 1..Len(u) : (s \o u)[Len(s) + i] = u[i]
  OBVIOUS
<1>4. ASSUME NEW i \in 1..(Len(s) + Len(u)), i \notin 1..Len(s)
      PROVE  i - Len(s) \in 1..Len(u) /\ i = Len(s) + (i - Len(s))
  BY <1>4
<1>5. QED
  BY <1>1, <1>2, <1>3, <1>4 DEF Joins

\* A sequence without repetition is as long as its set is big.
LEMMA FieldSize ==
  ASSUME NEW T, NEW s \in Seq(T), Distinct(s)
  PROVE  IsFiniteSet(RangeOf(s)) /\ Cardinality(RangeOf(s)) = Len(s)
<1>1. s \in [1..Len(s) -> RangeOf(s)]
  BY DEF RangeOf
<1>2. s \in Bijection(1..Len(s), RangeOf(s))
  BY <1>1 DEF Bijection, Injection, Surjection, IsInjective, RangeOf, Distinct
<1>3. IsFiniteSet(1..Len(s)) /\ Cardinality(1..Len(s)) = Len(s)
  <2>1. Len(s) \in Nat
    OBVIOUS
  <2>2. \A n \in Nat : IsFiniteSet(1..n) /\ Cardinality(1..n) = n
    BY FS_Interval
  <2>3. QED BY <2>1, <2>2
<1>4. QED
  BY <1>2, <1>3, FS_Bijection DEF ExistsBijection

\* Pairings of the members of T.
Pairs(T) == [board : Nat, black : T, white : T]

Sits(pr, x) == pr.black = x \/ pr.white = x

\* Nobody sits at two boards, or on both sides of one.
OnceSeated(pairs) ==
  /\ \A i \in 1..Len(pairs) : pairs[i].black # pairs[i].white
  /\ \A i, j \in 1..Len(pairs) : \A x :
       Sits(pairs[i], x) /\ Sits(pairs[j], x) => i = j

\* At every board the player with fewer blacks so far has black.
ColoursFair(pairs, tally) ==
  \A i \in 1..Len(pairs) : ~IsBye(pairs[i]) =>
    tally[pairs[i].black].blacks <= tally[pairs[i].white].blacks

\* Board k of a field with h boards has a game of two who have met only if one of
\* them has met all who sit below.
Forced(pr, k, tally, h) ==
  ~IsBye(pr) /\ pr.white \in tally[pr.black].opponents
             /\ pr.black \in tally[pr.white].opponents
    => \E x \in {pr.black, pr.white} : IsFiniteSet(tally[x].opponents) =>
         2 * (h - k) < Cardinality(tally[x].opponents)

RematchesForced(pairs, tally, h) ==
  \A k \in 1..Len(pairs) : Forced(pairs[k], k, tally, h)

LoopState(T) == [left : Seq(T), paired : Seq(Pairs(T))]

(***************************************************************************)
(* After k turns of the loop over the members of T: 2k of them sit, at k   *)
(* boards with the colours they should have and no rematch that was not    *)
(* forced, and the others are left.                                        *)
(***************************************************************************)
AfterTurns(st, T, m, k, tally) ==
  /\ st \in LoopState(T)
  /\ Len(st.left) = m - 2 * k /\ Distinct(st.left)
  /\ Len(st.paired) = k /\ OnceSeated(st.paired) /\ ColoursFair(st.paired, tally)
  /\ RematchesForced(st.paired, tally, m \div 2)
  /\ \A x \in T : x \in RangeOf(st.left) <=> \A i \in 1..k : ~Sits(st.paired[i], x)

LEMMA PairOffStep ==
  ASSUME NEW T, NEW m \in Nat, NEW k \in Nat, 2 * (k + 1) <= m,
         NEW tally, \A x \in T : tally[x].blacks \in Int, NEW rating,
         NEW st, AfterTurns(st, T, m, k, tally)
  PROVE  AfterTurns(PairOff(st, tally, rating), T, m, k + 1, tally)
<1> DEFINE left == st.left
           met == tally[left[1]].opponents
           unmet == {j \in 2..Len(left) : left[j] \notin met}
           opp == IF unmet = {} THEN 2 ELSE Min(unmet)
           a == left[1]
           b == left[opp]
           colours == AssignColours(a, b, tally, rating)
           pr == [board |-> Len(st.paired) + 1, black |-> colours[1], white |-> colours[2]]
           rest == Tail(Without(left, opp))
           new == [left |-> rest, paired |-> Append(st.paired, pr)]
<1>1. PairOff(st, tally, rating) = new
  BY DEF PairOff
<1>2. /\ left \in Seq(T) /\ Len(left) = m - 2 * k /\ Distinct(left) /\ Len(left) >= 2
      /\ st.paired \in Seq(Pairs(T)) /\ Len(st.paired) = k /\ OnceSeated(st.paired)
      /\ ColoursFair(st.paired, tally) /\ RematchesForced(st.paired, tally, m \div 2)
      /\ \A x \in T : x \in RangeOf(left) <=> \A i \in 1..k : ~Sits(st.paired[i], x)
  <2>1. st \in LoopState(T) /\ Len(left) = m - 2 * k
    BY DEF AfterTurns
  <2>2. left \in Seq(T) /\ st.paired \in Seq(Pairs(T)) /\ Len(left) >= 2
    BY <2>1 DEF LoopState
  <2>3. QED BY <2>1, <2>2 DEF AfterTurns
<1> HIDE DEF left
<1>3. opp \in 2..Len(left)
  <2>1. unmet \in SUBSET Nat /\ unmet \subseteq 2..Len(left)
    BY <1>2
  <2> HIDE DEF unmet
  <2>2. CASE unmet = {}
    BY <1>2, <2>2
  <2>3. CASE unmet # {}
    BY <2>1, <2>3, MinInSet
  <2>4. QED BY <2>2, <2>3
<1>4. left[opp] \in met => \A j \in 2..Len(left) : left[j] \in met
  <2>1. ASSUME unmet # {} PROVE left[opp] \notin met
    <3>1. unmet \in SUBSET Nat
      BY <1>2
    <3> HIDE DEF unmet
    <3>2. opp \in unmet
      BY <2>1, <3>1, MinInSet
    <3>3. QED BY <3>2 DEF unmet
  <2>2. QED BY <2>1
<1> HIDE DEF opp
<1>5. /\ Without(left, opp) \in Seq(T) /\ Len(Without(left, opp)) = Len(left) - 1
      /\ Distinct(Without(left, opp))
      /\ RangeOf(Without(left, opp)) = RangeOf(left) \ {b}
      /\ Without(left, opp)[1] = a
  <2>1. opp \in 1..Len(left) /\ 1 \in 1..(opp - 1)
    BY <1>2, <1>3
  <2>2. left \in Seq(T) /\ Distinct(left)
    BY <1>2
  <2>3. QED BY <2>1, <2>2, WithoutFacts
<1>6. /\ rest \in Seq(T) /\ Len(rest) = m - 2 * (k + 1) /\ Distinct(rest)
      /\ RangeOf(rest) = RangeOf(left) \ {a, b}
  <2> DEFINE w == Without(left, opp)
  <2> HIDE DEF w
  <2>0. w \in Seq(T) /\ Distinct(w) /\ Len(w) > 0
    BY <1>2, <1>5 DEF w
  <2>1. /\ Tail(w) \in Seq(T) /\ Len(Tail(w)) = Len(w) - 1
        /\ Distinct(Tail(w)) /\ RangeOf(Tail(w)) = RangeOf(w) \ {w[1]}
    BY <2>0, TailFacts
  <2>2. Len(w) - 1 = m - 2 * (k + 1)
    BY <1>2, <1>5 DEF w
  <2>3. QED BY <1>5, <2>1, <2>2 DEF w
<1>7. a \in T /\ b \in T /\ a # b /\ a \in RangeOf(left) /\ b \in RangeOf(left)
  <2>1. 1 \in 1..Len(left) /\ opp \in 1..Len(left) /\ opp # 1
    BY <1>2, <1>3
  <2>2. a \in T /\ b \in T
    BY <1>2, <2>1
  <2>3. a # b
    BY <1>2, <2>1 DEF Distinct
  <2>4. a \in RangeOf(left) /\ b \in RangeOf(left)
    BY <2>1 DEF RangeOf
  <2>5. QED BY <2>2, <2>3, <2>4
<1> HIDE DEF rest, a, b
<1>8. /\ pr \in Pairs(T) /\ pr.black # pr.white
      /\ \A x : Sits(pr, x) <=> x \in {a, b}
      /\ tally[pr.black].blacks <= tally[pr.white].blacks
      /\ Forced(pr, k + 1, tally, m \div 2)
  <2>1. \/ colours = <<a, b>> /\ tally[a].blacks <= tally[b].blacks
        \/ colours = <<b, a>> /\ tally[b].blacks <= tally[a].blacks
    <3>1. tally[a].blacks \in Int /\ tally[b].blacks \in Int
      BY <1>7
    <3>2. QED BY <3>1 DEF AssignColours
  <2>2. \/ pr.black = a /\ pr.white = b /\ tally[a].blacks <= tally[b].blacks
        \/ pr.black = b /\ pr.white = a /\ tally[b].blacks <= tally[a].blacks
    <3> HIDE DEF colours
    <3>1. QED BY <2>1
  <2>3. pr = [board |-> pr.board, black |-> pr.black, white |-> pr.white] /\ pr.board \in Nat
    BY <1>2
  <2> HIDE DEF pr
  <2>4. ASSUME b \in tally[a].opponents, IsFiniteSet(tally[a].opponents)
        PROVE  2 * ((m \div 2) - (k + 1)) < Cardinality(tally[a].opponents)
    <3>1. RangeOf(left) \ {a} \in SUBSET tally[a].opponents
      BY <1>4, <2>4 DEF RangeOf, a, b
    <3>2. IsFiniteSet(RangeOf(left)) /\ Cardinality(RangeOf(left)) = Len(left)
      BY <1>2, FieldSize
    <3>3. Cardinality(RangeOf(left) \ {a}) = Len(left) - 1
      BY <1>7, <3>2, FS_RemoveElement
    <3>4. Len(left) - 1 <= Cardinality(tally[a].opponents)
      BY <2>4, <3>1, <3>3, FS_Subset
    <3>5. Cardinality(tally[a].opponents) \in Nat /\ Len(left) = m - 2 * k
      BY <1>2, <2>4, FS_CardinalityType
    <3>6. QED BY <3>4, <3>5
  <2>5. Forced(pr, k + 1, tally, m \div 2)
    BY <2>2, <2>4 DEF Forced
  <2>6. QED BY <1>7, <2>2, <2>3, <2>5 DEF Pairs, Sits
<1> HIDE DEF pr
<1> DEFINE all == Append(st.paired, pr)
<1>9. /\ all \in Seq(Pairs(T)) /\ Len(all) = k + 1 /\ all[k + 1] = pr
      /\ \A i \in 1..k : all[i] = st.paired[i]
  BY <1>2, <1>8
<1> HIDE DEF all
<1>10. \A i \in 1..k : ~Sits(st.paired[i], a) /\ ~Sits(st.paired[i], b)
  BY <1>2, <1>7
<1>11. OnceSeated(all)
  <2>1. \A i \in 1..(k + 1) : all[i].black # all[i].white
    <3>1. TAKE i \in 1..(k + 1)
    <3>2. CASE i = k + 1
      BY <1>8, <1>9, <3>2
    <3>3. CASE i \in 1..k
      BY <1>2, <1>9, <3>3 DEF OnceSeated
    <3>4. QED BY <3>2, <3>3
  <2>2. ASSUME NEW i \in 1..(k + 1), NEW j \in 1..(k + 1), NEW x,
               Sits(all[i], x), Sits(all[j], x)
        PROVE  i = j
    <3>1. CASE i \in 1..k /\ j \in 1..k
      BY <1>2, <1>9, <2>2, <3>1 DEF OnceSeated
    <3>2. CASE i = k + 1 /\ j \in 1..k
      BY <1>8, <1>9, <1>10, <2>2, <3>2
    <3>3. CASE j = k + 1 /\ i \in 1..k
      BY <1>8, <1>9, <1>10, <2>2, <3>3
    <3>4. CASE i = k + 1 /\ j = k + 1
      BY <3>4
    <3>5. QED BY <3>1, <3>2, <3>3, <3>4
  <2>3. QED BY <1>9, <2>1, <2>2 DEF OnceSeated
<1>12. ASSUME NEW x \in T
       PROVE  x \in RangeOf(rest) <=> \A i \in 1..(k + 1) : ~Sits(all[i], x)
  <2>1. (\A i \in 1..(k + 1) : ~Sits(all[i], x))
          <=> (\A i \in 1..k : ~Sits(st.paired[i], x)) /\ ~Sits(pr, x)
    <3>1. 1..(k + 1) = 1..k \cup {k + 1}
      OBVIOUS
    <3>2. QED BY <1>9, <3>1
  <2>2. QED BY <1>2, <1>6, <1>8, <2>1
<1>13. ColoursFair(all, tally)
  <2>1. ASSUME NEW i \in 1..(k + 1), ~IsBye(all[i])
        PROVE  tally[all[i].black].blacks <= tally[all[i].white].blacks
    <3>1. CASE i = k + 1
      BY <1>8, <1>9, <3>1
    <3>2. CASE i \in 1..k
      BY <1>2, <1>9, <2>1, <3>2 DEF ColoursFair
    <3>3. QED BY <3>1, <3>2
  <2>2. QED BY <1>9, <2>1 DEF ColoursFair
<1>14. RematchesForced(all, tally, m \div 2)
  <2>1. ASSUME NEW i \in 1..(k + 1) PROVE Forced(all[i], i, tally, m \div 2)
    <3>1. CASE i = k + 1
      BY <1>8, <1>9, <3>1
    <3>2. CASE i \in 1..k
      BY <1>2, <1>9, <3>2 DEF RematchesForced
    <3>3. QED BY <3>1, <3>2
  <2>2. QED BY <1>9, <2>1 DEF RematchesForced
<1>15. new.left = rest /\ new.paired = all /\ new \in LoopState(T)
  BY <1>6, <1>9 DEF all, LoopState
<1> HIDE DEF new
<1>16. QED
  BY <1>1, <1>6, <1>9, <1>11, <1>12, <1>13, <1>15, <1>14 DEF AfterTurns

-----------------------------------------------------------------------------
(* A McMahon round. *)

LEMMA PlaceFacts ==
  ASSUME NEW T, NEW ids \in Seq(T), NEW p \in RangeOf(ids)
  PROVE  PlaceIn(ids, p) \in 1..Len(ids) /\ ids[PlaceIn(ids, p)] = p
BY DEF PlaceIn, RangeOf

\* What a player scores is a number.
LEMMA ScoreType ==
  ASSUME NEW ids, NEW start, NEW results, Len(results) \in Nat,
         NEW p \in RangeOf(ids), start[p] \in Int
  PROVE  Tally(ids, start, results)[p].score \in Int
<1> DEFINE mine == Of(results, RangeOf(ids), p)
           played == {i \in mine : ~IsBye(results[i])}
           wins == {i \in played : (results[i].winner = results[i].black)
                                      = (results[i].black = p)}
<1>1. Tally(ids, start, results)[p].score = start[p] + Points(wins, played, mine)
  BY DEF Tally
<1>2. IsFiniteSet(1..Len(results))
  BY FS_Interval
<1>3. mine \in SUBSET (1..Len(results)) /\ wins \in SUBSET (1..Len(results))
        /\ mine \ played \in SUBSET (1..Len(results))
  BY DEF Of
<1> HIDE DEF mine, played, wins
<1>4. Cardinality(wins) \in Nat /\ Cardinality(mine \ played) \in Nat
  BY <1>2, <1>3, FS_Subset, FS_CardinalityType
<1>5. Points(wins, played, mine) \in Nat
  BY <1>4 DEF Points, ByePoints
<1>6. QED
  BY <1>1, <1>5

\* The blacks of a player are counted.
LEMMA BlacksType ==
  ASSUME NEW ids, NEW start, NEW results, Len(results) \in Nat, NEW p \in RangeOf(ids)
  PROVE  Tally(ids, start, results)[p].blacks \in Int
<1> DEFINE games == {i \in Of(results, RangeOf(ids), p) : ~IsBye(results[i])}
           mine == {i \in games : results[i].black = p}
<1>1. Tally(ids, start, results)[p].blacks = Cardinality(mine)
  BY DEF Tally
<1>2. mine \in SUBSET (1..Len(results)) /\ IsFiniteSet(1..Len(results))
  BY FS_Interval DEF Of
<1> HIDE DEF mine
<1>3. Cardinality(mine) \in Nat
  BY <1>2, FS_Subset, FS_CardinalityType
<1>4. QED
  BY <1>1, <1>3

LEMMA SortListsField ==
  ASSUME NEW T, NEW ids \in Seq(T), Distinct(ids), NEW tally, NEW rating,
         \A p \in RangeOf(ids) : tally[p].score \in Int /\ rating[p] \in Int
  PROVE  Lists(SortStandings(ids, tally, rating), RangeOf(ids))
<1> DEFINE R == RangeOf(ids)
           row(p) == [id |-> p, score |-> tally[p].score, rating |-> rating[p],
                      place |-> PlaceIn(ids, p)]
           rows == {row(p) : p \in R}
           Above(x, y) ==
             \/ x.score > y.score
             \/ x.score = y.score /\ x.rating > y.rating
             \/ x.score = y.score /\ x.rating = y.rating /\ x.place < y.place
           above == {<<pr[1].id, pr[2].id>> :
                       pr \in {pq \in rows \X rows : Above(pq[1], pq[2])}}
<1>1. SortStandings(ids, tally, rating) = Ranked(R, above)
  BY DEF SortStandings
<1>2. ASSUME NEW p \in R, NEW q \in R
      PROVE  <<p, q>> \in above <=> Above(row(p), row(q))
  <2>1. ASSUME <<p, q>> \in above PROVE Above(row(p), row(q))
    <3>1. PICK pr \in rows \X rows : Above(pr[1], pr[2]) /\ <<p, q>> = <<pr[1].id, pr[2].id>>
      BY <2>1
    <3>2. PICK x \in R, y \in R : pr[1] = row(x) /\ pr[2] = row(y)
      BY <3>1
    <3>3. x = p /\ y = q
      BY <3>1, <3>2
    <3>4. QED BY <3>1, <3>2, <3>3
  <2>2. ASSUME Above(row(p), row(q)) PROVE <<p, q>> \in above
    <3>1. <<row(p), row(q)>> \in {pq \in rows \X rows : Above(pq[1], pq[2])}
      BY <2>2
    <3>2. row(p).id = p /\ row(q).id = q
      OBVIOUS
    <3> HIDE DEF row, rows, Above
    <3>3. QED BY <3>1, <3>2
  <2>3. QED BY <2>1, <2>2
<1> HIDE DEF above
<1>3. ASSUME NEW p \in R
      PROVE  tally[p].score \in Int /\ rating[p] \in Int /\ PlaceIn(ids, p) \in Int
  BY PlaceFacts
<1>4. ASSUME NEW p \in R, NEW q \in R, PlaceIn(ids, p) = PlaceIn(ids, q)
      PROVE  p = q
  BY <1>4, PlaceFacts
<1>5. ASSUME NEW p \in R, NEW q \in R
      PROVE  <<p, q>> \in above <=>
               \/ tally[p].score > tally[q].score
               \/ tally[p].score = tally[q].score /\ rating[p] > rating[q]
               \/ /\ tally[p].score = tally[q].score /\ rating[p] = rating[q]
                  /\ PlaceIn(ids, p) < PlaceIn(ids, q)
  BY <1>2
<1>6. StrictOrder(R, above)
  <2> HIDE DEF R
  <2>1. \A x \in R : <<x, x>> \notin above
    BY <1>3, <1>5
  <2>2. ASSUME NEW x \in R, NEW y \in R, x # y
        PROVE  <<x, y>> \in above \/ <<y, x>> \in above
    <3>1. /\ tally[x].score \in Int /\ tally[y].score \in Int
          /\ rating[x] \in Int /\ rating[y] \in Int
          /\ PlaceIn(ids, x) \in Int /\ PlaceIn(ids, y) \in Int
          /\ PlaceIn(ids, x) # PlaceIn(ids, y)
      BY <1>3, <1>4, <2>2
    <3>2. CASE tally[x].score # tally[y].score
      BY <1>5, <3>1, <3>2
    <3>3. CASE tally[x].score = tally[y].score /\ rating[x] # rating[y]
      BY <1>5, <3>1, <3>3
    <3>4. CASE tally[x].score = tally[y].score /\ rating[x] = rating[y]
      BY <1>5, <3>1, <3>4
    <3>5. QED BY <3>2, <3>3, <3>4
  <2>3. ASSUME NEW x \in R, NEW y \in R, NEW z \in R,
               <<x, y>> \in above, <<y, z>> \in above
        PROVE  <<x, z>> \in above
    <3>1. /\ tally[x].score >= tally[y].score /\ tally[y].score >= tally[z].score
          /\ tally[x].score = tally[y].score => rating[x] >= rating[y]
          /\ tally[y].score = tally[z].score => rating[y] >= rating[z]
          /\ tally[x].score = tally[y].score /\ rating[x] = rating[y]
               => PlaceIn(ids, x) < PlaceIn(ids, y)
          /\ tally[y].score = tally[z].score /\ rating[y] = rating[z]
               => PlaceIn(ids, y) < PlaceIn(ids, z)
      <4>1. /\ tally[x].score \in Int /\ tally[y].score \in Int /\ tally[z].score \in Int
            /\ rating[x] \in Int /\ rating[y] \in Int /\ rating[z] \in Int
        BY <1>3
      <4>2. <<x, y>> \in above <=> \/ tally[x].score > tally[y].score
                                   \/ tally[x].score = tally[y].score /\ rating[x] > rating[y]
                                   \/ /\ tally[x].score = tally[y].score
                                      /\ rating[x] = rating[y]
                                      /\ PlaceIn(ids, x) < PlaceIn(ids, y)
        BY <1>5
      <4>3. <<y, z>> \in above <=> \/ tally[y].score > tally[z].score
                                   \/ tally[y].score = tally[z].score /\ rating[y] > rating[z]
                                   \/ /\ tally[y].score = tally[z].score
                                      /\ rating[y] = rating[z]
                                      /\ PlaceIn(ids, y) < PlaceIn(ids, z)
        BY <1>5
      <4>4. QED BY <2>3, <4>1, <4>2, <4>3
    <3>2. QED BY <1>3, <1>5, <3>1
  <2>4. QED BY <2>1, <2>2, <2>3 DEF StrictOrder
<1>7. IsFiniteSet(R)
  BY FieldSize
<1>8. QED
  BY <1>1, <1>6, <1>7, RankedLists

\* The loop of McMahonRound.
Turns(free, tally, rating) ==
  CHOOSE f : f = [k \in 0..(Len(free) \div 2) |->
    IF k = 0 THEN [left |-> free, paired |-> <<>>]
             ELSE PairOff(f[k - 1], tally, rating)]

AllPaired(free, tally, rating) == Turns(free, tally, rating)[Len(free) \div 2].paired

\* The loop seats everybody, at one board each, with the right colours.
LEMMA LoopSeats ==
  ASSUME NEW T, NEW free \in Seq(T), Distinct(free), RangeOf(free) = T,
         Len(free) % 2 = 0, NEW tally, \A x \in T : tally[x].blacks \in Int, NEW rating
  PROVE  LET paired == AllPaired(free, tally, rating)
         IN  /\ paired \in Seq(Pairs(T)) /\ Len(paired) = Len(free) \div 2
             /\ OnceSeated(paired) /\ ColoursFair(paired, tally)
             /\ RematchesForced(paired, tally, Len(free) \div 2)
             /\ \A x \in T : \E i \in 1..Len(paired) : Sits(paired[i], x)
<1> DEFINE m == Len(free)
           after == Turns(free, tally, rating)
           n == m \div 2
           base == [left |-> free, paired |-> <<>>]
           step == [k \in 1..n |-> [st \in LoopState(T) |-> PairOff(st, tally, rating)]]
           Q == [k \in 0..n |-> {st \in LoopState(T) : AfterTurns(st, T, m, k, tally)}]
           Loop(f) == f = [k \in 0..n |-> IF k = 0 THEN base
                                                  ELSE PairOff(f[k - 1], tally, rating)]
<1>1. m \in Nat /\ n \in Nat /\ m = 2 * n
  OBVIOUS
<1>2. after = CHOOSE f : Loop(f)
  BY DEF Turns
<1>3. base \in LoopState(T) /\ AfterTurns(base, T, m, 0, tally)
  <2>1. base.left = free /\ base.paired = <<>> /\ <<>> \in Seq(Pairs(T)) /\ Len(<<>>) = 0
    OBVIOUS
  <2>2. base \in LoopState(T)
    BY <2>1 DEF LoopState
  <2> HIDE DEF base
  <2>3. QED BY <1>1, <2>1, <2>2 DEF AfterTurns, OnceSeated, ColoursFair, RematchesForced
<1>4. base \in Q[0]
  <2>1. 0 \in 0..n
    BY <1>1
  <2> HIDE DEF base, n, m
  <2>2. QED BY <1>3, <2>1
<1>5. ASSUME NEW k \in 1..n, NEW st \in Q[k - 1]
      PROVE  st \in LoopState(T) /\ PairOff(st, tally, rating) \in Q[k]
  <2>1. k - 1 \in 0..n /\ k \in 0..n /\ k - 1 \in Nat /\ (k - 1) + 1 = k /\ 2 * k <= m
    BY <1>1
  <2> HIDE DEF n, m
  <2>2. st \in LoopState(T) /\ AfterTurns(st, T, m, k - 1, tally)
    BY <2>1
  <2>3. AfterTurns(PairOff(st, tally, rating), T, m, k, tally)
    BY <1>1, <2>1, <2>2, PairOffStep
  <2>4. PairOff(st, tally, rating) \in LoopState(T)
    BY <2>3 DEF AfterTurns
  <2>5. QED BY <2>1, <2>2, <2>3, <2>4
<1>6. \A k \in 1..n : \A st \in Q[k - 1] :
        step[k][st] = PairOff(st, tally, rating) /\ step[k][st] \in Q[k]
  <2> HIDE DEF n, Q
  <2>1. QED BY <1>5
<1> HIDE DEF n, m, base, step, Q, after
<1>7. /\ \E f : Iterates(f, n, base, step)
      /\ \A f : Iterates(f, n, base, step) => \A k \in 0..n : f[k] \in Q[k]
  <2>1. \A k \in 1..n : \A st \in Q[k - 1] : step[k][st] \in Q[k]
    BY <1>6
  <2>2. QED BY <1>1, <1>4, <2>1, Recursion
<1>8. ASSUME NEW f, Iterates(f, n, base, step) PROVE Loop(f)
  <2>1. \A k \in 0..n : f[k] \in Q[k]
    BY <1>7, <1>8
  <2>2. \A k \in 1..n : k - 1 \in 0..n /\ k # 0
    BY <1>1
  <2>3. \A k \in 1..n : step[k][f[k - 1]] = PairOff(f[k - 1], tally, rating)
    BY <1>6, <2>1, <2>2
  <2>4. \A k \in 0..n : k = 0 \/ k \in 1..n
    BY <1>1
  <2>5. QED BY <1>8, <2>3, <2>4 DEF Iterates
<1>9. Loop(after)
  <2>1. \E f : Loop(f)
    BY <1>7, <1>8
  <2> HIDE DEF Loop
  <2>2. QED BY <1>2, <2>1
<1>10. \A k \in 0..n : after[k] \in Q[k]
  <2> DEFINE S == {k \in 0..n : after[k] \in Q[k]}
  <2>1. 0 \in S
    <3>1. 0 \in 0..n
      BY <1>1
    <3>2. after[0] = base
      BY <1>9, <3>1
    <3>3. QED BY <1>4, <3>1, <3>2
  <2>2. ASSUME NEW k \in 0..(n - 1), k \in S PROVE k + 1 \in S
    <3>1. k + 1 \in 1..n /\ k + 1 \in 0..n /\ k + 1 # 0 /\ (k + 1) - 1 = k
      BY <1>1
    <3>2. after[k + 1] = PairOff(after[k], tally, rating)
      BY <1>9, <3>1
    <3>3. after[k] \in Q[(k + 1) - 1]
      BY <2>2, <3>1
    <3>4. PairOff(after[k], tally, rating) \in Q[k + 1]
      BY <1>6, <3>1, <3>3
    <3>5. QED BY <3>1, <3>2, <3>4
  <2>3. 0..n \subseteq S
    <3> HIDE DEF S
    <3>1. QED BY <1>1, <2>1, <2>2, Induct
  <2>4. QED BY <2>3
<1>11. after[n] \in LoopState(T) /\ AfterTurns(after[n], T, m, n, tally)
  <2>1. n \in 0..n
    BY <1>1
  <2>2. QED BY <1>10, <2>1 DEF Q
<1>12. /\ after[n].paired \in Seq(Pairs(T)) /\ Len(after[n].paired) = n
       /\ OnceSeated(after[n].paired) /\ ColoursFair(after[n].paired, tally)
       /\ RematchesForced(after[n].paired, tally, m \div 2)
       /\ Len(after[n].left) = 0
  BY <1>1, <1>11 DEF AfterTurns, LoopState
<1>13. RangeOf(after[n].left) = {}
  BY <1>12 DEF RangeOf
<1>14. \A x \in T : \E i \in 1..n : Sits(after[n].paired[i], x)
  BY <1>11, <1>13 DEF AfterTurns
<1>15. QED
  BY <1>12, <1>14 DEF n, m, after, AllPaired

\* The boards of a field: white of a bye is the ghost.
BoardsOf(R) == [board : Nat, black : R, white : R \cup {Ghost}]

LEMMA PairsAreBoards ==
  ASSUME NEW R, NEW U \in SUBSET R, NEW pr \in Pairs(U)
  PROVE  pr \in BoardsOf(R)
<1>1. pr = [board |-> pr.board, black |-> pr.black, white |-> pr.white]
  BY DEF Pairs
<1>2. pr.board \in Nat /\ pr.black \in R /\ pr.white \in R \cup {Ghost}
  BY DEF Pairs
<1>3. QED
  BY <1>1, <1>2 DEF BoardsOf

\* Everybody of R sits at exactly one board.
FullRound(pairs, R) ==
  /\ pairs \in Seq(BoardsOf(R))
  /\ OnceSeated(pairs)
  /\ \A x \in R : \E i \in 1..Len(pairs) : Sits(pairs[i], x)

\* A bye is only for an odd field, and a second one only for a player of a
\* field in which everybody had one.
ByeIsFair(pairs, tally, R) ==
  \A i \in 1..Len(pairs) : IsBye(pairs[i]) =>
    /\ Cardinality(R) % 2 = 1
    /\ tally[pairs[i].black].hadBye => \A q \in R : tally[q].hadBye

(***************************************************************************)
(* McMahonRound seats every player of the field at exactly one board,      *)
(* whatever the results, the scores and the ratings, gives the bye to a    *)
(* player who had none while there is one, black to the player of the two  *)
(* who had it less often, and has a rematch only where one of the two has  *)
(* met all who sit below.                                                  *)
(***************************************************************************)
THEOREM McMahonSeatsAll ==
  ASSUME NEW T, NEW ids \in Seq(T), Distinct(ids), Len(ids) >= 2,
         Ghost \notin RangeOf(ids), NEW start, NEW rating, NEW results,
         Len(results) \in Nat,
         \A p \in RangeOf(ids) : start[p] \in Int /\ rating[p] \in Int
  PROVE  /\ FullRound(McMahonRound(ids, start, rating, results), RangeOf(ids))
         /\ ByeIsFair(McMahonRound(ids, start, rating, results),
                      Tally(ids, start, results), RangeOf(ids))
         /\ ColoursFair(McMahonRound(ids, start, rating, results),
                        Tally(ids, start, results))
         /\ RematchesForced(McMahonRound(ids, start, rating, results),
                            Tally(ids, start, results), Len(ids) \div 2)
<1> DEFINE R == RangeOf(ids)
           tally == Tally(ids, start, results)
           ordered == SortStandings(ids, tally, rating)
           n == Len(ordered)
           odd == n % 2 = 1
           bye == ByeIndex(ordered, tally)
           free == IF odd THEN Without(ordered, bye) ELSE ordered
           paired == AllPaired(free, tally, rating)
           last == [board |-> 0, black |-> ordered[bye], white |-> Ghost]
           round == McMahonRound(ids, start, rating, results)
<1>1. round = IF odd THEN Append(paired, last) ELSE paired
  BY DEF McMahonRound, AllPaired, Turns
<1>2. /\ ordered \in Seq(R) /\ n = Len(ids) /\ n \in Nat /\ n >= 2
      /\ Distinct(ordered) /\ RangeOf(ordered) = R /\ Cardinality(R) = n
      /\ \A p \in R : tally[p].blacks \in Int
  <2>0. \A p \in R : tally[p].blacks \in Int
    BY BlacksType
  <2>1. \A p \in R : tally[p].score \in Int
    BY ScoreType
  <2> HIDE DEF tally
  <2>2. Lists(ordered, R) /\ Cardinality(R) = Len(ids) /\ Len(ids) \in Nat
    BY <2>1, SortListsField, FieldSize
  <2> HIDE DEF ordered
  <2>3. ordered \in Seq(R) /\ n = Len(ids) /\ Distinct(ordered)
    BY <2>2 DEF Lists, Distinct
  <2>4. RangeOf(ordered) = R
    <3>1. \A x \in R : \E k \in 1..n : ordered[k] = x
      BY <2>2 DEF Lists
    <3>2. \A k \in 1..n : ordered[k] \in R
      BY <2>3
    <3> HIDE DEF R
    <3>3. QED BY <3>1, <3>2 DEF RangeOf
  <2>5. QED BY <2>0, <2>2, <2>3, <2>4
<1> HIDE DEF ordered, tally
<1>3. /\ bye \in 1..n
      /\ tally[ordered[bye]].hadBye => \A i \in 1..n : tally[ordered[i]].hadBye
  <2> DEFINE byes == {i \in 1..n : ~tally[ordered[i]].hadBye}
  <2>1. CASE byes = {}
    BY <1>2, <2>1 DEF ByeIndex
  <2>2. CASE byes # {}
    <3>1. \E i \in byes : \A k \in byes : i >= k
      <4> DEFINE Above == {n - i : i \in byes}
      <4>1. Above \in SUBSET Nat /\ Above # {}
        BY <1>2, <2>2
      <4>2. PICK a \in Above : \A k \in Above : a <= k
        <5> HIDE DEF Above
        <5>1. QED BY <4>1, Least
      <4>3. PICK i \in byes : a = n - i
        BY <4>2
      <4>4. ASSUME NEW k \in byes PROVE i >= k
        <5>1. n - i <= n - k
          BY <4>2, <4>3
        <5>2. QED BY <1>2, <5>1
      <4>5. QED BY <4>4
    <3>2. Max(byes) \in byes
      BY <3>1 DEF Max
    <3>3. QED BY <2>2, <3>2 DEF ByeIndex
  <2>4. QED BY <2>1, <2>2
<1> HIDE DEF bye
<1>4. CASE ~odd
  <2>1. free = ordered /\ round = paired
    BY <1>1, <1>4
  <2>2. Len(free) % 2 = 0
    BY <1>2, <1>4, <2>1
  <2> HIDE DEF free, round
  <2>3. /\ paired \in Seq(Pairs(R)) /\ OnceSeated(paired) /\ ColoursFair(paired, tally)
        /\ RematchesForced(paired, tally, Len(free) \div 2)
        /\ \A x \in R : \E i \in 1..Len(paired) : Sits(paired[i], x)
    <3>1. free \in Seq(R) /\ Distinct(free) /\ RangeOf(free) = R
      BY <1>2, <2>1
    <3> HIDE DEF R
    <3>2. QED BY <1>2, <2>2, <3>1, LoopSeats
  <2> HIDE DEF paired, R
  <2>4. \A i \in 1..Len(paired) : paired[i] \in BoardsOf(R)
    <3>1. \A i \in 1..Len(paired) : paired[i] \in Pairs(R)
      BY <2>3
    <3>2. R \in SUBSET R
      OBVIOUS
    <3>3. QED BY <3>1, <3>2, PairsAreBoards
  <2>5. paired \in Seq(BoardsOf(R))
    BY <2>3, <2>4, SeqOver
  <2>6. FullRound(paired, R)
    BY <2>3, <2>5 DEF FullRound
  <2>7. \A i \in 1..Len(paired) : ~IsBye(paired[i])
    <3>1. TAKE i \in 1..Len(paired)
    <3>2. paired[i] \in Pairs(R)
      BY <2>3
    <3>3. paired[i].white \in R
      BY <3>2 DEF Pairs
    <3>4. QED BY <3>3 DEF IsBye, R
  <2>8. ByeIsFair(paired, tally, R)
    BY <2>7 DEF ByeIsFair
  <2>9. RematchesForced(paired, tally, Len(ids) \div 2)
    BY <1>2, <2>1, <2>3
  <2>10. QED BY <2>1, <2>3, <2>6, <2>8, <2>9 DEF R, round, tally
<1>5. CASE odd
  <2> DEFINE b == ordered[bye]
             U == R \ {b}
  <2>1. free = Without(ordered, bye) /\ round = Append(paired, last)
    BY <1>1, <1>5
  <2>2. b \in R
    BY <1>2, <1>3
  <2>3. /\ free \in Seq(R) /\ Len(free) = n - 1 /\ Distinct(free)
        /\ RangeOf(free) = U
    <3> HIDE DEF R, free
    <3>1. bye \in 1..Len(ordered)
      BY <1>3
    <3>2. /\ Without(ordered, bye) \in Seq(R)
          /\ Len(Without(ordered, bye)) = Len(ordered) - 1
          /\ Distinct(Without(ordered, bye))
          /\ RangeOf(Without(ordered, bye)) = RangeOf(ordered) \ {ordered[bye]}
      BY <1>2, <3>1, WithoutFacts
    <3>3. QED BY <1>2, <2>1, <3>2
  <2> HIDE DEF free, round, b
  <2>4. free \in Seq(U) /\ Len(free) % 2 = 0
    <3>1. \A i \in 1..Len(free) : free[i] \in U
      BY <2>3 DEF RangeOf
    <3> HIDE DEF U
    <3>2. free \in Seq(U)
      BY <2>3, <3>1, SeqOver
    <3>3. \A k \in Nat : k % 2 = 1 => (k - 1) % 2 = 0
      OBVIOUS
    <3>4. Len(free) % 2 = 0
      BY <1>2, <1>5, <2>3, <3>3
    <3>5. QED BY <3>2, <3>4
  <2>5. /\ paired \in Seq(Pairs(U)) /\ OnceSeated(paired) /\ ColoursFair(paired, tally)
        /\ RematchesForced(paired, tally, Len(free) \div 2)
        /\ \A x \in U : \E i \in 1..Len(paired) : Sits(paired[i], x)
    <3>0. \A x \in U : tally[x].blacks \in Int
      BY <1>2
    <3> HIDE DEF U
    <3>1. QED BY <2>3, <2>4, <3>0, LoopSeats
  <2> HIDE DEF paired
  <2> DEFINE P == BoardsOf(R)
             k == Len(paired)
             all == Append(paired, last)
  <2>6. \A i \in 1..k : paired[i] \in P
    <3>1. \A i \in 1..k : paired[i] \in Pairs(U)
      BY <2>5
    <3>2. U \in SUBSET R
      OBVIOUS
    <3> HIDE DEF U, R
    <3>3. QED BY <3>1, <3>2, PairsAreBoards
  <2>7. last \in P /\ last.black = b /\ last.white = Ghost
    BY <2>2 DEF b, BoardsOf
  <2>8. paired \in Seq(P) /\ k \in Nat
    <3> HIDE DEF P, U
    <3>1. QED BY <2>5, <2>6, SeqOver
  <2>9. ASSUME NEW i \in 1..k, NEW x, Sits(paired[i], x)
        PROVE  x \in U /\ x # b /\ x # Ghost
    <3>1. paired[i] \in Pairs(U)
      BY <2>5
    <3>2. x \in U
      BY <2>9, <3>1 DEF Pairs, Sits
    <3>3. QED BY <3>2
  <2> HIDE DEF U, P, last, R
  <2>10. /\ all \in Seq(P) /\ Len(all) = k + 1 /\ all[k + 1] = last
         /\ \A i \in 1..k : all[i] = paired[i]
    BY <2>7, <2>8
  <2> HIDE DEF all
  <2>11. OnceSeated(all)
    <3>1. \A i \in 1..(k + 1) : all[i].black # all[i].white
      <4>1. TAKE i \in 1..(k + 1)
      <4>2. CASE i = k + 1
        BY <2>2, <2>7, <2>10, <4>2 DEF R
      <4>3. CASE i \in 1..k
        BY <2>5, <2>10, <4>3 DEF OnceSeated
      <4>4. QED BY <2>8, <4>2, <4>3
    <3>2. ASSUME NEW i \in 1..(k + 1), NEW j \in 1..(k + 1), NEW x,
                 Sits(all[i], x), Sits(all[j], x)
          PROVE  i = j
      <4>1. CASE i \in 1..k /\ j \in 1..k
        BY <2>5, <2>10, <3>2, <4>1 DEF OnceSeated
      <4>2. Sits(last, x) => x \in {b, Ghost}
        BY <2>7 DEF Sits
      <4>3. CASE i = k + 1 /\ j \in 1..k
        BY <2>9, <2>10, <3>2, <4>2, <4>3
      <4>4. CASE j = k + 1 /\ i \in 1..k
        BY <2>9, <2>10, <3>2, <4>2, <4>4
      <4>5. QED BY <2>8, <4>1, <4>3, <4>4
    <3>3. QED BY <2>10, <3>1, <3>2 DEF OnceSeated
  <2>12. ASSUME NEW x \in R PROVE \E i \in 1..(k + 1) : Sits(all[i], x)
    <3>1. CASE x = b
      <4>1. Sits(all[k + 1], x) /\ k + 1 \in 1..(k + 1)
        BY <2>7, <2>8, <2>10, <3>1 DEF Sits
      <4>2. QED BY <4>1
    <3>2. CASE x # b
      <4>1. PICK i \in 1..k : Sits(paired[i], x)
        BY <2>5, <3>2 DEF U
      <4>2. i \in 1..(k + 1)
        BY <2>8
      <4>3. QED BY <2>10, <4>1, <4>2
    <3>3. QED BY <3>1, <3>2
  <2>13. FullRound(all, R)
    BY <2>10, <2>11, <2>12 DEF FullRound, P
  <2>14. ASSUME NEW i \in 1..(k + 1), IsBye(all[i]), tally[all[i].black].hadBye, NEW q \in R
         PROVE  tally[q].hadBye
    <3>1. i = k + 1
      <4>1. ASSUME i \in 1..k PROVE FALSE
        <5>1. Sits(paired[i], Ghost)
          BY <2>10, <2>14, <4>1 DEF Sits, IsBye
        <5>2. QED BY <2>9, <4>1, <5>1
      <4>2. QED BY <2>8, <4>1
    <3>2. all[i].black = ordered[bye]
      BY <2>7, <2>10, <3>1 DEF b
    <3>3. q \in RangeOf(ordered)
      BY <1>2 DEF R
    <3>4. PICK j \in 1..n : q = ordered[j]
      BY <3>3 DEF RangeOf
    <3>5. QED BY <1>3, <2>14, <3>2, <3>4
  <2>15. ByeIsFair(all, tally, R)
    BY <1>2, <1>5, <2>10, <2>14 DEF ByeIsFair, R
  <2>16. ASSUME NEW i \in 1..(k + 1), ~IsBye(all[i])
         PROVE  tally[all[i].black].blacks <= tally[all[i].white].blacks
    <3>1. i \in 1..k
      BY <2>7, <2>8, <2>10, <2>16 DEF IsBye
    <3>2. QED BY <2>5, <2>10, <2>16, <3>1 DEF ColoursFair
  <2>17. ColoursFair(all, tally)
    BY <2>10, <2>16 DEF ColoursFair
  <2>18. RematchesForced(all, tally, Len(ids) \div 2)
    <3>1. Len(free) \div 2 = Len(ids) \div 2
      <4>1. \A i \in Nat : i % 2 = 1 => (i - 1) \div 2 = i \div 2
        OBVIOUS
      <4>2. QED BY <1>2, <1>5, <2>3, <4>1
    <3>2. ASSUME NEW i \in 1..(k + 1) PROVE Forced(all[i], i, tally, Len(ids) \div 2)
      <4>1. CASE i \in 1..k
        BY <2>5, <2>10, <3>1, <4>1 DEF RematchesForced
      <4>2. CASE i = k + 1
        BY <2>7, <2>10, <4>2 DEF Forced, IsBye
      <4>3. QED BY <2>8, <4>1, <4>2
    <3>3. QED BY <2>10, <3>2 DEF RematchesForced
  <2>19. QED BY <2>1, <2>13, <2>15, <2>17, <2>18 DEF all, R, round, tally
<1>6. QED
  BY <1>4, <1>5

-----------------------------------------------------------------------------
(* Starting scores and the number of rounds. *)

LEMMA MaxInSet ==
  ASSUME NEW S \in SUBSET Nat, S # {}, IsFiniteSet(S)
  PROVE  Max(S) \in S /\ \A k \in S : k <= Max(S)
<1> DEFINE above == {xy \in S \X S : xy[1] > xy[2]}
           s == Ranked(S, above)
<1>1. \A x, y \in S : <<x, y>> \in above <=> x > y
  OBVIOUS
<1> HIDE DEF above
<1>2. StrictOrder(S, above)
  BY <1>1 DEF StrictOrder
<1>3. /\ Lists(s, S)
      /\ \A j, k \in 1..Cardinality(S) : j < k => <<s[j], s[k]>> \in above
  BY <1>2, RankedLists
<1> HIDE DEF s
<1>4. /\ s \in Seq(S) /\ Len(s) = Cardinality(S)
      /\ \A x \in S : \E k \in 1..Len(s) : s[k] = x
  BY <1>3 DEF Lists
<1>5. Len(s) \in Nat /\ Len(s) > 0 /\ 1 \in 1..Len(s) /\ s[1] \in S
  <2>1. PICK x \in S : TRUE
    OBVIOUS
  <2>2. PICK k \in 1..Len(s) : s[k] = x
    BY <1>4, <2>1
  <2>3. Len(s) \in Nat
    BY <1>4
  <2>4. 1 \in 1..Len(s)
    BY <2>2, <2>3
  <2>5. QED BY <1>4, <2>3, <2>4
<1>6. ASSUME NEW x \in S PROVE s[1] >= x
  <2>1. PICK k \in 1..Len(s) : s[k] = x
    BY <1>4
  <2>2. CASE k = 1
    BY <1>5, <2>1, <2>2
  <2>3. CASE 1 < k
    <3>1. 1 \in 1..Cardinality(S) /\ k \in 1..Cardinality(S)
      BY <1>4, <1>5, <2>1
    <3>2. <<s[1], s[k]>> \in above
      BY <1>3, <2>3, <3>1
    <3>3. s[1] > x
      BY <1>1, <1>5, <2>1, <3>2
    <3>4. s[1] \in Nat /\ x \in Nat
      BY <1>5
    <3>5. QED BY <3>3, <3>4
  <2>4. QED BY <1>5, <2>1, <2>2, <2>3
<1>7. \E m \in S : \A k \in S : m >= k
  BY <1>5, <1>6
<1>8. Max(S) \in S /\ \A k \in S : Max(S) >= k
  BY <1>7 DEF Max
<1>9. QED
  BY <1>8

\* The starting scores of a field without a bar are natural numbers.
LEMMA StartScoresType ==
  ASSUME NEW T, NEW ids \in Seq(T), Distinct(ids), Len(ids) > 0, NEW rank,
         \A p \in RangeOf(ids) : rank[p] \in Nat
  PROVE  StartScores(ids, rank, 0) \in [RangeOf(ids) -> Nat]
<1> DEFINE R == RangeOf(ids)
           ranks == {rank[p] : p \in R}
           f == [p \in R |-> rank[p]]
<1>1. IsFiniteSet(R) /\ ids[1] \in R
  BY FieldSize DEF RangeOf
<1>2. ranks \in SUBSET Nat /\ ranks # {}
  BY <1>1
<1>3. f \in Surjection(R, ranks)
  BY DEF Surjection
<1>4. IsFiniteSet(ranks)
  <2> HIDE DEF f, ranks, R
  <2>1. QED BY <1>1, <1>3, FS_Surjection
<1>5. /\ Max(ranks) \in Nat /\ Min(ranks) \in Nat /\ Min(ranks) <= Max(ranks)
      /\ \A k \in ranks : Min(ranks) <= k
  <2> HIDE DEF ranks
  <2>1. QED BY <1>2, <1>4, MaxInSet, MinInSet
<1>6. StartScores(ids, rank, 0) =
        [p \in R |-> (IF rank[p] > Max(ranks) THEN Max(ranks) ELSE rank[p]) - Min(ranks)]
  BY DEF StartScores
<1>7. \A p \in R : rank[p] \in ranks
  OBVIOUS
<1> HIDE DEF ranks
<1>8. \A p \in R :
        (IF rank[p] > Max(ranks) THEN Max(ranks) ELSE rank[p]) - Min(ranks) \in Nat
  BY <1>5, <1>7
<1>9. QED
  BY <1>6, <1>8

\* The number of rounds suggested for a field of two or more is positive.
LEMMA SuggestedRoundsType ==
  ASSUME NEW n \in Nat, n >= 2
  PROVE  SuggestedRounds(n) \in Nat /\ SuggestedRounds(n) >= 1
<1> DEFINE Q == [k \in 0..n |-> {x \in Nat : x >= k + 1}]
           step == [k \in 1..n |-> [x \in Nat |-> 2 * x]]
           is(f) == f = [k \in 0..n |-> IF k = 0 THEN 1 ELSE 2 * f[k - 1]]
           twoTo == CHOOSE f : is(f)
           big(f) == {k \in 0..n : f[k] >= n}
<1>1. 1 \in Q[0] /\ \A k \in 1..n : \A x \in Q[k - 1] : step[k][x] \in Q[k]
  <2>1. 1 \in Q[0]
    OBVIOUS
  <2>2. ASSUME NEW k \in 1..n, NEW x \in Q[k - 1] PROVE step[k][x] \in Q[k]
    <3>1. k - 1 \in 0..n /\ k \in 0..n
      OBVIOUS
    <3>2. x \in Nat /\ x >= k
      BY <3>1
    <3>3. step[k][x] = 2 * x
      BY <3>2
    <3>4. QED BY <3>1, <3>2, <3>3
  <2> HIDE DEF Q, step
  <2>3. QED BY <2>1, <2>2
<1> HIDE DEF Q, step
<1>2. PICK f : Iterates(f, n, 1, step)
  BY <1>1, Recursion
<1>3. \A k \in 0..n : f[k] \in Q[k]
  BY <1>1, <1>2, Recursion
<1>4. f = [k \in 0..n |-> IF k = 0 THEN 1 ELSE step[k][f[k - 1]]]
  BY <1>2 DEF Iterates
<1>5. \A k \in 1..n : f[k - 1] \in Nat
  BY <1>3 DEF Q
<1>6. \A k \in 1..n : step[k][f[k - 1]] = 2 * f[k - 1]
  BY <1>5 DEF step
<1>7. is(f)
  <2>1. \A k \in 0..n : k = 0 \/ k \in 1..n
    OBVIOUS
  <2>2. QED BY <1>4, <1>6, <2>1
<1>8. is(twoTo)
  BY <1>7
<1> HIDE DEF twoTo
<1>9. \A k \in 0..n : twoTo[k] = f[k]
  <2> DEFINE S == {k \in 0..n : twoTo[k] = f[k]}
  <2>1. 0 \in S
    BY <1>7, <1>8
  <2>2. \A k \in 0..(n - 1) : k \in S => k + 1 \in S
    <3>1. ASSUME NEW k \in 0..(n - 1), k \in S PROVE k + 1 \in S
      <4>1. k + 1 \in 0..n /\ k + 1 # 0 /\ (k + 1) - 1 = k
        OBVIOUS
      <4>2. twoTo[k + 1] = 2 * twoTo[k] /\ f[k + 1] = 2 * f[k]
        BY <1>7, <1>8, <4>1
      <4>3. QED BY <3>1, <4>1, <4>2
    <3>2. QED BY <3>1
  <2> HIDE DEF S
  <2>3. 0..n \subseteq S
    BY <2>1, <2>2, Induct
  <2>4. QED BY <2>3 DEF S
<1>10. twoTo[n] \in Nat /\ twoTo[n] >= n + 1
  BY <1>3, <1>9 DEF Q
<1>11. n \in big(twoTo) /\ big(twoTo) \in SUBSET Nat
  BY <1>10
<1> HIDE DEF big
<1>12. Min(big(twoTo)) \in Nat
  BY <1>11, MinInSet
<1> DEFINE log == Min(big(twoTo))
           most == IF log + 1 > n - 1 THEN n - 1 ELSE log + 1
<1>13. SuggestedRounds(n) = IF n < 2 THEN 0 ELSE IF most < 1 THEN 1 ELSE most
  BY DEF SuggestedRounds, twoTo, big
<1>14. QED
  BY <1>12, <1>13

-----------------------------------------------------------------------------
(* Arithmetic of the circle. *)

\* The length of the table of a field of k.
Even(k) == IF k % 2 = 1 THEN k + 1 ELSE k

\* The seat (place at the start) of whoever is at place i after r rotations.
Index(k, r, i) ==
  IF i = 1 THEN 1 ELSE IF i - r >= 2 THEN i - r ELSE i - r + Even(k) - 1

\* The place of seat u after r rotations.
Place(k, r, u) ==
  IF u = 1 THEN 1 ELSE IF u + r <= Even(k) THEN u + r ELSE u + r - (Even(k) - 1)

\* The table has an even number of seats, the ghost's being the last.
LEMMA EvenFacts ==
  ASSUME NEW k \in Nat, k >= 2
  PROVE  /\ Even(k) \in Nat /\ Even(k) >= 2
         /\ Even(k) = 2 * (Even(k) \div 2)
         /\ Even(k) \div 2 \in Nat
         /\ k % 2 = 1 => Even(k) = k + 1
         /\ k % 2 # 1 => Even(k) = k
BY DEF Even

\* A rotation takes the seats to the next rotation's.
LEMMA IndexStep ==
  ASSUME NEW n \in Nat, n >= 2, NEW k, Even(k) = n,
         NEW r \in Nat, r < n - 1, NEW i \in 1..n
  PROVE  /\ i = 1 => Index(k, r + 1, i) = Index(k, r, 1)
         /\ i = 2 => Index(k, r + 1, i) = Index(k, r, n)
         /\ i > 2 => Index(k, r + 1, i) = Index(k, r, i - 1)
BY DEF Index

\* Places and seats are in one-to-one correspondence.
LEMMA IndexPlace ==
  ASSUME NEW n \in Nat, n >= 2, NEW k, Even(k) = n,
         NEW r \in Nat, r < n
  PROVE  /\ \A i \in 1..n : Index(k, r, i) \in 1..n /\ Place(k, r, Index(k, r, i)) = i
         /\ \A u \in 1..n : Place(k, r, u) \in 1..n /\ Index(k, r, Place(k, r, u)) = u
BY DEF Index, Place

Fits(k, n, r) ==
  \A u \in 1..n : Place(k, r, u) \in 1..n /\ Index(k, r, Place(k, r, u)) = u

LEMMA PlaceFits ==
  ASSUME NEW n \in Nat, n >= 2, NEW k, Even(k) = n,
         NEW r \in Nat, r < n
  PROVE  Fits(k, n, r)
BY IndexPlace DEF Fits

\* The two seats of one board, with the round: 1 and n-r, or a known sum.
LEMMA BoardSum ==
  ASSUME NEW n \in Nat, n >= 2, NEW k, Even(k) = n,
         NEW r \in Nat, r < n - 1, NEW i \in 1..n
  PROVE  LET u == Index(k, r, i)
             v == Index(k, r, n + 1 - i)
         IN  /\ i = 1 => u = 1 /\ v = n - r
             /\ i = n => v = 1 /\ u = n - r
             /\ i # 1 /\ i # n =>
                  /\ u > 1 /\ v > 1
                  /\ u + v + 2 * r \in {n + 1, 2 * n, 3 * n - 1}
BY DEF Index

\* Two seats face each other in one round only.
LEMMA OneRound ==
  ASSUME NEW h \in Nat, NEW n \in Nat, n = 2 * h, n >= 2, NEW k, Even(k) = n,
         NEW q \in Nat, q < n - 1, NEW r \in Nat, r < n - 1,
         NEW i \in 1..n, NEW j \in 1..n,
         Index(k, q, i) = Index(k, r, j),
         Index(k, q, n + 1 - i) = Index(k, r, n + 1 - j)
  PROVE  q = r
<1> DEFINE u == Index(k, q, i)
           v == Index(k, q, n + 1 - i)
<1>1. u \in Int /\ v \in Int
  <2>1. n + 1 - i \in 1..n
    OBVIOUS
  <2> QED BY <2>1, IndexPlace
<1>2. /\ i = 1 => u = 1 /\ v = n - q
      /\ i = n => v = 1 /\ u = n - q
      /\ i # 1 /\ i # n => /\ u > 1 /\ v > 1
                           /\ u + v + 2 * q \in {n + 1, 2 * n, 3 * n - 1}
  BY BoardSum
<1>3. /\ j = 1 => u = 1 /\ v = n - r
      /\ j = n => v = 1 /\ u = n - r
      /\ j # 1 /\ j # n => /\ u > 1 /\ v > 1
                           /\ u + v + 2 * r \in {n + 1, 2 * n, 3 * n - 1}
  BY BoardSum
<1> HIDE DEF u, v
<1>4. CASE i = 1 \/ i = n
  BY <1>1, <1>2, <1>3, <1>4
<1>5. CASE i # 1 /\ i # n
  <2>1. j # 1 /\ j # n
    BY <1>1, <1>2, <1>3, <1>5
  <2>2. u + v + 2 * q \in {n + 1, 2 * n, 3 * n - 1}
    BY <1>2, <1>5
  <2>3. u + v + 2 * r \in {n + 1, 2 * n, 3 * n - 1}
    BY <1>3, <2>1
  <2> QED BY <1>1, <2>2, <2>3
<1> QED BY <1>4, <1>5

\* Two seats face each other in some round.
LEMMA SomeRound ==
  ASSUME NEW h \in Nat, NEW n \in Nat, n = 2 * h, n >= 2, NEW k, Even(k) = n,
         NEW u \in 1..n, NEW v \in 1..n, u # v
  PROVE  \E r \in 0..(n - 2) : Place(k, r, u) + Place(k, r, v) = n + 1
<1>1. CASE u = 1
  <2>1. n - v \in 0..(n - 2)
    BY <1>1
  <2>2. Place(k, n - v, u) + Place(k, n - v, v) = n + 1
    BY <1>1, <2>1 DEF Place
  <2> QED BY <2>1, <2>2
<1>2. CASE v = 1
  <2>1. n - u \in 0..(n - 2)
    BY <1>2
  <2>2. Place(k, n - u, u) + Place(k, n - u, v) = n + 1
    BY <1>2, <2>1 DEF Place
  <2> QED BY <2>1, <2>2
<1>3. CASE u # 1 /\ v # 1
  <2>1. PICK a \in Nat : u + v = 2 * a \/ u + v = 2 * a + 1
    <3>1. u + v = 2 * ((u + v) \div 2) \/ u + v = 2 * ((u + v) \div 2) + 1
      OBVIOUS
    <3>2. (u + v) \div 2 \in Nat
      OBVIOUS
    <3> QED BY <3>1, <3>2
  <2>2. CASE u + v = 2 * a
    <3>1. n - a \in 0..(n - 2)
      BY <1>3, <2>2
    <3>2. Place(k, n - a, u) + Place(k, n - a, v) = n + 1
      BY <1>3, <2>2, <3>1 DEF Place
    <3> QED BY <3>1, <3>2
  <2>3. CASE u + v = 2 * a + 1 /\ a <= h
    <3>1. h - a \in 0..(n - 2)
      BY <1>3, <2>3
    <3>2. Place(k, h - a, u) + Place(k, h - a, v) = n + 1
      BY <1>3, <2>3, <3>1 DEF Place
    <3> QED BY <3>1, <3>2
  <2>4. CASE u + v = 2 * a + 1 /\ a > h
    <3>1. n + h - 1 - a \in 0..(n - 2)
      BY <1>3, <2>4
    <3>2. Place(k, n + h - 1 - a, u) + Place(k, n + h - 1 - a, v) = n + 1
      BY <1>3, <2>4, <3>1 DEF Place
    <3> QED BY <3>1, <3>2
  <2> QED BY <2>1, <2>2, <2>3, <2>4
<1> QED BY <1>1, <1>2, <1>3

\* The same three facts of a field of k.
LEMMA FieldPlaces ==
  ASSUME NEW k \in Nat, k >= 2, NEW r \in Nat, r < Even(k)
  PROVE  /\ \A i \in 1..Even(k) : /\ Index(k, r, i) \in 1..Even(k)
                                  /\ Place(k, r, Index(k, r, i)) = i
         /\ \A u \in 1..Even(k) : /\ Place(k, r, u) \in 1..Even(k)
                                  /\ Index(k, r, Place(k, r, u)) = u
<1> DEFINE n == Even(k)
<1>1. n \in Nat /\ n >= 2 /\ Even(k) = n
  BY EvenFacts
<1> HIDE DEF n
<1>2. r < n
  BY <1>1
<1> QED BY <1>1, <1>2, IndexPlace

LEMMA FieldOneRound ==
  ASSUME NEW k \in Nat, k >= 2,
         NEW q \in Nat, q < Even(k) - 1, NEW r \in Nat, r < Even(k) - 1,
         NEW i \in 1..Even(k), NEW j \in 1..Even(k),
         Index(k, q, i) = Index(k, r, j),
         Index(k, q, Even(k) + 1 - i) = Index(k, r, Even(k) + 1 - j)
  PROVE  q = r
<1> DEFINE n == Even(k)
           h == n \div 2
<1>1. n \in Nat /\ n >= 2 /\ h \in Nat /\ n = 2 * h /\ Even(k) = n
  BY EvenFacts
<1> HIDE DEF n, h
<1> QED BY <1>1, OneRound

LEMMA FieldSomeRound ==
  ASSUME NEW k \in Nat, k >= 2,
         NEW u \in 1..Even(k), NEW v \in 1..Even(k), u # v
  PROVE  \E r \in 0..(Even(k) - 2) : Place(k, r, u) + Place(k, r, v) = Even(k) + 1
<1> DEFINE n == Even(k)
           h == n \div 2
<1>1. n \in Nat /\ n >= 2 /\ h \in Nat /\ n = 2 * h /\ Even(k) = n
  BY EvenFacts
<1> HIDE DEF n, h
<1> QED BY <1>1, SomeRound

-----------------------------------------------------------------------------
(* The rounds of a round robin. *)

LEMMA RotateFacts ==
  ASSUME NEW T, NEW arr \in Seq(T), Distinct(arr)
  PROVE  /\ Rotate(arr) \in Seq(T) /\ Len(Rotate(arr)) = Len(arr)
         /\ Distinct(Rotate(arr)) /\ RangeOf(Rotate(arr)) = RangeOf(arr)
<1> DEFINE n == Len(arr)
           from(k) == IF k = 1 THEN 1 ELSE IF k = 2 THEN n ELSE k - 1
           w == Rotate(arr)
<1>1. n \in Nat
  OBVIOUS
<1>2. CASE n <= 2
  BY <1>2 DEF Rotate
<1>3. CASE n > 2
  <2>1. w = [k \in 1..n |-> arr[from(k)]]
    <3>1. w = [k \in 1..n |-> CASE k = 1 -> arr[1]
                                [] k = 2 -> arr[n]
                                [] OTHER -> arr[k - 1]]
      BY <1>1, <1>3 DEF Rotate
    <3>2. ASSUME NEW k \in 1..n
          PROVE  (CASE k = 1 -> arr[1] [] k = 2 -> arr[n] [] OTHER -> arr[k - 1])
                   = arr[from(k)]
      <4>1. CASE k = 1
        BY <4>1
      <4>2. CASE k = 2
        BY <4>2
      <4>3. CASE k # 1 /\ k # 2
        BY <4>3
      <4>4. QED BY <4>1, <4>2, <4>3
    <3>3. QED BY <3>1, <3>2
  <2>2. \A k \in 1..n : from(k) \in 1..n
    BY <1>1, <1>3
  <2>3. \A j, k \in 1..n : from(j) = from(k) => j = k
    BY <1>1, <1>3
  <2>4. ASSUME NEW i \in 1..n PROVE \E k \in 1..n : from(k) = i
    <3>1. CASE i = 1
      BY <1>1, <1>3, <3>1
    <3>2. CASE i = n
      <4>1. 2 \in 1..n /\ from(2) = n
        BY <1>1, <1>3
      <4>2. QED BY <3>2, <4>1
    <3>3. CASE i # 1 /\ i # n
      <4>1. i + 1 \in 1..n /\ from(i + 1) = i
        BY <1>1, <1>3, <3>3
      <4>2. QED BY <4>1
    <3>4. QED BY <3>1, <3>2, <3>3
  <2> HIDE DEF from, w
  <2>5. \A k \in 1..n : w[k] = arr[from(k)] /\ w[k] \in T
    BY <2>1, <2>2
  <2>6. w \in Seq(T) /\ Len(w) = n
    <3>1. w \in [1..n -> T]
      BY <2>1, <2>5
    <3>2. QED BY <1>1, <3>1
  <2>7. Distinct(w)
    BY <2>2, <2>3, <2>5, <2>6 DEF Distinct
  <2>8. \A x : x \in RangeOf(w) <=> \E k \in 1..n : x = arr[from(k)]
    BY <2>5, <2>6 DEF RangeOf
  <2>9. \A x : x \in RangeOf(arr) <=> \E i \in 1..n : x = arr[i]
    BY DEF RangeOf
  <2>10. RangeOf(w) = RangeOf(arr)
    BY <2>2, <2>4, <2>8, <2>9
  <2>11. QED BY <2>6, <2>7, <2>10 DEF w
<1>4. QED
  BY <1>1, <1>2, <1>3

\* A table of a round robin for the players of R: with the ghost if they are odd.
TableOf(R, arr) ==
  /\ arr \in Seq(R \cup {Ghost}) /\ Len(arr) % 2 = 0
  /\ Distinct(arr) /\ R \subseteq RangeOf(arr)

LEMMA SeatsFacts ==
  ASSUME NEW T, NEW ids \in Seq(T), Distinct(ids), Ghost \notin RangeOf(ids)
  PROVE  TableOf(RangeOf(ids), Seats(ids))
<1> DEFINE R == RangeOf(ids)
           n == Len(ids)
           arr == Seats(ids)
<1>1. n \in Nat /\ \A i \in 1..n : ids[i] \in R
  BY DEF RangeOf
<1>2. \A x \in R : \E i \in 1..n : ids[i] = x
  BY DEF RangeOf
<1>3. ids \in Seq(R \cup {Ghost})
  <2> HIDE DEF R
  <2>1. QED BY <1>1, SeqOver
<1>4. CASE n % 2 = 1
  <2>1. arr = Append(ids, Ghost)
    BY <1>4 DEF Seats
  <2> HIDE DEF arr
  <2>2. /\ arr \in Seq(R \cup {Ghost}) /\ Len(arr) = n + 1 /\ arr[n + 1] = Ghost
        /\ \A i \in 1..n : arr[i] = ids[i]
    <3> HIDE DEF R
    <3>1. QED BY <1>3, <2>1
  <2>3. (n + 1) % 2 = 0
    BY <1>1, <1>4
  <2>4. ASSUME NEW j \in 1..(n + 1), NEW k \in 1..(n + 1), arr[j] = arr[k]
        PROVE  j = k
    <3>1. CASE j \in 1..n /\ k \in 1..n
      BY <2>2, <2>4, <3>1 DEF Distinct
    <3>2. CASE j \in 1..n /\ k = n + 1
      BY <1>1, <2>2, <2>4, <3>2
    <3>3. CASE k \in 1..n /\ j = n + 1
      BY <1>1, <2>2, <2>4, <3>3
    <3>4. CASE j = n + 1 /\ k = n + 1
      BY <3>4
    <3>5. QED BY <1>1, <3>1, <3>2, <3>3, <3>4
  <2>5. R \subseteq RangeOf(arr)
    <3>1. ASSUME NEW x \in R PROVE x \in RangeOf(arr)
      <4>1. PICK i \in 1..n : ids[i] = x
        BY <1>2
      <4>2. i \in 1..Len(arr) /\ arr[i] = x
        BY <1>1, <2>2, <4>1
      <4>3. QED BY <4>2 DEF RangeOf
    <3>2. QED BY <3>1
  <2>6. QED BY <2>2, <2>3, <2>4, <2>5 DEF TableOf, Distinct, arr
<1>5. CASE n % 2 # 1
  <2>1. arr = ids
    BY <1>5 DEF Seats
  <2>2. n % 2 = 0
    BY <1>1, <1>5
  <2>3. QED BY <1>3, <2>1, <2>2 DEF TableOf
<1>6. QED
  BY <1>4, <1>5

LEMMA RotateTable ==
  ASSUME NEW R, NEW arr, TableOf(R, arr)
  PROVE  TableOf(R, Rotate(arr))
BY RotateFacts DEF TableOf

\* Board i of a table has the two who sit opposite, black a player.
LEMMA BoardSeats ==
  ASSUME NEW R, NEW arr, TableOf(R, arr), Ghost \notin R, NEW r \in Nat,
         NEW i \in 1..(Len(arr) \div 2)
  PROVE  /\ i \in 1..Len(arr) /\ Opposite(arr, i) \in 1..Len(arr)
         /\ LayBoard(arr, r, i) \in BoardsOf(R)
         /\ LayBoard(arr, r, i).black # LayBoard(arr, r, i).white
         /\ \A x : Sits(LayBoard(arr, r, i), x) <=>
                     x = arr[i] \/ x = arr[Opposite(arr, i)]
<1> DEFINE n == Len(arr)
           o == Opposite(arr, i)
           a == arr[i]
           b == arr[o]
           pr == LayBoard(arr, r, i)
           c == Cardinality({j \in 1..i : ~HasGhost(arr, j)})
<1>1. n \in Nat /\ arr \in Seq(R \cup {Ghost}) /\ Distinct(arr) /\ n % 2 = 0
  BY DEF TableOf
<1>2. /\ i \in 1..n /\ o \in 1..n /\ i # o
  BY <1>1 DEF Opposite
<1>3. a \in R \cup {Ghost} /\ b \in R \cup {Ghost} /\ a # b
  BY <1>1, <1>2 DEF Distinct
<1>4. c \in Nat
  <2>1. i \in Nat
    BY <1>2, <1>1
  <2>2. IsFiniteSet(1..i)
    <3>1. \A m \in Nat : IsFiniteSet(1..m)
      BY FS_Interval
    <3>2. QED BY <2>1, <3>1
  <2>3. {j \in 1..i : ~HasGhost(arr, j)} \subseteq 1..i
    OBVIOUS
  <2>4. QED BY <2>2, <2>3, FS_Subset, FS_CardinalityType
<1> HIDE DEF c
<1>5. CASE HasGhost(arr, i)
  <2>1. pr = [board |-> 0, black |-> IF a = Ghost THEN b ELSE a, white |-> Ghost]
    BY <1>5 DEF LayBoard
  <2>2. a = Ghost \/ b = Ghost
    BY <1>5 DEF HasGhost
  <2> HIDE DEF a, b, o, pr
  <2>3. pr \in BoardsOf(R) /\ pr.black # pr.white
    BY <1>3, <2>1, <2>2 DEF BoardsOf
  <2>4. \A x : Sits(pr, x) <=> x = a \/ x = b
    BY <1>3, <2>1, <2>2 DEF Sits
  <2>5. QED BY <1>2, <2>3, <2>4 DEF a, b, o, pr
<1>6. CASE ~HasGhost(arr, i)
  <2>1. pr = [board |-> c, black |-> IF r % 2 = 1 THEN b ELSE a,
              white |-> IF r % 2 = 1 THEN a ELSE b]
    BY <1>6 DEF LayBoard, c
  <2>2. a # Ghost /\ b # Ghost
    BY <1>6 DEF HasGhost
  <2> HIDE DEF a, b, o, pr
  <2>3. pr \in BoardsOf(R) /\ pr.black # pr.white
    BY <1>3, <1>4, <2>1, <2>2 DEF BoardsOf
  <2>4. \A x : Sits(pr, x) <=> x = a \/ x = b
    BY <1>3, <2>1, <2>2 DEF Sits
  <2>5. QED BY <1>2, <2>3, <2>4 DEF a, b, o, pr
<1>7. QED
  BY <1>5, <1>6

\* The players of arr at board i and opposite sit there, and nobody else.
BoardHolds(arr, r, i) ==
  \A z : Sits(LayBoard(arr, r, i), z) <=> z = arr[i] \/ z = arr[Opposite(arr, i)]

LEMMA BoardHoldsTwo ==
  ASSUME NEW R, NEW arr, TableOf(R, arr), Ghost \notin R, NEW r \in Nat,
         NEW i \in 1..(Len(arr) \div 2)
  PROVE  BoardHolds(arr, r, i)
BY BoardSeats DEF BoardHolds

\* A round laid from a table has everybody at exactly one board.
LEMMA LayRoundFull ==
  ASSUME NEW R, NEW arr, TableOf(R, arr), Ghost \notin R, NEW r \in Nat
  PROVE  FullRound(LayRound(arr, r), R)
<1> DEFINE n == Len(arr)
           h == n \div 2
           pairs == LayRound(arr, r)
           Opp(i) == Opposite(arr, i)
<1>1. n \in Nat /\ h \in Nat /\ n = 2 * h /\ Distinct(arr) /\ R \subseteq RangeOf(arr)
  <2>1. n \in Nat /\ n % 2 = 0
    BY DEF TableOf
  <2>2. QED BY <2>1 DEF TableOf
<1>2. pairs = [i \in 1..h |-> LayBoard(arr, r, i)]
  BY DEF LayRound
<1>3. \A i \in 1..h : /\ pairs[i] \in BoardsOf(R) /\ pairs[i].black # pairs[i].white
                      /\ i \in 1..n /\ Opp(i) \in 1..n
                      /\ \A x : Sits(pairs[i], x) <=> x = arr[i] \/ x = arr[Opp(i)]
  BY <1>2, BoardSeats
<1>4. \A i \in 1..h : Opp(i) = 2 * h + 1 - i
  BY <1>1 DEF Opposite
<1> HIDE DEF pairs, Opp, h
<1>5. pairs \in Seq(BoardsOf(R)) /\ Len(pairs) = h
  <2>1. pairs \in [1..h -> BoardsOf(R)]
    BY <1>2, <1>3
  <2>2. QED BY <1>1, <2>1
<1>6. ASSUME NEW i \in 1..h, NEW j \in 1..h, NEW x, Sits(pairs[i], x), Sits(pairs[j], x)
      PROVE  i = j
  <2>1. PICK k \in {i, Opp(i)} : x = arr[k]
    BY <1>3, <1>6
  <2>2. PICK m \in {j, Opp(j)} : x = arr[m]
    BY <1>3, <1>6
  <2>3. k \in 1..n /\ m \in 1..n
    BY <1>3
  <2>4. k = m
    BY <1>1, <2>1, <2>2, <2>3 DEF Distinct
  <2>5. QED
    BY <1>1, <1>4, <2>4
<1>7. ASSUME NEW x \in R PROVE \E i \in 1..h : Sits(pairs[i], x)
  <2>1. PICK k \in 1..n : arr[k] = x
    BY <1>1 DEF RangeOf
  <2>2. CASE k <= h
    <3>1. k \in 1..h
      BY <1>1, <2>2
    <3>2. QED BY <1>3, <2>1, <3>1
  <2>3. CASE k > h
    <3>1. n + 1 - k \in 1..h /\ Opp(n + 1 - k) = k
      BY <1>1, <1>4, <2>3
    <3>2. QED BY <1>3, <2>1, <3>1
  <2>4. QED BY <1>1, <2>2, <2>3
<1>8. QED
  BY <1>3, <1>5, <1>6, <1>7 DEF FullRound, OnceSeated, pairs

\* The tables of a round robin, from the first on: m turns of the circle.
Tables(ids, m) ==
  CHOOSE f : f = [r \in 0..m |-> IF r = 0 THEN Seats(ids) ELSE Rotate(f[r - 1])]

LEMMA TablesFacts ==
  ASSUME NEW T, NEW ids \in Seq(T), Distinct(ids), Ghost \notin RangeOf(ids),
         NEW m \in Nat
  PROVE  /\ \A r \in 0..m : TableOf(RangeOf(ids), Tables(ids, m)[r])
         /\ Tables(ids, m)[0] = Seats(ids)
         /\ \A r \in 1..m : Tables(ids, m)[r] = Rotate(Tables(ids, m)[r - 1])
<1> DEFINE R == RangeOf(ids)
           Q == [k \in 0..m |-> {arr \in Seq(R \cup {Ghost}) : TableOf(R, arr)}]
           step == [k \in 1..m |-> [arr \in Seq(R \cup {Ghost}) |-> Rotate(arr)]]
           base == Seats(ids)
           is(f) == f = [r \in 0..m |-> IF r = 0 THEN base ELSE Rotate(f[r - 1])]
<1>1. base \in Q[0]
  <2>1. TableOf(R, base)
    BY SeatsFacts
  <2> HIDE DEF base, R
  <2>2. QED BY <2>1 DEF TableOf
<1>2. \A k \in 1..m : \A x \in Q[k - 1] : step[k][x] \in Q[k]
  <2> HIDE DEF R
  <2>1. ASSUME NEW k \in 1..m, NEW x \in Q[k - 1] PROVE step[k][x] \in Q[k]
    <3>1. k - 1 \in 0..m /\ k \in 0..m
      OBVIOUS
    <3>2. x \in Seq(R \cup {Ghost}) /\ TableOf(R, x)
      BY <3>1
    <3>3. TableOf(R, Rotate(x))
      BY <3>2, RotateTable
    <3>4. Rotate(x) \in Seq(R \cup {Ghost})
      BY <3>3 DEF TableOf
    <3>5. step[k][x] = Rotate(x)
      BY <3>2
    <3>6. QED BY <3>1, <3>3, <3>4, <3>5
  <2>2. QED BY <2>1
<1> HIDE DEF Q, step, base
<1>3. PICK f : Iterates(f, m, base, step)
  BY <1>1, <1>2, Recursion
<1>4. \A g : Iterates(g, m, base, step) => \A k \in 0..m : g[k] \in Q[k]
  BY <1>1, <1>2, Recursion
<1>5. \A g : (\A k \in 0..m : g[k] \in Q[k]) =>
        (\A k \in 1..m : step[k][g[k - 1]] = Rotate(g[k - 1]))
  BY DEF step, Q
<1>6. is(f)
  <2>1. \A k \in 1..m : step[k][f[k - 1]] = Rotate(f[k - 1])
    BY <1>3, <1>4, <1>5
  <2>2. f = [k \in 0..m |-> IF k = 0 THEN base ELSE step[k][f[k - 1]]]
    BY <1>3 DEF Iterates
  <2>3. \A k \in 0..m : k = 0 \/ k \in 1..m
    OBVIOUS
  <2>4. QED BY <2>1, <2>2, <2>3
<1> DEFINE tables == Tables(ids, m)
<1>7. is(tables)
  BY <1>6 DEF Tables, base
<1> HIDE DEF tables
<1>8. \A k \in 0..m : TableOf(R, tables[k])
  <2> DEFINE S == {k \in 0..m : TableOf(R, tables[k])}
  <2> HIDE DEF R
  <2>1. 0 \in S
    <3>1. tables[0] = base
      BY <1>7
    <3>2. base \in Q[0]
      BY <1>1
    <3>3. QED BY <3>1, <3>2 DEF Q
  <2>2. \A k \in 0..(m - 1) : k \in S => k + 1 \in S
    <3>1. ASSUME NEW k \in 0..(m - 1), k \in S PROVE k + 1 \in S
      <4>1. tables[k + 1] = Rotate(tables[k])
        BY <1>7
      <4>2. QED BY <3>1, <4>1, RotateTable
    <3>2. QED BY <3>1
  <2> HIDE DEF S
  <2>3. 0..m \subseteq S
    BY <2>1, <2>2, Induct
  <2>4. QED BY <2>3 DEF S
<1>9. tables[0] = base /\ \A r \in 1..m : tables[r] = Rotate(tables[r - 1])
  BY <1>7
<1>10. QED
  BY <1>8, <1>9 DEF tables, base

(***************************************************************************)
(* RoundRobinSchedule seats every player of the field at exactly one board *)
(* of each of its rounds, whatever the size of the field.                  *)
(***************************************************************************)
THEOREM ScheduleSeatsAll ==
  ASSUME NEW T, NEW ids \in Seq(T), Distinct(ids), Len(ids) >= 2,
         Ghost \notin RangeOf(ids)
  PROVE  /\ RoundsFor(ids) \in Nat \ {0}
         /\ DOMAIN RoundRobinSchedule(ids) = 1..RoundsFor(ids)
         /\ Len(RoundRobinSchedule(ids)) = RoundsFor(ids)
         /\ \A r \in 1..RoundsFor(ids) :
              FullRound(RoundRobinSchedule(ids)[r], RangeOf(ids))
<1> DEFINE n == Len(ids)
           m == RoundsFor(ids)
           plan == RoundRobinSchedule(ids)
<1>1. n \in Nat /\ n >= 2
  OBVIOUS
<1>2. m \in Nat /\ m >= 1 /\ m <= n
  <2>1. m = Len(Seats(ids)) - 1
    BY <1>1 DEF RoundsFor
  <2>2. Len(Seats(ids)) = n \/ Len(Seats(ids)) = n + 1
    BY DEF Seats
  <2>3. QED BY <1>1, <2>1, <2>2
<1>3. plan = [r \in 1..m |-> LayRound(Tables(ids, n)[r - 1], r - 1)]
  BY DEF RoundRobinSchedule, Tables
<1>4. \A r \in 0..n : TableOf(RangeOf(ids), Tables(ids, n)[r])
  BY <1>1, TablesFacts
<1> HIDE DEF m, plan
<1>5. \A r \in 1..m : FullRound(plan[r], RangeOf(ids))
  <2>1. ASSUME NEW r \in 1..m PROVE FullRound(plan[r], RangeOf(ids))
    <3>1. r - 1 \in 0..n /\ r - 1 \in Nat
      BY <1>1, <1>2
    <3>2. plan[r] = LayRound(Tables(ids, n)[r - 1], r - 1)
      BY <1>3
    <3>3. QED BY <1>4, <3>1, <3>2, LayRoundFull
  <2>2. QED BY <2>1
<1>6. DOMAIN plan = 1..m /\ Len(plan) = m
  BY <1>2, <1>3
<1>7. QED
  BY <1>2, <1>5, <1>6 DEF m, plan

-----------------------------------------------------------------------------
(* Everybody meets everybody. *)

\* The tables of a circle of n, the first of which is a: who sits where.
Turned(arr, a, n, r) ==
  /\ Len(arr) = n
  /\ \A i \in 1..n : arr[i] = a[Index(n, r, i)]

LEMMA RotateTurned ==
  ASSUME NEW n \in Nat, n >= 2, Even(n) = n, NEW T, NEW a, NEW arr \in Seq(T),
         NEW r \in Nat, r < n - 1, Turned(arr, a, n, r)
  PROVE  Turned(Rotate(arr), a, n, r + 1)
<1>1. Len(arr) = n /\ \A i \in 1..n : arr[i] = a[Index(n, r, i)]
  BY DEF Turned
<1>2. \A i \in 1..n : /\ i = 1 => Index(n, r + 1, i) = Index(n, r, 1)
                      /\ i = 2 => Index(n, r + 1, i) = Index(n, r, n)
                      /\ i > 2 => Index(n, r + 1, i) = Index(n, r, i - 1)
  BY IndexStep
<1>3. CASE n > 2
  <2> DEFINE w == Rotate(arr)
  <2>1. w = [k \in 1..n |-> CASE k = 1 -> arr[1] [] k = 2 -> arr[n] [] OTHER -> arr[k - 1]]
    BY <1>1, <1>3 DEF Rotate
  <2>2. Len(w) = n
    BY <2>1
  <2>3. ASSUME NEW i \in 1..n PROVE w[i] = a[Index(n, r + 1, i)]
    <3>1. CASE i = 1
      <4>1. w[i] = arr[1] /\ 1 \in 1..n
        BY <2>1, <3>1
      <4>2. QED BY <1>1, <1>2, <3>1, <4>1
    <3>2. CASE i = 2
      <4>1. w[i] = arr[n] /\ n \in 1..n
        BY <2>1, <3>2
      <4>2. QED BY <1>1, <1>2, <3>2, <4>1
    <3>3. CASE i > 2
      <4>1. w[i] = arr[i - 1] /\ i - 1 \in 1..n
        BY <2>1, <3>3
      <4>2. QED BY <1>1, <1>2, <3>3, <4>1
    <3>4. QED BY <3>1, <3>2, <3>3
  <2>4. QED BY <2>2, <2>3 DEF Turned
<1>4. CASE n = 2
  <2>1. Rotate(arr) = arr /\ r = 0
    BY <1>1, <1>4 DEF Rotate
  <2>2. \A i \in 1..2 : Index(n, 0, i) = Index(n, 1, i)
    BY <1>4 DEF Index
  <2>3. QED BY <1>1, <1>4, <2>1, <2>2 DEF Turned
<1>5. QED
  BY <1>3, <1>4

LEMMA TablesTurned ==
  ASSUME NEW T, NEW ids \in Seq(T), Distinct(ids), Ghost \notin RangeOf(ids),
         NEW m \in Nat, NEW n \in Nat, n = Len(Seats(ids)), n >= 2, n = Even(n)
  PROVE  \A r \in 0..m : r < n => Turned(Tables(ids, m)[r], Seats(ids), n, r)
<1> DEFINE a == Seats(ids)
           R == RangeOf(ids)
           tables == Tables(ids, m)
           S == {r \in 0..m : r < n => Turned(tables[r], a, n, r)}
<1>1. /\ \A r \in 0..m : TableOf(R, tables[r])
      /\ tables[0] = a
      /\ \A r \in 1..m : tables[r] = Rotate(tables[r - 1])
  BY TablesFacts
<1> HIDE DEF tables, R, a
<1>2. 0 \in S
  <2>1. \A i \in 1..n : Index(n, 0, i) = i
    BY DEF Index
  <2>2. Turned(tables[0], a, n, 0)
    BY <1>1, <2>1 DEF Turned, a
  <2>3. QED BY <2>2
<1>3. ASSUME NEW k \in 0..(m - 1), k \in S PROVE k + 1 \in S
  <2>1. k + 1 \in 1..m /\ (k + 1) - 1 = k /\ k \in 0..m
    OBVIOUS
  <2>2. tables[k + 1] = Rotate(tables[k]) /\ tables[k] \in Seq(R \cup {Ghost})
    BY <1>1, <2>1 DEF TableOf
  <2>3. CASE k + 1 < n
    <3>1. Turned(tables[k], a, n, k)
      BY <1>3, <2>3
    <3>2. k \in Nat /\ k < n - 1
      BY <2>3
    <3>3. Turned(Rotate(tables[k]), a, n, k + 1)
      BY <2>2, <3>1, <3>2, RotateTurned
    <3>4. QED BY <2>1, <2>2, <3>3
  <2>4. QED BY <2>1, <2>3
<1> HIDE DEF S
<1>4. 0..m \subseteq S
  BY <1>2, <1>3, Induct
<1>5. QED
  BY <1>4 DEF S, tables, a

Together(pr, x, y) == Sits(pr, x) /\ Sits(pr, y)

\* Any two of R sit together in one round of the plan, and in no other.
PlanMeets(plan, R) ==
  \A x, y \in R : x # y =>
    /\ \E r \in 1..Len(plan) : \E i \in 1..Len(plan[r]) : Together(plan[r][i], x, y)
    /\ \A q, r \in 1..Len(plan) : \A i \in 1..Len(plan[q]), j \in 1..Len(plan[r]) :
         Together(plan[q][i], x, y) /\ Together(plan[r][j], x, y) => q = r

(***************************************************************************)
(* In RoundRobinSchedule any two players of the field meet in one round,   *)
(* and in no other, whatever the size of the field.                        *)
(***************************************************************************)
THEOREM ScheduleMeetsAll ==
  ASSUME NEW T, NEW ids \in Seq(T), Distinct(ids), Len(ids) >= 2,
         Ghost \notin RangeOf(ids)
  PROVE  PlanMeets(RoundRobinSchedule(ids), RangeOf(ids))
<1> DEFINE R == RangeOf(ids)
           a == Seats(ids)
           n == Len(a)
           h == n \div 2
           m == n - 1
           tables == Tables(ids, Len(ids))
           plan == RoundRobinSchedule(ids)
           In(r, i) == Index(n, r, i)
<1>1. /\ n \in Nat /\ n >= 2 /\ Even(n) = n /\ n = 2 * h /\ h \in Nat
      /\ RoundsFor(ids) = m /\ m <= Len(ids) /\ Len(ids) \in Nat
      /\ Distinct(a) /\ R \subseteq RangeOf(a)
  <2>1. TableOf(R, a)
    BY SeatsFacts
  <2>2. RoundsFor(ids) = m
    BY DEF RoundsFor
  <2>3. n = Len(ids) \/ n = Len(ids) + 1
    BY DEF Seats
  <2> HIDE DEF a, R
  <2>4. n % 2 = 0 /\ Distinct(a) /\ R \subseteq RangeOf(a)
    BY <2>1 DEF TableOf
  <2> HIDE DEF n
  <2>5. Len(ids) \in Nat
    OBVIOUS
  <2>6. n \in Nat /\ n >= 2
    BY <2>3, <2>5
  <2>7. QED BY <2>2, <2>3, <2>4, <2>5, <2>6 DEF Even
<1>2. /\ DOMAIN plan = 1..m /\ Len(plan) = m
      /\ plan = [r \in 1..RoundsFor(ids) |-> LayRound(tables[r - 1], r - 1)]
  BY <1>1, ScheduleSeatsAll DEF RoundRobinSchedule, Tables
<1>3. \A r \in 0..Len(ids) : TableOf(R, tables[r]) /\ (r < n => Turned(tables[r], a, n, r))
  <2>1. \A r \in 0..Len(ids) : TableOf(R, tables[r])
    BY <1>1, TablesFacts
  <2>2. \A r \in 0..Len(ids) : r < n => Turned(tables[r], a, n, r)
    BY <1>1, TablesTurned
  <2>3. QED BY <2>1, <2>2
<1> HIDE DEF R, a, n, h, tables, plan, In
<1>4. ASSUME NEW r \in 1..m
      PROVE  /\ Len(plan[r]) = h
             /\ \A i \in 1..h : \A x : Sits(plan[r][i], x) <=>
                  x = a[In(r - 1, i)] \/ x = a[In(r - 1, n + 1 - i)]
  <2>1. r - 1 \in 0..Len(ids) /\ r - 1 \in Nat /\ r - 1 < n
    BY <1>1
  <2> DEFINE arr == tables[r - 1]
  <2>2. TableOf(R, arr) /\ Turned(arr, a, n, r - 1)
    BY <1>3, <2>1
  <2>3. plan[r] = LayRound(arr, r - 1)
    BY <1>1, <1>2
  <2> HIDE DEF arr
  <2>4. Len(arr) = n /\ \A i \in 1..n : arr[i] = a[In(r - 1, i)]
    BY <2>2 DEF Turned, In
  <2>5. plan[r] = [i \in 1..h |-> LayBoard(arr, r - 1, i)]
    BY <2>3, <2>4 DEF LayRound, h
  <2>6. Len(plan[r]) = h
    BY <1>1, <2>5
  <2>7. Ghost \notin R
    BY DEF R
  <2>8. ASSUME NEW i \in 1..h, NEW x
        PROVE  Sits(plan[r][i], x) <=> x = a[In(r - 1, i)] \/ x = a[In(r - 1, n + 1 - i)]
    <3>1. i \in 1..(Len(arr) \div 2)
      BY <2>4 DEF h
    <3>2. \A z : Sits(LayBoard(arr, r - 1, i), z) <=> z = arr[i] \/ z = arr[Opposite(arr, i)]
      <4> DEFINE turn == r - 1
      <4>1. turn \in Nat
        BY <2>1
      <4> HIDE DEF turn
      <4>2. BoardHolds(arr, turn, i)
        BY <2>2, <2>7, <3>1, <4>1, BoardHoldsTwo
      <4>3. QED BY <4>2 DEF turn, BoardHolds
    <3>3. i \in 1..n /\ n + 1 - i \in 1..n /\ Opposite(arr, i) = n + 1 - i
      BY <1>1, <2>4 DEF Opposite
    <3>4. QED BY <2>4, <2>5, <3>2, <3>3
  <2>9. QED BY <2>6, <2>8
<1>5. \A r \in 0..(n - 1) : \A i \in 1..n : In(r, i) \in 1..n
  <2>1. ASSUME NEW r \in 0..(n - 1), NEW i \in 1..n PROVE In(r, i) \in 1..n
    <3>1. r \in Nat /\ r < n
      BY <1>1
    <3>2. QED BY <1>1, <3>1, IndexPlace DEF In
  <2>2. QED BY <2>1
<1>6. SUFFICES ASSUME NEW x \in R, NEW y \in R, x # y
               PROVE  /\ \E r \in 1..m : \E i \in 1..Len(plan[r]) : Together(plan[r][i], x, y)
                      /\ \A q, r \in 1..m : \A i \in 1..Len(plan[q]), j \in 1..Len(plan[r]) :
                           Together(plan[q][i], x, y) /\ Together(plan[r][j], x, y) => q = r
  BY <1>2 DEF PlanMeets, R, plan
<1>7. PICK u \in 1..n : a[u] = x
  BY <1>1 DEF RangeOf, n
<1>8. PICK v \in 1..n : a[v] = y
  BY <1>1 DEF RangeOf, n
<1>9. \A w \in 1..n : /\ a[w] = x <=> w = u
                      /\ a[w] = y <=> w = v
  BY <1>1, <1>7, <1>8 DEF Distinct, n
<1>10. ASSUME NEW r \in 1..m, NEW i \in 1..Len(plan[r]), Together(plan[r][i], x, y)
       PROVE  \E j \in 1..n : In(r - 1, j) = u /\ In(r - 1, n + 1 - j) = v
  <2>1. i \in 1..h /\ i \in 1..n /\ n + 1 - i \in 1..n /\ n + 1 - (n + 1 - i) = i
        /\ r - 1 \in 0..(n - 1)
    <3>1. i \in 1..h
      BY <1>4
    <3>2. QED BY <1>1, <3>1
  <2>2. In(r - 1, i) \in 1..n /\ In(r - 1, n + 1 - i) \in 1..n
    BY <1>5, <2>1
  <2>3. /\ x = a[In(r - 1, i)] \/ x = a[In(r - 1, n + 1 - i)]
        /\ y = a[In(r - 1, i)] \/ y = a[In(r - 1, n + 1 - i)]
    BY <1>4, <1>10, <2>1 DEF Together
  <2>4. CASE x = a[In(r - 1, i)]
    <3>1. In(r - 1, i) = u /\ In(r - 1, n + 1 - i) = v
      BY <1>6, <1>9, <2>2, <2>3, <2>4
    <3>2. QED BY <2>1, <3>1
  <2>5. CASE x = a[In(r - 1, n + 1 - i)]
    <3>1. In(r - 1, i) = v /\ In(r - 1, n + 1 - i) = u
      BY <1>6, <1>9, <2>2, <2>3, <2>5
    <3>2. QED BY <2>1, <3>1
  <2>6. QED BY <2>3, <2>4, <2>5
<1>11. ASSUME NEW q \in 1..m, NEW r \in 1..m,
              NEW i \in 1..Len(plan[q]), NEW j \in 1..Len(plan[r]),
              Together(plan[q][i], x, y), Together(plan[r][j], x, y)
       PROVE  q = r
  <2>1. PICK k \in 1..n : In(q - 1, k) = u /\ In(q - 1, n + 1 - k) = v
    BY <1>10, <1>11
  <2>2. PICK l \in 1..n : In(r - 1, l) = u /\ In(r - 1, n + 1 - l) = v
    BY <1>10, <1>11
  <2>3. /\ q - 1 \in Nat /\ q - 1 < n - 1 /\ r - 1 \in Nat /\ r - 1 < n - 1
    BY <1>1
  <2>4. q - 1 = r - 1
    BY <1>1, <2>1, <2>2, <2>3, OneRound DEF In
  <2>5. QED BY <2>4
<1>12. \E r \in 1..m : \E i \in 1..Len(plan[r]) : Together(plan[r][i], x, y)
  <2>1. u # v
    BY <1>6, <1>7, <1>8
  <2>2. PICK r \in 0..(n - 2) : Place(n, r, u) + Place(n, r, v) = n + 1
    BY <1>1, <2>1, SomeRound
  <2> DEFINE i == Place(n, r, u)
             j == Place(n, r, v)
  <2>3. i \in 1..n /\ j \in 1..n /\ In(r, i) = u /\ In(r, j) = v /\ j = n + 1 - i /\ i = n + 1 - j
    <3>1. r \in Nat /\ r < n
      BY <1>1
    <3>2. \A w \in 1..n : Place(n, r, w) \in 1..n /\ Index(n, r, Place(n, r, w)) = w
      <4>1. n \in Nat /\ n >= 2 /\ Even(n) = n
        BY <1>1
      <4>2. Fits(n, n, r)
        BY <3>1, <4>1, PlaceFits
      <4>3. QED BY <4>2 DEF Fits
    <3>3. i \in 1..n /\ j \in 1..n /\ In(r, i) = u /\ In(r, j) = v
      BY <3>2 DEF In
    <3>4. i + j = n + 1
      BY <2>2
    <3> HIDE DEF i, j
    <3>5. j = n + 1 - i /\ i = n + 1 - j
      BY <1>1, <3>3, <3>4
    <3>6. QED BY <3>3, <3>5
  <2> HIDE DEF i, j
  <2>4. r + 1 \in 1..m /\ (r + 1) - 1 = r
    BY <1>1
  <2>5. /\ Len(plan[r + 1]) = h
        /\ \A k \in 1..h : \A z : Sits(plan[r + 1][k], z) <=>
             z = a[In(r, k)] \/ z = a[In(r, n + 1 - k)]
    BY <1>4, <2>4
  <2>6. CASE i <= h
    <3>1. i \in 1..h
      BY <1>1, <2>3, <2>6
    <3>2. Together(plan[r + 1][i], x, y)
      BY <1>7, <1>8, <2>3, <2>5, <3>1 DEF Together
    <3>3. QED BY <2>4, <2>5, <3>1, <3>2
  <2>7. CASE j <= h
    <3>1. j \in 1..h
      BY <1>1, <2>3, <2>7
    <3>2. Together(plan[r + 1][j], x, y)
      BY <1>7, <1>8, <2>3, <2>5, <3>1 DEF Together
    <3>3. QED BY <2>4, <2>5, <3>1, <3>2
  <2>8. i <= h \/ j <= h
    BY <1>1, <2>3
  <2>9. QED BY <2>6, <2>7, <2>8
<1>13. QED
  BY <1>11, <1>12

-----------------------------------------------------------------------------
(* Sums. *)

\* The member a sum takes first.
FirstOf(s) == CHOOSE x \in s : TRUE

SmallOf(S, k) == {s \in SUBSET S : Cardinality(s) <= k}

\* The sums of f over the sets of D, each from that of one member less.
Summed(f, D, sum) ==
  sum = [s \in D |-> IF s = {} THEN 0 ELSE f[FirstOf(s)] + sum[s \ {FirstOf(s)}]]

LEMMA SumOverIs ==
  ASSUME NEW S, NEW f
  PROVE  SumOver(S, f) = (CHOOSE sum : Summed(f, SUBSET S, sum))[S]
BY DEF SumOver, MapThenSumSet, MapThenFoldSet, Summed, FirstOf

LEMMA SmallSets ==
  ASSUME NEW S, IsFiniteSet(S)
  PROVE  /\ SmallOf(S, 0) = {{}}
         /\ SmallOf(S, Cardinality(S)) = SUBSET S
         /\ \A k \in Nat : /\ SmallOf(S, k) \subseteq SmallOf(S, k + 1)
                           /\ {} \in SmallOf(S, k)
         /\ \A k \in Nat : \A s \in SmallOf(S, k + 1) :
              s # {} => FirstOf(s) \in s /\ s \ {FirstOf(s)} \in SmallOf(S, k)
<1>1. \A s \in SUBSET S : /\ IsFiniteSet(s) /\ Cardinality(s) \in Nat
                          /\ Cardinality(s) <= Cardinality(S)
                          /\ Cardinality(s) = 0 <=> s = {}
  BY FS_Subset, FS_EmptySet, FS_CardinalityType
<1>2. SmallOf(S, 0) = {{}}
  BY <1>1 DEF SmallOf
<1>3. SmallOf(S, Cardinality(S)) = SUBSET S
  BY <1>1 DEF SmallOf
<1>4. ASSUME NEW k \in Nat
      PROVE  SmallOf(S, k) \subseteq SmallOf(S, k + 1) /\ {} \in SmallOf(S, k)
  <2>1. {} \in SUBSET S /\ Cardinality({}) = 0
    BY <1>1
  <2>2. QED BY <1>1, <2>1 DEF SmallOf
<1>5. ASSUME NEW k \in Nat, NEW s \in SmallOf(S, k + 1), s # {}
      PROVE  FirstOf(s) \in s /\ s \ {FirstOf(s)} \in SmallOf(S, k)
  <2>1. FirstOf(s) \in s
    BY <1>5 DEF FirstOf
  <2>2. s \in SUBSET S /\ IsFiniteSet(s) /\ Cardinality(s) <= k + 1 /\ Cardinality(s) \in Nat
    BY <1>1 DEF SmallOf
  <2>3. Cardinality(s \ {FirstOf(s)}) = Cardinality(s) - 1
    BY <2>1, <2>2, FS_RemoveElement
  <2>4. s \ {FirstOf(s)} \in SUBSET S
    BY <2>2
  <2>5. Cardinality(s \ {FirstOf(s)}) <= k
    BY <2>2, <2>3
  <2>6. QED BY <2>1, <2>4, <2>5 DEF SmallOf
<1>6. QED
  BY <1>2, <1>3, <1>4, <1>5

\* A sum over a finite set of whole numbers is one.
LEMMA SumType ==
  ASSUME NEW S, IsFiniteSet(S), NEW f, \A x \in S : f[x] \in Int
  PROVE  SumOver(S, f) \in Int
<1> DEFINE n == Cardinality(S)
           Term(g, s) == IF s = {} THEN 0 ELSE f[FirstOf(s)] + g[s \ {FirstOf(s)}]
<1>1. n \in Nat
  BY FS_CardinalityType
<1>2. /\ SmallOf(S, 0) = {{}} /\ SmallOf(S, n) = SUBSET S
      /\ \A k \in Nat : SmallOf(S, k) \subseteq SmallOf(S, k + 1) /\ {} \in SmallOf(S, k)
      /\ \A k \in Nat : \A s \in SmallOf(S, k + 1) :
           s # {} => FirstOf(s) \in s /\ s \ {FirstOf(s)} \in SmallOf(S, k)
  BY SmallSets
<1>3. \A k \in Nat : SmallOf(S, k) \subseteq SUBSET S
  BY DEF SmallOf
<1> HIDE DEF n
<1>4. \E sum : Summed(f, SUBSET S, sum)
  <2> DEFINE Have == {k \in 0..n : \E g \in [SmallOf(S, k) -> Int] :
                        \A s \in SmallOf(S, k) : g[s] = Term(g, s)}
  <2>1. 0 \in Have
    <3> DEFINE g == [s \in SmallOf(S, 0) |-> 0]
    <3>1. g \in [SmallOf(S, 0) -> Int]
      OBVIOUS
    <3>2. ASSUME NEW s \in SmallOf(S, 0) PROVE g[s] = Term(g, s)
      <4>1. s = {}
        BY <1>2
      <4>2. Term(g, s) = 0
        BY <4>1
      <4>3. QED BY <4>2
    <3> HIDE DEF g
    <3>3. QED BY <1>1, <3>1, <3>2
  <2>2. ASSUME NEW k \in 0..(n - 1), k \in Have PROVE k + 1 \in Have
    <3>1. PICK g \in [SmallOf(S, k) -> Int] : \A s \in SmallOf(S, k) : g[s] = Term(g, s)
      BY <2>2
    <3> DEFINE h == [s \in SmallOf(S, k + 1) |-> Term(g, s)]
    <3>2. ASSUME NEW s \in SmallOf(S, k + 1) PROVE h[s] = Term(h, s) /\ h[s] \in Int
      <4>1. CASE s = {}
        BY <4>1
      <4>2. CASE s # {}
        <5> DEFINE t == s \ {FirstOf(s)}
        <5>1. FirstOf(s) \in s /\ t \in SmallOf(S, k)
          BY <1>2, <4>2
        <5>2. t \in SmallOf(S, k + 1)
          BY <1>2, <5>1
        <5>3. f[FirstOf(s)] \in Int
          BY <1>3, <5>1
        <5> HIDE DEF t
        <5>4. g[t] \in Int /\ h[t] = g[t]
          BY <3>1, <5>1, <5>2
        <5>5. h[s] = f[FirstOf(s)] + g[t]
          BY <4>2 DEF t
        <5>6. Term(h, s) = f[FirstOf(s)] + h[t]
          BY <4>2 DEF t
        <5> HIDE DEF h
        <5>7. QED BY <5>3, <5>4, <5>5, <5>6
      <4>3. QED BY <4>1, <4>2
    <3>3. h = [s \in SmallOf(S, k + 1) |-> h[s]]
      OBVIOUS
    <3> HIDE DEF h, Term
    <3>4. h \in [SmallOf(S, k + 1) -> Int]
      BY <3>2, <3>3
    <3>5. k + 1 \in 0..n
      BY <1>1
    <3>6. QED BY <3>2, <3>4, <3>5
  <2>3. n \in Have
    <3> HIDE DEF Have
    <3>1. 0..n \subseteq Have
      BY <1>1, <2>1, <2>2, Induct
    <3>2. QED BY <1>1, <3>1
  <2>4. PICK g \in [SUBSET S -> Int] : \A s \in SUBSET S : g[s] = Term(g, s)
    BY <1>2, <2>3
  <2>5. g = [s \in SUBSET S |-> Term(g, s)]
    BY <2>4
  <2>6. QED BY <2>5 DEF Summed
<1> DEFINE sum == CHOOSE g : Summed(f, SUBSET S, g)
<1>5. Summed(f, SUBSET S, sum)
  BY <1>4
<1> HIDE DEF sum
<1>6. \A s \in SUBSET S : sum[s] = Term(sum, s)
  BY <1>5 DEF Summed
<1> DEFINE Whole == {k \in 0..n : \A s \in SmallOf(S, k) : sum[s] \in Int}
<1>7. 0 \in Whole
  <2>1. sum[{}] = 0
    <3>1. {} \in SUBSET S /\ Term(sum, {}) = 0
      OBVIOUS
    <3> HIDE DEF Term
    <3>2. QED BY <1>6, <3>1
  <2>2. \A s \in SmallOf(S, 0) : sum[s] \in Int
    <3>1. SmallOf(S, 0) = {{}}
      BY <1>2
    <3>2. TAKE s \in SmallOf(S, 0)
    <3>3. s = {}
      BY <3>1
    <3>4. QED BY <2>1, <3>3
  <2>3. QED BY <1>1, <2>2
<1>8. ASSUME NEW k \in 0..(n - 1), k \in Whole PROVE k + 1 \in Whole
  <2>1. ASSUME NEW s \in SmallOf(S, k + 1) PROVE sum[s] \in Int
    <3>1. s \in SUBSET S
      BY <1>3
    <3>2. CASE s = {}
      BY <1>2, <1>7, <3>2
    <3>3. CASE s # {}
      <4>1. FirstOf(s) \in s /\ s \ {FirstOf(s)} \in SmallOf(S, k)
        BY <1>2, <3>3
      <4>2. f[FirstOf(s)] \in Int /\ sum[s \ {FirstOf(s)}] \in Int
        BY <1>8, <3>1, <4>1
      <4>3. sum[s] = f[FirstOf(s)] + sum[s \ {FirstOf(s)}]
        BY <1>6, <3>1, <3>3
      <4>4. QED BY <4>2, <4>3
    <3>4. QED BY <3>2, <3>3
  <2>2. QED BY <1>1, <2>1
<1>9. n \in Whole
  <2> HIDE DEF Whole
  <2>1. 0..n \subseteq Whole
    BY <1>1, <1>7, <1>8, Induct
  <2>2. QED BY <1>1, <2>1
<1>10. sum[S] \in Int
  BY <1>2, <1>9
<1>11. QED
  BY <1>10, SumOverIs DEF sum

-----------------------------------------------------------------------------
(* The standings. *)

\* Row a is strictly better than row b in what places are given for.
BetterRow(a, b) ==
  \/ a.score > b.score
  \/ a.score = b.score /\ a.sos > b.sos
  \/ a.score = b.score /\ a.sos = b.sos /\ a.sosos > b.sosos

WholeRow(a) == a.score \in Int /\ a.sos \in Int /\ a.sosos \in Int

LEMMA RowOrder ==
  ASSUME NEW a, NEW b, NEW c, WholeRow(a), WholeRow(b), WholeRow(c)
  PROVE  /\ ~BetterRow(a, a)
         /\ BetterRow(a, b) \/ BetterRow(b, a) \/ SameRank(a, b)
         /\ BetterRow(a, b) => ~BetterRow(b, a) /\ ~SameRank(a, b)
         /\ BetterRow(a, b) /\ BetterRow(b, c) => BetterRow(a, c)
         /\ SameRank(a, b) => /\ SameRank(b, a)
                              /\ BetterRow(a, c) <=> BetterRow(b, c)
                              /\ BetterRow(c, a) <=> BetterRow(c, b)
                              /\ SameRank(a, c) <=> SameRank(b, c)
<1>1. /\ a.score \in Int /\ a.sos \in Int /\ a.sosos \in Int
      /\ b.score \in Int /\ b.sos \in Int /\ b.sosos \in Int
      /\ c.score \in Int /\ c.sos \in Int /\ c.sosos \in Int
  BY DEF WholeRow
<1>2. ~BetterRow(a, a)
  BY <1>1 DEF BetterRow
<1>3. BetterRow(a, b) \/ BetterRow(b, a) \/ SameRank(a, b)
  BY <1>1 DEF BetterRow, SameRank
<1>4. BetterRow(a, b) => ~BetterRow(b, a) /\ ~SameRank(a, b)
  BY <1>1 DEF BetterRow, SameRank
<1>5. BetterRow(a, b) /\ BetterRow(b, c) => BetterRow(a, c)
  BY <1>1 DEF BetterRow
<1>6. SameRank(a, b) => /\ SameRank(b, a)
                        /\ BetterRow(a, c) <=> BetterRow(b, c)
                        /\ BetterRow(c, a) <=> BetterRow(c, b)
                        /\ SameRank(a, c) <=> SameRank(b, c)
  BY <1>1 DEF BetterRow, SameRank
<1>7. QED
  BY <1>2, <1>3, <1>4, <1>5, <1>6

\* The places of a table: a row equal to the one above has its place.
Placed(table, n, place) ==
  place = [i \in 1..n |-> IF i > 1 /\ SameRank(table[i - 1], table[i])
                            THEN place[i - 1] ELSE i]

LEMMA PlacedIsSome ==
  ASSUME NEW n \in Nat, NEW table
  PROVE  \E place : Placed(table, n, place)
<1> DEFINE Step(g, i) == IF i > 1 /\ SameRank(table[i - 1], table[i]) THEN g[i - 1] ELSE i
           Have == {k \in 0..n : \E g : g = [i \in 1..k |-> Step(g, i)]}
<1>1. 0 \in Have
  <2> DEFINE g == [i \in 1..0 |-> 0]
  <2>1. g = [i \in 1..0 |-> Step(g, i)]
    OBVIOUS
  <2>2. \E x : x = [i \in 1..0 |-> Step(x, i)]
    <3> HIDE DEF g, Step
    <3>1. QED BY <2>1
  <2>3. 0 \in 0..n
    OBVIOUS
  <2> HIDE DEF g, Step
  <2>4. QED BY <2>2, <2>3
<1>2. ASSUME NEW k \in 0..(n - 1), k \in Have PROVE k + 1 \in Have
  <2>1. PICK g : g = [i \in 1..k |-> Step(g, i)]
    BY <1>2
  <2> DEFINE h == [i \in 1..(k + 1) |-> Step(g, i)]
  <2>2. ASSUME NEW i \in 1..(k + 1) PROVE h[i] = Step(h, i)
    <3>1. CASE i > 1
      <4>1. i - 1 \in 1..k /\ i - 1 \in 1..(k + 1)
        BY <3>1
      <4>2. g[i - 1] = Step(g, i - 1) /\ h[i - 1] = Step(g, i - 1)
        <5> HIDE DEF Step
        <5>1. QED BY <2>1, <4>1
      <4>3. Step(h, i) = Step(g, i)
        <5> HIDE DEF h
        <5>1. QED BY <4>2
      <4>4. QED BY <4>3
    <3>2. CASE ~(i > 1)
      BY <3>2
    <3>3. QED BY <3>1, <3>2
  <2>3. h = [i \in 1..(k + 1) |-> h[i]]
    OBVIOUS
  <2> HIDE DEF h, Step
  <2>4. h = [i \in 1..(k + 1) |-> Step(h, i)]
    BY <2>2, <2>3
  <2>5. k + 1 \in 0..n
    OBVIOUS
  <2>6. QED BY <2>4, <2>5
<1>3. n \in Have
  <2> HIDE DEF Have
  <2>1. 0..n \subseteq Have
    BY <1>1, <1>2, Induct
  <2>2. QED BY <2>1
<1>4. PICK g : g = [i \in 1..n |-> Step(g, i)]
  BY <1>3
<1>5. QED
  BY <1>4 DEF Placed

\* In a table that is sorted the rows above a place are the better ones.
LEMMA PlacesAreAbove ==
  ASSUME NEW n \in Nat, NEW table, \A i \in 1..n : WholeRow(table[i]),
         \A j, k \in 1..n : j < k => ~BetterRow(table[k], table[j]),
         NEW place, Placed(table, n, place)
  PROVE  \A i \in 1..n :
           /\ place[i] \in 1..n
           /\ \A j \in 1..n : BetterRow(table[j], table[i]) <=> j < place[i]
<1> DEFINE Right(i) == /\ place[i] \in 1..n
                       /\ \A j \in 1..n : BetterRow(table[j], table[i]) <=> j < place[i]
           Good == {k \in 0..n : k > 0 => Right(k)}
<1>1. \A i \in 1..n : place[i] = IF i > 1 /\ SameRank(table[i - 1], table[i])
                                   THEN place[i - 1] ELSE i
  BY DEF Placed
<1>2. 0 \in Good
  OBVIOUS
<1>3. ASSUME NEW k \in 0..(n - 1), k \in Good PROVE k + 1 \in Good
  <2> DEFINE i == k + 1
  <2>1. i \in 1..n /\ i \in 0..n /\ i - 1 = k
    OBVIOUS
  <2>2. CASE k > 0 /\ SameRank(table[k], table[i])
    <3>1. place[i] = place[k] /\ k \in 1..n
      BY <1>1, <2>1, <2>2
    <3>2. Right(k)
      BY <1>3, <2>2
    <3>3. \A j \in 1..n : BetterRow(table[j], table[i]) <=> BetterRow(table[j], table[k])
      BY <2>1, <2>2, <3>1, RowOrder
    <3>4. Right(i)
      BY <3>1, <3>2, <3>3
    <3>5. QED BY <2>1, <3>4
  <2>3. CASE ~(k > 0 /\ SameRank(table[k], table[i]))
    <3>1. place[i] = i
      <4>1. i > 1 <=> k > 0
        OBVIOUS
      <4> HIDE DEF i
      <4>2. QED BY <1>1, <2>1, <2>3, <4>1
    <3>2. ASSUME NEW j \in 1..n, BetterRow(table[j], table[i]) PROVE j < i
      <4>1. ~(j > i)
        BY <2>1, <3>2
      <4>2. j # i
        BY <2>1, <3>2, RowOrder
      <4>3. QED BY <2>1, <4>1, <4>2
    <3>3. ASSUME NEW j \in 1..n, j < i PROVE BetterRow(table[j], table[i])
      <4>1. ~BetterRow(table[i], table[j])
        BY <2>1, <3>3
      <4>2. SUFFICES ASSUME SameRank(table[j], table[i]) PROVE FALSE
        BY <2>1, <4>1, RowOrder
      <4>3. k > 0 /\ k \in 1..n /\ j <= k /\ k < i
        BY <2>1, <3>3
      <4>4. ~BetterRow(table[i], table[k])
        BY <2>1, <4>3
      <4>5. CASE j = k
        BY <2>3, <4>2, <4>3, <4>5
      <4>6. CASE j < k
        <5>1. ~BetterRow(table[k], table[j])
          BY <4>3, <4>6
        <5>2. WholeRow(table[i]) /\ WholeRow(table[j]) /\ WholeRow(table[k])
          BY <2>1, <4>3
        <5> HIDE DEF i
        <5>3. ~BetterRow(table[k], table[i])
          BY <4>2, <5>1, <5>2, RowOrder
        <5>4. SameRank(table[k], table[i])
          BY <4>4, <5>2, <5>3, RowOrder
        <5>5. QED BY <2>3, <4>3, <5>4
      <4>7. QED BY <4>3, <4>5, <4>6
    <3>4. Right(i)
      BY <2>1, <3>1, <3>2, <3>3
    <3>5. QED BY <2>1, <3>4
  <2>4. QED BY <2>2, <2>3
<1>4. 0..n \subseteq Good
  <2> HIDE DEF Good
  <2>1. QED BY <1>2, <1>3, Induct
<1>5. QED
  BY <1>4

\* The rows of Standings, before they are sorted.
RowsOf(ids, start, results) ==
  LET tally == Tally(ids, start, results)
      sos   == SOS(tally)
      sosos == SOSOS(tally)
  IN  [i \in 1..Len(ids) |->
        [player |-> ids[i], score |-> tally[ids[i]].score,
         wins |-> tally[ids[i]].wins, played |-> tally[ids[i]].played,
         sos |-> sos[ids[i]], sosos |-> sosos[ids[i]]]]

\* Row a stands above row b.
RowAbove(ids, rating, a, b) ==
  LET Above(x, y) == \/ BetterRow(x, y)
                     \/ SameRank(x, y) /\ rating[x.player] > rating[y.player]
  IN  \/ Above(a, b)
      \/ ~Above(b, a) /\ PlaceIn(ids, a.player) < PlaceIn(ids, b.player)

SortedTable(ids, rating, T) == Ranked(T, {pr \in T \X T : RowAbove(ids, rating, pr[1], pr[2])})

\* t is a table of n rows with its places.
TableWithPlaces(t, n, table) ==
  /\ Len(t) = n
  /\ \A i \in 1..n : /\ t[i].row = table[i]
                     /\ t[i].place = (CHOOSE place : Placed(table, n, place))[i]

LEMMA StandingsIs ==
  ASSUME NEW ids, Len(ids) \in Nat, NEW start, NEW rating, NEW results
  PROVE  TableWithPlaces(Standings(ids, start, rating, results), Len(ids),
           SortedTable(ids, rating, RangeOf(RowsOf(ids, start, results))))
<1> DEFINE T == RangeOf(RowsOf(ids, start, results))
           Above(a, b) ==
             \/ a.score > b.score
             \/ a.score = b.score /\ a.sos > b.sos
             \/ a.score = b.score /\ a.sos = b.sos /\ a.sosos > b.sosos
             \/ SameRank(a, b) /\ rating[a.player] > rating[b.player]
           above == {pr \in T \X T :
             \/ Above(pr[1], pr[2])
             \/ /\ ~Above(pr[2], pr[1])
                /\ PlaceIn(ids, pr[1].player) < PlaceIn(ids, pr[2].player)}
           table == Ranked(T, above)
           place == CHOOSE f : f = [k \in 1..Len(ids) |->
             IF k > 1 /\ SameRank(table[k - 1], table[k]) THEN f[k - 1] ELSE k]
<1>1. Standings(ids, start, rating, results) =
        [k \in 1..Len(ids) |-> [row |-> table[k], place |-> place[k]]]
  BY DEF Standings, RowsOf
<1>2. above = {pr \in T \X T : RowAbove(ids, rating, pr[1], pr[2])}
  BY DEF RowAbove, BetterRow
<1> HIDE DEF above
<1>3. table = SortedTable(ids, rating, T)
  BY <1>2 DEF SortedTable
<1> HIDE DEF table
<1>4. place = CHOOSE f : Placed(table, Len(ids), f)
  BY DEF Placed
<1> HIDE DEF place
<1> DEFINE t == Standings(ids, start, rating, results)
<1>5. t = [k \in 1..Len(ids) |-> [row |-> table[k], place |-> place[k]]]
  BY <1>1
<1> HIDE DEF t
<1>6. TableWithPlaces(t, Len(ids), table)
  BY <1>4, <1>5 DEF TableWithPlaces
<1>7. QED
  BY <1>3, <1>6 DEF t, T

\* The order of the table is one, and never puts the better row second.
LEMMA RowAboveOrders ==
  ASSUME NEW ids, NEW rating, NEW T,
         \A a \in T : /\ WholeRow(a) /\ rating[a.player] \in Int
                      /\ PlaceIn(ids, a.player) \in Int,
         \A a, b \in T : PlaceIn(ids, a.player) = PlaceIn(ids, b.player) => a = b
  PROVE  /\ StrictOrder(T, {pr \in T \X T : RowAbove(ids, rating, pr[1], pr[2])})
         /\ \A a, b \in T : RowAbove(ids, rating, a, b) => ~BetterRow(b, a)
<1> DEFINE at(a) == PlaceIn(ids, a.player)
           r(a) == rating[a.player]
           Up(a, b) == BetterRow(a, b) \/ (SameRank(a, b) /\ r(a) > r(b))
           above == {pr \in T \X T : RowAbove(ids, rating, pr[1], pr[2])}
<1>1. ASSUME NEW a \in T, NEW b \in T
      PROVE  RowAbove(ids, rating, a, b) <=> Up(a, b) \/ (~Up(b, a) /\ at(a) < at(b))
  BY DEF RowAbove
<1>2. ASSUME NEW a \in T, NEW b \in T
      PROVE  <<a, b>> \in above <=> RowAbove(ids, rating, a, b)
  OBVIOUS
<1>3. \A a \in T : WholeRow(a) /\ r(a) \in Int /\ at(a) \in Int
  OBVIOUS
<1>4. ASSUME NEW a \in T, NEW b \in T, NEW c \in T
      PROVE  /\ ~Up(a, a)
             /\ Up(a, b) => ~Up(b, a)
             /\ Up(a, b) /\ Up(b, c) => Up(a, c)
             /\ Up(a, b) /\ ~Up(c, b) => Up(a, c)
             /\ ~Up(b, a) /\ Up(b, c) => Up(a, c)
  <2>1. /\ WholeRow(a) /\ WholeRow(b) /\ WholeRow(c)
        /\ r(a) \in Int /\ r(b) \in Int /\ r(c) \in Int
    BY <1>3
  <2>2. /\ ~BetterRow(a, a)
        /\ BetterRow(a, b) => ~BetterRow(b, a) /\ ~SameRank(a, b)
        /\ BetterRow(b, a) => ~BetterRow(a, b) /\ ~SameRank(b, a)
        /\ BetterRow(a, b) /\ BetterRow(b, c) => BetterRow(a, c)
        /\ BetterRow(c, b) \/ BetterRow(b, c) \/ SameRank(c, b)
        /\ BetterRow(b, a) \/ BetterRow(a, b) \/ SameRank(a, b)
    BY <2>1, RowOrder
  <2>3. SameRank(a, b) => /\ SameRank(b, a)
                          /\ BetterRow(a, c) <=> BetterRow(b, c)
                          /\ BetterRow(c, a) <=> BetterRow(c, b)
                          /\ SameRank(a, c) <=> SameRank(b, c)
    BY <2>1, RowOrder
  <2>4. SameRank(b, c) => /\ SameRank(c, b)
                          /\ BetterRow(b, a) <=> BetterRow(c, a)
                          /\ BetterRow(a, b) <=> BetterRow(a, c)
                          /\ SameRank(b, a) <=> SameRank(c, a)
    BY <2>1, RowOrder
  <2>5. /\ SameRank(b, a) => SameRank(a, b)
        /\ SameRank(c, b) => SameRank(b, c)
        /\ SameRank(c, a) => SameRank(a, c)
    BY DEF SameRank
  <2> HIDE DEF r
  <2>6. ~Up(a, a)
    BY <2>1, <2>2
  <2>7. Up(a, b) => ~Up(b, a)
    BY <2>1, <2>2, <2>3, <2>5
  <2>8. Up(a, b) /\ Up(b, c) => Up(a, c)
    BY <2>1, <2>2, <2>3, <2>4, <2>5
  <2>9. Up(a, b) /\ ~Up(c, b) => Up(a, c)
    BY <2>1, <2>2, <2>3, <2>4, <2>5
  <2>10. ~Up(b, a) /\ Up(b, c) => Up(a, c)
    BY <2>1, <2>2, <2>3, <2>4, <2>5
  <2>11. QED BY <2>6, <2>7, <2>8, <2>9, <2>10
<1>5. ASSUME NEW a \in T, NEW b \in T, RowAbove(ids, rating, a, b) PROVE ~BetterRow(b, a)
  <2>1. Up(a, b) \/ ~Up(b, a)
    BY <1>1, <1>5
  <2>2. ~Up(b, a)
    <3> HIDE DEF Up
    <3>1. QED BY <1>4, <2>1
  <2>3. QED BY <2>2
<1> HIDE DEF Up, above
<1>6. \A a \in T : <<a, a>> \notin above
  BY <1>1, <1>2, <1>3, <1>4
<1>7. ASSUME NEW a \in T, NEW b \in T, a # b PROVE <<a, b>> \in above \/ <<b, a>> \in above
  <2>1. at(a) \in Int /\ at(b) \in Int /\ at(a) # at(b)
    BY <1>3, <1>7
  <2>2. at(a) < at(b) \/ at(b) < at(a)
    <3> HIDE DEF at
    <3>1. QED BY <2>1
  <2> HIDE DEF at
  <2>3. QED BY <1>1, <1>2, <2>2
<1>8. ASSUME NEW a \in T, NEW b \in T, NEW c \in T, <<a, b>> \in above, <<b, c>> \in above
      PROVE  <<a, c>> \in above
  <2>1. Up(a, b) \/ (~Up(b, a) /\ at(a) < at(b))
    BY <1>1, <1>2, <1>8
  <2>2. Up(b, c) \/ (~Up(c, b) /\ at(b) < at(c))
    BY <1>1, <1>2, <1>8
  <2>3. at(a) \in Int /\ at(b) \in Int /\ at(c) \in Int
    BY <1>3
  <2>4. <<a, c>> \in above <=> Up(a, c) \/ (~Up(c, a) /\ at(a) < at(c))
    BY <1>1, <1>2
  <2> HIDE DEF at
  <2>5. CASE Up(a, b) \/ Up(b, c)
    <3>1. Up(a, b) => Up(a, c)
      BY <1>4, <2>2
    <3>2. Up(b, c) => Up(a, c)
      BY <1>4, <2>1
    <3>3. QED BY <2>4, <2>5, <3>1, <3>2
  <2>6. CASE ~Up(a, b) /\ ~Up(b, c)
    <3>1. ~Up(b, a) /\ ~Up(c, b) /\ at(a) < at(c)
      BY <2>1, <2>2, <2>3, <2>6
    <3>2. Up(c, a) => Up(c, b)
      BY <1>4, <3>1, <2>6
    <3>3. QED BY <2>4, <3>1, <3>2
  <2>7. QED BY <2>5, <2>6
<1>9. StrictOrder(T, above)
  BY <1>6, <1>7, <1>8 DEF StrictOrder
<1>10. QED
  BY <1>5, <1>9 DEF above

\* The results say who met whom: byes have the Ghost as white, never as black.
LEMMA OpponentsOfField ==
  ASSUME NEW ids, NEW start, NEW results, Len(results) \in Nat,
         \A i \in 1..Len(results) : results[i].black # Ghost,
         NEW p \in RangeOf(ids)
  PROVE  Tally(ids, start, results)[p].opponents \subseteq RangeOf(ids)
<1> DEFINE R == RangeOf(ids)
           mine == Of(results, R, p)
           games == {i \in mine : ~IsBye(results[i])}
<1>1. Tally(ids, start, results)[p].opponents =
        ({results[i].black : i \in games} \cup {results[i].white : i \in games}) \ {p}
  BY DEF Tally
<1>2. ASSUME NEW i \in games PROVE results[i].black \in R /\ results[i].white \in R
  <2>1. /\ i \in 1..Len(results) /\ results[i].white # Ghost
        /\ {results[i].black, results[i].white} \subseteq R \cup {Ghost}
    BY DEF Of, IsBye
  <2>2. results[i].black # Ghost
    BY <2>1
  <2>3. QED BY <2>1, <2>2
<1> HIDE DEF games, R
<1>3. QED
  BY <1>1, <1>2 DEF R

\* Scores, SOS and SOSOS are numbers.
LEMMA SumsAreWhole ==
  ASSUME NEW T, NEW ids \in Seq(T), Distinct(ids), NEW start, NEW results,
         Len(results) \in Nat,
         \A i \in 1..Len(results) : results[i].black # Ghost,
         \A p \in RangeOf(ids) : start[p] \in Int,
         NEW p \in RangeOf(ids)
  PROVE  LET tally == Tally(ids, start, results)
         IN  tally[p].score \in Int /\ SOS(tally)[p] \in Int /\ SOSOS(tally)[p] \in Int
<1> DEFINE R == RangeOf(ids)
           tally == Tally(ids, start, results)
           scores == [q \in DOMAIN tally |-> tally[q].score]
<1>1. DOMAIN tally = R
  BY DEF Tally
<1>2. ASSUME NEW q \in R
      PROVE  /\ tally[q].score \in Int /\ tally[q].opponents \subseteq R
             /\ IsFiniteSet(tally[q].opponents)
  <2>1. tally[q].score \in Int
    BY ScoreType
  <2>2. tally[q].opponents \subseteq R
    BY OpponentsOfField
  <2>3. IsFiniteSet(R)
    BY FieldSize
  <2> HIDE DEF tally, R
  <2>4. IsFiniteSet(tally[q].opponents)
    BY <2>2, <2>3, FS_Subset
  <2>5. QED BY <2>1, <2>2, <2>4
<1> HIDE DEF tally, R
<1>3. \A q \in R : scores[q] \in Int
  BY <1>1, <1>2
<1> HIDE DEF scores
<1>4. ASSUME NEW q \in R PROVE SOS(tally)[q] \in Int
  <2>1. SOS(tally)[q] = SumOver(tally[q].opponents, scores)
    BY <1>1 DEF SOS, scores
  <2>2. \A x \in tally[q].opponents : scores[x] \in Int
    BY <1>2, <1>3
  <2>3. QED BY <1>2, <2>1, <2>2, SumType
<1>5. ASSUME NEW q \in R PROVE SOSOS(tally)[q] \in Int
  <2>1. SOSOS(tally)[q] = SumOver(tally[q].opponents, SOS(tally))
    BY <1>1 DEF SOSOS
  <2>2. \A x \in tally[q].opponents : SOS(tally)[x] \in Int
    BY <1>2, <1>4
  <2>3. QED BY <1>2, <2>1, <2>2, SumType
<1>6. QED
  BY <1>2, <1>4, <1>5 DEF R, tally

\* The table has every player, and the places count who is better.
PlacesCount(t, n, R) ==
  /\ Len(t) = n
  /\ {t[i].row.player : i \in 1..n} = R
  /\ \A i \in 1..n :
       t[i].place = 1 + Cardinality({j \in 1..n : BetterRow(t[j].row, t[i].row)})

(***************************************************************************)
(* Standings of a field of any size, with any results: a place is one more *)
(* than the number of players who are better in score, SOS and SOSOS.      *)
(***************************************************************************)
THEOREM StandingsPlaces ==
  ASSUME NEW T, NEW ids \in Seq(T), Distinct(ids), NEW start, NEW rating,
         NEW results, Len(results) \in Nat,
         \A i \in 1..Len(results) : results[i].black # Ghost,
         \A p \in RangeOf(ids) : start[p] \in Int /\ rating[p] \in Int
  PROVE  PlacesCount(Standings(ids, start, rating, results), Len(ids), RangeOf(ids))
<1> DEFINE R == RangeOf(ids)
           n == Len(ids)
           tally == Tally(ids, start, results)
           rows == RowsOf(ids, start, results)
           U == RangeOf(rows)
           table == SortedTable(ids, rating, U)
           place == CHOOSE f : Placed(table, n, f)
           t == Standings(ids, start, rating, results)
<1>1. n \in Nat
  OBVIOUS
<1>2. Len(rows) = n /\ \A i \in 1..n :
        /\ rows[i].player = ids[i] /\ rows[i].score = tally[ids[i]].score
        /\ rows[i].sos = SOS(tally)[ids[i]] /\ rows[i].sosos = SOSOS(tally)[ids[i]]
  BY <1>1 DEF RowsOf
<1>3. \A p \in R : /\ tally[p].score \in Int
                   /\ SOS(tally)[p] \in Int /\ SOSOS(tally)[p] \in Int
  BY SumsAreWhole
<1>4. \A i \in 1..n : ids[i] \in R
  BY DEF RangeOf
<1>5. ASSUME NEW i \in 1..n, NEW j \in 1..n, rows[i].player = rows[j].player PROVE i = j
  BY <1>2, <1>5 DEF Distinct
<1>6. rows \in Seq(U) /\ Distinct(rows)
  <2>1. rows = [i \in 1..n |-> rows[i]]
    BY DEF RowsOf
  <2> HIDE DEF rows
  <2>2. \A i \in 1..n : rows[i] \in U
    BY <1>2 DEF RangeOf
  <2> HIDE DEF U
  <2>3. rows \in Seq(U)
    BY <1>1, <2>1, <2>2
  <2>4. Distinct(rows)
    BY <1>2, <1>5 DEF Distinct
  <2>5. QED BY <2>3, <2>4
<1> HIDE DEF tally, rows
<1>7. \A a \in U : \E i \in 1..n : a = rows[i]
  BY <1>2 DEF RangeOf
<1>8. \A i \in 1..n : rows[i] \in U
  BY <1>2 DEF RangeOf
<1> HIDE DEF U, R
<1>9. \A a \in U : /\ WholeRow(a) /\ rating[a.player] \in Int
                   /\ PlaceIn(ids, a.player) \in 1..n /\ a.player \in R
                   /\ ids[PlaceIn(ids, a.player)] = a.player
  <2>1. TAKE a \in U
  <2>2. PICK i \in 1..n : a = rows[i]
    BY <1>7
  <2>3. a.player = ids[i] /\ ids[i] \in R
    BY <1>2, <1>4, <2>2
  <2>4. WholeRow(a)
    BY <1>2, <1>3, <2>2, <2>3 DEF WholeRow
  <2>5. rating[a.player] \in Int
    BY <2>3 DEF R
  <2>6. PlaceIn(ids, a.player) \in 1..n /\ ids[PlaceIn(ids, a.player)] = a.player
    BY <2>3, PlaceFacts DEF R
  <2>7. QED BY <2>3, <2>4, <2>5, <2>6
<1>10. ASSUME NEW a \in U, NEW b \in U, PlaceIn(ids, a.player) = PlaceIn(ids, b.player)
       PROVE  a = b
  <2>1. a.player = b.player
    BY <1>9, <1>10
  <2>2. PICK i \in 1..n, j \in 1..n : a = rows[i] /\ b = rows[j]
    BY <1>7
  <2>3. QED BY <1>5, <2>1, <2>2
<1>11. IsFiniteSet(U) /\ Cardinality(U) = n
  BY <1>2, <1>6, FieldSize DEF U
<1> DEFINE above == {pr \in U \X U : RowAbove(ids, rating, pr[1], pr[2])}
<1>12. /\ StrictOrder(U, above)
       /\ \A a, b \in U : RowAbove(ids, rating, a, b) => ~BetterRow(b, a)
  <2>1. \A a \in U : /\ WholeRow(a) /\ rating[a.player] \in Int
                     /\ PlaceIn(ids, a.player) \in Int
    BY <1>1, <1>9
  <2>2. QED BY <1>10, <2>1, RowAboveOrders
<1>13. table = Ranked(U, above)
  BY DEF SortedTable
<1>14. \A a, b \in U : <<a, b>> \in above => ~BetterRow(b, a)
  BY <1>12
<1> HIDE DEF above, table
<1>15. /\ Lists(table, U)
       /\ \A j, k \in 1..n : j < k => <<table[j], table[k]>> \in above
  <2>1. /\ Lists(Ranked(U, above), U)
        /\ \A j, k \in 1..Cardinality(U) :
             j < k => <<Ranked(U, above)[j], Ranked(U, above)[k]>> \in above
    BY <1>11, <1>12, RankedLists
  <2>2. QED BY <1>11, <1>13, <2>1
<1>16. /\ \A i \in 1..n : table[i] \in U
       /\ \A a \in U : \E i \in 1..n : table[i] = a
  BY <1>11, <1>15 DEF Lists
<1>17. \A i \in 1..n : WholeRow(table[i])
  BY <1>9, <1>16
<1>18. \A j, k \in 1..n : j < k => ~BetterRow(table[k], table[j])
  BY <1>14, <1>15, <1>16
<1>19. Placed(table, n, place)
  BY <1>1, PlacedIsSome
<1> HIDE DEF place
<1>20. \A i \in 1..n : /\ place[i] \in 1..n
                       /\ \A j \in 1..n : BetterRow(table[j], table[i]) <=> j < place[i]
  BY <1>1, <1>17, <1>18, <1>19, PlacesAreAbove
<1>21. Len(t) = n /\ \A i \in 1..n : t[i].row = table[i] /\ t[i].place = place[i]
  <2>1. TableWithPlaces(t, n, table)
    BY <1>1, StandingsIs DEF table, U, rows
  <2> HIDE DEF t
  <2>2. QED BY <2>1 DEF TableWithPlaces, place
<1> HIDE DEF t, n
<1>22. {t[i].row.player : i \in 1..n} = R
  <2>1. ASSUME NEW i \in 1..n PROVE t[i].row.player \in R
    BY <1>9, <1>16, <1>21
  <2>2. ASSUME NEW p \in R PROVE \E i \in 1..n : t[i].row.player = p
    <3>1. PICK k \in 1..n : ids[k] = p
      BY DEF R, RangeOf, n
    <3>2. PICK i \in 1..n : table[i] = rows[k]
      BY <1>8, <1>16
    <3>3. QED BY <1>2, <1>21, <3>1, <3>2
  <2>3. QED BY <2>1, <2>2
<1>23. ASSUME NEW i \in 1..n
       PROVE  t[i].place = 1 + Cardinality({j \in 1..n : BetterRow(t[j].row, t[i].row)})
  <2> DEFINE better == {j \in 1..n : BetterRow(t[j].row, t[i].row)}
  <2>1. place[i] \in 1..n /\ place[i] \in Int /\ place[i] >= 1
    BY <1>1, <1>20
  <2>2. \A j \in 1..n : BetterRow(t[j].row, t[i].row) <=> j < place[i]
    BY <1>20, <1>21
  <2>3. better = 1..(place[i] - 1)
    BY <1>1, <2>1, <2>2
  <2>4. Cardinality(1..(place[i] - 1)) = place[i] - 1
    <3>1. 1 \in Int /\ place[i] - 1 \in Int
      BY <2>1
    <3>2. Cardinality(1..(place[i] - 1)) =
            IF 1 > place[i] - 1 THEN 0 ELSE (place[i] - 1) - 1 + 1
      BY <3>1, FS_Interval
    <3>3. QED BY <2>1, <3>2
  <2>5. Cardinality(better) = place[i] - 1
    <3> HIDE DEF better
    <3>1. Cardinality(better) = Cardinality(1..(place[i] - 1))
      BY <2>3, Zenon
    <3>2. QED BY <2>4, <3>1
  <2>6. t[i].place = 1 + Cardinality(better)
    <3> HIDE DEF better
    <3>1. QED BY <1>21, <2>1, <2>5
  <2>7. QED BY <2>6
<1>24. PlacesCount(t, n, R)
  BY <1>21, <1>22, <1>23 DEF PlacesCount
<1>25. QED
  BY <1>24 DEF t, n, R
=============================================================================
