---------------------------- MODULE EventProofs ----------------------------
(***************************************************************************)
(* The two formats as they run, for any number of players.                 *)
(*                                                                         *)
(* The loop of the circle method rotates an array in place.  The proof     *)
(* replaces the array by a closed form: after r rotations place i holds    *)
(* the seat Index(k, r, i).  The places i and n+1-i of one board then hold *)
(* seats whose sum is known up to multiples of n-1, which is odd, so that  *)
(* two seats determine the round they meet in; and a player passes from    *)
(* one half of the table to the other twice at most, which is where the    *)
(* colours stop alternating.                                               *)
(*                                                                         *)
(* A McMahon event is followed from round to round through its results:    *)
(* what McMahonRound and Standings do is proved in PairingProofs.          *)
(***************************************************************************)
EXTENDS RoundRobin, McMahon, PairingProofs

-----------------------------------------------------------------------------
(* The circle method. *)

\* Who sits on seat u, and the seat of player (or ghost) x.
Name(k, u) == IF u <= k THEN u ELSE Ghost
Seat(k, x) == IF x = Ghost THEN k + 1 ELSE x

Seating(k, r) == [i \in 1..Even(k) |-> Name(k, Index(k, r, i))]

LoopInv ==
  /\ size \in 2..MaxField
  /\ schedule \in Seq(Seq(PairingType))
  /\ Len(schedule) <= Even(size) - 1
  /\ arr = Seating(size, Len(schedule))
  /\ \A r \in 1..Len(schedule) : schedule[r] = LayRound(Seating(size, r - 1), r - 1)

-----------------------------------------------------------------------------
(* From seats to players. *)

\* Everybody at the table has one seat.
LEMMA SeatName ==
  ASSUME LoopInv, NEW x \in Table
  PROVE  /\ Seat(size, x) \in 1..Even(size)
         /\ \A u \in 1..Even(size) : Name(size, u) = x <=> u = Seat(size, x)
<1>1. size \in Nat /\ size >= 2
  BY FieldAssumption DEF LoopInv
<1>2. CASE size % 2 = 1
  BY <1>1, <1>2 DEF Even, Seat, Name, Table, Field, Ghost
<1>3. CASE size % 2 # 1
  BY <1>1, <1>3 DEF Even, Seat, Name, Table, Field, Ghost
<1> QED BY <1>2, <1>3

\* Different people have different seats.
LEMMA SeatInjective ==
  ASSUME LoopInv, NEW x \in Table, NEW y \in Table, x # y
  PROVE  Seat(size, x) # Seat(size, y)
BY SeatName

\* A round has half as many boards as the table has seats.
LEMMA RoundLength ==
  ASSUME NEW k \in Nat, k >= 2, NEW r \in Nat
  PROVE  /\ Len(Seating(k, r)) = Even(k)
         /\ DOMAIN LayRound(Seating(k, r), r) = 1..(Even(k) \div 2)
         /\ Len(LayRound(Seating(k, r), r)) = Even(k) \div 2
<1>1. Even(k) \in Nat /\ Even(k) \div 2 \in Nat
  BY EvenFacts
<1>2. Len(Seating(k, r)) = Even(k)
  BY <1>1 DEF Seating
<1> QED BY <1>1, <1>2 DEF LayRound

\* A board has the people of two opposite places, whatever the colours.
LEMMA BothSeats ==
  ASSUME NEW k \in Nat, k >= 2, NEW r \in Nat, NEW i \in 1..(Even(k) \div 2)
  PROVE  Both(LayRound(Seating(k, r), r)[i])
           = {Name(k, Index(k, r, i)), Name(k, Index(k, r, Even(k) + 1 - i))}
<1> DEFINE arr0 == Seating(k, r)
           n == Even(k)
<1>1. /\ n \in Nat /\ n = 2 * (n \div 2) /\ n \div 2 \in Nat
      /\ Len(arr0) = n
  BY EvenFacts, RoundLength
<1>2. i \in 1..n /\ n + 1 - i \in 1..n
  BY <1>1
<1>3. /\ arr0[i] = Name(k, Index(k, r, i))
      /\ arr0[Opposite(arr0, i)] = Name(k, Index(k, r, n + 1 - i))
  BY <1>1, <1>2 DEF Seating, Opposite
<1>4. LayRound(arr0, r)[i] = LayBoard(arr0, r, i)
  BY <1>1 DEF LayRound
<1> HIDE DEF arr0, n
<1>5. Both(LayBoard(arr0, r, i)) = {arr0[i], arr0[Opposite(arr0, i)]}
  BY DEF Both, LayBoard, HasGhost
<1> QED BY <1>3, <1>4, <1>5 DEF arr0, n

\* A round of the schedule, in closed form.
LEMMA RoundOf ==
  ASSUME LoopInv, NEW r \in 1..Len(schedule)
  PROVE  /\ size \in Nat /\ size >= 2
         /\ r - 1 \in Nat /\ r - 1 < Even(size) - 1
         /\ Len(schedule[r]) = Even(size) \div 2
         /\ \A i \in 1..(Even(size) \div 2) :
              Both(schedule[r][i]) = {Name(size, Index(size, r - 1, i)),
                                      Name(size, Index(size, r - 1, Even(size) + 1 - i))}
<1>1. size \in Nat /\ size >= 2 /\ Len(schedule) \in Nat
  BY FieldAssumption DEF LoopInv
<1>2. r - 1 \in Nat /\ r - 1 < Even(size) - 1
  <2>1. Even(size) \in Nat
    BY <1>1, EvenFacts
  <2>2. Len(schedule) <= Even(size) - 1
    BY DEF LoopInv
  <2> QED BY <1>1, <2>1, <2>2
<1>3. schedule[r] = LayRound(Seating(size, r - 1), r - 1)
  BY DEF LoopInv
<1> QED BY <1>1, <1>2, <1>3, RoundLength, BothSeats

\* x meets y exactly if their seats come to opposite places.
LEMMA MeetsSeats ==
  ASSUME LoopInv, NEW r \in 1..Len(schedule), NEW x \in Table, NEW y \in Table,
         x # y
  PROVE  Meets(r, x, y) <=>
           \E i \in 1..Even(size) :
             /\ Index(size, r - 1, i) = Seat(size, x)
             /\ Index(size, r - 1, Even(size) + 1 - i) = Seat(size, y)
<1> DEFINE n == Even(size)
           h == n \div 2
           In(i) == Index(size, r - 1, i)
<1>0. size \in Nat /\ size >= 2 /\ r - 1 \in Nat /\ r - 1 < n - 1
  BY RoundOf
<1>1. /\ n \in Nat /\ n >= 2 /\ n = 2 * h /\ h \in Nat
      /\ Len(schedule[r]) = h
      /\ \A i \in 1..h :
           Both(schedule[r][i]) = {Name(size, In(i)), Name(size, In(n + 1 - i))}
  BY RoundOf, EvenFacts
<1>2. \A i \in 1..n : In(i) \in 1..n /\ n + 1 - i \in 1..n
  <2>1. r - 1 < n
    BY <1>0, <1>1
  <2>2. \A i \in 1..n : In(i) \in 1..n
    BY <1>0, <2>1, FieldPlaces
  <2>3. \A i \in 1..n : n + 1 - i \in 1..n
    <3>1. n \in Nat
      BY <1>1
    <3> HIDE DEF n
    <3> QED BY <3>1
  <2> QED BY <2>2, <2>3
<1>3. \A i \in 1..n : /\ Name(size, In(i)) = x <=> In(i) = Seat(size, x)
                      /\ Name(size, In(i)) = y <=> In(i) = Seat(size, y)
  BY <1>2, SeatName
<1> HIDE DEF n, h, In
<1>4. ASSUME NEW i \in 1..Len(schedule[r]), Both(schedule[r][i]) = {x, y}
      PROVE  \E j \in 1..n : In(j) = Seat(size, x) /\ In(n + 1 - j) = Seat(size, y)
  <2>1. i \in 1..n /\ n + 1 - i \in 1..n /\ n + 1 - (n + 1 - i) = i
    BY <1>1
  <2>2. {Name(size, In(i)), Name(size, In(n + 1 - i))} = {x, y}
    BY <1>1, <1>4
  <2>3. CASE Name(size, In(i)) = x
    <3>1. Name(size, In(n + 1 - i)) = y
      BY <2>2, <2>3
    <3> QED BY <2>1, <2>3, <3>1, <1>3
  <2>4. CASE Name(size, In(i)) = y
    <3>1. Name(size, In(n + 1 - i)) = x
      BY <2>2, <2>4
    <3> QED BY <2>1, <2>4, <3>1, <1>3
  <2> QED BY <2>2, <2>3, <2>4
<1>5. ASSUME NEW j \in 1..n, In(j) = Seat(size, x), In(n + 1 - j) = Seat(size, y)
      PROVE  Meets(r, x, y)
  <2>1. Name(size, In(j)) = x /\ Name(size, In(n + 1 - j)) = y
    BY <1>2, <1>3, <1>5
  <2>2. CASE j <= h
    <3>1. j \in 1..h
      BY <1>1, <2>2
    <3>2. Both(schedule[r][j]) = {x, y}
      BY <1>1, <2>1, <3>1
    <3> QED BY <1>1, <3>1, <3>2 DEF Meets
  <2>3. CASE j > h
    <3>1. n + 1 - j \in 1..h /\ n + 1 - (n + 1 - j) = j
      BY <1>1, <2>3
    <3>2. Both(schedule[r][n + 1 - j])
            = {Name(size, In(n + 1 - j)), Name(size, In(n + 1 - (n + 1 - j)))}
      BY <1>1, <3>1
    <3>3. Both(schedule[r][n + 1 - j]) = {x, y}
      BY <2>1, <3>1, <3>2
    <3> QED BY <1>1, <3>1, <3>3 DEF Meets
  <2> QED BY <1>1, <2>2, <2>3
<1> QED BY <1>4, <1>5 DEF Meets, n, h, In

-----------------------------------------------------------------------------
(* The properties, from the closed form. *)

LEMMA InvNoRematch ==
  ASSUME LoopInv
  PROVE  NoRematch
<1> SUFFICES ASSUME NEW q \in 1..Len(schedule), NEW r \in 1..Len(schedule),
                    NEW x \in Table, NEW y \in Table, x # y,
                    Meets(q, x, y), Meets(r, x, y)
             PROVE  q = r
  BY DEF NoRematch
<1> DEFINE n == Even(size)
<1>1. PICK i \in 1..n : /\ Index(size, q - 1, i) = Seat(size, x)
                        /\ Index(size, q - 1, n + 1 - i) = Seat(size, y)
  BY MeetsSeats
<1>2. PICK j \in 1..n : /\ Index(size, r - 1, j) = Seat(size, x)
                        /\ Index(size, r - 1, n + 1 - j) = Seat(size, y)
  BY MeetsSeats
<1>3. /\ q - 1 \in Nat /\ q - 1 < n - 1 /\ r - 1 \in Nat /\ r - 1 < n - 1
      /\ size \in Nat /\ size >= 2
  BY RoundOf
<1>4. q - 1 = r - 1
  BY <1>1, <1>2, <1>3, FieldOneRound
<1> QED BY <1>4

LEMMA InvEveryoneMeets ==
  ASSUME LoopInv
  PROVE  EveryoneMeets
<1> SUFFICES ASSUME Finished, NEW x \in Table, NEW y \in Table, x # y
             PROVE  \E r \in 1..Len(schedule) : Meets(r, x, y)
  BY DEF EveryoneMeets
<1> DEFINE n == Even(size)
           u == Seat(size, x)
           v == Seat(size, y)
<1>1. size \in Nat /\ size >= 2
  BY FieldAssumption DEF LoopInv
<1>2. n \in Nat /\ n >= 2
  BY <1>1, EvenFacts
<1>3. u \in 1..n /\ v \in 1..n /\ u # v
  BY SeatName, SeatInjective
<1>4. Len(schedule) = n - 1
  <2>1. Len(arr) = n
    BY <1>2 DEF LoopInv, Seating
  <2> QED BY <2>1 DEF Finished
<1>6. PICK r \in 0..(n - 2) : Place(size, r, u) + Place(size, r, v) = n + 1
  BY <1>1, <1>3, FieldSomeRound
<1> DEFINE i == Place(size, r, u)
<1>7. /\ i \in 1..n /\ Index(size, r, i) = u
      /\ Place(size, r, v) \in 1..n /\ Index(size, r, Place(size, r, v)) = v
  <2>1. r \in Nat /\ r < n
    BY <1>2
  <2> QED BY <1>1, <1>3, <2>1, FieldPlaces
<1> HIDE DEF n, i
<1>9. n + 1 - i = Place(size, r, v)
  BY <1>2, <1>6, <1>7 DEF i
<1>10. r + 1 \in 1..Len(schedule) /\ (r + 1) - 1 = r
  BY <1>2, <1>4
<1>11. Meets(r + 1, x, y)
  BY <1>7, <1>9, <1>10, MeetsSeats DEF n
<1> QED BY <1>10, <1>11

\* x sits at board i exactly if one of its two places is x's.
LEMMA SitsAt ==
  ASSUME LoopInv, NEW r \in 1..Len(schedule), NEW x \in Table,
         NEW i \in 1..(Even(size) \div 2)
  PROVE  x \in Both(schedule[r][i]) <=>
           \/ i = Place(size, r - 1, Seat(size, x))
           \/ Even(size) + 1 - i = Place(size, r - 1, Seat(size, x))
<1> DEFINE n == Even(size)
           h == n \div 2
           In(j) == Index(size, r - 1, j)
           u == Seat(size, x)
           place == Place(size, r - 1, u)
<1>0. size \in Nat /\ size >= 2 /\ r - 1 \in Nat /\ r - 1 < n - 1
  BY RoundOf
<1>1. n \in Nat /\ n >= 2 /\ n = 2 * h /\ h \in Nat
  BY <1>0, EvenFacts
<1>2. Both(schedule[r][i]) = {Name(size, In(i)), Name(size, In(n + 1 - i))}
  BY RoundOf
<1>3. u \in 1..n /\ \A v \in 1..n : Name(size, v) = x <=> v = u
  BY SeatName
<1>4. \A j \in 1..n : In(j) \in 1..n /\ (In(j) = u <=> j = place)
  <2>1. r - 1 < n
    BY <1>0, <1>1
  <2>2. /\ \A j \in 1..n : In(j) \in 1..n /\ Place(size, r - 1, In(j)) = j
        /\ In(place) = u
    BY <1>0, <1>3, <2>1, FieldPlaces
  <2> HIDE DEF n, h, In, u
  <2> QED BY <2>2
<1>5. i \in 1..n /\ n + 1 - i \in 1..n
  <2>1. i \in 1..h
    OBVIOUS
  <2> HIDE DEF n, h
  <2> QED BY <1>1, <2>1
<1> HIDE DEF n, h, In, u, place
<1> QED BY <1>2, <1>3, <1>4, <1>5 DEF n, u, place

LEMMA InvOneBoardEach ==
  ASSUME LoopInv
  PROVE  OneBoardEach
<1> SUFFICES ASSUME NEW r \in 1..Len(schedule), NEW x \in Table
             PROVE  /\ \E i \in 1..Len(schedule[r]) : x \in Both(schedule[r][i])
                    /\ \A i, j \in 1..Len(schedule[r]) :
                         x \in Both(schedule[r][i]) /\ x \in Both(schedule[r][j])
                           => i = j
  BY DEF OneBoardEach
<1> DEFINE n == Even(size)
           h == n \div 2
           place == Place(size, r - 1, Seat(size, x))
<1>1. /\ size \in Nat /\ size >= 2 /\ r - 1 \in Nat /\ r - 1 < n - 1
      /\ Len(schedule[r]) = h
  BY RoundOf
<1>2. n \in Nat /\ n >= 2 /\ n = 2 * h /\ h \in Nat
  BY <1>1, EvenFacts
<1>3. place \in 1..n
  <2>1. r - 1 < n
    BY <1>1, <1>2
  <2> QED BY <1>1, <2>1, SeatName, FieldPlaces
<1>4. \A i \in 1..h :
        x \in Both(schedule[r][i]) <=> (i = place \/ n + 1 - i = place)
  BY SitsAt
<1> HIDE DEF n, h, place
<1>5. PICK i \in 1..h : i = place \/ n + 1 - i = place
  <2>1. CASE place <= h
    BY <1>2, <1>3, <2>1
  <2>2. CASE place > h
    <3>1. n + 1 - place \in 1..h /\ n + 1 - (n + 1 - place) = place
      BY <1>2, <1>3, <2>2
    <3> QED BY <3>1
  <2> QED BY <1>2, <1>3, <2>1, <2>2
<1>6. ASSUME NEW i1 \in 1..h, NEW i2 \in 1..h,
             i1 = place \/ n + 1 - i1 = place, i2 = place \/ n + 1 - i2 = place
      PROVE  i1 = i2
  BY <1>2, <1>3, <1>6
<1> QED BY <1>1, <1>4, <1>5, <1>6

-----------------------------------------------------------------------------
(* The colours. *)

\* The members of P up to t.
Count(P, t) == Cardinality({r \in 1..t : r \in P})

LEMMA CountSteps ==
  ASSUME NEW P
  PROVE  /\ Count(P, 0) = 0
         /\ \A t \in Nat : /\ Count(P, t) \in Nat
                           /\ Count(P, t + 1) = Count(P, t) + (IF t + 1 \in P THEN 1 ELSE 0)
<1> DEFINE Upto(t) == {r \in 1..t : r \in P}
<1>1. ASSUME NEW t \in Nat PROVE IsFiniteSet(Upto(t)) /\ Cardinality(Upto(t)) \in Nat
  <2>1. IsFiniteSet(1..t)
    BY FS_Interval
  <2>2. Upto(t) \in SUBSET (1..t)
    OBVIOUS
  <2> HIDE DEF Upto
  <2>3. QED BY <2>1, <2>2, FS_Subset, FS_CardinalityType
<1>2. Cardinality(Upto(0)) = 0
  <2>1. Upto(0) = {}
    OBVIOUS
  <2> HIDE DEF Upto
  <2>2. QED BY <2>1, FS_EmptySet
<1>3. ASSUME NEW t \in Nat
      PROVE  Cardinality(Upto(t + 1)) = Cardinality(Upto(t)) + (IF t + 1 \in P THEN 1 ELSE 0)
  <2>1. t + 1 \notin Upto(t)
    OBVIOUS
  <2>2. CASE t + 1 \in P
    <3>1. Upto(t + 1) = Upto(t) \cup {t + 1}
      BY <2>2
    <3> HIDE DEF Upto
    <3>2. Cardinality(Upto(t) \cup {t + 1}) = Cardinality(Upto(t)) + 1
      BY <1>1, <2>1, FS_AddElement
    <3>3. Cardinality(Upto(t + 1)) = Cardinality(Upto(t) \cup {t + 1})
      BY <3>1, Zenon
    <3>4. QED BY <2>2, <3>2, <3>3
  <2>3. CASE t + 1 \notin P
    <3>1. Upto(t + 1) = Upto(t)
      BY <2>3
    <3> HIDE DEF Upto
    <3>2. Cardinality(Upto(t + 1)) = Cardinality(Upto(t))
      BY <3>1, Zenon
    <3>3. QED BY <1>1, <2>3, <3>2
  <2>4. QED BY <2>2, <2>3
<1>4. QED
  BY <1>1, <1>2, <1>3 DEF Count

\* The rounds after which B goes on as it was.
Repeats(B, m) == {r \in 1..(m - 1) : r \in B <=> r + 1 \in B}

\* Rounds that alternate, but for some repeats, are out of balance by one
\* more than the repeats at most.
LEMMA Alternating ==
  ASSUME NEW m \in Nat, m >= 1, NEW B
  PROVE  LET c == Count(Repeats(B, m), m - 1)
             W == {r \in 1..m : r \notin B}
         IN  /\ Count(B, m) - Count(W, m) <= c + 1
             /\ Count(W, m) - Count(B, m) <= c + 1
<1> DEFINE W == {r \in 1..m : r \notin B}
           R == Repeats(B, m)
           b(t) == Count(B, t)
           w(t) == Count(W, t)
           c(t) == Count(R, t - 1)
           Balanced(t) == /\ t \in B => b(t) - w(t) <= c(t) + 1 /\ w(t) - b(t) <= c(t)
                          /\ t \notin B => b(t) - w(t) <= c(t) /\ w(t) - b(t) <= c(t) + 1
           S == {t \in 0..m : t > 0 => Balanced(t)}
<1>1. \A P : /\ Count(P, 0) = 0
             /\ \A t \in Nat : /\ Count(P, t) \in Nat
                               /\ Count(P, t + 1) = Count(P, t) + (IF t + 1 \in P THEN 1 ELSE 0)
  BY CountSteps
<1>2. \A t \in 1..m : t \in W <=> t \notin B
  OBVIOUS
<1>3. \A t \in 1..(m - 1) : t \in R <=> (t \in B <=> t + 1 \in B)
  BY DEF Repeats
<1> HIDE DEF W, R
<1>4. 0 \in S
  OBVIOUS
<1>5. ASSUME NEW t \in 0..(m - 1), t \in S PROVE t + 1 \in S
  <2>1. t \in Nat /\ t + 1 \in 1..m /\ t + 1 \in 0..m /\ (t + 1) - 1 = t
    OBVIOUS
  <2>2. /\ b(t) \in Nat /\ b(t + 1) = b(t) + (IF t + 1 \in B THEN 1 ELSE 0)
        /\ w(t) \in Nat /\ w(t + 1) = w(t) + (IF t + 1 \in W THEN 1 ELSE 0)
    BY <1>1, <2>1
  <2>3. t + 1 \in W <=> t + 1 \notin B
    BY <1>2, <2>1
  <2>4. CASE t = 0
    <3>1. b(t) = 0 /\ w(t) = 0 /\ c(t + 1) = 0
      BY <1>1, <2>4
    <3> HIDE DEF b, w, c
    <3>2. Balanced(t + 1)
      BY <2>2, <2>3, <3>1
    <3>3. QED BY <2>1, <3>2
  <2>5. CASE t > 0
    <3>1. Balanced(t)
      BY <1>5, <2>5
    <3>2. t \in 1..(m - 1) /\ t - 1 \in Nat /\ (t - 1) + 1 = t
      BY <2>5
    <3>3. c(t) \in Nat /\ c(t + 1) = c(t) + (IF t \in R THEN 1 ELSE 0)
      <4>1. Count(R, t - 1) \in Nat
        BY <1>1, <3>2
      <4>2. Count(R, t) = Count(R, t - 1) + (IF t \in R THEN 1 ELSE 0)
        BY <1>1, <3>2
      <4>3. QED BY <2>1, <4>1, <4>2
    <3>4. t \in R <=> (t \in B <=> t + 1 \in B)
      BY <1>3, <3>2
    <3> HIDE DEF b, w, c
    <3>5. Balanced(t + 1)
      BY <2>2, <2>3, <3>1, <3>3, <3>4
    <3>6. QED BY <2>1, <3>5
  <2>6. QED BY <2>4, <2>5
<1>6. 0..m \subseteq S
  <2> HIDE DEF S
  <2>1. QED BY <1>4, <1>5, Induct
<1>7. Balanced(m)
  BY <1>6
<1>8. b(m) \in Nat /\ w(m) \in Nat /\ c(m) \in Nat
  <2>1. m - 1 \in Nat
    OBVIOUS
  <2>2. QED BY <1>1, <2>1
<1>9. b(m) - w(m) <= c(m) + 1 /\ w(m) - b(m) <= c(m) + 1
  <2> HIDE DEF b, w, c
  <2>1. QED BY <1>7, <1>8
<1>10. QED
  BY <1>9 DEF W, R

\* The place of player x in round r, and whether it is one for black.
At(x, r) == Place(size, r - 1, x)

Dark(x, r) == r % 2 = 1 <=> At(x, r) <= Even(size) \div 2

\* Player 1 stays at place 1; everybody else moves on, and never comes back
\* to a place.
LEMMA AtMoves ==
  ASSUME NEW n \in Nat, n >= 2, Even(size) = n, NEW x \in 1..n
  PROVE  /\ \A r \in 1..(n - 1) : At(x, r) \in 1..n
         /\ x = 1 => \A r \in 1..(n - 1) : At(x, r) = 1
         /\ x > 1 => /\ \A r \in 1..(n - 2) :
                          At(x, r + 1) = IF At(x, r) < n THEN At(x, r) + 1 ELSE 2
                     /\ \A q, r \in 1..(n - 1) : At(x, q) = At(x, r) => q = r
<1>1. \A r \in 1..(n - 1) :
        At(x, r) = IF x = 1 THEN 1
                   ELSE IF x + (r - 1) <= n THEN x + (r - 1) ELSE x + (r - 1) - (n - 1)
  BY DEF At, Place
<1>2. \A r \in 1..(n - 1) : At(x, r) \in 1..n
  <2>1. TAKE r \in 1..(n - 1)
  <2> QED BY <1>1
<1>3. x = 1 => \A r \in 1..(n - 1) : At(x, r) = 1
  BY <1>1
<1>4. ASSUME x > 1, NEW r \in 1..(n - 2)
      PROVE  At(x, r + 1) = IF At(x, r) < n THEN At(x, r) + 1 ELSE 2
  <2>1. r \in 1..(n - 1) /\ r + 1 \in 1..(n - 1) /\ (r + 1) - 1 = r
    OBVIOUS
  <2>2. At(x, r) = IF x + (r - 1) <= n THEN x + (r - 1) ELSE x + (r - 1) - (n - 1)
    BY <1>1, <1>4, <2>1
  <2>3. At(x, r + 1) = IF x + r <= n THEN x + r ELSE x + r - (n - 1)
    BY <1>1, <1>4, <2>1
  <2> QED BY <1>4, <2>2, <2>3
<1>5. ASSUME x > 1, NEW q \in 1..(n - 1), NEW r \in 1..(n - 1), At(x, q) = At(x, r)
      PROVE  q = r
  <2>1. At(x, q) = IF x + (q - 1) <= n THEN x + (q - 1) ELSE x + (q - 1) - (n - 1)
    BY <1>1, <1>5
  <2>2. At(x, r) = IF x + (r - 1) <= n THEN x + (r - 1) ELSE x + (r - 1) - (n - 1)
    BY <1>1, <1>5
  <2> DEFINE to(t) == IF x + (t - 1) <= n THEN x + (t - 1) ELSE x + (t - 1) - (n - 1)
  <2>3. to(q) = to(r)
    BY <1>5, <2>1, <2>2
  <2> QED BY <2>3
<1> QED BY <1>2, <1>3, <1>4, <1>5

\* The place is for the same colour in two rounds running only where the
\* player goes from one half of the table to the other.
LEMMA DarkRepeats ==
  ASSUME size \in Nat, size >= 2, NEW x \in 1..Even(size), NEW r \in 1..(Even(size) - 2),
         Dark(x, r) <=> Dark(x, r + 1)
  PROVE  x > 1 /\ At(x, r) \in {Even(size) \div 2, Even(size)}
<1> DEFINE n == Even(size)
           h == n \div 2
<1>1. n \in Nat /\ n >= 2 /\ n = 2 * h /\ h \in Nat
  BY EvenFacts
<1>2. \/ r % 2 = 1 /\ (r + 1) % 2 # 1
      \/ r % 2 # 1 /\ (r + 1) % 2 = 1
  <2>1. r \in Nat
    BY <1>1
  <2> QED BY <2>1
<1>3. ~(At(x, r) <= h <=> At(x, r + 1) <= h)
  <2> HIDE DEF n, h
  <2> QED BY <1>2 DEF Dark, n, h
<1>4. /\ At(x, r) \in 1..n
      /\ x = 1 => At(x, r) = 1 /\ At(x, r + 1) = 1
      /\ x > 1 => At(x, r + 1) = IF At(x, r) < n THEN At(x, r) + 1 ELSE 2
  <2>1. x \in 1..n /\ r \in 1..(n - 2)
    OBVIOUS
  <2> HIDE DEF n, h
  <2>2. r \in 1..(n - 1) /\ r + 1 \in 1..(n - 1)
    BY <1>1, <2>1
  <2> QED BY <1>1, <2>1, <2>2, AtMoves DEF n
<1>5. x \in 1..n
  OBVIOUS
<1> HIDE DEF n, h
<1>6. x > 1
  BY <1>1, <1>3, <1>4, <1>5
<1>7. At(x, r) = h \/ At(x, r) = n
  BY <1>1, <1>3, <1>4, <1>6
<1> QED BY <1>6, <1>7 DEF n, h

\* The colours of a board, in the terms of the table.
LEMMA BoardColours ==
  ASSUME NEW a, NEW r, NEW i, NEW b, b = LayBoard(a, r, i), NEW o, o = Opposite(a, i)
  PROVE  /\ IsBye(b) <=> HasGhost(a, i)
         /\ HasGhost(a, i) <=> a[i] = Ghost \/ a[o] = Ghost
         /\ HasGhost(a, i) => /\ b.white = Ghost
                              /\ b.black = IF a[i] = Ghost THEN a[o] ELSE a[i]
         /\ ~HasGhost(a, i) => /\ b.black = IF r % 2 = 1 THEN a[o] ELSE a[i]
                               /\ b.white = IF r % 2 = 1 THEN a[i] ELSE a[o]
<1>1. HasGhost(a, i) <=> a[i] = Ghost \/ a[o] = Ghost
  BY DEF HasGhost
<1>2. ASSUME HasGhost(a, i)
      PROVE  b = [board |-> 0, black |-> IF a[i] = Ghost THEN a[o] ELSE a[i], white |-> Ghost]
  BY <1>2 DEF LayBoard
<1>3. ASSUME ~HasGhost(a, i)
      PROVE  b = [board |-> Cardinality({j \in 1..i : ~HasGhost(a, j)}),
                  black |-> IF r % 2 = 1 THEN a[o] ELSE a[i],
                  white |-> IF r % 2 = 1 THEN a[i] ELSE a[o]]
  BY <1>3 DEF LayBoard
<1>4. HasGhost(a, i) => /\ b.white = Ghost
                        /\ b.black = IF a[i] = Ghost THEN a[o] ELSE a[i]
  BY <1>2
<1>5. ~HasGhost(a, i) => /\ b.black = IF r % 2 = 1 THEN a[o] ELSE a[i]
                         /\ b.white = IF r % 2 = 1 THEN a[i] ELSE a[o]
  BY <1>3
<1>6. IsBye(b) <=> HasGhost(a, i)
  BY <1>1, <1>4, <1>5 DEF IsBye
<1> QED BY <1>1, <1>4, <1>5, <1>6

\* The colour a player has in a round is that of the place, and only a bye
\* leaves one without a colour.
LEMMA ColourAt ==
  ASSUME LoopInv, NEW r \in 1..Len(schedule), NEW x \in Field
  PROVE  /\ r \in BlackIn(x) => Dark(x, r)
         /\ r \in WhiteIn(x) => ~Dark(x, r)
         /\ r \in BlackIn(x) \/ r \in WhiteIn(x)
              \/ (size % 2 = 1 /\ Meets(r, x, Ghost))
<1> DEFINE n == Even(size)
           h == n \div 2
           a == Seating(size, r - 1)
           p == At(x, r)
<1>1. /\ size \in Nat /\ size >= 2 /\ r - 1 \in Nat /\ r - 1 < n - 1
      /\ Len(schedule[r]) = h
  BY RoundOf
<1>2. /\ n \in Nat /\ n >= 2 /\ n = 2 * h /\ h \in Nat
      /\ size % 2 # 1 => n = size
  BY <1>1, EvenFacts
<1>3. x \in Table /\ Seat(size, x) = x /\ x # Ghost /\ x \in 1..n
  <2>1. x \in Table /\ Seat(size, x) = x /\ x # Ghost
    BY <1>1 DEF Field, Table, Seat, Ghost
  <2>2. Seat(size, x) \in 1..n
    BY <2>1, SeatName
  <2> QED BY <2>1, <2>2
<1>4. p \in 1..n /\ \A j \in 1..n : a[j] = x <=> j = p
  <2>1. r - 1 < n
    BY <1>1, <1>2
  <2>2. \A j \in 1..n : a[j] = Name(size, Index(size, r - 1, j))
    BY DEF Seating
  <2>3. \A u \in 1..n : Name(size, u) = x <=> u = x
    BY <1>3, SeatName
  <2>4. /\ \A j \in 1..n : Index(size, r - 1, j) \in 1..n
                           /\ Place(size, r - 1, Index(size, r - 1, j)) = j
        /\ p \in 1..n /\ Index(size, r - 1, p) = x
    BY <1>1, <1>3, <2>1, FieldPlaces DEF At
  <2> HIDE DEF n, a, p
  <2> QED BY <2>2, <2>3, <2>4 DEF p, At
<1>5. ASSUME NEW i \in 1..h
      PROVE  LET b == schedule[r][i]
             IN  /\ IsBye(b) <=> HasGhost(a, i)
                 /\ HasGhost(a, i) <=> a[i] = Ghost \/ a[n + 1 - i] = Ghost
                 /\ HasGhost(a, i) =>
                      /\ b.white = Ghost
                      /\ b.black = IF a[i] = Ghost THEN a[n + 1 - i] ELSE a[i]
                 /\ ~HasGhost(a, i) =>
                      /\ b.black = IF (r - 1) % 2 = 1 THEN a[n + 1 - i] ELSE a[i]
                      /\ b.white = IF (r - 1) % 2 = 1 THEN a[i] ELSE a[n + 1 - i]
  <2>1. schedule[r] = LayRound(a, r - 1)
    BY DEF LoopInv
  <2>2. Len(a) = n
    BY <1>1, RoundLength
  <2> HIDE DEF a, n
  <2>3. schedule[r][i] = LayBoard(a, r - 1, i) /\ n + 1 - i = Opposite(a, i)
    BY <2>1, <2>2 DEF LayRound, Opposite, h
  <2> QED BY <2>3, BoardColours
<1>6. \A j \in 1..n : a[j] = Ghost => size % 2 = 1
  <2> SUFFICES ASSUME NEW j \in 1..n, a[j] = Ghost, size % 2 # 1 PROVE FALSE
    OBVIOUS
  <2>1. a[j] = Name(size, Index(size, r - 1, j)) /\ Index(size, r - 1, j) \in 1..n
    <3>1. r - 1 < n
      BY <1>1, <1>2
    <3> QED BY <1>1, <3>1, FieldPlaces DEF Seating
  <2> QED BY <1>1, <1>2, <2>1 DEF Name, Ghost
<1>7. (r - 1) % 2 = 1 <=> r % 2 # 1
  <2>1. r \in Nat
    BY <1>1
  <2> QED BY <2>1
<1>8. Dark(x, r) <=> (r % 2 = 1 <=> p <= h)
  BY DEF Dark
<1> HIDE DEF n, h, a, p
<1>9. ASSUME NEW i \in 1..h
      PROVE  i \in 1..n /\ n + 1 - i \in 1..n /\ i <= h /\ ~(n + 1 - i <= h)
  BY <1>2
<1>10. ASSUME NEW i \in 1..h, ~IsBye(schedule[r][i])
       PROVE  /\ schedule[r][i].black = IF r % 2 = 1 THEN a[i] ELSE a[n + 1 - i]
              /\ schedule[r][i].white = IF r % 2 = 1 THEN a[n + 1 - i] ELSE a[i]
  <2>1. ~HasGhost(a, i)
    BY <1>5, <1>10
  <2> QED BY <1>5, <1>7, <2>1
<1>11. ASSUME r \in BlackIn(x) PROVE Dark(x, r)
  <2>1. PICK i \in 1..h : ~IsBye(schedule[r][i]) /\ schedule[r][i].black = x
    BY <1>1, <1>11 DEF BlackIn
  <2>2. (IF r % 2 = 1 THEN a[i] ELSE a[n + 1 - i]) = x
    BY <1>10, <2>1
  <2>3. CASE r % 2 = 1
    BY <1>4, <1>8, <1>9, <2>2, <2>3
  <2>4. CASE r % 2 # 1
    BY <1>4, <1>8, <1>9, <2>2, <2>4
  <2> QED BY <2>3, <2>4
<1>12. ASSUME r \in WhiteIn(x) PROVE ~Dark(x, r)
  <2>1. PICK i \in 1..h : ~IsBye(schedule[r][i]) /\ schedule[r][i].white = x
    BY <1>1, <1>12 DEF WhiteIn
  <2>2. (IF r % 2 = 1 THEN a[n + 1 - i] ELSE a[i]) = x
    BY <1>10, <2>1
  <2>3. CASE r % 2 = 1
    BY <1>4, <1>8, <1>9, <2>2, <2>3
  <2>4. CASE r % 2 # 1
    BY <1>4, <1>8, <1>9, <2>2, <2>4
  <2> QED BY <2>3, <2>4
<1>13. r \in BlackIn(x) \/ r \in WhiteIn(x) \/ (size % 2 = 1 /\ Meets(r, x, Ghost))
  <2>1. PICK i \in 1..h : i = p \/ n + 1 - i = p
    <3>1. CASE p <= h
      <4>1. p \in 1..h
        BY <1>2, <1>4, <3>1
      <4> QED BY <4>1
    <3>2. CASE p > h
      <4>1. n + 1 - p \in 1..h /\ n + 1 - (n + 1 - p) = p
        BY <1>2, <1>4, <3>2
      <4> QED BY <4>1
    <3> QED BY <1>2, <1>4, <3>1, <3>2
  <2>2. a[i] = x \/ a[n + 1 - i] = x
    BY <1>4, <2>1
  <2>3. CASE HasGhost(a, i)
    <3>1. Both(schedule[r][i]) = {x, Ghost}
      <4>1. /\ a[i] = Ghost \/ a[n + 1 - i] = Ghost
            /\ schedule[r][i].white = Ghost
            /\ schedule[r][i].black = IF a[i] = Ghost THEN a[n + 1 - i] ELSE a[i]
        BY <1>5, <2>3
      <4> QED BY <1>3, <2>2, <4>1 DEF Both
    <3>2. size % 2 = 1
      BY <1>5, <1>6, <1>9, <2>3
    <3> QED BY <1>1, <3>1, <3>2 DEF Meets
  <2>4. CASE ~HasGhost(a, i)
    <3>1. ~IsBye(schedule[r][i])
      BY <1>5, <2>4
    <3>2. schedule[r][i].black = x \/ schedule[r][i].white = x
      BY <1>10, <2>2, <3>1
    <3> QED BY <1>1, <3>1, <3>2 DEF BlackIn, WhiteIn
  <2> QED BY <2>3, <2>4
<1> QED BY <1>11, <1>12, <1>13

\* Two elements at most.
LEMMA AtMostTwo ==
  ASSUME NEW S, NEW f, NEW a, NEW b,
         \A x \in S : f[x] = a \/ f[x] = b,
         \A x, y \in S : f[x] = f[y] => x = y
  PROVE  IsFiniteSet(S) /\ Cardinality(S) <= 2
<1>1. \E u, v : S \subseteq {u, v}
  <2> DEFINE u == CHOOSE x \in S : f[x] = a
             v == CHOOSE x \in S : f[x] = b
  <2>1. ASSUME NEW x \in S PROVE x = u \/ x = v
    <3>1. CASE f[x] = a
      <4>1. u \in S /\ f[u] = a
        BY <3>1
      <4> HIDE DEF u
      <4> QED BY <3>1, <4>1
    <3>2. CASE f[x] = b
      <4>1. v \in S /\ f[v] = b
        BY <3>2
      <4> HIDE DEF v
      <4> QED BY <3>2, <4>1
    <3> QED BY <3>1, <3>2
  <2> HIDE DEF u, v
  <2>2. S \subseteq {u, v}
    BY <2>1
  <2> QED BY <2>2
<1>2. PICK u, v : S \subseteq {u, v}
  BY <1>1
<1>3. /\ IsFiniteSet({u} \cup {v})
      /\ Cardinality({u} \cup {v}) = IF v \in {u} THEN 1 ELSE 1 + 1
  <2>1. IsFiniteSet({u}) /\ Cardinality({u}) = 1
    BY FS_Singleton
  <2>2. /\ IsFiniteSet({u} \cup {v})
        /\ Cardinality({u} \cup {v}) = IF v \in {u} THEN Cardinality({u})
                                                     ELSE Cardinality({u}) + 1
    BY <2>1, FS_AddElement
  <2> QED BY <2>1, <2>2
<1>4. S \in SUBSET ({u} \cup {v})
  BY <1>2
<1>5. IsFiniteSet(S) /\ Cardinality(S) <= Cardinality({u} \cup {v})
  BY <1>3, <1>4, FS_Subset
<1>6. Cardinality(S) \in Nat
  BY <1>5, FS_CardinalityType
<1> QED BY <1>3, <1>5, <1>6

\* A set that has one element less than another at most.
LEMMA LosesOne ==
  ASSUME NEW B, IsFiniteSet(B), NEW A \in SUBSET B, NEW z, B \ A \subseteq {z}
  PROVE  /\ Cardinality(A) \in Nat /\ Cardinality(B) \in Nat
         /\ Cardinality(A) <= Cardinality(B) /\ Cardinality(B) <= Cardinality(A) + 1
         /\ z \notin B => Cardinality(A) = Cardinality(B)
<1>1. IsFiniteSet(A) /\ Cardinality(A) <= Cardinality(B)
  BY FS_Subset
<1>2. Cardinality(A) \in Nat /\ Cardinality(B) \in Nat
  BY <1>1, FS_CardinalityType
<1>3. /\ Cardinality(A \cup {z}) = IF z \in A THEN Cardinality(A) ELSE Cardinality(A) + 1
      /\ IsFiniteSet(A \cup {z})
  BY <1>1, FS_AddElement
<1>4. B \in SUBSET (A \cup {z})
  OBVIOUS
<1>5. Cardinality(B) <= Cardinality(A \cup {z})
  BY <1>3, <1>4, FS_Subset
<1>6. z \notin B => A = B
  OBVIOUS
<1>7. z \notin B => Cardinality(A) = Cardinality(B)
  BY <1>6, Zenon
<1>8. Cardinality(B) <= Cardinality(A) + 1
  BY <1>2, <1>3, <1>5
<1> QED BY <1>1, <1>2, <1>7, <1>8

\* The player passes from one half of the table to the other twice at most.
LEMMA FewRepeats ==
  ASSUME size \in Nat, size >= 2, NEW x \in 1..Even(size),
         NEW m, m = Even(size) - 1, NEW B, B = {r \in 1..m : Dark(x, r)}
  PROVE  /\ \A q, r \in Repeats(B, m) : At(x, q) = At(x, r) => q = r
         /\ \A r \in Repeats(B, m) : At(x, r) \in {Even(size) \div 2, Even(size)}
         /\ Count(Repeats(B, m), m - 1) \in 0..2
<1> DEFINE n == Even(size)
           R == Repeats(B, m)
<1>1. n \in Nat /\ n >= 2
  BY EvenFacts
<1>2. /\ m \in Nat /\ m = n - 1 /\ m - 1 = n - 2 /\ x \in 1..n
      /\ \A r \in 1..(m - 1) : r \in 1..m /\ r + 1 \in 1..m
  <2>1. x \in 1..n /\ m = n - 1
    OBVIOUS
  <2> HIDE DEF n
  <2> QED BY <1>1, <2>1
<1>3. \A r \in R : r \in 1..(n - 2) /\ (Dark(x, r) <=> Dark(x, r + 1))
  <2>1. TAKE r \in R
  <2>2. r \in 1..(m - 1) /\ (r \in B <=> r + 1 \in B)
    BY DEF Repeats
  <2>3. r \in 1..m /\ r + 1 \in 1..m
    BY <1>2, <2>2
  <2> QED BY <1>2, <2>2, <2>3
<1>4. \A r \in R : x > 1 /\ At(x, r) \in {n \div 2, n}
  BY <1>3, DarkRepeats
<1>5. ASSUME NEW q \in R, NEW r \in R, At(x, q) = At(x, r) PROVE q = r
  <2>1. x > 1
    BY <1>4
  <2>2. q \in 1..(n - 1) /\ r \in 1..(n - 1)
    <3>1. q \in 1..(n - 2) /\ r \in 1..(n - 2)
      BY <1>3
    <3> HIDE DEF n
    <3> QED BY <1>1, <3>1
  <2>3. \A p, t \in 1..(n - 1) : At(x, p) = At(x, t) => p = t
    <3>1. Even(size) = n
      OBVIOUS
    <3> HIDE DEF n
    <3> QED BY <1>1, <1>2, <2>1, <3>1, AtMoves
  <2> QED BY <1>5, <2>2, <2>3
<1>6. Count(R, m - 1) \in 0..2
  <2> DEFINE S == {r \in 1..(m - 1) : r \in R}
             f == [r \in S |-> At(x, r)]
  <2>1. \A r \in S : f[r] = n \div 2 \/ f[r] = n
    BY <1>4
  <2>2. \A q, r \in S : f[q] = f[r] => q = r
    BY <1>5
  <2> HIDE DEF S, f, n
  <2>3. IsFiniteSet(S) /\ Cardinality(S) <= 2
    BY <2>1, <2>2, AtMostTwo
  <2>4. Cardinality(S) \in Nat
    BY <2>3, FS_CardinalityType
  <2>5. Cardinality(S) \in 0..2
    BY <2>3, <2>4
  <2> QED BY <2>5 DEF Count, S
<1> QED BY <1>4, <1>5, <1>6

LEMMA InvColoursBalanced ==
  ASSUME LoopInv
  PROVE  ColoursBalanced
<1> DEFINE n == Even(size)
           m == n - 1
<1>1. /\ size \in Nat /\ size >= 2 /\ n \in Nat /\ n >= 2 /\ m \in Nat /\ m >= 1
      /\ Len(schedule) \in Nat /\ Len(schedule) <= m
  <2>1. size \in Nat /\ size >= 2
    BY FieldAssumption DEF LoopInv
  <2>2. n \in Nat /\ n >= 2
    BY <2>1, EvenFacts
  <2>3. Len(schedule) \in Nat /\ Len(schedule) <= n - 1
    BY DEF LoopInv
  <2> HIDE DEF n
  <2> QED BY <2>1, <2>2, <2>3
<1>2. ASSUME NEW x \in Field
      PROVE  x \in 1..n /\ x \in Table /\ x # Ghost
  <2>1. n = size \/ n = size + 1
    BY DEF Even
  <2> HIDE DEF n
  <2> QED BY <1>1, <2>1 DEF Field, Table, Ghost
<1>3. ASSUME NEW x \in Field, NEW r \in 1..(Len(schedule) - 3)
      PROVE  ~ (r..(r+3) \subseteq BlackIn(x)) /\ ~ (r..(r+3) \subseteq WhiteIn(x))
  <2> DEFINE B == {k \in 1..m : Dark(x, k)}
             R == Repeats(B, m)
  <2>1. /\ \A p, q \in R : At(x, p) = At(x, q) => p = q
        /\ \A p \in R : At(x, p) \in {n \div 2, n}
    BY <1>1, <1>2, FewRepeats
  <2> HIDE DEF n
  <2>2. \A k \in r..(r+3) : k \in 1..Len(schedule) /\ k \in 1..m
    BY <1>1
  <2>3. /\ r \in r..(r+3) /\ r + 1 \in r..(r+3) /\ r + 2 \in r..(r+3) /\ r + 3 \in r..(r+3)
        /\ r \in 1..(m - 1) /\ r + 1 \in 1..(m - 1) /\ r + 2 \in 1..(m - 1)
        /\ r + 1 + 1 = r + 2 /\ r + 2 + 1 = r + 3
        /\ r # r + 1 /\ r + 1 # r + 2 /\ r # r + 2
    BY <1>1
  <2>4. ASSUME \/ \A k \in r..(r+3) : Dark(x, k)
               \/ \A k \in r..(r+3) : ~Dark(x, k)
        PROVE  FALSE
    <3>1. \/ r \in B /\ r + 1 \in B /\ r + 2 \in B /\ r + 3 \in B
          \/ r \notin B /\ r + 1 \notin B /\ r + 2 \notin B /\ r + 3 \notin B
      BY <2>2, <2>3, <2>4
    <3> HIDE DEF B
    <3>2. r \in R /\ r + 1 \in R /\ r + 2 \in R
      BY <2>3, <3>1 DEF Repeats
    <3> HIDE DEF R
    <3> QED BY <2>1, <2>3, <3>2
  <2>5. \A k \in r..(r+3) : /\ k \in BlackIn(x) => Dark(x, k)
                            /\ k \in WhiteIn(x) => ~Dark(x, k)
    BY <2>2, ColourAt
  <2> QED BY <2>4, <2>5
<1>4. ASSUME Finished, NEW x \in Field
      PROVE  LET balance == Cardinality(BlackIn(x)) - Cardinality(WhiteIn(x))
             IN  IF size % 2 = 0 THEN balance \in -3..3 ELSE balance \in -4..4
  <2> DEFINE B == {k \in 1..m : Dark(x, k)}
             W == {k \in 1..m : k \notin B}
             c == Count(Repeats(B, m), m - 1)
             b == Cardinality(BlackIn(x))
             w == Cardinality(WhiteIn(x))
  <2>1. Len(schedule) = m
    <3>1. Len(arr) = n
      BY <1>1 DEF LoopInv, Seating
    <3> QED BY <1>4, <3>1 DEF Finished
  <2>2. c \in 0..2
    BY <1>1, <1>2, FewRepeats
  <2>3. Count(B, m) - Count(W, m) <= c + 1 /\ Count(W, m) - Count(B, m) <= c + 1
    <3> HIDE DEF m, B
    <3> QED BY <1>1, Alternating
  <2>4. Count(B, m) = Cardinality(B) /\ Count(W, m) = Cardinality(W)
    <3>1. {r \in 1..m : r \in B} = B /\ {r \in 1..m : r \in W} = W
      OBVIOUS
    <3> HIDE DEF m, B, W
    <3> QED BY <3>1, Zenon DEF Count
  <2>5. ASSUME NEW r \in 1..m
        PROVE  /\ r \in BlackIn(x) => r \in B
               /\ r \in WhiteIn(x) => r \in W
               /\ r \in BlackIn(x) \/ r \in WhiteIn(x)
                    \/ (size % 2 = 1 /\ Meets(r, x, Ghost))
    BY <2>1, <2>5, ColourAt
  <2>6. BlackIn(x) \subseteq 1..m /\ WhiteIn(x) \subseteq 1..m
    BY <2>1 DEF BlackIn, WhiteIn
  <2>7. BlackIn(x) \in SUBSET B /\ WhiteIn(x) \in SUBSET W
    BY <2>5, <2>6
  <2>8. IsFiniteSet(B) /\ IsFiniteSet(W) /\ B \cap W = {}
    <3>1. IsFiniteSet(1..m)
      BY <1>1, FS_Interval
    <3>2. B \in SUBSET (1..m) /\ W \in SUBSET (1..m) /\ B \cap W = {}
      OBVIOUS
    <3> HIDE DEF m, B, W
    <3> QED BY <3>1, <3>2, FS_Subset
  <2>9. \E z : /\ B \ BlackIn(x) \subseteq {z} /\ W \ WhiteIn(x) \subseteq {z}
               /\ size % 2 # 1 => z \notin B /\ z \notin W
    <3> DEFINE Bye == {r \in 1..m : size % 2 = 1 /\ Meets(r, x, Ghost)}
    <3>1. B \ BlackIn(x) \subseteq Bye /\ W \ WhiteIn(x) \subseteq Bye
      <4>1. ASSUME NEW r \in B, r \notin BlackIn(x) PROVE r \in Bye
        BY <2>5, <4>1
      <4>2. ASSUME NEW r \in W, r \notin WhiteIn(x) PROVE r \in Bye
        BY <2>5, <4>2
      <4> QED BY <4>1, <4>2
    <3>2. \A q, r \in Bye : q = r
      <4> SUFFICES ASSUME NEW q \in Bye, NEW r \in Bye PROVE q = r
        OBVIOUS
      <4>1. Ghost \in Table /\ x \in Table /\ x # Ghost
        BY <1>2 DEF Table
      <4>2. q \in 1..Len(schedule) /\ r \in 1..Len(schedule)
            /\ Meets(q, x, Ghost) /\ Meets(r, x, Ghost)
        BY <2>1
      <4> QED BY <4>1, <4>2, InvNoRematch DEF NoRematch
    <3>3. CASE Bye = {}
      <4>1. -1 \notin B /\ -1 \notin W
        OBVIOUS
      <4> HIDE DEF Bye, B, W
      <4> QED BY <3>1, <3>3, <4>1
    <3>4. CASE Bye # {}
      <4>1. PICK z : z \in Bye
        BY <3>4
      <4>2. size % 2 = 1
        BY <4>1
      <4>3. Bye \subseteq {z}
        BY <3>2, <4>1
      <4> HIDE DEF Bye, B, W
      <4> QED BY <3>1, <4>2, <4>3
    <3> QED BY <3>3, <3>4
  <2>10. PICK z : /\ B \ BlackIn(x) \subseteq {z} /\ W \ WhiteIn(x) \subseteq {z}
                  /\ size % 2 # 1 => z \notin B /\ z \notin W
    BY <2>9
  <2> HIDE DEF B, W, c, m, n
  <2>11. /\ b \in Nat /\ Cardinality(B) \in Nat
         /\ b <= Cardinality(B) /\ Cardinality(B) <= b + 1
         /\ z \notin B => b = Cardinality(B)
    BY <2>7, <2>8, <2>10, LosesOne
  <2>12. /\ w \in Nat /\ Cardinality(W) \in Nat
         /\ w <= Cardinality(W) /\ Cardinality(W) <= w + 1
         /\ z \notin W => w = Cardinality(W)
    BY <2>7, <2>8, <2>10, LosesOne
  <2>13. z \notin B \/ z \notin W
    BY <2>8
  <2>14. Cardinality(B) - Cardinality(W) <= 3 /\ Cardinality(W) - Cardinality(B) <= 3
    <3>1. /\ Cardinality(B) - Cardinality(W) <= c + 1
          /\ Cardinality(W) - Cardinality(B) <= c + 1
      BY <2>3, <2>4
    <3> QED BY <2>2, <2>11, <2>12, <3>1
  <2> HIDE DEF b, w
  <2>15. b - w \in -4..4
    BY <2>11, <2>12, <2>13, <2>14
  <2>16. size % 2 # 1 => b - w \in -3..3
    BY <2>10, <2>11, <2>12, <2>14
  <2>17. size % 2 = 0 => size % 2 # 1
    OBVIOUS
  <2> QED BY <2>15, <2>16, <2>17 DEF b, w
<1> QED BY <1>3, <1>4 DEF ColoursBalanced

-----------------------------------------------------------------------------
(* The loop keeps the closed form. *)

LEMMA TableSize ==
  ASSUME size \in Nat, size >= 2
  PROVE  /\ IsFiniteSet(Table) /\ Cardinality(Table) = Even(size)
         /\ \A u \in 1..Even(size) : Name(size, u) \in Table
<1>1. IsFiniteSet(1..size) /\ Cardinality(1..size) = size
  BY FS_Interval
<1>2. CASE size % 2 = 1
  <2>1. Ghost \notin 1..size
    BY DEF Ghost
  <2>2. /\ IsFiniteSet(1..size \cup {Ghost})
        /\ Cardinality(1..size \cup {Ghost}) = size + 1
    BY <1>1, <2>1, FS_AddElement
  <2> QED BY <1>2, <2>2 DEF Table, Field, Even, Name
<1>3. CASE size % 2 # 1
  BY <1>1, <1>3 DEF Table, Field, Even, Name
<1> QED BY <1>2, <1>3

LEMMA SeatingType ==
  ASSUME size \in 2..MaxField, NEW r \in Nat, r < Even(size)
  PROVE  /\ Seating(size, r) \in Seq(Table)
         /\ Len(Seating(size, r)) = Even(size)
         /\ DOMAIN Seating(size, r) = 1..Even(size)
<1>1. size \in Nat /\ size >= 2 /\ Even(size) \in Nat
  BY FieldAssumption, EvenFacts
<1>2. \A i \in 1..Even(size) : Index(size, r, i) \in 1..Even(size)
  BY <1>1, FieldPlaces
<1>3. \A i \in 1..Even(size) : Name(size, Index(size, r, i)) \in Table
  BY <1>1, <1>2, TableSize
<1> QED BY <1>1, <1>3 DEF Seating

LEMMA LayRoundType ==
  ASSUME size \in 2..MaxField, NEW r \in Nat, r < Even(size)
  PROVE  LayRound(Seating(size, r), r) \in Seq(PairingType)
<1> DEFINE a == Seating(size, r)
           n == Even(size)
           h == n \div 2
<1>1. size \in Nat /\ size >= 2 /\ MaxField \in Nat /\ size <= MaxField
  BY FieldAssumption
<1>2. n \in Nat /\ n >= 2 /\ n = 2 * h /\ h \in Nat /\ n <= size + 1
  <2>1. n <= size + 1
    BY <1>1 DEF Even
  <2> QED BY <1>1, <2>1, EvenFacts
<1>3. a \in Seq(Table) /\ Len(a) = n
  BY SeatingType
<1>4. Table \subseteq 0..MaxField
  BY <1>1 DEF Table, Field, Ghost
<1> HIDE DEF a, n, h
<1>5. ASSUME NEW i \in 1..h
      PROVE  LayBoard(a, r, i) \in PairingType
  <2>1. i \in 1..n /\ n + 1 - i \in 1..n /\ i <= MaxField
    BY <1>1, <1>2
  <2>2. a[i] \in 0..MaxField /\ a[n + 1 - i] \in 0..MaxField
    <3>1. \A j \in 1..n : a[j] \in Table
      BY <1>3
    <3> QED BY <1>4, <2>1, <3>1
  <2> DEFINE real == {j \in 1..i : ~HasGhost(a, j)}
  <2>3. Cardinality(real) \in 0..MaxField
    <3>1. IsFiniteSet(1..i) /\ Cardinality(1..i) = i
      BY <2>1, FS_Interval
    <3>2. real \subseteq 1..i
      OBVIOUS
    <3>3. IsFiniteSet(real) /\ Cardinality(real) <= i
      BY <3>1, <3>2, FS_Subset
    <3>4. Cardinality(real) \in Nat
      BY <3>3, FS_CardinalityType
    <3> QED BY <1>1, <2>1, <3>3, <3>4
  <2>4. 0 \in 0..MaxField
    BY <1>1
  <2> HIDE DEF real
  <2>5. CASE HasGhost(a, i)
    BY <1>3, <2>2, <2>4, <2>5 DEF LayBoard, PairingType, Opposite, Ghost
  <2>6. CASE ~HasGhost(a, i)
    BY <1>3, <2>2, <2>3, <2>6 DEF LayBoard, PairingType, Opposite, real
  <2> QED BY <2>5, <2>6
<1>6. LayRound(a, r) = [i \in 1..h |-> LayBoard(a, r, i)]
  BY <1>3 DEF LayRound, h
<1>7. LayRound(a, r) \in Seq(PairingType)
  BY <1>2, <1>5, <1>6
<1> QED BY <1>7 DEF a

\* One rotation of the array is one step of the closed form.
LEMMA RotateSeating ==
  ASSUME NEW k \in Nat, k >= 2, NEW r \in Nat, r < Even(k) - 1
  PROVE  Rotate(Seating(k, r)) = Seating(k, r + 1)
<1> DEFINE n == Even(k)
<1>1. n \in Nat /\ n >= 2 /\ Even(k) = n /\ Len(Seating(k, r)) = n /\ r < n - 1
  BY EvenFacts, RoundLength
<1>2. \A i \in 1..n : Seating(k, r)[i] = Name(k, Index(k, r, i))
  BY <1>1 DEF Seating
<1>3. \A i \in 1..n : Seating(k, r + 1)[i] = Name(k, Index(k, r + 1, i))
  BY <1>1 DEF Seating
<1>4. \A i \in 1..n : /\ i = 1 => Index(k, r + 1, i) = Index(k, r, 1)
                      /\ i = 2 => Index(k, r + 1, i) = Index(k, r, n)
                      /\ i > 2 => Index(k, r + 1, i) = Index(k, r, i - 1)
  BY <1>1, IndexStep
<1>5. CASE n > 2
  <2>1. Rotate(Seating(k, r)) =
          [i \in 1..n |-> CASE i = 1 -> Seating(k, r)[1]
                             [] i = 2 -> Seating(k, r)[n]
                             [] OTHER -> Seating(k, r)[i - 1]]
    BY <1>1, <1>5 DEF Rotate
  <2>2. ASSUME NEW i \in 1..n
        PROVE  Rotate(Seating(k, r))[i] = Seating(k, r + 1)[i]
    <3> HIDE DEF n
    <3>1. CASE i = 1
      BY <1>1, <1>2, <1>3, <1>4, <2>1, <3>1
    <3>2. CASE i = 2
      BY <1>1, <1>2, <1>3, <1>4, <2>1, <3>2
    <3>3. CASE i > 2
      <4>1. i - 1 \in 1..n /\ i # 1 /\ i # 2
        BY <1>1, <3>3
      <4> QED BY <1>1, <1>2, <1>3, <1>4, <2>1, <3>3, <4>1
    <3> QED BY <1>1, <3>1, <3>2, <3>3
  <2> QED BY <1>1, <2>1, <2>2 DEF Seating
<1>6. CASE n = 2
  <2>1. Rotate(Seating(k, r)) = Seating(k, r)
    BY <1>1, <1>6 DEF Rotate
  <2>2. r = 0
    BY <1>1, <1>6
  <2>3. \A i \in 1..2 : Index(k, 0, i) = Index(k, 1, i)
    BY <1>1, <1>6 DEF Index
  <2> QED BY <1>1, <1>6, <2>1, <2>2, <2>3 DEF Seating
<1> QED BY <1>1, <1>5, <1>6

LEMMA InvInit ==
  ASSUME CircleInit
  PROVE  LoopInv
<1>1. size \in Nat /\ size >= 2 /\ size \in 2..MaxField
  BY FieldAssumption DEF CircleInit
<1>2. Even(size) \in Nat /\ Even(size) >= 2
  BY <1>1, EvenFacts
<1>3. Len(schedule) = 0 /\ schedule \in Seq(Seq(PairingType))
  BY DEF CircleInit
<1>4. \A i \in 1..Even(size) : Index(size, 0, i) = i
  BY <1>2 DEF Index
<1>5. Seating(size, 0) = [i \in 1..Even(size) |-> Name(size, i)]
  BY <1>4 DEF Seating
<1>6. arr = Seating(size, 0)
  <2>1. Len(Ids(size)) = size /\ Ids(size) \in Seq(Nat)
    BY <1>1 DEF Ids
  <2>2. CASE size % 2 = 1
    <3>1. arr = Append(Ids(size), Ghost)
      BY <2>1, <2>2 DEF CircleInit, Seats
    <3>2. arr = [i \in 1..(size + 1) |-> IF i <= size THEN i ELSE Ghost]
      BY <1>1, <2>1, <3>1 DEF Ids
    <3> QED BY <1>5, <2>2, <3>2 DEF Even, Name
  <2>3. CASE size % 2 # 1
    <3>1. arr = [i \in 1..size |-> i]
      BY <2>1, <2>3 DEF CircleInit, Seats, Ids
    <3>2. Seating(size, 0) = [i \in 1..size |-> Name(size, i)]
      BY <1>5, <2>3 DEF Even
    <3> QED BY <1>1, <3>1, <3>2 DEF Name
  <2> QED BY <2>2, <2>3
<1> QED BY <1>1, <1>2, <1>3, <1>6 DEF LoopInv

LEMMA InvNext ==
  ASSUME LoopInv, [Lay]_circleVars
  PROVE  LoopInv'
<1>1. CASE UNCHANGED circleVars
  BY <1>1 DEF LoopInv, circleVars
<1>2. CASE Lay
  <2> DEFINE r == Len(schedule)
  <2>1. size \in Nat /\ size >= 2 /\ Even(size) \in Nat /\ r \in Nat
    BY FieldAssumption, EvenFacts DEF LoopInv
  <2>2. r < Even(size) - 1
    BY <1>2, <2>1, RoundLength DEF LoopInv, Lay
  <2>3. schedule' = Append(schedule, LayRound(Seating(size, r), r)) /\ size' = size
    BY <1>2 DEF LoopInv, Lay
  <2>4. LayRound(Seating(size, r), r) \in Seq(PairingType)
    <3>1. r < Even(size)
      BY <2>1, <2>2
    <3> QED BY <2>1, <3>1, LayRoundType DEF LoopInv
  <2>5. /\ schedule' \in Seq(Seq(PairingType)) /\ Len(schedule') = r + 1
        /\ \A q \in 1..r : schedule'[q] = schedule[q]
        /\ schedule'[r + 1] = LayRound(Seating(size, r), r)
    BY <2>3, <2>4 DEF LoopInv
  <2>6. arr' = Seating(size, r + 1)
    BY <1>2, <2>1, <2>2, RotateSeating DEF LoopInv, Lay
  <2> HIDE DEF r
  <2>7. \A q \in 1..(r + 1) : schedule'[q] = LayRound(Seating(size, q - 1), q - 1)
    <3> SUFFICES ASSUME NEW q \in 1..(r + 1)
                 PROVE  schedule'[q] = LayRound(Seating(size, q - 1), q - 1)
      OBVIOUS
    <3>1. CASE q = r + 1
      <4>1. q - 1 = r
        BY <2>1, <3>1
      <4> QED BY <2>5, <3>1, <4>1
    <3>2. CASE q # r + 1
      <4>1. q \in 1..r
        BY <2>1, <3>2
      <4> QED BY <2>5, <4>1 DEF LoopInv, r
    <3> QED BY <3>1, <3>2
  <2> QED BY <2>1, <2>2, <2>3, <2>5, <2>6, <2>7 DEF LoopInv
<1> QED BY <1>1, <1>2

\* The loop invariant: the array is the closed form, and so is every round.
THEOREM LoopInvariant == CircleSpec => []LoopInv
<1>1. CircleInit => LoopInv
  BY InvInit
<1>2. LoopInv /\ [Lay]_circleVars => LoopInv'
  BY InvNext
<1> QED BY <1>1, <1>2, PTL DEF CircleSpec

(***************************************************************************)
(* Every state of the loop is well typed, for fields of any size.          *)
(***************************************************************************)
THEOREM TypeCorrect == CircleSpec => []CircleTypeOK
<1>1. LoopInv => CircleTypeOK
  <2> SUFFICES ASSUME LoopInv PROVE CircleTypeOK
    OBVIOUS
  <2>1. size \in Nat /\ size >= 2 /\ Even(size) \in Nat /\ Even(size) >= 2
    BY FieldAssumption, EvenFacts DEF LoopInv
  <2>2. Len(schedule) \in Nat /\ Len(schedule) < Even(size)
    BY <2>1 DEF LoopInv
  <2>3. arr \in Seq(Table) /\ Len(arr) = Even(size)
    BY <2>2, SeatingType DEF LoopInv
  <2> QED BY <2>1, <2>3, TableSize DEF LoopInv, CircleTypeOK
<1> QED BY <1>1, LoopInvariant, PTL

(***************************************************************************)
(* RoundRobinSchedule never pairs two players twice and never gives a      *)
(* player two byes, for fields of any size.                                *)
(***************************************************************************)
THEOREM NeverTwice == CircleSpec => []NoRematch
<1>1. LoopInv => NoRematch
  BY InvNoRematch
<1> QED BY <1>1, LoopInvariant, PTL

(***************************************************************************)
(* In every round of every schedule everybody has exactly one board.       *)
(***************************************************************************)
THEOREM OneBoard == CircleSpec => []OneBoardEach
<1>1. LoopInv => OneBoardEach
  BY InvOneBoardEach
<1> QED BY <1>1, LoopInvariant, PTL

(***************************************************************************)
(* A finished schedule has every pairing of two players, and, in an odd    *)
(* field, a bye for everybody.                                             *)
(***************************************************************************)
THEOREM Complete == CircleSpec => []EveryoneMeets
<1>1. LoopInv => EveryoneMeets
  BY InvEveryoneMeets
<1> QED BY <1>1, LoopInvariant, PTL

(***************************************************************************)
(* "Colours alternate by round for a rough balance": over a whole schedule *)
(* nobody has four games more of one colour in an even field, five in an   *)
(* odd one, nor one colour in four rounds in a row, in a field of any      *)
(* size.                                                                   *)
(***************************************************************************)
THEOREM Balanced == CircleSpec => []ColoursBalanced
<1>1. LoopInv => ColoursBalanced
  BY InvColoursBalanced
<1> QED BY <1>1, LoopInvariant, PTL

-----------------------------------------------------------------------------
(* A McMahon event. *)

Result == [round : Nat, black : Players, white : Players \cup {Ghost}, winner : Players]

\* The results of player p in round r of a list, by index.
InRound(list, p, r) ==
  {i \in 1..Len(list) : p \in {list[i].black, list[i].white} /\ list[i].round = r}

\* Everybody of P has one result in round r of a list.
OnceIn(list, P, r) == \A p \in P : \E i : InRound(list, p, r) = {i}

\* Result i of a list is a bye of player p.
ByeOf(list, i, p) == IsBye(list[i]) /\ list[i].black = p

HasBye(list, p) == \E i \in 1..Len(list) : ByeOf(list, i, p)

TwoByes(list, p) ==
  \E i, j \in 1..Len(list) : i # j /\ ByeOf(list, i, p) /\ ByeOf(list, j, p)

\* If one player has two byes, everybody has one.
ByesShared(list, P) == \A p, q \in P : TwoByes(list, p) => HasBye(list, q)

(***************************************************************************)
(* The inductive invariant: the ids are 1 to n, the results belong to      *)
(* rounds that were played, of each round everybody has one, and the byes  *)
(* went to those who had none.                                             *)
(***************************************************************************)
EventInv ==
  /\ Len(ids) \in Sizes
  /\ ids = [i \in 1..Len(ids) |-> i]
  /\ rating \in Ratings(Len(ids))
  /\ start \in [Players -> Nat]
  /\ round \in 0..MaxRounds(Len(ids))
  /\ results \in Seq(Result)
  /\ \A i \in 1..Len(results) : results[i].round \in 1..round
  /\ \A r \in 1..round : OnceIn(results, Players, r)
  /\ ByesShared(results, Players)

LEMMA FieldFacts ==
  ASSUME NEW n \in Sizes, NEW s, s = [i \in 1..n |-> i]
  PROVE  /\ s \in Seq(Nat) /\ Len(s) = n /\ Distinct(s) /\ Len(s) >= 2
         /\ RangeOf(s) = 1..n /\ Ghost \notin RangeOf(s)
<1>1. n \in Nat /\ n >= 2
  BY McMahonAssumption
<1>2. s \in Seq(Nat) /\ Len(s) = n /\ \A i \in 1..n : s[i] = i
  BY <1>1
<1>3. QED
  BY <1>1, <1>2 DEF Distinct, RangeOf, Ghost

LEMMA EventInit == Init => EventInv
<1> SUFFICES ASSUME Init PROVE EventInv
  OBVIOUS
<1>1. PICK n \in Sizes :
        /\ ids = [i \in 1..n |-> i]
        /\ rating \in Ratings(n)
        /\ start = StartScores(ids, [p \in 1..n |-> RankOf(rating[p])], 0)
        /\ results = <<>>
        /\ round = 0
  BY DEF Init
<1>2. /\ ids \in Seq(Nat) /\ Len(ids) = n /\ Distinct(ids) /\ Len(ids) > 0
      /\ RangeOf(ids) = 1..n
  <2>1. n \in Nat
    BY McMahonAssumption
  <2>2. QED BY <1>1, <2>1, FieldFacts
<1> DEFINE rank == [p \in 1..n |-> RankOf(rating[p])]
<1>3. \A p \in RangeOf(ids) : rank[p] \in Nat
  BY <1>1, <1>2, McMahonAssumption
<1> HIDE DEF rank
<1>4. StartScores(ids, rank, 0) \in [RangeOf(ids) -> Nat]
  BY <1>2, <1>3, StartScoresType
<1>5. start \in [Players -> Nat]
  BY <1>1, <1>4 DEF rank, Players
<1>6. round \in 0..MaxRounds(Len(ids))
  BY <1>1, <1>2, McMahonAssumption
<1>7. /\ results \in Seq(Result) /\ Len(results) = 0
  BY <1>1
<1>8. /\ \A i \in 1..Len(results) : results[i].round \in 1..round
      /\ \A r \in 1..round : OnceIn(results, Players, r)
      /\ ByesShared(results, Players)
  BY <1>1, <1>7 DEF ByesShared, TwoByes
<1>9. QED
  BY <1>1, <1>2, <1>5, <1>6, <1>7, <1>8 DEF EventInv

(***************************************************************************)
(* A round that is played adds a board for everybody, paired as the engine *)
(* should, to the results of the rounds before.                            *)
(***************************************************************************)
Adds(pairs) ==
  /\ FullRound(pairs, Players) /\ ByeIsFair(pairs, tally, Players)
  /\ ColoursFair(pairs, tally) /\ RematchesForced(pairs, tally, Len(ids) \div 2)
  /\ OnceSeated(pairs) /\ Len(pairs) \in Nat
  /\ results' \in Seq(Result) /\ Len(results') = Len(results) + Len(pairs)
  /\ \A i \in 1..Len(results) : results'[i] = results[i]
  /\ \A i \in 1..Len(pairs) :
       /\ results'[Len(results) + i].round = round + 1
       /\ results'[Len(results) + i].black = pairs[i].black
       /\ results'[Len(results) + i].white = pairs[i].white
  /\ \A i \in 1..Len(results') :
       i \in 1..Len(results) \/ \E k \in 1..Len(pairs) : i = Len(results) + k

LEMMA RoundAdds ==
  ASSUME EventInv, NEW now \in Ratings(Len(ids)), NEW blackWins,
         PlayRound(now, blackWins)
  PROVE  Adds(McMahonRound(ids, start, now, results))
<1> DEFINE n == Len(ids)
           pairs == McMahonRound(ids, start, now, results)
           m == Len(results)
           won(i) == IF blackWins[i] \/ IsBye(pairs[i]) THEN pairs[i].black
                                                       ELSE pairs[i].white
           new == [i \in 1..Len(pairs) |->
                     [round |-> round + 1, black |-> pairs[i].black,
                      white |-> pairs[i].white, winner |-> won(i)]]
<1>1. /\ results' = results \o new
      /\ round' = round + 1 /\ rating' = now /\ ids' = ids /\ start' = start
      /\ round < MaxRounds(n)
  BY DEF PlayRound
<1>2. /\ n \in Sizes /\ ids = [i \in 1..n |-> i] /\ start \in [Players -> Nat]
      /\ round \in 0..MaxRounds(n) /\ results \in Seq(Result) /\ m \in Nat
      /\ \A i \in 1..m : results[i].round \in 1..round
      /\ \A r \in 1..round : OnceIn(results, Players, r)
      /\ ByesShared(results, Players)
  BY DEF EventInv
<1>3. /\ ids \in Seq(Nat) /\ Distinct(ids) /\ Len(ids) >= 2
      /\ Players = 1..n /\ Ghost \notin Players /\ round \in Nat
  BY <1>2, FieldFacts, McMahonAssumption DEF Players
<1>4. /\ FullRound(pairs, Players) /\ ByeIsFair(pairs, tally, Players)
      /\ ColoursFair(pairs, tally) /\ RematchesForced(pairs, tally, n \div 2)
  <2>1. \A p \in RangeOf(ids) : start[p] \in Int /\ now[p] \in Int
    <3>1. now \in [1..n -> Nat]
      BY <1>2, McMahonAssumption
    <3>2. RangeOf(ids) = 1..n /\ start \in [1..n -> Nat]
      BY <1>2, <1>3 DEF Players
    <3>3. QED BY <3>1, <3>2
  <2>2. QED
    BY <1>2, <1>3, <2>1, McMahonSeatsAll DEF Players, tally
<1> HIDE DEF pairs
<1>5. /\ pairs \in Seq(BoardsOf(Players)) /\ Len(pairs) \in Nat /\ OnceSeated(pairs)
      /\ \A x \in Players : \E i \in 1..Len(pairs) : Sits(pairs[i], x)
  BY <1>4 DEF FullRound
<1>6. ASSUME NEW i \in 1..Len(pairs)
      PROVE  /\ new[i].round = round + 1 /\ new[i].black = pairs[i].black
             /\ new[i].white = pairs[i].white /\ new[i] \in Result
  <2>1. pairs[i] \in BoardsOf(Players)
    BY <1>5
  <2>2. pairs[i].black \in Players /\ pairs[i].white \in Players \cup {Ghost}
    BY <2>1 DEF BoardsOf
  <2>3. won(i) \in Players
    BY <2>2 DEF IsBye
  <2>4. new[i] = [round |-> round + 1, black |-> pairs[i].black,
                  white |-> pairs[i].white, winner |-> won(i)]
    OBVIOUS
  <2> HIDE DEF won, new
  <2>5. QED BY <1>3, <2>2, <2>3, <2>4 DEF Result
<1>7. new \in Seq(Result) /\ Len(new) = Len(pairs)
  <2>1. new = [i \in 1..Len(pairs) |-> new[i]]
    OBVIOUS
  <2> HIDE DEF new
  <2>2. QED BY <1>5, <1>6, <2>1
<1> HIDE DEF new
<1>8. /\ results' \in Seq(Result) /\ Len(results') = m + Len(pairs)
      /\ \A i \in 1..m : results'[i] = results[i]
      /\ \A i \in 1..Len(pairs) : results'[m + i] = new[i]
      /\ \A i \in 1..Len(results') : i \in 1..m \/ \E k \in 1..Len(pairs) : i = m + k
  <2>1. results \o new \in Seq(Result) /\ Joins(results \o new, results, new)
    BY <1>2, <1>7, ConcatFacts
  <2>2. QED BY <1>1, <1>7, <2>1 DEF Joins
<1>9. \A i \in 1..Len(pairs) :
       /\ results'[m + i].round = round + 1
       /\ results'[m + i].black = pairs[i].black
       /\ results'[m + i].white = pairs[i].white
  BY <1>6, <1>8
<1> HIDE DEF m
<1>10. Adds(pairs)
  BY <1>4, <1>5, <1>8, <1>9 DEF Adds, m
<1>11. QED
  BY <1>10 DEF pairs

\* The event goes on as before: of every round everybody has one result.
LEMMA RoundStep ==
  ASSUME EventInv, NEW now \in Ratings(Len(ids)), NEW blackWins,
         PlayRound(now, blackWins)
  PROVE  EventInv'
<1> DEFINE n == Len(ids)
           pairs == McMahonRound(ids, start, now, results)
           m == Len(results)
<1>1. /\ round' = round + 1 /\ rating' = now /\ ids' = ids /\ start' = start
      /\ round < MaxRounds(n)
  BY DEF PlayRound
<1>2. /\ n \in Sizes /\ ids = [i \in 1..n |-> i] /\ start \in [Players -> Nat]
      /\ round \in 0..MaxRounds(n) /\ results \in Seq(Result) /\ m \in Nat
      /\ \A i \in 1..m : results[i].round \in 1..round
      /\ \A r \in 1..round : OnceIn(results, Players, r)
      /\ ByesShared(results, Players)
  BY DEF EventInv
<1>3. /\ ids \in Seq(Nat) /\ Distinct(ids) /\ Len(ids) >= 2
      /\ Players = 1..n /\ Ghost \notin Players /\ round \in Nat
  BY <1>2, FieldFacts, McMahonAssumption DEF Players
<1>4. Adds(pairs)
  BY RoundAdds
<1> HIDE DEF pairs
<1>5. /\ Len(pairs) \in Nat /\ OnceSeated(pairs) /\ ByeIsFair(pairs, tally, Players)
      /\ \A x \in Players : \E i \in 1..Len(pairs) : Sits(pairs[i], x)
  BY <1>4 DEF Adds, FullRound
<1> DEFINE new == [i \in 1..Len(pairs) |-> results'[m + i]]
<1>6. ASSUME NEW i \in 1..Len(pairs)
      PROVE  /\ new[i].round = round + 1 /\ new[i].black = pairs[i].black
             /\ new[i].white = pairs[i].white
  BY <1>4 DEF Adds
<1>7. /\ results' \in Seq(Result) /\ Len(results') = m + Len(pairs)
      /\ \A i \in 1..m : results'[i] = results[i]
      /\ \A i \in 1..Len(pairs) : results'[m + i] = new[i]
      /\ \A i \in 1..Len(results') : i \in 1..m \/ \E k \in 1..Len(pairs) : i = m + k
  BY <1>4 DEF Adds
<1> HIDE DEF new
<1>8. \A i \in 1..Len(results') : results'[i].round \in 1..round'
  <2>1. TAKE i \in 1..Len(results')
  <2>2. CASE i \in 1..m
    <3>1. results'[i] = results[i] /\ results[i].round \in 1..round
      BY <1>2, <1>7, <2>2
    <3>2. QED BY <1>1, <1>3, <3>1
  <2>3. ASSUME NEW k \in 1..Len(pairs), i = m + k
        PROVE  results'[i].round \in 1..round'
    <3>1. results'[i] = new[k]
      BY <1>7, <2>3
    <3>2. results'[i].round = round + 1 /\ round' = round + 1 /\ round \in Nat
      BY <1>1, <1>3, <1>6, <3>1
    <3>3. QED BY <3>2
  <2>4. QED BY <1>7, <2>2, <2>3
<1>9. Result' = Result /\ Players' = Players
  BY <1>1 DEF Result, Players
<1>10. ASSUME NEW r \in 1..round, NEW p \in Players
       PROVE  InRound(results', p, r) = InRound(results, p, r)
  <2>1. ASSUME NEW i \in 1..Len(results'), results'[i].round = r PROVE i \in 1..m
    <3>1. ASSUME NEW k \in 1..Len(pairs), i = m + k PROVE FALSE
      <4>1. results'[i].round = round + 1
        BY <1>6, <1>7, <3>1
      <4>2. QED BY <1>3, <2>1, <4>1
    <3>2. QED BY <1>7, <3>1
  <2>2. \A i \in 1..m : i \in 1..Len(results')
    BY <1>2, <1>5, <1>7
  <2>3. QED BY <1>7, <2>1, <2>2 DEF InRound
<1>11. ASSUME NEW p \in Players
       PROVE  \E i : InRound(results', p, round + 1) = {i}
  <2>1. PICK k \in 1..Len(pairs) : Sits(pairs[k], p)
    BY <1>5
  <2>2. \A j \in 1..Len(pairs) : Sits(pairs[j], p) => j = k
    BY <1>5, <2>1 DEF OnceSeated
  <2>3. ASSUME NEW j \in 1..Len(pairs)
        PROVE  p \in {new[j].black, new[j].white} <=> Sits(pairs[j], p)
    BY <1>6 DEF Sits
  <2>4. ASSUME NEW i \in 1..m PROVE results'[i].round # round + 1
    <3>1. results'[i] = results[i] /\ results[i].round \in 1..round
      BY <1>2, <1>7
    <3>2. QED BY <1>3, <3>1
  <2>5. m + k \in InRound(results', p, round + 1)
    <3>1. m + k \in 1..Len(results') /\ results'[m + k] = new[k]
      BY <1>2, <1>5, <1>7
    <3>2. QED BY <1>6, <2>1, <2>3, <3>1 DEF InRound
  <2>6. ASSUME NEW i \in InRound(results', p, round + 1) PROVE i = m + k
    <3>1. /\ i \in 1..Len(results') /\ results'[i].round = round + 1
          /\ p \in {results'[i].black, results'[i].white}
      BY DEF InRound
    <3>2. i \notin 1..m
      BY <2>4, <3>1
    <3>3. PICK j \in 1..Len(pairs) : i = m + j
      BY <1>7, <3>1, <3>2
    <3>4. Sits(pairs[j], p)
      BY <1>7, <2>3, <3>1, <3>3
    <3>5. QED BY <2>2, <3>3, <3>4
  <2>7. InRound(results', p, round + 1) = {m + k}
    BY <2>5, <2>6
  <2>8. QED BY <2>7
<1>12. \A r \in 1..round' : OnceIn(results', Players', r)
  <2>1. ASSUME NEW r \in 1..(round + 1)
        PROVE  OnceIn(results', Players, r)
    <3>1. CASE r \in 1..round
      <4>1. OnceIn(results, Players, r)
        BY <1>2, <3>1
      <4>2. QED BY <1>10, <3>1, <4>1 DEF OnceIn
    <3>2. CASE r = round + 1
      BY <1>11, <3>2 DEF OnceIn
    <3>3. QED BY <1>3, <3>1, <3>2
  <2>2. QED BY <1>1, <1>9, <2>1
<1>13. round' \in 0..MaxRounds(Len(ids'))
  BY <1>1, <1>2, <1>3, McMahonAssumption
<1>14. ASSUME NEW p \in Players, HasBye(results, p) PROVE tally[p].hadBye
  <2>1. PICK i \in 1..m : ByeOf(results, i, p)
    BY <1>14 DEF HasBye
  <2>2. results[i] \in Result
    BY <1>2
  <2>3. i \in Of(results, Players, p) /\ IsBye(results[i])
    BY <2>1, <2>2 DEF Of, ByeOf, Result
  <2>4. tally[p].hadBye = HadBye(results, Of(results, Players, p))
    BY DEF tally, Tally, Players
  <2>5. QED BY <2>3, <2>4 DEF HadBye
<1>15. ASSUME NEW q \in Players, tally[q].hadBye PROVE HasBye(results, q)
  <2>1. tally[q].hadBye = HadBye(results, Of(results, Players, q))
    BY DEF tally, Tally, Players
  <2>2. PICK i \in Of(results, Players, q) : IsBye(results[i])
    BY <1>15, <2>1 DEF HadBye
  <2>3. i \in 1..m /\ q \in {results[i].black, results[i].white}
    BY <2>2 DEF Of
  <2>4. results[i].black = q
    BY <1>3, <2>2, <2>3 DEF IsBye
  <2>5. QED BY <2>2, <2>3, <2>4 DEF HasBye, ByeOf
<1>16. ASSUME NEW p \in Players, NEW j \in 1..Len(pairs), ByeOf(results', m + j, p)
       PROVE  Sits(pairs[j], p) /\ IsBye(pairs[j]) /\ pairs[j].black = p
  BY <1>6, <1>7, <1>16 DEF ByeOf, Sits, IsBye
<1>17. ASSUME NEW p \in Players, NEW i \in 1..m
       PROVE  ByeOf(results', i, p) <=> ByeOf(results, i, p)
  BY <1>7 DEF ByeOf
<1>18. ASSUME NEW q \in Players, HasBye(results, q) PROVE HasBye(results', q)
  <2>1. PICK i \in 1..m : ByeOf(results, i, q)
    BY <1>18 DEF HasBye
  <2>2. i \in 1..Len(results')
    BY <1>2, <1>5, <1>7
  <2>3. QED BY <1>17, <2>1, <2>2 DEF HasBye
<1>19. ASSUME NEW p \in Players, NEW q \in Players, TwoByes(results', p)
       PROVE  HasBye(results, q)
  <2>1. PICK i \in 1..Len(results'), j \in 1..Len(results') :
          i # j /\ ByeOf(results', i, p) /\ ByeOf(results', j, p)
    BY <1>19 DEF TwoByes
  <2>2. CASE i \in 1..m /\ j \in 1..m
    BY <1>2, <1>17, <2>1, <2>2 DEF ByesShared, TwoByes
  <2>3. ASSUME NEW a \in 1..m, NEW k \in 1..Len(pairs),
               ByeOf(results', a, p), ByeOf(results', m + k, p)
        PROVE  HasBye(results, q)
    <3>1. HasBye(results, p)
      BY <1>17, <2>3 DEF HasBye
    <3>2. tally[p].hadBye /\ IsBye(pairs[k]) /\ pairs[k].black = p
      BY <1>14, <1>16, <2>3, <3>1
    <3>3. tally[q].hadBye
      BY <1>5, <3>2 DEF ByeIsFair
    <3>4. QED BY <1>15, <3>3
  <2>4. ASSUME NEW k \in 1..Len(pairs), NEW l \in 1..Len(pairs), i = m + k, j = m + l
        PROVE  FALSE
    <3>1. Sits(pairs[k], p) /\ Sits(pairs[l], p)
      BY <1>16, <2>1, <2>4
    <3>2. QED BY <1>5, <2>1, <2>4, <3>1 DEF OnceSeated
  <2>5. QED BY <1>7, <2>1, <2>2, <2>3, <2>4
<1>20. ByesShared(results', Players')
  BY <1>9, <1>18, <1>19 DEF ByesShared
<1>21. QED
  BY <1>1, <1>2, <1>7, <1>8, <1>9, <1>12, <1>13, <1>20 DEF EventInv

(***************************************************************************)
(* The invariant holds through the whole event, for any field sizes,       *)
(* ratings and numbers of rounds.                                          *)
(***************************************************************************)
THEOREM EventInvariant == Spec => []EventInv
<1>1. EventInv /\ [Next]_vars => EventInv'
  <2> SUFFICES ASSUME EventInv, [Next]_vars PROVE EventInv'
    OBVIOUS
  <2>1. CASE Next
    BY <2>1, RoundStep DEF Next
  <2>2. CASE UNCHANGED vars
    <3>1. /\ ids' = ids /\ rating' = rating /\ start' = start
          /\ round' = round /\ results' = results
      BY <2>2 DEF vars
    <3>2. Players' = Players /\ Result' = Result
      BY <3>1 DEF Players, Result
    <3>3. QED BY <3>1, <3>2 DEF EventInv
  <2>3. QED BY <2>1, <2>2
<1>2. QED
  BY EventInit, <1>1, PTL DEF Spec

(***************************************************************************)
(* Types of a McMahon event; every result is of a round that was played.   *)
(***************************************************************************)
THEOREM EventTypes == Spec => []TypeOK
<1>1. EventInv => TypeOK
  <2> SUFFICES ASSUME EventInv PROVE TypeOK
    OBVIOUS
  <2> DEFINE R == [round : 1..MaxRounds(Len(ids)), black : Players,
                   white : Players \cup {Ghost}, winner : Players]
  <2>1. results \in Seq(Result) /\ \A i \in 1..Len(results) : results[i] \in R
    <3>1. results \in Seq(Result) /\ \A i \in 1..Len(results) : results[i] \in Result
      BY DEF EventInv
    <3>2. \A i \in 1..Len(results) : results[i].round \in 1..MaxRounds(Len(ids))
      <4>1. round \in 0..MaxRounds(Len(ids)) /\ MaxRounds(Len(ids)) \in Nat
        BY McMahonAssumption DEF EventInv
      <4>2. QED BY <4>1 DEF EventInv
    <3>3. QED BY <3>1, <3>2 DEF Result
  <2> HIDE DEF R
  <2>2. results \in Seq(R)
    BY <2>1
  <2>3. QED BY <2>2 DEF EventInv, TypeOK, R
<1>2. QED
  BY EventInvariant, <1>1, PTL

(***************************************************************************)
(* Every round of the event has every player exactly once: McMahonRound    *)
(* leaves nobody out and takes nobody twice, in no round of any event.     *)
(***************************************************************************)
THEOREM EveryoneOnce == Spec => []EveryoneOncePerRound
<1>1. EventInv => EveryoneOncePerRound
  <2> SUFFICES ASSUME EventInv, NEW r \in 1..round, NEW p \in Players
               PROVE  Cardinality({i \in ResultsOf(p) : results[i].round = r}) = 1
    BY DEF EveryoneOncePerRound
  <2>1. OnceIn(results, Players, r)
    BY DEF EventInv
  <2>2. PICK i : InRound(results, p, r) = {i}
    BY <2>1 DEF OnceIn
  <2>3. {k \in ResultsOf(p) : results[k].round = r} = InRound(results, p, r)
    BY DEF InRound, ResultsOf
  <2>4. QED BY <2>2, <2>3, FS_Singleton
<1>2. QED
  BY EventInvariant, <1>1, PTL

(***************************************************************************)
(* Nobody has a second bye while somebody has had none, however long the   *)
(* event and however the ratings move: ByeIndex takes a player who had a   *)
(* bye only when all have had one.                                         *)
(***************************************************************************)
THEOREM ByesShareOut == Spec => []ByesGoRound
<1>1. EventInv => ByesGoRound
  <2> SUFFICES ASSUME EventInv, NEW p \in Players, NEW q \in Players,
                      Cardinality(Byes(p)) > 1
               PROVE  Byes(q) # {}
    BY DEF ByesGoRound
  <2>1. Ghost \notin Players
    BY FieldFacts DEF EventInv, Players
  <2>2. ASSUME NEW x \in Players, NEW i
        PROVE  i \in Byes(x) <=> i \in 1..Len(results) /\ ByeOf(results, i, x)
    BY <2>1 DEF Byes, ResultsOf, ByeOf, IsBye
  <2>3. Byes(p) # {} /\ ~ \E i : Byes(p) = {i}
    <3>1. Cardinality({}) = 0 /\ \A i : Cardinality({i}) = 1
      BY FS_EmptySet, FS_Singleton
    <3>2. Cardinality(Byes(p)) # 0 /\ Cardinality(Byes(p)) # 1
      <4> DEFINE c == Cardinality(Byes(p))
      <4>1. c > 1
        OBVIOUS
      <4> HIDE DEF c
      <4>2. c # 0 /\ c # 1
        BY <4>1
      <4>3. QED BY <4>2 DEF c
    <3>3. QED BY <3>1, <3>2
  <2>4. PICK i \in Byes(p), j \in Byes(p) : i # j
    BY <2>3
  <2>5. TwoByes(results, p)
    BY <2>2, <2>4 DEF TwoByes
  <2>6. HasBye(results, q)
    BY <2>5 DEF EventInv, ByesShared
  <2>7. QED BY <2>2, <2>6 DEF HasBye
<1>2. QED
  BY EventInvariant, <1>1, PTL

(***************************************************************************)
(* The places of the table count the players who are strictly better in    *)
(* score, SOS and SOSOS, after every round of every event: sharing a place *)
(* with the row above, as Standings does, is sharing it with all equals.   *)
(***************************************************************************)
THEOREM PlacesAreRight == Spec => []PlacesCountBetter
<1>1. EventInv => PlacesCountBetter
  <2> SUFFICES ASSUME EventInv PROVE PlacesCountBetter
    OBVIOUS
  <2> DEFINE n == Len(ids)
             t == Standings(ids, start, rating, results)
  <2>1. /\ n \in Sizes /\ ids = [i \in 1..n |-> i] /\ start \in [Players -> Nat]
        /\ rating \in Ratings(n) /\ results \in Seq(Result)
    BY DEF EventInv
  <2>2. ids \in Seq(Nat) /\ Distinct(ids) /\ Players = 1..n /\ Ghost \notin Players
    BY <2>1, FieldFacts DEF Players
  <2>3. rating \in [1..n -> Nat]
    BY <2>1, McMahonAssumption
  <2>4. \A p \in Players : start[p] \in Int /\ rating[p] \in Int
    BY <2>1, <2>2, <2>3
  <2>5. \A i \in 1..Len(results) : results[i].black # Ghost
    <3>1. TAKE i \in 1..Len(results)
    <3>2. results[i] \in Result
      BY <2>1
    <3>3. results[i].black \in Players
      BY <3>2 DEF Result
    <3>4. QED BY <2>2, <3>3
  <2>6. Len(results) \in Nat
    BY <2>1
  <2>7. PlacesCount(t, n, Players)
    BY <2>2, <2>4, <2>5, <2>6, StandingsPlaces DEF Players
  <2> HIDE DEF n
  <2>8. PlacesCount(t, n, Players) => PlacesCountBetter
    BY DEF PlacesCount, PlacesCountBetter, BetterRow, n
  <2>9. QED BY <2>7, <2>8
<1>2. QED
  BY EventInvariant, <1>1, PTL
-----------------------------------------------------------------------------
(* The colours of a McMahon event. *)

\* The games of a list in which a member of T had black, and their number.
BlackGames(list, T) == {i \in 1..Len(list) : ~IsBye(list[i]) /\ list[i].black \in T}

Blacks(list, T) == Cardinality(BlackGames(list, T))

LEMMA BlacksNat ==
  ASSUME NEW list, Len(list) \in Nat, NEW T
  PROVE  Blacks(list, T) \in Nat
<1>1. BlackGames(list, T) \in SUBSET (1..Len(list)) /\ IsFiniteSet(1..Len(list))
  BY FS_Interval DEF BlackGames
<1>2. QED
  BY <1>1, FS_Subset, FS_CardinalityType DEF Blacks

LEMMA BlacksAdd ==
  ASSUME NEW list, Len(list) \in Nat, NEW S, NEW U, S \cap U = {}
  PROVE  /\ Blacks(list, S) \in Nat /\ Blacks(list, U) \in Nat
         /\ Blacks(list, S \cup U) = Blacks(list, S) + Blacks(list, U)
<1> DEFINE s == BlackGames(list, S)
           u == BlackGames(list, U)
<1>1. s \in SUBSET (1..Len(list)) /\ u \in SUBSET (1..Len(list)) /\ s \cap u = {}
  BY DEF BlackGames
<1>2. IsFiniteSet(1..Len(list))
  BY FS_Interval
<1>3. BlackGames(list, S \cup U) = s \cup u
  BY DEF BlackGames
<1> HIDE DEF s, u
<1>4. /\ IsFiniteSet(s) /\ IsFiniteSet(u)
      /\ Cardinality(s) \in Nat /\ Cardinality(u) \in Nat
  BY <1>1, <1>2, FS_Subset, FS_CardinalityType
<1>5. Cardinality(s \cup u) = Cardinality(s) + Cardinality(u)
  <2>1. Cardinality(s \cup u) = Cardinality(s) + Cardinality(u) - Cardinality(s \cap u)
    BY <1>4, FS_Union
  <2>2. Cardinality(s \cap u) = 0
    BY <1>1, FS_EmptySet
  <2>3. QED BY <1>4, <2>1, <2>2
<1>6. QED
  BY <1>3, <1>4, <1>5 DEF Blacks, s, u

\* As many images as arguments.
LEMMA ImageSize ==
  ASSUME NEW S, IsFiniteSet(S), NEW f, \A x, y \in S : f[x] = f[y] => x = y
  PROVE  /\ IsFiniteSet({f[x] : x \in S})
         /\ Cardinality({f[x] : x \in S}) = Cardinality(S)
<1> DEFINE E == {f[x] : x \in S}
           g == [x \in S |-> f[x]]
<1>1. g \in Bijection(S, E)
  BY DEF Bijection, Injection, Surjection, IsInjective
<1>2. ExistsBijection(S, E)
  BY <1>1 DEF ExistsBijection
<1>3. QED
  BY <1>2, FS_Bijection

(***************************************************************************)
(* Four times the most games that k players of a field of n have had black *)
(* in after r rounds: half of all rounds, and what the k may be ahead of   *)
(* the other n - k.                                                        *)
(***************************************************************************)
Most(n, k, r) == 2 * (k * r) + k * (n - k) + (k % 2)

InBounds(list, P, r) ==
  \A T \in SUBSET P : 4 * Blacks(list, T) <= Most(Cardinality(P), Cardinality(T), r)

(***************************************************************************)
(* The arithmetic of a round.  Of k players w have black and w white in    *)
(* games among themselves, j have black against others, c have white or a  *)
(* bye.                                                                    *)
(***************************************************************************)
LEMMA MostStep ==
  ASSUME NEW n \in Nat, NEW r \in Nat, NEW k \in Nat,
         NEW j \in Nat, NEW w \in Nat, NEW c \in Nat, k = 2 * w + j + c,
         NEW N \in Nat, NEW less \in Nat, NEW more \in Nat, 2 * N <= less + more,
         4 * less <= Most(n, k - j, r), 4 * more <= Most(n, k + j, r)
  PROVE  4 * (N + (w + j)) <= Most(n, k, r + 1)
<1> DEFINE kr == k * r
           jr == j * r
           jj == j * j
           kk == k * k
           kj == k * j
           kn == k * n
           jn == j * n
           par == (k - j) % 2
<1>1. /\ kr \in Nat /\ jr \in Nat /\ jj \in Nat /\ kk \in Nat /\ kj \in Nat
      /\ kn \in Nat /\ jn \in Nat
  OBVIOUS
<1>2. /\ (k - j) * r = kr - jr /\ (k + j) * r = kr + jr
      /\ k * (r + 1) = kr + k
      /\ k * (n - k) = kn - kk
  OBVIOUS
<1>3. (k - j) * (n - (k - j)) = kn - jn - kk + 2 * kj - jj
  OBVIOUS
<1>4. (k + j) * (n - (k + j)) = kn + jn - kk - 2 * kj - jj
  OBVIOUS
<1>5. par \in {0, 1} /\ (k + j) % 2 = par /\ k % 2 \in {0, 1}
  OBVIOUS
<1>6. 2 * j - jj + par <= 2 * c + (k % 2)
  <2>1. CASE c = 0
    <3>1. par = 0 /\ k % 2 = j % 2
      BY <2>1
    <3>2. CASE j = 1
      BY <2>1, <3>1, <3>2
    <3>3. CASE j # 1
      <4>1. j * j >= 2 * j
        BY <3>3
      <4>2. QED BY <1>1, <1>5, <2>1, <3>1, <4>1
    <3>4. QED BY <3>2, <3>3
  <2>2. CASE c # 0
    <3>1. j * j >= 2 * j - 1
      OBVIOUS
    <3>2. QED BY <1>1, <1>5, <2>2, <3>1
  <2>3. QED BY <2>1, <2>2
<1>7. 4 * less <= 2 * (kr - jr) + (kn - jn - kk + 2 * kj - jj) + par
  BY <1>2, <1>3 DEF Most
<1>8. 4 * more <= 2 * (kr + jr) + (kn + jn - kk - 2 * kj - jj) + par
  BY <1>2, <1>4, <1>5 DEF Most
<1>9. Most(n, k, r + 1) = 2 * (kr + k) + (kn - kk) + (k % 2)
  BY <1>2 DEF Most
<1> HIDE DEF kr, jr, jj, kk, kj, kn, jn, par
<1>10. QED
  BY <1>1, <1>5, <1>6, <1>7, <1>8, <1>9

\* No set of members of D had black more often than the set of their foes.
FoesAhead(list, D, foe) ==
  \A S \in SUBSET D : Blacks(list, S) <= Blacks(list, {foe[x] : x \in S})

\* It is enough that no single member of D has.
LEMMA FoesHaveMore ==
  ASSUME NEW list, Len(list) \in Nat, NEW D, IsFiniteSet(D), NEW foe,
         \A x, y \in D : foe[x] = foe[y] => x = y,
         \A x \in D : Blacks(list, {x}) <= Blacks(list, {foe[x]})
  PROVE  FoesAhead(list, D, foe)
<1> DEFINE Foes(S) == {foe[x] : x \in S}
           Good(k) == \A S \in SmallOf(D, k) : Blacks(list, S) <= Blacks(list, Foes(S))
           K == {k \in Nat : Good(k)}
           n == Cardinality(D)
<1>1. n \in Nat
  BY FS_CardinalityType
<1>2. 0 \in K
  <2>1. SmallOf(D, 0) = {{}} /\ Foes({}) = {} /\ Blacks(list, {}) \in Nat
    BY SmallSets, BlacksAdd
  <2>2. Blacks(list, {}) <= Blacks(list, Foes({}))
    BY <2>1
  <2>3. QED BY <2>1, <2>2
<1>3. ASSUME NEW k \in 0..(n - 1), k \in K PROVE k + 1 \in K
  <2>1. k \in Nat /\ Good(k)
    BY <1>3
  <2> SUFFICES ASSUME NEW S \in SmallOf(D, k + 1)
               PROVE  Blacks(list, S) <= Blacks(list, Foes(S))
    BY <2>1
  <2>2. CASE S = {}
    BY <2>1, <2>2, SmallSets
  <2>3. CASE S # {}
    <3> DEFINE x == FirstOf(S)
               rest == S \ {x}
    <3>1. x \in S /\ rest \in SmallOf(D, k) /\ S \in SUBSET D
      BY <2>1, <2>3, SmallSets DEF SmallOf
    <3>2. Blacks(list, rest) <= Blacks(list, Foes(rest))
      BY <2>1, <3>1
    <3>3. x \in D /\ x \notin rest /\ S = rest \cup {x}
      BY <3>1
    <3>4. Foes(S) = Foes(rest) \cup {foe[x]} /\ foe[x] \notin Foes(rest)
      BY <3>1, <3>3
    <3> HIDE DEF rest, x, Foes
    <3>5. /\ Blacks(list, rest) \in Nat /\ Blacks(list, {x}) \in Nat
          /\ Blacks(list, S) = Blacks(list, rest) + Blacks(list, {x})
      <4>1. rest \cap {x} = {}
        BY <3>3
      <4>2. QED BY <3>3, <4>1, BlacksAdd
    <3>6. /\ Blacks(list, Foes(rest)) \in Nat /\ Blacks(list, {foe[x]}) \in Nat
          /\ Blacks(list, Foes(S)) = Blacks(list, Foes(rest)) + Blacks(list, {foe[x]})
      <4> DEFINE F == Foes(rest)
                 y == {foe[x]}
      <4>1. F \cap y = {} /\ Foes(S) = F \cup y
        BY <3>4
      <4> HIDE DEF F, y
      <4>2. /\ Blacks(list, F) \in Nat /\ Blacks(list, y) \in Nat
            /\ Blacks(list, F \cup y) = Blacks(list, F) + Blacks(list, y)
        BY <4>1, BlacksAdd
      <4>3. Blacks(list, Foes(S)) = Blacks(list, F) + Blacks(list, y)
        BY <4>1, <4>2
      <4>4. QED BY <4>2, <4>3 DEF F, y
    <3>7. Blacks(list, {x}) <= Blacks(list, {foe[x]})
      BY <3>3
    <3>8. QED BY <3>2, <3>5, <3>6, <3>7
  <2>4. QED BY <2>2, <2>3
<1>4. n \in K
  <2> HIDE DEF K, n
  <2>1. 0..n \subseteq K
    BY <1>1, <1>2, <1>3, Induct
  <2>2. QED BY <1>1, <2>1
<1>5. SmallOf(D, n) = SUBSET D
  BY SmallSets
<1>6. QED
  BY <1>4, <1>5 DEF FoesAhead

(***************************************************************************)
(* A round of black players D and their foes keeps the bounds if nobody    *)
(* had black more often than the foe he has it against: the players of T   *)
(* who have black against others give way to their foes in the bound for   *)
(* the round before.                                                       *)
(***************************************************************************)
LEMMA BoundsStep ==
  ASSUME NEW list, Len(list) \in Nat, NEW P, IsFiniteSet(P), NEW r \in Nat,
         InBounds(list, P, r), NEW D \in SUBSET P, NEW foe \in [D -> P \ D],
         \A x, y \in D : foe[x] = foe[y] => x = y,
         \A x \in D : Blacks(list, {x}) <= Blacks(list, {foe[x]}),
         NEW T \in SUBSET P
  PROVE  4 * (Blacks(list, T) + Cardinality(T \cap D))
           <= Most(Cardinality(P), Cardinality(T), r + 1)
<1> DEFINE Out == {x \in T \cap D : foe[x] \notin T}
           Inn == {x \in T \cap D : foe[x] \in T}
           FoesOut == {foe[x] : x \in Out}
           FoesInn == {foe[x] : x \in Inn}
           Less == T \ Out
           More == T \cup FoesOut
           Rest == T \ ((Out \cup Inn) \cup FoesInn)
           num(S) == Cardinality(S)
<1>1. /\ Out \in SUBSET P /\ Inn \in SUBSET P /\ FoesInn \in SUBSET P
      /\ FoesOut \in SUBSET P /\ Less \in SUBSET P /\ More \in SUBSET P
      /\ Rest \in SUBSET P /\ Out \in SUBSET D /\ Inn \in SUBSET D
  OBVIOUS
<1>2. \A S \in SUBSET P : IsFiniteSet(S) /\ num(S) \in Nat
  BY FS_Subset, FS_CardinalityType
<1>3. /\ T \cap D = Out \cup Inn /\ Out \cap Inn = {}
      /\ T = ((Out \cup Inn) \cup FoesInn) \cup Rest
      /\ (Out \cup Inn) \cap FoesInn = {}
      /\ ((Out \cup Inn) \cup FoesInn) \cap Rest = {}
      /\ T = Less \cup Out /\ Less \cap Out = {} /\ T \cap FoesOut = {}
  OBVIOUS
<1>4. num(FoesInn) = num(Inn) /\ num(FoesOut) = num(Out)
  <2>1. /\ \A x, y \in Inn : foe[x] = foe[y] => x = y
        /\ \A x, y \in Out : foe[x] = foe[y] => x = y
    OBVIOUS
  <2>2. IsFiniteSet(Inn) /\ IsFiniteSet(Out)
    BY <1>1, <1>2
  <2> HIDE DEF Inn, Out
  <2>3. QED BY <2>1, <2>2, ImageSize
<1>5. Blacks(list, Out) <= Blacks(list, FoesOut)
  <2>1. IsFiniteSet(D)
    BY FS_Subset
  <2>2. FoesAhead(list, D, foe)
    BY <2>1, FoesHaveMore
  <2> HIDE DEF Out
  <2>3. QED BY <1>1, <2>2 DEF FoesAhead
<1> HIDE DEF Out, Inn, FoesOut, FoesInn, Less, More, Rest
<1>6. ASSUME NEW A \in SUBSET P, NEW B \in SUBSET P, A \cap B = {}
      PROVE  num(A \cup B) = num(A) + num(B)
  <2>1. IsFiniteSet(A) /\ IsFiniteSet(B) /\ num(A) \in Nat /\ num(B) \in Nat
    BY <1>2
  <2>2. num(A \cup B) = num(A) + num(B) - num(A \cap B)
    BY <2>1, FS_Union
  <2>3. num(A \cap B) = 0
    BY <1>6, FS_EmptySet
  <2>4. QED BY <2>1, <2>2, <2>3
<1> DEFINE n == num(P)
           k == num(T)
           j == num(Out)
           w == num(Inn)
           c == num(Rest)
<1>7. /\ n \in Nat /\ k \in Nat /\ j \in Nat /\ w \in Nat /\ c \in Nat
      /\ num(Less) \in Nat /\ num(More) \in Nat /\ P \in SUBSET P
  BY <1>1, <1>2
<1>8. num(T \cap D) = w + j
  <2>1. num(Out \cup Inn) = j + w
    BY <1>1, <1>3, <1>6
  <2>2. num(T \cap D) = num(Out \cup Inn)
    BY <1>3
  <2> HIDE DEF num
  <2>3. QED BY <1>7, <2>1, <2>2
<1>9. k = 2 * w + j + c
  <2>1. num(Out \cup Inn) = j + w
    BY <1>1, <1>3, <1>6
  <2>2. num((Out \cup Inn) \cup FoesInn) = (j + w) + w
    <3>1. Out \cup Inn \in SUBSET P
      BY <1>1
    <3>2. QED BY <1>1, <1>3, <1>4, <1>6, <2>1, <3>1
  <2>3. k = ((j + w) + w) + c
    <3>1. (Out \cup Inn) \cup FoesInn \in SUBSET P
      BY <1>1
    <3>2. num(((Out \cup Inn) \cup FoesInn) \cup Rest)
            = num((Out \cup Inn) \cup FoesInn) + c
      BY <1>1, <1>3, <1>6, <3>1
    <3>3. k = num(((Out \cup Inn) \cup FoesInn) \cup Rest)
      BY <1>3
    <3>4. QED BY <2>2, <3>2, <3>3
  <2> HIDE DEF k, j, w, c
  <2>4. QED BY <1>7, <2>3
<1>10. num(Less) = k - j /\ num(More) = k + j
  <2>1. k = num(Less) + j
    <3>1. num(Less \cup Out) = num(Less) + j
      BY <1>1, <1>3, <1>6
    <3>2. QED BY <1>3, <3>1
  <2>2. num(More) = k + j
    BY <1>1, <1>3, <1>4, <1>6 DEF More
  <2> HIDE DEF k, j
  <2>3. QED BY <1>7, <2>1, <2>2
<1> DEFINE N == Blacks(list, T)
           less == Blacks(list, Less)
           more == Blacks(list, More)
<1>11. 4 * less <= Most(n, k - j, r) /\ 4 * more <= Most(n, k + j, r)
  <2>1. /\ 4 * less <= Most(n, num(Less), r)
        /\ 4 * more <= Most(n, num(More), r)
    BY <1>1 DEF InBounds
  <2>2. QED BY <1>10, <2>1
<1>12. N \in Nat /\ less \in Nat /\ more \in Nat /\ 2 * N <= less + more
  <2>1. /\ less \in Nat /\ Blacks(list, Out) \in Nat
        /\ Blacks(list, Less \cup Out) = less + Blacks(list, Out)
    BY <1>3, BlacksAdd
  <2>2. /\ N \in Nat /\ Blacks(list, FoesOut) \in Nat
        /\ Blacks(list, T \cup FoesOut) = N + Blacks(list, FoesOut)
    BY <1>3, BlacksAdd
  <2>3. N = less + Blacks(list, Out)
    BY <1>3, <2>1
  <2>4. more = N + Blacks(list, FoesOut)
    BY <2>2 DEF More
  <2> DEFINE o == Blacks(list, Out)
             f == Blacks(list, FoesOut)
  <2>5. /\ N = less + o /\ more = N + f /\ o <= f
        /\ N \in Nat /\ less \in Nat /\ o \in Nat /\ f \in Nat
    BY <1>5, <2>1, <2>2, <2>3, <2>4
  <2> HIDE DEF N, less, more, o, f
  <2>6. QED BY <2>5
<1> HIDE DEF n, k, j, w, c, N, less, more
<1>13. 4 * (N + (w + j)) <= Most(n, k, r + 1)
  BY <1>7, <1>9, <1>11, <1>12, MostStep
<1>14. QED
  BY <1>8, <1>13 DEF N, n, k

\* A player's blacks in the tally are his black games.
LEMMA TallyBlacks ==
  ASSUME EventInv, NEW p \in Players
  PROVE  tally[p].blacks = Blacks(results, {p})
<1> DEFINE games == {i \in Of(results, Players, p) : ~IsBye(results[i])}
           mine == {i \in games : results[i].black = p}
<1>1. tally[p].blacks = Cardinality(mine)
  BY DEF tally, Tally, Players
<1>2. ASSUME NEW i \in 1..Len(results)
      PROVE  results[i].black \in Players /\ results[i].white \in Players \cup {Ghost}
  <2>1. results[i] \in Result
    BY DEF EventInv
  <2>2. QED BY <2>1 DEF Result
<1>3. mine = BlackGames(results, {p})
  BY <1>2 DEF BlackGames, Of
<1>4. QED
  BY <1>1, <1>3 DEF Blacks

(***************************************************************************)
(* What a round adds to the blacks: one for each of the players D, whose   *)
(* foes had black at least as often.  In an even field everybody is one of *)
(* D or a foe of one.                                                      *)
(***************************************************************************)
RoundOfFoes(D, foe) ==
  /\ D \in SUBSET Players /\ foe \in [D -> Players \ D]
  /\ \A x, y \in D : foe[x] = foe[y] => x = y
  /\ \A x \in D : Blacks(results, {x}) <= Blacks(results, {foe[x]})
  /\ \A T \in SUBSET Players :
       Blacks(results', T) = Blacks(results, T) + Cardinality(T \cap D)
  /\ Cardinality(Players) % 2 = 0 => Players = D \cup {foe[x] : x \in D}

LEMMA AddsFoes ==
  ASSUME EventInv, NEW pairs, Adds(pairs)
  PROVE  \E D, foe : RoundOfFoes(D, foe)
<1> DEFINE m == Len(results)
           Games == {i \in 1..Len(pairs) : ~IsBye(pairs[i])}
           D == {pairs[i].black : i \in Games}
           at == [x \in D |-> CHOOSE i \in Games : pairs[i].black = x]
           foe == [x \in D |-> pairs[at[x]].white]
<1>1. /\ Len(pairs) \in Nat /\ OnceSeated(pairs) /\ ColoursFair(pairs, tally)
      /\ \A x \in Players : \E i \in 1..Len(pairs) : Sits(pairs[i], x)
      /\ ByeIsFair(pairs, tally, Players)
  BY DEF Adds, FullRound
<1>2. m \in Nat /\ Ghost \notin Players /\ IsFiniteSet(Players)
  <2>1. m \in Nat
    BY DEF EventInv
  <2>2. ids \in Seq(Nat) /\ Distinct(ids) /\ Ghost \notin Players
    BY FieldFacts DEF EventInv, Players
  <2>3. QED BY <2>1, <2>2, FieldSize DEF Players
<1>3. ASSUME NEW i \in Games
      PROVE  /\ i \in 1..Len(pairs) /\ pairs[i].black \in Players
             /\ pairs[i].white \in Players /\ pairs[i].black # pairs[i].white
  <2>1. pairs[i] \in BoardsOf(Players)
    BY DEF Adds, FullRound
  <2>2. pairs[i].black \in Players /\ pairs[i].white \in Players \cup {Ghost}
    BY <2>1 DEF BoardsOf
  <2>3. QED BY <1>1, <2>2 DEF OnceSeated, IsBye
<1>4. ASSUME NEW i \in Games, NEW j \in Games, NEW x,
             Sits(pairs[i], x), Sits(pairs[j], x)
      PROVE  i = j
  BY <1>1, <1>4 DEF OnceSeated
<1>5. ASSUME NEW x \in D PROVE at[x] \in Games /\ pairs[at[x]].black = x
  <2>1. \E i \in Games : pairs[i].black = x
    OBVIOUS
  <2>2. at[x] = CHOOSE i \in Games : pairs[i].black = x
    OBVIOUS
  <2> HIDE DEF Games, at
  <2>3. QED BY <2>1, <2>2
<1>6. ASSUME NEW i \in Games PROVE pairs[i].black \in D /\ at[pairs[i].black] = i
  <2>1. pairs[i].black \in D
    OBVIOUS
  <2> DEFINE x == pairs[i].black
  <2>2. at[x] \in Games /\ pairs[at[x]].black = x
    BY <1>5, <2>1
  <2>3. Sits(pairs[at[x]], x) /\ Sits(pairs[i], x)
    BY <2>2 DEF Sits
  <2> HIDE DEF D, at, Games, x
  <2>4. at[x] = i
    BY <1>4, <2>2, <2>3
  <2>5. QED BY <2>1, <2>4 DEF x
<1>7. D \in SUBSET Players
  BY <1>3
<1>8. \A x \in D : foe[x] = pairs[at[x]].white
  OBVIOUS
<1>9. foe \in [D -> Players \ D]
  <2>1. ASSUME NEW x \in D PROVE foe[x] \in Players \ D
    <3>1. at[x] \in Games /\ foe[x] \in Players
      BY <1>3, <1>5, <1>8
    <3>2. ASSUME foe[x] \in D PROVE FALSE
      <4>1. PICK i \in Games : foe[x] = pairs[i].black
        BY <3>2
      <4>2. Sits(pairs[at[x]], foe[x]) /\ Sits(pairs[i], foe[x])
        BY <1>8, <4>1 DEF Sits
      <4>3. at[x] = i
        BY <1>4, <3>1, <4>2
      <4>4. QED BY <1>3, <1>8, <4>1, <4>3
    <3>3. QED BY <3>1, <3>2
  <2>2. foe = [x \in D |-> foe[x]]
    OBVIOUS
  <2> HIDE DEF foe, D
  <2>3. QED BY <2>1, <2>2
<1> HIDE DEF D, at, foe, Games
<1>10. \A x, y \in D : at[x] = at[y] => x = y
  BY <1>5
<1>11. \A x, y \in D : foe[x] = foe[y] => x = y
  <2>1. TAKE x, y \in D
  <2>2. HAVE foe[x] = foe[y]
  <2>3. Sits(pairs[at[x]], foe[x]) /\ Sits(pairs[at[y]], foe[x])
    BY <1>8, <2>2 DEF Sits
  <2>4. QED BY <1>4, <1>5, <1>10, <2>3
<1>12. ASSUME NEW x \in D PROVE Blacks(results, {x}) <= Blacks(results, {foe[x]})
  <2>1. at[x] \in 1..Len(pairs) /\ ~IsBye(pairs[at[x]])
    BY <1>5 DEF Games
  <2>2. tally[x].blacks <= tally[foe[x]].blacks
    BY <1>1, <1>5, <1>8, <2>1 DEF ColoursFair
  <2>3. x \in Players /\ foe[x] \in Players
    BY <1>7, <1>9
  <2>4. QED BY <2>2, <2>3, TallyBlacks
<1>13. ASSUME NEW T \in SUBSET Players
       PROVE  Blacks(results', T) = Blacks(results, T) + Cardinality(T \cap D)
  <2> DEFINE S == T \cap D
             g == [x \in S |-> m + at[x]]
             new == {g[x] : x \in S}
             old == BlackGames(results, T)
  <2>1. \A x \in D : at[x] \in 1..Len(pairs)
    BY <1>3, <1>5
  <2>2. \A x, y \in S : g[x] = g[y] => x = y
    BY <1>2, <1>10, <2>1
  <2>3. IsFiniteSet(new) /\ Cardinality(new) = Cardinality(S)
    <3>1. IsFiniteSet(S)
      BY <1>2, FS_Subset
    <3> HIDE DEF g, S
    <3>2. QED BY <2>2, <3>1, ImageSize
  <2>4. old \subseteq 1..m /\ IsFiniteSet(old)
    <3>1. old \in SUBSET (1..m) /\ IsFiniteSet(1..m)
      BY <1>2, FS_Interval DEF BlackGames
    <3>2. QED BY <3>1, FS_Subset
  <2>5. ASSUME NEW x \in S
        PROVE  /\ g[x] \in BlackGames(results', T) /\ g[x] \notin 1..m
    <3>1. /\ g[x] = m + at[x] /\ at[x] \in 1..Len(pairs) /\ ~IsBye(pairs[at[x]])
          /\ pairs[at[x]].black = x
      BY <1>5, <2>1 DEF Games
    <3>2. /\ results'[m + at[x]].black = x /\ ~IsBye(results'[m + at[x]])
          /\ m + at[x] \in 1..Len(results')
      <4>1. /\ results'[m + at[x]].black = pairs[at[x]].black
            /\ results'[m + at[x]].white = pairs[at[x]].white
        BY <3>1 DEF Adds
      <4>2. Len(results') = m + Len(pairs)
        BY DEF Adds
      <4>3. m + at[x] \in 1..Len(results')
        BY <1>1, <1>2, <3>1, <4>2
      <4>4. QED BY <3>1, <4>1, <4>3 DEF IsBye
    <3>3. m + at[x] \notin 1..m
      BY <1>2, <3>1
    <3>4. QED BY <3>1, <3>2, <3>3 DEF BlackGames
  <2>6. ASSUME NEW i \in 1..m
        PROVE  i \in BlackGames(results', T) <=> i \in old
    <3>1. results'[i] = results[i] /\ i \in 1..Len(results')
      BY <1>1, <1>2 DEF Adds
    <3>2. QED BY <3>1 DEF BlackGames
  <2>7. ASSUME NEW i \in BlackGames(results', T), i \notin 1..m
        PROVE  i \in new
    <3>1. /\ i \in 1..Len(results') /\ ~IsBye(results'[i]) /\ results'[i].black \in T
      BY DEF BlackGames
    <3>2. PICK k \in 1..Len(pairs) : i = m + k
      BY <2>7, <3>1 DEF Adds
    <3>3. pairs[k].black = results'[i].black /\ ~IsBye(pairs[k])
      BY <3>1, <3>2 DEF Adds, IsBye
    <3>4. k \in Games
      BY <3>3 DEF Games
    <3>5. pairs[k].black \in S /\ g[pairs[k].black] = m + k
      BY <1>6, <3>1, <3>3, <3>4
    <3>6. QED BY <3>2, <3>5
  <2>8. BlackGames(results', T) = old \cup new
    <3> HIDE DEF old, g, S
    <3>1. \A i \in new : i \in BlackGames(results', T)
      BY <2>5
    <3> HIDE DEF new
    <3>2. QED BY <2>4, <2>6, <2>7, <3>1
  <2>9. old \cap new = {}
    <3> HIDE DEF old, g, S
    <3>1. QED BY <2>4, <2>5
  <2> HIDE DEF new, g
  <2>10. Cardinality(old \cup new) = Cardinality(old) + Cardinality(new)
    <3>1. Cardinality(old) \in Nat /\ Cardinality(new) \in Nat
      BY <2>3, <2>4, FS_CardinalityType
    <3>2. Cardinality(old \cup new)
            = Cardinality(old) + Cardinality(new) - Cardinality(old \cap new)
      BY <2>3, <2>4, FS_Union
    <3>3. Cardinality(old \cap new) = 0
      BY <2>9, FS_EmptySet
    <3> HIDE DEF old
    <3>4. QED BY <3>1, <3>2, <3>3
  <2>11. Blacks(results', T) = Cardinality(old \cup new)
    BY <2>8 DEF Blacks
  <2>12. QED BY <2>3, <2>10, <2>11 DEF Blacks
<1>14. ASSUME Cardinality(Players) % 2 = 0
       PROVE  Players = D \cup {foe[x] : x \in D}
  <2>1. ASSUME NEW x \in Players PROVE x \in D \/ \E y \in D : x = foe[y]
    <3>1. PICK i \in 1..Len(pairs) : Sits(pairs[i], x)
      BY <1>1
    <3>2. ~IsBye(pairs[i])
      BY <1>1, <1>14 DEF ByeIsFair
    <3>3. i \in Games
      BY <3>2 DEF Games
    <3>4. pairs[i].black \in D /\ foe[pairs[i].black] = pairs[i].white
      BY <1>6, <1>8, <3>3
    <3>5. QED BY <3>1, <3>4 DEF Sits
  <2>2. QED BY <1>7, <1>9, <2>1
<1>15. RoundOfFoes(D, foe)
  BY <1>7, <1>9, <1>11, <1>12, <1>13, <1>14 DEF RoundOfFoes
<1>16. QED
  BY <1>15

(***************************************************************************)
(* The inductive invariant: every set of players stays in its bounds, not  *)
(* only every single one (a step needs the bounds of the sets made by      *)
(* exchanging players for their foes), and in an even field there are half *)
(* as many games as places.                                                *)
(***************************************************************************)
ColourInv ==
  /\ InBounds(results, Players, round)
  /\ Cardinality(Players) % 2 = 0 =>
       2 * Blacks(results, Players) = Cardinality(Players) * round

LEMMA FieldIsFinite ==
  ASSUME EventInv
  PROVE  /\ IsFiniteSet(Players) /\ Cardinality(Players) = Len(ids)
         /\ Len(ids) \in Nat \ {0, 1} /\ round \in Nat /\ Len(results) \in Nat
<1>1. /\ Len(ids) \in Sizes /\ ids = [i \in 1..Len(ids) |-> i]
      /\ round \in 0..MaxRounds(Len(ids)) /\ results \in Seq(Result)
  BY DEF EventInv
<1>2. ids \in Seq(Nat) /\ Distinct(ids)
  BY <1>1, FieldFacts
<1>3. QED
  BY <1>1, <1>2, FieldSize, McMahonAssumption DEF Players

LEMMA ColourInit == Init => ColourInv
<1> SUFFICES ASSUME Init PROVE ColourInv
  OBVIOUS
<1>1. results = <<>> /\ round = 0 /\ Len(results) = 0
  BY DEF Init
<1>2. /\ IsFiniteSet(Players) /\ Cardinality(Players) \in Nat
  BY EventInit, FieldIsFinite
<1>3. ASSUME NEW T PROVE Blacks(results, T) = 0
  <2>1. BlackGames(results, T) = {}
    BY <1>1 DEF BlackGames
  <2>2. QED BY <2>1, FS_EmptySet DEF Blacks
<1>4. ASSUME NEW n \in Nat, NEW k \in 0..n PROVE 0 <= Most(n, k, 0)
  <2>1. k * (n - k) >= 0 /\ k * 0 = 0 /\ k % 2 \in {0, 1}
    OBVIOUS
  <2> DEFINE a == k * (n - k)
             b == k % 2
  <2>2. a \in Int /\ a >= 0 /\ b \in {0, 1}
    BY <2>1
  <2>3. Most(n, k, 0) = 2 * 0 + a + b
    BY <2>1 DEF Most
  <2> HIDE DEF a, b
  <2>4. QED BY <2>2, <2>3
<1>5. \A T \in SUBSET Players : Cardinality(T) \in 0..Cardinality(Players)
  BY <1>2, FS_Subset, FS_CardinalityType
<1>6. InBounds(results, Players, round)
  <2>1. \A T \in SUBSET Players : 0 <= Most(Cardinality(Players), Cardinality(T), 0)
    BY <1>2, <1>4, <1>5
  <2>2. QED BY <1>1, <1>3, <2>1 DEF InBounds
<1>7. QED
  BY <1>1, <1>2, <1>3, <1>6 DEF ColourInv

LEMMA ColourStep ==
  ASSUME EventInv, ColourInv, NEW now \in Ratings(Len(ids)), NEW blackWins,
         PlayRound(now, blackWins)
  PROVE  ColourInv'
<1> DEFINE P == Players
           n == Cardinality(Players)
<1>1. Players' = Players /\ round' = round + 1
  BY DEF PlayRound, Players
<1>2. IsFiniteSet(P) /\ n \in Nat /\ round \in Nat /\ Len(results) \in Nat
  BY FieldIsFinite
<1>3. PICK D, foe : RoundOfFoes(D, foe)
  <2>1. Adds(McMahonRound(ids, start, now, results))
    BY RoundAdds
  <2>2. QED BY <2>1, AddsFoes
<1>4. /\ D \in SUBSET P /\ foe \in [D -> P \ D]
      /\ \A x, y \in D : foe[x] = foe[y] => x = y
      /\ \A x \in D : Blacks(results, {x}) <= Blacks(results, {foe[x]})
      /\ \A T \in SUBSET P :
           Blacks(results', T) = Blacks(results, T) + Cardinality(T \cap D)
  BY <1>3 DEF RoundOfFoes
<1>5. InBounds(results, P, round)
  BY DEF ColourInv
<1>6. InBounds(results', P, round + 1)
  <2>1. ASSUME NEW T \in SUBSET P
        PROVE  4 * Blacks(results', T) <= Most(Cardinality(P), Cardinality(T), round + 1)
    <3>1. 4 * (Blacks(results, T) + Cardinality(T \cap D))
            <= Most(Cardinality(P), Cardinality(T), round + 1)
      BY <1>2, <1>4, <1>5, BoundsStep
    <3>2. QED BY <1>4, <3>1
  <2>2. QED BY <2>1 DEF InBounds
<1>7. ASSUME n % 2 = 0 PROVE 2 * Blacks(results', P) = n * (round + 1)
  <2> DEFINE F == {foe[x] : x \in D}
             d == Cardinality(D)
  <2>1. P = D \cup F /\ D \cap F = {}
    BY <1>3, <1>4, <1>7 DEF RoundOfFoes
  <2>2. IsFiniteSet(D) /\ d \in Nat
    BY <1>2, <1>4, FS_Subset, FS_CardinalityType
  <2>3. IsFiniteSet(F) /\ Cardinality(F) = d
    BY <1>4, <2>2, ImageSize
  <2> HIDE DEF F
  <2>4. n = 2 * d
    <3>1. Cardinality(D \cup F) = d + d - Cardinality(D \cap F)
      BY <2>2, <2>3, FS_Union
    <3>2. Cardinality(D \cap F) = 0
      BY <2>1, FS_EmptySet
    <3>3. n = Cardinality(D \cup F)
      BY <2>1
    <3> HIDE DEF n, d
    <3>4. QED BY <2>2, <3>1, <3>2, <3>3
  <2>5. Blacks(results', P) = Blacks(results, P) + d
    <3>1. P \cap D = D /\ P \in SUBSET P
      BY <1>4
    <3>2. Blacks(results', P) = Blacks(results, P) + Cardinality(P \cap D)
      BY <1>4, <3>1
    <3>3. QED BY <3>1, <3>2
  <2>6. 2 * Blacks(results, P) = n * round /\ Blacks(results, P) \in Nat
    <3>1. Blacks(results, P) \in Nat
      BY <1>2, BlacksNat
    <3>2. QED BY <1>7, <3>1 DEF ColourInv
  <2>7. n * (round + 1) = n * round + n
    BY <1>2
  <2> DEFINE b == Blacks(results, P)
             c == Blacks(results', P)
             nr == n * round
             all == n * (round + 1)
  <2>8. c = b + d /\ 2 * b = nr /\ b \in Nat /\ all = nr + n /\ nr \in Nat
    BY <1>2, <2>5, <2>6, <2>7
  <2> HIDE DEF n, d, b, c, nr, all
  <2>9. 2 * c = all
    BY <2>2, <2>4, <2>8
  <2>10. QED BY <2>9 DEF c, all
<1>8. QED
  BY <1>1, <1>6, <1>7 DEF ColourInv

(***************************************************************************)
(* The colours of a McMahon event stay close: nobody has black in more     *)
(* than half of the rounds and a quarter of the field, and no two players  *)
(* of an even field differ by more than half of it, for any field, results *)
(* and number of rounds.                                                   *)
(***************************************************************************)
THEOREM ColoursStayClose == Spec => []BlacksClose
<1>1. EventInv /\ ColourInv /\ [Next]_vars => ColourInv'
  <2> SUFFICES ASSUME EventInv, ColourInv, [Next]_vars PROVE ColourInv'
    OBVIOUS
  <2>1. CASE Next
    BY <2>1, ColourStep DEF Next
  <2>2. CASE UNCHANGED vars
    BY <2>2 DEF vars, ColourInv, Players
  <2>3. QED BY <2>1, <2>2
<1>2. EventInv /\ ColourInv => BlacksClose
  <2> SUFFICES ASSUME EventInv, ColourInv PROVE BlacksClose
    OBVIOUS
  <2> DEFINE n == Len(ids)
             b(p) == Blacks(results, {p})
  <2>1. /\ IsFiniteSet(Players) /\ Cardinality(Players) = n
        /\ n \in Nat /\ n >= 2 /\ round \in Nat /\ Len(results) \in Nat
    BY FieldIsFinite
  <2>2. \A p \in Players : tally[p].blacks = b(p) /\ b(p) \in Nat
    BY <2>1, TallyBlacks, BlacksNat
  <2>3. ASSUME NEW p \in Players PROVE 4 * b(p) <= 2 * round + n
    <3>1. {p} \in SUBSET Players /\ Cardinality({p}) = 1
      BY FS_Singleton
    <3>2. 4 * b(p) <= Most(n, 1, round)
      BY <2>1, <3>1 DEF ColourInv, InBounds
    <3>3. Most(n, 1, round) = 2 * round + n
      <4>1. 1 * round = round /\ 1 * (n - 1) = n - 1 /\ 1 % 2 = 1
        BY <2>1
      <4>2. QED BY <2>1, <4>1 DEF Most
    <3>4. QED BY <3>2, <3>3
  <2>4. ASSUME n % 2 = 0, NEW q \in Players PROVE 2 * round - n <= 4 * b(q)
    <3> DEFINE T == Players \ {q}
               B == Blacks(results, Players)
               t == Blacks(results, T)
               nr == n * round
    <3>1. Cardinality(T) = n - 1 /\ T \in SUBSET Players
      BY <2>1, FS_RemoveElement
    <3>2. 4 * t <= Most(n, n - 1, round)
      BY <2>1, <3>1 DEF ColourInv, InBounds
    <3>3. Most(n, n - 1, round) = 2 * (nr - round) + (n - 1) + 1
      <4>1. (n - 1) * round = nr - round /\ (n - 1) * (n - (n - 1)) = n - 1
        BY <2>1
      <4>2. (n - 1) % 2 = 1
        BY <2>1, <2>4
      <4>3. QED BY <4>1, <4>2 DEF Most
    <3>4. 2 * B = nr
      BY <2>1, <2>4 DEF ColourInv
    <3>5. B = t + b(q) /\ t \in Nat
      <4>1. T \cap {q} = {} /\ Players = T \cup {q}
        OBVIOUS
      <4> HIDE DEF T
      <4>2. Blacks(results, T \cup {q}) = t + b(q) /\ t \in Nat
        BY <2>1, <4>1, BlacksAdd
      <4>3. QED BY <4>1, <4>2
    <3>6. b(q) \in Nat /\ nr \in Nat
      BY <2>1, <2>2
    <3>7. n \in Nat /\ round \in Nat
      BY <2>1
    <3> DEFINE bq == b(q)
    <3>8. 4 * t <= 2 * (nr - round) + (n - 1) + 1
      BY <3>2, <3>3
    <3>9. B = t + bq /\ t \in Nat /\ bq \in Nat /\ nr \in Nat /\ 2 * B = nr
      BY <3>4, <3>5, <3>6
    <3> HIDE DEF B, t, nr, b, n, bq
    <3>10. 2 * round - n <= 4 * bq
      BY <3>7, <3>8, <3>9
    <3>11. QED BY <3>10 DEF bq
  <2>5. ASSUME n % 2 = 0, NEW p \in Players, NEW q \in Players
        PROVE  b(p) - b(q) <= n \div 2
    <3>1. 4 * b(p) <= 2 * round + n /\ 2 * round - n <= 4 * b(q)
      BY <2>3, <2>4, <2>5
    <3>2. b(p) \in Nat /\ b(q) \in Nat
      BY <2>2
    <3> HIDE DEF b, n
    <3>3. QED BY <2>1, <2>5, <3>1, <3>2
  <2>6. QED
    BY <2>2, <2>3, <2>5 DEF BlacksClose
<1>3. QED
  BY ColourInit, EventInvariant, <1>1, <1>2, PTL DEF Spec

-----------------------------------------------------------------------------
(* Rematches of a McMahon event. *)

\* Results i and j of a list are games of the same two players, i the earlier one.
Met(list, i, j) ==
  /\ list[i].round < list[j].round /\ ~IsBye(list[j])
  /\ {list[i].black, list[i].white} = {list[j].black, list[j].white}

\* The results of the round of result j, up to j: as many as j's board number.
UpTo(list, j) == {k \in 1..j : list[k].round = list[j].round}

LowBoard(list, j, h) == 2 * (h - Cardinality(UpTo(list, j))) < list[j].round - 1

AllLow(list, h) == \A i, j \in 1..Len(list) : Met(list, i, j) => LowBoard(list, j, h)

LEMMA LowMeans == RematchesLow <=> AllLow(results, Len(ids) \div 2)
<1>1. QED
  BY DEF RematchesLow, AllLow, MetBefore, Met, LowBoard, UpTo

\* Two who have played are in each other's tally of opponents.
LEMMA PlayedMet ==
  ASSUME EventInv, NEW i \in 1..Len(results), NEW p \in Players, NEW q \in Players,
         p # q, {results[i].black, results[i].white} = {p, q}
  PROVE  q \in tally[p].opponents
<1> DEFINE mine == Of(results, Players, p)
           games == {k \in mine : ~IsBye(results[k])}
<1>1. tally[p].opponents = ({results[k].black : k \in games}
                              \cup {results[k].white : k \in games}) \ {p}
  BY DEF tally, Tally, Players
<1>2. Ghost \notin Players
  BY FieldFacts DEF EventInv, Players
<1>3. i \in games
  BY <1>2 DEF Of, IsBye
<1> HIDE DEF games
<1>4. q = results[i].black \/ q = results[i].white
  OBVIOUS
<1>5. QED
  BY <1>1, <1>3, <1>4

\* Nobody has met more players than there were rounds.
LEMMA FewOpponents ==
  ASSUME EventInv, NEW p \in Players
  PROVE  /\ IsFiniteSet(tally[p].opponents)
         /\ Cardinality(tally[p].opponents) \in 0..round
<1> DEFINE mine == Of(results, Players, p)
           games == {k \in mine : ~IsBye(results[k])}
           O == tally[p].opponents
           gameOf(q) == CHOOSE i \in games : q \in {results[i].black, results[i].white}
           g == [q \in O |-> results[gameOf(q)].round]
<1>1. O = ({results[k].black : k \in games} \cup {results[k].white : k \in games}) \ {p}
  BY DEF tally, Tally, Players
<1>2. ASSUME NEW q \in O
      PROVE  /\ gameOf(q) \in 1..Len(results) /\ q # p
             /\ q \in {results[gameOf(q)].black, results[gameOf(q)].white}
             /\ p \in {results[gameOf(q)].black, results[gameOf(q)].white}
  <2>1. q # p /\ \E i \in games : q \in {results[i].black, results[i].white}
    BY <1>1
  <2>2. \A i \in games : /\ i \in 1..Len(results)
                         /\ p \in {results[i].black, results[i].white}
    BY DEF Of
  <2> HIDE DEF games, O
  <2>3. /\ gameOf(q) \in games
        /\ q \in {results[gameOf(q)].black, results[gameOf(q)].white}
    BY <2>1
  <2> HIDE DEF gameOf
  <2>4. QED BY <2>1, <2>2, <2>3
<1> HIDE DEF gameOf, O, games
<1>3. \A q \in O : g[q] = results[gameOf(q)].round
  OBVIOUS
<1>4. ASSUME NEW q \in O PROVE g[q] \in 1..round
  BY <1>2, <1>3 DEF EventInv
<1>5. ASSUME NEW q \in O, NEW u \in O, g[q] = g[u] PROVE q = u
  <2> DEFINE r == g[q]
  <2>1. OnceIn(results, Players, r)
    BY <1>4 DEF EventInv
  <2>2. PICK i : InRound(results, p, r) = {i}
    BY <2>1 DEF OnceIn
  <2>3. gameOf(q) \in InRound(results, p, r) /\ gameOf(u) \in InRound(results, p, r)
    BY <1>2, <1>3, <1>5 DEF InRound
  <2>4. gameOf(q) = gameOf(u)
    BY <2>2, <2>3
  <2>5. QED BY <1>2, <2>4
<1>6. g \in Injection(O, 1..round)
  <2>1. g \in [O -> 1..round]
    BY <1>4
  <2> HIDE DEF g
  <2>2. QED BY <1>5, <2>1 DEF Injection, IsInjective
<1>7. round \in Nat /\ IsFiniteSet(1..round) /\ Cardinality(1..round) = round
  <2>1. round \in Nat
    BY FieldIsFinite
  <2>2. \A k \in Nat : IsFiniteSet(1..k) /\ Cardinality(1..k) = k
    BY FS_Interval
  <2>3. QED BY <2>1, <2>2
<1>8. IsFiniteSet(O) /\ Cardinality(O) <= Cardinality(1..round)
  BY <1>6, <1>7, FS_Injection DEF ExistsInjection
<1>9. Cardinality(O) \in Nat
  BY <1>8, FS_CardinalityType
<1>10. QED
  BY <1>7, <1>8, <1>9 DEF O

(***************************************************************************)
(* One more round: the boards of the earlier ones stay what they were, and *)
(* on a new board two meet again only where the engine was forced.         *)
(***************************************************************************)
LEMMA RematchStep ==
  ASSUME EventInv, RematchesLow, NEW pairs, Adds(pairs), ids' = ids,
         NEW i \in 1..Len(results'), NEW j \in 1..Len(results'), Met(results', i, j)
  PROVE  LowBoard(results', j, Len(ids) \div 2)
<1> DEFINE m == Len(results)
           h == Len(ids) \div 2
<1>1. /\ m \in Nat /\ round \in Nat /\ Len(ids) \in Nat /\ h \in Nat
      /\ \A k \in 1..m : results[k].round \in 1..round
  <2>1. /\ m \in Nat /\ round \in Nat /\ Len(ids) \in Nat
    BY FieldIsFinite
  <2>2. h \in Nat
    BY <2>1
  <2>3. \A k \in 1..m : results[k].round \in 1..round
    BY DEF EventInv
  <2>4. QED BY <2>1, <2>2, <2>3
<1>2. /\ Len(pairs) \in Nat /\ OnceSeated(pairs) /\ RematchesForced(pairs, tally, h)
      /\ \A k \in 1..m : results'[k] = results[k]
      /\ \A k \in 1..Len(pairs) :
           /\ results'[m + k].round = round + 1
           /\ results'[m + k].black = pairs[k].black
           /\ results'[m + k].white = pairs[k].white
      /\ \A k \in 1..Len(results') : k \in 1..m \/ \E l \in 1..Len(pairs) : k = m + l
  BY DEF Adds
<1> HIDE DEF m, h
<1>3. \A k \in 1..Len(results') : k \in 1..m \/ results'[k].round = round + 1
  BY <1>2
<1>4. \A k \in 1..m : results'[k].round \in 1..round
  BY <1>1, <1>2
<1>5. results'[i].round < results'[j].round
  BY DEF Met
<1>6. i \in 1..m
  <2>1. results'[j].round <= round + 1 /\ results'[j].round \in Nat
    BY <1>1, <1>3, <1>4
  <2>2. results'[i].round # round + 1
    BY <1>1, <1>5, <2>1
  <2>3. QED BY <1>3, <2>2
<1>7. CASE j \in 1..m
  <2>1. results'[i] = results[i] /\ results'[j] = results[j]
    BY <1>2, <1>6, <1>7
  <2>2. Met(results, i, j)
    BY <2>1 DEF Met
  <2>3. UpTo(results', j) = UpTo(results, j)
    <3>1. \A k \in 1..j : results'[k] = results[k]
      BY <1>1, <1>2, <1>7
    <3>2. QED BY <2>1, <3>1 DEF UpTo
  <2>4. LowBoard(results, j, h)
    BY <1>6, <1>7, <2>2, LowMeans DEF AllLow, m, h
  <2>5. QED BY <2>1, <2>3, <2>4 DEF LowBoard, h
<1>8. ASSUME NEW k \in 1..Len(pairs), j = m + k PROVE LowBoard(results', j, h)
  <2>1. /\ results'[j].round = round + 1 /\ results'[j].black = pairs[k].black
        /\ results'[j].white = pairs[k].white
    BY <1>2, <1>8
  <2>2. Cardinality(UpTo(results', j)) = k
    <3>1. ASSUME NEW l \in 1..j PROVE results'[l].round = round + 1 <=> l \in (m + 1)..j
      <4>1. CASE l \in 1..m
        <5>1. results'[l].round \in 1..round
          BY <1>4, <4>1
        <5>2. QED BY <1>1, <4>1, <5>1
      <4>2. CASE l \notin 1..m
        <5>1. l \in 1..Len(results') /\ l \in (m + 1)..j
          BY <1>1, <1>8, <4>2
        <5>2. QED BY <1>3, <4>2, <5>1
      <4>3. QED BY <4>1, <4>2
    <3>2. UpTo(results', j) = (m + 1)..j
      <4>1. \A l \in (m + 1)..j : l \in 1..j
        BY <1>1
      <4>2. QED BY <2>1, <3>1, <4>1 DEF UpTo
    <3>3. \A a, b \in Int : a <= b => Cardinality(a..b) = (b - a) + 1
      BY FS_Interval
    <3>4. Cardinality((m + 1)..j) = (j - (m + 1)) + 1
      BY <1>1, <1>2, <1>8, <3>3
    <3>5. (j - (m + 1)) + 1 = k
      BY <1>1, <1>8
    <3>6. QED BY <3>2, <3>4, <3>5
  <2> DEFINE p == pairs[k].black
             q == pairs[k].white
  <2>3. ~IsBye(pairs[k]) /\ p # q /\ p \in Players /\ q \in Players
    <3>1. ~IsBye(pairs[k])
      BY <2>1 DEF Met, IsBye
    <3>2. pairs[k] \in BoardsOf(Players)
      BY DEF Adds, FullRound
    <3>3. QED BY <1>2, <3>1, <3>2 DEF BoardsOf, IsBye, OnceSeated
  <2>4. {results[i].black, results[i].white} = {p, q}
    <3>1. results'[i] = results[i]
      BY <1>2, <1>6
    <3>2. QED BY <2>1, <3>1 DEF Met
  <2>5. q \in tally[p].opponents /\ p \in tally[q].opponents
    <3>1. i \in 1..Len(results)
      BY <1>6 DEF m
    <3>2. {results[i].black, results[i].white} = {q, p}
      BY <2>4
    <3> HIDE DEF p, q
    <3>3. QED BY <2>3, <2>4, <3>1, <3>2, PlayedMet
  <2>6. PICK x \in {p, q} : IsFiniteSet(tally[x].opponents) =>
                              2 * (h - k) < Cardinality(tally[x].opponents)
    <3>1. Forced(pairs[k], k, tally, h)
      BY <1>2 DEF RematchesForced
    <3>2. QED BY <2>3, <2>5, <3>1 DEF Forced
  <2>7. x \in Players
    BY <2>3
  <2>8. 2 * (h - k) < Cardinality(tally[x].opponents)
    BY <2>6, <2>7, FewOpponents
  <2>9. Cardinality(tally[x].opponents) \in 0..round
    BY <2>7, FewOpponents
  <2>10. 2 * (h - k) < (round + 1) - 1
    <3> DEFINE c == Cardinality(tally[x].opponents)
    <3>1. c \in 0..round /\ 2 * (h - k) < c
      BY <2>8, <2>9
    <3> HIDE DEF c
    <3>2. QED BY <1>1, <1>2, <3>1
  <2>11. QED BY <2>1, <2>2, <2>10 DEF LowBoard
<1>9. QED
  BY <1>2, <1>7, <1>8 DEF h

(***************************************************************************)
(* Rematches stay low: in any event, two meet again only at a board with   *)
(* fewer players below it than rounds were played before.  The greedy      *)
(* search moves a rematch down the list as far as the results allow.       *)
(***************************************************************************)
THEOREM RematchesStayLow == Spec => []RematchesLow
<1>1. Init => RematchesLow
  <2> SUFFICES ASSUME Init PROVE RematchesLow
    OBVIOUS
  <2>1. results = <<>> /\ Len(results) = 0
    BY DEF Init
  <2>2. QED BY <2>1 DEF RematchesLow
<1>2. EventInv /\ RematchesLow /\ [Next]_vars => RematchesLow'
  <2> SUFFICES ASSUME EventInv, RematchesLow, [Next]_vars PROVE RematchesLow'
    OBVIOUS
  <2>1. ids' = ids
    BY DEF Next, PlayRound, vars
  <2>2. ASSUME NEW now \in Ratings(Len(ids)), NEW blackWins, PlayRound(now, blackWins)
        PROVE  AllLow(results', Len(ids) \div 2)
    <3>1. Adds(McMahonRound(ids, start, now, results))
      BY <2>2, RoundAdds
    <3>2. \A i, j \in 1..Len(results') :
            Met(results', i, j) => LowBoard(results', j, Len(ids) \div 2)
      BY <2>1, <3>1, RematchStep
    <3>3. QED BY <3>2 DEF AllLow
  <2>3. ASSUME UNCHANGED vars PROVE AllLow(results', Len(ids) \div 2)
    BY <2>3, LowMeans DEF vars
  <2>4. AllLow(results', Len(ids) \div 2)
    BY <2>2, <2>3 DEF Next
  <2>5. AllLow(results', Len(ids') \div 2)
    BY <2>1, <2>4
  <2>6. QED
    BY <2>5 DEF RematchesLow, AllLow, MetBefore, Met, LowBoard, UpTo
<1>3. QED
  BY EventInvariant, <1>1, <1>2, PTL DEF Spec

=============================================================================
