---------------------------- MODULE WizardProofs ----------------------------
(***************************************************************************)
(* The handicap that the wizard proposes, at every lead: first what        *)
(* rounding does, then which stones Recommended takes, then the theorems.  *)
(* After them, the games that the record wizard writes.                    *)
(***************************************************************************)
EXTENDS Wizard, FiniteSetTheorems, TLAPS

\* Normalized komi is a half, at most half a point off, and monotone.
LEMMA NormalizeNear ==
  ASSUME NEW v \in Int
  PROVE  /\ NormalizeKomi(v) \in Int
         /\ NormalizeKomi(v) % 8 = Half
         /\ NormalizeKomi(v) - v <= Half /\ v - NormalizeKomi(v) <= Half
  BY SMT DEF NormalizeKomi, Round, Points, Half

LEMMA NormalizeMonotone ==
  ASSUME NEW v \in Int, NEW w \in Int, v <= w
  PROVE  NormalizeKomi(v) <= NormalizeKomi(w)
  BY SMT DEF NormalizeKomi, Round, Points, Half

\* A komi that is a half stays as it is.
LEMMA NormalizeFixed ==
  ASSUME NEW v \in Int, v % 8 = Half
  PROVE  NormalizeKomi(v) = v
  BY SMT DEF NormalizeKomi, Round, Points, Half

\* The points that make up for a gap grow with it.
LEMMA TargetGrows ==
  ASSUME NEW gap \in Nat, NEW wider \in Nat, gap <= wider, NEW b \in Boards
  PROVE  /\ Target(gap, b) \in Nat
         /\ Target(gap, b) <= Target(wider, b)
<1>1. CASE b = 9
  BY <1>1, SMT DEF Target, BoardMultiplier
<1>2. CASE b = 13
  BY <1>2, SMT DEF Target, BoardMultiplier
<1>3. CASE b = 19
  BY <1>3, SMT DEF Target, BoardMultiplier
<1>4. QED
  BY <1>1, <1>2, <1>3 DEF Boards

-----------------------------------------------------------------------------
Counts(b) == (0..MaxStones(b)) \ {1}

\* s is the number of stones that Recommended takes.
Fewest(gap, b, s) ==
  /\ s \in Counts(b)
  /\ Enough(gap, b, s)
  /\ \A fewer \in (0..(s - 1)) \ {1} : ~Enough(gap, b, fewer)

LEMMA MaxStonesNat ==
  ASSUME NEW b \in Boards
  PROVE  MaxStones(b) \in {5, 9}
  BY DEF MaxStones

\* Some number of stones is enough: all of them are.
LEMMA FewestExists ==
  ASSUME NEW gap \in Nat, NEW b \in Boards
  PROVE  \E s \in Counts(b) : Fewest(gap, b, s)
<1> SUFFICES ASSUME \A s \in Counts(b) : ~Fewest(gap, b, s)
             PROVE  FALSE
  OBVIOUS
<1> DEFINE M == MaxStones(b)
<1>m. M \in {5, 9}
  BY MaxStonesNat
<1>0. ASSUME NEW s \in Counts(b), \A fewer \in (0..(s - 1)) \ {1} : ~Enough(gap, b, fewer)
      PROVE  ~Enough(gap, b, s)
  BY <1>0 DEF Fewest
<1> HIDE DEF M
<1>c. Counts(b) = (0..M) \ {1}
  BY DEF Counts, M
<1>1. ~Enough(gap, b, 0)
  <2>1. 0 \in Counts(b) /\ (0..(0 - 1)) \ {1} = {}
    BY <1>c, <1>m
  <2>2. QED
    BY <1>0, <2>1
<1>2. ~Enough(gap, b, 2)
  <2>1. 2 \in Counts(b) /\ (0..(2 - 1)) \ {1} = {0}
    BY <1>c, <1>m
  <2>2. QED
    BY <1>0, <1>1, <2>1
<1>3. ~Enough(gap, b, 3)
  <2>1. 3 \in Counts(b) /\ (0..(3 - 1)) \ {1} = {0, 2}
    BY <1>c, <1>m
  <2>2. QED
    BY <1>0, <1>1, <1>2, <2>1
<1>4. ~Enough(gap, b, 4)
  <2>1. 4 \in Counts(b) /\ (0..(4 - 1)) \ {1} = {0, 2, 3}
    BY <1>c, <1>m
  <2>2. QED
    BY <1>0, <1>1, <1>2, <1>3, <2>1
<1>5. ~Enough(gap, b, 5)
  <2>1. 5 \in Counts(b) /\ (0..(5 - 1)) \ {1} = {0, 2, 3, 4}
    BY <1>c, <1>m
  <2>2. QED
    BY <1>0, <1>1, <1>2, <1>3, <1>4, <2>1
<1>6. M = 9
  BY <1>5, <1>m DEF Enough, M
<1>7. ~Enough(gap, b, 6)
  <2>1. 6 \in Counts(b) /\ (0..(6 - 1)) \ {1} = {0, 2, 3, 4, 5}
    BY <1>c, <1>6
  <2>2. QED
    BY <1>0, <1>1, <1>2, <1>3, <1>4, <1>5, <2>1
<1>8. ~Enough(gap, b, 7)
  <2>1. 7 \in Counts(b) /\ (0..(7 - 1)) \ {1} = {0, 2, 3, 4, 5, 6}
    BY <1>c, <1>6
  <2>2. QED
    BY <1>0, <1>1, <1>2, <1>3, <1>4, <1>5, <1>7, <2>1
<1>9. ~Enough(gap, b, 8)
  <2>1. 8 \in Counts(b) /\ (0..(8 - 1)) \ {1} = {0, 2, 3, 4, 5, 6, 7}
    BY <1>c, <1>6
  <2>2. QED
    BY <1>0, <1>1, <1>2, <1>3, <1>4, <1>5, <1>7, <1>8, <2>1
<1>10. ~Enough(gap, b, 9)
  <2>1. 9 \in Counts(b) /\ (0..(9 - 1)) \ {1} = {0, 2, 3, 4, 5, 6, 7, 8}
    BY <1>c, <1>6
  <2>2. QED
    BY <1>0, <1>1, <1>2, <1>3, <1>4, <1>5, <1>7, <1>8, <1>9, <2>1
<1>11. QED
  BY <1>6, <1>10 DEF Enough, M

\* What Recommended takes, and the komi it starts from before rounding.
LEMMA Proposal ==
  ASSUME NEW gap \in Nat, NEW b \in Boards
  PROVE  LET r == Recommended(gap, b)
             k == KomiFor(gap, b, r.stones)
         IN  /\ Fewest(gap, b, r.stones)
             /\ r.stones \in Nat /\ ExtraMoves(r.stones) \in Nat
             /\ k = 48 - Target(gap, b) + 96 * ExtraMoves(r.stones)
             /\ k \in Int /\ k <= 48
             /\ r.stones > 0 => k < 44
             /\ r.komi = NormalizeKomi(Clamp(k, -400, 52))
<1> DEFINE s == Recommended(gap, b).stones
           k == KomiFor(gap, b, s)
<1>1. Fewest(gap, b, s)
  BY FewestExists DEF Recommended, Fewest, Counts
<1>2. Recommended(gap, b).komi = NormalizeKomi(Clamp(k, -400, 52))
  BY DEF Recommended, Points, RecKomiMax, Half
<1> HIDE DEF s
<1>3. s \in Nat /\ s # 1 /\ ExtraMoves(s) \in Nat
  BY <1>1, MaxStonesNat DEF Fewest, Counts, ExtraMoves
<1>4. Target(gap, b) \in Nat
  BY TargetGrows
<1>5. \A n \in Nat : KomiFor(gap, b, n) = 48 - Target(gap, b) + 96 * ExtraMoves(n)
  BY DEF KomiFor, PerfectKomi, StoneValue, Points
<1>6. CASE s = 0
  BY <1>1, <1>2, <1>3, <1>4, <1>5, <1>6 DEF s, ExtraMoves
<1>7. CASE s > 0
  <2> DEFINE p == IF s = 2 THEN 0 ELSE s - 1
  <2>1. p \in (0..(s - 1)) \ {1} /\ p \in Nat
    BY <1>3, <1>7
  <2>2. ExtraMoves(s) = ExtraMoves(p) + 1 /\ ExtraMoves(p) \in Nat
    BY <1>3, <1>7 DEF ExtraMoves
  <2>3. KomiFor(gap, b, p) < -52
    <3>1. ~Enough(gap, b, p)
      BY <1>1, <2>1 DEF Fewest
    <3>2. KomiFor(gap, b, p) \in Int
      BY <1>4, <1>5, <2>1, <2>2
    <3>3. QED
      BY <3>1, <3>2 DEF Enough, RecKomiMin, RecKomiMax, Points, Half
  <2> HIDE DEF p
  <2>4. k < 44 /\ k \in Int
    BY <1>3, <1>4, <1>5, <2>1, <2>2, <2>3
  <2>5. QED
    BY <1>1, <1>2, <1>3, <1>5, <2>4 DEF s
<1>8. QED
  BY <1>3, <1>6, <1>7

-----------------------------------------------------------------------------
\* At every gap the proposal is rated as even, until stones run out.
THEOREM EvenEverywhere ==
  ASSUME NEW gap \in Nat, NEW b \in Boards
  PROVE  EvenAt(gap, b)
<1> DEFINE s == Recommended(gap, b).stones
           komi == Recommended(gap, b).komi
           k == KomiFor(gap, b, s)
<1> SUFFICES ASSUME Target(gap, b) <= Limit(b)
             PROVE  Abs(Given(gap, b) - Target(gap, b)) <= Half
  BY DEF EvenAt
<1>1. /\ Fewest(gap, b, s) /\ ExtraMoves(s) \in Nat
      /\ k = 48 - Target(gap, b) + 96 * ExtraMoves(s)
      /\ k \in Int /\ k <= 48
      /\ komi = NormalizeKomi(Clamp(k, -400, 52))
  BY Proposal
<1>2. Target(gap, b) \in Nat
  BY TargetGrows
<1>3. Given(gap, b) = 48 - komi + 96 * ExtraMoves(s)
  BY DEF Given, HeadStart, PerfectKomi, StoneValue, Points
<1> HIDE DEF s, komi, k
<1>4. k >= -400
  <2>1. CASE k >= RecKomiMin
    BY <1>1, <2>1 DEF RecKomiMin, RecKomiMax, Points, Half
  <2>2. CASE s = MaxStones(b)
    <3>1. Limit(b) = 448 + 96 * ExtraMoves(s)
      BY <2>2 DEF Limit, HeadStart, PerfectKomi, StoneValue, Points
    <3>2. QED
      BY <1>1, <1>2, <3>1
  <2>3. QED
    BY <1>1, <2>1, <2>2 DEF Fewest, Enough, k
<1>5. komi = NormalizeKomi(k)
  BY <1>1, <1>4 DEF Clamp
<1>6. komi \in Int /\ komi - k <= 4 /\ k - komi <= 4
  BY <1>1, <1>5, NormalizeNear DEF Half
<1>7. QED
  BY <1>1, <1>2, <1>3, <1>6 DEF Abs, Half

\* A wider gap never gives black less.
THEOREM NeverLessEverywhere ==
  ASSUME NEW gap \in Nat, NEW wider \in Nat, gap <= wider, NEW b \in Boards
  PROVE  NoLessAt(gap, wider, b)
<1> DEFINE s == Recommended(gap, b).stones
           z == Recommended(wider, b).stones
           sk == Recommended(gap, b).komi
           zk == Recommended(wider, b).komi
           k == KomiFor(gap, b, s)
           l == KomiFor(wider, b, z)
<1>1. /\ Fewest(gap, b, s) /\ s \in Nat /\ ExtraMoves(s) \in Nat
      /\ k = 48 - Target(gap, b) + 96 * ExtraMoves(s)
      /\ k \in Int /\ k <= 48
      /\ sk = NormalizeKomi(Clamp(k, -400, 52))
  BY Proposal
<1>2. /\ Fewest(wider, b, z) /\ z \in Nat /\ ExtraMoves(z) \in Nat
      /\ l = 48 - Target(wider, b) + 96 * ExtraMoves(z)
      /\ l \in Int /\ l <= 48 /\ (z > 0 => l < 44)
      /\ zk = NormalizeKomi(Clamp(l, -400, 52))
  BY Proposal
<1>3. /\ Target(gap, b) \in Nat /\ Target(wider, b) \in Nat
      /\ Target(gap, b) <= Target(wider, b)
  BY TargetGrows
<1>4. /\ Given(gap, b) = 48 - sk + 96 * ExtraMoves(s)
      /\ Given(wider, b) = 48 - zk + 96 * ExtraMoves(z)
  BY DEF Given, HeadStart, PerfectKomi, StoneValue, Points
<1>5. z >= s
  <2> SUFFICES ASSUME z < s PROVE FALSE
    BY <1>1, <1>2
  <2>1. z \in (0..(s - 1)) \ {1}
    BY <1>1, <1>2 DEF Fewest, Counts
  <2>2. ~Enough(gap, b, z)
    BY <1>1, <2>1 DEF Fewest
  <2>3. KomiFor(gap, b, z) = 48 - Target(gap, b) + 96 * ExtraMoves(z)
    BY DEF KomiFor, PerfectKomi, StoneValue, Points
  <2>4. l <= KomiFor(gap, b, z) /\ KomiFor(gap, b, z) \in Int
    BY <1>2, <1>3, <2>3
  <2>5. QED
    BY <1>2, <2>2, <2>4 DEF Fewest, Enough, RecKomiMin, RecKomiMax, Points, Half
<1> HIDE DEF s, z, sk, zk, k, l
<1>6. CASE s = z
  <2>1. l <= k
    BY <1>1, <1>2, <1>3, <1>6
  <2>2. /\ Clamp(l, -400, 52) \in Int /\ Clamp(k, -400, 52) \in Int
        /\ Clamp(l, -400, 52) <= Clamp(k, -400, 52)
    BY <1>1, <1>2, <2>1 DEF Clamp
  <2>3. zk <= sk /\ zk \in Int /\ sk \in Int
    BY <1>1, <1>2, <2>2, NormalizeMonotone, NormalizeNear
  <2>4. QED
    BY <1>1, <1>2, <1>4, <1>5, <1>6, <2>3 DEF NoLessAt, s, z
<1>7. CASE s < z
  <2>1. ExtraMoves(s) + 1 <= ExtraMoves(z)
    BY <1>1, <1>2, <1>7 DEF ExtraMoves, Fewest, Counts
  <2>2. s # MaxStones(b)
    BY <1>1, <1>2, <1>7, MaxStonesNat DEF Fewest, Counts
  <2>3. k >= -52
    BY <1>1, <2>2 DEF Fewest, Enough, RecKomiMin, RecKomiMax, Points, Half, k
  <2>4. sk >= -52 /\ sk \in Int
    <3>1. Clamp(k, -400, 52) \in Int /\ Clamp(k, -400, 52) >= -52
      BY <1>1, <2>3 DEF Clamp
    <3>2. NormalizeKomi(-52) = -52
      BY SMT DEF NormalizeKomi, Round, Points, Half
    <3>3. QED
      BY <1>1, <3>1, <3>2, NormalizeMonotone, NormalizeNear
  <2>5. zk <= 44 /\ zk \in Int
    <3>1. Clamp(l, -400, 52) \in Int /\ Clamp(l, -400, 52) <= 44
      BY <1>1, <1>2, <1>7 DEF Clamp
    <3>2. NormalizeKomi(44) = 44
      BY SMT DEF NormalizeKomi, Round, Points, Half
    <3>3. QED
      BY <1>2, <3>1, <3>2, NormalizeMonotone, NormalizeNear
  <2>6. QED
    BY <1>1, <1>2, <1>4, <1>7, <2>1, <2>4, <2>5 DEF NoLessAt, s, z
<1>8. QED
  BY <1>1, <1>2, <1>5, <1>6, <1>7

-----------------------------------------------------------------------------
LeadOK == lead \in Int

\* The leads of the wizard are numbers, whoever records.
LEMMA LeadInt == Spec => []LeadOK
<1>1. Init => LeadOK
  BY DEF Init, LeadOK
<1>2. LeadOK /\ [Next]_vars => LeadOK'
  <2> SUFFICES ASSUME lead \in Int, [Next]_vars
               PROVE  lead' \in Int
    BY DEF LeadOK
  <2>1. CASE Widen
    BY <2>1 DEF Widen
  <2>2. CASE RecordElsewhere
    BY <2>2, WizardAssumption DEF RecordElsewhere
  <2>3. ASSUME NEW t \in Tablet, TabletNext(t)
        PROVE  lead' = lead
    BY <2>3 DEF TabletNext, Open, PickFlow, PickFirst, PickSecond, PickBoard, RecordIt,
       Back, Submit, Get, Press, Post, ShowDone, GiveUp, Reload, BackButton,
       SwitchLanguage, Leave
  <2>4. ASSUME NEW m \in wire, Commit(m)
        PROVE  lead' \in Int
    BY <2>4, WizardAssumption DEF Commit
  <2>5. ASSUME NEW m \in wire, Refuse(m)
        PROVE  lead' = lead
    BY <2>5 DEF Refuse
  <2>6. CASE UNCHANGED vars
    BY <2>6 DEF vars
  <2>7. QED
    BY <2>1, <2>2, <2>3, <2>4, <2>5, <2>6 DEF Next
<1>3. QED
  BY <1>1, <1>2, PTL DEF Spec

\* The gap is the distance of the ratings, whoever leads.
LEMMA AbsNat ==
  ASSUME NEW n \in Int
  PROVE  Abs(n) \in Nat
  BY DEF Abs

(***************************************************************************)
(* The proposal of the wizard is rated as even in every state.             *)
(***************************************************************************)
THEOREM AlwaysEven == Spec => []RatedEven
<1>1. LeadOK => RatedEven
  BY EvenEverywhere, AbsNat DEF RatedEven, LeadOK
<1>2. QED
  BY <1>1, LeadInt, PTL

(***************************************************************************)
(* Whatever moves the ratings, a stronger opponent gives no less.          *)
(***************************************************************************)
THEOREM StrongerGivesMore == Spec => NeverLess
<1>1. ASSUME lead \in Int, lead' \in Int, Abs(lead') > Abs(lead)
      PROVE  \A b \in Boards : NoLessAt(Abs(lead), Abs(lead'), b)
  <2>1. Abs(lead) \in Nat /\ Abs(lead') \in Nat
    BY <1>1, AbsNat
  <2>2. Abs(lead) <= Abs(lead')
    BY <1>1, <2>1
  <2>3. QED
    BY <2>1, <2>2, NeverLessEverywhere
<1>2. LeadOK /\ LeadOK' =>
        [Abs(lead') > Abs(lead) =>
           \A b \in Boards : NoLessAt(Abs(lead), Abs(lead'), b)]_lead
  BY <1>1 DEF LeadOK
<1>3. QED
  BY <1>2, LeadInt, PTL DEF NeverLess

-----------------------------------------------------------------------------
(***************************************************************************)
(* What the record wizard writes is what was confirmed: AsConfirmed, for   *)
(* any number of tablets, commits and games.  Every commit underway has a  *)
(* sheet that was pressed, with a komi that RecordGame will not change,    *)
(* and the commit a page waits for has the sheet of the page.              *)
(***************************************************************************)
Terms == [black : Int, white : Int, board : Int, stones : Int, komi : Int,
          winner : {"none", "black", "white"}]

TabType == [at : Page, got : {"shown", "sent", "lost"}, flow : {"r", "g"}, p1 : Int, p2 : Int,
            board : {0} \cup Boards, sheet : Terms, posts : Nat, game : Nat]

GameType == [by : Tablet \cup {"elsewhere"}, terms : Terms]

Typed ==
  /\ lead \in Int
  /\ games \in Seq(GameType)
  /\ wire \subseteq [from : Tablet, n : Nat, sheet : Terms]
  /\ tab \in [Tablet -> TabType]
  /\ presses \in [Tablet -> Seq(Terms)]

\* Komi as RecordGame would store it.
Settled(s) == s.komi % 8 = Half

Pressed(t, s) == \E k \in 1..Len(presses[t]) : presses[t][k] = s

\* Page l of tablet t.
PageOK(t, l) ==
  /\ l.at \in {"result", "finish"} => l.board \in Boards
  /\ l.at \in {"confirm", "commit", "done"} => Settled(l.sheet)
  /\ l.at \in {"commit", "done"} =>
       /\ presses[t] # <<>>
       /\ presses[t][Len(presses[t])] = l.sheet
  /\ l.at = "done" =>
       /\ l.game \in 1..Len(games)
       /\ games[l.game] = [by |-> t, terms |-> l.sheet]

CommitOK(m) ==
  /\ Settled(m.sheet)
  /\ Pressed(m.from, m.sheet)
  /\ m.n <= tab[m.from].posts
  /\ m.n = tab[m.from].posts /\ tab[m.from].at = "commit" => m.sheet = tab[m.from].sheet

GameOK(g) == g.by \in Tablet => Pressed(g.by, g.terms)

IInv ==
  /\ Typed
  /\ \A t \in Tablet : PageOK(t, tab[t])
  /\ \A m \in wire : CommitOK(m)
  /\ \A i \in 1..Len(games) : GameOK(games[i])

-----------------------------------------------------------------------------
\* Sheets that are proposed, filled in and confirmed.
LEMMA RecommendType ==
  ASSUME lead \in Int, NEW p1 \in Int, NEW p2 \in Int, NEW b \in Boards
  PROVE  Recommend(p1, p2, b) \in Terms
<1> DEFINE h == Recommended(Abs(lead), b)
<1>1. h.stones \in Int /\ h.komi \in Int
  <2>1. Abs(lead) \in Nat
    BY AbsNat
  <2>2. /\ h.stones \in Nat
        /\ KomiFor(Abs(lead), b, h.stones) \in Int
        /\ h.komi = NormalizeKomi(Clamp(KomiFor(Abs(lead), b, h.stones), -400, 52))
    BY <2>1, Proposal
  <2>3. Clamp(KomiFor(Abs(lead), b, h.stones), -400, 52) \in Int
    BY <2>2 DEF Clamp
  <2>4. QED
    BY <2>2, <2>3, NormalizeNear
<1> HIDE DEF h
<1>2. b \in Int
  BY DEF Boards
<1>3. QED
  BY <1>1, <1>2 DEF Recommend, Terms, h

LEMMA ProposedType ==
  ASSUME lead \in Int, NEW l \in TabType, l.board \in Boards, NEW at \in Page
  PROVE  Proposed(l, at) \in TabType
<1>1. Recommend(l.p1, l.p2, l.board) \in Terms
  BY RecommendType DEF TabType
<1>2. QED
  BY <1>1 DEF Proposed, TabType

LEMMA ConfirmedType ==
  ASSUME NEW s \in Terms, NEW e \in Edit
  PROVE  /\ Confirmed(Filled(s, e)) \in Terms
         /\ Settled(Confirmed(Filled(s, e)))
<1>e. e \in [stones : {"shown", "more"}, komi : {"shown", "up", "cleared"},
             swap : BOOLEAN, winner : {"black", "white"}]
  BY WizardAssumption
<1>1. Filled(s, e) \in Terms
  <2> DEFINE f == Filled(s, e)
  <2>1. f.komi \in Int
    BY <1>e DEF Filled, Terms, Clamp, Points, Half
  <2>2. f.stones \in Int /\ f.black \in Int /\ f.white \in Int
    BY <1>e DEF Filled, Terms
  <2>3. QED
    BY <1>e, <2>1, <2>2 DEF Filled, Terms
<1> DEFINE g == Filled(s, e)
<1> HIDE DEF g
<1>2. g \in Terms
  BY <1>1 DEF g
<1>3. NormalizeKomi(g.komi) \in Int /\ NormalizeKomi(g.komi) % 8 = Half
  BY <1>2, NormalizeNear DEF Terms
<1>4. QED
  BY <1>2, <1>3 DEF Confirmed, Terms, Settled, g

-----------------------------------------------------------------------------
(***************************************************************************)
(* A step of one tablet that sends and records nothing: the page may be a  *)
(* commit or done page only as it was before, apart from its answer.       *)
(***************************************************************************)
LEMMA PageStep ==
  ASSUME IInv, NEW t \in Tablet, NEW new \in TabType,
         tab' = [tab EXCEPT ![t] = new],
         UNCHANGED <<lead, games, wire, presses>>,
         new.posts = tab[t].posts,
         new.at \in {"result", "finish"} => new.board \in Boards,
         new.at = "confirm" => Settled(new.sheet),
         new.at \in {"commit", "done"} =>
           new.at = tab[t].at /\ new.sheet = tab[t].sheet /\ new.game = tab[t].game
  PROVE  IInv'
<1>1. Typed'
  BY DEF IInv, Typed
<1>2. tab'[t] = new /\ \A u \in Tablet : u # t => tab'[u] = tab[u]
  BY DEF IInv, Typed
<1>3. \A u \in Tablet : PageOK(u, tab[u])'
  BY <1>2 DEF IInv, PageOK
<1>4. \A m \in wire' : CommitOK(m)'
  BY <1>2 DEF IInv, Typed, CommitOK, Pressed
<1>5. \A i \in 1..Len(games') : GameOK(games[i])'
  BY DEF IInv, GameOK, Pressed
<1>6. QED
  BY <1>1, <1>3, <1>4, <1>5 DEF IInv

LEMMA AppendFacts ==
  ASSUME NEW S, NEW q \in Seq(S), NEW e \in S
  PROVE  /\ Append(q, e) \in Seq(S) /\ Append(q, e) # <<>>
         /\ Len(Append(q, e)) = Len(q) + 1 /\ Len(q) \in Nat
         /\ Append(q, e)[Len(Append(q, e))] = e
         /\ \A k \in 1..Len(q) : k \in 1..Len(Append(q, e)) /\ Append(q, e)[k] = q[k]
  OBVIOUS

LEMMA LastElement ==
  ASSUME NEW S, NEW q \in Seq(S), q # <<>>
  PROVE  Len(q) \in 1..Len(q)
  OBVIOUS

\* Page l with its commit sent.
LEMMA SentFacts ==
  ASSUME NEW l \in TabType
  PROVE  /\ Sent(l) \in TabType /\ Sent(l).at = "commit"
         /\ Sent(l).sheet = l.sheet /\ Sent(l).posts = l.posts + 1
<1>1. l.posts \in Nat /\ l.posts + 1 \in Nat
  BY DEF TabType
<1>2. QED
  BY <1>1 DEF TabType, Sent, Page

\* Page l as that of game n.
LEMMA FollowedFacts ==
  ASSUME NEW l \in TabType, NEW n \in Nat
  PROVE  /\ Followed(l, n) \in TabType /\ Followed(l, n).at = "done"
         /\ Followed(l, n).sheet = l.sheet /\ Followed(l, n).posts = l.posts
         /\ Followed(l, n).game = n
  BY DEF TabType, Followed, Page

\* The sheets pressed at t when its sheet is pressed, or its commit sent again.
LEMMA PressesGrow ==
  ASSUME IInv, NEW t \in Tablet,
         \/ /\ tab[t].at \in {"confirm", "commit"}
            /\ presses' = [presses EXCEPT ![t] = Append(@, tab[t].sheet)]
         \/ tab[t].at = "commit" /\ presses' = presses
  PROVE  /\ presses' \in [Tablet -> Seq(Terms)]
         /\ presses'[t] # <<>> /\ presses'[t][Len(presses'[t])] = tab[t].sheet
         /\ \A u \in Tablet : u # t => presses'[u] = presses[u]
         /\ \A u \in Tablet : \A p : Pressed(u, p) => Pressed(u, p)'
         /\ \E k \in 1..Len(presses'[t]) : presses'[t][k] = tab[t].sheet
<1> DEFINE s == tab[t].sheet
<1>s. s \in Terms
  BY DEF IInv, Typed, TabType
<1>0. presses \in [Tablet -> Seq(Terms)] /\ presses[t] \in Seq(Terms)
  BY DEF IInv, Typed
<1>1. CASE presses' = [presses EXCEPT ![t] = Append(@, s)]
  <2> DEFINE q == Append(presses[t], s)
  <2>1. /\ q \in Seq(Terms) /\ q # <<>> /\ q[Len(q)] = s
        /\ \A k \in 1..Len(presses[t]) : k \in 1..Len(q) /\ q[k] = presses[t][k]
    BY <1>0, <1>s, AppendFacts
  <2> HIDE DEF q
  <2>2. presses' = [presses EXCEPT ![t] = q]
    BY <1>1 DEF q
  <2>3. Len(q) \in 1..Len(q)
    BY <2>1, LastElement
  <2>4. presses'[t] = q /\ \A u \in Tablet : u # t => presses'[u] = presses[u]
    BY <1>0, <2>2
  <2>5. presses' \in [Tablet -> Seq(Terms)]
    BY <1>0, <2>1, <2>2
  <2>6. \E k \in 1..Len(presses'[t]) : presses'[t][k] = tab[t].sheet
    <3>1. Len(presses'[t]) \in 1..Len(presses'[t]) /\ presses'[t][Len(presses'[t])] = tab[t].sheet
      BY <2>1, <2>3, <2>4
    <3>2. QED
      BY <3>1 DEF Pressed
  <2>7. ASSUME NEW u \in Tablet, NEW p, Pressed(u, p) PROVE Pressed(u, p)'
    BY <2>1, <2>4, <2>7 DEF Pressed
  <2>8. QED
    BY <2>1, <2>4, <2>5, <2>6, <2>7
<1>2. CASE tab[t].at = "commit" /\ presses' = presses
  <2>1. presses[t] # <<>> /\ presses[t][Len(presses[t])] = tab[t].sheet
    BY <1>2 DEF IInv, PageOK
  <2>2. Len(presses[t]) \in 1..Len(presses[t])
    BY <1>0, <2>1, LastElement
  <2>3. QED
    BY <1>0, <1>2, <2>1, <2>2 DEF Pressed
<1>3. QED
  BY <1>1, <1>2

\* A commit goes out: from the confirm page with a press, or sent again.
LEMMA PostStep ==
  ASSUME IInv, NEW t \in Tablet, Post(t),
         \/ /\ tab[t].at \in {"confirm", "commit"}
            /\ presses' = [presses EXCEPT ![t] = Append(@, tab[t].sheet)]
         \/ tab[t].at = "commit" /\ presses' = presses
  PROVE  IInv'
<1> DEFINE s == tab[t].sheet
           n == tab[t].posts + 1
           new == Sent(tab[t])
<1>1. Typed /\ tab \in [Tablet -> TabType] /\ tab[t] \in TabType /\ s \in Terms
  BY DEF IInv, Typed, TabType
<1>2. /\ tab' = [tab EXCEPT ![t] = new]
      /\ wire' = wire \cup {[from |-> t, n |-> n, sheet |-> s]}
      /\ UNCHANGED <<lead, games>>
  BY DEF Post
<1>3. /\ new \in TabType /\ new.at = "commit" /\ new.sheet = s /\ new.posts = n
      /\ n \in Nat /\ n > tab[t].posts /\ tab[t].posts \in Nat
  <2>1. tab[t].posts \in Nat
    BY <1>1 DEF TabType
  <2>2. /\ new \in TabType /\ new.at = "commit" /\ new.sheet = s /\ new.posts = n
    BY <1>1, SentFacts
  <2>3. QED
    BY <2>1, <2>2
<1>4. PageOK(t, tab[t]) /\ tab[t].at \in {"confirm", "commit"}
  BY DEF IInv
<1>5. Settled(s)
  BY <1>4 DEF PageOK
<1>6. /\ presses' \in [Tablet -> Seq(Terms)]
      /\ presses'[t] # <<>> /\ presses'[t][Len(presses'[t])] = s
      /\ \A u \in Tablet : u # t => presses'[u] = presses[u]
      /\ \A u \in Tablet : \A p : Pressed(u, p) => Pressed(u, p)'
      /\ \E k \in 1..Len(presses'[t]) : presses'[t][k] = s
  BY PressesGrow
<1> HIDE DEF s, n, new
<1>7. tab'[t] = new /\ \A u \in Tablet : u # t => tab'[u] = tab[u]
  BY <1>1, <1>2
<1>8. Typed'
  <2>1. tab' \in [Tablet -> TabType]
    BY <1>1, <1>2, <1>3
  <2>2. wire' \subseteq [from : Tablet, n : Nat, sheet : Terms]
    BY <1>1, <1>2, <1>3 DEF Typed
  <2>3. QED
    BY <1>1, <1>2, <1>6, <2>1, <2>2 DEF Typed
<1>9. ASSUME NEW u \in Tablet PROVE PageOK(u, tab[u])'
  <2>1. CASE u = t
    BY <1>3, <1>5, <1>6, <1>7, <2>1 DEF PageOK
  <2>2. CASE u # t
    <3>1. PageOK(u, tab[u])
      BY DEF IInv
    <3>2. QED
      BY <1>2, <1>6, <1>7, <2>2, <3>1 DEF PageOK
  <2>3. QED
    BY <2>1, <2>2
<1>10. ASSUME NEW m \in wire' PROVE CommitOK(m)'
  <2>1. CASE m \in wire
    <3>1. CommitOK(m) /\ m.from \in Tablet /\ m.n \in Nat
      BY <1>1, <2>1 DEF IInv, Typed
    <3>2. Pressed(m.from, m.sheet)'
      BY <1>6, <3>1 DEF CommitOK
    <3>3. CASE m.from = t
      <4>1. m.n <= tab[t].posts
        BY <3>1, <3>3 DEF CommitOK
      <4>2. m.n # tab'[t].posts /\ m.n <= tab'[t].posts
        BY <1>3, <1>7, <3>1, <4>1
      <4>3. QED
        BY <3>1, <3>2, <3>3, <4>2 DEF CommitOK
    <3>4. CASE m.from # t
      BY <1>7, <3>1, <3>2, <3>4 DEF CommitOK
    <3>5. QED
      BY <3>3, <3>4
  <2>2. CASE m = [from |-> t, n |-> n, sheet |-> s]
    <3>1. m.from = t /\ m.n = n /\ m.sheet = s
      BY <2>2
    <3>2. Pressed(m.from, m.sheet)'
      BY <1>6, <3>1 DEF Pressed
    <3>3. QED
      BY <1>3, <1>5, <1>7, <3>1, <3>2 DEF CommitOK, Settled
  <2>3. QED
    BY <1>2, <2>1, <2>2
<1>11. ASSUME NEW i \in 1..Len(games') PROVE GameOK(games[i])'
  <2>1. GameOK(games[i]) /\ games' = games
    BY <1>2 DEF IInv
  <2>2. QED
    BY <1>6, <2>1 DEF GameOK
<1>12. QED
  BY <1>8, <1>9, <1>10, <1>11 DEF IInv

(***************************************************************************)
(* A game g is recorded; if a tablet awaits it, its page goes to the game. *)
(***************************************************************************)
LEMMA GameStep ==
  ASSUME IInv, NEW g \in GameType,
         g.by \in Tablet => Pressed(g.by, g.terms),
         games' = Append(games, g), lead' \in Int, wire' \subseteq wire, presses' = presses,
         \/ tab' = tab
         \/ \E t \in Tablet :
              /\ tab' = [tab EXCEPT ![t] = Followed(tab[t], Len(games'))]
              /\ tab[t].at = "commit" /\ g = [by |-> t, terms |-> tab[t].sheet]
  PROVE  IInv'
<1> DEFINE n == Len(games')
<1>1. games \in Seq(GameType) /\ tab \in [Tablet -> TabType]
  BY DEF IInv, Typed
<1>2. /\ games' \in Seq(GameType) /\ games' # <<>> /\ n = Len(games) + 1 /\ Len(games) \in Nat
      /\ games'[n] = g
      /\ \A i \in 1..Len(games) : i \in 1..n /\ games'[i] = games[i]
  BY <1>1, AppendFacts
<1>3. n \in Nat /\ n \in 1..n
  BY <1>2
<1> HIDE DEF n
<1>4. \/ tab' = tab
      \/ \E t \in Tablet :
           /\ tab' = [tab EXCEPT ![t] = Followed(tab[t], n)]
           /\ tab[t].at = "commit" /\ g = [by |-> t, terms |-> tab[t].sheet]
  BY DEF n
<1>5. ASSUME NEW u \in Tablet
      PROVE  /\ tab'[u] \in TabType
             /\ tab'[u].posts = tab[u].posts /\ tab'[u].sheet = tab[u].sheet
             /\ \/ tab'[u] = tab[u]
                \/ /\ tab'[u].at = "done" /\ tab'[u].game = n /\ tab[u].at = "commit"
                   /\ g = [by |-> u, terms |-> tab[u].sheet]
  <2>1. CASE tab' = tab
    BY <1>1, <2>1
  <2>2. ASSUME NEW t \in Tablet, tab' = [tab EXCEPT ![t] = Followed(tab[t], n)],
               tab[t].at = "commit", g = [by |-> t, terms |-> tab[t].sheet]
        PROVE  <1>5!2
    <3>1. /\ Followed(tab[t], n) \in TabType /\ Followed(tab[t], n).at = "done"
          /\ Followed(tab[t], n).sheet = tab[t].sheet
          /\ Followed(tab[t], n).posts = tab[t].posts /\ Followed(tab[t], n).game = n
      BY <1>1, <1>3, FollowedFacts
    <3>2. tab'[u] = IF u = t THEN Followed(tab[t], n) ELSE tab[u]
      BY <1>1, <2>2
    <3>3. QED
      BY <1>1, <2>2, <3>1, <3>2
  <2>3. QED
    BY <1>4, <2>1, <2>2
<1>6. Typed'
  <2>1. tab' \in [Tablet -> TabType]
    BY <1>1, <1>4, <1>5
  <2>2. QED
    BY <1>2, <2>1 DEF IInv, Typed
<1>7. ASSUME NEW u \in Tablet PROVE PageOK(u, tab[u])'
  <2>1. PageOK(u, tab[u])
    BY DEF IInv
  <2>2. CASE tab'[u] = tab[u]
    <3>1. Len(games)' = n
      BY DEF n
    <3>2. QED
      BY <1>2, <2>1, <2>2, <3>1 DEF PageOK
  <2>3. CASE /\ tab'[u].at = "done" /\ tab'[u].game = n /\ tab[u].at = "commit"
             /\ g = [by |-> u, terms |-> tab[u].sheet]
    <3>1. Len(games)' = n
      BY DEF n
    <3>2. QED
      BY <1>2, <1>3, <1>5, <2>1, <2>3, <3>1 DEF PageOK
  <2>4. QED
    BY <1>5, <2>2, <2>3
<1>8. ASSUME NEW m \in wire' PROVE CommitOK(m)'
  <2>1. CommitOK(m) /\ m.from \in Tablet
    BY <1>8 DEF IInv, Typed
  <2>2. /\ tab'[m.from].posts = tab[m.from].posts
        /\ tab'[m.from].sheet = tab[m.from].sheet
        /\ tab'[m.from].at = "commit" => tab[m.from].at = "commit"
    BY <1>5, <2>1
  <2>3. QED
    BY <2>1, <2>2 DEF CommitOK, Pressed
<1>9. ASSUME NEW i \in 1..n PROVE GameOK(games[i])'
  <2>1. CASE i \in 1..Len(games)
    <3>1. GameOK(games[i]) /\ games'[i] = games[i]
      BY <1>2, <2>1 DEF IInv
    <3>2. QED
      BY <3>1 DEF GameOK, Pressed
  <2>2. CASE i = n
    BY <1>2, <2>2 DEF GameOK, Pressed
  <2>3. QED
    BY <1>2, <2>1, <2>2
<1>10. QED
  BY <1>6, <1>7, <1>8, <1>9 DEF IInv, n

-----------------------------------------------------------------------------
\* A GET, from a page that is no commit.
LEMMA GetStep ==
  ASSUME IInv, NEW t \in Tablet, NEW from, NEW new \in TabType,
         Get(t, from, new),
         new.posts = tab[t].posts,
         new.at \notin {"commit", "done"},
         new.at \in {"result", "finish"} => new.board \in Boards,
         new.at = "confirm" => Settled(new.sheet)
  PROVE  IInv'
  BY PageStep DEF Get

\* The pages that the wizard goes to.
LEMMA PickType ==
  ASSUME NEW l \in TabType, NEW at \in Page, NEW p \in Int
  PROVE  /\ [l EXCEPT !.at = at, !.p1 = p] \in TabType
         /\ [l EXCEPT !.at = at, !.p1 = p].at = at
         /\ [l EXCEPT !.at = at, !.p1 = p].posts = l.posts
         /\ [l EXCEPT !.at = at, !.p2 = p] \in TabType
         /\ [l EXCEPT !.at = at, !.p2 = p].at = at
         /\ [l EXCEPT !.at = at, !.p2 = p].posts = l.posts
  BY DEF TabType

LEMMA HomeType == Home \in TabType /\ NoSheet \in Terms
  BY DEF Home, NoSheet, TabType, Terms, Page

LEMMA OpenType ==
  ASSUME NEW at \in Page, NEW n \in Nat
  PROVE  /\ [Home EXCEPT !.at = at, !.posts = n] \in TabType
         /\ [Home EXCEPT !.at = at, !.posts = n].at = at
         /\ [Home EXCEPT !.at = at, !.posts = n].posts = n
  BY HomeType DEF TabType

LEMMA FlowType ==
  ASSUME NEW f \in {"r", "g"}, NEW n \in Nat
  PROVE  /\ [Home EXCEPT !.at = "p1", !.flow = f, !.posts = n] \in TabType
         /\ [Home EXCEPT !.at = "p1", !.flow = f, !.posts = n].at = "p1"
         /\ [Home EXCEPT !.at = "p1", !.flow = f, !.posts = n].posts = n
  BY HomeType DEF TabType, Page

LEMMA SubmitType ==
  ASSUME NEW n \in Nat, NEW c \in Terms
  PROVE  /\ [Home EXCEPT !.at = "confirm", !.posts = n, !.sheet = c] \in TabType
         /\ [Home EXCEPT !.at = "confirm", !.posts = n, !.sheet = c].at = "confirm"
         /\ [Home EXCEPT !.at = "confirm", !.posts = n, !.sheet = c].posts = n
         /\ [Home EXCEPT !.at = "confirm", !.posts = n, !.sheet = c].sheet = c
  BY HomeType DEF TabType, Page

LEMMA BackType ==
  ASSUME NEW l \in TabType, NEW at \in Page, NEW c \in Terms
  PROVE  /\ [l EXCEPT !.at = at, !.board = 0, !.sheet = c] \in TabType
         /\ [l EXCEPT !.at = at, !.board = 0, !.sheet = c].at = at
         /\ [l EXCEPT !.at = at, !.board = 0, !.sheet = c].posts = l.posts
  BY DEF TabType

\* The steps of one tablet.
LEMMA TabletStep ==
  ASSUME IInv, NEW t \in Tablet, TabletNext(t)
  PROVE  IInv'
<1> DEFINE l == tab[t]
<1>1. /\ lead \in Int /\ l \in TabType /\ l.posts \in Nat /\ l.sheet \in Terms
      /\ l.board \in {0} \cup Boards /\ l.flow \in {"r", "g"}
  BY DEF IInv, Typed, TabType
<1>2. PageOK(t, l)
  BY DEF IInv
<1>3. CASE Open(t)
  <2> DEFINE new == [Home EXCEPT !.at = "start", !.posts = tab[t].posts]
  <2>1. new \in TabType /\ new.at = "start" /\ new.posts = tab[t].posts
    <3>1. "start" \in Page
      BY DEF Page
    <3>2. QED
      BY <1>1, <3>1, OpenType, Zenon
  <2>2. PICK from \in {"out", "p1", "result", "confirm"} : Get(t, from, new)
    BY <1>3 DEF Open
  <2> HIDE DEF new
  <2>3. QED
    BY <2>1, <2>2, GetStep
<1>4. ASSUME NEW f \in {"r", "g"}, PickFlow(t, f) PROVE IInv'
  <2> DEFINE new == [Home EXCEPT !.at = "p1", !.flow = f, !.posts = tab[t].posts]
  <2>1. new \in TabType /\ new.at = "p1" /\ new.posts = tab[t].posts
    <3>1. tab[t].posts \in Nat /\ "p1" \in Page
      BY <1>1 DEF Page
    <3>2. QED
      BY <1>4, <3>1, FlowType, ZenonT(30)
  <2>2. PICK from \in {"start", "p2", "done"} : Get(t, from, new)
    BY <1>4 DEF PickFlow
  <2> HIDE DEF new
  <2>3. QED
    BY <2>1, <2>2, GetStep
<1>5. ASSUME NEW p \in Player, PickFirst(t, p) PROVE IInv'
  <2> DEFINE new == [tab[t] EXCEPT !.at = "p2", !.p1 = p]
  <2>1. new \in TabType /\ new.at = "p2" /\ new.posts = tab[t].posts
    <3>1. "p2" \in Page /\ p \in Int
      BY DEF Page, Player
    <3>2. QED
      BY <1>1, <3>1, PickType, Zenon
  <2>2. Get(t, "p1", new)
    BY <1>5 DEF PickFirst
  <2> HIDE DEF new
  <2>3. QED
    BY <2>1, <2>2, GetStep
<1>6. ASSUME NEW p \in Player, PickSecond(t, p) PROVE IInv'
  <2> DEFINE new == [tab[t] EXCEPT !.at = "board", !.p2 = p]
  <2>1. new \in TabType /\ new.at = "board" /\ new.posts = tab[t].posts
    <3>1. "board" \in Page /\ p \in Int
      BY DEF Page, Player
    <3>2. QED
      BY <1>1, <3>1, PickType, Zenon
  <2>2. Get(t, "p2", new)
    BY <1>6 DEF PickSecond
  <2> HIDE DEF new
  <2>3. QED
    BY <2>1, <2>2, GetStep
<1>7. ASSUME NEW k \in TabType, k.board \in Boards, k.posts = l.posts,
             NEW at \in {"result", "finish"}, NEW from, Get(t, from, Proposed(k, at))
      PROVE  IInv'
  <2>1. /\ Proposed(k, at) \in TabType /\ Proposed(k, at).at = at
        /\ Proposed(k, at).posts = k.posts /\ Proposed(k, at).board = k.board
    <3>1. at \in Page
      BY DEF Page
    <3>2. Proposed(k, at) \in TabType
      BY <1>1, <1>7, <3>1, ProposedType
    <3>3. QED
      BY <3>1, <3>2 DEF Proposed, TabType
  <2>2. QED
    BY <1>7, <2>1, GetStep
<1>8. ASSUME NEW b \in SessionBoard, PickBoard(t, b) PROVE IInv'
  <2> DEFINE k == [tab[t] EXCEPT !.board = b]
             at == IF tab[t].flow = "r" THEN "result" ELSE "finish"
  <2>1. k \in TabType /\ k.board \in Boards /\ k.posts = l.posts
    BY <1>1, WizardAssumption DEF TabType
  <2>2. Get(t, "board", Proposed(k, at)) /\ at \in {"result", "finish"}
    BY <1>8 DEF PickBoard
  <2> HIDE DEF k, at
  <2>3. QED
    BY <1>7, <2>1, <2>2
<1>9. CASE RecordIt(t)
  <2> DEFINE k == [tab[t] EXCEPT !.flow = "g", !.p1 = tab[t].sheet.black,
                                 !.p2 = tab[t].sheet.white]
  <2>1. Get(t, "result", Proposed(k, "finish")) /\ tab[t].at = "result"
    BY <1>9 DEF RecordIt, Get
  <2>2. l.board \in Boards
    BY <1>2, <2>1 DEF PageOK
  <2>3. tab[t].sheet.black \in Int /\ tab[t].sheet.white \in Int
    BY <1>1 DEF Terms
  <2>4. k \in TabType /\ k.board \in Boards /\ k.posts = l.posts
    BY <1>1, <2>2, <2>3 DEF TabType
  <2> HIDE DEF k
  <2>5. QED
    BY <1>7, <2>1, <2>4
<1>10. CASE Back(t)
  <2>1. CASE Get(t, "board", [tab[t] EXCEPT !.at = "p2", !.p2 = 0])
    <3> DEFINE new == [tab[t] EXCEPT !.at = "p2", !.p2 = 0]
    <3>1. new \in TabType /\ new.at = "p2" /\ new.posts = tab[t].posts
      <4>1. "p2" \in Page /\ 0 \in Int
        BY DEF Page, Player
      <4>2. QED
        BY <1>1, <4>1, PickType, Zenon
    <3>2. Get(t, "board", new)
      BY <2>1
    <3> HIDE DEF new
    <3>3. QED
      BY <3>1, <3>2, GetStep
  <2>2. CASE Get(t, "finish", [tab[t] EXCEPT !.at = "board", !.board = 0, !.sheet = NoSheet])
    <3> DEFINE new == [tab[t] EXCEPT !.at = "board", !.board = 0, !.sheet = NoSheet]
    <3>1. new \in TabType /\ new.at = "board" /\ new.posts = tab[t].posts
      <4>1. "board" \in Page
        BY DEF Page
      <4>2. QED
        BY <1>1, <4>1, BackType, HomeType, Zenon
    <3>2. Get(t, "finish", new)
      BY <2>2
    <3> HIDE DEF new
    <3>3. QED
      BY <3>1, <3>2, GetStep
  <2>3. QED
    BY <1>10, <2>1, <2>2 DEF Back
<1>11. ASSUME NEW e \in Edit, Submit(t, e) PROVE IInv'
  <2> DEFINE c == Confirmed(Filled(tab[t].sheet, e))
             new == [Home EXCEPT !.at = "confirm", !.posts = tab[t].posts, !.sheet = c]
  <2>1. c \in Terms /\ Settled(c)
    BY <1>1, ConfirmedType
  <2>2. Get(t, "finish", new)
    BY <1>11 DEF Submit
  <2> HIDE DEF c
  <2>3. /\ new \in TabType /\ new.at = "confirm" /\ new.posts = tab[t].posts
        /\ new.sheet = c
    <3>1. tab[t].posts \in Nat
      BY <1>1
    <3>2. QED
      BY <2>1, <3>1, SubmitType, Zenon
  <2> HIDE DEF new
  <2>4. QED
    BY <2>1, <2>2, <2>3, GetStep
<1>12. CASE Press(t)
  BY <1>12, PostStep DEF Press
<1>13. ASSUME NEW g \in {"shown", "sent", "lost"}, tab' = [tab EXCEPT ![t].got = g],
              UNCHANGED <<lead, games, wire, presses>>
       PROVE  IInv'
  <2> DEFINE new == [tab[t] EXCEPT !.got = g]
  <2>1. /\ new \in TabType /\ new.at = l.at /\ new.posts = l.posts /\ new.board = l.board
        /\ new.sheet = l.sheet /\ new.game = l.game
    BY <1>1 DEF TabType
  <2>2. tab' = [tab EXCEPT ![t] = new]
    BY <1>13
  <2> HIDE DEF new
  <2>3. QED
    BY <1>2, <1>13, <2>1, <2>2, PageStep DEF PageOK
<1>14. CASE ShowDone(t) \/ GiveUp(t)
  BY <1>13, <1>14 DEF ShowDone, GiveUp
<1>15. ASSUME NEW at \in {"result", "finish"}, Get(t, at, Proposed(tab[t], at))
       PROVE  IInv'
  <2>1. l.board \in Boards
    BY <1>2, <1>15 DEF Get, PageOK
  <2>2. QED
    BY <1>1, <1>7, <1>15, <2>1
<1>16. CASE Reload(t)
  <2>1. CASE /\ tab[t].at = "commit" /\ tab[t].got # "sent" /\ Post(t) /\ UNCHANGED presses
    BY <2>1, PostStep
  <2>2. QED
    BY <1>13, <1>15, <1>16, <2>1 DEF Reload
<1>17. CASE BackButton(t)
  <2> DEFINE new == [tab[t] EXCEPT !.at = "confirm", !.got = "shown", !.game = 0]
  <2>1. /\ new \in TabType /\ new.at = "confirm" /\ new.posts = l.posts
        /\ new.sheet = l.sheet
    BY <1>1 DEF TabType, Page
  <2>2. /\ tab' = [tab EXCEPT ![t] = new] /\ tab[t].at \in {"commit", "done"}
        /\ UNCHANGED <<lead, games, wire, presses>>
    BY <1>17 DEF BackButton
  <2> HIDE DEF new
  <2>3. Settled(new.sheet)
    BY <1>2, <2>1, <2>2 DEF PageOK
  <2>4. QED
    BY <2>1, <2>2, <2>3, PageStep
<1>18. ASSUME tab' = [tab EXCEPT ![t] = [Home EXCEPT !.posts = tab[t].posts]],
              UNCHANGED <<lead, games, wire, presses>>
       PROVE  IInv'
  <2> DEFINE new == [Home EXCEPT !.posts = tab[t].posts]
  <2>1. new \in TabType /\ new.at = "out" /\ new.posts = tab[t].posts
    BY <1>1 DEF Home, NoSheet, TabType, Terms, Page
  <2>2. tab' = [tab EXCEPT ![t] = new]
    BY <1>18
  <2> HIDE DEF new
  <2>3. QED
    BY <1>18, <2>1, <2>2, PageStep
<1>19. CASE SwitchLanguage(t) \/ Leave(t)
  BY <1>15, <1>18, <1>19 DEF SwitchLanguage, Leave, Get
<1>20. QED
  BY <1>3, <1>4, <1>5, <1>6, <1>8, <1>9, <1>10, <1>11, <1>12, <1>14, <1>16, <1>17, <1>19
  DEF TabletNext

-----------------------------------------------------------------------------
\* RecordGame changes nothing of a sheet that the confirm page has settled.
LEMMA RowAsPressed ==
  ASSUME NEW m, m.sheet \in Terms, Settled(m.sheet)
  PROVE  Row(m) = [by |-> m.from, terms |-> m.sheet]
<1>1. m.sheet.komi \in Int /\ m.sheet.komi % 8 = Half
  BY DEF Settled, Terms
<1>2. NormalizeKomi(m.sheet.komi) = m.sheet.komi
  BY <1>1, NormalizeFixed
<1>3. [m.sheet EXCEPT !.komi = m.sheet.komi] = m.sheet
  BY DEF Terms
<1>4. QED
  BY <1>2, <1>3 DEF Row

\* A commit is handled: its sheet is recorded as it was pressed.
LEMMA CommitStep ==
  ASSUME IInv, NEW m \in wire, Commit(m)
  PROVE  IInv'
<1> DEFINE g == Row(m)
<1>1. /\ CommitOK(m) /\ m.from \in Tablet /\ m.sheet \in Terms
      /\ tab \in [Tablet -> TabType]
  BY DEF IInv, Typed
<1>2. g = [by |-> m.from, terms |-> m.sheet]
  BY <1>1, RowAsPressed DEF CommitOK
<1>3. g \in GameType /\ (g.by \in Tablet => Pressed(g.by, g.terms))
  BY <1>1, <1>2 DEF GameType, CommitOK
<1>4. /\ games' = Append(games, g) /\ lead' \in Int /\ wire' \subseteq wire
      /\ presses' = presses
  BY WizardAssumption DEF Commit
<1> HIDE DEF g
<1>5. CASE tab' = tab
  BY <1>3, <1>4, <1>5, GameStep
<1>6. CASE Awaited(m) /\ tab' = [tab EXCEPT ![m.from] = Followed(@, Len(games'))]
  <2>1. tab[m.from].at = "commit" /\ m.sheet = tab[m.from].sheet
    BY <1>1, <1>6 DEF Awaited, CommitOK
  <2>2. g = [by |-> m.from, terms |-> tab[m.from].sheet]
    BY <1>2, <2>1
  <2>3. QED
    BY <1>1, <1>3, <1>4, <1>6, <2>1, <2>2, GameStep
<1>7. QED
  BY <1>5, <1>6 DEF Commit

LEMMA RefuseStep ==
  ASSUME IInv, NEW m \in wire, Refuse(m)
  PROVE  IInv'
<1> DEFINE t == m.from
           new == [tab[t] EXCEPT !.got = "shown"]
<1>1. t \in Tablet /\ tab \in [Tablet -> TabType] /\ tab[t] \in TabType /\ PageOK(t, tab[t])
  BY DEF IInv, Typed
<1>2. /\ new \in TabType /\ new.at = tab[t].at /\ new.posts = tab[t].posts
      /\ new.board = tab[t].board /\ new.sheet = tab[t].sheet /\ new.game = tab[t].game
      /\ tab[t] = [tab[t] EXCEPT !.got = tab[t].got]
  BY <1>1 DEF TabType
<1>3. wire' \subseteq wire /\ UNCHANGED <<lead, games, presses>>
  BY DEF Refuse
<1>4. tab' = tab \/ tab' = [tab EXCEPT ![t] = new]
  BY DEF Refuse
<1> HIDE DEF t, new
<1>5. tab' \in [Tablet -> TabType]
  BY <1>1, <1>2, <1>4
<1>6. \A u \in Tablet : /\ tab'[u].at = tab[u].at /\ tab'[u].posts = tab[u].posts
                        /\ tab'[u].board = tab[u].board /\ tab'[u].sheet = tab[u].sheet
                        /\ tab'[u].game = tab[u].game
  BY <1>1, <1>2, <1>4
<1>7. Typed'
  BY <1>3, <1>5 DEF IInv, Typed
<1>8. \A u \in Tablet : PageOK(u, tab[u])'
  BY <1>3, <1>6 DEF IInv, PageOK
<1>9. ASSUME NEW c \in wire' PROVE CommitOK(c)'
  <2>1. CommitOK(c) /\ c.from \in Tablet
    BY <1>3 DEF IInv, Typed
  <2>2. QED
    BY <1>3, <1>6, <2>1 DEF CommitOK, Pressed
<1>10. \A i \in 1..Len(games') : GameOK(games[i])'
  BY <1>3 DEF IInv, GameOK, Pressed
<1>11. QED
  BY <1>7, <1>8, <1>9, <1>10 DEF IInv

\* A game that no tablet sent.
LEMMA ElsewhereStep ==
  ASSUME IInv, RecordElsewhere
  PROVE  IInv'
<1> DEFINE g == [by |-> "elsewhere", terms |-> NoSheet]
<1>1. g \in GameType /\ g.by \notin Tablet
  BY WizardAssumption DEF GameType, Terms, NoSheet
<1>2. /\ games' = Append(games, g) /\ lead' \in Int /\ wire' \subseteq wire
      /\ presses' = presses /\ tab' = tab
  BY WizardAssumption DEF RecordElsewhere
<1> HIDE DEF g
<1>3. QED
  BY <1>1, <1>2, GameStep

LEMMA Inductive == Spec => []IInv
<1>1. Init => IInv
  <2> SUFFICES ASSUME Init PROVE IInv
    OBVIOUS
  <2>1. Home \in TabType /\ Home.at = "out"
    BY DEF Home, NoSheet, TabType, Terms, Page
  <2>2. Typed
    BY <2>1 DEF Init, Typed
  <2>3. \A t \in Tablet : PageOK(t, tab[t])
    BY <2>1 DEF Init, PageOK
  <2>4. wire = {} /\ Len(games) = 0
    BY DEF Init
  <2>5. QED
    BY <2>2, <2>3, <2>4 DEF IInv
<1>2. IInv /\ [Next]_vars => IInv'
  <2> SUFFICES ASSUME IInv, [Next]_vars PROVE IInv'
    OBVIOUS
  <2>1. CASE Widen
    <3>1. lead' \in Int /\ UNCHANGED <<games, wire, tab, presses>>
      BY <2>1 DEF Widen, IInv, Typed
    <3>2. QED
      BY <3>1 DEF IInv, Typed, PageOK, CommitOK, GameOK, Pressed
  <2>2. CASE UNCHANGED vars
    BY <2>2 DEF vars, IInv, Typed, PageOK, CommitOK, GameOK, Pressed
  <2>3. QED
    BY <2>1, <2>2, ElsewhereStep, TabletStep, CommitStep, RefuseStep DEF Next
<1>3. QED
  BY <1>1, <1>2, PTL DEF Spec

(***************************************************************************)
(* Every game has the terms that were pressed, and the result page shows   *)
(* the terms pressed last, on every tablet and in every interleaving.      *)
(***************************************************************************)
THEOREM RecordsConfirmed == Spec => []AsConfirmed
<1>1. IInv => AsConfirmed
  <2> SUFFICES ASSUME IInv PROVE AsConfirmed
    OBVIOUS
  <2>1. ASSUME NEW i \in 1..Len(games), games[i].by \in Tablet
        PROVE  \E k \in 1..Len(presses[games[i].by]) :
                 presses[games[i].by][k] = games[i].terms
    BY <2>1 DEF IInv, GameOK, Pressed
  <2>2. ASSUME NEW t \in Tablet, tab[t].at = "done"
        PROVE  games[tab[t].game] = [by |-> t, terms |-> presses[t][Len(presses[t])]]
    BY <2>2 DEF IInv, PageOK
  <2>3. QED
    BY <2>1, <2>2 DEF AsConfirmed
<1>2. QED
  BY <1>1, Inductive, PTL

-----------------------------------------------------------------------------
(* A press records one game. *)

Count(q, v) == Cardinality({k \in 1..Len(q) : q[k] = v})

UnderWay(sent, t, s) == {m \in sent : m.from = t /\ m.sheet = s}

\* A commit that gave an error may be sent once more, for the press it is owed to.
Owed(l, s) == IF l.at = "commit" /\ l.got = "shown" /\ l.sheet = s THEN 1 ELSE 0

(***************************************************************************)
(* Of every sheet: games recorded, commits underway and the one a reload   *)
(* would send for nothing are no more than the presses and the commits     *)
(* sent again.                                                             *)
(***************************************************************************)
Covered(t, s, gs, sent, l, pressed, more) ==
  Count(gs, [by |-> t, terms |-> s]) + Cardinality(UnderWay(sent, t, s)) + Owed(l, s)
    <= Count(pressed, s) + more

OnceInv ==
  /\ IsFiniteSet(wire)
  /\ again \in [Tablet -> Nat]
  /\ \A t \in Tablet, s \in Terms : Covered(t, s, games, wire, tab[t], presses[t], again[t])

LEMMA CountAppend ==
  ASSUME NEW S, NEW q \in Seq(S), NEW e \in S, NEW v
  PROVE  /\ Count(q, v) \in Nat
         /\ Count(Append(q, e), v) = Count(q, v) + (IF e = v THEN 1 ELSE 0)
<1> DEFINE n == Len(q)
           r == Append(q, e)
           A == {k \in 1..n : q[k] = v}
           B == {k \in 1..Len(r) : r[k] = v}
<1>1. n \in Nat /\ Len(r) = n + 1 /\ r[n + 1] = e /\ \A k \in 1..n : r[k] = q[k]
  OBVIOUS
<1>2. IsFiniteSet(A) /\ Cardinality(A) \in Nat
  <2>1. IsFiniteSet(1..n)
    BY <1>1, FS_Interval
  <2>2. QED
    BY <2>1, FS_Subset, FS_CardinalityType
<1>3. n + 1 \notin A
  BY <1>1
<1> HIDE DEF r
<1>4. CASE e = v
  <2>1. B = A \cup {n + 1}
    BY <1>1, <1>4
  <2> HIDE DEF A, B
  <2>2. Cardinality(A \cup {n + 1}) = Cardinality(A) + 1
    BY <1>2, <1>3, FS_AddElement
  <2>3. QED
    BY <1>2, <1>4, <2>1, <2>2 DEF Count, A, B, r
<1>5. CASE e # v
  <2>1. B = A
    BY <1>1, <1>5
  <2> HIDE DEF A, B
  <2>2. Cardinality(B) = Cardinality(A) + 0
    BY <1>2, <2>1
  <2>3. QED
    BY <1>2, <1>5, <2>2 DEF Count, A, B, r
<1>6. QED
  BY <1>4, <1>5

LEMMA UnderWayType ==
  ASSUME NEW sent, IsFiniteSet(sent), NEW t, NEW s
  PROVE  IsFiniteSet(UnderWay(sent, t, s)) /\ Cardinality(UnderWay(sent, t, s)) \in Nat
<1>1. UnderWay(sent, t, s) \subseteq sent
  BY DEF UnderWay
<1>2. QED
  BY <1>1, FS_Subset, FS_CardinalityType

\* One commit is sent, which may be there already.
LEMMA UnderWayMore ==
  ASSUME NEW sent, IsFiniteSet(sent), NEW c, NEW t, NEW s
  PROVE  /\ IsFiniteSet(sent \cup {c})
         /\ Cardinality(UnderWay(sent \cup {c}, t, s))
              <= Cardinality(UnderWay(sent, t, s))
                   + (IF c.from = t /\ c.sheet = s THEN 1 ELSE 0)
<1> DEFINE A == UnderWay(sent, t, s)
           B == UnderWay(sent \cup {c}, t, s)
<1>1. IsFiniteSet(A) /\ Cardinality(A) \in Nat
  BY UnderWayType
<1>2. IsFiniteSet(sent \cup {c})
  BY FS_AddElement
<1>3. CASE c.from = t /\ c.sheet = s
  <2>1. B = A \cup {c}
    BY <1>3 DEF UnderWay
  <2> HIDE DEF A, B
  <2>2. Cardinality(A \cup {c}) <= Cardinality(A) + 1
    <3>1. CASE c \in A
      <4>1. A \cup {c} = A
        BY <3>1
      <4>2. Cardinality(A \cup {c}) = Cardinality(A)
        BY <4>1, Zenon
      <4>3. QED
        BY <1>1, <4>2
    <3>2. CASE c \notin A
      <4>1. Cardinality(A \cup {c}) = Cardinality(A) + 1
        BY <1>1, <3>2, FS_AddElement
      <4>2. QED
        BY <1>1, <4>1
    <3>3. QED
      BY <3>1, <3>2
  <2>3. QED
    BY <1>2, <1>3, <2>1, <2>2 DEF A, B
<1>4. CASE ~(c.from = t /\ c.sheet = s)
  <2>1. B = A
    BY <1>4 DEF UnderWay
  <2>2. QED
    BY <1>1, <1>2, <1>4, <2>1
<1>5. QED
  BY <1>3, <1>4

\* One commit is handled, and the rest are left.
LEMMA UnderWayLess ==
  ASSUME NEW sent, IsFiniteSet(sent), NEW c \in sent, NEW t, NEW s,
         NEW rest, rest = sent \ {c}
  PROVE  /\ IsFiniteSet(rest)
         /\ Cardinality(UnderWay(rest, t, s)) + (IF c.from = t /\ c.sheet = s THEN 1 ELSE 0)
              = Cardinality(UnderWay(sent, t, s))
<1> DEFINE A == UnderWay(sent, t, s)
           B == UnderWay(rest, t, s)
<1>1. IsFiniteSet(A) /\ Cardinality(A) \in Nat
  BY UnderWayType
<1>2. IsFiniteSet(rest)
  BY FS_RemoveElement
<1>3. CASE c.from = t /\ c.sheet = s
  <2>1. B = A \ {c}
    BY <1>3 DEF UnderWay
  <2>2. c \in A
    BY <1>3 DEF UnderWay
  <2> HIDE DEF A, B
  <2>3. Cardinality(A \ {c}) = IF c \in A THEN Cardinality(A) - 1 ELSE Cardinality(A)
    BY ONLY <1>1, FS_RemoveElement, Zenon
  <2>4. Cardinality(B) = Cardinality(A \ {c})
    BY <2>1, Zenon
  <2>5. Cardinality(B) + 1 = Cardinality(A)
    BY <1>1, <2>2, <2>3, <2>4
  <2>6. QED
    BY <1>2, <1>3, <2>5 DEF A, B
<1>4. CASE ~(c.from = t /\ c.sheet = s)
  <2>1. B = A
    BY <1>4 DEF UnderWay
  <2> HIDE DEF A, B
  <2>2. Cardinality(B) = Cardinality(A)
    BY <2>1, Zenon
  <2>3. Cardinality(B) + 0 = Cardinality(A)
    BY <1>1, <2>2
  <2>4. QED
    BY <1>2, <1>4, <2>3 DEF A, B
<1>5. QED
  BY <1>3, <1>4

LEMMA OwedType ==
  ASSUME NEW l, NEW s PROVE Owed(l, s) \in {0, 1}
  BY DEF Owed

LEMMA CountType ==
  ASSUME NEW S, NEW q \in Seq(S), NEW v
  PROVE  Count(q, v) \in Nat
<1>1. IsFiniteSet(1..Len(q))
  BY FS_Interval
<1>2. QED
  BY <1>1, FS_Subset, FS_CardinalityType DEF Count

LEMMA Numbers ==
  ASSUME IInv, OnceInv, NEW t \in Tablet, NEW s \in Terms
  PROVE  /\ Count(games, [by |-> t, terms |-> s]) \in Nat
         /\ Cardinality(UnderWay(wire, t, s)) \in Nat
         /\ Owed(tab[t], s) \in {0, 1}
         /\ Count(presses[t], s) \in Nat /\ again[t] \in Nat
         /\ Covered(t, s, games, wire, tab[t], presses[t], again[t])
<1>1. games \in Seq(GameType) /\ presses[t] \in Seq(Terms)
  BY DEF IInv, Typed
<1>2. IsFiniteSet(wire) /\ again[t] \in Nat
      /\ Covered(t, s, games, wire, tab[t], presses[t], again[t])
  BY DEF OnceInv
<1>3. QED
  BY <1>1, <1>2, CountType, UnderWayType, OwedType

\* A step that sends and records nothing, to a page that owes no commit.
LEMMA QuietOnce ==
  ASSUME IInv, OnceInv, NEW t \in Tablet, NEW x, tab' = [tab EXCEPT ![t] = x],
         UNCHANGED <<games, wire, presses, again>>, x.at # "commit" \/ x.got # "shown"
  PROVE  OnceInv'
<1>1. tab'[t] = x /\ \A u \in Tablet : u # t => tab'[u] = tab[u]
  BY DEF IInv, Typed
<1>2. SUFFICES ASSUME NEW u \in Tablet, NEW s \in Terms
               PROVE  Covered(u, s, games, wire, tab'[u], presses[u], again[u])
  BY DEF OnceInv
<1>3. Owed(tab'[u], s) <= Owed(tab[u], s)
  <2>1. CASE u = t
    BY <1>1, <2>1 DEF Owed
  <2>2. CASE u # t
    BY <1>1, <2>2, OwedType
  <2>3. QED
    BY <2>1, <2>2
<1>4. Owed(tab'[u], s) \in {0, 1}
  BY OwedType
<1>5. QED
  BY <1>3, <1>4, Numbers DEF Covered

\* A commit is sent: pressed, owed, or one more try.
LEMMA PostOnce ==
  ASSUME IInv, OnceInv, NEW t \in Tablet, Post(t),
         \/ /\ presses' = [presses EXCEPT ![t] = Append(@, tab[t].sheet)]
            /\ again' = again
         \/ /\ presses' = presses /\ tab[t].at = "commit" /\ tab[t].got # "sent"
            /\ again' = [again EXCEPT ![t] = IF tab[t].got = "lost" THEN @ + 1 ELSE @]
  PROVE  OnceInv'
<1> DEFINE e == tab[t].sheet
           c == [from |-> t, n |-> tab[t].posts + 1, sheet |-> e]
<1>1. /\ tab \in [Tablet -> TabType] /\ tab[t] \in TabType /\ e \in Terms
      /\ presses \in [Tablet -> Seq(Terms)] /\ again \in [Tablet -> Nat]
      /\ IsFiniteSet(wire)
  BY DEF IInv, Typed, OnceInv, TabType
<1>2. /\ wire' = wire \cup {c} /\ tab' = [tab EXCEPT ![t] = Sent(tab[t])]
      /\ games' = games /\ c.from = t /\ c.sheet = e
  BY DEF Post
<1>3. /\ tab'[t].at = "commit" /\ tab'[t].got = "sent"
      /\ \A u \in Tablet : u # t => tab'[u] = tab[u]
  BY <1>1, <1>2 DEF Sent, TabType
<1> HIDE DEF c, e
<1>4. IsFiniteSet(wire') /\ again' \in [Tablet -> Nat]
  <2>1. again[t] \in Nat /\ again[t] + 1 \in Nat
    BY <1>1
  <2>2. again' = again \/ again' = [again EXCEPT ![t] = again[t] + 1]
                       \/ again' = [again EXCEPT ![t] = again[t]]
    OBVIOUS
  <2>3. again' \in [Tablet -> Nat]
    BY <1>1, <2>1, <2>2
  <2>4. IsFiniteSet(wire')
    BY <1>1, <1>2, UnderWayMore
  <2>5. QED
    BY <2>3, <2>4
<1>5. SUFFICES ASSUME NEW u \in Tablet, NEW s \in Terms
               PROVE  Covered(u, s, games, wire', tab'[u], presses'[u], again'[u])
  BY <1>2, <1>4 DEF OnceInv
<1> DEFINE G == Count(games, [by |-> u, terms |-> s])
           U == Cardinality(UnderWay(wire, u, s))
           V == Cardinality(UnderWay(wire', u, s))
           P == Count(presses[u], s)
<1>6. /\ G \in Nat /\ U \in Nat /\ P \in Nat /\ again[u] \in Nat
      /\ Owed(tab[u], s) \in {0, 1} /\ Owed(tab'[u], s) \in {0, 1}
      /\ G + U + Owed(tab[u], s) <= P + again[u]
  BY Numbers, OwedType DEF Covered
<1>7. /\ V \in Nat /\ V <= U + (IF t = u /\ e = s THEN 1 ELSE 0)
  BY <1>1, <1>2, <1>4, UnderWayMore, UnderWayType
<1> HIDE DEF G, U, V
<1>8. CASE u # t
  <2>1. presses'[u] = presses[u] /\ again'[u] = again[u] /\ tab'[u] = tab[u]
    BY <1>1, <1>3, <1>8
  <2>2. QED
    BY <1>6, <1>7, <1>8, <2>1 DEF Covered, G, V
<1>9. CASE u = t
  <2>1. Owed(tab'[u], s) = 0
    BY <1>3, <1>9 DEF Owed
  <2>2. CASE presses' = [presses EXCEPT ![t] = Append(@, e)] /\ again' = again
    <3>1. presses[u] \in Seq(Terms) /\ presses'[u] = Append(presses[u], e)
      BY <1>1, <1>9, <2>2
    <3>2. Count(presses'[u], s) = P + (IF e = s THEN 1 ELSE 0)
      BY <1>1, <3>1, CountAppend
    <3> HIDE DEF P
    <3>3. QED
      BY <1>6, <1>7, <1>9, <2>1, <2>2, <3>2 DEF Covered, G, V
  <2>3. CASE /\ presses' = presses /\ tab[t].at = "commit" /\ tab[t].got # "sent"
             /\ again' = [again EXCEPT ![t] = IF tab[t].got = "lost" THEN @ + 1 ELSE @]
    <3>1. CASE tab[t].got = "lost"
      <4>1. again'[u] = again[u] + 1
        BY <1>1, <1>9, <2>3, <3>1
      <4>2. QED
        BY <1>6, <1>7, <2>1, <2>3, <4>1 DEF Covered, G, V
    <3>2. CASE tab[t].got = "shown"
      <4>1. again'[u] = again[u]
        BY <1>1, <1>9, <2>3, <3>2
      <4>2. Owed(tab[u], s) = IF e = s THEN 1 ELSE 0
        BY <1>9, <2>3, <3>2 DEF Owed, e
      <4>3. QED
        BY <1>6, <1>7, <1>9, <2>1, <2>3, <4>1, <4>2 DEF Covered, G, V
    <3>3. QED
      BY <1>1, <2>3, <3>1, <3>2 DEF TabType
  <2>4. QED
    BY <2>2, <2>3 DEF e
<1>10. QED
  BY <1>8, <1>9

\* A commit m is handled; its page shows the game, or an error, or waits no longer for it.
LEMMA HandledOnce ==
  ASSUME IInv, OnceInv, NEW m \in wire, wire' = wire \ {m},
         UNCHANGED <<presses, again>>,
         \/ games' = Append(games, [by |-> m.from, terms |-> m.sheet]) /\ tab' = tab
         \/ /\ games' = Append(games, [by |-> m.from, terms |-> m.sheet])
            /\ tab' = [tab EXCEPT ![m.from] = Followed(@, Len(games'))]
         \/ games' = games /\ tab' = tab
         \/ /\ games' = games /\ tab' = [tab EXCEPT ![m.from].got = "shown"]
            /\ tab[m.from].got = "sent" /\ tab[m.from].sheet = m.sheet
  PROVE  OnceInv'
<1> DEFINE t == m.from
           e == m.sheet
           g == [by |-> t, terms |-> e]
<1>1. /\ t \in Tablet /\ e \in Terms /\ tab \in [Tablet -> TabType] /\ tab[t] \in TabType
      /\ games \in Seq(GameType) /\ IsFiniteSet(wire) /\ again \in [Tablet -> Nat]
  BY DEF IInv, Typed, OnceInv
<1>2. IsFiniteSet(wire')
  BY <1>1, UnderWayLess
<1>3. g \in GameType
  BY <1>1 DEF GameType
<1>4. SUFFICES ASSUME NEW u \in Tablet, NEW s \in Terms
               PROVE  Covered(u, s, games', wire', tab'[u], presses[u], again[u])
  BY <1>1, <1>2 DEF OnceInv
<1> DEFINE v == [by |-> u, terms |-> s]
           G == Count(games, v)
           H == Count(games', v)
           U == Cardinality(UnderWay(wire, u, s))
           V == Cardinality(UnderWay(wire', u, s))
           P == Count(presses[u], s)
           one == IF t = u /\ e = s THEN 1 ELSE 0
<1>5. /\ G \in Nat /\ U \in Nat /\ P \in Nat /\ again[u] \in Nat
      /\ Owed(tab[u], s) \in {0, 1} /\ Owed(tab'[u], s) \in {0, 1}
      /\ G + U + Owed(tab[u], s) <= P + again[u]
  BY Numbers, OwedType DEF Covered
<1>6. V + one = U /\ V \in Nat /\ one \in {0, 1}
  <2>1. V + one = U
    BY <1>1, UnderWayLess
  <2>2. V \in Nat
    BY <1>2, UnderWayType
  <2>3. one \in {0, 1}
    OBVIOUS
  <2> HIDE DEF U, V, one
  <2>4. QED
    BY <2>1, <2>2, <2>3
<1>7. games' = Append(games, g) => H = G + one
  <2>1. g = v <=> t = u /\ e = s
    OBVIOUS
  <2>2. games' = Append(games, g) => H = G + (IF g = v THEN 1 ELSE 0)
    BY <1>1, <1>3, CountAppend
  <2> HIDE DEF g, v, H, G
  <2>3. QED
    BY <2>1, <2>2
<1>8. games' = games => H = G
  OBVIOUS
<1> HIDE DEF G, H, U, V, P
<1>9. SUFFICES H + V + Owed(tab'[u], s) <= P + again[u]
  BY DEF Covered, H, V, P, v
<1>10. CASE games' = Append(games, g) /\ Owed(tab'[u], s) <= Owed(tab[u], s)
  BY <1>5, <1>6, <1>7, <1>10
<1>11. CASE tab' = tab
  <2>1. Owed(tab'[u], s) = Owed(tab[u], s)
    BY <1>11
  <2>2. H + V <= G + U
    <3>1. H = G + one \/ H = G
      BY <1>7, <1>8
    <3> HIDE DEF one
    <3>2. QED
      BY <1>5, <1>6, <3>1
  <2>3. H \in Int /\ V \in Int
    BY <1>5, <1>6, <1>7, <1>8
  <2>4. QED
    BY <1>5, <2>1, <2>2, <2>3
<1>12. CASE /\ games' = Append(games, g)
            /\ tab' = [tab EXCEPT ![t] = Followed(@, Len(games'))]
  <2>1. Owed(tab'[u], s) <= Owed(tab[u], s)
    <3>1. CASE u = t
      <4>1. tab'[u] = Followed(tab[t], Len(games'))
        BY <1>1, <1>12, <3>1
      <4>2. tab'[u].at = "done"
        BY <1>1, <4>1 DEF Followed, TabType
      <4>3. QED
        BY <1>5, <4>2 DEF Owed
    <3>2. CASE u # t
      BY <1>1, <1>5, <1>12, <3>2
    <3>3. QED
      BY <3>1, <3>2
  <2>2. QED
    BY <1>10, <1>12, <2>1
<1>13. CASE /\ games' = games /\ tab' = [tab EXCEPT ![t].got = "shown"]
            /\ tab[t].got = "sent" /\ tab[t].sheet = e
  <2>1. CASE u = t
    <3>1. tab'[u].sheet = e
      BY <1>1, <1>13, <2>1 DEF TabType
    <3>2. Owed(tab[u], s) = 0
      BY <1>13, <2>1 DEF Owed
    <3>3. Owed(tab'[u], s) <= one
      BY <2>1, <3>1 DEF Owed
    <3> HIDE DEF one
    <3>4. QED
      BY <1>5, <1>6, <1>8, <1>13, <3>2, <3>3
  <2>2. CASE u # t
    <3>1. tab'[u] = tab[u]
      BY <1>1, <1>13, <2>2
    <3>2. QED
      BY <1>5, <1>6, <1>8, <1>13, <2>2, <3>1
  <2>3. QED
    BY <2>1, <2>2
<1>14. QED
  BY <1>11, <1>12, <1>13

LEMMA CommitOnce ==
  ASSUME IInv, OnceInv, NEW m \in wire, Commit(m)
  PROVE  OnceInv'
<1>1. m.from \in Tablet /\ m.sheet \in Terms /\ Settled(m.sheet)
  BY DEF IInv, Typed, CommitOK
<1>2. Row(m) = [by |-> m.from, terms |-> m.sheet]
  BY <1>1, RowAsPressed
<1>3. QED
  BY <1>2, HandledOnce DEF Commit

LEMMA RefuseOnce ==
  ASSUME IInv, OnceInv, NEW m \in wire, Refuse(m)
  PROVE  OnceInv'
<1>1. Awaited(m) => tab[m.from].got = "sent" /\ tab[m.from].sheet = m.sheet
  BY DEF IInv, CommitOK, Awaited
<1>2. QED
  BY <1>1, HandledOnce DEF Refuse

LEMMA ElsewhereOnce ==
  ASSUME IInv, OnceInv, RecordElsewhere
  PROVE  OnceInv'
<1> DEFINE g == [by |-> "elsewhere", terms |-> NoSheet]
<1>1. games \in Seq(GameType) /\ g \in GameType
  BY WizardAssumption DEF IInv, Typed, GameType, Terms, NoSheet
<1>2. games' = Append(games, g) /\ UNCHANGED <<wire, tab, presses, again>>
  BY DEF RecordElsewhere
<1>3. SUFFICES ASSUME NEW u \in Tablet, NEW s \in Terms
               PROVE  Covered(u, s, games', wire, tab[u], presses[u], again[u])
  BY <1>2 DEF OnceInv
<1> DEFINE v == [by |-> u, terms |-> s]
<1>4. g # v
  BY WizardAssumption
<1> HIDE DEF g, v
<1>5. Count(games', v) = Count(games, v)
  <2>1. Count(games, v) \in Nat /\ Count(Append(games, g), v) = Count(games, v) + 0
    BY <1>1, <1>4, CountAppend
  <2>2. QED
    BY <1>2, <2>1
<1>6. Covered(u, s, games, wire, tab[u], presses[u], again[u])
  BY DEF OnceInv
<1>7. QED
  BY <1>5, <1>6 DEF Covered, v

\* A GET to another page.
LEMMA GetOnce ==
  ASSUME IInv, OnceInv, NEW t \in Tablet, NEW from, NEW new, Get(t, from, new), new.at # "commit"
  PROVE  OnceInv'
  BY QuietOnce DEF Get

LEMMA TabletOnce ==
  ASSUME IInv, OnceInv, NEW t \in Tablet, TabletNext(t)
  PROVE  OnceInv'
<1> DEFINE l == tab[t]
<1>1. /\ l \in TabType /\ l.posts \in Nat /\ l.sheet \in Terms /\ Home \in TabType
      /\ tab \in [Tablet -> TabType]
  BY HomeType DEF IInv, Typed, TabType
<1>2. \A k \in TabType, at \in Page : Proposed(k, at).at = at
  BY DEF Proposed, TabType
<1>3. CASE Open(t)
  <2> DEFINE new == [Home EXCEPT !.at = "start", !.posts = tab[t].posts]
  <2>1. new.at = "start"
    BY <1>1 DEF TabType
  <2>2. PICK from \in {"out", "p1", "result", "confirm"} : Get(t, from, new)
    BY <1>3 DEF Open
  <2> HIDE DEF new
  <2>3. QED
    BY <2>1, <2>2, GetOnce
<1>4. ASSUME NEW f \in {"r", "g"}, PickFlow(t, f) PROVE OnceInv'
  <2> DEFINE new == [Home EXCEPT !.at = "p1", !.flow = f, !.posts = tab[t].posts]
  <2>1. new.at = "p1"
    BY <1>1 DEF TabType
  <2>2. PICK from \in {"start", "p2", "done"} : Get(t, from, new)
    BY <1>4 DEF PickFlow
  <2> HIDE DEF new
  <2>3. QED
    BY <2>1, <2>2, GetOnce
<1>5. ASSUME NEW p \in Player, PickFirst(t, p) \/ PickSecond(t, p) PROVE OnceInv'
  <2> DEFINE first == [tab[t] EXCEPT !.at = "p2", !.p1 = p]
             second == [tab[t] EXCEPT !.at = "board", !.p2 = p]
  <2>1. first.at = "p2" /\ second.at = "board"
    BY <1>1 DEF TabType
  <2>2. Get(t, "p1", first) \/ Get(t, "p2", second)
    BY <1>5 DEF PickFirst, PickSecond
  <2> HIDE DEF first, second
  <2>3. QED
    BY <2>1, <2>2, GetOnce
<1>6. ASSUME NEW b \in SessionBoard, PickBoard(t, b) PROVE OnceInv'
  <2> DEFINE k == [tab[t] EXCEPT !.board = b]
             at == IF tab[t].flow = "r" THEN "result" ELSE "finish"
  <2>1. k \in TabType
    BY <1>1, WizardAssumption DEF TabType
  <2>2. at \in Page /\ at # "commit"
    BY DEF Page
  <2>3. Get(t, "board", Proposed(k, at))
    BY <1>6 DEF PickBoard
  <2> HIDE DEF k, at
  <2>4. QED
    BY <1>2, <2>1, <2>2, <2>3, GetOnce
<1>7. CASE RecordIt(t)
  <2> DEFINE k == [tab[t] EXCEPT !.flow = "g", !.p1 = tab[t].sheet.black,
                                 !.p2 = tab[t].sheet.white]
  <2>1. Get(t, "result", Proposed(k, "finish"))
    BY <1>7 DEF RecordIt
  <2>2. tab[t].sheet.black \in Int /\ tab[t].sheet.white \in Int
    BY <1>1 DEF Terms
  <2>3. k \in TabType /\ "finish" \in Page
    BY <1>1, <2>2 DEF TabType, Page
  <2> HIDE DEF k
  <2>4. QED
    BY <1>2, <2>1, <2>3, GetOnce
<1>8. CASE Back(t)
  <2> DEFINE second == [tab[t] EXCEPT !.at = "p2", !.p2 = 0]
             board == [tab[t] EXCEPT !.at = "board", !.board = 0, !.sheet = NoSheet]
  <2>1. second.at = "p2" /\ board.at = "board"
    BY <1>1 DEF TabType
  <2>2. Get(t, "board", second) \/ Get(t, "finish", board)
    BY <1>8 DEF Back
  <2> HIDE DEF second, board
  <2>3. QED
    BY <2>1, <2>2, GetOnce
<1>9. ASSUME NEW e \in Edit, Submit(t, e) PROVE OnceInv'
  <2> DEFINE c == Confirmed(Filled(tab[t].sheet, e))
             new == [Home EXCEPT !.at = "confirm", !.posts = tab[t].posts, !.sheet = c]
  <2>1. Get(t, "finish", new)
    BY <1>9 DEF Submit
  <2> HIDE DEF c
  <2>2. new.at = "confirm"
    BY <1>1 DEF TabType
  <2> HIDE DEF new
  <2>3. QED
    BY <2>1, <2>2, GetOnce
<1>10. CASE Press(t)
  BY <1>10, PostOnce DEF Press
<1>11. ASSUME NEW g, tab' = [tab EXCEPT ![t].got = g], g # "shown" \/ l.at # "commit",
              UNCHANGED <<games, wire, presses, again>>
       PROVE  OnceInv'
  <2> DEFINE new == [tab[t] EXCEPT !.got = g]
  <2>1. new.at = l.at /\ new.got = g
    BY <1>1 DEF TabType
  <2>2. tab' = [tab EXCEPT ![t] = new]
    BY <1>11
  <2> HIDE DEF new
  <2>3. QED
    BY <1>11, <2>1, <2>2, QuietOnce
<1>12. CASE ShowDone(t) \/ GiveUp(t)
  BY <1>11, <1>12 DEF ShowDone, GiveUp
<1>13. ASSUME NEW at \in {"result", "finish"}, Get(t, at, Proposed(tab[t], at))
       PROVE  OnceInv'
  <2>1. at \in Page /\ at # "commit"
    BY DEF Page
  <2>2. QED
    BY <1>1, <1>2, <1>13, <2>1, GetOnce
<1>14. CASE Reload(t)
  <2>1. CASE /\ tab[t].at = "commit" /\ tab[t].got # "sent" /\ Post(t)
             /\ again' = [again EXCEPT ![t] = IF tab[t].got = "lost" THEN @ + 1 ELSE @]
             /\ UNCHANGED presses
    BY <2>1, PostOnce
  <2>2. QED
    BY <1>11, <1>13, <1>14, <2>1 DEF Reload
<1>15. CASE BackButton(t)
  <2> DEFINE new == [tab[t] EXCEPT !.at = "confirm", !.got = "shown", !.game = 0]
  <2>1. new.at = "confirm"
    BY <1>1 DEF TabType
  <2>2. tab' = [tab EXCEPT ![t] = new] /\ UNCHANGED <<games, wire, presses, again>>
    BY <1>15 DEF BackButton
  <2> HIDE DEF new
  <2>3. QED
    BY <2>1, <2>2, QuietOnce
<1>16. ASSUME tab' = [tab EXCEPT ![t] = [Home EXCEPT !.posts = tab[t].posts]],
              UNCHANGED <<games, wire, presses, again>>
       PROVE  OnceInv'
  <2> DEFINE new == [Home EXCEPT !.posts = tab[t].posts]
  <2>1. new.at = "out"
    BY DEF Home
  <2>2. tab' = [tab EXCEPT ![t] = new]
    BY <1>16
  <2> HIDE DEF new
  <2>3. QED
    BY <1>16, <2>1, <2>2, QuietOnce
<1>17. CASE SwitchLanguage(t) \/ Leave(t)
  BY <1>13, <1>16, <1>17 DEF SwitchLanguage, Leave, Get
<1>18. QED
  BY <1>3, <1>4, <1>5, <1>6, <1>7, <1>8, <1>9, <1>10, <1>12, <1>14, <1>15, <1>17
  DEF TabletNext

LEMMA InductiveOnce == Spec => []OnceInv
<1>1. Init => OnceInv
  <2> SUFFICES ASSUME Init PROVE OnceInv
    OBVIOUS
  <2>1. /\ wire = {} /\ IsFiniteSet(wire) /\ again \in [Tablet -> Nat]
    BY FS_EmptySet DEF Init
  <2>2. ASSUME NEW t \in Tablet, NEW s \in Terms
        PROVE  Covered(t, s, games, wire, tab[t], presses[t], again[t])
    <3>1. again[t] = 0 /\ Home.at = "out" /\ tab[t] = Home
      BY DEF Init, Home
    <3>2. Owed(tab[t], s) = 0
      BY <3>1 DEF Owed
    <3>3. UnderWay(wire, t, s) = {}
      BY <2>1 DEF UnderWay
    <3>4. Cardinality(UnderWay(wire, t, s)) = 0
      BY <3>3, FS_EmptySet, Zenon
    <3>5. \A v : Count(<<>>, v) = 0
      <4>1. \A v : {k \in 1..Len(<<>>) : <<>>[k] = v} = {}
        OBVIOUS
      <4>2. QED
        BY <4>1, FS_EmptySet, Zenon DEF Count
    <3>6. games = <<>> /\ presses[t] = <<>>
      BY DEF Init
    <3>7. Count(games, [by |-> t, terms |-> s]) = 0 /\ Count(presses[t], s) = 0
      BY <3>5, <3>6, Zenon
    <3>8. QED
      BY <3>1, <3>2, <3>4, <3>7 DEF Covered
  <2>3. QED
    BY <2>1, <2>2 DEF OnceInv
<1>2. IInv /\ OnceInv /\ [Next]_vars => OnceInv'
  <2> SUFFICES ASSUME IInv, OnceInv, [Next]_vars PROVE OnceInv'
    OBVIOUS
  <2>1. CASE Widen \/ UNCHANGED vars
    <3>1. UNCHANGED <<games, wire, tab, presses, again>>
      BY <2>1 DEF Widen, vars
    <3>2. QED
      BY <3>1 DEF OnceInv
  <2>2. QED
    BY <2>1, ElsewhereOnce, TabletOnce, CommitOnce, RefuseOnce DEF Next
<1>3. QED
  BY <1>1, <1>2, Inductive, PTL DEF Spec

(***************************************************************************)
(* A press of the button records one game, whatever is reloaded, on any    *)
(* number of tablets: more are only where a lost commit was sent again.    *)
(***************************************************************************)
THEOREM RecordsOnce == Spec => []RecordedOnce
<1>1. IInv /\ OnceInv => RecordedOnce
  <2> SUFFICES ASSUME IInv, OnceInv, NEW t \in Tablet, NEW i \in 1..Len(games)
               PROVE  RecordedBy(t, games[i].terms)
                        <= Times(games[i].terms, presses[t]) + again[t]
    BY DEF RecordedOnce
  <2> DEFINE s == games[i].terms
  <2>1. s \in Terms
    <3>1. games \in Seq(GameType)
      BY DEF IInv, Typed
    <3>2. games[i] \in GameType
      BY <3>1
    <3>3. QED
      BY <3>2 DEF GameType
  <2> HIDE DEF s
  <2>2. RecordedBy(t, s) = Count(games, [by |-> t, terms |-> s])
    BY DEF RecordedBy, Count
  <2>3. Times(s, presses[t]) = Count(presses[t], s)
    BY DEF Times, Count
  <2> DEFINE G == Count(games, [by |-> t, terms |-> s])
             U == Cardinality(UnderWay(wire, t, s))
             P == Count(presses[t], s)
             O == Owed(tab[t], s)
  <2>4. /\ G \in Nat /\ U \in Nat /\ P \in Nat /\ O \in {0, 1} /\ again[t] \in Nat
        /\ G + U + O <= P + again[t]
    BY <2>1, Numbers DEF Covered
  <2> HIDE DEF G, U, P, O
  <2>5. G <= P + again[t]
    BY <2>4
  <2>6. QED
    BY <2>2, <2>3, <2>5 DEF G, P, s
<1>2. QED
  BY <1>1, Inductive, InductiveOnce, PTL
=============================================================================
