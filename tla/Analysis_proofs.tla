-------------------------- MODULE Analysis_proofs --------------------------
(***************************************************************************)
(* Proofs about Analysis, for any positions, watchlist, market data,       *)
(* contribution and total.                                                 *)
(***************************************************************************)
EXTENDS Analysis, Comprehension_proofs

-----------------------------------------------------------------------------
(* Integers: division, rounding, percentages *)

(* Division by a positive number rounds down. *)
LEMMA DivLaws ==
  ASSUME NEW x \in Int, NEW d \in Nat \ {0}
  PROVE  /\ x \div d \in Int
         /\ d * (x \div d) <= x
         /\ x < d * (x \div d) + d
BY Z3

(* An upper bound of a quotient. *)
LEMMA QuotientAtMost ==
  ASSUME NEW x \in Int, NEW d \in Nat \ {0}, NEW c \in Int, x < d * (c + 1)
  PROVE  x \div d <= c
<1> DEFINE q == x \div d
<1>1. q \in Int /\ d * q <= x
  BY DivLaws
<1> HIDE DEF q
<1>2. SUFFICES ASSUME q >= c + 1 PROVE FALSE
  BY <1>1 DEF q
<1>3. d * q >= d * (c + 1)
  BY <1>1, <1>2, Z3
<1> QED
  BY <1>1, <1>3

(* A lower bound of a quotient. *)
LEMMA QuotientAtLeast ==
  ASSUME NEW x \in Int, NEW d \in Nat \ {0}, NEW c \in Int, x >= d * c
  PROVE  x \div d >= c
<1> DEFINE q == x \div d
<1>1. q \in Int /\ x < d * q + d
  BY DivLaws
<1> HIDE DEF q
<1>2. SUFFICES ASSUME q <= c - 1 PROVE FALSE
  BY <1>1 DEF q
<1>3. d * q + d = d * (q + 1) /\ d * (q + 1) <= d * c
  BY <1>1, <1>2, Z3
<1> QED
  BY <1>1, <1>3

(* A quotient grows with what is divided. *)
LEMMA QuotientMonotone ==
  ASSUME NEW x \in Int, NEW y \in Int, x <= y, NEW d \in Nat \ {0}
  PROVE  x \div d <= y \div d
<1> DEFINE q == x \div d
<1>1. q \in Int /\ d * q <= x
  BY DivLaws
<1> HIDE DEF q
<1>2. y >= d * q
  BY <1>1, Z3
<1> QED
  BY <1>1, <1>2, QuotientAtLeast DEF q

(* Rounding errs by half at most. *)
LEMMA RoundLaws ==
  ASSUME NEW a \in Int, NEW b \in Nat \ {0}
  PROVE  /\ Round(a, b) \in Int
         /\ 2 * (b * Round(a, b)) <= 2 * a + b
         /\ 2 * (b * Round(a, b)) > 2 * a - b
<1> DEFINE q == (2 * a + b) \div (2 * b)
<1>1. 2 * a + b \in Int /\ 2 * b \in Nat \ {0}
  OBVIOUS
<1>2. q \in Int /\ (2 * b) * q <= 2 * a + b /\ 2 * a + b < (2 * b) * q + 2 * b
  BY <1>1, DivLaws
<1>3. Round(a, b) = q
  BY DEF Round
<1> HIDE DEF q
<1>4. (2 * b) * q = 2 * (b * q) /\ b * q \in Int
  BY <1>2, Z3
<1> QED
  BY <1>2, <1>3, <1>4

(* Whole parts may be rounded apart. *)
LEMMA RoundWhole ==
  ASSUME NEW n \in Int, NEW a \in Int, NEW b \in Nat \ {0}
  PROVE  Round(n * b + a, b) = n + Round(a, b)
<1> DEFINE q == Round(n * b + a, b)
           r == Round(a, b)
<1>1. q \in Int /\ 2 * (b * q) <= 2 * (n * b + a) + b /\ 2 * (b * q) > 2 * (n * b + a) - b
  <2>1. n * b + a \in Int
    OBVIOUS
  <2> QED
    BY <2>1, RoundLaws
<1>2. r \in Int /\ 2 * (b * r) <= 2 * a + b /\ 2 * (b * r) > 2 * a - b
  BY RoundLaws
<1> HIDE DEF q, r
<1> DEFINE d == q - n - r
<1>3. d \in Int /\ b * d = b * q - n * b - b * r /\ b * q \in Int /\ n * b \in Int /\ b * r \in Int
  BY <1>1, <1>2, Z3
<1> HIDE DEF d
<1>4. b * d < b /\ b * d > 0 - b /\ b * d \in Int
  BY <1>1, <1>2, <1>3
<1>5. d = 0
  <2>1. CASE d >= 1
    <3>1. b * d >= b
      BY <1>3, <2>1, Z3
    <3> QED
      BY <1>3, <1>4, <3>1
  <2>2. CASE d <= -1
    <3>1. b * d <= 0 - b
      BY <1>3, <2>2, Z3
    <3> QED
      BY <1>3, <1>4, <3>1
  <2> QED
    BY <1>3, <2>1, <2>2
<1>6. q = n + r
  BY <1>1, <1>2, <1>5 DEF d
<1> QED
  BY <1>6 DEF q, r

(* The larger of two integers. *)
LEMMA MaxOfTwo ==
  ASSUME NEW a \in Int, NEW b \in Int
  PROVE  Max({a, b}) = IF a >= b THEN a ELSE b
BY DEF Max

(* The smaller of two integers. *)
LEMMA MinOfTwo ==
  ASSUME NEW a \in Int, NEW b \in Int
  PROVE  Min({a, b}) = IF a <= b THEN a ELSE b
BY DEF Min

(* A percentage is rounded down. *)
LEMMA PercentLaws ==
  ASSUME NEW pct \in Nat, NEW x \in Int
  PROVE  /\ Percent(pct, x) \in Int
         /\ 100 * Percent(pct, x) <= pct * x
         /\ pct * x < 100 * Percent(pct, x) + 100
<1>1. pct * x \in Int /\ 100 \in Nat \ {0}
  OBVIOUS
<1> QED
  BY <1>1, DivLaws DEF Percent

(* A positive factor on both sides may be left out. *)
LEMMA Cancelled ==
  ASSUME NEW a \in Int, NEW b \in Int, NEW d \in Nat \ {0}, d * a <= d * b
  PROVE  a <= b
<1>1. SUFFICES ASSUME a >= b + 1 PROVE FALSE
  OBVIOUS
<1>2. d * a >= d * (b + 1) /\ d * (b + 1) = d * b + d
  BY <1>1, Z3
<1>3. d * a \in Int /\ d * b \in Int
  BY Z3
<1> QED
  BY <1>2, <1>3

(* Rounding keeps the naturals. *)
LEMMA RoundNatural ==
  ASSUME NEW a \in Nat, NEW b \in Nat \ {0}
  PROVE  Round(a, b) \in Nat
<1> DEFINE x == 2 * a + b
           d == 2 * b
<1>1. x \in Int /\ d \in Nat \ {0} /\ x >= d * 0
  OBVIOUS
<1>2. Round(a, b) = x \div d
  BY DEF Round
<1> HIDE DEF x, d
<1>3. 0 \in Int /\ x \div d >= 0 /\ x \div d \in Int
  BY <1>1, QuotientAtLeast, DivLaws
<1> QED
  BY <1>2, <1>3

-----------------------------------------------------------------------------
(* Lists: what is kept, sorted or cut off was in the list before *)

(* Ranking by score moves items, and loses or invents none. *)
LEMMA SortedMembers ==
  ASSUME NEW T, NEW ps \in Seq(T), \A i \in DOMAIN ps : ps[i].score \in Int
  PROVE  LET sorted == StableSort(ps, LAMBDA p, q : p.score > q.score)
         IN  /\ sorted \in Seq(T)
             /\ \A n \in DOMAIN sorted : \E i \in DOMAIN ps : sorted[n] = ps[i]
<1> DEFINE D == DOMAIN ps
           less == [i \in D |-> {j \in D : ps[j].score > ps[i].score}]
           Ahead(i) == Before(ps, LAMBDA p, q : p.score > q.score, i)
           Nth(n) == CHOOSE i \in D : Cardinality(Ahead(i)) = n - 1
           sorted == StableSort(ps, LAMBDA p, q : p.score > q.score)
<1>1. D = 1..Len(ps) /\ Len(ps) \in Nat
  OBVIOUS
<1>2. \A i, j \in D : i \in less[j] <=> ps[i].score > ps[j].score
  OBVIOUS
<1>3. ASSUME NEW i \in D
      PROVE  Ahead(i) = Earlier(less, D, i)
  BY <1>2 DEF Before, Earlier
<1>4. sorted = [n \in D |-> ps[Nth(n)]]
  BY DEF StableSort
<1> HIDE DEF less
<1>5. WeakOrder(less, D)
  BY <1>2 DEF WeakOrder
<1>6. \A n \in D : \E i \in D : Cardinality(Earlier(less, D, i)) = n - 1
  BY <1>1, <1>5, SortedPlaces
<1> HIDE DEF Ahead
<1>7. \A n \in D : Nth(n) \in D
  <2> HIDE DEF D
  <2> QED
    BY <1>3, <1>6
<1> HIDE DEF Nth, sorted
<1>8. sorted \in Seq(T) /\ DOMAIN sorted = D /\ \A n \in D : sorted[n] = ps[Nth(n)]
  BY <1>1, <1>4, <1>7
<1> QED
  BY <1>7, <1>8 DEF sorted

(* Nor does ranking by factor. *)
LEMMA FactorSortMembers ==
  ASSUME NEW T, NEW cs \in Seq(T), \A i \in DOMAIN cs : cs[i].factor \in Int
  PROVE  LET sorted == StableSort(cs, LAMBDA c, d : c.factor > d.factor)
         IN  /\ sorted \in Seq(T)
             /\ \A n \in DOMAIN sorted : \E i \in DOMAIN cs : sorted[n] = cs[i]
<1> DEFINE D == DOMAIN cs
           less == [i \in D |-> {j \in D : cs[j].factor > cs[i].factor}]
           Ahead(i) == Before(cs, LAMBDA c, d : c.factor > d.factor, i)
           Nth(n) == CHOOSE i \in D : Cardinality(Ahead(i)) = n - 1
           sorted == StableSort(cs, LAMBDA c, d : c.factor > d.factor)
<1>1. D = 1..Len(cs) /\ Len(cs) \in Nat
  OBVIOUS
<1>2. \A i, j \in D : i \in less[j] <=> cs[i].factor > cs[j].factor
  OBVIOUS
<1>3. ASSUME NEW i \in D
      PROVE  Ahead(i) = Earlier(less, D, i)
  BY <1>2 DEF Before, Earlier
<1>4. sorted = [n \in D |-> cs[Nth(n)]]
  BY DEF StableSort
<1> HIDE DEF less
<1>5. WeakOrder(less, D)
  BY <1>2 DEF WeakOrder
<1>6. \A n \in D : \E i \in D : Cardinality(Earlier(less, D, i)) = n - 1
  BY <1>1, <1>5, SortedPlaces
<1> HIDE DEF Ahead
<1>7. \A n \in D : Nth(n) \in D
  <2> HIDE DEF D
  <2> QED
    BY <1>3, <1>6
<1> HIDE DEF Nth, sorted
<1>8. sorted \in Seq(T) /\ DOMAIN sorted = D /\ \A n \in D : sorted[n] = cs[Nth(n)]
  BY <1>1, <1>4, <1>7
<1> QED
  BY <1>7, <1>8 DEF sorted

(* The ranking of the candidates reads three numbers of each. *)
LEMMA RankedMembers ==
  ASSUME NEW T, NEW ps \in Seq(T), \A i \in DOMAIN ps : ps[i].score \in Int \cup {NULL},
         NEW sectors, NEW F
  PROVE  LET ranked == _rank_candidates(ps, sectors, F)
         IN  /\ ranked \in Seq(T)
             /\ \A n \in DOMAIN ranked : \E i \in DOMAIN ps : ranked[n] = ps[i]
<1> DEFINE D == DOMAIN ps
           K1(p) == IF p.weight >= 100 * POSITION_THRESHOLD THEN 1 ELSE 0
           K2(p) == IF 100 * sectors[p.sector] > SECTOR_THRESHOLD * F THEN 1 ELSE 0
           K3(p) == IF p.score = NULL THEN 100 ELSE 0 - p.score
           Key(p) == <<K1(p), K2(p), K3(p)>>
           less == [i \in D |-> {j \in D : Lexically(Key(ps[j]), Key(ps[i]))}]
           Ahead(i) == Before(ps, LAMBDA p, q : Lexically(Key(p), Key(q)), i)
           Nth(n) == CHOOSE i \in D : Cardinality(Ahead(i)) = n - 1
           ranked == _rank_candidates(ps, sectors, F)
<1>1. D = 1..Len(ps) /\ Len(ps) \in Nat
  OBVIOUS
<1>2. \A i \in D : K1(ps[i]) \in Int /\ K2(ps[i]) \in Int /\ K3(ps[i]) \in Int
  OBVIOUS
<1> HIDE DEF K1, K2, K3
<1>3. \A i, j \in D : i \in less[j] <=>
        \/ K1(ps[i]) < K1(ps[j])
        \/ K1(ps[i]) = K1(ps[j]) /\ K2(ps[i]) < K2(ps[j])
        \/ K1(ps[i]) = K1(ps[j]) /\ K2(ps[i]) = K2(ps[j]) /\ K3(ps[i]) < K3(ps[j])
  BY DEF Lexically
<1>4. ASSUME NEW i \in D
      PROVE  Ahead(i) = Earlier(less, D, i)
  BY DEF Before, Earlier
<1>5. ranked = [n \in D |-> ps[Nth(n)]]
  BY DEF StableSort, _rank_candidates, K1, K2, K3
<1> HIDE DEF less
<1>6. WeakOrder(less, D)
  <2>1. \A i \in D : i \notin less[i]
    BY <1>2, <1>3
  <2>2. ASSUME NEW i \in D, NEW j \in D, NEW k \in D, i \in less[j], j \in less[k]
        PROVE  i \in less[k]
    <3>1. /\ K1(ps[i]) \in Int /\ K2(ps[i]) \in Int /\ K3(ps[i]) \in Int
          /\ K1(ps[j]) \in Int /\ K2(ps[j]) \in Int /\ K3(ps[j]) \in Int
          /\ K1(ps[k]) \in Int /\ K2(ps[k]) \in Int /\ K3(ps[k]) \in Int
      BY <1>2
    <3>2. /\ \/ K1(ps[i]) < K1(ps[j])
             \/ K1(ps[i]) = K1(ps[j]) /\ K2(ps[i]) < K2(ps[j])
             \/ K1(ps[i]) = K1(ps[j]) /\ K2(ps[i]) = K2(ps[j]) /\ K3(ps[i]) < K3(ps[j])
          /\ \/ K1(ps[j]) < K1(ps[k])
             \/ K1(ps[j]) = K1(ps[k]) /\ K2(ps[j]) < K2(ps[k])
             \/ K1(ps[j]) = K1(ps[k]) /\ K2(ps[j]) = K2(ps[k]) /\ K3(ps[j]) < K3(ps[k])
      BY <1>3, <2>2
    <3>3. \/ K1(ps[i]) < K1(ps[k])
          \/ K1(ps[i]) = K1(ps[k]) /\ K2(ps[i]) < K2(ps[k])
          \/ K1(ps[i]) = K1(ps[k]) /\ K2(ps[i]) = K2(ps[k]) /\ K3(ps[i]) < K3(ps[k])
      BY <3>1, <3>2
    <3> QED
      BY <1>3, <3>3
  <2>3. ASSUME NEW i \in D, NEW j \in D, NEW k \in D, i \in less[k]
        PROVE  i \in less[j] \/ j \in less[k]
    BY <1>2, <1>3, <2>3
  <2> QED
    BY <2>1, <2>2, <2>3 DEF WeakOrder
<1>7. \A n \in D : \E i \in D : Cardinality(Earlier(less, D, i)) = n - 1
  BY <1>1, <1>6, SortedPlaces
<1> HIDE DEF Ahead
<1>8. \A n \in D : Nth(n) \in D
  <2> HIDE DEF D
  <2> QED
    BY <1>4, <1>7
<1> HIDE DEF Nth, ranked
<1>9. ranked \in Seq(T) /\ DOMAIN ranked = D /\ \A n \in D : ranked[n] = ps[Nth(n)]
  BY <1>1, <1>5, <1>8
<1> QED
  BY <1>8, <1>9 DEF ranked

(* What is ranked was in the list, with a score. *)
LEMMA RankingMembers ==
  ASSUME NEW T, NEW ps \in Seq(T), \A i \in DOMAIN ps : ps[i].score \in Int \cup {NULL}
  PROVE  /\ Ranking(ps) \in Seq(T)
         /\ \A n \in DOMAIN Ranking(ps) :
              \E i \in DOMAIN ps : Ranking(ps)[n] = ps[i] /\ ps[i].score \in Int
<1> DEFINE kept == {i \in DOMAIN ps : ps[i].score # NULL}
           scored == ItemsAt(ps, kept)
<1>1. Ranking(ps) = StableSort(scored, LAMBDA p, q : p.score > q.score)
  BY DEF Ranking, Those
<1>2. scored \in Seq(T) /\ \A n \in DOMAIN scored : \E i \in kept : scored[n] = ps[i]
  <2>1. kept \in SUBSET DOMAIN ps
    OBVIOUS
  <2> HIDE DEF kept
  <2> QED
    BY <2>1, ItemsStay
<1>3. \A i \in kept : i \in DOMAIN ps /\ ps[i].score \in Int
  OBVIOUS
<1> HIDE DEF kept, scored
<1>4. \A n \in DOMAIN scored : scored[n].score \in Int
  BY <1>2, <1>3
<1> DEFINE sorted == StableSort(scored, LAMBDA p, q : p.score > q.score)
<1>5. /\ sorted \in Seq(T)
      /\ \A n \in DOMAIN sorted : \E k \in DOMAIN scored : sorted[n] = scored[k]
  BY <1>2, <1>4, SortedMembers
<1> HIDE DEF sorted
<1>6. Ranking(ps) = sorted
  BY <1>1 DEF sorted
<1> QED
  BY <1>2, <1>3, <1>5, <1>6

(* The first n of a list are no more than n, and from it. *)
LEMMA FirstMembers ==
  ASSUME NEW T, NEW s \in Seq(T), NEW n \in Nat
  PROVE  /\ FirstN(s, n) \in Seq(T)
         /\ Len(FirstN(s, n)) <= n
         /\ \A k \in DOMAIN FirstN(s, n) : \E i \in DOMAIN s : FirstN(s, n)[k] = s[i]
<1> DEFINE m == Min({n, Len(s)})
<1>1. m = n \/ m = Len(s)
  <2>1. \E x \in {n, Len(s)} : \A y \in {n, Len(s)} : x =< y
    OBVIOUS
  <2> QED
    BY <2>1 DEF Min
<1>2. m \in Nat /\ m <= Len(s) /\ m <= n
  <2>1. \E x \in {n, Len(s)} : \A y \in {n, Len(s)} : x =< y
    OBVIOUS
  <2>2. \A y \in {n, Len(s)} : m =< y
    BY <2>1 DEF Min
  <2> QED
    BY <1>1, <2>2
<1> HIDE DEF m
<1>3. FirstN(s, n) = SubSeq(s, 1, m)
  BY DEF FirstN, m
<1>4. /\ SubSeq(s, 1, m) \in Seq(T) /\ Len(SubSeq(s, 1, m)) = m
      /\ \A k \in DOMAIN SubSeq(s, 1, m) : k \in DOMAIN s /\ SubSeq(s, 1, m)[k] = s[k]
  BY <1>2
<1> QED
  BY <1>2, <1>3, <1>4

List(ps) == ps \in Seq(Range(ps))

(* A sequence is a list of its items. *)
LEMMA ListsAre ==
  ASSUME NEW T, NEW ps \in Seq(T)
  PROVE  List(ps)
  BY DEF List, Range

(* A list of what is made of each item. *)
LEMMA MappedList ==
  ASSUME NEW ps, List(ps), NEW image, image = [i \in DOMAIN ps |-> image[i]]
  PROVE  List(image)
<1>1. DOMAIN ps = 1..Len(ps) /\ Len(ps) \in Nat
  BY DEF List
<1>2. image \in [1..Len(ps) -> Range(image)]
  BY <1>1 DEF Range
<1> HIDE DEF Range
<1> QED
  BY <1>1, <1>2 DEF List

-----------------------------------------------------------------------------
(* Scores lie between 0 and 100, whatever the pool is *)

Hundred == 0..100

(* A spread is counted from 0 to 50. *)
LEMMA SpreadRange ==
  ASSUME NEW dev, NEW n, NEW squares
  PROVE  Spread(dev, n, squares) \in 0..50
<1> DEFINE square == TenThousandths(dev * dev * (n - 1), 9 * squares)
           all == 1..50
           fit == {b \in all : b * b <= square}
<1>1. IsFiniteSet(all) /\ Cardinality(all) = 50
  <2>1. \A a, b \in Int : IsFiniteSet(a..b) /\ Cardinality(a..b) = IF a > b THEN 0 ELSE b - a + 1
    BY FS_Interval
  <2>2. 1 \in Int /\ 50 \in Int /\ ~ (1 > 50) /\ 50 - 1 + 1 = 50
    OBVIOUS
  <2> QED
    BY <2>1, <2>2
<1>2. Spread(dev, n, squares) = Cardinality(fit)
  BY DEF Spread
<1> HIDE DEF square, all
<1>3. fit \in SUBSET all
  OBVIOUS
<1> HIDE DEF fit
<1>4. IsFiniteSet(fit) /\ Cardinality(fit) <= Cardinality(all)
  BY <1>1, <1>3, FS_Subset
<1>5. Cardinality(fit) \in Nat
  BY <1>4, FS_CardinalityType
<1> QED
  BY <1>1, <1>2, <1>4, <1>5

(* A z-score is normalised to 0..100. *)
LEMMA NormalisedRange ==
  ASSUME NEW f
  PROVE  /\ DOMAIN Normalised(f) = DOMAIN f
         /\ \A i \in DOMAIN f : Normalised(f)[i] \in Hundred \cup {NULL}
<1> DEFINE present == [i \in Kept(f) |-> f[i]]
           dev == Deviations(present)
           n == Cardinality(DOMAIN present)
           squares == SumFunction([i \in DOMAIN dev |-> dev[i] * dev[i]])
           z == FromDeviations(dev, n)
<1>1. Normalised(f) = [i \in DOMAIN f |-> IF f[i] = NULL THEN NULL ELSE z[i]]
  BY DEF Normalised, Filled, _zscore_normalize
<1>2. DOMAIN dev = Kept(f)
  BY DEF Deviations
<1> HIDE DEF dev, n
<1>3. ASSUME NEW i \in DOMAIN dev
      PROVE  z[i] \in Hundred
  <2> DEFINE d == Spread(dev[i], n, squares)
  <2>1. z[i] = IF n < 4 \/ squares = 0 THEN 50 ELSE 50 + (IF dev[i] < 0 THEN -1 ELSE 1) * d
    BY DEF FromDeviations
  <2>2. d \in 0..50
    BY SpreadRange
  <2> HIDE DEF d, squares, z
  <2>3. (-1) * d = 0 - d /\ 1 * d = d
    BY <2>2
  <2> QED
    BY <2>1, <2>2, <2>3 DEF Hundred
<1> HIDE DEF z
<1>4. \A i \in DOMAIN f : f[i] # NULL => i \in DOMAIN dev
  BY <1>2 DEF Kept
<1> QED
  BY <1>1, <1>3, <1>4

(* What is missing is neutral, and in the range. *)
LEMMA NeutralRange ==
  ASSUME NEW f
  PROVE  /\ DOMAIN OrNeutral(Normalised(f)) = DOMAIN f
         /\ \A i \in DOMAIN f : OrNeutral(Normalised(f))[i] \in Hundred
<1> DEFINE g == Normalised(f)
<1>1. DOMAIN g = DOMAIN f /\ \A i \in DOMAIN g : g[i] \in Hundred \cup {NULL}
  BY NormalisedRange
<1> HIDE DEF g
<1>2. 50 \in Hundred
  BY DEF Hundred
<1>3. OrNeutral(g) = [i \in DOMAIN g |-> IF g[i] = NULL THEN 50 ELSE g[i]]
  BY DEF OrNeutral
<1> QED
  BY <1>1, <1>2, <1>3 DEF g

(* Lower is better: the values of the same positions. *)
LEMMA NegatedDomain == ASSUME NEW f PROVE DOMAIN Negated(f) = DOMAIN f
  BY DEF Negated

(* The value factor, from P/E and P/B. *)
LEMMA ValueRange ==
  ASSUME NEW pool, NEW i \in DOMAIN pool
  PROVE  ValueFactor(pool)[i] \in Hundred
<1> DEFINE pe == _normalize_lower_better([k \in DOMAIN pool |-> CleanRatio(pool[k].pe)])
           pb == _normalize_lower_better([k \in DOMAIN pool |-> CleanRatio(pool[k].pb)])
<1>1. /\ DOMAIN pe = DOMAIN pool /\ pe[i] \in Hundred \cup {NULL}
      /\ pb[i] \in Hundred \cup {NULL}
  BY NormalisedRange, NegatedDomain DEF _normalize_lower_better
<1>2. ValueFactor(pool) = MeanOfPresent(pe, pb)
  BY DEF ValueFactor
<1> HIDE DEF pe, pb
<1> QED
  BY <1>1, <1>2 DEF MeanOfPresent, Hundred

(* Six weights that make a hundred. *)
LEMMA ScoreRange ==
  ASSUME NEW pool, NEW i \in DOMAIN pool
  PROVE  BuyScore(pool)[i] \in Hundred
<1> DEFINE a == ValueFactor(pool)[i]     b == MomentumFactor(pool)[i]
           c == DistanceFactor(pool)[i]  d == RsiFactor(pool)[i]
           e == WeightFactor(pool)[i]    g == RecencyFactor(pool)[i]
<1>1. a \in Hundred
  BY ValueRange
<1>2. b \in Hundred
  BY NeutralRange DEF MomentumFactor
<1>3. c \in Hundred
  BY NeutralRange, NegatedDomain DEF DistanceFactor
<1>4. d \in Hundred
  BY NeutralRange, NegatedDomain DEF RsiFactor
<1>5. e \in Hundred
  BY NeutralRange, NegatedDomain DEF WeightFactor
<1>6. g \in Hundred
  BY NeutralRange DEF RecencyFactor
<1>7. BuyScore(pool)[i] = Round(20 * a + 15 * b + 20 * c + 15 * d + 20 * e + 10 * g, 100)
  BY DEF BuyScore
<1> HIDE DEF a, b, c, d, e, g
<1> QED
  BY <1>1, <1>2, <1>3, <1>4, <1>5, <1>6, <1>7 DEF Round, Hundred

-----------------------------------------------------------------------------
(* What the gates let through stays what it is, wherever it is listed *)

(* A position carries what its enrichment found for its instrument.        *)
Described(p, quotes) ==
  /\ {"id", "owned", "kind", "rsi", "dist", "weight", "score"} \subseteq DOMAIN p
  /\ p.owned \in DOMAIN quotes
  /\ p.rsi = quotes[p.owned][p.id].rsi

Cool(p) == ~ (p.rsi # NULL /\ p.rsi >= HEALTH_OVERBOUGHT_RSI)

Gated(p, quotes) ==
  /\ Described(p, quotes)
  /\ p.score \in Int \cup {NULL}
  /\ p.score # NULL /\ p.kind = "STOCK" => Cool(p)

GatedList(ps, quotes) == List(ps) /\ \A i \in DOMAIN ps : Gated(ps[i], quotes)

(* Weighing leaves the signals alone. *)
LEMMA WeighedDescribed ==
  ASSUME NEW quotes, NEW ps, List(ps), \A i \in DOMAIN ps : Described(ps[i], quotes)
  PROVE  LET weighed == compute_portfolio_weights(ps)
         IN  List(weighed) /\ \A i \in DOMAIN weighed : Described(weighed[i], quotes)
<1> DEFINE weighed == compute_portfolio_weights(ps)
           w(i) == IF TotalValue(ps) = 0 THEN 0
                   ELSE Round(10000 * OrZero(ps[i].value), TotalValue(ps))
<1>1. weighed = [i \in DOMAIN ps |-> [ps[i] EXCEPT !.weight = w(i)]]
  BY DEF compute_portfolio_weights
<1> HIDE DEF weighed, w
<1>2. weighed = [i \in DOMAIN ps |-> weighed[i]]
  BY <1>1
<1>3. List(weighed)
  BY <1>2, MappedList
<1>4. \A i \in DOMAIN ps : Described(weighed[i], quotes)
  BY <1>1 DEF Described
<1> QED
  BY <1>1, <1>3, <1>4 DEF weighed

(* A score is given only to what every gate lets through.                  *)
LEMMA ScoredGated ==
  ASSUME NEW quotes, NEW ps, List(ps), \A i \in DOMAIN ps : Described(ps[i], quotes)
  PROVE  GatedList(compute_scores(ps), quotes)
<1> DEFINE etfs == PoolScores(PoolOf(ps, "ETF"))
           stocks == PoolScores(PoolOf(ps, "STOCK"))
           Score(i) == IF i \in DOMAIN etfs THEN etfs[i]
                       ELSE IF i \in DOMAIN stocks THEN stocks[i] ELSE NULL
           scored == compute_scores(ps)
<1>1. scored = [i \in DOMAIN ps |-> [ps[i] EXCEPT !.score = Score(i)]]
  BY DEF compute_scores, WithScores
<1>2. ASSUME NEW kind
      PROVE  LET pool == PoolOf(ps, kind)
             IN  /\ DOMAIN PoolScores(pool) = {i \in DOMAIN ps : ps[i].kind = kind}
                 /\ \A i \in DOMAIN PoolScores(pool) :
                      /\ PoolScores(pool)[i] \in Int \cup {NULL}
                      /\ PoolScores(pool)[i] # NULL => is_buyable(ps[i])
  <2> DEFINE pool == PoolOf(ps, kind)
             members == {i \in DOMAIN ps : ps[i].kind = kind}
  <2>1. pool = [i \in members |-> ps[i]]
    BY DEF PoolOf
  <2> HIDE DEF pool
  <2>2. \A i \in members : BuyScore(pool)[i] \in Int
    BY <2>1, ScoreRange DEF Hundred
  <2>3. PoolScores(pool) = [i \in members |-> IF Cardinality(DOMAIN pool) < 4 \/ ~is_buyable(ps[i])
                                              THEN NULL ELSE BuyScore(pool)[i]]
    BY <2>1 DEF PoolScores
  <2> QED
    BY <2>2, <2>3 DEF pool
<1>3. /\ DOMAIN etfs = {i \in DOMAIN ps : ps[i].kind = "ETF"}
      /\ DOMAIN stocks = {i \in DOMAIN ps : ps[i].kind = "STOCK"}
      /\ \A i \in DOMAIN etfs : etfs[i] \in Int \cup {NULL}
      /\ \A i \in DOMAIN stocks : /\ stocks[i] \in Int \cup {NULL}
                                  /\ stocks[i] # NULL => is_buyable(ps[i])
  BY <1>2
<1> HIDE DEF etfs, stocks, scored
<1>4. ASSUME NEW i \in DOMAIN ps
      PROVE  /\ Score(i) \in Int \cup {NULL}
             /\ Score(i) # NULL /\ ps[i].kind = "STOCK" => is_buyable(ps[i])
  BY <1>3
<1> HIDE DEF Score
<1>5. ASSUME NEW i \in DOMAIN ps, is_buyable(ps[i]), ps[i].kind = "STOCK"
      PROVE  Cool(ps[i])
  BY <1>5, ScoringAssumption DEF is_buyable, BlockedBy, Cool, HEALTH_OVERBOUGHT_RSI
<1>6. ASSUME NEW i \in DOMAIN ps
      PROVE  Gated(scored[i], quotes)
  <2>1. /\ DOMAIN scored[i] = DOMAIN ps[i]
        /\ scored[i].score = Score(i) /\ scored[i].id = ps[i].id
        /\ scored[i].rsi = ps[i].rsi /\ scored[i].kind = ps[i].kind
        /\ scored[i].owned = ps[i].owned
    BY <1>1 DEF Described
  <2> QED
    BY <1>4, <1>5, <2>1 DEF Gated, Described, Cool
<1>7. List(scored)
  <2>1. scored = [i \in DOMAIN ps |-> scored[i]]
    BY <1>1
  <2> QED
    BY <2>1, MappedList
<1> QED
  BY <1>1, <1>6, <1>7 DEF GatedList, scored

(* Items of a list keep what its items have. *)
LEMMA MembersGated ==
  ASSUME NEW quotes, NEW ps, GatedList(ps, quotes), NEW T, NEW s \in Seq(T),
         \A n \in DOMAIN s : \E i \in DOMAIN ps : s[n] = ps[i]
  PROVE  GatedList(s, quotes)
  BY ListsAre DEF GatedList

(* So does what is kept of it. *)
LEMMA ThoseGated ==
  ASSUME NEW quotes, NEW ps, GatedList(ps, quotes), NEW kept \in SUBSET DOMAIN ps
  PROVE  /\ GatedList(ItemsAt(ps, kept), quotes)
         /\ \A n \in DOMAIN ItemsAt(ps, kept) : \E i \in kept : ItemsAt(ps, kept)[n] = ps[i]
<1>1. ps \in Seq(Range(ps))
  BY DEF GatedList, List
<1>2. /\ ItemsAt(ps, kept) \in Seq(Range(ps))
      /\ \A n \in DOMAIN ItemsAt(ps, kept) : \E i \in kept : ItemsAt(ps, kept)[n] = ps[i]
  BY <1>1, ItemsStay
<1> QED
  BY <1>2, MembersGated

(* A candidate is scored, and what it is listed under.                     *)
Offered(s, kind, quotes) ==
  /\ GatedList(s, quotes)
  /\ \A n \in DOMAIN s : s[n].score \in Int /\ s[n].kind = kind

(* So does its ranking. *)
LEMMA RankingGated ==
  ASSUME NEW quotes, NEW ps, GatedList(ps, quotes)
  PROVE  /\ GatedList(Ranking(ps), quotes)
         /\ \A n \in DOMAIN Ranking(ps) :
              \E i \in DOMAIN ps : Ranking(ps)[n] = ps[i] /\ ps[i].score \in Int
<1>1. ps \in Seq(Range(ps)) /\ \A i \in DOMAIN ps : ps[i].score \in Int \cup {NULL}
  BY DEF GatedList, List, Gated
<1>2. /\ Ranking(ps) \in Seq(Range(ps))
      /\ \A n \in DOMAIN Ranking(ps) :
           \E i \in DOMAIN ps : Ranking(ps)[n] = ps[i] /\ ps[i].score \in Int
  BY <1>1, RankingMembers
<1> QED
  BY <1>2, MembersGated

(* So does its beginning. *)
LEMMA FirstCandidates ==
  ASSUME NEW quotes, NEW kind, NEW s, Offered(s, kind, quotes), NEW n \in Nat
  PROVE  Offered(FirstN(s, n), kind, quotes)
<1> DEFINE T == Range(s)
<1>1. s \in Seq(T) /\ GatedList(s, quotes)
  BY DEF Offered, GatedList, List
<1> HIDE DEF T
<1> DEFINE first == FirstN(s, n)
<1>2. s \in Seq(T) /\ n \in Nat
  BY <1>1
<1>3. first \in Seq(T) /\ \A k \in DOMAIN first : \E i \in DOMAIN s : first[k] = s[i]
  BY <1>2, FirstMembers, ZenonT(30)
<1> HIDE DEF first
<1>4. GatedList(first, quotes)
  BY <1>1, <1>3, MembersGated
<1>5. Offered(first, kind, quotes)
  BY <1>3, <1>4 DEF Offered
<1> QED
  BY <1>5 DEF first

(* get_top_candidates offers what passed the gates. *)
LEMMA TopGated ==
  ASSUME NEW quotes, NEW ps, GatedList(ps, quotes), NEW n \in Nat
  PROVE  Offered(get_top_candidates(ps, n).stocks, "STOCK", quotes)
<1> DEFINE ranked == Ranking(ps)
           kept == {i \in DOMAIN ranked : ranked[i].kind = "STOCK"}
           stocks == ItemsAt(ranked, kept)
<1>1. get_top_candidates(ps, n).stocks = FirstN(stocks, n)
  BY DEF get_top_candidates, Those
<1>2. GatedList(ranked, quotes) /\ \A i \in DOMAIN ranked : ranked[i].score \in Int
  BY RankingGated
<1> HIDE DEF ranked
<1>3. /\ GatedList(stocks, quotes)
      /\ \A k \in DOMAIN stocks : \E i \in kept : stocks[k] = ranked[i]
  <2>1. kept \in SUBSET DOMAIN ranked
    OBVIOUS
  <2> HIDE DEF kept
  <2> QED
    BY <1>2, <2>1, ThoseGated
<1> HIDE DEF stocks
<1>4. Offered(stocks, "STOCK", quotes)
  BY <1>2, <1>3 DEF Offered
<1> QED
  BY <1>1, <1>4, FirstCandidates

(* Two such lists, one after the other. *)
LEMMA ConcatenationGated ==
  ASSUME NEW quotes, NEW kind, NEW s, NEW t,
         Offered(s, kind, quotes), Offered(t, kind, quotes)
  PROVE  Offered(s \o t, kind, quotes)
<1> DEFINE T == Range(s) \cup Range(t)
<1>1. s \in Seq(T) /\ t \in Seq(T)
  <2>1. s \in Seq(Range(s)) /\ t \in Seq(Range(t))
    BY DEF Offered, GatedList, List
  <2> QED
    BY <2>1
<1>2. List(s \o t)
  <2> HIDE DEF T
  <2>1. s \o t \in Seq(T)
    BY <1>1
  <2> QED
    BY <2>1, ListsAre
<1>3. \A n \in DOMAIN (s \o t) : \/ \E i \in DOMAIN s : (s \o t)[n] = s[i]
                                 \/ \E i \in DOMAIN t : (s \o t)[n] = t[i]
  <2> HIDE DEF T
  <2> QED
    BY <1>1
<1> QED
  BY <1>2, <1>3 DEF Offered, GatedList

(* The watchlist's candidates have passed the same gates.                  *)
LEMMA MergeGated ==
  ASSUME NEW quotes, NEW owned, GatedList(owned, quotes),
         NEW watch, List(watch), \A i \in DOMAIN watch : Described(watch[i], quotes),
         NEW n \in Nat
  PROVE  Offered(merge_watchlist_candidates(owned, watch, get_top_candidates(owned, n), n).stocks,
                     "STOCK", quotes)
<1> DEFINE all == owned \o watch
           scored == compute_scores(all)
           kept == {i \in DOMAIN scored : ~ scored[i].owned}
           universe == ItemsAt(scored, kept)
           top == get_top_candidates(owned, n)
           theirs == get_top_candidates(universe, Len(watch))
           both == top.stocks \o theirs.stocks
<1>1. List(all) /\ \A i \in DOMAIN all : Described(all[i], quotes)
  <2> DEFINE T == Range(owned) \cup Range(watch)
  <2>1. owned \in Seq(T) /\ watch \in Seq(T)
    <3>1. owned \in Seq(Range(owned)) /\ watch \in Seq(Range(watch))
      BY DEF GatedList, List
    <3> QED
      BY <3>1
  <2> HIDE DEF T
  <2>2. List(all)
    <3>1. all \in Seq(T)
      BY <2>1
    <3> HIDE DEF all
    <3> QED
      BY <3>1, ListsAre
  <2>3. \A k \in DOMAIN all : \/ \E i \in DOMAIN owned : all[k] = owned[i]
                             \/ \E i \in DOMAIN watch : all[k] = watch[i]
    BY <2>1
  <2> HIDE DEF all
  <2> QED
    BY <2>2, <2>3 DEF GatedList, Gated
<1> HIDE DEF all
<1>2. GatedList(scored, quotes)
  BY <1>1, ScoredGated
<1>3. score_universe(owned, watch) = universe
  BY DEF score_universe, Those, all
<1> HIDE DEF scored
<1>4. GatedList(universe, quotes)
  BY <1>2, ThoseGated
<1>5. Len(watch) \in Nat
  BY DEF List
<1>6. merge_watchlist_candidates(owned, watch, top, n).stocks = FirstN(Ranking(both), n)
  BY <1>3 DEF merge_watchlist_candidates
<1> HIDE DEF universe
<1>7. Offered(theirs.stocks, "STOCK", quotes) /\ Offered(top.stocks, "STOCK", quotes)
  BY <1>4, <1>5, TopGated
<1> HIDE DEF top, theirs
<1>8. Offered(both, "STOCK", quotes)
  BY <1>7, ConcatenationGated
<1> HIDE DEF both
<1>9. Offered(Ranking(both), "STOCK", quotes)
  <2>1. GatedList(both, quotes)
    BY <1>8 DEF Offered
  <2>2. /\ GatedList(Ranking(both), quotes)
        /\ \A k \in DOMAIN Ranking(both) :
              \E i \in DOMAIN both : Ranking(both)[k] = both[i] /\ both[i].score \in Int
    BY <2>1, RankingGated
  <2> QED
    BY <1>8, <2>2 DEF Offered
<1>10. Offered(FirstN(Ranking(both), n), "STOCK", quotes)
  BY <1>9, FirstCandidates
<1> QED
  BY <1>6, <1>10 DEF top

-----------------------------------------------------------------------------
(* The summary *)

(* What an enrichment finds is described by it. *)
LEMMA PositionsDescribed ==
  ASSUME NEW quotes, NEW owned \in DOMAIN quotes, NEW ids \in Seq(Ids),
         \A i \in DOMAIN ids : Findable(quotes[owned][ids[i]])
  PROVE  LET ps == [i \in DOMAIN ids |-> Position(ids[i], quotes[owned][ids[i]], owned)]
         IN  List(ps) /\ \A i \in DOMAIN ps : Described(ps[i], quotes)
<1> DEFINE ps == [i \in DOMAIN ids |-> Position(ids[i], quotes[owned][ids[i]], owned)]
<1>1. List(ps)
  <2>1. List(ids)
    BY ListsAre
  <2>2. DOMAIN ps = DOMAIN ids /\ ps = [i \in DOMAIN ids |-> ps[i]]
    OBVIOUS
  <2> HIDE DEF ps
  <2> QED
    BY <2>1, <2>2, MappedList
<1>2. ASSUME NEW i \in DOMAIN ids
      PROVE  Described(ps[i], quotes)
  <2> DEFINE data == quotes[owned][ids[i]]
  <2>1. {"id", "owned", "kind", "rsi", "dist", "weight", "score"} \subseteq DOMAIN data
    BY DEF Findable
  <2>2. ps[i] = [data EXCEPT !.id = ids[i], !.owned = owned]
    BY DEF Position
  <2> HIDE DEF ps, data
  <2>3. /\ DOMAIN ps[i] = DOMAIN data /\ ps[i].id = ids[i]
        /\ ps[i].rsi = data.rsi /\ ps[i].owned = owned
    BY <2>1, <2>2
  <2> QED
    BY <2>1, <2>3 DEF Described, data
<1> QED
  BY <1>1, <1>2

(* A trim alert is about a position of the portfolio that is too hot.      *)
LEMMA TrimmedHot ==
  ASSUME NEW ps, NEW id, Alert("trim_candidate", id) \in compute_health_alerts(ps)
  PROVE  \E k \in DOMAIN ps : ps[k].id = id /\ ~ Cool(ps[k])
<1> DEFINE alert == Alert("trim_candidate", id)
<1>1. \A type, about : Alert(type, about).type = type /\ Alert(type, about).about = about
  BY DEF Alert
<1>2. \A a \in _check_concentration(ps) : a.type = "concentration"
  BY <1>1 DEF _check_concentration
<1>3. \A a \in _check_sector_weighting(ps) : a.type = "sector"
  BY <1>1 DEF _check_sector_weighting
<1>4. \A a \in _check_drawdown(ps) : a.type = "drawdown"
  BY <1>1 DEF _check_drawdown
<1>5. \A x, y : \A a \in _check_rebalancing(x, y) : a.type = "rebalancing"
  BY <1>1 DEF _check_rebalancing
<1>6. alert.type = "trim_candidate" /\ alert.about = id
  BY <1>1
<1> HIDE DEF alert
<1>7. alert \in _check_trim_candidates(ps)
  BY <1>2, <1>3, <1>4, <1>5, <1>6 DEF compute_health_alerts, alert
<1>8. PICK k \in DOMAIN ps :
        /\ alert = Alert("trim_candidate", ps[k].id)
        /\ ps[k].rsi # NULL /\ ps[k].rsi >= HEALTH_OVERBOUGHT_RSI
  BY <1>7 DEF _check_trim_candidates
<1> QED
  BY <1>1, <1>6, <1>8 DEF Cool

(* The candidates and alerts of the summary, which no later step touches.  *)
CandidatesInv ==
  portfolio # NULL =>
    /\ {"positions", "top_candidates", "health_alerts"} \subseteq DOMAIN portfolio
    /\ NeverBuyAndTrim

(* A candidate that passed the gates is in no trim alert. *)
LEMMA SummaryAgrees ==
  ASSUME NEW quotes, DOMAIN quotes = BOOLEAN,
         NEW owned, GatedList(owned, quotes), \A k \in DOMAIN owned : owned[k].owned = TRUE,
         NEW top, Offered(top.stocks, "STOCK", quotes),
         NEW c \in Range(top.stocks)
  PROVE  /\ _check_trim_candidates(<<c>>) = {}
         /\ c.owned => Alert("trim_candidate", c.id) \notin Summary(owned, top).health_alerts
<1>1. Gated(c, quotes) /\ c.score \in Int /\ c.kind = "STOCK"
  BY DEF Offered, GatedList, Range
<1>2. Cool(c) /\ c.owned \in BOOLEAN /\ c.rsi = quotes[c.owned][c.id].rsi
  BY <1>1, ScoringAssumption DEF Gated, Described
<1>3. _check_trim_candidates(<<c>>) = {}
  BY <1>2 DEF _check_trim_candidates, Cool
<1>4. ASSUME c.owned = TRUE
      PROVE  Alert("trim_candidate", c.id) \notin compute_health_alerts(owned)
  <2>1. \A k \in DOMAIN owned : owned[k].rsi = quotes[TRUE][owned[k].id].rsi
    BY DEF GatedList, Gated, Described
  <2>2. c.rsi = quotes[TRUE][c.id].rsi
    BY <1>2, <1>4
  <2>3. \A k \in DOMAIN owned : owned[k].id = c.id => Cool(owned[k])
    BY <1>2, <2>1, <2>2 DEF Cool
  <2> QED
    BY <2>3, TrimmedHot
<1>5. Summary(owned, top).health_alerts = compute_health_alerts(owned)
  BY DEF Summary
<1> QED
  BY <1>2, <1>3, <1>4, <1>5

(* Whatever either enrichment finds, and whether the watchlist could be    *)
(* scored or not: no stock is offered for buying with signals for which    *)
(* health_checks.py would have it trimmed, and no candidate that is held   *)
(* is one that the alerts of its own summary call too hot.  The gate is in *)
(* scoring.py, and candidates come from two pools that were enriched apart.*)
THEOREM CandidatesAgree == Spec => []NeverBuyAndTrim
<1>1. Init => CandidatesInv
  BY DEF Init, CandidatesInv
<1>2. CandidatesInv /\ [Next]_vars => CandidatesInv'
  <2> SUFFICES ASSUME CandidatesInv, [Next]_vars
               PROVE  CandidatesInv'
    OBVIOUS
  <2>1. CASE EnrichAndScore
    <3>1. PICK market \in Markets : \E later \in WatchMarkets :
            LET held == [i \in DOMAIN Held |-> Position(Held[i], market[Held[i]], TRUE)]
                watch == [i \in DOMAIN Watched |-> Position(Watched[i], later[Watched[i]], FALSE)]
                owned == compute_scores(compute_portfolio_weights(held))
                top == get_top_candidates(owned, 3)
            IN  \/ portfolio' = Summary(owned, top)
                \/ portfolio' = Summary(owned, merge_watchlist_candidates(owned, watch, top, 3))
      BY <2>1 DEF EnrichAndScore
    <3>2. PICK later \in WatchMarkets :
            LET held == [i \in DOMAIN Held |-> Position(Held[i], market[Held[i]], TRUE)]
                watch == [i \in DOMAIN Watched |-> Position(Watched[i], later[Watched[i]], FALSE)]
                owned == compute_scores(compute_portfolio_weights(held))
                top == get_top_candidates(owned, 3)
            IN  \/ portfolio' = Summary(owned, top)
                \/ portfolio' = Summary(owned, merge_watchlist_candidates(owned, watch, top, 3))
      BY <3>1
    <3> DEFINE held == [i \in DOMAIN Held |-> Position(Held[i], market[Held[i]], TRUE)]
               watch == [i \in DOMAIN Watched |-> Position(Watched[i], later[Watched[i]], FALSE)]
               weighed == compute_portfolio_weights(held)
               owned == compute_scores(weighed)
               mine == get_top_candidates(owned, 3)
               merged == merge_watchlist_candidates(owned, watch, mine, 3)
               first == [own \in {TRUE} |-> market]
               quotes == [own \in BOOLEAN |-> IF own THEN market ELSE later]
    <3>3. PICK top : /\ portfolio' = Summary(owned, top)
                     /\ top = mine \/ top = merged
      BY <3>2
    <3>4. List(held) /\ \A i \in DOMAIN held : Described(held[i], first)
      <4>1. TRUE \in DOMAIN first /\ first[TRUE] = market
        OBVIOUS
      <4>2. \A i \in DOMAIN Held : Findable(first[TRUE][Held[i]])
        BY <4>1, AnalysisAssumption
      <4>3. held = [i \in DOMAIN Held |-> Position(Held[i], first[TRUE][Held[i]], TRUE)]
        BY <4>1
      <4> HIDE DEF held, first
      <4>4. Held \in Seq(Ids)
        BY AnalysisAssumption
      <4>5. LET ps == [i \in DOMAIN Held |-> Position(Held[i], first[TRUE][Held[i]], TRUE)]
            IN  List(ps) /\ \A i \in DOMAIN ps : Described(ps[i], first)
        BY <4>1, <4>2, <4>4, PositionsDescribed
      <4> QED
        BY <4>3, <4>5
    <3>5. List(watch) /\ \A i \in DOMAIN watch : Described(watch[i], quotes)
      <4>1. FALSE \in DOMAIN quotes /\ quotes[FALSE] = later
        OBVIOUS
      <4>2. \A i \in DOMAIN Watched : Findable(quotes[FALSE][Watched[i]])
        BY <4>1, AnalysisAssumption
      <4>3. watch = [i \in DOMAIN Watched |-> Position(Watched[i], quotes[FALSE][Watched[i]], FALSE)]
        BY <4>1
      <4> HIDE DEF watch, quotes
      <4>4. Watched \in Seq(Ids)
        BY AnalysisAssumption
      <4>5. LET ps == [i \in DOMAIN Watched |-> Position(Watched[i], quotes[FALSE][Watched[i]], FALSE)]
            IN  List(ps) /\ \A i \in DOMAIN ps : Described(ps[i], quotes)
        BY <4>1, <4>2, <4>4, PositionsDescribed
      <4> QED
        BY <4>3, <4>5
    <3>6. DOMAIN quotes = BOOLEAN /\ quotes[TRUE] = market /\ DOMAIN first = {TRUE} /\ first[TRUE] = market
      OBVIOUS
    <3> HIDE DEF held, watch, first, quotes
    <3>7. List(weighed) /\ \A i \in DOMAIN weighed : Described(weighed[i], first)
      BY <3>4, WeighedDescribed
    <3> HIDE DEF weighed
    <3>8. GatedList(owned, first)
      BY <3>7, ScoredGated
    <3> HIDE DEF owned
    <3>9. GatedList(owned, quotes) /\ \A k \in DOMAIN owned : owned[k].owned = TRUE
      BY <3>6, <3>8 DEF GatedList, Gated, Described
    <3>10. Offered(mine.stocks, "STOCK", quotes)
      BY <3>9, TopGated
    <3>11. Offered(merged.stocks, "STOCK", quotes)
      BY <3>5, <3>9, MergeGated
    <3>12. Offered(top.stocks, "STOCK", quotes)
      BY <3>3, <3>10, <3>11
    <3>13. /\ portfolio'.top_candidates = top
           /\ portfolio'.health_alerts = Summary(owned, top).health_alerts
           /\ {"positions", "top_candidates", "health_alerts"} \subseteq DOMAIN portfolio'
      BY <3>3 DEF Summary
    <3> HIDE DEF mine, merged
    <3>14. \A c \in Range(portfolio'.top_candidates.stocks) :
             /\ _check_trim_candidates(<<c>>) = {}
             /\ c.owned => Alert("trim_candidate", c.id) \notin portfolio'.health_alerts
      BY <3>6, <3>9, <3>12, <3>13, SummaryAgrees
    <3> QED
      BY <3>13, <3>14 DEF CandidatesInv, NeverBuyAndTrim
  <2>2. ASSUME NEW amount \in Amounts, NEW total_portfolio_eur \in Maybe(Totals),
               get_rebalance_plan(amount, total_portfolio_eur)
        PROVE  CandidatesInv'
    <3>1. CASE MakePlan(amount, total_portfolio_eur)
      <4>1. portfolio # NULL /\ \E ps : portfolio' = [portfolio EXCEPT !.positions = ps]
        BY <3>1 DEF MakePlan
      <4>2. /\ DOMAIN portfolio' = DOMAIN portfolio
            /\ portfolio'.top_candidates = portfolio.top_candidates
            /\ portfolio'.health_alerts = portfolio.health_alerts
        BY <4>1 DEF CandidatesInv
      <4> QED
        BY <4>1, <4>2 DEF CandidatesInv, NeverBuyAndTrim
    <3>2. CASE RefusePlan(amount) \/ EmptyPlan(amount)
      BY <3>2 DEF RefusePlan, EmptyPlan, CandidatesInv, NeverBuyAndTrim
    <3> QED
      BY <2>2, <3>1, <3>2 DEF get_rebalance_plan
  <2>3. CASE Discard
    BY <2>3 DEF Discard, CandidatesInv
  <2>4. CASE UNCHANGED vars
    BY <2>4 DEF vars, CandidatesInv, NeverBuyAndTrim
  <2> QED
    BY <2>1, <2>2, <2>3, <2>4 DEF Next
<1>3. CandidatesInv => NeverBuyAndTrim
  BY DEF CandidatesInv, NeverBuyAndTrim
<1> QED
  BY <1>1, <1>2, <1>3, PTL DEF Spec

-----------------------------------------------------------------------------
(* The bill of a list of purchases *)

Spends(buys) == [k \in DOMAIN buys |-> buys[k].spend]

(* A list of purchases, none for less than nothing.                        *)
Bill(buys) == buys \in Seq(Range(buys)) /\ \A k \in DOMAIN buys : buys[k].spend \in Nat

(* A bill as a sum over its places. *)
LEMMA SpentIs ==
  ASSUME NEW buys
  PROVE  Spent(buys) = SumFunctionOnSet(Spends(buys), DOMAIN buys)
<1>1. DOMAIN Spends(buys) = DOMAIN buys
  BY DEF Spends
<1>2. Spent(buys) = SumFunction(Spends(buys))
  BY DEF Spent, Spends
<1> QED
  BY <1>1, <1>2 DEF SumFunction

(* The places of a list. *)
LEMMA PlacesFinite ==
  ASSUME NEW T, NEW s \in Seq(T)
  PROVE  IsFiniteSet(DOMAIN s) /\ Cardinality(DOMAIN s) = Len(s) /\ Len(s) \in Nat /\ DOMAIN s = 1..Len(s)
<1> DEFINE L == Len(s)
<1>1. DOMAIN s = 1..L /\ L \in Nat
  OBVIOUS
<1> HIDE DEF L
<1>2. IsFiniteSet(1..L) /\ Cardinality(1..L) = L
  BY <1>1, FS_Interval, Z3
<1> QED
  BY <1>1, <1>2 DEF L

(* A bill is no less than any part of it. *)
LEMMA SpentNatural ==
  ASSUME NEW buys, Bill(buys)
  PROVE  /\ Spent(buys) \in Nat
         /\ \A kept \in SUBSET DOMAIN buys : /\ SumFunctionOnSet(Spends(buys), kept) \in Nat
                                             /\ SumFunctionOnSet(Spends(buys), kept) <= Spent(buys)
<1> DEFINE v == Spends(buys)
           D == DOMAIN buys
<1>1. IsFiniteSet(D)
  BY PlacesFinite DEF Bill
<1>2. \A k \in D : v[k] \in Nat
  BY DEF Bill, Spends
<1>3. Spent(buys) = SumFunctionOnSet(v, D)
  BY SpentIs
<1> HIDE DEF v, D
<1>4. SumFunctionOnSet(v, D) \in Nat
  BY <1>1, <1>2, SumOfNaturals
<1>5. ASSUME NEW kept \in SUBSET D
      PROVE  SumFunctionOnSet(v, kept) \in Nat /\ SumFunctionOnSet(v, kept) <= SumFunctionOnSet(v, D)
  <2>1. IsFiniteSet(kept) /\ \A k \in kept : v[k] \in Nat
    BY <1>1, <1>2, FS_Subset
  <2>2. SumFunctionOnSet(v, kept) \in Nat
    BY <2>1, SumOfNaturals
  <2>3. \A s \in SUBSET D : SumFunctionOnSet(v, s) <= SumFunctionOnSet(v, D)
    BY <1>1, <1>2, SumOfNaturals
  <2> QED
    BY <2>2, <2>3
<1> QED
  BY <1>3, <1>4, <1>5 DEF v, D

(* The empty bill. *)
LEMMA NothingSpent == Spent(<< >>) = 0
<1>1. SumFunctionOnSet(Spends(<< >>), {}) = 0
  <2>1. IsFiniteSet({}) /\ \A x \in {} : Spends(<< >>)[x] \in Int
    BY FS_EmptySet
  <2> QED
    BY <2>1, SumLaws
<1>2. DOMAIN << >> = {}
  OBVIOUS
<1> QED
  BY <1>1, <1>2, SpentIs

(* What is kept of a bill costs what its items cost there. *)
LEMMA SpentOfKept ==
  ASSUME NEW buys, Bill(buys), NEW kept \in SUBSET DOMAIN buys
  PROVE  /\ Spent(ItemsAt(buys, kept)) = SumFunctionOnSet(Spends(buys), kept)
         /\ Bill(ItemsAt(buys, kept))
         /\ Spent(ItemsAt(buys, kept)) <= Spent(buys)
<1> DEFINE T == Range(buys)
           after == ItemsAt(buys, kept)
           v == Spends(buys)
           w == Spends(after)
           R == DOMAIN after
<1>1. buys \in Seq(T)
  BY DEF Bill
<1> HIDE DEF T
<1>2. PICK from \in [R -> kept] :
            /\ \A n \in R : after[n] = buys[from[n]]
            /\ \A m, n \in R : from[m] = from[n] => m = n
            /\ \A k \in kept : \E n \in R : from[n] = k
  BY <1>1, Origin
<1>3. after \in Seq(T)
  BY <1>1, ItemsStay
<1> HIDE DEF after
<1>4. IsFiniteSet(R)
  BY <1>3, PlacesFinite
<1>5. IsFiniteSet(kept)
  BY <1>1, PositionsFinite
<1>6. \A k \in kept : v[k] \in Nat
  BY DEF Bill, Spends
<1>7. \A n \in R : w[n] = v[from[n]]
  BY <1>2 DEF Spends
<1> HIDE DEF v, w, R
<1>8. SumFunctionOnSet(w, R) = SumFunctionOnSet(v, kept)
  <2>1. \A k \in kept : v[k] \in Int
    BY <1>6
  <2> QED
    BY <1>2, <1>4, <1>5, <1>7, <2>1, SumReindexed
<1>9. Spent(after) = SumFunctionOnSet(v, kept)
  BY <1>8, SpentIs DEF w, R
<1>10. Bill(after)
  <2>1. after \in Seq(Range(after))
    BY <1>3 DEF Range
  <2>2. \A n \in DOMAIN after : after[n].spend \in Nat
    BY <1>2 DEF Bill, R
  <2> QED
    BY <2>1, <2>2 DEF Bill
<1>11. SumFunctionOnSet(v, kept) <= Spent(buys)
  BY SpentNatural DEF v
<1> QED
  BY <1>9, <1>10, <1>11 DEF after, v

(* One purchase more. *)
LEMMA SpentAppend ==
  ASSUME NEW buys, Bill(buys), NEW b, b.spend \in Nat
  PROVE  /\ Bill(Append(buys, b))
         /\ Spent(Append(buys, b)) = Spent(buys) + b.spend
<1> DEFINE longer == Append(buys, b)
           v == Spends(buys)
           w == Spends(longer)
           L == Len(buys)
<1>1. buys \in Seq(Range(buys))
  BY DEF Bill
<1>2. /\ DOMAIN buys = 1..L /\ L \in Nat
      /\ DOMAIN longer = 1..(L + 1)
      /\ \A k \in 1..L : longer[k] = buys[k]
      /\ longer[L + 1] = b
      /\ longer \in Seq(Range(buys) \cup {b})
  BY <1>1
<1> HIDE DEF longer, L
<1>3. Bill(longer)
  <2>1. longer \in Seq(Range(longer))
    BY <1>2 DEF Range
  <2>2. \A k \in 1..(L + 1) : k \in 1..L \/ k = L + 1
    BY <1>2
  <2>3. \A k \in DOMAIN longer : longer[k].spend \in Nat
    BY <1>2, <2>2 DEF Bill
  <2> QED
    BY <2>1, <2>3 DEF Bill
<1>4. (1..(L + 1)) \ {L + 1} = 1..L /\ L + 1 \in 1..(L + 1)
  BY <1>2
<1>5. /\ IsFiniteSet(1..(L + 1)) /\ IsFiniteSet(1..L)
      /\ \A k \in 1..(L + 1) : w[k] \in Int
      /\ \A k \in 1..L : v[k] \in Int /\ w[k] = v[k]
      /\ w[L + 1] = b.spend
  <2>1. IsFiniteSet(1..(L + 1)) /\ IsFiniteSet(1..L)
    BY <1>2, FS_Interval
  <2>2. \A k \in 1..(L + 1) : w[k] = longer[k].spend
    BY <1>2 DEF Spends
  <2>3. \A k \in 1..L : v[k] = buys[k].spend /\ k \in 1..(L + 1)
    BY <1>2 DEF Spends
  <2>4. \A k \in 1..(L + 1) : longer[k].spend \in Nat
    BY <1>2, <1>3 DEF Bill
  <2> HIDE DEF v, w
  <2> QED
    BY <1>2, <1>4, <2>1, <2>2, <2>3, <2>4
<1> HIDE DEF v, w
<1>6. SumFunctionOnSet(w, 1..(L + 1)) = w[L + 1] + SumFunctionOnSet(w, 1..L)
  <2>1. SumFunctionOnSet(w, 1..(L + 1)) = w[L + 1] + SumFunctionOnSet(w, (1..(L + 1)) \ {L + 1})
    BY <1>4, <1>5, SumLaws
  <2> QED
    BY <1>4, <2>1
<1>7. SumFunctionOnSet(w, 1..L) = SumFunctionOnSet(v, 1..L)
  <2>1. \A k \in 1..L : v[k] \in Int /\ w[k] = v[k]
    BY <1>5
  <2> QED
    BY <1>5, <2>1, SumSame
<1>8. Spent(longer) = SumFunctionOnSet(w, 1..(L + 1)) /\ Spent(buys) = SumFunctionOnSet(v, 1..L)
  BY <1>2, SpentIs DEF v, w
<1>9. Spent(buys) \in Nat
  BY SpentNatural
<1> QED
  BY <1>3, <1>5, <1>6, <1>7, <1>8, <1>9 DEF longer

(* One purchase changed. *)
LEMMA SpentExcept ==
  ASSUME NEW buys, Bill(buys), NEW k \in DOMAIN buys,
         NEW after, Bill(after), DOMAIN after = DOMAIN buys,
         \A j \in DOMAIN buys : j # k => after[j] = buys[j]
  PROVE  Spent(after) + buys[k].spend = Spent(buys) + after[k].spend
<1> DEFINE D == DOMAIN buys
           rest == D \ {k}
           v == Spends(buys)
           w == Spends(after)
<1>1. IsFiniteSet(D) /\ IsFiniteSet(rest) /\ rest \in SUBSET D
  <2>1. IsFiniteSet(D)
    BY PlacesFinite DEF Bill
  <2> QED
    BY <2>1, FS_Subset
<1>2. /\ \A j \in D : v[j] \in Int /\ w[j] \in Int
      /\ \A j \in rest : w[j] = v[j]
      /\ v[k] = buys[k].spend /\ w[k] = after[k].spend
  BY DEF Bill, Spends
<1>3. Spent(buys) = SumFunctionOnSet(v, D) /\ Spent(after) = SumFunctionOnSet(w, D)
  BY SpentIs
<1> HIDE DEF v, w
<1>4. SumFunctionOnSet(v, D) = v[k] + SumFunctionOnSet(v, rest)
  <2>1. \A j \in D : v[j] \in Int
    BY <1>2
  <2> QED
    BY <1>1, <2>1, SumLaws
<1>5. SumFunctionOnSet(w, D) = w[k] + SumFunctionOnSet(w, rest)
  <2>1. \A j \in D : w[j] \in Int
    BY <1>2
  <2> QED
    BY <1>1, <2>1, SumLaws
<1>6. SumFunctionOnSet(w, rest) = SumFunctionOnSet(v, rest)
  <2>1. \A j \in rest : v[j] \in Int /\ w[j] = v[j]
    BY <1>2
  <2> HIDE DEF rest
  <2> QED
    BY <1>1, <2>1, SumSame
<1>7. SumFunctionOnSet(v, rest) \in Int
  <2>1. \A j \in D : v[j] \in Int
    BY <1>2
  <2> QED
    BY <1>1, <2>1, SumLaws
<1> QED
  BY <1>2, <1>3, <1>4, <1>5, <1>6, <1>7

(* Two bills as one. *)
LEMMA SpentTogether ==
  ASSUME NEW one, Bill(one), NEW two, Bill(two)
  PROVE  /\ Bill(one \o two)
         /\ Spent(one \o two) = Spent(one) + Spent(two)
         /\ SumFunctionOnSet(Spends(one \o two), 1..Len(one)) = Spent(one)
         /\ SumFunctionOnSet(Spends(one \o two), (Len(one) + 1)..(Len(one) + Len(two))) = Spent(two)
         /\ DOMAIN (one \o two) = (1..Len(one)) \cup ((Len(one) + 1)..(Len(one) + Len(two)))
<1> DEFINE both == one \o two
           L == Len(one)
           M == Len(two)
           P == 1..L
           Q == (L + 1)..(L + M)
           u == Spends(both)
           v == Spends(one)
           w == Spends(two)
           from == [i \in 1..M |-> L + i]
<1>1. one \in Seq(Range(one)) /\ two \in Seq(Range(two))
  BY DEF Bill
<1>2. /\ L \in Nat /\ M \in Nat /\ DOMAIN one = 1..L /\ DOMAIN two = 1..M
      /\ DOMAIN both = 1..(L + M)
      /\ \A k \in 1..L : both[k] = one[k]
      /\ \A k \in 1..M : both[L + k] = two[k]
      /\ both \in Seq(Range(one) \cup Range(two))
  <2> DEFINE T == Range(one) \cup Range(two)
  <2>1. one \in Seq(T) /\ two \in Seq(T)
    BY <1>1
  <2> HIDE DEF T
  <2>2. both \in Seq(T)
    BY <2>1
  <2>3. both \in Seq(Range(one) \cup Range(two))
    BY <2>2 DEF T
  <2>4. /\ L \in Nat /\ M \in Nat /\ DOMAIN one = 1..L /\ DOMAIN two = 1..M
        /\ DOMAIN both = 1..(L + M)
        /\ \A k \in 1..L : both[k] = one[k]
        /\ \A k \in 1..M : both[L + k] = two[k]
    BY <2>1
  <2> QED
    BY <2>3, <2>4
<1> HIDE DEF both, L, M
<1>3. /\ 1..(L + M) = P \cup Q /\ P \cap Q = {}
      /\ from \in [1..M -> Q]
      /\ \A i, j \in 1..M : from[i] = from[j] => i = j
      /\ \A x \in Q : x - L \in 1..M /\ from[x - L] = x
  BY <1>2
<1>4. /\ \A k \in P : both[k].spend \in Nat /\ u[k] = v[k]
      /\ \A k \in Q : both[k].spend \in Nat
      /\ \A k \in 1..M : w[k] = u[from[k]]
  <2>1. \A k \in P : both[k].spend \in Nat /\ u[k] = v[k]
    BY <1>2, <1>3 DEF Bill, Spends
  <2>2. \A k \in 1..M : L + k \in 1..(L + M)
    BY <1>2
  <2>3. \A k \in 1..M : w[k] = u[from[k]]
    BY <1>2, <1>3, <2>2 DEF Spends
  <2>4. \A k \in 1..M : two[k].spend \in Nat
    BY <1>2 DEF Bill
  <2>5. ASSUME NEW k \in Q
        PROVE  both[k].spend \in Nat
    <3>1. k - L \in 1..M /\ L + (k - L) = k
      BY <1>2
    <3> QED
      BY <1>2, <2>4, <3>1
  <2> QED
    BY <2>1, <2>3, <2>5
<1>5. Bill(both)
  <2>1. both \in Seq(Range(both))
    BY <1>2 DEF Range
  <2> QED
    BY <1>2, <1>3, <1>4, <2>1 DEF Bill
<1>6. IsFiniteSet(P) /\ IsFiniteSet(Q) /\ IsFiniteSet(1..M) /\ IsFiniteSet(P \cup Q)
  <2>1. IsFiniteSet(P) /\ IsFiniteSet(Q) /\ IsFiniteSet(1..M)
    BY <1>2, FS_Interval
  <2> HIDE DEF P, Q
  <2>2. IsFiniteSet(P \cup Q)
    BY <2>1, FS_Union
  <2> QED
    BY <2>1, <2>2
<1>7. /\ \A k \in P \cup Q : u[k] \in Int
      /\ \A k \in P : v[k] \in Int
  <2>1. \A k \in P \cup Q : k \in DOMAIN both
    BY <1>2, <1>3
  <2>2. \A k \in P : k \in DOMAIN one
    BY <1>2
  <2> HIDE DEF P, Q
  <2>3. \A k \in P \cup Q : u[k] = both[k].spend /\ both[k].spend \in Nat
    BY <1>4, <2>1 DEF Spends
  <2>4. \A k \in P : v[k] = one[k].spend /\ one[k].spend \in Nat
    BY <2>2 DEF Spends, Bill
  <2> HIDE DEF u, v
  <2> QED
    BY <2>3, <2>4
<1>8. /\ Spent(one) = SumFunctionOnSet(v, P)
      /\ Spent(two) = SumFunctionOnSet(w, 1..M)
      /\ Spent(both) = SumFunctionOnSet(u, P \cup Q)
  BY <1>2, <1>3, SpentIs
<1> HIDE DEF u, v, w, P, Q, from
<1>9. SumFunctionOnSet(u, P) = SumFunctionOnSet(v, P)
  <2>1. \A k \in P : u[k] \in Int /\ v[k] = u[k]
    BY <1>4, <1>7
  <2> QED
    BY <1>6, <2>1, SumSame
<1>10. SumFunctionOnSet(w, 1..M) = SumFunctionOnSet(u, Q)
  <2>1. \A x \in Q : u[x] \in Int
    BY <1>7
  <2>2. \A x \in Q : \E i \in 1..M : from[i] = x
    BY <1>3
  <2> DEFINE I == 1..M
  <2>3. /\ from \in [I -> Q] /\ \A i, j \in I : from[i] = from[j] => i = j
        /\ \A x \in Q : \E i \in I : from[i] = x
        /\ \A i \in I : w[i] = u[from[i]]
        /\ IsFiniteSet(I)
    BY <1>3, <1>4, <1>6, <2>2
  <2> HIDE DEF I
  <2>4. SumFunctionOnSet(w, I) = SumFunctionOnSet(u, Q)
    BY <1>6, <2>1, <2>3, SumReindexed
  <2> QED
    BY <2>4 DEF I
<1>11. SumFunctionOnSet(u, P \cup Q) = SumFunctionOnSet(u, P) + SumFunctionOnSet(u, Q)
  <2> DEFINE S == P \cup Q
  <2>1. P \in SUBSET S /\ Q \in SUBSET S /\ P \cap Q = {} /\ IsFiniteSet(S) /\ \A k \in S : u[k] \in Int
    BY <1>3, <1>6, <1>7
  <2> HIDE DEF S
  <2> QED
    BY <2>1, SumUnion
<1> QED
  BY <1>2, <1>3, <1>5, <1>8, <1>9, <1>10, <1>11 DEF both, L, M, u, P, Q

-----------------------------------------------------------------------------
(* Positions that can be bought, and the candidates of a class *)

(* What is known of a position, and of one that can be bought.             *)
Sound(p) ==
  /\ p.value \in Maybe(Nat) /\ p.price \in Maybe(Nat) /\ p.quantity \in 0..PRICE_SCALE
  /\ p.weight \in Nat /\ p.score \in Maybe(0..100)

Priced(p) ==
  /\ p.value \in Nat /\ _price_per_share_eur(p) \in Nat \ {0}
  /\ p.weight \in Nat /\ p.score \in Maybe(0..100)

(* A share of a position that can be bought costs something. *)
LEMMA PriceLaws ==
  ASSUME NEW p, Sound(p), p.value # NULL, p.quantity > 0, _price_per_share_eur(p) # NULL
  PROVE  Priced(p)
<1>1. PRICE_SCALE \in Nat \ {0} /\ NULL \notin Int
  BY RebalanceAssumption, ScoringAssumption
<1>2. p.value \in Nat /\ p.quantity \in Nat \ {0} /\ p.quantity <= PRICE_SCALE /\ p.price \in Maybe(Nat)
  BY <1>1 DEF Sound, Maybe
<1>3. CASE p.value > 0
  <2> DEFINE v == p.value
             q == p.quantity
             x == v * PRICE_SCALE
  <2>1. _price_per_share_eur(p) = x \div q
    BY <1>1, <1>2, <1>3 DEF _price_per_share_eur
  <2>2. v \in Nat \ {0} /\ q \in Nat \ {0} /\ q <= PRICE_SCALE
    BY <1>2, <1>3
  <2> HIDE DEF v, q
  <2>3. x \in Int /\ x >= PRICE_SCALE
    BY <1>1, <2>2, Z3
  <2> HIDE DEF x
  <2>4. x >= q * 1
    BY <1>1, <2>2, <2>3
  <2>5. x \div q >= 1 /\ x \div q \in Int
    BY <2>2, <2>3, <2>4, QuotientAtLeast, DivLaws
  <2> QED
    BY <1>2, <2>1, <2>5 DEF Priced, Sound
<1>4. CASE ~ (p.value > 0)
  <2>1. _price_per_share_eur(p) = p.price * PRICE_SCALE /\ p.price # NULL /\ p.price > 0
    BY <1>4 DEF _price_per_share_eur
  <2>2. p.price \in Nat \ {0}
    BY <1>2, <2>1 DEF Maybe
  <2> DEFINE c == p.price
  <2> HIDE DEF c
  <2>3. c \in Nat \ {0} /\ _price_per_share_eur(p) = c * PRICE_SCALE
    BY <2>1, <2>2 DEF c
  <2>4. c * PRICE_SCALE \in Nat \ {0}
    BY <1>1, <2>3, Z3
  <2> QED
    BY <1>2, <2>3, <2>4 DEF Priced, Sound
<1> QED
  BY <1>3, <1>4

(* The factors are positive, so that parts of a budget can be taken by     *)
(* them.                                                                   *)
LEMMA FactorRange ==
  ASSUME NEW p, p.score \in Maybe(0..100), NEW sectors, NEW F
  PROVE  Factor(p, sectors, F) \in 1..200
<1> DEFINE all == 1..100
           tenths == (100 * POSITION_THRESHOLD - p.weight) \div 10
           fit == {b \in all : 4000 * b * b <= 5 * tenths * tenths * tenths}
           sector_bonus == IF SectorPct(p, sectors, F) < SECTOR_THRESHOLD THEN 40 ELSE 0
           quality_bonus == IF p.score = NULL THEN 0 ELSE 50 + (3 * p.score) \div 10
           base == Base(p)
           x == base + sector_bonus + quality_bonus
<1>1. IsFiniteSet(all)
  <2>1. \A a, b \in Int : IsFiniteSet(a..b)
    BY FS_Interval
  <2>2. 1 \in Int /\ 100 \in Int
    OBVIOUS
  <2> QED
    BY <2>1, <2>2
<1>2. base = Cardinality(fit)
  BY DEF Base
<1> HIDE DEF all, tenths, base
<1>3. fit \in SUBSET all
  OBVIOUS
<1> HIDE DEF fit
<1>4. base \in Nat
  BY <1>1, <1>2, <1>3, FS_Subset, FS_CardinalityType
<1>5. quality_bonus \in Int
  BY DEF Maybe
<1>6. sector_bonus \in Int
  OBVIOUS
<1>7. Factor(p, sectors, F) = Max({1, Min({200, x})})
  BY DEF Factor, base
<1> HIDE DEF sector_bonus, quality_bonus
<1>8. x \in Int
  BY <1>4, <1>5, <1>6
<1> HIDE DEF x
<1>9. Min({200, x}) = IF 200 <= x THEN 200 ELSE x
  BY <1>8, MinOfTwo
<1> DEFINE y == Min({200, x})
<1>10. y \in Int /\ y <= 200
  BY <1>8, <1>9
<1> HIDE DEF y
<1>11. Max({1, y}) = IF 1 >= y THEN 1 ELSE y
  BY <1>10, MaxOfTwo
<1> QED
  BY <1>7, <1>10, <1>11 DEF y

(* The candidates are positions of the class, at most six. *)
LEMMA CandidatesAre ==
  ASSUME NEW C, \A p \in C : p.score \in Maybe(0..100),
         NEW ps \in Seq(C), NEW budget \in Int, NEW sectors, NEW F
  PROVE  /\ Candidates(ps, budget, sectors, F) \in Seq([pos : C, factor : 1..200])
         /\ Len(Candidates(ps, budget, sectors, F)) <= MAX_CANDIDATES
<1> DEFINE T == [pos : C, factor : 1..200]
           ranked == _rank_candidates(ps, sectors, F)
           kept == {k \in DOMAIN ranked : ranked[k].weight < 100 * POSITION_THRESHOLD}
           below == ItemsAt(ranked, kept)
           with == WithFactors(below, sectors, F)
           sorted == StableSort(with, LAMBDA c, d : c.factor > d.factor)
           n == Max({2, Min({MAX_CANDIDATES, budget \div MIN_SPEND_PER_POS})})
<1>1. \A i \in DOMAIN ps : ps[i].score \in Int \cup {NULL}
  <2>1. \A i \in DOMAIN ps : ps[i] \in C
    OBVIOUS
  <2>2. \A i \in DOMAIN ps : ps[i].score \in Maybe(0..100)
    BY <2>1
  <2>3. \A x \in Maybe(0..100) : x \in Int \cup {NULL}
    BY DEF Maybe
  <2> QED
    BY <2>2, <2>3
<1>2. ranked \in Seq(C)
  BY <1>1, RankedMembers
<1>3. Candidates(ps, budget, sectors, F) = FirstN(sorted, n)
  BY DEF Candidates, Those
<1> HIDE DEF ranked
<1>4. below \in Seq(C)
  <2>1. kept \in SUBSET DOMAIN ranked
    OBVIOUS
  <2> HIDE DEF kept
  <2> QED
    BY <1>2, <2>1, ItemsStay
<1> HIDE DEF below
<1>5. with \in Seq(T) /\ \A k \in DOMAIN with : with[k].factor \in Int
  <2>1. with = [k \in 1..Len(below) |-> [pos |-> below[k], factor |-> Factor(below[k], sectors, F)]]
    BY <1>4 DEF WithFactors
  <2>2. \A k \in 1..Len(below) : below[k] \in C /\ Factor(below[k], sectors, F) \in 1..200
    <3>1. \A k \in 1..Len(below) : below[k] \in C
      BY <1>4
    <3>2. ASSUME NEW p \in C PROVE Factor(p, sectors, F) \in 1..200
      BY FactorRange
    <3> QED
      BY <3>1, <3>2
  <2>3. \A k \in 1..Len(below) :
          [pos |-> below[k], factor |-> Factor(below[k], sectors, F)] \in T
    BY <2>2
  <2> HIDE DEF with, T
  <2>4. with \in Seq(T)
    BY <1>4, <2>1, <2>3
  <2>5. \A k \in DOMAIN with : with[k].factor \in Int
    <3>1. \A k \in DOMAIN with : with[k].factor = Factor(below[k], sectors, F) /\ k \in 1..Len(below)
      BY <2>1
    <3> QED
      BY <2>2, <3>1
  <2> QED
    BY <2>4, <2>5
<1> HIDE DEF with, T
<1>6. sorted \in Seq(T)
  BY <1>5, FactorSortMembers
<1> HIDE DEF sorted
<1>7. n \in Nat /\ n <= MAX_CANDIDATES
  <2> DEFINE x == budget \div MIN_SPEND_PER_POS
             y == Min({MAX_CANDIDATES, x})
  <2>1. x \in Int
    BY RebalanceAssumption, DivLaws
  <2> HIDE DEF x
  <2>2. y = IF 6 <= x THEN 6 ELSE x
    BY <2>1, MinOfTwo DEF MAX_CANDIDATES
  <2>3. y \in Int /\ y <= 6
    BY <2>1, <2>2
  <2>4. n = Max({2, y})
    BY DEF x
  <2> HIDE DEF y, n
  <2>5. Max({2, y}) = IF 2 >= y THEN 2 ELSE y
    BY <2>3, MaxOfTwo
  <2> QED
    BY <2>3, <2>4, <2>5 DEF MAX_CANDIDATES
<1> HIDE DEF n
<1>8. FirstN(sorted, n) \in Seq(T) /\ Len(FirstN(sorted, n)) <= n
  BY <1>6, <1>7, FirstMembers
<1>9. Len(FirstN(sorted, n)) \in Nat
  BY <1>8
<1> QED
  BY <1>3, <1>7, <1>8, <1>9 DEF T, MAX_CANDIDATES

-----------------------------------------------------------------------------
(* Phase 2: whole shares for every candidate *)

(* Nobody is given more than their part of the budget, or than the cap     *)
(* leaves room for, to half a cent.                                        *)
LEMMA SharesLaws ==
  ASSUME NEW B \in Nat, NEW f \in Nat, NEW F \in Nat \ {0}, NEW price \in Nat \ {0}, NEW room \in Nat,
         NEW shares,
         shares = Min({(B * f * PRICE_SCALE) \div (F * price), (room * PRICE_SCALE) \div price})
  PROVE  LET spend == Round(shares * price, PRICE_SCALE)
         IN  /\ shares \in Nat /\ spend \in Nat /\ spend <= room
             /\ 2 * (F * spend) <= 2 * (B * f) + F
<1> DEFINE S == PRICE_SCALE
           x == B * f * S
           y == F * price
           z == room * S
           q == x \div y
           r == z \div price
           spend == Round(shares * price, S)
<1>1. S \in Nat \ {0}
  BY RebalanceAssumption
<1> HIDE DEF S
<1>2. B * f \in Nat /\ x \in Nat /\ y \in Nat \ {0} /\ z \in Nat
  BY <1>1, Z3
<1>3. shares = Min({q, r})
  BY DEF S
<1> HIDE DEF x, y, z
<1>4. q \in Int /\ y * q <= x /\ q >= 0
  <2>1. x >= y * 0
    BY <1>2
  <2>2. q >= 0
    BY <1>2, <2>1, QuotientAtLeast
  <2> QED
    BY <1>2, <2>2, DivLaws
<1>5. r \in Int /\ price * r <= z /\ r >= 0
  <2>1. z >= price * 0
    BY <1>2
  <2>2. r >= 0
    BY <1>2, <2>1, QuotientAtLeast
  <2> QED
    BY <1>2, <2>2, DivLaws
<1> HIDE DEF q, r
<1>6. Min({q, r}) = IF q <= r THEN q ELSE r
  BY <1>4, <1>5, MinOfTwo
<1>7. shares \in Nat /\ shares <= q /\ shares <= r
  BY <1>3, <1>4, <1>5, <1>6
<1> DEFINE cost == shares * price
<1>8. cost \in Nat /\ cost <= z /\ F * cost <= x
  <2>1. cost \in Nat /\ F * cost \in Nat /\ F * cost = y * shares
    BY <1>7, Z3 DEF y
  <2>2. y * shares <= y * q
    BY <1>2, <1>4, <1>7, Z3
  <2>3. cost <= price * r
    BY <1>5, <1>7, Z3
  <2>4. y * q \in Int /\ price * r \in Int
    BY <1>2, <1>4, <1>5
  <2> HIDE DEF cost
  <2> QED
    BY <1>2, <1>4, <1>5, <2>1, <2>2, <2>3, <2>4
<1> HIDE DEF cost
<1>9. spend = Round(cost, S)
  BY DEF cost
<1> HIDE DEF spend
<1>10. spend \in Int /\ 2 * (S * spend) <= 2 * cost + S /\ 2 * (S * spend) > 2 * cost - S
  BY <1>1, <1>8, <1>9, RoundLaws
<1>11. spend >= 0
  <2>1. SUFFICES ASSUME spend <= -1 PROVE FALSE
    BY <1>10
  <2>2. S * spend <= 0 - S
    BY <1>1, <1>10, <2>1, Z3
  <2>3. S * spend \in Int
    BY <1>1, <1>10
  <2> QED
    BY <1>1, <1>8, <1>10, <2>2, <2>3
<1>12. spend <= room
  <2>1. 2 * (S * spend) <= 2 * z + S
    BY <1>1, <1>2, <1>8, <1>10
  <2>2. S * (2 * spend) = 2 * (S * spend) /\ S * (2 * room + 1) = 2 * z + S
    BY <1>1, <1>10, Z3 DEF z
  <2>3. 2 * spend <= 2 * room + 1
    BY <1>1, <1>10, <2>1, <2>2, Cancelled
  <2> QED
    BY <1>10, <2>3
<1>13. 2 * (F * spend) <= 2 * (B * f) + F
  <2>1. F * (2 * (S * spend)) <= F * (2 * cost + S)
    <3>1. 2 * (S * spend) \in Int /\ 2 * cost + S \in Int
      BY <1>1, <1>8, <1>10
    <3> QED
      BY <1>10, <3>1, Z3
  <2>2. F * (2 * cost + S) = 2 * (F * cost) + F * S
    BY <1>1, <1>8, Z3
  <2>3. F * (2 * (S * spend)) = S * (2 * (F * spend)) /\ F * spend \in Int
    BY <1>1, <1>10, Z3
  <2>4. S * (2 * (B * f) + F) = 2 * x + F * S
    BY <1>1, <1>2, Z3 DEF x
  <2>5. F * cost \in Int /\ F * S \in Int
    BY <1>1, <1>8
  <2>6. S * (2 * (F * spend)) <= S * (2 * (B * f) + F)
    <3> DEFINE u == F * cost
               v == F * S
               m == F * (2 * cost + S)
               l == S * (2 * (F * spend))
               g == S * (2 * (B * f) + F)
    <3>1. l <= m /\ l \in Int
      BY <1>1, <2>1, <2>3
    <3>2. m = 2 * u + v /\ g = 2 * x + v /\ u <= x /\ u \in Int /\ v \in Int
      BY <1>8, <2>2, <2>4, <2>5
    <3> HIDE DEF l, m, g, u, v
    <3>3. l <= g
      BY <1>2, <3>1, <3>2
    <3> QED
      BY <3>3 DEF l, g
  <2> QED
    BY <1>1, <1>2, <2>3, <2>6, Cancelled
<1> QED
  BY <1>7, <1>10, <1>11, <1>12, <1>13 DEF spend, S

(* No two that can be bought go by the same symbol.                        *)
Apart(C) == \A p, q \in C : p.symbol = q.symbol => p = q

Cap(F) == Percent(POSITION_THRESHOLD, F)

(* A purchase is of one of the candidates C and, where their symbols tell  *)
(* them apart, leaves it under the cap to a cent.                          *)
Purchase(b, C, F) ==
  /\ "spend" \in DOMAIN b /\ b.spend \in Nat
  /\ \E p \in C : b.symbol = p.symbol /\ b.value = p.value /\ b.kind = p.kind
  /\ Apart(C) => b.value + b.spend <= Cap(F) + 1

(* The bill of a class.                                                    *)
Purchases(buys, C, F) == Bill(buys) /\ \A k \in DOMAIN buys : Purchase(buys[k], C, F)

(* What one candidate is. *)
LEMMA CandidateLaws ==
  ASSUME NEW C, NEW cs \in Seq([pos : C, factor : 1..200]), NEW k \in DOMAIN cs
  PROVE  cs[k].pos \in C /\ cs[k].factor \in Nat /\ cs[k].factor >= 1
<1> DEFINE T == [pos : C, factor : 1..200]
<1>1. \A c \in T : c.pos \in C /\ c.factor \in 1..200
  OBVIOUS
<1>2. cs \in Seq(T)
  OBVIOUS
<1> HIDE DEF T
<1>3. cs[k] \in T
  BY <1>2
<1>4. cs[k].pos \in C /\ cs[k].factor \in 1..200
  BY <1>1, <1>3
<1>5. \A x \in 1..200 : x \in Nat /\ x >= 1
  OBVIOUS
<1> QED
  BY <1>4, <1>5

(* Phase 2: every purchase keeps its position under the cap, and the bill  *)
(* keeps to the budget, to half a cent for each.                           *)
LEMMA SnapLaws ==
  ASSUME NEW C, \A p \in C : Priced(p),
         NEW cs \in Seq([pos : C, factor : 1..200]), Len(cs) <= MAX_CANDIDATES, cs # << >>,
         NEW B \in Nat, NEW F \in Int
  PROVE  /\ Purchases(Snap(cs, B, F), C, F)
         /\ 2 * Spent(Snap(cs, B, F)) <= 2 * B + MAX_CANDIDATES
<1> DEFINE D == DOMAIN cs
           n == Len(cs)
           f == [k \in D |-> cs[k].factor]
           total == SumFunctionOnSet(f, D)
           Room(c) == AtLeast0(Percent(POSITION_THRESHOLD, F) - c.pos.value)
           Shares(c) == Min({(B * c.factor * PRICE_SCALE) \div (total * _price_per_share_eur(c.pos)),
                             (Room(c) * PRICE_SCALE) \div _price_per_share_eur(c.pos)})
           Cost(c) == Round(Shares(c) * _price_per_share_eur(c.pos), PRICE_SCALE)
           all == [k \in D |-> Buy(cs[k].pos, Shares(cs[k]), Cost(cs[k]))]
           kept == {k \in D : all[k].shares > 0 /\ all[k].spend > 0}
<1>1. D = 1..n /\ n \in Nat /\ n >= 1 /\ IsFiniteSet(D) /\ Cardinality(D) = n /\ n <= 6
  <2>1. n # 0 /\ n <= 6
    BY DEF MAX_CANDIDATES
  <2>2. IsFiniteSet(D) /\ Cardinality(D) = n /\ n \in Nat /\ D = 1..n
    BY PlacesFinite
  <2> HIDE DEF D, n
  <2> QED
    BY <2>1, <2>2
<1>2. \A k \in D : cs[k].pos \in C /\ cs[k].factor \in Nat /\ cs[k].factor >= 1
  BY CandidateLaws
<1>3. Snap(cs, B, F) = ItemsAt(all, kept)
  BY DEF Snap, Those, SumFunction
<1> HIDE DEF D, n
<1>4. \A k \in D : f[k] \in Nat /\ f[k] >= 1
  BY <1>2
<1> HIDE DEF f
<1>5. total \in Nat \ {0}
  <2>1. total \in Nat /\ \A k \in D : f[k] <= total
    BY <1>1, <1>4, SumOfNaturals
  <2>2. 1 \in D
    BY <1>1
  <2> HIDE DEF total
  <2> QED
    BY <1>4, <2>1, <2>2
<1> HIDE DEF total
<1>6. Cap(F) \in Int
  BY PercentLaws DEF Cap, POSITION_THRESHOLD
<1>7. ASSUME NEW k \in D
      PROVE  LET c == cs[k]
             IN  /\ Shares(c) \in Nat /\ Cost(c) \in Nat
                 /\ 2 * (total * Cost(c)) <= 2 * (B * c.factor) + total
                 /\ Cost(c) > 0 => c.pos.value + Cost(c) <= Cap(F)
  <2> DEFINE c == cs[k]
             price == _price_per_share_eur(c.pos)
             x == Cap(F) - c.pos.value
             room == Room(c)
             shares == Shares(c)
  <2>1. Priced(c.pos) /\ c.factor \in Nat
    <3>1. cs[k].pos \in C /\ cs[k].factor \in Nat
      BY <1>2
    <3> QED
      BY <3>1
  <2>2. price \in Nat \ {0} /\ x \in Int /\ c.pos.value \in Nat
    BY <1>6, <2>1 DEF Priced
  <2>3. room = Max({0, x})
    BY DEF AtLeast0, Cap
  <2>4. shares = Min({(B * c.factor * PRICE_SCALE) \div (total * price),
                      (room * PRICE_SCALE) \div price})
    OBVIOUS
  <2>5. Cost(c) = Round(shares * price, PRICE_SCALE)
    OBVIOUS
  <2>6. Max({0, x}) = IF 0 >= x THEN 0 ELSE x
    BY <2>2, MaxOfTwo
  <2> HIDE DEF shares, room, price, Room, Shares, Cost
  <2>7. room \in Nat /\ (room > 0 => room = x)
    BY <2>2, <2>3, <2>6
  <2>8. LET spend == Round(shares * price, PRICE_SCALE)
        IN  /\ shares \in Nat /\ spend \in Nat /\ spend <= room
            /\ 2 * (total * spend) <= 2 * (B * c.factor) + total
    BY <1>5, <2>1, <2>2, <2>4, <2>7, SharesLaws
  <2>9. Cost(c) > 0 => c.pos.value + Cost(c) <= Cap(F)
    BY <1>6, <2>2, <2>5, <2>7, <2>8
  <2> QED
    BY <2>5, <2>8, <2>9 DEF shares
<1> HIDE DEF Room, Shares, Cost
<1>8. \A k \in D : /\ all[k].spend = Cost(cs[k]) /\ all[k].symbol = cs[k].pos.symbol
                   /\ all[k].value = cs[k].pos.value /\ all[k].kind = cs[k].pos.kind
                   /\ "spend" \in DOMAIN all[k]
  BY DEF Buy
<1>9. all \in Seq(Range(all)) /\ DOMAIN all = D
  <2>1. all = [k \in 1..n |-> all[k]] /\ DOMAIN all = 1..n
    BY <1>1
  <2> HIDE DEF all
  <2> QED
    BY <1>1, <2>1 DEF Range
<1> HIDE DEF all
<1>10. Bill(all)
  BY <1>7, <1>8, <1>9 DEF Bill
<1>11. kept \in SUBSET DOMAIN all
  BY <1>9
<1>12. 2 * Spent(all) <= 2 * B + n
  <2> DEFINE v == Spends(all)
             S == SumFunctionOnSet(v, D)
             w == [k \in D |-> (2 * total) * v[k] + 0]
             u == [k \in D |-> (2 * B) * f[k] + total]
  <2>1. \A k \in D : v[k] = Cost(cs[k]) /\ v[k] \in Nat /\ f[k] = cs[k].factor
    BY <1>7, <1>8, <1>9 DEF Spends, f
  <2>2. Spent(all) = S
    BY <1>9, SpentIs
  <2>3. S \in Nat
    <3> HIDE DEF v
    <3> QED
      BY <1>1, <2>1, SumOfNaturals
  <2>4. ASSUME NEW k \in D
        PROVE  w[k] \in Int /\ u[k] \in Int /\ w[k] <= u[k]
    <3> DEFINE c == v[k]
               g == f[k]
    <3>1. c \in Nat /\ g \in Nat /\ 2 * (total * c) <= 2 * (B * g) + total
      BY <1>4, <1>7, <2>1
    <3>2. w[k] = (2 * total) * c + 0 /\ u[k] = (2 * B) * g + total
      OBVIOUS
    <3> HIDE DEF c, g, w, u
    <3>3. (2 * total) * c + 0 = 2 * (total * c) /\ (2 * B) * g = 2 * (B * g)
      BY <1>5, <3>1, Z3
    <3>4. total * c \in Int /\ B * g \in Int
      BY <1>5, <3>1
    <3> QED
      BY <1>5, <3>1, <3>2, <3>3, <3>4
  <2> HIDE DEF v
  <2>5. SumFunctionOnSet(w, D) <= SumFunctionOnSet(u, D)
    <3> HIDE DEF w, u
    <3> QED
      BY <1>1, <2>4, SumAtMost
  <2>6. SumFunctionOnSet(w, D) = (2 * total) * S + 0 * n
    <3>1. 2 * total \in Int /\ 0 \in Int /\ \A k \in D : v[k] \in Int /\ w[k] = (2 * total) * v[k] + 0
      BY <1>5, <2>1
    <3> DEFINE a == 2 * total
               b == 0
    <3>2. a \in Int /\ b \in Int /\ \A k \in D : v[k] \in Int /\ w[k] = a * v[k] + b
      BY <3>1
    <3> HIDE DEF w, a, b
    <3>3. SumFunctionOnSet(w, D) = a * SumFunctionOnSet(v, D) + b * Cardinality(D)
      <4>1. Linear(v, w, D, a, b)
        BY <1>1, <3>2 DEF Linear
      <4> QED
        BY <4>1, SumLinear
    <3> QED
      BY <1>1, <3>3 DEF a, b
  <2>7. SumFunctionOnSet(u, D) = (2 * B) * total + total * n
    <3> DEFINE a == 2 * B
    <3>1. a \in Int /\ total \in Int /\ \A k \in D : f[k] \in Int /\ u[k] = a * f[k] + total
      BY <1>4, <1>5
    <3> HIDE DEF u, a
    <3>2. SumFunctionOnSet(u, D) = a * SumFunctionOnSet(f, D) + total * Cardinality(D)
      <4>1. Linear(f, u, D, a, total)
        BY <1>1, <3>1 DEF Linear
      <4> QED
        BY <4>1, SumLinear
    <3> QED
      BY <1>1, <3>2 DEF a, total
  <2> HIDE DEF w, u, S
  <2>8. total * (2 * S) <= total * (2 * B + n)
    <3>1. (2 * total) * S + 0 * n = total * (2 * S) /\ (2 * B) * total + total * n = total * (2 * B + n)
      BY <1>1, <1>5, <2>3, Z3
    <3> QED
      BY <2>5, <2>6, <2>7, <3>1
  <2>9. 2 * S <= 2 * B + n
    BY <1>1, <1>5, <2>3, <2>8, Cancelled
  <2> QED
    BY <2>2, <2>9
<1> DEFINE bought == ItemsAt(all, kept)
<1>13. Bill(bought) /\ Spent(bought) <= Spent(all)
  <2> HIDE DEF kept
  <2> QED
    BY <1>10, <1>11, SpentOfKept
<1>14. \A j \in DOMAIN bought : \E k \in kept : bought[j] = all[k]
  <2> HIDE DEF kept
  <2>1. all \in Seq(Range(all))
    BY <1>10 DEF Bill
  <2> QED
    BY <1>11, <2>1, ItemsStay
<1>15. ASSUME NEW k \in kept
       PROVE  Purchase(all[k], C, F)
  <2>1. k \in D /\ all[k].spend > 0
    OBVIOUS
  <2> HIDE DEF kept
  <2>2. /\ all[k].spend \in Nat /\ "spend" \in DOMAIN all[k] /\ all[k].value + all[k].spend <= Cap(F)
        /\ cs[k].pos \in C /\ all[k].value \in Nat
    BY <1>2, <1>7, <1>8, <2>1 DEF Priced
  <2>3. all[k].value + all[k].spend <= Cap(F) + 1
    BY <1>6, <2>2
  <2> QED
    BY <1>8, <2>1, <2>2, <2>3 DEF Purchase
<1> HIDE DEF kept, bought
<1>16. Purchases(bought, C, F)
  BY <1>13, <1>14, <1>15 DEF Purchases
<1>17. 2 * Spent(bought) <= 2 * B + MAX_CANDIDATES
  <2>1. Spent(bought) \in Nat /\ Spent(all) \in Nat
    BY <1>10, <1>13, SpentNatural
  <2> QED
    BY <1>1, <1>12, <1>13, <2>1 DEF MAX_CANDIDATES
<1> QED
  BY <1>3, <1>16, <1>17 DEF bought

-----------------------------------------------------------------------------
(* Phase 3: a share more for those that can have one *)

(* The least of some naturals is one of them. *)
LEMMA LeastMember ==
  ASSUME NEW s \in SUBSET Nat, s # {}
  PROVE  Min(s) \in s
<1>1. \E n \in s : \A m \in s : <<m, n>> \notin OpToRel(<, Nat)
  <2>1. IsWellFoundedOn(OpToRel(<, Nat), Nat)
    BY NatLessThanWellFounded
  <2>2. s \subseteq Nat /\ s # {}
    OBVIOUS
  <2> DEFINE Less == OpToRel(<, Nat)
  <2> HIDE DEF Less
  <2>3. IsWellFoundedOn(Less, Nat)
    BY <2>1 DEF Less
  <2>4. \E n \in s : \A m \in s : <<m, n>> \notin Less
    BY <2>2, <2>3, WFMin
  <2> QED
    BY <2>4 DEF Less
<1>2. PICK n \in s : \A m \in s : ~(m < n)
  BY <1>1 DEF OpToRel
<1>3. \A m \in s : n =< m
  BY <1>2
<1> QED
  BY <1>2, <1>3 DEF Min

(* The entry of a symbol is in the plan and carries it. *)
LEMMA EntryLaws ==
  ASSUME NEW buys, DOMAIN buys \subseteq Nat \ {0}, NEW symbol
  PROVE  \/ EntryOf(buys, symbol) = 0
         \/ /\ EntryOf(buys, symbol) \in DOMAIN buys
            /\ buys[EntryOf(buys, symbol)].symbol = symbol
<1> DEFINE found == {k \in DOMAIN buys : buys[k].symbol = symbol}
<1>1. EntryOf(buys, symbol) = IF found = {} THEN 0 ELSE Min(found)
  BY DEF EntryOf
<1>2. found \in SUBSET Nat
  OBVIOUS
<1>3. \A k \in found : k \in DOMAIN buys /\ buys[k].symbol = symbol
  OBVIOUS
<1> HIDE DEF found
<1>4. found # {} => Min(found) \in found
  BY <1>2, LeastMember
<1> QED
  BY <1>1, <1>3, <1>4

(* A share more, rounded, that was not overweight.                         *)
LEMMA CapStep ==
  ASSUME NEW v \in Nat, NEW s \in Nat, NEW price \in Nat \ {0}, NEW F \in Int,
         ~ (100 * ((v + s) * PRICE_SCALE + price) > POSITION_THRESHOLD * F * PRICE_SCALE)
  PROVE  v + s + Round(price, PRICE_SCALE) <= Cap(F) + 1
<1> DEFINE S == PRICE_SCALE
           r == Round(price, S)
           h == v + s
<1>1. S \in Nat \ {0} /\ h \in Nat
  BY RebalanceAssumption
<1>2. 100 * (h * S + price) <= 20 * F * S
  <2>1. ~ (100 * (h * S + price) > 20 * F * S)
    BY DEF POSITION_THRESHOLD
  <2>2. 100 * (h * S + price) \in Int /\ 20 * F * S \in Int
    BY <1>1
  <2> HIDE DEF h, S
  <2> QED
    BY <2>1, <2>2
<1> HIDE DEF S
<1>3. r \in Int /\ 2 * (S * r) <= 2 * price + S
  <2>1. price \in Int
    OBVIOUS
  <2> QED
    BY <1>1, <2>1, RoundLaws
<1> HIDE DEF r, h
<1>4. S * (200 * (h + r)) <= S * (40 * F + 100)
  <2> DEFINE a == S * h
             b == S * r
             c == S * F
  <2>1. a \in Int /\ b \in Int /\ c \in Int
    BY <1>1, <1>3
  <2>2. S * (200 * (h + r)) = 200 * a + 200 * b /\ S * (40 * F + 100) = 40 * c + 100 * S
    BY <1>1, <1>3, Z3
  <2>3. 100 * (h * S + price) = 100 * a + 100 * price /\ 20 * F * S = 20 * c
    BY <1>1, Z3
  <2>4. 100 * a + 100 * price <= 20 * c
    BY <1>2, <2>3
  <2>5. 2 * b <= 2 * price + S
    BY <1>3
  <2> HIDE DEF a, b, c
  <2>6. 200 * a + 200 * b <= 40 * c + 100 * S
    BY <1>1, <2>1, <2>4, <2>5
  <2> QED
    BY <2>2, <2>6
<1>5. 200 * (h + r) <= 40 * F + 100
  <2>1. 200 * (h + r) \in Int /\ 40 * F + 100 \in Int
    BY <1>1, <1>3
  <2> QED
    BY <1>1, <1>4, <2>1, Cancelled
<1>6. Cap(F) \in Int /\ 20 * F < 100 * Cap(F) + 100
  BY PercentLaws DEF Cap, POSITION_THRESHOLD
<1> QED
  BY <1>1, <1>3, <1>5, <1>6 DEF h, r, S

(* What the passes over the candidates keep, after m shares at most: what  *)
(* is spent and what the bill says differ by half a cent for each, and so  *)
(* does what remains from the rest of the budget.                          *)
Accounted(acc, m, B) ==
  LET scaled == PRICE_SCALE * Spent(acc.buys)
  IN  /\ acc.spent \in Nat /\ acc.remaining \in Int
      /\ 2 * scaled <= 2 * acc.spent + m * PRICE_SCALE
      /\ 2 * acc.spent <= 2 * scaled + m * PRICE_SCALE
      /\ 2 * (PRICE_SCALE * acc.remaining) <= 2 * (PRICE_SCALE * B) - 2 * acc.spent + m * PRICE_SCALE
      /\ acc.remaining >= 0 \/ 2 * Spent(acc.buys) <= 2 * B + MAX_CANDIDATES

(* One share more. *)
LEMMA AccountedStep ==
  ASSUME NEW acc, NEW m \in Nat, NEW B \in Nat, Accounted(acc, m, B), Spent(acc.buys) \in Nat,
         NEW price \in Nat \ {0}, price <= acc.remaining * PRICE_SCALE,
         NEW next, next.spent = acc.spent + price,
         next.remaining = Round(acc.remaining * PRICE_SCALE - price, PRICE_SCALE),
         Spent(next.buys) = Spent(acc.buys) + Round(price, PRICE_SCALE)
  PROVE  Accounted(next, m + 1, B)
<1> DEFINE S == PRICE_SCALE
           r == Round(price, S)
           left == acc.remaining * S - price
           R == Round(left, S)
           spent == Spent(acc.buys)
           X == acc.spent
           Q == acc.remaining
<1>1. S \in Nat \ {0} /\ Q \in Int /\ X \in Nat /\ spent \in Nat /\ left \in Int /\ left >= 0
  <2>1. S \in Nat \ {0} /\ Q \in Int /\ X \in Nat /\ spent \in Nat
    BY RebalanceAssumption DEF Accounted
  <2>2. Q * S \in Int
    BY <2>1
  <2> QED
    BY <2>1, <2>2
<1>2. /\ 2 * (S * spent) <= 2 * X + m * S
      /\ 2 * X <= 2 * (S * spent) + m * S
      /\ 2 * (S * Q) <= 2 * (S * B) - 2 * X + m * S
  BY DEF Accounted
<1> HIDE DEF S
<1>3. r \in Int /\ 2 * (S * r) <= 2 * price + S /\ 2 * (S * r) > 2 * price - S
  <2>1. price \in Int
    OBVIOUS
  <2> QED
    BY <1>1, <2>1, RoundLaws
<1>4. R \in Int /\ 2 * (S * R) <= 2 * left + S /\ 2 * (S * R) > 2 * left - S
  BY <1>1, RoundLaws
<1>5. left = S * Q - price
  BY <1>1
<1> HIDE DEF r, R, left, spent, X, Q
<1>6. R >= 0
  <2>1. SUFFICES ASSUME R <= -1 PROVE FALSE
    BY <1>4
  <2>2. S * R <= 0 - S /\ S * R \in Int
    BY <1>1, <1>4, <2>1, Z3
  <2> QED
    BY <1>1, <1>4, <2>2
<1> DEFINE a == S * spent
           b == S * r
           c == S * Q
           d == S * R
           e == S * B
           f == m * S
<1>7. a \in Int /\ b \in Int /\ c \in Int /\ d \in Int /\ e \in Int /\ f \in Int
  BY <1>1, <1>3, <1>4
<1>8. S * (spent + r) = a + b /\ (m + 1) * S = f + S
  BY <1>1, <1>3, Z3
<1>9. /\ 2 * a <= 2 * X + f /\ 2 * X <= 2 * a + f /\ 2 * c <= 2 * e - 2 * X + f
      /\ 2 * b <= 2 * price + S /\ 2 * b > 2 * price - S
      /\ 2 * d <= 2 * (c - price) + S
  BY <1>2, <1>3, <1>4, <1>5
<1> HIDE DEF a, b, c, d, e, f
<1>10. /\ 2 * (a + b) <= 2 * (X + price) + (f + S)
       /\ 2 * (X + price) <= 2 * (a + b) + (f + S)
       /\ 2 * d <= 2 * e - 2 * (X + price) + (f + S)
  BY <1>1, <1>7, <1>9
<1>11. /\ next.spent = X + price /\ next.remaining = R /\ Spent(next.buys) = spent + r
  BY DEF X, R, left, spent, r, S
<1>12. next.spent \in Nat
  BY <1>1, <1>11
<1>13. PRICE_SCALE * Spent(next.buys) = a + b /\ (m + 1) * PRICE_SCALE = f + S
       /\ PRICE_SCALE * next.remaining = d /\ PRICE_SCALE * B = e
  BY <1>8, <1>11 DEF S, d, e
<1> QED
  BY <1>4, <1>6, <1>10, <1>11, <1>12, <1>13 DEF Accounted

Affordable(acc, m, B, C, F) == Purchases(acc.buys, C, F) /\ Accounted(acc, m, B)

(* The bounds grow with the number of shares. *)
LEMMA MoreShares ==
  ASSUME NEW acc, NEW m \in Nat, NEW B \in Nat, Accounted(acc, m, B), Spent(acc.buys) \in Nat
  PROVE  Accounted(acc, m + 1, B)
<1> DEFINE S == PRICE_SCALE
           a == S * Spent(acc.buys)
           b == S * acc.remaining
           c == S * B
           f == m * S
<1>1. S \in Nat /\ acc.remaining \in Int /\ acc.spent \in Nat
  BY RebalanceAssumption DEF Accounted
<1>2. a \in Int /\ b \in Int /\ c \in Int /\ f \in Int /\ (m + 1) * S = f + S
  BY <1>1, Z3
<1>3. /\ 2 * a <= 2 * acc.spent + f /\ 2 * acc.spent <= 2 * a + f
      /\ 2 * b <= 2 * c - 2 * acc.spent + f
  BY DEF Accounted
<1> HIDE DEF a, b, c, f
<1>4. /\ 2 * a <= 2 * acc.spent + (f + S) /\ 2 * acc.spent <= 2 * a + (f + S)
      /\ 2 * b <= 2 * c - 2 * acc.spent + (f + S)
  BY <1>1, <1>2, <1>3
<1>5. /\ 2 * a <= 2 * acc.spent + (m + 1) * S /\ 2 * acc.spent <= 2 * a + (m + 1) * S
      /\ 2 * b <= 2 * c - 2 * acc.spent + (m + 1) * S
  BY <1>2, <1>4
<1> HIDE DEF S
<1>6. acc.remaining >= 0 \/ 2 * Spent(acc.buys) <= 2 * B + MAX_CANDIDATES
  BY DEF Accounted
<1>7. Accounted(acc, m + 1, B)
  BY <1>1, <1>5, <1>6 DEF Accounted, S, a, b, c
<1> QED
  BY <1>7

(* _allocate_budget, phase 3: a share that is affordable and not           *)
(* overweight.                                                             *)
LEMMA AddShareKept ==
  ASSUME NEW C, \A p \in C : Priced(p), NEW p \in C, NEW F \in Int, NEW B \in Nat, NEW m \in Nat,
         NEW acc, Affordable(acc, m, B, C, F),
         _price_per_share_eur(p) <= acc.remaining * PRICE_SCALE, ~ Overweight(acc, p, F)
  PROVE  Affordable(AddShare(acc, p), m + 1, B, C, F)
<1> DEFINE price == _price_per_share_eur(p)
           r == Round(price, PRICE_SCALE)
           buys == acc.buys
           k == EntryOf(buys, p.symbol)
           next == AddShare(acc, p)
           after == next.buys
<1>1. PRICE_SCALE \in Nat \ {0} /\ price \in Nat \ {0} /\ p.value \in Nat
  BY RebalanceAssumption DEF Priced
<1>2. Bill(buys) /\ (\A j \in DOMAIN buys : Purchase(buys[j], C, F)) /\ Spent(buys) \in Nat
  BY SpentNatural DEF Affordable, Purchases
<1>3. r \in Nat
  <2>1. price \in Int /\ r \in Int /\ 2 * (PRICE_SCALE * r) > 2 * price - PRICE_SCALE
    <3>1. price \in Int
      BY <1>1
    <3> HIDE DEF price
    <3> QED
      BY <1>1, <3>1, RoundLaws
  <2> HIDE DEF r, price
  <2>2. SUFFICES ASSUME r <= -1 PROVE FALSE
    BY <2>1
  <2>3. PRICE_SCALE * r <= 0 - PRICE_SCALE /\ PRICE_SCALE * r \in Int
    BY <1>1, <2>1, <2>2, Z3
  <2> QED
    BY <1>1, <2>1, <2>3
<1>4. /\ next.spent = acc.spent + price
      /\ next.remaining = Round(acc.remaining * PRICE_SCALE - price, PRICE_SCALE)
      /\ after = IF k = 0 THEN Append(buys, Buy(p, 1, r))
                 ELSE [buys EXCEPT ![k].shares = @ + 1,
                                   ![k].spend = Round(@ * PRICE_SCALE + price, PRICE_SCALE)]
  BY DEF AddShare
<1>5. ~ (100 * ((p.value + CurrentSpend(acc, p)) * PRICE_SCALE + price)
           > POSITION_THRESHOLD * F * PRICE_SCALE)
  BY DEF Overweight
<1>6. buys \in Seq(Range(buys)) /\ DOMAIN buys \subseteq Nat \ {0}
  <2>1. buys \in Seq(Range(buys))
    BY <1>2 DEF Bill
  <2> QED
    BY <2>1
<1>7. k = 0 \/ (k \in DOMAIN buys /\ buys[k].symbol = p.symbol /\ k # 0)
  BY <1>6, EntryLaws
<1>8. CurrentSpend(acc, p) = IF k = 0 THEN 0 ELSE buys[k].spend
  BY DEF CurrentSpend
<1> HIDE DEF price, r, k, next, buys
<1>9. Purchases(after, C, F) /\ Spent(after) = Spent(buys) + r
  <2>1. CASE k = 0
    <3> DEFINE b == Buy(p, 1, r)
    <3>1. after = Append(buys, b)
      BY <1>4, <2>1
    <3>2. b.spend = r /\ "spend" \in DOMAIN b /\ b.symbol = p.symbol /\ b.value = p.value /\ b.kind = p.kind
      BY DEF Buy
    <3> HIDE DEF b
    <3>3. Bill(after) /\ Spent(after) = Spent(buys) + r
      BY <1>2, <1>3, <3>1, <3>2, SpentAppend
    <3>4. p.value + 0 + r <= Cap(F) + 1
      BY <1>1, <1>5, <1>8, <2>1, CapStep DEF r
    <3>5. Purchase(b, C, F)
      BY <1>1, <1>3, <3>2, <3>4 DEF Purchase
    <3>6. \A j \in DOMAIN after : after[j] = b \/ (j \in DOMAIN buys /\ after[j] = buys[j])
      BY <1>6, <3>1
    <3> HIDE DEF after
    <3>7. Purchases(after, C, F)
      BY <1>2, <3>3, <3>5, <3>6 DEF Purchases
    <3> QED
      BY <3>3, <3>7
  <2>2. CASE k # 0
    <3> DEFINE s == buys[k].spend
               b == after[k]
    <3>1. k \in DOMAIN buys /\ buys[k].symbol = p.symbol /\ s \in Nat
      BY <1>2, <1>7, <2>2 DEF Bill
    <3>2. after = [buys EXCEPT ![k].shares = @ + 1,
                               ![k].spend = Round(@ * PRICE_SCALE + price, PRICE_SCALE)]
      BY <1>4, <2>2
    <3>3. /\ DOMAIN after = DOMAIN buys
          /\ \A j \in DOMAIN buys : j # k => after[j] = buys[j]
      BY <3>2
    <3>4. /\ b.symbol = buys[k].symbol /\ b.value = buys[k].value /\ b.kind = buys[k].kind
          /\ b.spend = Round(s * PRICE_SCALE + price, PRICE_SCALE) /\ "spend" \in DOMAIN b
      <4>1. "spend" \in DOMAIN buys[k]
        BY <1>2, <3>1 DEF Purchase
      <4>2. b = [buys[k] EXCEPT !.shares = @ + 1,
                                !.spend = Round(s * PRICE_SCALE + price, PRICE_SCALE)]
        BY <3>1, <3>2
      <4> HIDE DEF b, after
      <4> QED
        BY <4>1, <4>2
    <3>5. b.spend = s + r
      <4>1. s \in Int /\ price \in Int
        BY <1>1, <3>1
      <4> HIDE DEF s, b
      <4> QED
        BY <1>1, <3>4, <4>1, RoundWhole DEF r
    <3>6. Purchase(b, C, F)
      <4>1. PICK q \in C : buys[k].symbol = q.symbol /\ buys[k].value = q.value /\ buys[k].kind = q.kind
        BY <1>2, <3>1 DEF Purchase
      <4>2. p.value + s + r <= Cap(F) + 1
        BY <1>1, <1>5, <1>8, <2>2, <3>1, CapStep DEF r
      <4>3. Apart(C) => b.value = p.value
        BY <3>1, <3>4, <4>1 DEF Apart
      <4>4. Apart(C) => b.value + b.spend <= Cap(F) + 1
        BY <1>1, <1>3, <3>1, <3>5, <4>2, <4>3
      <4>5. b.spend \in Nat
        BY <1>3, <3>1, <3>5
      <4> HIDE DEF b, s
      <4> QED
        BY <3>4, <4>1, <4>4, <4>5 DEF Purchase
    <3>7. \A j \in DOMAIN after : Purchase(after[j], C, F)
      BY <1>2, <3>3, <3>6
    <3>8. Bill(after)
      <4>1. \A j \in DOMAIN after : after[j].spend \in Nat
        BY <3>7 DEF Purchase
      <4>2. DOMAIN after = 1..Len(buys) /\ Len(buys) \in Nat
        BY <1>6, <3>3
      <4>3. after = [j \in 1..Len(buys) |-> after[j]]
        BY <3>2, <4>2
      <4> HIDE DEF after
      <4>4. after \in Seq(Range(after))
        BY <4>2, <4>3 DEF Range
      <4> QED
        BY <4>1, <4>4 DEF Bill
    <3>9. Spent(after) + s = Spent(buys) + b.spend
      <4> HIDE DEF after
      <4> QED
        BY <1>2, <3>1, <3>3, <3>8, SpentExcept
    <3>10. Spent(after) \in Nat
      BY <3>8, SpentNatural
    <3> HIDE DEF after, s, b
    <3>11. Spent(after) = Spent(buys) + r
      BY <1>2, <1>3, <3>1, <3>5, <3>9, <3>10
    <3> QED
      BY <3>7, <3>8, <3>11 DEF Purchases
  <2> QED
    BY <2>1, <2>2
<1>10. Accounted(next, m + 1, B)
  <2>1. Accounted(acc, m, B)
    BY DEF Affordable
  <2>2. price <= acc.remaining * PRICE_SCALE
    BY DEF price
  <2>3. Spent(next.buys) = Spent(acc.buys) + r
    BY <1>9 DEF buys
  <2> QED
    BY <1>1, <1>2, <1>4, <2>1, <2>2, <2>3, AccountedStep DEF r, buys
<1> QED
  BY <1>9, <1>10 DEF Affordable, next

(* One position in one pass. *)
LEMMA TopUpOneKept ==
  ASSUME NEW C, \A p \in C : Priced(p), NEW p \in C, NEW F \in Int, NEW B \in Nat, NEW m \in Nat,
         NEW acc, Affordable(acc, m, B, C, F)
  PROVE  Affordable(TopUpOne(acc, p, F), m + 1, B, C, F)
<1> DEFINE price == _price_per_share_eur(p)
<1>1. CASE acc.remaining < 1 \/ price > acc.remaining * PRICE_SCALE \/ Overweight(acc, p, F)
  <2>1. TopUpOne(acc, p, F) = acc
    BY <1>1 DEF TopUpOne
  <2>2. Spent(acc.buys) \in Nat
    BY SpentNatural DEF Affordable, Purchases
  <2> QED
    BY <2>1, <2>2, MoreShares DEF Affordable
<1>2. CASE ~ (acc.remaining < 1 \/ price > acc.remaining * PRICE_SCALE \/ Overweight(acc, p, F))
  <2>1. TopUpOne(acc, p, F) = AddShare(acc, p)
    BY <1>2 DEF TopUpOne
  <2>2. price <= acc.remaining * PRICE_SCALE
    <3>1. price \in Nat /\ acc.remaining \in Int /\ PRICE_SCALE \in Nat
      BY RebalanceAssumption DEF Priced, Affordable, Accounted
    <3>2. acc.remaining * PRICE_SCALE \in Int
      BY <3>1
    <3> QED
      BY <1>2, <3>1, <3>2
  <2> QED
    BY <1>2, <2>1, <2>2, AddShareKept
<1> QED
  BY <1>1, <1>2

(* The states of a pass, after each candidate.                             *)
Passing(acc, candidates, F) ==
  CHOOSE after : after = [k \in 0..Len(candidates) |->
    IF k = 0 THEN acc ELSE TopUpOne(after[k - 1], candidates[k].pos, F)]

(* The recursion of a pass defines its states. *)
LEMMA PassingDef ==
  ASSUME NEW T, NEW candidates \in Seq(T), NEW acc, NEW F
  PROVE  LET after == Passing(acc, candidates, F)
         IN  /\ Pass(acc, candidates, F) = after[Len(candidates)]
             /\ \A k \in 0..Len(candidates) :
                  after[k] = IF k = 0 THEN acc ELSE TopUpOne(after[k - 1], candidates[k].pos, F)
<1> DEFINE L == Len(candidates)
           body(g, k) == IF k = 0 THEN acc ELSE TopUpOne(g[k - 1], candidates[k].pos, F)
           good == {n \in Nat : \E g : \A k \in 0..n : g[k] = body(g, k)}
<1>1. L \in Nat
  OBVIOUS
<1>2. 0 \in good
  <2> DEFINE g == [k \in {0} |-> acc]
  <2>1. \A k \in 0..0 : g[k] = body(g, k)
    OBVIOUS
  <2> HIDE DEF g, body
  <2> QED
    BY <2>1, Zenon
<1>3. ASSUME NEW n \in Nat, n \in good
      PROVE  n + 1 \in good
  <2>1. PICK g : \A k \in 0..n : g[k] = body(g, k)
    BY <1>3
  <2> DEFINE h == [k \in 0..(n + 1) |-> IF k <= n THEN g[k] ELSE body(g, k)]
  <2>2. ASSUME NEW k \in 0..(n + 1)
        PROVE  h[k] = body(h, k)
    <3>1. h[k] = body(g, k)
      BY <2>1
    <3>2. k # 0 => h[k - 1] = g[k - 1]
      OBVIOUS
    <3> HIDE DEF h
    <3> QED
      BY <3>1, <3>2
  <2>3. \A k \in 0..(n + 1) : h[k] = body(h, k)
    BY <2>2
  <2>4. n + 1 \in Nat
    OBVIOUS
  <2> HIDE DEF h, body
  <2> QED
    BY <2>3, <2>4, Zenon
<1>4. L \in good
  <2> HIDE DEF good, L
  <2> QED
    BY <1>1, <1>2, <1>3, NatInduct
<1>5. PICK g : \A k \in 0..L : g[k] = body(g, k)
  BY <1>4
<1> DEFINE h == [k \in 0..L |-> g[k]]
<1>6. h = [k \in 0..L |-> body(h, k)]
  <2>1. ASSUME NEW k \in 0..L
        PROVE  h[k] = body(h, k)
    <3>1. h[k] = body(g, k)
      BY <1>5
    <3>2. k # 0 => k - 1 \in 0..L
      BY <1>1
    <3>3. k # 0 => h[k - 1] = g[k - 1]
      BY <3>2
    <3> HIDE DEF h
    <3> QED
      BY <3>1, <3>3
  <2>2. h = [k \in 0..L |-> h[k]]
    OBVIOUS
  <2> HIDE DEF h, body
  <2> QED
    BY <2>1, <2>2
<1> HIDE DEF h
<1>7. \E f : f = [k \in 0..Len(candidates) |->
               IF k = 0 THEN acc ELSE TopUpOne(f[k - 1], candidates[k].pos, F)]
  BY <1>6, Zenon
<1>8. Passing(acc, candidates, F) = [k \in 0..Len(candidates) |->
               IF k = 0 THEN acc ELSE TopUpOne(Passing(acc, candidates, F)[k - 1], candidates[k].pos, F)]
  BY <1>7, Zenon DEF Passing
<1>9. Pass(acc, candidates, F) = Passing(acc, candidates, F)[Len(candidates)]
  BY DEF Pass, Passing
<1> DEFINE after == Passing(acc, candidates, F)
<1> HIDE DEF after
<1>10. after = [k \in 0..Len(candidates) |->
               IF k = 0 THEN acc ELSE TopUpOne(after[k - 1], candidates[k].pos, F)]
  BY <1>8 DEF after
<1>11. \A k \in 0..Len(candidates) :
               after[k] = IF k = 0 THEN acc ELSE TopUpOne(after[k - 1], candidates[k].pos, F)
  BY <1>10
<1> QED
  BY <1>9, <1>11 DEF after

(* Fewer shares would have done.                                           *)
LEMMA ManyMoreShares ==
  ASSUME NEW C, NEW F, NEW B \in Nat, NEW m \in Nat, NEW acc, Affordable(acc, m, B, C, F),
         NEW n \in Nat
  PROVE  Affordable(acc, m + n, B, C, F)
<1> DEFINE good == {k \in Nat : Affordable(acc, m + k, B, C, F)}
<1>1. 0 \in good
  OBVIOUS
<1>2. ASSUME NEW k \in Nat, k \in good
      PROVE  k + 1 \in good
  <2>1. Accounted(acc, m + k, B) /\ m + k \in Nat
    BY <1>2 DEF Affordable
  <2>2. Spent(acc.buys) \in Nat
    BY SpentNatural DEF Affordable, Purchases
  <2>3. Accounted(acc, (m + k) + 1, B)
    BY <2>1, <2>2, MoreShares
  <2>4. (m + k) + 1 = m + (k + 1)
    OBVIOUS
  <2> QED
    BY <2>3, <2>4 DEF Affordable
<1> HIDE DEF good
<1>3. n \in good
  BY <1>1, <1>2, NatInduct
<1> QED
  BY <1>3 DEF good

(* One pass adds six shares at most. *)
LEMMA PassKept ==
  ASSUME NEW C, \A p \in C : Priced(p), NEW cs \in Seq([pos : C, factor : 1..200]),
         Len(cs) <= MAX_CANDIDATES, NEW F \in Int, NEW B \in Nat, NEW m \in Nat,
         NEW acc, Affordable(acc, m, B, C, F)
  PROVE  Affordable(Pass(acc, cs, F), m + MAX_CANDIDATES, B, C, F)
<1> DEFINE L == Len(cs)
           after == Passing(acc, cs, F)
           good == {k \in Nat : k <= L => Affordable(after[k], m + k, B, C, F)}
<1>1. L \in Nat
  OBVIOUS
<1>2. /\ Pass(acc, cs, F) = after[L]
      /\ \A k \in 0..L : after[k] = IF k = 0 THEN acc ELSE TopUpOne(after[k - 1], cs[k].pos, F)
  BY PassingDef
<1>3. \A k \in 1..L : cs[k].pos \in C
  <2>1. DOMAIN cs = 1..L
    OBVIOUS
  <2> QED
    BY <2>1, CandidateLaws
<1> HIDE DEF after, L
<1>4. 0 \in good
  <2>1. after[0] = acc /\ m + 0 = m
    BY <1>1, <1>2
  <2> QED
    BY <2>1
<1>5. ASSUME NEW k \in Nat, k \in good
      PROVE  k + 1 \in good
  <2>1. SUFFICES ASSUME k + 1 <= L PROVE Affordable(after[k + 1], m + (k + 1), B, C, F)
    OBVIOUS
  <2>2. Affordable(after[k], m + k, B, C, F) /\ m + k \in Nat
    BY <1>1, <1>5, <2>1
  <2>3. k + 1 \in 1..L /\ k + 1 \in 0..L /\ k + 1 # 0 /\ (k + 1) - 1 = k
    BY <1>1, <2>1
  <2>4. after[k + 1] = TopUpOne(after[k], cs[k + 1].pos, F)
    BY <1>2, <2>3
  <2>5. cs[k + 1].pos \in C
    BY <1>3, <2>3
  <2>6. Affordable(TopUpOne(after[k], cs[k + 1].pos, F), (m + k) + 1, B, C, F)
    BY <2>2, <2>5, TopUpOneKept
  <2>7. (m + k) + 1 = m + (k + 1)
    OBVIOUS
  <2> QED
    BY <2>4, <2>6, <2>7
<1> HIDE DEF good
<1>6. L \in good
  BY <1>1, <1>4, <1>5, NatInduct
<1>7. Affordable(after[L], m + L, B, C, F)
  BY <1>1, <1>6 DEF good
<1> DEFINE d == MAX_CANDIDATES - L
<1>8. d \in Nat /\ (m + L) + d = m + MAX_CANDIDATES /\ m + L \in Nat
  BY <1>1 DEF L, MAX_CANDIDATES
<1> HIDE DEF d
<1>9. Affordable(after[L], (m + L) + d, B, C, F)
  BY <1>7, <1>8, ManyMoreShares
<1> QED
  BY <1>2, <1>8, <1>9

(* The three passes of phase 3. *)
LEMMA TopUpKept ==
  ASSUME NEW C, \A p \in C : Priced(p), NEW cs \in Seq([pos : C, factor : 1..200]),
         Len(cs) <= MAX_CANDIDATES, NEW F \in Int, NEW B \in Nat,
         NEW acc, Affordable(acc, 0, B, C, F)
  PROVE  Affordable(TopUp(acc, cs, F), TOP_UPS, B, C, F)
<1> DEFINE one == Pass(acc, cs, F)
           two == Pass(one, cs, F)
           three == Pass(two, cs, F)
<1>1. TopUp(acc, cs, F) = three
  BY DEF TopUp
<1>2. Affordable(one, 6, B, C, F)
  <2>1. 0 \in Nat /\ 0 + MAX_CANDIDATES = 6
    BY DEF MAX_CANDIDATES
  <2> QED
    BY <2>1, PassKept
<1> HIDE DEF one
<1>3. Affordable(two, 12, B, C, F)
  <2>1. 6 \in Nat /\ 6 + MAX_CANDIDATES = 12
    BY DEF MAX_CANDIDATES
  <2> QED
    BY <1>2, <2>1, PassKept
<1> HIDE DEF two
<1>4. Affordable(three, 18, B, C, F)
  <2>1. 12 \in Nat /\ 12 + MAX_CANDIDATES = 18
    BY DEF MAX_CANDIDATES
  <2> QED
    BY <1>3, <2>1, PassKept
<1>5. TOP_UPS = 18
  BY DEF TOP_UPS, MAX_CANDIDATES
<1> QED
  BY <1>1, <1>4, <1>5

-----------------------------------------------------------------------------
(* What a class is allocated *)

(* What a class gets for its budget B: purchases among C that cost what is *)
(* said, to half a cent a share, and no more than the budget, to a cent.   *)
Spending(a, B, C, F) ==
  /\ Purchases(a.buys, C, F)
  /\ a.spent \in Nat
  /\ 2 * Spent(a.buys) <= 2 * a.spent + TOP_UPS
  /\ 2 * a.spent <= 2 * Spent(a.buys) + TOP_UPS
  /\ Spent(a.buys) <= B + TOP_UPS
  /\ B = 0 => a.buys = << >>

(* No budget or no candidate, no purchase. *)
LEMMA NothingBought ==
  ASSUME NEW C, NEW F, NEW B \in Nat
  PROVE  Spending([buys |-> << >>, spent |-> 0], B, C, F)
<1>1. Purchases(<< >>, C, F)
  BY DEF Purchases, Bill
<1> QED
  BY <1>1, NothingSpent DEF Spending, TOP_UPS, MAX_CANDIDATES

(* What is spent is rounded once, at the end. *)
LEMMA SettledSpending ==
  ASSUME NEW C, NEW F, NEW B \in Nat \ {0}, NEW acc, Affordable(acc, TOP_UPS, B, C, F)
  PROVE  Spending(Settled(acc), B, C, F)
<1> DEFINE S == PRICE_SCALE
           X == acc.spent
           Q == acc.remaining
           x == Round(X, S)
           spent == Spent(acc.buys)
           bound == 2 * spent <= 2 * B + MAX_CANDIDATES
<1>1. S \in Nat \ {0} /\ X \in Nat /\ Q \in Int /\ spent \in Nat /\ TOP_UPS = 18 /\ MAX_CANDIDATES = 6
  BY RebalanceAssumption, SpentNatural DEF Affordable, Accounted, Purchases, TOP_UPS, MAX_CANDIDATES
<1>2. /\ 2 * (S * spent) <= 2 * X + 18 * S
      /\ 2 * X <= 2 * (S * spent) + 18 * S
      /\ 2 * (S * Q) <= 2 * (S * B) - 2 * X + 18 * S
      /\ Q >= 0 \/ bound
  BY <1>1 DEF Affordable, Accounted
<1> HIDE DEF S
<1>3. x \in Int /\ 2 * (S * x) <= 2 * X + S /\ 2 * (S * x) > 2 * X - S
  <2>1. X \in Int
    BY <1>1
  <2> QED
    BY <1>1, <2>1, RoundLaws
<1>4. /\ Settled(acc).buys = acc.buys /\ Settled(acc).spent = x
  BY DEF Settled, S
<1> HIDE DEF x, X, Q, spent
<1> DEFINE a == S * spent
           b == S * x
           c == S * B
           q == S * Q
<1>5. a \in Int /\ b \in Int /\ c \in Int /\ q \in Int
  BY <1>1, <1>3
<1>6. /\ 2 * a <= 2 * X + 18 * S /\ 2 * X <= 2 * a + 18 * S /\ 2 * q <= 2 * c - 2 * X + 18 * S
      /\ 2 * b <= 2 * X + S /\ 2 * b > 2 * X - S
  BY <1>2, <1>3
<1>7. S * (2 * spent) = 2 * a /\ S * (2 * x + 18) = 2 * b + 18 * S
  BY <1>1, <1>3, Z3
<1>8. x >= 0
  <2>1. SUFFICES ASSUME x <= -1 PROVE FALSE
    BY <1>3
  <2>2. b <= 0 - S
    BY <1>1, <1>3, <2>1, Z3
  <2> HIDE DEF a, b, c, q
  <2> QED
    BY <1>1, <1>5, <1>6, <2>2
<1>9. 2 * spent <= 2 * x + 18
  <2>1. SUFFICES ASSUME 2 * spent >= 2 * x + 20 PROVE FALSE
    BY <1>1, <1>3
  <2>2. spent >= x + 10
    BY <1>1, <1>3, <2>1
  <2>3. a >= S * (x + 10) /\ S * (x + 10) = b + 10 * S
    BY <1>1, <1>3, <2>2, Z3
  <2> HIDE DEF a, b, c, q
  <2> QED
    BY <1>1, <1>5, <1>6, <2>3
<1>10. 2 * x <= 2 * spent + 18
  <2>1. SUFFICES ASSUME 2 * x >= 2 * spent + 20 PROVE FALSE
    BY <1>1, <1>3
  <2>2. x >= spent + 10
    BY <1>1, <1>3, <2>1
  <2>3. b >= S * (spent + 10) /\ S * (spent + 10) = a + 10 * S
    BY <1>1, <1>3, <2>2, Z3
  <2> HIDE DEF a, b, c, q
  <2> QED
    BY <1>1, <1>5, <1>6, <2>3
<1>11. spent <= B + 18
  <2>1. CASE Q >= 0
    <3>1. SUFFICES ASSUME spent >= B + 19 PROVE FALSE
      BY <1>1
    <3>2. a >= S * (B + 19) /\ S * (B + 19) = c + 19 * S /\ q >= 0
      BY <1>1, <2>1, <3>1, Z3
    <3> HIDE DEF a, b, c, q
    <3> QED
      BY <1>1, <1>5, <1>6, <3>2
  <2>2. CASE bound
    BY <1>1, <2>2
  <2> QED
    BY <1>2, <2>1, <2>2
<1>12. Purchases(acc.buys, C, F)
  BY DEF Affordable
<1> QED
  BY <1>1, <1>3, <1>4, <1>8, <1>9, <1>10, <1>11, <1>12 DEF Spending, spent

(* _allocate_budget keeps to its budget and its candidates. *)
LEMMA AllocationLaws ==
  ASSUME NEW C, \A p \in C : Priced(p), NEW ps \in Seq(C), NEW B \in Nat, NEW sectors, NEW F \in Int
  PROVE  Spending(_allocate_budget(ps, B, sectors, F), B, C, F)
<1> DEFINE cs == Candidates(ps, B, sectors, F)
<1>1. cs \in Seq([pos : C, factor : 1..200]) /\ Len(cs) <= MAX_CANDIDATES
  <2>1. \A p \in C : p.score \in Maybe(0..100)
    BY DEF Priced
  <2>2. B \in Int
    OBVIOUS
  <2> QED
    BY <2>1, <2>2, CandidatesAre
<1>2. _allocate_budget(ps, B, sectors, F) = Allocated(cs, B, F)
  BY DEF _allocate_budget
<1> HIDE DEF cs
<1>3. CASE B <= 0 \/ cs = << >>
  <2>1. Allocated(cs, B, F) = [buys |-> << >>, spent |-> 0]
    BY <1>3 DEF Allocated
  <2> QED
    BY <1>2, <2>1, NothingBought
<1>4. CASE ~ (B <= 0 \/ cs = << >>)
  <2> DEFINE bought == Snap(cs, B, F)
             acc == [buys |-> bought, spent |-> Spent(bought) * PRICE_SCALE,
                     remaining |-> B - Spent(bought)]
             after == TopUp(acc, cs, F)
  <2>1. Allocated(cs, B, F) = Settled(after)
    BY <1>4 DEF Allocated, AfterSnap
  <2>2. Purchases(bought, C, F) /\ 2 * Spent(bought) <= 2 * B + MAX_CANDIDATES
    BY <1>1, <1>4, SnapLaws
  <2> HIDE DEF bought
  <2>3. Spent(bought) \in Nat
    BY <2>2, SpentNatural DEF Purchases
  <2>4. Affordable(acc, 0, B, C, F)
    <3> DEFINE S == PRICE_SCALE
               s == Spent(bought)
    <3>1. S \in Nat /\ s \in Nat /\ s * S \in Nat /\ B - s \in Int
      BY <2>3, RebalanceAssumption
    <3>2. S * s = s * S /\ S * (B - s) = S * B - s * S /\ S * B \in Int /\ 0 * S = 0
      BY <3>1, Z3
    <3>3. 2 * s <= 2 * B + MAX_CANDIDATES
      BY <2>2
    <3> HIDE DEF S, s
    <3>4. /\ s * S \in Nat /\ B - s \in Int
          /\ 2 * (S * s) <= 2 * (s * S) + 0 * S
          /\ 2 * (s * S) <= 2 * (S * s) + 0 * S
          /\ 2 * (S * (B - s)) <= 2 * (S * B) - 2 * (s * S) + 0 * S
      <4> DEFINE x == s * S
                 y == S * B
      <4>1. /\ S * s = x /\ S * (B - s) = y - x /\ y \in Int /\ 0 * S = 0 /\ x \in Nat
        BY <3>1, <3>2
      <4> HIDE DEF x, y
      <4>2. 2 * x <= 2 * x + 0 /\ 2 * (y - x) <= 2 * y - 2 * x + 0
        BY <4>1
      <4> QED
        BY <3>1, <4>1, <4>2 DEF x, y
    <3>5. acc.buys = bought /\ acc.spent = s * S /\ acc.remaining = B - s
      BY DEF s, S
    <3> HIDE DEF acc
    <3> QED
      BY <2>2, <3>3, <3>4, <3>5 DEF Affordable, Accounted, s, S
  <2> HIDE DEF acc
  <2>5. Affordable(after, TOP_UPS, B, C, F)
    BY <1>1, <2>4, TopUpKept
  <2>6. B \in Nat \ {0}
    BY <1>4
  <2> HIDE DEF after
  <2> QED
    BY <1>2, <2>1, <2>5, <2>6, SettledSpending
<1> QED
  BY <1>3, <1>4

(* The budgets of the two classes: together they are the contribution, to  *)
(* a cent, and neither exceeds what its class lacks.                       *)
LEMMA BudgetLaws ==
  ASSUME NEW amount \in Nat, NEW total \in Nat, NEW etfs, NEW stocks,
         ClassValue(etfs) \in Nat, ClassValue(stocks) \in Nat
  PROVE  LET b == _split_budget_by_drift(amount, total, etfs, stocks)
             Under(budget, held, pct) ==
               budget > 0 => ClassValue(held) + budget <= TargetValue(pct, total + amount)
         IN  /\ b.etf \in Nat /\ b.stock \in Nat /\ b.etf + b.stock <= amount + 1
             /\ ClassValue(etfs) + ClassValue(stocks) <= total =>
                  /\ Under(b.etf, etfs, TARGET_ETF_PCT)
                  /\ Under(b.stock, stocks, TARGET_STOCK_PCT)
<1> DEFINE F == total + amount
           E == TargetValue(70, F)
           K == TargetValue(30, F)
           u == ClassValue(etfs)
           v == ClassValue(stocks)
           g == AtLeast0(E - u)
           h == AtLeast0(K - v)
           T == g + h
           r == Round(amount * g, T)
           s == Round(amount * h, T)
           x == Percent(70, amount)
           y == Percent(30, amount)
           b == _split_budget_by_drift(amount, total, etfs, stocks)
<1>1. F \in Nat /\ amount \in Nat /\ total \in Nat /\ F = total + amount /\ u \in Nat /\ v \in Nat
  OBVIOUS
<1>2. b = IF T > 0 THEN [etf |-> Min({g, r}), stock |-> Min({h, s})]
          ELSE [etf |-> x, stock |-> y]
  BY DEF _split_budget_by_drift, TARGET_ETF_PCT, TARGET_STOCK_PCT
<1>3. /\ E \in Int /\ K \in Int /\ 70 * F < 100 * E + 100 /\ 30 * F < 100 * K + 100
  <2>1. 70 \in Nat /\ 30 \in Nat /\ F \in Int
    BY <1>1
  <2> HIDE DEF F
  <2> QED
    BY <2>1, PercentLaws DEF TargetValue
<1>4. /\ x \in Int /\ y \in Int /\ 100 * x <= 70 * amount /\ 100 * y <= 30 * amount
      /\ 70 * amount < 100 * x + 100 /\ 30 * amount < 100 * y + 100
  <2>1. 70 \in Nat /\ 30 \in Nat /\ amount \in Int
    BY <1>1
  <2> QED
    BY <2>1, PercentLaws
<1> HIDE DEF E, K, u, v, F, x, y
<1>5. /\ g = (IF 0 >= E - u THEN 0 ELSE E - u) /\ h = (IF 0 >= K - v THEN 0 ELSE K - v)
  <2>1. 0 \in Int /\ E - u \in Int /\ K - v \in Int
    BY <1>1, <1>3
  <2> QED
    BY <2>1, MaxOfTwo DEF AtLeast0
<1> HIDE DEF g, h
<1>6. g \in Nat /\ h \in Nat /\ (g > 0 => g = E - u) /\ (h > 0 => h = K - v)
      /\ E - u <= g /\ K - v <= h
  BY <1>1, <1>3, <1>5
<1>7. /\ b.etf \in Nat /\ b.stock \in Nat /\ b.etf + b.stock <= amount + 1
      /\ u + v <= total => /\ b.etf > 0 => u + b.etf <= E
                           /\ b.stock > 0 => v + b.stock <= K
  <2>1. CASE T > 0
    <3>1. T \in Nat \ {0} /\ amount * g \in Nat /\ amount * h \in Nat
      BY <1>1, <1>6, <2>1
    <3>2. b.etf = Min({g, r}) /\ b.stock = Min({h, s})
      <4> HIDE DEF r, s
      <4> QED
        BY <1>2, <2>1
    <3>3. amount * g + amount * h = T * amount
      BY <1>1, <1>6, Z3
    <3> HIDE DEF T
    <3> DEFINE p == amount * g
               q == amount * h
    <3>4. p \in Nat /\ q \in Nat /\ p + q = T * amount
      BY <3>1, <3>3
    <3>5. r = Round(p, T) /\ s = Round(q, T)
      OBVIOUS
    <3> HIDE DEF p, q, r, s
    <3>6. /\ r \in Int /\ 2 * (T * r) <= 2 * p + T /\ 2 * (T * r) > 2 * p - T
          /\ s \in Int /\ 2 * (T * s) <= 2 * q + T /\ 2 * (T * s) > 2 * q - T
      <4>1. p \in Int /\ q \in Int
        BY <3>4
      <4> QED
        BY <3>1, <3>4, <3>5, <4>1, RoundLaws
    <3>7. r >= 0 /\ s >= 0
      <4>1. ASSUME NEW z \in Int, NEW w \in Nat, 2 * (T * z) > 2 * w - T
            PROVE  z >= 0
        <5>1. SUFFICES ASSUME z <= -1 PROVE FALSE
          OBVIOUS
        <5>2. T * z <= 0 - T /\ T * z \in Int
          BY <3>1, <5>1, Z3
        <5> QED
          BY <3>1, <4>1, <5>2
      <4> QED
        BY <3>4, <3>6, <4>1
    <3>8. r + s <= amount + 1
      <4>1. T * r \in Int /\ T * s \in Int /\ T * (r + s) = T * r + T * s
            /\ T * (amount + 1) = T * amount + T
        BY <1>1, <3>1, <3>6, Z3
      <4> DEFINE a == T * r
                 c == T * s
                 e == T * amount
      <4>2. a \in Int /\ c \in Int /\ e \in Int /\ 2 * a <= 2 * p + T /\ 2 * c <= 2 * q + T /\ p + q = e
        BY <1>1, <3>1, <3>4, <3>6, <4>1
      <4> HIDE DEF a, c, e
      <4>3. a + c <= e + T
        BY <3>1, <3>4, <4>2
      <4>4. T * (r + s) <= T * (amount + 1)
        BY <4>1, <4>3 DEF a, c, e
      <4>5. r + s \in Int /\ amount + 1 \in Int
        BY <1>1, <3>6
      <4> QED
        BY <3>1, <4>4, <4>5, Cancelled
    <3>9. /\ Min({g, r}) = (IF g <= r THEN g ELSE r) /\ Min({h, s}) = (IF h <= s THEN h ELSE s)
      <4>1. g \in Int /\ h \in Int
        BY <1>6
      <4> QED
        BY <3>6, <4>1, MinOfTwo
    <3>10. b.etf \in Nat /\ b.etf <= g /\ b.etf <= r /\ b.stock \in Nat /\ b.stock <= h /\ b.stock <= s
      BY <1>6, <3>2, <3>6, <3>7, <3>9
    <3> HIDE DEF b
    <3> QED
      BY <1>1, <1>3, <1>6, <3>6, <3>8, <3>10
  <2>2. CASE ~ (T > 0)
    <3>1. g = 0 /\ h = 0
      BY <1>6, <2>2
    <3>2. b.etf = x /\ b.stock = y
      <4> HIDE DEF r, s
      <4> QED
        BY <1>2, <2>2
    <3>3. x >= 0 /\ y >= 0 /\ x + y <= amount + 1
      BY <1>1, <1>4
    <3>4. u + v <= total => amount <= 1
      BY <1>1, <1>3, <1>6, <3>1
    <3>5. amount <= 1 => x = 0 /\ y = 0
      BY <1>1, <1>4, <3>3
    <3> HIDE DEF b
    <3> QED
      BY <1>1, <1>4, <3>2, <3>3, <3>4, <3>5
  <2> QED
    BY <2>1, <2>2
<1> QED
  BY <1>7 DEF E, K, F, u, v, TARGET_ETF_PCT, TARGET_STOCK_PCT

-----------------------------------------------------------------------------
(* The classes of a portfolio *)

Values(ps) == [i \in DOMAIN ps |-> OrZero(ps[i].value)]

(* A position without a value counts as worth nothing. *)
LEMMA TotalNatural ==
  ASSUME NEW ps, List(ps), \A i \in DOMAIN ps : ps[i].value \in Maybe(Nat)
  PROVE  /\ \A i \in DOMAIN ps : OrZero(ps[i].value) \in Nat
         /\ TotalValue(ps) \in Nat
<1>1. \A x \in Maybe(Nat) : OrZero(x) \in Nat
  BY DEF Maybe, OrZero
<1>2. \A i \in DOMAIN ps : OrZero(ps[i].value) \in Nat
  BY <1>1
<1>3. TotalValue(ps) = SumFunctionOnSet(Values(ps), DOMAIN ps)
  BY DEF TotalValue, SumFunction, Values
<1>4. IsFiniteSet(DOMAIN ps)
  BY PlacesFinite DEF List
<1>5. \A i \in DOMAIN ps : Values(ps)[i] \in Nat
  BY <1>2 DEF Values
<1>6. SumFunctionOnSet(Values(ps), DOMAIN ps) \in Nat
  BY <1>4, <1>5, SumOfNaturals
<1> QED
  BY <1>2, <1>3, <1>6

(* The value of a class is the sum over the places of its positions. *)
LEMMA ValueOfKept ==
  ASSUME NEW ps, List(ps), \A i \in DOMAIN ps : ps[i].value \in Nat, NEW kept \in SUBSET DOMAIN ps
  PROVE  ClassValue(ItemsAt(ps, kept)) = SumFunctionOnSet(Values(ps), kept)
<1> DEFINE T == Range(ps)
           after == ItemsAt(ps, kept)
           v == Values(ps)
           w == [n \in DOMAIN after |-> after[n].value]
           R == DOMAIN after
<1>1. ps \in Seq(T)
  BY DEF List
<1> HIDE DEF T
<1>2. PICK from \in [R -> kept] :
            /\ \A n \in R : after[n] = ps[from[n]]
            /\ \A m, n \in R : from[m] = from[n] => m = n
            /\ \A k \in kept : \E n \in R : from[n] = k
  BY <1>1, Origin
<1>3. after \in Seq(T)
  BY <1>1, ItemsStay
<1>4. ClassValue(after) = SumFunctionOnSet(w, R)
  BY DEF ClassValue, SumFunction
<1> HIDE DEF after
<1>5. IsFiniteSet(R)
  BY <1>3, PlacesFinite
<1>6. IsFiniteSet(kept)
  BY <1>1, PositionsFinite
<1>7. \A k \in kept : v[k] = ps[k].value /\ v[k] \in Int
  <2>1. \A n \in Nat : n # NULL /\ n \in Int
    <3>1. NULL \notin Int
      BY ScoringAssumption
    <3>2. \A n \in Nat : n \in Int
      OBVIOUS
    <3> QED
      BY <3>1, <3>2, Zenon
  <2>2. \A n \in Nat : OrZero(n) = n
    BY <2>1 DEF OrZero
  <2>3. \A k \in kept : v[k] = OrZero(ps[k].value) /\ ps[k].value \in Nat
    BY DEF Values
  <2> QED
    BY <2>1, <2>2, <2>3
<1>8. \A n \in R : w[n] = v[from[n]]
  BY <1>2, <1>7
<1> HIDE DEF v, w, R
<1>9. SumFunctionOnSet(w, R) = SumFunctionOnSet(v, kept)
  BY <1>2, <1>5, <1>6, <1>7, <1>8, SumReindexed
<1> QED
  BY <1>4, <1>9 DEF after, v

(* Two classes are worth no more than the portfolio. *)
LEMMA ValuesTogether ==
  ASSUME NEW ps, List(ps), \A i \in DOMAIN ps : ps[i].value \in Nat,
         NEW one \in SUBSET DOMAIN ps, NEW two \in SUBSET DOMAIN ps, one \cap two = {}
  PROVE  /\ ClassValue(ItemsAt(ps, one)) \in Nat /\ ClassValue(ItemsAt(ps, two)) \in Nat
         /\ ClassValue(ItemsAt(ps, one)) + ClassValue(ItemsAt(ps, two)) <= TotalValue(ps)
<1> DEFINE D == DOMAIN ps
           v == Values(ps)
<1>1. IsFiniteSet(D)
  BY PlacesFinite DEF List
<1>2. \A i \in D : v[i] \in Nat
  BY ScoringAssumption DEF Values, OrZero
<1>3. TotalValue(ps) = SumFunctionOnSet(v, D)
  BY DEF TotalValue, SumFunction, Values
<1>4. /\ ClassValue(ItemsAt(ps, one)) = SumFunctionOnSet(v, one)
      /\ ClassValue(ItemsAt(ps, two)) = SumFunctionOnSet(v, two)
  BY ValueOfKept
<1> HIDE DEF v
<1>5. one \in SUBSET D /\ two \in SUBSET D /\ one \cup two \in SUBSET D
  OBVIOUS
<1> HIDE DEF D
<1>6. IsFiniteSet(one) /\ IsFiniteSet(two)
  BY <1>1, <1>5, FS_Subset
<1>7. SumFunctionOnSet(v, one) \in Nat /\ SumFunctionOnSet(v, two) \in Nat
  <2>1. (\A i \in one : v[i] \in Nat) /\ (\A i \in two : v[i] \in Nat)
    BY <1>2, <1>5
  <2> QED
    BY <1>6, <2>1, SumOfNaturals
<1>8. SumFunctionOnSet(v, one \cup two) = SumFunctionOnSet(v, one) + SumFunctionOnSet(v, two)
  <2>1. \A i \in D : v[i] \in Int
    BY <1>2
  <2> QED
    BY <1>1, <1>5, <2>1, SumUnion
<1>9. SumFunctionOnSet(v, one \cup two) <= SumFunctionOnSet(v, D)
  BY <1>1, <1>2, <1>5, SumOfNaturals
<1> QED
  BY <1>3, <1>4, <1>7, <1>8, <1>9

(* What can be bought of a class: ETFs, and what is not one.               *)
Buyables(ps) == {p \in Range(ps) : Priced(p)}
Etfs(ps) == {p \in Buyables(ps) : p.kind = "ETF"}
Stocks(ps) == {p \in Buyables(ps) : p.kind # "ETF"}

SoundList(ps) == List(ps) /\ \A i \in DOMAIN ps : Sound(ps[i])

(* _partition_positions: both classes can be bought, and are part of the   *)
(* portfolio.                                                              *)
LEMMA ClassLaws ==
  ASSUME NEW ps, SoundList(ps), Valued(ps)
  PROVE  LET class == _partition_positions(ps)
         IN  /\ class.etfs \in Seq(Etfs(ps)) /\ class.stocks \in Seq(Stocks(ps))
             /\ ClassValue(class.etfs) \in Nat /\ ClassValue(class.stocks) \in Nat
             /\ ClassValue(class.etfs) + ClassValue(class.stocks) <= TotalValue(ps)
<1> DEFINE Buyable(p) == _price_per_share_eur(p) # NULL /\ p.quantity > 0
           one == {i \in DOMAIN ps : Buyable(ps[i]) /\ ps[i].kind = "ETF"}
           two == {i \in DOMAIN ps : Buyable(ps[i]) /\ ps[i].kind # "ETF"}
           class == _partition_positions(ps)
<1>1. class.etfs = ItemsAt(ps, one) /\ class.stocks = ItemsAt(ps, two)
  BY DEF _partition_positions, Those
<1>2. \A i \in DOMAIN ps : Sound(ps[i]) /\ ps[i].value # NULL /\ ps[i].value \in Nat
  BY DEF SoundList, Valued, Sound, Maybe
<1>3. \A i \in one \cup two : Priced(ps[i]) /\ i \in DOMAIN ps
  BY <1>2, PriceLaws
<1>4. \A i \in DOMAIN ps : ps[i] \in Range(ps)
  BY DEF Range
<1>5. (\A i \in one : ps[i] \in Etfs(ps)) /\ (\A i \in two : ps[i] \in Stocks(ps))
  BY <1>3, <1>4 DEF Etfs, Stocks, Buyables
<1>6. one \in SUBSET DOMAIN ps /\ two \in SUBSET DOMAIN ps /\ one \cap two = {}
  OBVIOUS
<1>7. ps \in Seq(Range(ps))
  BY DEF SoundList, List
<1> HIDE DEF one, two, class
<1>8. ASSUME NEW kept \in SUBSET DOMAIN ps, NEW C, \A i \in kept : ps[i] \in C
      PROVE  ItemsAt(ps, kept) \in Seq(C)
  <2> DEFINE after == ItemsAt(ps, kept)
  <2>1. after \in Seq(Range(ps)) /\ \A n \in DOMAIN after : \E k \in kept : after[n] = ps[k]
    BY <1>7, ItemsStay
  <2> HIDE DEF after
  <2>2. DOMAIN after = 1..Len(after) /\ Len(after) \in Nat /\ after = [n \in DOMAIN after |-> after[n]]
    BY <2>1
  <2>3. \A n \in DOMAIN after : after[n] \in C
    BY <1>8, <2>1
  <2>4. after \in Seq(C)
    BY <2>2, <2>3
  <2> QED
    BY <2>4 DEF after
<1>9. class.etfs \in Seq(Etfs(ps)) /\ class.stocks \in Seq(Stocks(ps))
  BY <1>1, <1>5, <1>6, <1>8
<1>10. /\ ClassValue(class.etfs) \in Nat /\ ClassValue(class.stocks) \in Nat
       /\ ClassValue(class.etfs) + ClassValue(class.stocks) <= TotalValue(ps)
  BY <1>1, <1>2, <1>6, ValuesTogether DEF SoundList
<1> QED
  BY <1>9, <1>10 DEF class

-----------------------------------------------------------------------------
(* The plan *)

SymbolsDiffer(ps) == \A i, j \in DOMAIN ps : ps[i].symbol = ps[j].symbol => i = j

Reconciles(p) ==
  /\ p.amount \in Nat /\ p.hold_reserve \in 0..p.amount
  /\ Magnitude(Spent(p.buys) + p.hold_reserve - p.amount) <= 1 + 2 * TOP_UPS

UnderCap(p) ==
  \A b \in Range(p.buys) : b.value + b.spend <= Percent(POSITION_THRESHOLD, p.total + p.amount) + 1

SpentOn(p, kind) == Spent(Those(p.buys, LAMBDA b : b.kind = kind))

WithinTarget(p, held, kind, pct) ==
  SpentOn(p, kind) > 0 =>
    ClassValue(held) + SpentOn(p, kind) <= TargetValue(pct, p.total + p.amount) + TOP_UPS

Planned(p, ps) ==
  LET class == _partition_positions(ps)
  IN  /\ Reconciles(p)
      /\ SymbolsDiffer(ps) => UnderCap(p)
      /\ p.total >= TotalValue(ps) =>
           /\ WithinTarget(p, class.etfs, "ETF", TARGET_ETF_PCT)
           /\ WithinTarget(p, class.stocks, "STOCK", TARGET_STOCK_PCT)

(* No class has a negative bill. *)
LEMMA SpentOnNatural ==
  ASSUME NEW p, Bill(p.buys), NEW kind
  PROVE  SpentOn(p, kind) \in Nat
<1> DEFINE kept == {k \in DOMAIN p.buys : p.buys[k].kind = kind}
<1>1. SpentOn(p, kind) = Spent(ItemsAt(p.buys, kept)) /\ kept \in SUBSET DOMAIN p.buys
  BY DEF SpentOn, Those
<1> HIDE DEF kept
<1> QED
  BY <1>1, SpentOfKept, SpentNatural

(* A plan without purchases keeps every promise. *)
LEMMA EmptyPlanned ==
  ASSUME NEW amount \in Nat, NEW ps
  PROVE  Planned(NoPlan(amount), ps) /\ Reconciles(NoPlan(amount)) /\ UnderCap(NoPlan(amount))
<1> DEFINE p == NoPlan(amount)
<1>1. p.buys = << >> /\ p.hold_reserve = amount /\ p.amount = amount
  BY DEF NoPlan
<1> HIDE DEF p
<1>2. ASSUME NEW kind
      PROVE  SpentOn(p, kind) = 0
  <2> DEFINE kept == {k \in DOMAIN << >> : << >>[k].kind = kind}
  <2>1. SpentOn(p, kind) = Spent(ItemsAt(<< >>, kept))
    BY <1>1 DEF SpentOn, Those
  <2>2. Bill(<< >>) /\ kept \in SUBSET DOMAIN << >>
    BY DEF Bill
  <2> HIDE DEF kept
  <2>3. Spent(ItemsAt(<< >>, kept)) <= Spent(<< >>) /\ Spent(ItemsAt(<< >>, kept)) \in Nat
    BY <2>2, SpentOfKept, SpentNatural
  <2> QED
    BY <2>1, <2>3, NothingSpent
<1>3. Reconciles(p)
  <2>1. Magnitude(Spent(p.buys) + p.hold_reserve - p.amount) = Magnitude(0)
    BY <1>1, NothingSpent
  <2>2. Magnitude(0) = 0
    <3>1. Max({0, -0}) = 0
      BY MaxOfTwo
    <3> QED
      BY <3>1 DEF Magnitude
  <2> QED
    BY <1>1, <2>1, <2>2 DEF Reconciles, TOP_UPS, MAX_CANDIDATES
<1>4. UnderCap(p)
  BY <1>1 DEF UnderCap, Range
<1>5. \A held, kind, pct : WithinTarget(p, held, kind, pct)
  BY <1>2 DEF WithinTarget
<1> QED
  BY <1>3, <1>4, <1>5 DEF Planned, p

(* A bound from both sides. *)
LEMMA MagnitudeAtMost ==
  ASSUME NEW x \in Int, NEW m \in Int, x <= m, -x <= m
  PROVE  Magnitude(x) <= m
<1>1. Max({x, -x}) = IF x >= -x THEN x ELSE -x
  <2>1. -x \in Int
    OBVIOUS
  <2> QED
    BY <2>1, MaxOfTwo
<1> QED
  BY <1>1 DEF Magnitude

(* The parts of a bill of two classes.                                     *)
LEMMA SpentOnClass ==
  ASSUME NEW one, Bill(one), NEW two, Bill(two),
         \A k \in DOMAIN one : one[k].kind = "ETF", \A k \in DOMAIN two : two[k].kind # "ETF",
         NEW p, p.buys = one \o two
  PROVE  SpentOn(p, "ETF") <= Spent(one) /\ SpentOn(p, "STOCK") <= Spent(two)
<1> DEFINE both == one \o two
           L == Len(one)
           M == Len(two)
           Of(kind) == {k \in DOMAIN both : both[k].kind = kind}
           v == Spends(both)
<1>1. /\ Bill(both) /\ DOMAIN both = (1..L) \cup ((L + 1)..(L + M))
      /\ SumFunctionOnSet(v, 1..L) = Spent(one)
      /\ SumFunctionOnSet(v, (L + 1)..(L + M)) = Spent(two)
  BY SpentTogether
<1>2. /\ DOMAIN one = 1..L /\ L \in Nat /\ DOMAIN two = 1..M /\ M \in Nat
      /\ \A k \in 1..L : both[k] = one[k]
      /\ \A k \in (L + 1)..(L + M) : both[k] = two[k - L]
  <2>1. one \in Seq(Range(one)) /\ two \in Seq(Range(two))
    BY DEF Bill
  <2> QED
    BY <2>1
<1>3. \A kind : SpentOn(p, kind) = SumFunctionOnSet(v, Of(kind))
  <2>1. ASSUME NEW kind
        PROVE  SpentOn(p, kind) = SumFunctionOnSet(v, Of(kind))
    <3>1. SpentOn(p, kind) = Spent(ItemsAt(both, Of(kind)))
      BY DEF SpentOn, Those
    <3>2. Of(kind) \in SUBSET DOMAIN both
      OBVIOUS
    <3> HIDE DEF both, Of
    <3> QED
      BY <1>1, <3>1, <3>2, SpentOfKept DEF v
  <2> QED
    BY <2>1
<1> HIDE DEF L, M
<1>4. Of("ETF") \subseteq 1..L
  <2>1. \A k \in (L + 1)..(L + M) : k - L \in 1..M
    BY <1>2
  <2>2. \A k \in (L + 1)..(L + M) : both[k].kind # "ETF"
    BY <1>2, <2>1
  <2> HIDE DEF both
  <2> QED
    BY <1>1, <2>2
<1>5. Of("STOCK") \subseteq (L + 1)..(L + M)
  <2>1. \A k \in 1..L : both[k].kind = "ETF"
    BY <1>2
  <2> HIDE DEF both
  <2> QED
    BY <1>1, <2>1
<1>6. IsFiniteSet(DOMAIN both) /\ \A k \in DOMAIN both : v[k] \in Nat
  BY <1>1, PlacesFinite DEF Bill, Spends
<1> HIDE DEF both, v, Of
<1>7. ASSUME NEW S \in SUBSET DOMAIN both, NEW R \in SUBSET S
      PROVE  SumFunctionOnSet(v, R) <= SumFunctionOnSet(v, S)
  <2>1. IsFiniteSet(S) /\ \A k \in S : v[k] \in Nat
    BY <1>6, FS_Subset
  <2> QED
    BY <2>1, SumOfNaturals
<1>8. 1..L \in SUBSET DOMAIN both /\ (L + 1)..(L + M) \in SUBSET DOMAIN both
  BY <1>1
<1>9. SumFunctionOnSet(v, Of("ETF")) <= SumFunctionOnSet(v, 1..L)
  BY <1>4, <1>7, <1>8
<1>10. SumFunctionOnSet(v, Of("STOCK")) <= SumFunctionOnSet(v, (L + 1)..(L + M))
  BY <1>5, <1>7, <1>8
<1> QED
  BY <1>1, <1>3, <1>9, <1>10

(* What two classes may spend and what was asked for.                      *)
LEMMA BothReconcile ==
  ASSUME NEW e, NEW s, NEW E, NEW K, NEW F, NEW A \in Nat, NEW B \in Nat, NEW amount \in Nat,
         Spending(e, A, E, F), Spending(s, B, K, F), A + B <= amount + 1,
         NEW p, p.buys = e.buys \o s.buys, p.amount = amount,
         p.hold_reserve = AtLeast0(amount - e.spent - s.spent)
  PROVE  Reconciles(p)
<1> DEFINE x == Spent(e.buys)
           y == Spent(s.buys)
           hold == p.hold_reserve
           c == e.spent
           d == s.spent
           left == amount - c - d
<1>1. Bill(e.buys) /\ Bill(s.buys)
  BY DEF Spending, Purchases
<1>2. Spent(p.buys) = x + y
  BY <1>1, SpentTogether
<1>3. x \in Nat /\ y \in Nat
  BY <1>1, SpentNatural
<1>4. /\ c \in Nat /\ d \in Nat
      /\ 2 * x <= 2 * c + 18 /\ 2 * c <= 2 * x + 18 /\ x <= A + 18
      /\ 2 * y <= 2 * d + 18 /\ 2 * d <= 2 * y + 18 /\ y <= B + 18
  BY DEF Spending, TOP_UPS, MAX_CANDIDATES
<1>5. left \in Int /\ hold = IF 0 >= left THEN 0 ELSE left
  <2>1. left \in Int /\ 0 \in Int
    BY <1>4
  <2> QED
    BY <2>1, MaxOfTwo DEF AtLeast0
<1> HIDE DEF x, y, c, d, hold
<1>6. hold \in 0..amount
  BY <1>4, <1>5
<1> DEFINE rest == x + y + hold - amount
<1>7. rest \in Int /\ rest <= 37 /\ -rest <= 37
  BY <1>3, <1>4, <1>5, <1>6
<1> HIDE DEF rest
<1>8. Magnitude(rest) <= 37
  <2>1. 37 \in Int
    OBVIOUS
  <2> QED
    BY <1>7, <2>1, MagnitudeAtMost
<1>9. rest = Spent(p.buys) + p.hold_reserve - p.amount
  BY <1>2 DEF rest, hold
<1> QED
  BY <1>6, <1>8, <1>9 DEF Reconciles, hold, TOP_UPS, MAX_CANDIDATES

(* Different symbols in the portfolio are different among the candidates.  *)
LEMMA CandidatesApart ==
  ASSUME NEW ps, SymbolsDiffer(ps)
  PROVE  Apart(Etfs(ps)) /\ Apart(Stocks(ps))
<1>1. \A p, q \in Range(ps) : p.symbol = q.symbol => p = q
  BY DEF Range, SymbolsDiffer
<1> QED
  BY <1>1 DEF Apart, Etfs, Stocks, Buyables

(* plan_contribution keeps its promises for any portfolio, total and       *)
(* amount.                                                                 *)
LEMMA PlanLaws ==
  ASSUME NEW ps, SoundList(ps), NEW total \in Int, NEW amount \in Nat,
         plan_contribution(ps, total, amount) # NULL
  PROVE  Planned(plan_contribution(ps, total, amount), ps)
<1> DEFINE p == plan_contribution(ps, total, amount)
           class == _partition_positions(ps)
           sectors == [s \in {ps[i].sector : i \in DOMAIN ps} |-> SectorValue(ps, s)]
           budget == _split_budget_by_drift(amount, total, class.etfs, class.stocks)
           F == total + amount
           e == _allocate_budget(class.etfs, budget.etf, sectors, F)
           s == _allocate_budget(class.stocks, budget.stock, sectors, F)
<1>1. CASE amount <= 0 \/ ps = << >> \/ total <= 0
  <2>1. p = NoPlan(amount)
    BY <1>1 DEF plan_contribution
  <2> QED
    BY <2>1, EmptyPlanned
<1>2. CASE ~ (amount <= 0 \/ ps = << >> \/ total <= 0)
  <2>1. Valued(ps) /\ p = PlanOf(e, s, class.excluded, total, amount)
    BY <1>2 DEF plan_contribution, PlanWithin
  <2>2. total \in Nat /\ F \in Int
    BY <1>2
  <2>3. /\ class.etfs \in Seq(Etfs(ps)) /\ class.stocks \in Seq(Stocks(ps))
        /\ ClassValue(class.etfs) \in Nat /\ ClassValue(class.stocks) \in Nat
        /\ ClassValue(class.etfs) + ClassValue(class.stocks) <= TotalValue(ps)
    BY <2>1, ClassLaws
  <2> HIDE DEF class
  <2>5. /\ budget.etf \in Nat /\ budget.stock \in Nat /\ budget.etf + budget.stock <= amount + 1
        /\ ClassValue(class.etfs) + ClassValue(class.stocks) <= total =>
             /\ budget.etf > 0 =>
                  ClassValue(class.etfs) + budget.etf <= TargetValue(TARGET_ETF_PCT, total + amount)
             /\ budget.stock > 0 =>
                  ClassValue(class.stocks) + budget.stock <= TargetValue(TARGET_STOCK_PCT, total + amount)
    BY <2>2, <2>3, BudgetLaws
  <2> HIDE DEF e, s, p
  <2>4. /\ p.buys = e.buys \o s.buys /\ p.amount = amount /\ p.total = total
        /\ p.hold_reserve = AtLeast0(amount - e.spent - s.spent)
    BY <2>1 DEF PlanOf
  <2> HIDE DEF budget, sectors
  <2>6. Spending(e, budget.etf, Etfs(ps), F)
    <3>1. \A q \in Etfs(ps) : Priced(q)
      BY DEF Etfs, Buyables
    <3> HIDE DEF F
    <3> QED
      BY <2>2, <2>3, <2>5, <3>1, AllocationLaws DEF e
  <2>7. Spending(s, budget.stock, Stocks(ps), F)
    <3>1. \A q \in Stocks(ps) : Priced(q)
      BY DEF Stocks, Buyables
    <3> HIDE DEF F
    <3> QED
      BY <2>2, <2>3, <2>5, <3>1, AllocationLaws DEF s
  <2>8. Reconciles(p)
    BY <2>4, <2>5, <2>6, <2>7, BothReconcile
  <2>9. Purchases(e.buys, Etfs(ps), F) /\ Purchases(s.buys, Stocks(ps), F)
    BY <2>6, <2>7 DEF Spending
  <2>10. SymbolsDiffer(ps) => UnderCap(p)
    <3> SUFFICES ASSUME SymbolsDiffer(ps), NEW b \in Range(p.buys)
                 PROVE  b.value + b.spend <= Percent(POSITION_THRESHOLD, p.total + p.amount) + 1
      BY DEF UnderCap
    <3>1. Apart(Etfs(ps)) /\ Apart(Stocks(ps))
      BY CandidatesApart
    <3>2. \/ \E k \in DOMAIN e.buys : b = e.buys[k]
          \/ \E k \in DOMAIN s.buys : b = s.buys[k]
      <4>1. e.buys \in Seq(Range(e.buys)) /\ s.buys \in Seq(Range(s.buys))
        BY <2>9 DEF Purchases, Bill
      <4>2. PICK n \in DOMAIN (e.buys \o s.buys) : b = (e.buys \o s.buys)[n]
        BY <2>4 DEF Range
      <4> DEFINE one == e.buys
                 two == s.buys
                 T == Range(one) \cup Range(two)
      <4>3. one \in Seq(T) /\ two \in Seq(T)
        <5>1. one \in Seq(Range(one)) /\ two \in Seq(Range(two))
          BY <4>1
        <5> HIDE DEF one, two
        <5> QED
          BY <5>1
      <4> HIDE DEF one, two, T
      <4>4. \A k \in DOMAIN (one \o two) : \/ \E j \in DOMAIN one : (one \o two)[k] = one[j]
                                          \/ \E j \in DOMAIN two : (one \o two)[k] = two[j]
        BY <4>3
      <4> QED
        BY <4>2, <4>4 DEF one, two
    <3>3. Purchase(b, Etfs(ps), F) \/ Purchase(b, Stocks(ps), F)
      BY <2>9, <3>2 DEF Purchases
    <3>4. b.value + b.spend <= Cap(F) + 1
      BY <3>1, <3>3 DEF Purchase
    <3> QED
      BY <2>4, <3>4 DEF Cap
  <2>11. SpentOn(p, "ETF") <= Spent(e.buys) /\ SpentOn(p, "STOCK") <= Spent(s.buys)
    <3>1. Bill(e.buys) /\ \A k \in DOMAIN e.buys : e.buys[k].kind = "ETF"
      BY <2>9 DEF Purchases, Purchase, Etfs
    <3>2. Bill(s.buys) /\ \A k \in DOMAIN s.buys : s.buys[k].kind # "ETF"
      BY <2>9 DEF Purchases, Purchase, Stocks
    <3> QED
      BY <2>4, <3>1, <3>2, SpentOnClass
  <2>12. ASSUME p.total >= TotalValue(ps)
         PROVE  /\ WithinTarget(p, class.etfs, "ETF", TARGET_ETF_PCT)
                /\ WithinTarget(p, class.stocks, "STOCK", TARGET_STOCK_PCT)
    <3> DEFINE E == TargetValue(TARGET_ETF_PCT, F)
               K == TargetValue(TARGET_STOCK_PCT, F)
               u == ClassValue(class.etfs)
               v == ClassValue(class.stocks)
               x == SpentOn(p, "ETF")
               y == SpentOn(p, "STOCK")
    <3>1. E \in Int /\ K \in Int
      <4>1. 70 \in Nat /\ 30 \in Nat
        OBVIOUS
      <4> QED
        BY <2>2, <4>1, PercentLaws DEF TargetValue, TARGET_ETF_PCT, TARGET_STOCK_PCT
    <3>2. TotalValue(ps) \in Int => u + v <= total
      BY <2>2, <2>3, <2>4, <2>12
    <3>3. TotalValue(ps) \in Nat
      BY TotalNatural DEF SoundList, Sound
    <3> DEFINE be == budget.etf
               bs == budget.stock
               xe == Spent(e.buys)
               ys == Spent(s.buys)
    <3>4. (be > 0 => u + be <= E) /\ (bs > 0 => v + bs <= K)
      BY <2>5, <3>2, <3>3
    <3>5. x \in Int /\ y \in Int /\ x <= xe /\ y <= ys
      <4>1. Bill(p.buys)
        BY <2>4, <2>9, SpentTogether DEF Purchases
      <4> QED
        BY <2>11, <4>1, SpentOnNatural
    <3>6. xe \in Nat /\ ys \in Nat
      BY <2>9, SpentNatural DEF Purchases
    <3>7. /\ xe <= be + 18 /\ ys <= bs + 18 /\ (be = 0 => xe = 0) /\ (bs = 0 => ys = 0)
      BY <2>6, <2>7, NothingSpent DEF Spending, TOP_UPS, MAX_CANDIDATES
    <3>8. u \in Nat /\ v \in Nat /\ be \in Nat /\ bs \in Nat
      BY <2>3, <2>5
    <3> HIDE DEF E, K, u, v, x, y, be, bs, xe, ys
    <3>9. (x > 0 => u + x <= E + 18) /\ (y > 0 => v + y <= K + 18)
      BY <3>1, <3>4, <3>5, <3>6, <3>7, <3>8
    <3> QED
      BY <2>4, <3>9 DEF WithinTarget, E, K, u, v, x, y, TOP_UPS, MAX_CANDIDATES
  <2> QED
    BY <2>8, <2>10, <2>12 DEF Planned, class, p
<1> QED
  BY <1>1, <1>2

-----------------------------------------------------------------------------
(* The positions of a portfolio, weighed and scored *)

Facts == {"id", "owned", "kind", "sector", "symbol", "currency", "value", "quantity", "price",
          "rsi", "dist", "perf_30d", "perf_90d", "perf_1y", "pe", "pb", "last_buy"}
Signals == {"rsi", "dist", "perf_30d", "perf_90d", "perf_1y", "pe", "pb", "last_buy"}

(* A position with what enrichment finds.                                  *)
Known(p) ==
  /\ Facts \cup {"weight", "score"} \subseteq DOMAIN p
  /\ p.quantity \in 0..PRICE_SCALE
  /\ p.value \in Maybe(Nat) /\ p.price \in Maybe(Nat)
  /\ \A f \in Signals : p[f] \in Maybe(Int)

KnownList(ps) == List(ps) /\ \A i \in DOMAIN ps : Known(ps[i])

(* The same positions, weighed or scored anew.                             *)
Copies(ps, qs) ==
  /\ List(qs) /\ DOMAIN qs = DOMAIN ps
  /\ \A i \in DOMAIN ps : /\ Facts \cup {"weight", "score"} \subseteq DOMAIN qs[i]
                          /\ \A f \in Facts : qs[i][f] = ps[i][f]

(* What is weighed or scored anew is worth the same and known by the same  *)
(* symbols.                                                                *)
LEMMA CopiesAgree ==
  ASSUME NEW ps, KnownList(ps), NEW qs, Copies(ps, qs)
  PROVE  /\ KnownList(qs)
         /\ TotalValue(qs) = TotalValue(ps)
         /\ SymbolsDiffer(ps) => SymbolsDiffer(qs)
<1>1. \A i \in DOMAIN ps : /\ qs[i].value = ps[i].value /\ qs[i].price = ps[i].price
                           /\ qs[i].quantity = ps[i].quantity /\ qs[i].symbol = ps[i].symbol
                           /\ \A f \in Signals : qs[i][f] = ps[i][f]
  BY DEF Copies, Facts, Signals
<1>2. DOMAIN qs = DOMAIN ps /\ List(qs)
  BY DEF Copies
<1>3. KnownList(qs)
  <2>1. \A i \in DOMAIN ps : Known(ps[i])
    BY DEF KnownList
  <2>2. \A i \in DOMAIN ps : Known(qs[i])
    BY <1>1, <2>1 DEF Known, Copies
  <2> QED
    BY <1>2, <2>2 DEF KnownList
<1>4. TotalValue(qs) = TotalValue(ps)
  <2>1. [i \in DOMAIN qs |-> OrZero(qs[i].value)] = [i \in DOMAIN ps |-> OrZero(ps[i].value)]
    BY <1>1, <1>2
  <2> QED
    BY <2>1 DEF TotalValue
<1>5. SymbolsDiffer(ps) => SymbolsDiffer(qs)
  BY <1>1, <1>2 DEF SymbolsDiffer
<1> QED
  BY <1>3, <1>4, <1>5

(* Only the weights change. *)
LEMMA Weighing ==
  ASSUME NEW ps, KnownList(ps), NEW w, \A i \in DOMAIN ps : w[i] \in Nat
  PROVE  LET qs == [i \in DOMAIN ps |-> [ps[i] EXCEPT !.weight = w[i]]]
         IN  /\ Copies(ps, qs)
             /\ \A i \in DOMAIN ps : qs[i].weight = w[i] /\ qs[i].score = ps[i].score
<1> DEFINE qs == [i \in DOMAIN ps |-> [ps[i] EXCEPT !.weight = w[i]]]
<1>1. List(qs)
  <2>1. qs = [i \in DOMAIN ps |-> qs[i]]
    OBVIOUS
  <2> HIDE DEF qs
  <2> QED
    BY <2>1, MappedList DEF KnownList
<1>2. \A i \in DOMAIN ps : /\ DOMAIN qs[i] = DOMAIN ps[i]
                           /\ \A f \in DOMAIN ps[i] : f # "weight" => qs[i][f] = ps[i][f]
                           /\ "weight" \in DOMAIN ps[i] => qs[i].weight = w[i]
  OBVIOUS
<1>3. \A i \in DOMAIN ps : Facts \cup {"weight", "score"} \subseteq DOMAIN ps[i]
  BY DEF KnownList, Known
<1>4. DOMAIN qs = DOMAIN ps
  OBVIOUS
<1> HIDE DEF qs
<1>5. \A i \in DOMAIN ps : \A f \in Facts : f # "weight"
  BY DEF Facts
<1>6. Copies(ps, qs)
  BY <1>1, <1>2, <1>3, <1>4, <1>5 DEF Copies
<1>7. \A i \in DOMAIN ps : qs[i].weight = w[i] /\ qs[i].score = ps[i].score
  BY <1>2, <1>3
<1> QED
  BY <1>6, <1>7 DEF qs

(* compute_portfolio_weights changes nothing but the weights. *)
LEMMA WeighedKnown ==
  ASSUME NEW ps, KnownList(ps)
  PROVE  LET qs == compute_portfolio_weights(ps)
         IN  Copies(ps, qs) /\ \A i \in DOMAIN ps : qs[i].weight \in Nat
<1> DEFINE total == TotalValue(ps)
           w == [i \in DOMAIN ps |-> IF total = 0 THEN 0 ELSE Round(10000 * OrZero(ps[i].value), total)]
           qs == [i \in DOMAIN ps |-> [ps[i] EXCEPT !.weight = w[i]]]
<1>1. total \in Nat /\ \A i \in DOMAIN ps : OrZero(ps[i].value) \in Nat
  BY TotalNatural DEF KnownList, Known
<1>2. compute_portfolio_weights(ps) = qs
  BY DEF compute_portfolio_weights
<1> HIDE DEF total
<1>3. ASSUME NEW i \in DOMAIN ps
      PROVE  w[i] \in Nat
  <2>1. CASE total = 0
    BY <2>1
  <2>2. CASE total # 0
    <3> DEFINE a == 10000 * OrZero(ps[i].value)
    <3>1. a \in Nat /\ total \in Nat \ {0}
      BY <1>1, <2>2
    <3>2. w[i] = Round(a, total)
      BY <2>2
    <3> HIDE DEF a, w
    <3> QED
      BY <3>1, <3>2, RoundNatural
  <2> QED
    BY <2>1, <2>2
<1> HIDE DEF w
<1>4. Copies(ps, qs) /\ \A i \in DOMAIN ps : qs[i].weight = w[i]
  BY <1>3, Weighing
<1> QED
  BY <1>2, <1>3, <1>4

(* Nor do the weights against another total. *)
LEMMA ReweighedKnown ==
  ASSUME NEW ps, KnownList(ps), Valued(ps), NEW total \in Nat \ {0}
  PROVE  LET qs == Reweighed(ps, total)
         IN  /\ Copies(ps, qs)
             /\ \A i \in DOMAIN ps : qs[i].weight \in Nat /\ qs[i].score = ps[i].score
<1> DEFINE w == [i \in DOMAIN ps |-> 10 * Round(1000 * ps[i].value, total)]
           qs == [i \in DOMAIN ps |-> [ps[i] EXCEPT !.weight = w[i]]]
<1>1. \A i \in DOMAIN ps : ps[i].value \in Nat
  BY DEF KnownList, Known, Valued, Maybe
<1>2. Reweighed(ps, total) = qs
  BY DEF Reweighed
<1>3. ASSUME NEW i \in DOMAIN ps
      PROVE  w[i] \in Nat
  <2> DEFINE a == 1000 * ps[i].value
             r == Round(a, total)
  <2>1. a \in Nat
    BY <1>1
  <2>2. w[i] = 10 * r
    OBVIOUS
  <2> HIDE DEF a, w
  <2>3. r \in Nat
    BY <2>1, RoundNatural
  <2> HIDE DEF r
  <2> QED
    BY <2>2, <2>3
<1> HIDE DEF w
<1>4. Copies(ps, qs) /\ \A i \in DOMAIN ps : qs[i].weight = w[i] /\ qs[i].score = ps[i].score
  BY <1>3, Weighing
<1> QED
  BY <1>2, <1>3, <1>4

-----------------------------------------------------------------------------
(* The portfolio and its plans *)

(* compute_scores changes nothing but the scores. *)
LEMMA ScoredKnown ==
  ASSUME NEW ps, KnownList(ps)
  PROVE  LET qs == compute_scores(ps)
         IN  /\ Copies(ps, qs)
             /\ \A i \in DOMAIN ps : qs[i].score \in Maybe(0..100) /\ qs[i].weight = ps[i].weight
<1> DEFINE etfs == PoolScores(PoolOf(ps, "ETF"))
           stocks == PoolScores(PoolOf(ps, "STOCK"))
           score == [i \in DOMAIN ps |-> IF i \in DOMAIN etfs THEN etfs[i]
                                         ELSE IF i \in DOMAIN stocks THEN stocks[i] ELSE NULL]
           qs == compute_scores(ps)
<1>1. qs = [i \in DOMAIN ps |-> [ps[i] EXCEPT !.score = score[i]]]
  BY DEF compute_scores, WithScores
<1>2. ASSUME NEW kind, NEW i \in DOMAIN PoolScores(PoolOf(ps, kind))
      PROVE  PoolScores(PoolOf(ps, kind))[i] \in Maybe(0..100)
  <2> DEFINE pool == PoolOf(ps, kind)
             own == BuyScore(pool)[i]
  <2>1. i \in DOMAIN pool
    BY DEF PoolScores
  <2>2. own \in 0..100
    BY <2>1, ScoreRange DEF Hundred
  <2>3. PoolScores(pool)[i] = IF Cardinality(DOMAIN pool) < 4 \/ ~is_buyable(pool[i]) THEN NULL ELSE own
    BY <2>1 DEF PoolScores
  <2> HIDE DEF own, pool
  <2>4. PoolScores(pool)[i] \in Maybe(0..100)
    BY <2>2, <2>3 DEF Maybe
  <2> QED
    BY <2>4 DEF pool
<1>3. \A i \in DOMAIN ps : score[i] \in Maybe(0..100)
  <2>1. /\ \A i \in DOMAIN etfs : etfs[i] \in Maybe(0..100)
        /\ \A i \in DOMAIN stocks : stocks[i] \in Maybe(0..100)
        /\ NULL \in Maybe(0..100)
    BY <1>2 DEF Maybe
  <2> HIDE DEF etfs, stocks
  <2> QED
    BY <2>1
<1> HIDE DEF score, qs
<1>4. List(qs)
  <2>1. qs = [i \in DOMAIN ps |-> qs[i]]
    BY <1>1
  <2> QED
    BY <2>1, MappedList DEF KnownList
<1>5. DOMAIN qs = DOMAIN ps
  BY <1>1
<1>6. \A i \in DOMAIN ps : /\ DOMAIN qs[i] = DOMAIN ps[i]
                           /\ \A f \in DOMAIN ps[i] : f # "score" => qs[i][f] = ps[i][f]
                           /\ "score" \in DOMAIN ps[i] => qs[i].score = score[i]
  BY <1>1
<1>7. \A i \in DOMAIN ps : Facts \cup {"weight", "score"} \subseteq DOMAIN ps[i]
  BY DEF KnownList, Known
<1>8. \A i \in DOMAIN ps : \A f \in Facts : f # "score"
  BY DEF Facts
<1>9. Copies(ps, qs)
  BY <1>4, <1>5, <1>6, <1>7, <1>8 DEF Copies
<1>10. \A i \in DOMAIN ps : qs[i].score \in Maybe(0..100) /\ qs[i].weight = ps[i].weight
  BY <1>3, <1>6, <1>7
<1> QED
  BY <1>9, <1>10 DEF qs

(* The positions that enrichment finds. *)
LEMMA FoundKnown ==
  ASSUME NEW market, NEW ids \in Seq(Ids), NEW owned,
         \A i \in DOMAIN ids : Findable(market[ids[i]])
  PROVE  LET ps == [i \in DOMAIN ids |-> Position(ids[i], market[ids[i]], owned)]
         IN  /\ KnownList(ps)
             /\ \A i \in DOMAIN ids : ps[i].symbol = market[ids[i]].symbol
<1> DEFINE ps == [i \in DOMAIN ids |-> Position(ids[i], market[ids[i]], owned)]
<1>1. List(ps)
  <2>1. List(ids)
    BY ListsAre
  <2>2. ps = [i \in DOMAIN ids |-> ps[i]]
    OBVIOUS
  <2> HIDE DEF ps
  <2> QED
    BY <2>1, <2>2, MappedList
<1>2. ASSUME NEW i \in DOMAIN ids
      PROVE  Known(ps[i]) /\ ps[i].symbol = market[ids[i]].symbol
  <2> DEFINE data == market[ids[i]]
  <2>2. /\ Facts \cup {"weight", "score"} \subseteq DOMAIN data
        /\ data.quantity \in 0..PRICE_SCALE
        /\ data.value \in Maybe(Nat) /\ data.price \in Maybe(Nat)
        /\ \A field \in Signals : data[field] \in Maybe(Int)
    BY DEF Facts, Signals, Findable
  <2>3. ps[i] = [data EXCEPT !.id = ids[i], !.owned = owned]
    BY DEF Position
  <2> HIDE DEF data, ps
  <2>4. DOMAIN ps[i] = DOMAIN data /\ \A f \in DOMAIN data : f # "id" /\ f # "owned" => ps[i][f] = data[f]
    BY <2>3
  <2>5. \A f \in Signals : f \in Facts /\ f # "id" /\ f # "owned"
    BY DEF Signals, Facts
  <2>6. {"value", "price", "quantity", "symbol"} \subseteq Facts
    BY DEF Facts
  <2>7. /\ ps[i].value = data.value /\ ps[i].price = data.price
        /\ ps[i].quantity = data.quantity /\ ps[i].symbol = data.symbol
    BY <2>2, <2>4, <2>6
  <2>8. \A f \in Signals : ps[i][f] = data[f]
    BY <2>2, <2>4, <2>5
  <2> QED
    BY <2>2, <2>4, <2>7, <2>8 DEF Known, data
<1> QED
  BY <1>1, <1>2 DEF KnownList

(* The positions of the session's summary, weighed and scored.             *)
PortfolioInv ==
  portfolio # NULL =>
    /\ {"positions", "total", "top_candidates", "health_alerts"} \subseteq DOMAIN portfolio
    /\ KnownList(portfolio.positions)
    /\ \A i \in DOMAIN portfolio.positions : /\ portfolio.positions[i].weight \in Nat
                                             /\ portfolio.positions[i].score \in Maybe(0..100)
    /\ portfolio.total = TotalValue(portfolio.positions)
    /\ SymbolsApart => SymbolsDiffer(portfolio.positions)

(* The last plan, with the classes as they are in the portfolio now.       *)
PlanInv ==
  plan # NULL =>
    /\ Reconciles(plan)
    /\ SymbolsApart => UnderCap(plan)
    /\ portfolio # NULL /\ plan.total >= portfolio.total =>
         LET class == _partition_positions(portfolio.positions)
         IN  /\ WithinTarget(plan, class.etfs, "ETF", TARGET_ETF_PCT)
             /\ WithinTarget(plan, class.stocks, "STOCK", TARGET_STOCK_PCT)

AnalysisInv == PortfolioInv /\ PlanInv /\ response \in Maybe({200, 400, 500})

(* The planner may be given what enrichment left. *)
LEMMA PositionsSound ==
  ASSUME NEW ps, KnownList(ps), \A i \in DOMAIN ps : ps[i].weight \in Nat /\ ps[i].score \in Maybe(0..100)
  PROVE  SoundList(ps)
BY DEF SoundList, KnownList, Known, Sound

(* Enrichment, whatever the markets are. *)
LEMMA EnrichKeeps == AnalysisInv /\ EnrichAndScore => AnalysisInv'
<1> SUFFICES ASSUME AnalysisInv, EnrichAndScore PROVE AnalysisInv'
  OBVIOUS
<1>1. PICK market \in Markets : \E quotes \in WatchMarkets :
            LET held == [i \in DOMAIN Held |-> Position(Held[i], market[Held[i]], TRUE)]
                watch == [i \in DOMAIN Watched |-> Position(Watched[i], quotes[Watched[i]], FALSE)]
                owned == compute_scores(compute_portfolio_weights(held))
                top == get_top_candidates(owned, 3)
            IN  \/ portfolio' = Summary(owned, top)
                \/ portfolio' = Summary(owned, merge_watchlist_candidates(owned, watch, top, 3))
  BY DEF EnrichAndScore
<1> DEFINE held == [i \in DOMAIN Held |-> Position(Held[i], market[Held[i]], TRUE)]
           weighed == compute_portfolio_weights(held)
           owned == compute_scores(weighed)
<1>2. PICK top : portfolio' = Summary(owned, top)
  BY <1>1
<1>3. KnownList(held) /\ \A i \in DOMAIN Held : held[i].symbol = market[Held[i]].symbol
  <2>1. Held \in Seq(Ids) /\ \A i \in DOMAIN Held : Findable(market[Held[i]])
    BY AnalysisAssumption
  <2> QED
    BY <2>1, FoundKnown
<1>4. DOMAIN held = DOMAIN Held
  OBVIOUS
<1> HIDE DEF held
<1>5. SymbolsApart => SymbolsDiffer(held)
  BY <1>3, <1>4 DEF SymbolsApart, SymbolsDiffer
<1>6. Copies(held, weighed) /\ \A i \in DOMAIN held : weighed[i].weight \in Nat
  BY <1>3, WeighedKnown
<1> HIDE DEF weighed
<1>7. KnownList(weighed) /\ (SymbolsDiffer(held) => SymbolsDiffer(weighed)) /\ DOMAIN weighed = DOMAIN held
  BY <1>3, <1>6, CopiesAgree DEF Copies
<1>8. /\ Copies(weighed, owned)
      /\ \A i \in DOMAIN weighed : owned[i].score \in Maybe(0..100) /\ owned[i].weight = weighed[i].weight
  BY <1>7, ScoredKnown
<1> HIDE DEF owned
<1>9. KnownList(owned) /\ (SymbolsDiffer(weighed) => SymbolsDiffer(owned)) /\ DOMAIN owned = DOMAIN weighed
  BY <1>7, <1>8, CopiesAgree DEF Copies
<1>10. /\ portfolio'.positions = owned /\ portfolio'.total = TotalValue(owned)
       /\ {"positions", "total", "top_candidates", "health_alerts"} \subseteq DOMAIN portfolio'
  BY <1>2 DEF Summary
<1>11. PortfolioInv'
  BY <1>5, <1>6, <1>7, <1>8, <1>9, <1>10 DEF PortfolioInv
<1> QED
  BY <1>11 DEF AnalysisInv, PlanInv, EnrichAndScore, Maybe

(* A plan, for which other weights may take the place of the positions'.   *)
LEMMA MakePlanKeeps ==
  ASSUME AnalysisInv, NEW amount \in Amounts, NEW total_portfolio_eur \in Maybe(Totals),
         MakePlan(amount, total_portfolio_eur)
  PROVE  AnalysisInv'
<1> DEFINE override == total_portfolio_eur # NULL /\ total_portfolio_eur > 0
           total == IF override THEN total_portfolio_eur ELSE portfolio.total
           old == portfolio.positions
           ps == IF override /\ Valued(old) THEN Reweighed(old, total) ELSE old
<1>1. /\ amount > 0 /\ portfolio # NULL
      /\ portfolio' = [portfolio EXCEPT !.positions = ps]
      /\ plan' = plan_contribution(ps, total, amount)
      /\ response' = IF plan' = NULL THEN 500 ELSE 200
  BY DEF MakePlan
<1>2. /\ {"positions", "total", "top_candidates", "health_alerts"} \subseteq DOMAIN portfolio
      /\ KnownList(old)
      /\ \A i \in DOMAIN old : old[i].weight \in Nat /\ old[i].score \in Maybe(0..100)
      /\ portfolio.total = TotalValue(old)
      /\ SymbolsApart => SymbolsDiffer(old)
  BY <1>1 DEF AnalysisInv, PortfolioInv
<1>3. amount \in Nat /\ total \in Int
  <2>1. amount \in Int /\ amount > 0
    BY <1>1, AnalysisAssumption
  <2>2. total_portfolio_eur # NULL => total_portfolio_eur \in Int
    BY AnalysisAssumption DEF Maybe
  <2>3. TotalValue(old) \in Int
    BY <1>2, TotalNatural DEF KnownList, Known
  <2> QED
    BY <1>2, <2>1, <2>2, <2>3
<1>4. override => total \in Nat \ {0}
  BY <1>3
<1> HIDE DEF override, total, old
<1>5. /\ KnownList(ps)
      /\ \A i \in DOMAIN ps : ps[i].weight \in Nat /\ ps[i].score \in Maybe(0..100)
      /\ TotalValue(ps) = TotalValue(old)
      /\ SymbolsApart => SymbolsDiffer(ps)
  <2>1. CASE override /\ Valued(old)
    <3> DEFINE qs == Reweighed(old, total)
    <3>1. Copies(old, qs) /\ \A i \in DOMAIN old : qs[i].weight \in Nat /\ qs[i].score = old[i].score
      BY <1>2, <1>4, <2>1, ReweighedKnown
    <3> HIDE DEF qs
    <3>2. /\ KnownList(qs) /\ TotalValue(qs) = TotalValue(old) /\ DOMAIN qs = DOMAIN old
          /\ SymbolsDiffer(old) => SymbolsDiffer(qs)
      BY <1>2, <3>1, CopiesAgree DEF Copies
    <3>3. ps = qs
      BY <2>1 DEF qs
    <3> HIDE DEF ps
    <3> QED
      BY <1>2, <3>1, <3>2, <3>3
  <2>2. CASE ~ (override /\ Valued(old))
    <3>1. ps = old
      BY <2>2
    <3> HIDE DEF ps
    <3> QED
      BY <1>2, <3>1
  <2> QED
    BY <2>1, <2>2
<1> HIDE DEF ps
<1>6. /\ portfolio'.positions = ps /\ portfolio'.total = portfolio.total
      /\ DOMAIN portfolio' = DOMAIN portfolio
  BY <1>1, <1>2
<1>7. portfolio'.total = TotalValue(ps)
  BY <1>2, <1>5, <1>6
<1>8. PortfolioInv'
  BY <1>2, <1>5, <1>6, <1>7 DEF PortfolioInv
<1>9. PlanInv'
  <2>1. SoundList(ps)
    BY <1>5, PositionsSound
  <2>2. plan' # NULL => Planned(plan', ps)
    BY <1>1, <1>3, <2>1, PlanLaws
  <2> QED
    BY <1>5, <1>6, <1>7, <2>2 DEF PlanInv, Planned
<1>10. (response \in Maybe({200, 400, 500}))'
  BY <1>1 DEF Maybe
<1> QED
  BY <1>8, <1>9, <1>10 DEF AnalysisInv

(* The inductive invariant of the analysis.                                *)
THEOREM AnalysisSafe == Spec => []AnalysisInv
<1>1. Init => AnalysisInv
  BY DEF Init, AnalysisInv, PortfolioInv, PlanInv, Maybe
<1>2. AnalysisInv /\ [Next]_vars => AnalysisInv'
  <2> SUFFICES ASSUME AnalysisInv, [Next]_vars PROVE AnalysisInv'
    OBVIOUS
  <2>1. CASE EnrichAndScore
    BY <2>1, EnrichKeeps
  <2>2. ASSUME NEW amount \in Amounts, NEW total_portfolio_eur \in Maybe(Totals),
               get_rebalance_plan(amount, total_portfolio_eur)
        PROVE  AnalysisInv'
    <3>1. CASE RefusePlan(amount)
      BY <3>1 DEF RefusePlan, AnalysisInv, PortfolioInv, PlanInv, Maybe
    <3>2. CASE EmptyPlan(amount)
      <4>1. amount \in Nat
        BY <3>2, AnalysisAssumption DEF EmptyPlan
      <4>2. plan' = NoPlan(amount) /\ portfolio = NULL /\ portfolio' = portfolio /\ response' = 200
        BY <3>2 DEF EmptyPlan
      <4>3. Reconciles(NoPlan(amount)) /\ UnderCap(NoPlan(amount))
        BY <4>1, EmptyPlanned
      <4> QED
        BY <4>2, <4>3 DEF AnalysisInv, PortfolioInv, PlanInv, Maybe
    <3>3. CASE MakePlan(amount, total_portfolio_eur)
      BY <3>3, MakePlanKeeps
    <3> QED
      BY <2>2, <3>1, <3>2, <3>3 DEF get_rebalance_plan
  <2>3. CASE Discard
    BY <2>3 DEF Discard, AnalysisInv, PortfolioInv, PlanInv, Maybe
  <2>4. CASE UNCHANGED vars
    BY <2>4 DEF vars, AnalysisInv, PortfolioInv, PlanInv
  <2> QED
    BY <2>1, <2>2, <2>3, <2>4 DEF Next
<1> QED
  BY <1>1, <1>2, PTL DEF Spec

(* Whatever is on the market, every weight is a share, every score is from *)
(* 0 to 100 or missing, and no plan holds back more than was given.        *)
THEOREM TypeCorrect == Spec => []TypeOK
<1>1. AnalysisInv => TypeOK
  BY DEF AnalysisInv, PortfolioInv, PlanInv, Reconciles, TypeOK
<1> QED
  BY <1>1, AnalysisSafe, PTL

(* plan_contribution spends and holds back what was given, but for a cent  *)
(* and one for each share that phase 3 can add: the cents of every share   *)
(* are rounded, and the two budgets are.                                   *)
THEOREM PlansReconcile == Spec => []PlanReconciles
<1>1. AnalysisInv => PlanReconciles
  BY DEF AnalysisInv, PlanInv, Reconciles, PlanReconciles, Unaccounted
<1> QED
  BY <1>1, AnalysisSafe, PTL

(* Where every position has a symbol of its own, no purchase takes its     *)
(* position over the cap: not the whole shares of phase 2, nor those that  *)
(* three passes of top-ups add to the same entry.                          *)
THEOREM CapIsHeld ==
  ASSUME SymbolsApart
  PROVE  Spec => []CapHeld
<1>1. AnalysisInv => CapHeld
  BY DEF AnalysisInv, PlanInv, UnderCap, CapHeld
<1> QED
  BY <1>1, AnalysisSafe, PTL

(* No class is bought beyond its target share, where the total it is       *)
(* planned for covers what is held.                                        *)
THEOREM TargetsKept == Spec => []NeverBeyondTarget
<1>1. AnalysisInv => NeverBeyondTarget
  BY DEF AnalysisInv, PlanInv, WithinTarget, SpentOn, NeverBeyondTarget
<1> QED
  BY <1>1, AnalysisSafe, PTL

-----------------------------------------------------------------------------
(* Normalised values keep their order *)

(* Quotient and rest. *)
LEMMA ModLaws ==
  ASSUME NEW x \in Int, NEW d \in Nat \ {0}
  PROVE  /\ x \div d \in Int /\ x % d \in 0..(d - 1)
         /\ d * (x \div d) + (x % d) = x
BY Z3

(* One digit more of x / y, and what is left of it.                        *)
LEMMA DigitLaws ==
  ASSUME NEW acc, NEW y \in Nat \ {0}, NEW x \in Int, acc.quotient \in Int, acc.rest \in 0..(y - 1),
         y * acc.quotient + acc.rest = x
  PROVE  LET next == NextDigit(acc, y)
         IN  /\ next.quotient \in Int /\ next.rest \in 0..(y - 1)
             /\ y * next.quotient + next.rest = 10 * x
<1> DEFINE q == acc.quotient
           r == acc.rest
           d == (10 * r) \div y
           s == (10 * r) % y
<1>1. /\ NextDigit(acc, y).quotient = 10 * q + d
      /\ NextDigit(acc, y).rest = s
  BY DEF NextDigit
<1>2. q \in Int /\ r \in Nat /\ y * q + r = x /\ 10 * r \in Int
  OBVIOUS
<1> HIDE DEF q, r
<1>3. d \in Int /\ s \in 0..(y - 1) /\ y * d + s = 10 * r
  BY <1>2, ModLaws
<1> HIDE DEF d, s
<1>4. y * (10 * q + d) = 10 * (y * q) + y * d
  BY <1>2, <1>3, Z3
<1>5. y * q \in Int /\ y * d \in Int
  BY <1>2, <1>3
<1>6. y * (10 * q + d) + s = 10 * x
  BY <1>2, <1>3, <1>4, <1>5
<1> QED
  BY <1>1, <1>2, <1>3, <1>6

(* The long division is ten thousand times x over y, rounded down. *)
LEMMA TenThousandthsLaws ==
  ASSUME NEW x \in Nat, NEW y \in Nat \ {0}
  PROVE  /\ TenThousandths(x, y) \in Int
         /\ y * TenThousandths(x, y) <= 10000 * x
         /\ 10000 * x < y * TenThousandths(x, y) + y
<1> DEFINE a0 == [quotient |-> x \div y, rest |-> x % y]
           a1 == NextDigit(a0, y)
           a2 == NextDigit(a1, y)
           a3 == NextDigit(a2, y)
           a4 == NextDigit(a3, y)
<1>1. TenThousandths(x, y) = a4.quotient
  BY DEF TenThousandths
<1>2. a0.quotient \in Int /\ a0.rest \in 0..(y - 1) /\ y * a0.quotient + a0.rest = x
  <2>1. x \div y \in Int /\ x % y \in 0..(y - 1) /\ y * (x \div y) + (x % y) = x
    <3>1. x \in Int
      OBVIOUS
    <3> QED
      BY <3>1, ModLaws
  <2> QED
    BY <2>1
<1> HIDE DEF a0
<1>3. a1.quotient \in Int /\ a1.rest \in 0..(y - 1) /\ y * a1.quotient + a1.rest = 10 * x
  BY <1>2, DigitLaws
<1> HIDE DEF a1
<1>4. a2.quotient \in Int /\ a2.rest \in 0..(y - 1) /\ y * a2.quotient + a2.rest = 100 * x
  <2>1. 10 * x \in Int /\ 10 * (10 * x) = 100 * x
    OBVIOUS
  <2> QED
    BY <1>3, <2>1, DigitLaws
<1> HIDE DEF a2
<1>5. a3.quotient \in Int /\ a3.rest \in 0..(y - 1) /\ y * a3.quotient + a3.rest = 1000 * x
  <2>1. 100 * x \in Int /\ 10 * (100 * x) = 1000 * x
    OBVIOUS
  <2> QED
    BY <1>4, <2>1, DigitLaws
<1> HIDE DEF a3
<1>6. a4.quotient \in Int /\ a4.rest \in 0..(y - 1) /\ y * a4.quotient + a4.rest = 10000 * x
  <2>1. 1000 * x \in Int /\ 10 * (1000 * x) = 10000 * x
    OBVIOUS
  <2> QED
    BY <1>5, <2>1, DigitLaws
<1> DEFINE q == a4.quotient
           r == a4.rest
<1>7. q \in Int /\ r \in 0..(y - 1) /\ y * q + r = 10000 * x /\ y * q \in Int
  BY <1>6
<1> HIDE DEF q, r
<1>8. y * q <= 10000 * x /\ 10000 * x < y * q + y
  BY <1>7
<1> QED
  BY <1>1, <1>7, <1>8 DEF q

(* Long division is monotone. *)
LEMMA TenThousandthsMonotone ==
  ASSUME NEW w \in Nat, NEW x \in Nat, w <= x, NEW y \in Nat \ {0}
  PROVE  TenThousandths(w, y) <= TenThousandths(x, y)
<1> DEFINE p == TenThousandths(w, y)
           q == TenThousandths(x, y)
<1>1. p \in Int /\ y * p <= 10000 * w /\ q \in Int /\ 10000 * x < y * q + y
  BY TenThousandthsLaws
<1> HIDE DEF p, q
<1>2. SUFFICES ASSUME p >= q + 1 PROVE FALSE
  BY <1>1 DEF p, q
<1>3. y * p >= y * q + y /\ y * p \in Int /\ y * q \in Int
  BY <1>1, <1>2, Z3
<1> QED
  BY <1>1, <1>3

(* What deviates more spreads wider. *)
LEMMA SpreadMonotone ==
  ASSUME NEW c \in Nat, NEW d \in Nat, c <= d, NEW n \in Nat \ {0}, NEW squares \in Nat \ {0},
         NEW a \in {c, -c}, NEW b \in {d, -d}
  PROVE  Spread(a, n, squares) <= Spread(b, n, squares)
<1> DEFINE y == 9 * squares
           small == a * a * (n - 1)
           large == b * b * (n - 1)
           all == 1..50
           p == TenThousandths(small, y)
           q == TenThousandths(large, y)
           narrow == {k \in all : k * k <= p}
           wide == {k \in all : k * k <= q}
<1>1. y \in Nat \ {0} /\ n - 1 \in Nat
  OBVIOUS
<1>2. a * a = c * c /\ b * b = d * d
  BY Z3
<1>3. c * c <= d * d /\ c * c \in Nat /\ d * d \in Nat
  <2>1. c * c <= c * d /\ c * d <= d * d
    BY Z3
  <2>2. c * c \in Nat /\ c * d \in Nat /\ d * d \in Nat
    OBVIOUS
  <2> QED
    BY <2>1, <2>2
<1>4. small \in Nat /\ large \in Nat /\ small <= large
  <2> DEFINE u == c * c
             v == d * d
             m == n - 1
  <2>1. u \in Nat /\ v \in Nat /\ u <= v /\ m \in Nat
    BY <1>1, <1>3
  <2>2. small = u * m /\ large = v * m
    BY <1>2
  <2> HIDE DEF u, v, m, small, large
  <2>3. u * m \in Nat /\ v * m \in Nat /\ u * m <= v * m
    BY <2>1, Z3
  <2> QED
    BY <2>2, <2>3
<1> HIDE DEF small, large, y
<1>5. p \in Int /\ q \in Int /\ p <= q
  BY <1>1, <1>4, TenThousandthsLaws, TenThousandthsMonotone
<1> HIDE DEF p, q
<1>6. narrow \subseteq wide
  <2>1. \A k \in all : k * k \in Int
    OBVIOUS
  <2> HIDE DEF all
  <2>2. \A m \in Int : m <= p => m <= q
    BY <1>5
  <2> QED
    BY <2>1, <2>2
<1>7. IsFiniteSet(all)
  <2>1. \A i, j \in Int : IsFiniteSet(i..j)
    BY FS_Interval
  <2>2. 1 \in Int /\ 50 \in Int
    OBVIOUS
  <2> QED
    BY <2>1, <2>2
<1>8. wide \subseteq all
  OBVIOUS
<1> HIDE DEF all, narrow, wide
<1>9. IsFiniteSet(wide) /\ Cardinality(narrow) <= Cardinality(wide)
  <2>1. IsFiniteSet(wide)
    BY <1>7, <1>8, FS_Subset
  <2> QED
    BY <1>6, <2>1, FS_Subset
<1> QED
  BY <1>9 DEF Spread, narrow, wide, all, p, q, small, large, y

(* The values of some positions, as far as they are known.                 *)
Column(f) == IsFiniteSet(DOMAIN f) /\ \A i \in DOMAIN f : f[i] \in Maybe(Int)

Below(x, y) == (x = NULL /\ y = NULL) \/ (x # NULL /\ y # NULL /\ x <= y)

(* What is known gets a number. *)
LEMMA NormalisedNumber ==
  ASSUME NEW f, NEW i \in DOMAIN f, f[i] # NULL
  PROVE  Normalised(f)[i] \in Hundred
<1> DEFINE present == [k \in Kept(f) |-> f[k]]
           dev == Deviations(present)
           n == Cardinality(DOMAIN present)
           squares == SumFunction([k \in DOMAIN dev |-> dev[k] * dev[k]])
           z == FromDeviations(dev, n)
           d == Spread(dev[i], n, squares)
<1>1. Normalised(f)[i] = z[i]
  BY DEF Normalised, Filled, _zscore_normalize
<1>2. i \in DOMAIN dev
  BY DEF Deviations, Kept
<1> HIDE DEF dev, n
<1>3. z[i] = IF n < 4 \/ squares = 0 THEN 50 ELSE 50 + (IF dev[i] < 0 THEN -1 ELSE 1) * d
  BY <1>2 DEF FromDeviations
<1>4. d \in 0..50
  BY SpreadRange
<1> HIDE DEF d, squares, z
<1>5. (-1) * d = 0 - d /\ 1 * d = d
  BY <1>4
<1> QED
  BY <1>1, <1>3, <1>4, <1>5 DEF Hundred

(* A z-score keeps the order of what it normalises. *)
LEMMA NormalisedMonotone ==
  ASSUME NEW f, Column(f), NEW i \in DOMAIN f, NEW j \in DOMAIN f,
         f[i] # NULL, f[j] # NULL, f[i] <= f[j]
  PROVE  Normalised(f)[i] <= Normalised(f)[j]
<1> DEFINE K == Kept(f)
           v == [k \in K |-> f[k]]
           n == Cardinality(K)
           sum == SumFunctionOnSet(v, K)
           dev == [k \in K |-> n * v[k] - sum]
           sq == [k \in K |-> dev[k] * dev[k]]
           squares == SumFunctionOnSet(sq, K)
           z == FromDeviations(dev, n)
           a == dev[i]
           b == dev[j]
<1>1. IsFiniteSet(K) /\ n \in Nat /\ i \in K /\ j \in K /\ K \subseteq DOMAIN f
  <2>1. K \subseteq DOMAIN f /\ i \in K /\ j \in K
    BY DEF Kept
  <2> HIDE DEF K
  <2>2. IsFiniteSet(K)
    BY <2>1, FS_Subset DEF Column
  <2> QED
    BY <2>1, <2>2, FS_CardinalityType
<1>2. \A k \in K : v[k] \in Int /\ v[k] = f[k]
  BY DEF Column, Kept, Maybe
<1>3. Normalised(f)[i] = z[i] /\ Normalised(f)[j] = z[j]
  <2>1. DOMAIN v = K
    OBVIOUS
  <2>2. SumFunction(v) = sum
    BY DEF SumFunction
  <2>3. Deviations(v) = dev
    <3> HIDE DEF K, v, sum
    <3> QED
      BY <2>1, <2>2 DEF Deviations
  <2>4. Normalised(f) = [k \in DOMAIN f |-> IF f[k] = NULL THEN NULL
                            ELSE FromDeviations(Deviations(v), Cardinality(DOMAIN v))[k]]
    BY DEF Normalised, Filled, _zscore_normalize
  <2> HIDE DEF dev, v, K
  <2> QED
    BY <2>1, <2>3, <2>4
<1> HIDE DEF K
<1>4. sum \in Int
  <2> HIDE DEF v
  <2> QED
    BY <1>1, <1>2, SumLaws
<1> HIDE DEF v, sum, n
<1>5. \A k \in K : dev[k] \in Int
  BY <1>1, <1>2, <1>4
<1>6. a <= b
  <2> DEFINE x == v[i]
             y == v[j]
  <2>1. x \in Int /\ y \in Int /\ x <= y
    BY <1>1, <1>2
  <2>2. a = n * x - sum /\ b = n * y - sum
    BY <1>1
  <2> HIDE DEF x, y, a, b
  <2>3. n * x <= n * y /\ n * x \in Int /\ n * y \in Int
    BY <1>1, <2>1, Z3
  <2> QED
    BY <1>4, <2>2, <2>3
<1>7. DOMAIN dev = K
  OBVIOUS
<1>8. a \in Int /\ b \in Int
  BY <1>1, <1>5
<1> HIDE DEF dev
<1>9. \A k \in K : sq[k] \in Nat
  <2>1. \A x \in Int : x * x \in Nat
    BY Z3
  <2> QED
    BY <1>5, <2>1
<1>10. squares \in Nat
  <2> HIDE DEF sq
  <2> QED
    BY <1>1, <1>9, SumOfNaturals
<1>11. SumFunction([k \in DOMAIN dev |-> dev[k] * dev[k]]) = squares
  BY <1>7 DEF SumFunction
<1> HIDE DEF sq, squares, a, b
<1> DEFINE Sign(x) == IF x < 0 THEN -1 ELSE 1
           A == Spread(a, n, squares)
           B == Spread(b, n, squares)
<1>12. A \in 0..50 /\ B \in 0..50
  BY SpreadRange
<1>13. /\ z[i] = IF n < 4 \/ squares = 0 THEN 50 ELSE 50 + Sign(a) * A
       /\ z[j] = IF n < 4 \/ squares = 0 THEN 50 ELSE 50 + Sign(b) * B
  BY <1>1, <1>7, <1>11 DEF FromDeviations, a, b
<1>14. CASE n < 4 \/ squares = 0
  BY <1>3, <1>13, <1>14
<1>15. CASE ~ (n < 4 \/ squares = 0)
  <2>1. n \in Nat \ {0} /\ squares \in Nat \ {0}
    BY <1>1, <1>10, <1>15
  <2>2. z[i] = 50 + Sign(a) * A /\ z[j] = 50 + Sign(b) * B
    BY <1>13, <1>15
  <2> HIDE DEF z
  <2>3. CASE a >= 0
    <3>1. a \in Nat /\ b \in Nat /\ a \in {a, -a} /\ b \in {b, -b}
      BY <1>6, <1>8, <2>3
    <3>2. A <= B
      BY <1>6, <2>1, <3>1, SpreadMonotone
    <3> HIDE DEF A, B
    <3>3. Sign(a) * A = A /\ Sign(b) * B = B
      BY <1>12, <3>1
    <3> QED
      BY <1>3, <1>12, <2>2, <3>2, <3>3
  <2>4. CASE a < 0 /\ b >= 0
    <3> HIDE DEF A, B
    <3>1. Sign(a) * A = -A /\ Sign(b) * B = B
      BY <1>8, <1>12, <2>4
    <3> HIDE DEF Sign
    <3> QED
      BY <1>3, <1>12, <2>2, <3>1
  <2>5. CASE a < 0 /\ b < 0
    <3> DEFINE c == -b
               d == -a
    <3>1. c \in Nat /\ d \in Nat /\ c <= d /\ b \in {c, -c} /\ a \in {d, -d}
      BY <1>6, <1>8, <2>5
    <3> HIDE DEF c, d
    <3>2. B <= A
      BY <2>1, <3>1, SpreadMonotone
    <3> HIDE DEF A, B
    <3>3. Sign(a) * A = -A /\ Sign(b) * B = -B
      BY <1>8, <1>12, <2>5
    <3> HIDE DEF Sign
    <3> QED
      BY <1>3, <1>12, <2>2, <3>2, <3>3
  <2> QED
    BY <1>8, <2>3, <2>4, <2>5
<1> QED
  BY <1>14, <1>15

(* None is not a number of hundredths.                                     *)
LEMMA NotHundred == NULL \notin Hundred /\ Hundred \subseteq Int
<1>1. NULL \notin Int
  BY ScoringAssumption
<1>2. Hundred \subseteq Int
  BY DEF Hundred
<1> QED
  BY <1>1, <1>2, Zenon

(* A factor never prefers the position with the lower value.               *)
LEMMA NeutralMonotone ==
  ASSUME NEW f, Column(f), NEW i \in DOMAIN f, NEW j \in DOMAIN f, Below(f[i], f[j])
  PROVE  OrNeutral(Normalised(f))[i] <= OrNeutral(Normalised(f))[j]
<1> DEFINE g == Normalised(f)
           N(k) == OrNeutral(g)[k]
<1>1. DOMAIN g = DOMAIN f /\ \A k \in DOMAIN f : g[k] \in Hundred \cup {NULL}
  BY NormalisedRange
<1>2. \A k \in DOMAIN f : g[k] = NULL <=> f[k] = NULL
  <2>1. \A k \in DOMAIN f : f[k] = NULL => g[k] = NULL
    BY DEF Normalised, Filled
  <2>2. \A k \in DOMAIN f : f[k] # NULL => g[k] \in Hundred
    BY NormalisedNumber
  <2>3. NULL \notin Hundred
    BY NotHundred
  <2> HIDE DEF g
  <2> QED
    BY <2>1, <2>2, <2>3
<1>3. OrNeutral(g) = [k \in DOMAIN g |-> IF g[k] = NULL THEN 50 ELSE g[k]]
  BY DEF OrNeutral
<1>4. f[i] # NULL /\ f[j] # NULL => g[i] <= g[j]
  BY NormalisedMonotone DEF Below
<1> HIDE DEF g
<1>5. CASE f[i] = NULL /\ f[j] = NULL
  <2>1. N(i) = 50 /\ N(j) = 50
    BY <1>1, <1>2, <1>3, <1>5
  <2> QED
    BY <2>1 DEF g
<1>6. CASE f[i] # NULL /\ f[j] # NULL
  <2>1. N(i) = g[i] /\ N(j) = g[j]
    BY <1>1, <1>2, <1>3, <1>6
  <2> QED
    BY <1>4, <1>6, <2>1 DEF g
<1> QED
  BY <1>5, <1>6 DEF Below

(* Negating turns the order of a column around. *)
LEMMA NegatedColumn ==
  ASSUME NEW f, Column(f), NEW i \in DOMAIN f, NEW j \in DOMAIN f
  PROVE  /\ Column(Negated(f)) /\ DOMAIN Negated(f) = DOMAIN f
         /\ Below(f[j], f[i]) => Below(Negated(f)[i], Negated(f)[j])
<1> DEFINE g == Negated(f)
<1>1. g = [k \in DOMAIN f |-> IF f[k] = NULL THEN NULL ELSE 0 - f[k]]
  BY DEF Negated
<1>2. \A k \in DOMAIN f : f[k] # NULL => f[k] \in Int
  BY DEF Column, Maybe
<1> HIDE DEF g
<1>3. DOMAIN g = DOMAIN f
  BY <1>1
<1>4. \A k \in DOMAIN f : /\ f[k] = NULL => g[k] = NULL
                          /\ f[k] # NULL => g[k] \in Int /\ g[k] = 0 - f[k]
  BY <1>1, <1>2
<1>5. Column(g)
  BY <1>3, <1>4 DEF Column, Maybe
<1>6. Below(f[j], f[i]) => Below(g[i], g[j])
  <2>1. CASE f[i] = NULL /\ f[j] = NULL
    BY <1>4, <2>1 DEF Below
  <2>2. CASE f[i] # NULL /\ f[j] # NULL
    <3> DEFINE a == f[i]
               b == f[j]
    <3>1. a \in Int /\ b \in Int /\ g[i] = 0 - a /\ g[j] = 0 - b /\ g[i] \in Int /\ g[j] \in Int
      BY <1>2, <1>4, <2>2
    <3>2. g[i] # NULL /\ g[j] # NULL
      <4>1. NULL \notin Int
        BY ScoringAssumption
      <4> QED
        BY <3>1, <4>1, Zenon
    <3>3. b <= a => g[i] <= g[j]
      <4> HIDE DEF a, b
      <4> QED
        BY <3>1
    <3> QED
      BY <2>2, <3>2, <3>3 DEF Below
  <2> QED
    BY <2>1, <2>2 DEF Below
<1> QED
  BY <1>3, <1>5, <1>6 DEF g

(* Lower is better. *)
LEMMA LowerBetter ==
  ASSUME NEW f, Column(f), NEW i \in DOMAIN f, NEW j \in DOMAIN f, Below(f[i], f[j])
  PROVE  OrNeutral(Normalised(Negated(f)))[i] >= OrNeutral(Normalised(Negated(f)))[j]
<1> DEFINE g == Negated(f)
<1>1. Column(g) /\ DOMAIN g = DOMAIN f /\ Below(g[j], g[i])
  BY NegatedColumn
<1> HIDE DEF g
<1>2. OrNeutral(Normalised(g))[j] <= OrNeutral(Normalised(g))[i]
  BY <1>1, NeutralMonotone
<1>3. OrNeutral(Normalised(g))[j] \in Int /\ OrNeutral(Normalised(g))[i] \in Int
  BY <1>1, NeutralRange DEF Hundred
<1> QED
  BY <1>2, <1>3 DEF g

(* The mean of what is present of two ratios, for which lower is better.   *)
LEMMA MeanMonotone ==
  ASSUME NEW f, Column(f), NEW g, Column(g), DOMAIN g = DOMAIN f,
         NEW i \in DOMAIN f, NEW j \in DOMAIN f, Below(f[i], f[j]), Below(g[i], g[j])
  PROVE  LET mean == MeanOfPresent(_normalize_lower_better(f), _normalize_lower_better(g))
         IN  mean[i] >= mean[j]
<1> DEFINE x == Normalised(Negated(f))
           y == Normalised(Negated(g))
           mean == MeanOfPresent(x, y)
<1>1. /\ Column(Negated(f)) /\ DOMAIN Negated(f) = DOMAIN f /\ Below(Negated(f)[j], Negated(f)[i])
      /\ Column(Negated(g)) /\ DOMAIN Negated(g) = DOMAIN f /\ Below(Negated(g)[j], Negated(g)[i])
  BY NegatedColumn
<1>2. ASSUME NEW h, Column(h), DOMAIN h = DOMAIN f, Below(h[j], h[i])
      PROVE  LET z == Normalised(h)
             IN  /\ DOMAIN z = DOMAIN f
                 /\ (z[i] = NULL /\ z[j] = NULL) \/ (z[i] \in Hundred /\ z[j] \in Hundred /\ z[j] <= z[i])
  <2>1. DOMAIN Normalised(h) = DOMAIN f
    BY <1>2, NormalisedRange
  <2>2. CASE h[j] = NULL /\ h[i] = NULL
    <3>1. Normalised(h)[i] = NULL /\ Normalised(h)[j] = NULL
      BY <1>2, <2>2 DEF Normalised, Filled
    <3> QED
      BY <2>1, <3>1
  <2>3. CASE h[j] # NULL /\ h[i] # NULL
    <3>1. Normalised(h)[j] <= Normalised(h)[i]
      BY <1>2, <2>3, NormalisedMonotone DEF Below
    <3>2. Normalised(h)[i] \in Hundred /\ Normalised(h)[j] \in Hundred
      BY <1>2, <2>3, NormalisedNumber
    <3> QED
      BY <2>1, <3>1, <3>2
  <2> QED
    BY <1>2, <2>2, <2>3 DEF Below
<1>3. /\ DOMAIN x = DOMAIN f
      /\ (x[i] = NULL /\ x[j] = NULL) \/ (x[i] \in Hundred /\ x[j] \in Hundred /\ x[j] <= x[i])
  BY <1>1, <1>2
<1>4. (y[i] = NULL /\ y[j] = NULL) \/ (y[i] \in Hundred /\ y[j] \in Hundred /\ y[j] <= y[i])
  BY <1>1, <1>2
<1>5. MeanOfPresent(_normalize_lower_better(f), _normalize_lower_better(g)) = mean
  BY DEF _normalize_lower_better
<1> HIDE DEF x, y
<1>6. ASSUME NEW k \in DOMAIN f
      PROVE  mean[k] = IF x[k] # NULL /\ y[k] # NULL THEN (x[k] + y[k]) \div 2
                       ELSE IF x[k] # NULL THEN x[k] ELSE IF y[k] # NULL THEN y[k] ELSE 50
  BY <1>3 DEF MeanOfPresent
<1> HIDE DEF mean
<1>7. NULL \notin Hundred /\ Hundred \subseteq Int
  BY NotHundred
<1>8. mean[j] <= mean[i]
  <2>1. CASE x[i] = NULL /\ y[i] = NULL
    BY <1>3, <1>4, <1>6, <1>7, <2>1
  <2>2. CASE x[i] = NULL /\ y[i] # NULL
    BY <1>3, <1>4, <1>6, <1>7, <2>2
  <2>3. CASE x[i] # NULL /\ y[i] = NULL
    BY <1>3, <1>4, <1>6, <1>7, <2>3
  <2>4. CASE x[i] # NULL /\ y[i] # NULL
    <3> DEFINE a == x[i] + y[i]
               b == x[j] + y[j]
    <3>1. x[j] # NULL /\ y[j] # NULL /\ a \in Int /\ b \in Int /\ b <= a
      <4>1. x[i] \in Hundred /\ x[j] \in Hundred /\ x[j] <= x[i] /\ y[i] \in Hundred /\ y[j] \in Hundred /\ y[j] <= y[i]
        BY <1>3, <1>4, <2>4
      <4>2. x[j] # NULL /\ y[j] # NULL
        BY <1>7, <4>1
      <4>3. \A p, q, r, s \in Int : q <= p /\ s <= r => q + s \in Int /\ p + r \in Int /\ q + s <= p + r
        OBVIOUS
      <4> QED
        BY <1>7, <4>1, <4>2, <4>3
    <3>2. mean[i] = a \div 2 /\ mean[j] = b \div 2
      BY <1>6, <2>4, <3>1
    <3> HIDE DEF a, b
    <3>3. 2 \in Nat \ {0}
      OBVIOUS
    <3>4. b \div 2 <= a \div 2
      BY <3>1, <3>3, QuotientMonotone
    <3> QED
      BY <3>2, <3>4
  <2> QED
    BY <2>1, <2>2, <2>3, <2>4
<1>9. mean[i] \in Int /\ mean[j] \in Int
  <2>1. ASSUME NEW k \in {i, j}
        PROVE  mean[k] \in Int
    <3>1. x[k] \in Hundred \cup {NULL} /\ y[k] \in Hundred \cup {NULL}
      BY <1>3, <1>4
    <3>2. k \in DOMAIN f
      OBVIOUS
    <3> DEFINE u == x[k]
               v == y[k]
    <3>3. mean[k] = IF u # NULL /\ v # NULL THEN (u + v) \div 2
                    ELSE IF u # NULL THEN u ELSE IF v # NULL THEN v ELSE 50
      BY <1>6, <3>2
    <3>4. (u # NULL => u \in Int) /\ (v # NULL => v \in Int)
      BY <1>7, <3>1
    <3> HIDE DEF u, v
    <3>5. CASE u # NULL /\ v # NULL
      <4>1. (u + v) \div 2 \in Int
        BY <3>4, <3>5
      <4> QED
        BY <3>3, <3>5, <4>1
    <3>6. CASE ~ (u # NULL /\ v # NULL)
      BY <3>3, <3>4, <3>6
    <3> QED
      BY <3>5, <3>6
  <2> QED
    BY <2>1
<1> QED
  BY <1>5, <1>8, <1>9

(* Rounding keeps the order. *)
LEMMA RoundMonotone ==
  ASSUME NEW a \in Int, NEW c \in Int, a <= c, NEW b \in Nat \ {0}
  PROVE  Round(a, b) <= Round(c, b)
<1> DEFINE x == 2 * a + b
           y == 2 * c + b
           d == 2 * b
<1>1. x \in Int /\ y \in Int /\ x <= y /\ d \in Nat \ {0}
  OBVIOUS
<1>2. Round(a, b) = x \div d /\ Round(c, b) = y \div d
  BY DEF Round
<1> HIDE DEF x, y, d
<1> QED
  BY <1>1, <1>2, QuotientMonotone

-----------------------------------------------------------------------------
(* Better scores higher *)

(* The positions of a pool, owned and weighed.                             *)
OwnedPool(pool) ==
  /\ IsFiniteSet(DOMAIN pool)
  /\ \A i \in DOMAIN pool : /\ pool[i].owned = TRUE /\ pool[i].weight \in Nat
                            /\ \A f \in Signals : pool[i][f] \in Maybe(Int)

(* What the factors compare are columns of numbers and gaps.               *)
LEMMA PoolColumns ==
  ASSUME NEW pool, OwnedPool(pool)
  PROVE  /\ Column([k \in DOMAIN pool |-> CleanRatio(pool[k].pe)])
         /\ Column([k \in DOMAIN pool |-> CleanRatio(pool[k].pb)])
         /\ Column([k \in DOMAIN pool |-> compute_momentum_score(pool[k])])
         /\ Column([k \in DOMAIN pool |-> pool[k].dist])
         /\ Column([k \in DOMAIN pool |-> pool[k].rsi])
         /\ Column([k \in DOMAIN pool |-> IF pool[k].owned THEN pool[k].weight \div 10 ELSE NULL])
         /\ Column([k \in DOMAIN pool |-> IF pool[k].last_buy = NULL THEN NULL
                                          ELSE Max({0, Min({COOLDOWN_DAYS, pool[k].last_buy})})])
<1>1. IsFiniteSet(DOMAIN pool)
  BY DEF OwnedPool
<1>2. ASSUME NEW k \in DOMAIN pool
      PROVE  /\ CleanRatio(pool[k].pe) \in Maybe(Int) /\ CleanRatio(pool[k].pb) \in Maybe(Int)
             /\ compute_momentum_score(pool[k]) \in Maybe(Int)
             /\ pool[k].dist \in Maybe(Int) /\ pool[k].rsi \in Maybe(Int)
             /\ (IF pool[k].owned THEN pool[k].weight \div 10 ELSE NULL) \in Maybe(Int)
             /\ (IF pool[k].last_buy = NULL THEN NULL
                 ELSE Max({0, Min({COOLDOWN_DAYS, pool[k].last_buy})})) \in Maybe(Int)
  <2> DEFINE p == pool[k]
  <2>1. /\ p.pe \in Maybe(Int) /\ p.pb \in Maybe(Int) /\ p.dist \in Maybe(Int) /\ p.rsi \in Maybe(Int)
        /\ p.perf_30d \in Maybe(Int) /\ p.perf_90d \in Maybe(Int) /\ p.perf_1y \in Maybe(Int)
        /\ p.last_buy \in Maybe(Int) /\ p.owned = TRUE /\ p.weight \in Nat
    BY DEF OwnedPool, Signals
  <2> HIDE DEF p
  <2>2. \A x \in Maybe(Int) : CleanRatio(x) \in Maybe(Int) /\ OrZero(x) \in Int
    BY DEF Maybe, CleanRatio, OrZero
  <2>3. compute_momentum_score(p) \in Maybe(Int)
    <3> DEFINE a == OrZero(p.perf_30d)
               b == OrZero(p.perf_90d)
               c == OrZero(p.perf_1y)
    <3>1. a \in Int /\ b \in Int /\ c \in Int
      BY <2>1, <2>2
    <3>2. compute_momentum_score(p) = NULL \/ compute_momentum_score(p) = 2 * a + 3 * b + 5 * c
      BY DEF compute_momentum_score
    <3> HIDE DEF a, b, c
    <3>3. 2 * a + 3 * b + 5 * c \in Int
      BY <3>1
    <3> QED
      BY <3>2, <3>3 DEF Maybe
  <2>4. p.weight \div 10 \in Int
    BY <2>1
  <2>5. p.last_buy # NULL => Max({0, Min({COOLDOWN_DAYS, p.last_buy})}) \in Int
    <3>1. SUFFICES ASSUME p.last_buy # NULL PROVE Max({0, Min({COOLDOWN_DAYS, p.last_buy})}) \in Int
      OBVIOUS
    <3>2. p.last_buy \in Int /\ COOLDOWN_DAYS \in Int
      BY <2>1, <3>1 DEF Maybe, COOLDOWN_DAYS
    <3>3. Min({COOLDOWN_DAYS, p.last_buy}) \in Int
      BY <3>2, MinOfTwo
    <3> HIDE DEF COOLDOWN_DAYS
    <3> QED
      BY <3>3, MaxOfTwo
  <2> QED
    BY <2>1, <2>2, <2>3, <2>4, <2>5 DEF Maybe, p
<1> QED
  BY <1>1, <1>2 DEF Column

(* A longer time since the last purchase counts no less.                   *)
LEMMA RecencyMonotone ==
  ASSUME NEW x \in Int, NEW y \in Int, x <= y
  PROVE  /\ Max({0, Min({COOLDOWN_DAYS, x})}) <= Max({0, Min({COOLDOWN_DAYS, y})})
         /\ Max({0, Min({COOLDOWN_DAYS, x})}) \in Int /\ Max({0, Min({COOLDOWN_DAYS, y})}) \in Int
<1> DEFINE Least(z) == Min({10, z})
<1>1. Least(x) \in Int /\ Least(y) \in Int /\ Least(x) <= Least(y)
  BY MinOfTwo
<1> HIDE DEF Least
<1>2. Max({0, Least(x)}) <= Max({0, Least(y)}) /\ Max({0, Least(x)}) \in Int /\ Max({0, Least(y)}) \in Int
  BY <1>1, MaxOfTwo
<1> QED
  BY <1>2 DEF Least, COOLDOWN_DAYS

(* BuyScore: what is no worse in any of the six factors has no lower score.*)
LEMMA GoodScores ==
  ASSUME NEW pool, OwnedPool(pool), NEW i \in DOMAIN pool, NEW j \in DOMAIN pool,
         AtLeastAsGood(pool[i], pool[j]), pool[i].weight <= pool[j].weight
  PROVE  BuyScore(pool)[i] >= BuyScore(pool)[j]
<1> DEFINE pe == [k \in DOMAIN pool |-> CleanRatio(pool[k].pe)]
           pb == [k \in DOMAIN pool |-> CleanRatio(pool[k].pb)]
           momentum == [k \in DOMAIN pool |-> compute_momentum_score(pool[k])]
           dist == [k \in DOMAIN pool |-> pool[k].dist]
           rsi == [k \in DOMAIN pool |-> pool[k].rsi]
           weight == [k \in DOMAIN pool |-> IF pool[k].owned THEN pool[k].weight \div 10 ELSE NULL]
           recency == [k \in DOMAIN pool |-> IF pool[k].last_buy = NULL THEN NULL
                                             ELSE Max({0, Min({COOLDOWN_DAYS, pool[k].last_buy})})]
<1>1. /\ Column(pe) /\ Column(pb) /\ Column(momentum) /\ Column(dist)
      /\ Column(rsi) /\ Column(weight) /\ Column(recency)
  BY PoolColumns
<1>2. /\ DOMAIN pe = DOMAIN pool /\ DOMAIN pb = DOMAIN pool /\ DOMAIN momentum = DOMAIN pool
      /\ DOMAIN dist = DOMAIN pool /\ DOMAIN rsi = DOMAIN pool
      /\ DOMAIN weight = DOMAIN pool /\ DOMAIN recency = DOMAIN pool
  OBVIOUS
<1>3. /\ Below(pe[i], pe[j]) /\ Below(pb[i], pb[j]) /\ Below(momentum[j], momentum[i])
      /\ Below(dist[i], dist[j]) /\ Below(rsi[i], rsi[j])
  BY DEF AtLeastAsGood, Below
<1>4. Below(weight[i], weight[j])
  <2> DEFINE v == pool[i].weight \div 10
             w == pool[j].weight \div 10
  <2>1. pool[i].weight \in Int /\ pool[j].weight \in Int /\ 10 \in Nat \ {0}
    BY DEF OwnedPool
  <2>2. v <= w /\ v \in Int /\ w \in Int
    BY <2>1, QuotientMonotone, DivLaws
  <2>3. weight[i] = v /\ weight[j] = w
    BY DEF OwnedPool
  <2> HIDE DEF v, w, weight
  <2>4. NULL \notin Int
    BY ScoringAssumption
  <2>5. v # NULL /\ w # NULL
    BY <2>2, <2>4, Zenon
  <2> QED
    BY <2>2, <2>3, <2>5 DEF Below
<1>5. Below(recency[j], recency[i])
  <2> DEFINE x == pool[j].last_buy
             y == pool[i].last_buy
             At(z) == Max({0, Min({COOLDOWN_DAYS, z})})
  <2>1. /\ recency[j] = IF x = NULL THEN NULL ELSE At(x)
        /\ recency[i] = IF y = NULL THEN NULL ELSE At(y)
    OBVIOUS
  <2>2. Below(x, y)
    BY DEF AtLeastAsGood, Below
  <2>3. x \in Maybe(Int) /\ y \in Maybe(Int)
    BY DEF OwnedPool, Signals
  <2> HIDE DEF x, y, recency
  <2>4. CASE x = NULL /\ y = NULL
    BY <2>1, <2>4 DEF Below
  <2>5. CASE x # NULL /\ y # NULL
    <3>1. x \in Int /\ y \in Int /\ x <= y
      BY <2>2, <2>3, <2>5 DEF Maybe, Below
    <3>2. At(x) <= At(y) /\ At(x) \in Int /\ At(y) \in Int
      BY <3>1, RecencyMonotone
    <3> HIDE DEF At
    <3>3. NULL \notin Int
      BY ScoringAssumption
    <3>4. At(x) # NULL /\ At(y) # NULL
      BY <3>2, <3>3, Zenon
    <3> QED
      BY <2>1, <2>5, <3>2, <3>4 DEF Below
  <2> QED
    BY <2>2, <2>4, <2>5 DEF Below
<1> HIDE DEF pe, pb, momentum, dist, rsi, weight, recency
<1> DEFINE A(k) == ValueFactor(pool)[k]     B(k) == MomentumFactor(pool)[k]
           C(k) == DistanceFactor(pool)[k]  D(k) == RsiFactor(pool)[k]
           E(k) == WeightFactor(pool)[k]    G(k) == RecencyFactor(pool)[k]
           S(k) == 20 * A(k) + 15 * B(k) + 20 * C(k) + 15 * D(k) + 20 * E(k) + 10 * G(k)
<1>6. A(j) <= A(i)
  <2>1. ValueFactor(pool) = MeanOfPresent(_normalize_lower_better(pe), _normalize_lower_better(pb))
    BY DEF ValueFactor, pe, pb
  <2>2. A(i) >= A(j)
    BY <1>1, <1>2, <1>3, <2>1, MeanMonotone
  <2>3. A(i) \in Int /\ A(j) \in Int
    BY ValueRange, NotHundred
  <2> HIDE DEF A
  <2> QED
    BY <2>2, <2>3
<1>7. B(j) <= B(i)
  <2>1. MomentumFactor(pool) = OrNeutral(Normalised(momentum))
    BY DEF MomentumFactor, momentum
  <2> QED
    BY <1>1, <1>2, <1>3, <2>1, NeutralMonotone
<1>8. C(i) >= C(j)
  <2>1. DistanceFactor(pool) = OrNeutral(Normalised(Negated(dist)))
    BY DEF DistanceFactor, dist
  <2> QED
    BY <1>1, <1>2, <1>3, <2>1, LowerBetter
<1>9. D(i) >= D(j)
  <2>1. RsiFactor(pool) = OrNeutral(Normalised(Negated(rsi)))
    BY DEF RsiFactor, rsi
  <2> QED
    BY <1>1, <1>2, <1>3, <2>1, LowerBetter
<1>10. E(i) >= E(j)
  <2>1. WeightFactor(pool) = OrNeutral(Normalised(Negated(weight)))
    BY DEF WeightFactor, weight
  <2> QED
    BY <1>1, <1>2, <1>4, <2>1, LowerBetter
<1>11. G(j) <= G(i)
  <2>1. RecencyFactor(pool) = OrNeutral(Normalised(recency))
    BY DEF RecencyFactor, recency
  <2> QED
    BY <1>1, <1>2, <1>5, <2>1, NeutralMonotone
<1>12. \A k \in DOMAIN pool : A(k) \in Hundred /\ B(k) \in Hundred /\ C(k) \in Hundred
                              /\ D(k) \in Hundred /\ E(k) \in Hundred /\ G(k) \in Hundred
  BY ValueRange, NeutralRange, NegatedDomain
     DEF MomentumFactor, DistanceFactor, RsiFactor, WeightFactor, RecencyFactor
<1>13. BuyScore(pool)[i] = Round(S(i), 100) /\ BuyScore(pool)[j] = Round(S(j), 100)
  BY DEF BuyScore
<1> HIDE DEF A, B, C, D, E, G
<1>14. S(i) \in Int /\ S(j) \in Int /\ S(j) <= S(i)
  <2> DEFINE a == A(i)   b == B(i)   c == C(i)   d == D(i)   e == E(i)   g == G(i)
             u == A(j)   v == B(j)   w == C(j)   x == D(j)   y == E(j)   z == G(j)
  <2>1. /\ a \in Int /\ b \in Int /\ c \in Int /\ d \in Int /\ e \in Int /\ g \in Int
        /\ u \in Int /\ v \in Int /\ w \in Int /\ x \in Int /\ y \in Int /\ z \in Int
    BY <1>12, NotHundred
  <2>2. u <= a /\ v <= b /\ c >= w /\ d >= x /\ e >= y /\ z <= g
    BY <1>6, <1>7, <1>8, <1>9, <1>10, <1>11
  <2>3. /\ S(i) = 20 * a + 15 * b + 20 * c + 15 * d + 20 * e + 10 * g
        /\ S(j) = 20 * u + 15 * v + 20 * w + 15 * x + 20 * y + 10 * z
    OBVIOUS
  <2> HIDE DEF a, b, c, d, e, g, u, v, w, x, y, z, S
  <2> QED
    BY <2>1, <2>2, <2>3
<1> HIDE DEF S
<1>15. 100 \in Nat \ {0}
  OBVIOUS
<1>16. Round(S(j), 100) <= Round(S(i), 100)
  BY <1>14, <1>15, RoundMonotone
<1>17. BuyScore(pool)[i] \in Int /\ BuyScore(pool)[j] \in Int
  BY ScoreRange, NotHundred
<1> QED
  BY <1>13, <1>16, <1>17

(* Of a kind and scored, with i no worse than j in anything.               *)
Outranks(ps, i, j) ==
  /\ ps[i].kind = ps[j].kind /\ ps[i].score # NULL /\ ps[j].score # NULL
  /\ AtLeastAsGood(ps[i], ps[j])

OrderedByMerit(ps) ==
  \A i, j \in DOMAIN ps : Outranks(ps, i, j) => ps[i].score >= ps[j].score

(* Owned, and weighed by value.                                            *)
OwnedAndWeighed(ps) ==
  /\ KnownList(ps)
  /\ \A i \in DOMAIN ps : ps[i].owned = TRUE /\ ps[i].weight \in Nat
  /\ \A i, j \in DOMAIN ps : OrZero(ps[i].value) <= OrZero(ps[j].value) => ps[i].weight <= ps[j].weight

(* What a comparison looks at is the same in a copy.                       *)
LEMMA MeritOfCopies ==
  ASSUME NEW ps, NEW qs, Copies(ps, qs), NEW i \in DOMAIN ps, NEW j \in DOMAIN ps
  PROVE  /\ AtLeastAsGood(qs[i], qs[j]) <=> AtLeastAsGood(ps[i], ps[j])
         /\ qs[i].kind = ps[i].kind
         /\ DOMAIN qs = DOMAIN ps
<1>1. \A k \in DOMAIN ps :
        /\ qs[k].kind = ps[k].kind /\ qs[k].pe = ps[k].pe /\ qs[k].pb = ps[k].pb
        /\ qs[k].dist = ps[k].dist /\ qs[k].rsi = ps[k].rsi /\ qs[k].value = ps[k].value
        /\ qs[k].last_buy = ps[k].last_buy
        /\ qs[k].perf_30d = ps[k].perf_30d /\ qs[k].perf_90d = ps[k].perf_90d
        /\ qs[k].perf_1y = ps[k].perf_1y
  BY DEF Copies, Facts
<1>2. \A k \in DOMAIN ps : compute_momentum_score(qs[k]) = compute_momentum_score(ps[k])
  BY <1>1 DEF compute_momentum_score
<1>3. AtLeastAsGood(qs[i], qs[j]) <=> AtLeastAsGood(ps[i], ps[j])
  BY <1>1, <1>2 DEF AtLeastAsGood
<1> QED
  BY <1>1, <1>3 DEF Copies

(* Other weights leave the order of the scores as it is.                   *)
LEMMA OrderKept ==
  ASSUME NEW ps, NEW qs, Copies(ps, qs), \A i \in DOMAIN ps : qs[i].score = ps[i].score,
         OrderedByMerit(ps)
  PROVE  OrderedByMerit(qs)
<1>1. DOMAIN qs = DOMAIN ps
  BY DEF Copies
<1>2. ASSUME NEW i \in DOMAIN ps, NEW j \in DOMAIN ps, Outranks(qs, i, j)
      PROVE  qs[i].score >= qs[j].score
  <2>1. Outranks(ps, i, j)
    BY <1>2, MeritOfCopies DEF Outranks
  <2>2. ps[i].score >= ps[j].score
    BY <2>1 DEF OrderedByMerit
  <2> QED
    BY <2>2
<1> QED
  BY <1>1, <1>2 DEF OrderedByMerit

(* The weight of a position grows with its value.                          *)
LEMMA WeighedByValue ==
  ASSUME NEW ps, KnownList(ps), \A i \in DOMAIN ps : ps[i].owned = TRUE
  PROVE  OwnedAndWeighed(compute_portfolio_weights(ps))
<1> DEFINE total == TotalValue(ps)
           worth == [i \in DOMAIN ps |-> OrZero(ps[i].value)]
           qs == compute_portfolio_weights(ps)
<1>1. total \in Nat /\ \A i \in DOMAIN ps : worth[i] \in Nat
  BY TotalNatural DEF KnownList, Known
<1>2. Copies(ps, qs) /\ \A i \in DOMAIN ps : qs[i].weight \in Nat
  BY WeighedKnown
<1>3. KnownList(qs) /\ DOMAIN qs = DOMAIN ps
  BY <1>2, CopiesAgree DEF Copies
<1>4. \A i \in DOMAIN ps : qs[i].owned = TRUE /\ OrZero(qs[i].value) = worth[i]
  BY <1>2 DEF Copies, Facts
<1>5. \A i \in DOMAIN ps : qs[i].weight = IF total = 0 THEN 0 ELSE Round(10000 * worth[i], total)
  <2>1. \A i \in DOMAIN ps : "weight" \in DOMAIN ps[i]
    BY DEF KnownList, Known
  <2> QED
    BY <2>1 DEF compute_portfolio_weights
<1> HIDE DEF total, worth, qs
<1>6. ASSUME NEW i \in DOMAIN ps, NEW j \in DOMAIN ps, worth[i] <= worth[j]
      PROVE  qs[i].weight <= qs[j].weight
  <2>1. CASE total = 0
    <3>1. qs[i].weight = 0 /\ qs[j].weight = 0
      BY <1>5, <2>1
    <3> QED
      BY <3>1
  <2>2. CASE total # 0
    <3> DEFINE a == worth[i]
               b == worth[j]
               x == 10000 * a
               y == 10000 * b
    <3>1. a \in Int /\ b \in Int /\ a <= b
      BY <1>1, <1>6
    <3>2. qs[i].weight = Round(x, total) /\ qs[j].weight = Round(y, total)
      BY <1>5, <2>2
    <3> HIDE DEF a, b
    <3>3. x \in Int /\ y \in Int /\ x <= y /\ total \in Nat \ {0}
      BY <1>1, <2>2, <3>1
    <3> HIDE DEF x, y
    <3> QED
      BY <3>2, <3>3, RoundMonotone
  <2> QED
    BY <2>1, <2>2
<1>7. \A i, j \in DOMAIN qs : OrZero(qs[i].value) <= OrZero(qs[j].value) => qs[i].weight <= qs[j].weight
  BY <1>3, <1>4, <1>6
<1> QED
  BY <1>2, <1>3, <1>4, <1>7 DEF OwnedAndWeighed, qs

(* compute_scores orders by merit, in each of the two pools.               *)
LEMMA ScoredByMerit ==
  ASSUME NEW ps, OwnedAndWeighed(ps)
  PROVE  OrderedByMerit(compute_scores(ps))
<1> DEFINE etfs == PoolScores(PoolOf(ps, "ETF"))
           stocks == PoolScores(PoolOf(ps, "STOCK"))
           qs == compute_scores(ps)
<1>1. KnownList(ps) /\ IsFiniteSet(DOMAIN ps)
  BY PlacesFinite DEF OwnedAndWeighed, KnownList, List
<1>2. Copies(ps, qs)
  BY <1>1, ScoredKnown
<1>3. \A i \in DOMAIN ps : qs[i].score = IF i \in DOMAIN etfs THEN etfs[i]
                                         ELSE IF i \in DOMAIN stocks THEN stocks[i] ELSE NULL
  <2>1. \A i \in DOMAIN ps : "score" \in DOMAIN ps[i]
    BY <1>1 DEF KnownList, Known
  <2> QED
    BY <2>1 DEF compute_scores, WithScores
<1> HIDE DEF qs
<1>4. ASSUME NEW kind
      PROVE  LET pool == PoolOf(ps, kind)
             IN  /\ DOMAIN PoolScores(pool) = DOMAIN pool
                 /\ \A i \in DOMAIN pool : i \in DOMAIN ps /\ ps[i].kind = kind /\ pool[i] = ps[i]
                 /\ \A i \in DOMAIN ps : ps[i].kind = kind => i \in DOMAIN pool
                 /\ \A i \in DOMAIN pool : PoolScores(pool)[i] # NULL => PoolScores(pool)[i] = BuyScore(pool)[i]
                 /\ OwnedPool(pool)
  <2> DEFINE pool == PoolOf(ps, kind)
  <2>1. pool = [i \in {k \in DOMAIN ps : ps[k].kind = kind} |-> ps[i]]
    BY DEF PoolOf
  <2> HIDE DEF pool
  <2>2. /\ \A i \in DOMAIN pool : i \in DOMAIN ps /\ ps[i].kind = kind /\ pool[i] = ps[i]
        /\ \A i \in DOMAIN ps : ps[i].kind = kind => i \in DOMAIN pool
    BY <2>1
  <2>3. /\ DOMAIN PoolScores(pool) = DOMAIN pool
        /\ \A i \in DOMAIN pool : PoolScores(pool)[i] # NULL => PoolScores(pool)[i] = BuyScore(pool)[i]
    BY DEF PoolScores
  <2>4. IsFiniteSet(DOMAIN pool)
    <3>1. DOMAIN pool \subseteq DOMAIN ps
      BY <2>2
    <3> QED
      BY <1>1, <3>1, FS_Subset
  <2>5. \A i \in DOMAIN pool : /\ pool[i].owned = TRUE /\ pool[i].weight \in Nat
                               /\ \A f \in Signals : pool[i][f] \in Maybe(Int)
    BY <2>2 DEF OwnedAndWeighed, KnownList, Known
  <2> QED
    BY <2>2, <2>3, <2>4, <2>5 DEF OwnedPool, pool
<1>5. ASSUME NEW kind, NEW i \in DOMAIN PoolOf(ps, kind), NEW j \in DOMAIN PoolOf(ps, kind),
             AtLeastAsGood(ps[i], ps[j])
      PROVE  BuyScore(PoolOf(ps, kind))[i] >= BuyScore(PoolOf(ps, kind))[j]
  <2> DEFINE pool == PoolOf(ps, kind)
  <2>1. /\ OwnedPool(pool) /\ pool[i] = ps[i] /\ pool[j] = ps[j]
        /\ i \in DOMAIN ps /\ j \in DOMAIN ps
    BY <1>4
  <2>2. OrZero(ps[i].value) <= OrZero(ps[j].value)
    <3>1. OrZero(ps[i].value) \in Nat /\ OrZero(ps[j].value) \in Nat
      BY <1>1, <2>1, TotalNatural DEF KnownList, Known
    <3>2. NULL \notin Nat
      <4>1. NULL \notin Int
        BY ScoringAssumption
      <4>2. \A n \in Nat : n \in Int
        OBVIOUS
      <4> QED
        BY <4>1, <4>2, Zenon
    <3>3. OrZero(ps[i].value) # NULL
      BY <3>1, <3>2, Zenon
    <3> HIDE DEF OrZero
    <3> QED
      BY <1>5, <3>3 DEF AtLeastAsGood
  <2>3. ps[i].weight <= ps[j].weight
    BY <2>1, <2>2 DEF OwnedAndWeighed
  <2> HIDE DEF pool
  <2>4. i \in DOMAIN pool /\ j \in DOMAIN pool
    BY DEF pool
  <2>5. BuyScore(pool)[i] >= BuyScore(pool)[j]
    BY <1>5, <2>1, <2>3, <2>4, GoodScores
  <2> QED
    BY <2>5 DEF pool
<1>6. ASSUME NEW i \in DOMAIN ps, NEW j \in DOMAIN ps, Outranks(qs, i, j)
      PROVE  qs[i].score >= qs[j].score
  <2>1. ps[i].kind = ps[j].kind /\ AtLeastAsGood(ps[i], ps[j]) /\ qs[i].score # NULL /\ qs[j].score # NULL
    BY <1>2, <1>6, MeritOfCopies DEF Outranks
  <2>2. CASE ps[i].kind = "ETF"
    <3>1. i \in DOMAIN PoolOf(ps, "ETF") /\ j \in DOMAIN PoolOf(ps, "ETF")
      BY <1>4, <2>1, <2>2
    <3>2. BuyScore(PoolOf(ps, "ETF"))[i] >= BuyScore(PoolOf(ps, "ETF"))[j]
      BY <1>5, <2>1, <3>1
    <3>3. qs[i].score = etfs[i] /\ qs[j].score = etfs[j]
      BY <1>3, <1>4, <3>1
    <3> QED
      BY <1>4, <2>1, <3>1, <3>2, <3>3
  <2>3. CASE ps[i].kind = "STOCK"
    <3>1. /\ i \in DOMAIN PoolOf(ps, "STOCK") /\ j \in DOMAIN PoolOf(ps, "STOCK")
          /\ i \notin DOMAIN etfs /\ j \notin DOMAIN etfs
      BY <1>4, <2>1, <2>3
    <3>2. BuyScore(PoolOf(ps, "STOCK"))[i] >= BuyScore(PoolOf(ps, "STOCK"))[j]
      BY <1>5, <2>1, <3>1
    <3>3. qs[i].score = stocks[i] /\ qs[j].score = stocks[j]
      BY <1>3, <1>4, <3>1
    <3> QED
      BY <1>4, <2>1, <3>1, <3>2, <3>3
  <2>4. CASE ps[i].kind # "ETF" /\ ps[i].kind # "STOCK"
    <3>1. i \notin DOMAIN etfs /\ i \notin DOMAIN stocks
      BY <1>4, <2>4
    <3> QED
      BY <1>3, <2>1, <3>1
  <2> QED
    BY <2>2, <2>3, <2>4
<1>7. DOMAIN qs = DOMAIN ps
  BY <1>2 DEF Copies
<1>8. OrderedByMerit(qs)
  BY <1>6, <1>7 DEF OrderedByMerit
<1> QED
  BY <1>8 DEF qs

OrderInv == AnalysisInv /\ (portfolio # NULL => OrderedByMerit(portfolio.positions))

(* compute_scores: whatever the market, the session never holds two scored *)
(* positions of a kind of which the one that is no worse in anything has   *)
(* the lower score.                                                        *)
THEOREM BetterScores == Spec => []BetterScoresHigher
<1>1. Init => OrderInv
  <2>1. Init => AnalysisInv
    BY DEF Init, AnalysisInv, PortfolioInv, PlanInv, Maybe
  <2> QED
    BY <2>1 DEF Init, OrderInv
<1>2. OrderInv /\ AnalysisInv' /\ [Next]_vars => OrderInv'
  <2> SUFFICES ASSUME OrderInv, AnalysisInv', [Next]_vars, portfolio' # NULL
               PROVE  OrderedByMerit(portfolio'.positions)
    BY DEF OrderInv
  <2>1. CASE EnrichAndScore
    <3>1. PICK market \in Markets : \E quotes \in WatchMarkets :
            LET held == [i \in DOMAIN Held |-> Position(Held[i], market[Held[i]], TRUE)]
                watch == [i \in DOMAIN Watched |-> Position(Watched[i], quotes[Watched[i]], FALSE)]
                owned == compute_scores(compute_portfolio_weights(held))
                top == get_top_candidates(owned, 3)
            IN  \/ portfolio' = Summary(owned, top)
                \/ portfolio' = Summary(owned, merge_watchlist_candidates(owned, watch, top, 3))
      BY <2>1 DEF EnrichAndScore
    <3> DEFINE held == [i \in DOMAIN Held |-> Position(Held[i], market[Held[i]], TRUE)]
               owned == compute_scores(compute_portfolio_weights(held))
    <3>2. portfolio'.positions = owned
      BY <3>1 DEF Summary
    <3>3. KnownList(held)
      BY AnalysisAssumption, FoundKnown
    <3>4. \A i \in DOMAIN held : held[i].owned = TRUE
      <4>1. ASSUME NEW i \in DOMAIN Held PROVE held[i].owned = TRUE
        <5>1. "owned" \in DOMAIN market[Held[i]]
          BY AnalysisAssumption DEF Findable
        <5> QED
          BY <5>1 DEF Position
      <4> QED
        BY <4>1
    <3> HIDE DEF held
    <3>5. OwnedAndWeighed(compute_portfolio_weights(held))
      BY <3>3, <3>4, WeighedByValue
    <3> QED
      BY <3>2, <3>5, ScoredByMerit
  <2>2. ASSUME NEW amount \in Amounts, NEW total_portfolio_eur \in Maybe(Totals),
               MakePlan(amount, total_portfolio_eur)
        PROVE  OrderedByMerit(portfolio'.positions)
    <3> DEFINE old == portfolio.positions
    <3>1. /\ portfolio # NULL /\ OrderedByMerit(old) /\ KnownList(old) /\ "positions" \in DOMAIN portfolio
      BY <2>2 DEF MakePlan, OrderInv, AnalysisInv, PortfolioInv
    <3>2. \/ portfolio'.positions = old
          \/ Valued(old) /\ total_portfolio_eur # NULL /\ total_portfolio_eur > 0
             /\ portfolio'.positions = Reweighed(old, total_portfolio_eur)
      BY <2>2, <3>1 DEF MakePlan
    <3>3. total_portfolio_eur # NULL /\ total_portfolio_eur > 0 => total_portfolio_eur \in Nat \ {0}
      <4>1. total_portfolio_eur # NULL => total_portfolio_eur \in Int
        BY AnalysisAssumption DEF Maybe
      <4> QED
        BY <4>1
    <3> HIDE DEF old
    <3>4. CASE portfolio'.positions = Reweighed(old, total_portfolio_eur) /\ Valued(old)
               /\ total_portfolio_eur \in Nat \ {0}
      <4> DEFINE qs == Reweighed(old, total_portfolio_eur)
      <4>1. Copies(old, qs) /\ \A i \in DOMAIN old : qs[i].score = old[i].score
        BY <3>1, <3>4, ReweighedKnown
      <4> HIDE DEF qs
      <4>2. OrderedByMerit(qs)
        BY <3>1, <4>1, OrderKept
      <4> QED
        BY <3>4, <4>2 DEF qs
    <3> QED
      BY <3>1, <3>2, <3>3, <3>4
  <2>3. CASE UNCHANGED portfolio
    BY <2>3 DEF OrderInv
  <2>4. CASE Discard
    BY <2>4 DEF Discard
  <2> QED
    BY <2>1, <2>2, <2>3, <2>4 DEF Next, get_rebalance_plan, RefusePlan, EmptyPlan, vars
<1>3. OrderInv => BetterScoresHigher
  BY DEF OrderInv, OrderedByMerit, Outranks, BetterScoresHigher
<1> QED
  BY <1>1, <1>2, <1>3, AnalysisSafe, PTL DEF Spec
=============================================================================
