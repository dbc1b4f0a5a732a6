------------------------ MODULE Comprehension_proofs ------------------------
(***************************************************************************)
(* What is left of a list of anything, and that sorting it loses nothing.  *)
(***************************************************************************)
EXTENDS Comprehension, Sequences, FiniteSetTheorems, TLAPS

-----------------------------------------------------------------------------
(* Counting the items of a list *)

(* The places that are kept are finitely many, no more than there are      *)
(* items.                                                                  *)
LEMMA PositionsFinite ==
  ASSUME NEW T, NEW items \in Seq(T), NEW kept \in SUBSET DOMAIN items
  PROVE  /\ IsFiniteSet(kept) /\ kept \subseteq Nat
         /\ Cardinality(kept) \in Nat
         /\ Cardinality(kept) <= Len(items)
<1> DEFINE L == Len(items)
<1>1. DOMAIN items = 1..L /\ L \in Nat
  OBVIOUS
<1> HIDE DEF L
<1>2. IsFiniteSet(1..L) /\ Cardinality(1..L) = L
  BY <1>1, FS_Interval, Z3
<1>3. IsFiniteSet(kept) /\ Cardinality(kept) <= L
  BY <1>1, <1>2, FS_Subset
<1> QED
  BY <1>3, FS_CardinalityType DEF L

(* Every position that is kept has a place of its own among those that     *)
(* are, and every place is taken.                                          *)
LEMMA Places ==
  ASSUME NEW kept, IsFiniteSet(kept), kept \subseteq Nat
  PROVE  /\ \A k \in kept : Place(kept, k) \in 1..Cardinality(kept)
         /\ \A j, k \in kept : Place(kept, j) = Place(kept, k) => j = k
         /\ \A n \in 1..Cardinality(kept) : \E k \in kept : Place(kept, k) = n
<1> DEFINE UpTo(k) == {j \in kept : j <= k}
           place == [k \in kept |-> Cardinality(UpTo(k))]
           N == 1..Cardinality(kept)
<1>1. IsFiniteSet(kept) /\ Cardinality(kept) \in Nat /\ kept \subseteq Nat
  BY FS_CardinalityType
<1>2. \A k \in kept : /\ IsFiniteSet(UpTo(k))
                      /\ Cardinality(UpTo(k)) \in Nat
                      /\ Cardinality(UpTo(k)) <= Cardinality(kept)
                      /\ Cardinality(UpTo(k)) # 0
  <2> SUFFICES ASSUME NEW k \in kept
               PROVE  /\ IsFiniteSet(UpTo(k))
                      /\ Cardinality(UpTo(k)) \in Nat
                      /\ Cardinality(UpTo(k)) <= Cardinality(kept)
                      /\ Cardinality(UpTo(k)) # 0
    OBVIOUS
  <2>1. UpTo(k) \in SUBSET kept /\ k \in UpTo(k)
    BY <1>1
  <2>2. IsFiniteSet(UpTo(k)) /\ Cardinality(UpTo(k)) <= Cardinality(kept)
    BY <1>1, <2>1, FS_Subset
  <2>3. Cardinality(UpTo(k)) \in Nat
    BY <2>2, FS_CardinalityType
  <2>4. Cardinality(UpTo(k)) # 0
    BY <2>1, <2>2, FS_EmptySet
  <2> HIDE DEF UpTo
  <2> QED
    BY <2>2, <2>3, <2>4
<1>3. place \in [kept -> N]
  <2> HIDE DEF UpTo
  <2> QED
    BY <1>1, <1>2
<1>4. ASSUME NEW j \in kept, NEW k \in kept, j < k
      PROVE  place[j] # place[k]
  <2>1. UpTo(j) \in SUBSET UpTo(k) /\ k \in UpTo(k) /\ k \notin UpTo(j)
    <3>1. \A x \in kept : x \in Nat
      BY <1>1
    <3>2. \A x \in kept : x <= j => x <= k
      BY <3>1, <1>4
    <3>3. k <= k /\ ~ (k <= j)
      BY <3>1, <1>4
    <3> QED
      BY <3>2, <3>3
  <2>2. UpTo(j) # UpTo(k)
    BY <2>1
  <2>3. Cardinality(UpTo(j)) # Cardinality(UpTo(k))
    <3> HIDE DEF UpTo
    <3> QED
      BY <1>2, <2>1, <2>2, FS_Subset
  <2> HIDE DEF UpTo
  <2> QED
    BY <2>3
<1>5. place \in Injection(kept, N)
  <2> HIDE DEF place
  <2>1. \A j, k \in kept : place[j] = place[k] => j = k
    BY <1>1, <1>4
  <2> QED
    BY <1>3, <2>1 DEF Injection, IsInjective
<1>6. IsFiniteSet(N) /\ Cardinality(N) = Cardinality(kept)
  BY <1>1, FS_Interval, Z3
<1>7. place \in Surjection(kept, N)
  <2> HIDE DEF place, N
  <2> QED
    BY <1>5, <1>6, FS_Injection
<1>8. \A k \in kept : Cardinality(UpTo(k)) \in N
  BY <1>3
<1>9. \A j, k \in kept : Cardinality(UpTo(j)) = Cardinality(UpTo(k)) => j = k
  BY <1>5 DEF Injection, IsInjective
<1>10. \A n \in N : \E k \in kept : Cardinality(UpTo(k)) = n
  BY <1>7 DEF Surjection
<1> QED
  BY <1>8, <1>9, <1>10 DEF Place

-----------------------------------------------------------------------------
(* What stays of a list *)

(* A place for each kept position, in order: nothing is lost, nothing is   *)
(* there twice.                                                            *)
LEMMA ItemsStay ==
  ASSUME NEW T, NEW items \in Seq(T), NEW kept \in SUBSET DOMAIN items
  PROVE  LET after == ItemsAt(items, kept)
         IN  /\ after \in Seq(T)
             /\ Len(after) = Cardinality(kept)
             /\ Len(after) <= Len(items)
             /\ \A n \in DOMAIN after : \E k \in kept :
                  /\ after[n] = items[k]
                  /\ Place(kept, k) = n
             /\ \A k \in kept : \E n \in DOMAIN after : after[n] = items[k]
<1> DEFINE Nth(n) == CHOOSE k \in kept : Place(kept, k) = n
           after == ItemsAt(items, kept)
           C == Cardinality(kept)
<1>1. C \in Nat /\ C <= Len(items) /\ IsFiniteSet(kept) /\ kept \subseteq Nat
  BY PositionsFinite
<1>2. after = [n \in 1..C |-> items[Nth(n)]]
  BY DEF ItemsAt
<1>3. /\ \A k \in kept : Place(kept, k) \in 1..C
      /\ \A j, k \in kept : Place(kept, j) = Place(kept, k) => j = k
      /\ \A n \in 1..C : \E k \in kept : Place(kept, k) = n
  BY <1>1, Places
<1> HIDE DEF C, after
<1>4. \A n \in 1..C : Nth(n) \in kept /\ Place(kept, Nth(n)) = n
  BY <1>3
<1>5. \A k \in kept : Nth(Place(kept, k)) = k
  BY <1>3, <1>4
<1> HIDE DEF Nth
<1>6. \A n \in 1..C : items[Nth(n)] \in T
  BY <1>4
<1>7. after \in Seq(T) /\ Len(after) = C /\ DOMAIN after = 1..C
  BY <1>1, <1>2, <1>6
<1>8. \A n \in DOMAIN after : \E k \in kept : after[n] = items[k] /\ Place(kept, k) = n
  BY <1>2, <1>4, <1>7
<1>9. \A k \in kept : \E n \in DOMAIN after : after[n] = items[k]
  BY <1>2, <1>3, <1>5, <1>7
<1> QED
  BY <1>1, <1>7, <1>8, <1>9 DEF after, C

(* The same as a function: where each item that stays comes from.          *)
LEMMA Origin ==
  ASSUME NEW T, NEW items \in Seq(T), NEW kept \in SUBSET DOMAIN items
  PROVE  \E from \in [DOMAIN ItemsAt(items, kept) -> kept] :
            /\ \A n \in DOMAIN ItemsAt(items, kept) : ItemsAt(items, kept)[n] = items[from[n]]
            /\ \A m, n \in DOMAIN ItemsAt(items, kept) : from[m] = from[n] => m = n
            /\ \A k \in kept : \E n \in DOMAIN ItemsAt(items, kept) : from[n] = k
<1> DEFINE after == ItemsAt(items, kept)
           Nth(n) == CHOOSE k \in kept : after[n] = items[k] /\ Place(kept, k) = n
           from == [n \in DOMAIN after |-> Nth(n)]
<1>1. \A n \in DOMAIN after : \E k \in kept : after[n] = items[k] /\ Place(kept, k) = n
  BY ItemsStay
<1>2. after \in Seq(T) /\ Len(after) = Cardinality(kept)
  BY ItemsStay
<1>3. /\ \A k \in kept : Place(kept, k) \in 1..Cardinality(kept)
      /\ \A j, k \in kept : Place(kept, j) = Place(kept, k) => j = k
  BY PositionsFinite, Places
<1> HIDE DEF after
<1>4. \A n \in DOMAIN after : Nth(n) \in kept /\ after[n] = items[Nth(n)] /\ Place(kept, Nth(n)) = n
  BY <1>1
<1> HIDE DEF Nth
<1>5. DOMAIN after = 1..Cardinality(kept)
  BY <1>2
<1>6. /\ from \in [DOMAIN after -> kept]
      /\ \A n \in DOMAIN after : from[n] = Nth(n)
  BY <1>4
<1> HIDE DEF from
<1>7. \A n \in DOMAIN after : after[n] = items[from[n]]
  BY <1>4, <1>6
<1>8. \A m, n \in DOMAIN after : from[m] = from[n] => m = n
  BY <1>4, <1>6
<1>9. ASSUME NEW k \in kept
      PROVE  \E n \in DOMAIN after : from[n] = k
  BY <1>3, <1>4, <1>5, <1>6
<1> QED
  BY <1>6, <1>7, <1>8, <1>9 DEF after

-----------------------------------------------------------------------------
(* Sorting *)

(* In a finite set with a strict total order there is one for every place: *)
(* the element that so many come before.                                   *)
LEMMA OrderedPlaces ==
  ASSUME NEW S, IsFiniteSet(S), NEW before,
         \A i \in S : <<i, i>> \notin before,
         \A i, j, k \in S : <<i, j>> \in before /\ <<j, k>> \in before => <<i, k>> \in before,
         \A i, j \in S : i # j => <<i, j>> \in before \/ <<j, i>> \in before
  PROVE  \A n \in 1..Cardinality(S) :
           \E i \in S : Cardinality({j \in S : <<j, i>> \in before}) = n - 1
<1> DEFINE Ahead(i) == {j \in S : <<j, i>> \in before}
           UpTo(i) == Ahead(i) \cup {i}
           place == [i \in S |-> Cardinality(UpTo(i))]
           N == 1..Cardinality(S)
<1>1. IsFiniteSet(S) /\ Cardinality(S) \in Nat
  BY FS_CardinalityType
<1>2. ASSUME NEW i \in S
      PROVE  /\ IsFiniteSet(UpTo(i)) /\ UpTo(i) \in SUBSET S
             /\ Cardinality(Ahead(i)) \in Nat
             /\ Cardinality(UpTo(i)) = Cardinality(Ahead(i)) + 1
             /\ Cardinality(UpTo(i)) <= Cardinality(S)
  <2>1. Ahead(i) \in SUBSET S /\ UpTo(i) \in SUBSET S /\ i \notin Ahead(i)
    OBVIOUS
  <2> HIDE DEF Ahead
  <2>2. IsFiniteSet(Ahead(i)) /\ IsFiniteSet(UpTo(i)) /\ Cardinality(UpTo(i)) <= Cardinality(S)
    BY <1>1, <2>1, FS_Subset
  <2>3. Cardinality(Ahead(i)) \in Nat
    BY <2>2, FS_CardinalityType
  <2>4. Cardinality(UpTo(i)) = Cardinality(Ahead(i)) + 1
    BY <2>1, <2>2, FS_AddElement
  <2> QED
    BY <2>1, <2>2, <2>3, <2>4
<1>3. place \in [S -> N]
  <2> HIDE DEF UpTo, Ahead
  <2> QED
    BY <1>1, <1>2
<1>4. ASSUME NEW i \in S, NEW j \in S, <<i, j>> \in before
      PROVE  place[i] # place[j]
  <2>1. UpTo(i) \in SUBSET UpTo(j) /\ j \in UpTo(j) /\ j \notin UpTo(i)
    BY <1>4
  <2>2. UpTo(i) # UpTo(j)
    BY <2>1
  <2> HIDE DEF UpTo
  <2>3. Cardinality(UpTo(i)) # Cardinality(UpTo(j))
    BY <1>2, <2>1, <2>2, FS_Subset
  <2> QED
    BY <2>3
<1>5. place \in Injection(S, N)
  <2> HIDE DEF place
  <2>1. \A i, j \in S : place[i] = place[j] => i = j
    BY <1>4
  <2> QED
    BY <1>3, <2>1 DEF Injection, IsInjective
<1>6. IsFiniteSet(N) /\ Cardinality(N) = Cardinality(S)
  BY <1>1, FS_Interval, Z3
<1>7. place \in Surjection(S, N)
  <2> HIDE DEF place, N
  <2> QED
    BY <1>5, <1>6, FS_Injection
<1>8. ASSUME NEW n \in N
      PROVE  \E i \in S : Cardinality(Ahead(i)) = n - 1
  <2>1. PICK i \in S : Cardinality(UpTo(i)) = n
    BY <1>7 DEF Surjection
  <2> HIDE DEF UpTo, Ahead
  <2>2. Cardinality(Ahead(i)) = n - 1
    BY <1>2, <2>1
  <2> QED
    BY <2>2
<1> QED
  BY <1>8

(* A strict weak order of the places of a list, what a sort may go by, as  *)
(* the function from a place to those whose items are less.                *)
WeakOrder(less, D) ==
  /\ \A i \in D : i \notin less[i]
  /\ \A i, j, k \in D : i \in less[j] /\ j \in less[k] => i \in less[k]
  /\ \A i, j, k \in D : i \in less[k] => i \in less[j] \/ j \in less[k]

(* What a stable sort puts before the item at place i.                     *)
Earlier(less, D, i) == {j \in D : j \in less[i] \/ (i \notin less[j] /\ j < i)}

(* It puts something in every place.                                       *)
LEMMA SortedPlaces ==
  ASSUME NEW L \in Nat, NEW less, WeakOrder(less, 1..L)
  PROVE  \A n \in 1..L : \E i \in 1..L : Cardinality(Earlier(less, 1..L, i)) = n - 1
<1> DEFINE D == 1..L
           before == {r \in D \X D : r[1] \in Earlier(less, D, r[2])}
<1>1. D \subseteq Int /\ WeakOrder(less, D)
  OBVIOUS
<1>2. IsFiniteSet(D) /\ Cardinality(D) = L
  BY FS_Interval, Z3
<1>3. \A i, j \in D : <<j, i>> \in before <=> (j \in less[i] \/ (i \notin less[j] /\ j < i))
  BY DEF Earlier
<1>4. \A i \in D : Earlier(less, D, i) = {j \in D : <<j, i>> \in before}
  BY DEF Earlier
<1> HIDE DEF before, D
<1>5. \A i \in D : <<i, i>> \notin before
  BY <1>1, <1>3 DEF WeakOrder
<1>6. \A i, j, k \in D : <<i, j>> \in before /\ <<j, k>> \in before => <<i, k>> \in before
  BY <1>1, <1>3 DEF WeakOrder
<1>7. \A i, j \in D : i # j => <<i, j>> \in before \/ <<j, i>> \in before
  BY <1>1, <1>3
<1>8. \A n \in 1..Cardinality(D) :
        \E i \in D : Cardinality({j \in D : <<j, i>> \in before}) = n - 1
  <2>1. IsFiniteSet(D)
    BY <1>2
  <2> QED
    BY <1>5, <1>6, <1>7, <2>1, OrderedPlaces
<1> QED
  BY <1>2, <1>4, <1>8 DEF D

-----------------------------------------------------------------------------
(* Adding up *)

(* Induction over the naturals, for a set. *)
LEMMA NatInduct ==
  ASSUME NEW good, 0 \in good, \A n \in Nat : n \in good => n + 1 \in good
  PROVE  \A n \in Nat : n \in good
<1> DEFINE bad == {n \in Nat : n \notin good}
           Less == OpToRel(<, Nat)
<1>1. ASSUME bad # {} PROVE FALSE
  <2>1. \E n \in bad : \A m \in bad : <<m, n>> \notin Less
    <3>1. IsWellFoundedOn(Less, Nat)
      BY NatLessThanWellFounded
    <3>2. bad \subseteq Nat
      OBVIOUS
    <3> HIDE DEF bad, Less
    <3> QED
      BY <1>1, <3>1, <3>2, WFMin
  <2>2. PICK n \in bad : \A m \in bad : ~(m < n)
    BY <2>1 DEF OpToRel
  <2>3. n \in Nat /\ n # 0 /\ n \notin good
    OBVIOUS
  <2>4. n - 1 \in Nat /\ n - 1 < n /\ (n - 1) + 1 = n
    BY <2>3
  <2>5. n - 1 \in good
    BY <2>2, <2>4
  <2> QED
    BY <2>3, <2>4, <2>5
<1> QED
  BY <1>1

(* Induction over the subsets of a finite set, one element at a time. *)
LEMMA SubsetInduct ==
  ASSUME NEW S, IsFiniteSet(S), NEW good,
         \A s \in SUBSET S : (\A x \in s : s \ {x} \in good) => s \in good
  PROVE  \A s \in SUBSET S : s \in good
<1> DEFINE bad == {s \in SUBSET S : s \notin good}
           Less == StrictSubsetOrdering(S)
<1>1. ASSUME bad # {} PROVE FALSE
  <2>1. \E s \in bad : \A t \in bad : <<t, s>> \notin Less
    <3>1. IsWellFoundedOn(Less, FiniteSubsetsOf(S))
      BY FS_StrictSubsetOrderingWellFounded
    <3>2. bad \subseteq FiniteSubsetsOf(S)
      BY FS_Subset DEF FiniteSubsetsOf
    <3> HIDE DEF bad, Less
    <3> QED
      BY <1>1, <3>1, <3>2, WFMin
  <2>2. PICK s \in bad : \A t \in bad : ~(t \subseteq s /\ t # s)
    BY <2>1 DEF StrictSubsetOrdering
  <2>3. s \in SUBSET S /\ s \notin good
    OBVIOUS
  <2>4. \A x \in s : s \ {x} \in good
    BY <2>2, <2>3
  <2> QED
    BY <2>3, <2>4
<1> QED
  BY <1>1

AnyOf(s) == CHOOSE x \in s : TRUE

(* The function by which SumFunctionOnSet adds up.                         *)
SumIter(v, S) ==
  CHOOSE sum : sum = [s \in SUBSET S |->
                 IF s = {} THEN 0
                 ELSE v[CHOOSE x \in s : TRUE] + sum[s \ {CHOOSE x \in s : TRUE}]]

(* The fold of the library, unfolded. *)
LEMMA SumIsIter ==
  ASSUME NEW v, NEW S
  PROVE SumFunctionOnSet(v, S) = SumIter(v, S)[S]
BY Zenon DEF SumFunctionOnSet, FoldFunctionOnSet, MapThenFoldSet, SumIter

(* The function by which it adds up exists. *)
LEMMA SumIterDef ==
  ASSUME NEW v, NEW S, IsFiniteSet(S)
  PROVE  \A s \in SUBSET S : SumIter(v, S)[s] =
            IF s = {} THEN 0 ELSE v[AnyOf(s)] + SumIter(v, S)[s \ {AnyOf(s)}]
<1> DEFINE body(g, s) == IF s = {} THEN 0 ELSE v[AnyOf(s)] + g[s \ {AnyOf(s)}]
           good == {n \in Nat : \E g : \A s \in SUBSET S : Cardinality(s) <= n => g[s] = body(g, s)}
<1>1. \A s \in SUBSET S : IsFiniteSet(s) /\ Cardinality(s) \in Nat /\ Cardinality(s) <= Cardinality(S)
  BY FS_Subset, FS_CardinalityType
<1>2. \A s \in SUBSET S : s # {} => /\ AnyOf(s) \in s
                                    /\ s \ {AnyOf(s)} \in SUBSET S
                                    /\ Cardinality(s \ {AnyOf(s)}) = Cardinality(s) - 1
                                    /\ Cardinality(s) # 0
  BY <1>1, FS_RemoveElement, FS_EmptySet DEF AnyOf
<1>3. 0 \in good
  <2> DEFINE g == [s \in SUBSET S |-> 0]
  <2>1. \A s \in SUBSET S : Cardinality(s) <= 0 => s = {}
    <3> SUFFICES ASSUME NEW s \in SUBSET S, Cardinality(s) <= 0 PROVE s = {}
      OBVIOUS
    <3>1. IsFiniteSet(s) /\ Cardinality(s) = 0
      BY <1>1
    <3> QED
      BY <3>1, FS_EmptySet
  <2>2. \A s \in SUBSET S : Cardinality(s) <= 0 => g[s] = body(g, s)
    BY <2>1
  <2> HIDE DEF g, body
  <2> QED
    BY <2>2, Zenon
<1>4. ASSUME NEW n \in Nat, n \in good
      PROVE  n + 1 \in good
  <2>1. PICK g : \A s \in SUBSET S : Cardinality(s) <= n => g[s] = body(g, s)
    BY <1>4
  <2> DEFINE h == [s \in SUBSET S |-> IF Cardinality(s) <= n THEN g[s] ELSE body(g, s)]
  <2>2. ASSUME NEW s \in SUBSET S, Cardinality(s) <= n + 1
        PROVE  h[s] = body(h, s)
    <3>1. h[s] = body(g, s)
      BY <2>1
    <3>2. s # {} => h[s \ {AnyOf(s)}] = g[s \ {AnyOf(s)}]
      <4> SUFFICES ASSUME s # {} PROVE h[s \ {AnyOf(s)}] = g[s \ {AnyOf(s)}]
        OBVIOUS
      <4>1. s \ {AnyOf(s)} \in SUBSET S /\ Cardinality(s \ {AnyOf(s)}) <= n
        BY <1>1, <1>2, <2>2
      <4> QED
        BY <4>1
    <3> HIDE DEF h
    <3> QED
      BY <3>1, <3>2
  <2>3. \A s \in SUBSET S : Cardinality(s) <= n + 1 => h[s] = body(h, s)
    BY <2>2
  <2>4. n + 1 \in Nat
    OBVIOUS
  <2> HIDE DEF h, body
  <2> QED
    BY <2>3, <2>4, Zenon
<1>5. Cardinality(S) \in good
  <2>1. Cardinality(S) \in Nat
    BY FS_CardinalityType
  <2> HIDE DEF good
  <2> QED
    BY <1>3, <1>4, <2>1, NatInduct
<1>6. PICK g : \A s \in SUBSET S : g[s] = body(g, s)
  BY <1>1, <1>5
<1> DEFINE h == [s \in SUBSET S |-> g[s]]
<1>7. h = [s \in SUBSET S |-> body(h, s)]
  <2>1. \A s \in SUBSET S : h[s] = body(h, s)
    BY <1>2, <1>6
  <2>2. h = [s \in SUBSET S |-> h[s]]
    OBVIOUS
  <2> HIDE DEF h, body
  <2> QED
    BY <2>1, <2>2
<1> HIDE DEF h
<1>8. \E f : f = [s \in SUBSET S |-> IF s = {} THEN 0
                 ELSE v[CHOOSE x \in s : TRUE] + f[s \ {CHOOSE x \in s : TRUE}]]
  BY <1>7, Zenon DEF AnyOf
<1>9. SumIter(v, S) = [s \in SUBSET S |-> IF s = {} THEN 0
                 ELSE v[AnyOf(s)] + SumIter(v, S)[s \ {AnyOf(s)}]]
  BY <1>8, Zenon DEF SumIter, AnyOf
<1> DEFINE sum == SumIter(v, S)
<1> HIDE DEF sum
<1>10. sum = [s \in SUBSET S |-> IF s = {} THEN 0 ELSE v[AnyOf(s)] + sum[s \ {AnyOf(s)}]]
  BY <1>9 DEF sum
<1>11. \A s \in SUBSET S : sum[s] = IF s = {} THEN 0 ELSE v[AnyOf(s)] + sum[s \ {AnyOf(s)}]
  BY <1>10
<1> QED
  BY <1>11 DEF sum

(* The order in which it adds up makes no difference. *)
LEMMA SumIterLaws ==
  ASSUME NEW v, NEW S, IsFiniteSet(S), \A x \in S : v[x] \in Int
  PROVE  /\ SumIter(v, S)[{}] = 0
         /\ \A s \in SUBSET S : SumIter(v, S)[s] \in Int
         /\ \A s \in SUBSET S : \A x \in s :
              SumIter(v, S)[s] = v[x] + SumIter(v, S)[s \ {x}]
<1> DEFINE sum == SumIter(v, S)
<1>1. \A s \in SUBSET S : sum[s] = IF s = {} THEN 0 ELSE v[AnyOf(s)] + sum[s \ {AnyOf(s)}]
  BY SumIterDef
<1>2. \A s : s # {} => AnyOf(s) \in s
  BY DEF AnyOf
<1> HIDE DEF sum
<1>3. \A s \in SUBSET S : sum[s] \in Int
  <2> DEFINE good == {s \in SUBSET S : sum[s] \in Int}
  <2>1. ASSUME NEW s \in SUBSET S, \A x \in s : s \ {x} \in good
        PROVE  s \in good
    <3>1. CASE s = {}
      <4>1. sum[s] = 0
        BY <1>1, <3>1
      <4> QED
        BY <4>1
    <3>2. CASE s # {}
      <4> DEFINE c == AnyOf(s)
      <4>1. c \in s /\ sum[s] = v[c] + sum[s \ {c}]
        BY <1>1, <1>2, <3>2
      <4> HIDE DEF c
      <4>2. sum[s \ {c}] \in Int /\ v[c] \in Int
        BY <2>1, <4>1
      <4> QED
        BY <4>1, <4>2
    <3> QED
      BY <3>1, <3>2
  <2>2. \A s \in SUBSET S : s \in good
    <3> HIDE DEF good
    <3> QED
      BY <2>1, SubsetInduct
  <2> QED
    BY <2>2
<1>4. \A s \in SUBSET S : \A x \in s : sum[s] = v[x] + sum[s \ {x}]
  <2> DEFINE good == {s \in SUBSET S : \A x \in s : sum[s] = v[x] + sum[s \ {x}]}
  <2>1. ASSUME NEW s \in SUBSET S, \A x \in s : s \ {x} \in good
        PROVE  s \in good
    <3> SUFFICES ASSUME NEW x \in s PROVE sum[s] = v[x] + sum[s \ {x}]
      OBVIOUS
    <3> DEFINE c == AnyOf(s)
    <3>1. c \in s /\ sum[s] = v[c] + sum[s \ {c}]
      BY <1>1, <1>2
    <3> HIDE DEF c
    <3>2. CASE x = c
      BY <3>1, <3>2
    <3>3. CASE x # c
      <4>1. x \in s \ {c} /\ c \in s \ {x}
        BY <3>1, <3>3
      <4>2. sum[s \ {c}] = v[x] + sum[(s \ {c}) \ {x}]
        BY <2>1, <3>1, <4>1
      <4>3. sum[s \ {x}] = v[c] + sum[(s \ {x}) \ {c}]
        BY <2>1, <4>1
      <4>4. (s \ {c}) \ {x} = (s \ {x}) \ {c} /\ (s \ {x}) \ {c} \in SUBSET S
        OBVIOUS
      <4>5. v[x] \in Int /\ v[c] \in Int /\ sum[(s \ {x}) \ {c}] \in Int
        BY <1>3, <3>1, <4>4
      <4> DEFINE rest == sum[(s \ {x}) \ {c}]
      <4>6. sum[s] = v[c] + (v[x] + rest) /\ sum[s \ {x}] = v[c] + rest
        BY <3>1, <4>2, <4>3, <4>4
      <4> HIDE DEF rest
      <4>7. rest \in Int
        BY <4>5 DEF rest
      <4> QED
        BY <4>5, <4>6, <4>7
    <3> QED
      BY <3>2, <3>3
  <2>2. \A s \in SUBSET S : s \in good
    <3> HIDE DEF good
    <3> QED
      BY <2>1, SubsetInduct
  <2> QED
    BY <2>2
<1>5. sum[{}] = 0
  BY <1>1
<1> QED
  BY <1>3, <1>4, <1>5 DEF sum

(* Only what is added up counts, and not what else there is. *)
LEMMA SumIterSame ==
  ASSUME NEW v, NEW w, NEW S, IsFiniteSet(S), NEW R \in SUBSET S,
         \A x \in R : v[x] \in Int /\ w[x] = v[x], \A x \in S : v[x] \in Int
  PROVE  SumIter(v, S)[R] = SumIter(w, R)[R]
<1> DEFINE f == SumIter(v, S)
           g == SumIter(w, R)
           good == {s \in SUBSET R : f[s] = g[s]}
<1>1. IsFiniteSet(R)
  BY FS_Subset
<1>2. /\ f[{}] = 0
      /\ \A s \in SUBSET S : \A x \in s : f[s] = v[x] + f[s \ {x}]
  BY SumIterLaws
<1>3. /\ g[{}] = 0
      /\ \A s \in SUBSET R : \A x \in s : g[s] = w[x] + g[s \ {x}]
  <2>1. \A x \in R : w[x] \in Int
    OBVIOUS
  <2> QED
    BY <1>1, <2>1, SumIterLaws
<1> HIDE DEF f, g
<1>4. ASSUME NEW s \in SUBSET R, \A x \in s : s \ {x} \in good
      PROVE  s \in good
  <2>1. CASE s = {}
    BY <1>2, <1>3, <2>1
  <2>2. ASSUME NEW x \in s PROVE s \in good
    <3>1. f[s \ {x}] = g[s \ {x}] /\ s \in SUBSET S
      BY <1>4
    <3>2. f[s] = v[x] + f[s \ {x}]
      BY <1>2, <3>1
    <3>3. g[s] = w[x] + g[s \ {x}]
      BY <1>3
    <3> QED
      BY <3>1, <3>2, <3>3
  <2> QED
    BY <2>1, <2>2
<1>5. \A s \in SUBSET R : s \in good
  <2> HIDE DEF good
  <2> QED
    BY <1>1, <1>4, SubsetInduct
<1> QED
  BY <1>5 DEF f, g

-----------------------------------------------------------------------------
(* Sums *)

(* The sum of nothing is 0, and any element may be taken out first. *)
LEMMA SumLaws ==
  ASSUME NEW v, NEW S, IsFiniteSet(S), \A x \in S : v[x] \in Int
  PROVE  /\ SumFunctionOnSet(v, {}) = 0
         /\ \A s \in SUBSET S : SumFunctionOnSet(v, s) \in Int
         /\ \A s \in SUBSET S : \A x \in s :
              SumFunctionOnSet(v, s) = v[x] + SumFunctionOnSet(v, s \ {x})
<1>1. ASSUME NEW s \in SUBSET S
      PROVE  SumFunctionOnSet(v, s) = SumIter(v, S)[s]
  <2>1. SumIter(v, S)[s] = SumIter(v, s)[s]
    BY SumIterSame
  <2> QED
    BY <2>1, SumIsIter
<1>2. /\ SumIter(v, S)[{}] = 0
      /\ \A s \in SUBSET S : SumIter(v, S)[s] \in Int
      /\ \A s \in SUBSET S : \A x \in s : SumIter(v, S)[s] = v[x] + SumIter(v, S)[s \ {x}]
  BY SumIterLaws
<1> QED
  BY <1>1, <1>2

(* Equal values have equal sums. *)
LEMMA SumSame ==
  ASSUME NEW v, NEW w, NEW S, IsFiniteSet(S), \A x \in S : v[x] \in Int /\ w[x] = v[x]
  PROVE  SumFunctionOnSet(v, S) = SumFunctionOnSet(w, S)
<1>1. SumIter(v, S)[S] = SumIter(w, S)[S]
  BY SumIterSame
<1> QED
  BY <1>1, SumIsIter

(* What holds of 0 and is kept by adding holds of the sum. *)
LEMMA SumAtMost ==
  ASSUME NEW v, NEW w, NEW S, IsFiniteSet(S),
         \A x \in S : v[x] \in Int /\ w[x] \in Int /\ v[x] <= w[x]
  PROVE  SumFunctionOnSet(v, S) <= SumFunctionOnSet(w, S)
<1> DEFINE f(s) == SumFunctionOnSet(v, s)
           g(s) == SumFunctionOnSet(w, s)
           good == {s \in SUBSET S : f(s) <= g(s)}
<1>1. /\ f({}) = 0 /\ \A s \in SUBSET S : f(s) \in Int
      /\ \A s \in SUBSET S : \A x \in s : f(s) = v[x] + f(s \ {x})
  BY SumLaws
<1>2. /\ g({}) = 0 /\ \A s \in SUBSET S : g(s) \in Int
      /\ \A s \in SUBSET S : \A x \in s : g(s) = w[x] + g(s \ {x})
  BY SumLaws
<1> HIDE DEF f, g
<1>3. ASSUME NEW s \in SUBSET S, \A x \in s : s \ {x} \in good
      PROVE  s \in good
  <2>1. CASE s = {}
    BY <1>1, <1>2, <2>1
  <2>2. ASSUME NEW x \in s PROVE s \in good
    <3>1. f(s \ {x}) <= g(s \ {x}) /\ f(s \ {x}) \in Int /\ g(s \ {x}) \in Int
      BY <1>1, <1>2, <1>3
    <3>2. f(s) = v[x] + f(s \ {x}) /\ g(s) = w[x] + g(s \ {x})
      BY <1>1, <1>2
    <3>3. v[x] \in Int /\ w[x] \in Int /\ v[x] <= w[x]
      OBVIOUS
    <3>4. f(s) <= g(s)
      BY <3>1, <3>2, <3>3
    <3> QED
      BY <3>4
  <2> QED
    BY <2>1, <2>2
<1>4. \A s \in SUBSET S : s \in good
  <2> HIDE DEF good
  <2> QED
    BY <1>3, SubsetInduct
<1> QED
  BY <1>4 DEF f, g

(* As many times a, and b for each. *)
Linear(v, w, S, a, b) ==
  /\ IsFiniteSet(S) /\ a \in Int /\ b \in Int
  /\ \A x \in S : v[x] \in Int /\ w[x] = a * v[x] + b

(* A sum of values that are linear in others. *)
LEMMA SumLinear ==
  ASSUME NEW v, NEW w, NEW S, NEW a, NEW b, Linear(v, w, S, a, b)
  PROVE  SumFunctionOnSet(w, S) = a * SumFunctionOnSet(v, S) + b * Cardinality(S)
<1> DEFINE f(s) == SumFunctionOnSet(v, s)
           g(s) == SumFunctionOnSet(w, s)
           good == {s \in SUBSET S : g(s) = a * f(s) + b * Cardinality(s)}
<1>1. /\ f({}) = 0 /\ \A s \in SUBSET S : f(s) \in Int
      /\ \A s \in SUBSET S : \A x \in s : f(s) = v[x] + f(s \ {x})
  <2>1. IsFiniteSet(S) /\ \A x \in S : v[x] \in Int
    BY DEF Linear
  <2> QED
    BY <2>1, SumLaws
<1>2. /\ g({}) = 0 /\ \A s \in SUBSET S : g(s) \in Int
      /\ \A s \in SUBSET S : \A x \in s : g(s) = w[x] + g(s \ {x})
  <2>1. IsFiniteSet(S) /\ \A x \in S : w[x] \in Int
    BY DEF Linear
  <2> QED
    BY <2>1, SumLaws
<1> HIDE DEF f, g
<1> USE DEF Linear
<1>3. ASSUME NEW s \in SUBSET S, \A x \in s : s \ {x} \in good
      PROVE  s \in good
  <2>1. CASE s = {}
    <3>1. Cardinality(s) = 0 /\ f(s) = 0 /\ g(s) = 0
      BY <1>1, <1>2, <2>1, FS_EmptySet
    <3> QED
      BY <3>1
  <2>2. ASSUME NEW x \in s PROVE s \in good
    <3> DEFINE r == s \ {x}
    <3>1. Cardinality(r) = Cardinality(s) - 1 /\ Cardinality(s) \in Nat
      BY FS_Subset, FS_RemoveElement, FS_CardinalityType
    <3>2. f(s) = v[x] + f(r) /\ g(s) = w[x] + g(r) /\ f(r) \in Int
      BY <1>1, <1>2
    <3>3. g(r) = a * f(r) + b * Cardinality(r)
      BY <1>3
    <3> HIDE DEF r
    <3>4. v[x] \in Int /\ w[x] = a * v[x] + b
      OBVIOUS
    <3> DEFINE C == Cardinality(s)
    <3> HIDE DEF C
    <3>5. C \in Int /\ Cardinality(r) = C - 1 /\ C = Cardinality(s)
      BY <3>1 DEF C
    <3>6. b * (C - 1) = b * C - b /\ a * (v[x] + f(r)) = a * v[x] + a * f(r)
      BY <3>2, <3>4, <3>5
    <3>7. a * v[x] \in Int /\ a * f(r) \in Int /\ b * C \in Int
      BY <3>2, <3>4, <3>5
    <3>8. g(s) = a * f(s) + b * Cardinality(s)
      BY <3>2, <3>3, <3>4, <3>5, <3>6, <3>7
    <3> QED
      BY <3>8
  <2> QED
    BY <2>1, <2>2
<1>4. \A s \in SUBSET S : s \in good
  <2> HIDE DEF good
  <2> QED
    BY <1>3, SubsetInduct
<1> QED
  BY <1>4 DEF f, g

(* The sum over two sets that share nothing. *)
LEMMA SumUnion ==
  ASSUME NEW v, NEW S, IsFiniteSet(S), \A x \in S : v[x] \in Int,
         NEW P \in SUBSET S, NEW Q \in SUBSET S, P \cap Q = {}
  PROVE  SumFunctionOnSet(v, P \cup Q) = SumFunctionOnSet(v, P) + SumFunctionOnSet(v, Q)
<1> DEFINE f(s) == SumFunctionOnSet(v, s)
           good == {s \in SUBSET P : f(s \cup Q) = f(s) + f(Q)}
<1>1. /\ f({}) = 0 /\ \A s \in SUBSET S : f(s) \in Int
      /\ \A s \in SUBSET S : \A x \in s : f(s) = v[x] + f(s \ {x})
  BY SumLaws
<1> HIDE DEF f
<1>2. ASSUME NEW s \in SUBSET P, \A x \in s : s \ {x} \in good
      PROVE  s \in good
  <2>1. CASE s = {}
    <3>1. s \cup Q = Q /\ f(s) = 0 /\ f(Q) \in Int
      BY <1>1, <2>1
    <3>2. f(s \cup Q) = f(s) + f(Q)
      BY <3>1
    <3> QED
      BY <3>2
  <2>2. ASSUME NEW x \in s PROVE s \in good
    <3>1. s \cup Q \in SUBSET S /\ x \in s \cup Q /\ (s \cup Q) \ {x} = (s \ {x}) \cup Q
      OBVIOUS
    <3>2. f(s \cup Q) = v[x] + f((s \ {x}) \cup Q)
      BY <1>1, <3>1
    <3>3. f((s \ {x}) \cup Q) = f(s \ {x}) + f(Q)
      BY <1>2
    <3>4. f(s) = v[x] + f(s \ {x}) /\ f(s \ {x}) \in Int /\ f(Q) \in Int /\ v[x] \in Int
      BY <1>1
    <3>5. f(s \cup Q) = f(s) + f(Q)
      BY <3>2, <3>3, <3>4
    <3> QED
      BY <3>5
  <2> QED
    BY <2>1, <2>2
<1>3. \A s \in SUBSET P : s \in good
  <2>1. IsFiniteSet(P)
    BY FS_Subset
  <2> HIDE DEF good
  <2> QED
    BY <1>2, <2>1, SubsetInduct
<1> QED
  BY <1>3 DEF f

(* No part of what is not negative exceeds the whole. *)
LEMMA SumOfNaturals ==
  ASSUME NEW v, NEW S, IsFiniteSet(S), \A x \in S : v[x] \in Nat
  PROVE  /\ SumFunctionOnSet(v, S) \in Nat
         /\ \A s \in SUBSET S : SumFunctionOnSet(v, s) <= SumFunctionOnSet(v, S)
         /\ \A x \in S : v[x] <= SumFunctionOnSet(v, S)
<1> DEFINE f(s) == SumFunctionOnSet(v, s)
           good == {s \in SUBSET S : f(s) \in Nat}
<1>1. /\ f({}) = 0 /\ \A s \in SUBSET S : f(s) \in Int
      /\ \A s \in SUBSET S : \A x \in s : f(s) = v[x] + f(s \ {x})
  BY SumLaws
<1>2. ASSUME NEW s \in SUBSET S
      PROVE  f(s) + f(S \ s) = f(S)
  <2>1. S \ s \in SUBSET S /\ s \cap (S \ s) = {} /\ s \cup (S \ s) = S
    OBVIOUS
  <2>2. f(s \cup (S \ s)) = f(s) + f(S \ s)
    BY <2>1, SumUnion
  <2> HIDE DEF f
  <2> QED
    BY <2>1, <2>2
<1> HIDE DEF f
<1>3. ASSUME NEW s \in SUBSET S, \A x \in s : s \ {x} \in good
      PROVE  s \in good
  <2>1. CASE s = {}
    BY <1>1, <2>1
  <2>2. ASSUME NEW x \in s PROVE s \in good
    <3>1. f(s) = v[x] + f(s \ {x}) /\ f(s \ {x}) \in Nat /\ v[x] \in Nat
      BY <1>1, <1>3
    <3>2. f(s) \in Nat
      BY <3>1
    <3> QED
      BY <3>2
  <2> QED
    BY <2>1, <2>2
<1>4. \A s \in SUBSET S : f(s) \in Nat
  <2>1. \A s \in SUBSET S : s \in good
    <3> HIDE DEF good
    <3> QED
      BY <1>3, SubsetInduct
  <2> QED
    BY <2>1
<1>5. ASSUME NEW s \in SUBSET S PROVE f(s) <= f(S)
  <2>1. S \ s \in SUBSET S
    OBVIOUS
  <2>2. f(s) \in Nat /\ f(S \ s) \in Nat /\ f(s) + f(S \ s) = f(S)
    BY <1>2, <1>4, <2>1
  <2> QED
    BY <2>2
<1>6. ASSUME NEW x \in S PROVE v[x] <= f(S)
  <2>1. f(S) = v[x] + f(S \ {x}) /\ f(S \ {x}) \in Nat /\ v[x] \in Nat
    BY <1>1, <1>4
  <2> QED
    BY <2>1
<1> QED
  BY <1>4, <1>5, <1>6 DEF f

(* The same values under other indices. *)
LEMMA SumReindexed ==
  ASSUME NEW v, NEW w, NEW S, NEW R, IsFiniteSet(S), IsFiniteSet(R), NEW from \in [R -> S],
         \A x \in S : v[x] \in Int, \A i \in R : w[i] = v[from[i]],
         \A i, j \in R : from[i] = from[j] => i = j,
         \A x \in S : \E i \in R : from[i] = x
  PROVE  SumFunctionOnSet(w, R) = SumFunctionOnSet(v, S)
<1> DEFINE f(s) == SumFunctionOnSet(v, s)
           g(r) == SumFunctionOnSet(w, r)
           Image(r) == {from[i] : i \in r}
           good == {r \in SUBSET R : g(r) = f(Image(r))}
<1>1. /\ f({}) = 0 /\ \A s \in SUBSET S : f(s) \in Int
      /\ \A s \in SUBSET S : \A x \in s : f(s) = v[x] + f(s \ {x})
  BY SumLaws
<1>2. /\ g({}) = 0
      /\ \A r \in SUBSET R : \A i \in r : g(r) = w[i] + g(r \ {i})
  <2>1. \A i \in R : w[i] \in Int
    OBVIOUS
  <2> QED
    BY <2>1, SumLaws
<1> HIDE DEF f, g
<1>3. ASSUME NEW r \in SUBSET R, \A i \in r : r \ {i} \in good
      PROVE  r \in good
  <2>1. CASE r = {}
    <3>1. Image(r) = {}
      BY <2>1
    <3> HIDE DEF Image
    <3>2. g(r) = f(Image(r))
      BY <1>1, <1>2, <2>1, <3>1
    <3> QED
      BY <3>2
  <2>2. ASSUME NEW i \in r PROVE r \in good
    <3>1. /\ Image(r) \in SUBSET S /\ from[i] \in Image(r)
          /\ Image(r \ {i}) = Image(r) \ {from[i]}
      OBVIOUS
    <3>2. g(r \ {i}) = f(Image(r \ {i}))
      BY <1>3
    <3> HIDE DEF Image
    <3>3. f(Image(r)) = v[from[i]] + f(Image(r) \ {from[i]})
      BY <1>1, <3>1
    <3>4. g(r) = w[i] + g(r \ {i}) /\ w[i] = v[from[i]]
      BY <1>2
    <3>5. g(r) = f(Image(r))
      BY <3>1, <3>2, <3>3, <3>4
    <3> QED
      BY <3>5
  <2> QED
    BY <2>1, <2>2
<1>4. R \in good
  <2>1. \A r \in SUBSET R : r \in good
    <3> HIDE DEF good
    <3> QED
      BY <1>3, SubsetInduct
  <2> QED
    BY <2>1
<1>5. Image(R) = S
  OBVIOUS
<1> HIDE DEF Image
<1>6. g(R) = f(S)
  BY <1>4, <1>5
<1> QED
  BY <1>6 DEF f, g
=============================================================================
