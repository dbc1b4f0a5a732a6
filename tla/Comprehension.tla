--------------------------- MODULE Comprehension ---------------------------
(***************************************************************************)
(* Python's list comprehension with a condition (the items of a list that  *)
(* stay, in their order) and its sort, which is stable.                    *)
(***************************************************************************)
EXTENDS Naturals, FiniteSets

(* Which of those kept position k is.                                      *)
Place(kept, k) == Cardinality({j \in kept : j <= k})

ItemsAt(items, kept) ==
    [n \in 1..Cardinality(kept) |-> items[CHOOSE k \in kept : Place(kept, k) = n]]
Those(items, Wanted(_)) == ItemsAt(items, {k \in DOMAIN items : Wanted(items[k])})

-----------------------------------------------------------------------------
(* What is equal stays in order. *)
Before(items, Less(_, _), i) ==
    {j \in DOMAIN items : \/ Less(items[j], items[i])
                          \/ ~Less(items[i], items[j]) /\ j < i}

StableSort(items, Less(_, _)) ==
    [n \in DOMAIN items |->
        items[CHOOSE i \in DOMAIN items : Cardinality(Before(items, Less, i)) = n - 1]]
=============================================================================
