-------------------------- MODULE Watchlist_proofs --------------------------
(***************************************************************************)
(* Proofs about Watchlist, for any number of requests, readers and ISINs   *)
(* and any cap: one entry per ISIN, and the refinement of WatchlistStore.  *)
(***************************************************************************)
EXTENDS Watchlist, Comprehension_proofs

(* Lists of items that hold an ISIN once. *)
Unique(items) ==
    \A j, k \in DOMAIN items : items[j].isin = items[k].isin => j = k

Good(items) ==
    /\ items \in Seq(Entry)
    /\ Len(items) <= MAX_ENTRIES
    /\ Unique(items)

-----------------------------------------------------------------------------
(* What the four operations leave of a list *)

(* The items of remove_entry: a place for each kept position, in order.    *)
LEMMA KeptItems ==
  ASSUME NEW items \in Seq(Entry), NEW isin, At(items, isin) # {}
  PROVE  LET kept == DOMAIN items \ At(items, isin)
             after == remove_entry(items, isin)
         IN  /\ after \in Seq(Entry)
             /\ Len(after) <= Len(items)
             /\ \A n \in DOMAIN after : \E k \in kept :
                  /\ after[n] = items[k]
                  /\ Place(kept, k) = n
             /\ \A k \in kept : \E n \in DOMAIN after : after[n] = items[k]
<1> DEFINE kept == DOMAIN items \ At(items, isin)
<1>1. remove_entry(items, isin) = ItemsAt(items, kept)
  BY DEF remove_entry
<1>2. kept \in SUBSET DOMAIN items
  OBVIOUS
<1> HIDE DEF kept
<1>3. /\ ItemsAt(items, kept) \in Seq(Entry)
      /\ Len(ItemsAt(items, kept)) <= Len(items)
      /\ \A n \in DOMAIN ItemsAt(items, kept) : \E k \in kept :
            ItemsAt(items, kept)[n] = items[k] /\ Place(kept, k) = n
      /\ \A k \in kept : \E n \in DOMAIN ItemsAt(items, kept) : ItemsAt(items, kept)[n] = items[k]
  BY <1>2, ItemsStay
<1> QED
  BY <1>1, <1>3 DEF kept

LEMMA RemovedGood ==
  ASSUME NEW items, Good(items), NEW isin, At(items, isin) # {}
  PROVE  Good(remove_entry(items, isin))
<1> DEFINE after == remove_entry(items, isin)
           kept == DOMAIN items \ At(items, isin)
<1>1. items \in Seq(Entry) /\ Len(items) <= MAX_ENTRIES /\ Unique(items)
  BY DEF Good
<1>2. after \in Seq(Entry) /\ Len(after) <= Len(items)
  BY <1>1, KeptItems
<1>3. \A n \in DOMAIN after : \E k \in kept : after[n] = items[k] /\ Place(kept, k) = n
  BY <1>1, KeptItems
<1> HIDE DEF after
<1>4. Unique(after)
  BY <1>1, <1>3 DEF Unique
<1>5. Len(after) <= MAX_ENTRIES
  BY <1>1, <1>2, WatchlistAssumption
<1> QED
  BY <1>2, <1>4, <1>5 DEF Good, after

(* The one item of an ISIN is the one that is replaced.                    *)
LEMMA ReplacedOne ==
  ASSUME NEW items, Good(items), NEW isin, NEW k \in At(items, isin),
         NEW type, NEW source
  PROVE  Replaced(items, isin, type, source)
            = [items EXCEPT ![k] = Record(isin, type, source)]
<1>1. At(items, isin) = {k}
  BY DEF Good, Unique, At
<1>2. k <= k
  BY DEF Good, At
<1> QED
  BY <1>1, <1>2 DEF Replaced

LEMMA ReplacedGood ==
  ASSUME NEW items, Good(items), NEW isin \in Isins, At(items, isin) # {},
         NEW type \in _VALID_TYPES, NEW source \in {"auto", "manual"}
  PROVE  Good(Replaced(items, isin, type, source))
<1> DEFINE record == Record(isin, type, source)
<1>1. PICK k \in At(items, isin) : TRUE
  OBVIOUS
<1>2. Replaced(items, isin, type, source) = [items EXCEPT ![k] = record]
  BY ReplacedOne
<1>3. record \in Entry /\ record.isin = isin
  BY DEF Record, Entry
<1>4. k \in DOMAIN items /\ items[k].isin = isin
  BY DEF At
<1> HIDE DEF record
<1>5. [items EXCEPT ![k] = record] \in Seq(Entry)
  BY <1>3, <1>4 DEF Good
<1>6. Len([items EXCEPT ![k] = record]) = Len(items)
  BY <1>4 DEF Good
<1>7. Unique([items EXCEPT ![k] = record])
  BY <1>3, <1>4 DEF Good, Unique
<1> QED
  BY <1>2, <1>5, <1>6, <1>7 DEF Good

LEMMA AppendedGood ==
  ASSUME NEW items, Good(items), NEW isin \in Isins, At(items, isin) = {},
         NEW type \in _VALID_TYPES, Len(items) < MAX_ENTRIES
  PROVE  Good(Append(items, Record(isin, type, "auto")))
<1> DEFINE record == Record(isin, type, "auto")
           after == Append(items, record)
<1>1. record \in Entry /\ record.isin = isin
  BY DEF Record, Entry
<1> HIDE DEF record
<1>2. after \in Seq(Entry) /\ Len(after) = Len(items) + 1
  BY <1>1 DEF Good
<1>3. \A k \in DOMAIN after : \/ k \in DOMAIN items /\ after[k] = items[k]
                              \/ k = Len(items) + 1 /\ after[k] = record
  BY <1>1 DEF Good
<1>4. \A k \in DOMAIN items : items[k].isin # isin
  BY DEF At
<1> HIDE DEF after
<1>5. Unique(after)
  BY <1>1, <1>3, <1>4 DEF Good, Unique
<1>6. Len(after) <= MAX_ENTRIES
  BY <1>2, WatchlistAssumption DEF Good
<1> QED
  BY <1>2, <1>5, <1>6 DEF Good, after, record

(* No operation, on any list that holds an ISIN once, makes it hold one    *)
(* twice or outgrow the cap.                                               *)
LEMMA ChangedGood ==
  ASSUME NEW items, Good(items), NEW op \in Ops, NEW isin \in Isins,
         NEW type, op # "remove" => type \in _VALID_TYPES,
         Changed(op, items, isin, type) # NULL
  PROVE  Good(Changed(op, items, isin, type))
<1>1. CASE op = "add"
  <2>1. Changed(op, items, isin, type) = add_entry(items, isin, type)
    BY <1>1 DEF Changed
  <2>2. At(items, isin) = {} /\ ~(Len(items) >= MAX_ENTRIES)
    BY <2>1 DEF add_entry
  <2>3. Len(items) < MAX_ENTRIES
    BY <2>2, WatchlistAssumption DEF Good
  <2> QED
    BY <1>1, <2>1, <2>2, <2>3, AppendedGood DEF add_entry
<1>2. CASE op = "remove"
  <2>1. Changed(op, items, isin, type) = remove_entry(items, isin)
    BY <1>2 DEF Changed
  <2>2. At(items, isin) # {}
    BY <2>1 DEF remove_entry
  <2> QED
    BY <2>1, <2>2, RemovedGood
<1>3. CASE op = "override"
  BY <1>3, ReplacedGood DEF Changed, set_asset_type
<1>4. CASE op = "resolve"
  BY <1>4, ReplacedGood DEF Changed, update_resolution
<1> QED
  BY <1>1, <1>2, <1>3, <1>4 DEF Ops

-----------------------------------------------------------------------------
(* The abstract watchlist a list of items stands for *)

Value(item) == [type |-> item.asset_type, source |-> item.asset_type_source]
ListedIn(items) == {items[k].isin : k \in DOMAIN items}
Abstract(items) ==
    [i \in ListedIn(items) |-> Value(items[CHOOSE k \in At(items, i) : TRUE])]

LEMMA AbstractAt ==
  ASSUME NEW items, Good(items), NEW k \in DOMAIN items
  PROVE  /\ items[k].isin \in DOMAIN Abstract(items)
         /\ Abstract(items)[items[k].isin] = Value(items[k])
<1>1. At(items, items[k].isin) = {k}
  BY DEF Good, Unique, At
<1> QED
  BY <1>1 DEF Abstract, ListedIn

(* A function is the abstraction of a list when it agrees with each item.  *)
LEMMA AbstractIs ==
  ASSUME NEW items, Good(items), NEW S, NEW f, f = [i \in S |-> f[i]],
         \A i \in S : \E k \in DOMAIN items : items[k].isin = i,
         \A k \in DOMAIN items : items[k].isin \in S /\ f[items[k].isin] = Value(items[k])
  PROVE  Abstract(items) = f
<1>1. ListedIn(items) = S
  BY DEF ListedIn
<1>2. \A i \in S : Abstract(items)[i] = f[i]
  BY AbstractAt
<1>3. Abstract(items) = [i \in S |-> Abstract(items)[i]]
  BY <1>1 DEF Abstract
<1> HIDE DEF Abstract
<1> QED
  BY <1>2, <1>3, Zenon

(* An ISIN is listed once, so a list shorter than the cap lists fewer.     *)
LEMMA ListedAtMostLength ==
  ASSUME NEW items \in Seq(Entry)
  PROVE  /\ Cardinality(ListedIn(items)) \in Nat
         /\ Cardinality(ListedIn(items)) <= Len(items)
<1> DEFINE D == DOMAIN items
           f == [k \in D |-> items[k].isin]
<1>1. f \in Surjection(D, ListedIn(items))
  BY DEF Surjection, ListedIn
<1>2. IsFiniteSet(D) /\ Cardinality(D) \in Nat /\ Cardinality(D) <= Len(items)
  BY PositionsFinite
<1> HIDE DEF D, f
<1>3. /\ IsFiniteSet(ListedIn(items))
      /\ Cardinality(ListedIn(items)) <= Cardinality(D)
  BY <1>1, <1>2, FS_Surjection
<1>4. Cardinality(ListedIn(items)) \in Nat
  BY <1>3, FS_CardinalityType
<1> QED
  BY <1>2, <1>3, <1>4

Put(a, isin, type, source) ==
    [i \in DOMAIN a \cup {isin} |->
        IF i = isin THEN [type |-> type, source |-> source] ELSE a[i]]

LEMMA AppendedAbstract ==
  ASSUME NEW items, Good(items), NEW isin \in Isins, At(items, isin) = {},
         NEW type \in _VALID_TYPES, Len(items) < MAX_ENTRIES
  PROVE  Abstract(Append(items, Record(isin, type, "auto")))
            = Put(Abstract(items), isin, type, "auto")
<1> DEFINE record == Record(isin, type, "auto")
           after == Append(items, record)
           put == Put(Abstract(items), isin, type, "auto")
           S == DOMAIN Abstract(items) \cup {isin}
<1>1. Good(after)
  BY AppendedGood
<1>2. /\ record \in Entry /\ record.isin = isin
      /\ Value(record) = [type |-> type, source |-> "auto"]
  BY DEF Record, Entry, Value
<1>3. DOMAIN Abstract(items) = {items[k].isin : k \in DOMAIN items}
  BY DEF Abstract, ListedIn
<1>4. \A k \in DOMAIN items : /\ items[k].isin # isin
                              /\ items[k].isin \in DOMAIN Abstract(items)
                              /\ Abstract(items)[items[k].isin] = Value(items[k])
  BY AbstractAt DEF At
<1>5. /\ \A i \in S : put[i] = IF i = isin THEN [type |-> type, source |-> "auto"]
                              ELSE Abstract(items)[i]
      /\ put = [i \in S |-> put[i]]
  BY DEF Put
<1> HIDE DEF record, put
<1>6. \A k \in DOMAIN after : \/ k \in DOMAIN items /\ after[k] = items[k]
                              \/ after[k] = record
  BY <1>2 DEF Good
<1>7. /\ \A k \in DOMAIN items : k \in DOMAIN after /\ after[k] = items[k]
      /\ \E k \in DOMAIN after : after[k] = record
  BY <1>2 DEF Good
<1> HIDE DEF after
<1>8. \A i \in S : \E k \in DOMAIN after : after[k].isin = i
  BY <1>2, <1>3, <1>7
<1>9. \A k \in DOMAIN after : after[k].isin \in S /\ put[after[k].isin] = Value(after[k])
  BY <1>2, <1>4, <1>5, <1>6
<1> HIDE DEF S
<1>10. Abstract(after) = put
  BY <1>1, <1>5, <1>8, <1>9, AbstractIs
<1> QED
  BY <1>10 DEF after, put, record

LEMMA ReplacedAbstract ==
  ASSUME NEW items, Good(items), NEW isin \in Isins, At(items, isin) # {},
         NEW type \in _VALID_TYPES, NEW source \in {"auto", "manual"}
  PROVE  Abstract(Replaced(items, isin, type, source))
            = Put(Abstract(items), isin, type, source)
<1> DEFINE record == Record(isin, type, source)
           after == Replaced(items, isin, type, source)
           put == Put(Abstract(items), isin, type, source)
           S == DOMAIN Abstract(items) \cup {isin}
<1>1. Good(after)
  BY ReplacedGood
<1>2. record.isin = isin /\ Value(record) = [type |-> type, source |-> source]
  BY DEF Record, Value
<1>3. PICK k \in At(items, isin) : after = [items EXCEPT ![k] = record]
  BY ReplacedOne
<1>4. DOMAIN Abstract(items) = {items[j].isin : j \in DOMAIN items}
  BY DEF Abstract, ListedIn
<1>5. \A j \in DOMAIN items : /\ j # k => items[j].isin # isin
                              /\ items[j].isin \in DOMAIN Abstract(items)
                              /\ Abstract(items)[items[j].isin] = Value(items[j])
  BY AbstractAt DEF At, Good, Unique
<1>6. /\ \A i \in S : put[i] = IF i = isin THEN [type |-> type, source |-> source]
                              ELSE Abstract(items)[i]
      /\ put = [i \in S |-> put[i]]
  BY DEF Put
<1> HIDE DEF record, put, after
<1>7. /\ DOMAIN after = DOMAIN items /\ k \in DOMAIN after
      /\ after[k] = record /\ items[k].isin = isin
      /\ \A j \in DOMAIN items \ {k} : after[j] = items[j]
  BY <1>3 DEF Good, At
<1>8. \A j \in DOMAIN items : after[j].isin = items[j].isin
  BY <1>2, <1>7
<1>9. \A i \in S : \E j \in DOMAIN after : after[j].isin = i
  BY <1>2, <1>4, <1>7, <1>8
<1>10. \A j \in DOMAIN after : after[j].isin \in S /\ put[after[j].isin] = Value(after[j])
  BY <1>2, <1>5, <1>6, <1>7
<1> HIDE DEF S
<1>11. Abstract(after) = put
  BY <1>1, <1>6, <1>9, <1>10, AbstractIs
<1> QED
  BY <1>11 DEF after, put

LEMMA RemovedAbstract ==
  ASSUME NEW items, Good(items), NEW isin \in Isins, At(items, isin) # {}
  PROVE  Abstract(remove_entry(items, isin))
            = [i \in DOMAIN Abstract(items) \ {isin} |-> Abstract(items)[i]]
<1> DEFINE after == remove_entry(items, isin)
           kept == DOMAIN items \ At(items, isin)
           S == DOMAIN Abstract(items) \ {isin}
           f == [i \in S |-> Abstract(items)[i]]
<1>1. Good(after)
  BY RemovedGood
<1>2. /\ \A n \in DOMAIN after : \E k \in kept : after[n] = items[k]
      /\ \A k \in kept : \E n \in DOMAIN after : after[n] = items[k]
  <2>1. items \in Seq(Entry)
    BY DEF Good
  <2>2. /\ \A n \in DOMAIN after : \E k \in kept :
             after[n] = items[k] /\ Place(kept, k) = n
        /\ \A k \in kept : \E n \in DOMAIN after : after[n] = items[k]
    BY <2>1, KeptItems
  <2> QED
    BY <2>2
<1>3. \A k \in DOMAIN items : k \in kept <=> items[k].isin # isin
  BY DEF At
<1>4. DOMAIN Abstract(items) = {items[k].isin : k \in DOMAIN items}
  BY DEF Abstract, ListedIn
<1>5. \A k \in DOMAIN items : /\ items[k].isin \in DOMAIN Abstract(items)
                              /\ Abstract(items)[items[k].isin] = Value(items[k])
  BY AbstractAt
<1> HIDE DEF after, kept
<1>6. kept \subseteq DOMAIN items
  BY DEF kept
<1>7. \A i \in S : \E n \in DOMAIN after : after[n].isin = i
  BY <1>2, <1>3, <1>4
<1>8. \A n \in DOMAIN after : after[n].isin \in S /\ f[after[n].isin] = Value(after[n])
  BY <1>2, <1>3, <1>5, <1>6
<1>9. f = [i \in S |-> f[i]]
  OBVIOUS
<1> HIDE DEF S, f
<1>10. Abstract(after) = f
  BY <1>1, <1>7, <1>8, <1>9, AbstractIs
<1> QED
  BY <1>10 DEF after, S, f

-----------------------------------------------------------------------------
(* The invariant: what a request in the critical section is about to write *)
(* is a good list, and nobody else writes.                                 *)

Section == {"open", "write", "replace"}

AskedWell == \A r \in Requests :
    /\ pc[r] # "idle" => req[r].op \in Ops /\ req[r].isin \in Isins
    /\ pc[r] \in Section \cup {"locking"} /\ req[r].op # "remove"
          => req[r].asset_type \in _VALID_TYPES

Owns == \A r \in Requests : pc[r] \in Section => _lock = r
Prepared == \A r \in Requests : pc[r] \in Section => Good(req[r].items)
Written == \A r \in Requests : pc[r] = "replace" => tmp = req[r].items

WatchlistInv ==
    /\ TypeOK
    /\ Good(file)
    /\ AskedWell
    /\ Owns
    /\ Prepared
    /\ Written

LEMMA EmptyGood == Good(<< >>)
  BY WatchlistAssumption DEF Good, Unique

LEMMA InitInv == Init => WatchlistInv
<1> SUFFICES ASSUME Init PROVE WatchlistInv
  OBVIOUS
<1>1. TypeOK
  BY DEF Init, TypeOK, Idle, Asked
<1>2. Good(file)
  BY EmptyGood DEF Init
<1>3. AskedWell /\ Owns /\ Prepared /\ Written
  BY DEF Init, AskedWell, Owns, Prepared, Written, Section
<1> QED
  BY <1>1, <1>2, <1>3 DEF WatchlistInv

(* A request starts, or its answer has come: nothing is written.           *)
LEMMA StartKeepsInv ==
  ASSUME WatchlistInv, NEW r \in Requests, Start(r) PROVE WatchlistInv'
<1> DEFINE Asks(op, isin, type, site) ==
             /\ req' = [req EXCEPT ![r] = Asked(op, isin, type)]
             /\ pc' = [pc EXCEPT ![r] = site]
             /\ site = "locking" /\ op # "remove" => type \in _VALID_TYPES
             /\ UNCHANGED <<file, tmp, _lock>>
           Types == _VALID_TYPES \cup {NULL}
<1>1. PICK op \in Ops, isin \in Isins, type \in Types, site \in {"resolving", "locking"} :
        Asks(op, isin, type, site)
  <2>1. PICK isin \in Isins :
          \/ AddStart(r, isin)
          \/ ResolveStart(r, isin)
          \/ DirectStart(r, "remove", isin, NULL)
          \/ \E type \in _VALID_TYPES : DirectStart(r, "override", isin, type)
    BY DEF Start
  <2>2. CASE AddStart(r, isin)
    <3>1. Asks("add", isin, NULL, "resolving")
      BY <2>2 DEF AddStart, Asked, Goto
    <3> HIDE DEF Asks
    <3> QED
      BY <3>1 DEF Ops
  <2>3. CASE ResolveStart(r, isin)
    <3>1. Asks("resolve", isin, NULL, "resolving")
      BY <2>3 DEF ResolveStart, Asked, Goto
    <3> HIDE DEF Asks
    <3> QED
      BY <3>1 DEF Ops
  <2>4. CASE DirectStart(r, "remove", isin, NULL)
    <3>1. Asks("remove", isin, NULL, "locking")
      BY <2>4 DEF DirectStart, Asked, Goto
    <3> HIDE DEF Asks
    <3> QED
      BY <3>1 DEF Ops
  <2>5. CASE \E type \in _VALID_TYPES : DirectStart(r, "override", isin, type)
    <3>1. PICK type \in _VALID_TYPES : DirectStart(r, "override", isin, type)
      BY <2>5
    <3>2. Asks("override", isin, type, "locking")
      BY <3>1 DEF DirectStart, Asked, Goto
    <3> HIDE DEF Asks
    <3> QED
      BY <3>2 DEF Ops
  <2> QED
    BY <2>1, <2>2, <2>3, <2>4, <2>5
<1>2. TypeOK'
  BY <1>1 DEF WatchlistInv, TypeOK, Asked
<1>3. Good(file)'
  BY <1>1 DEF WatchlistInv
<1>4. AskedWell'
  BY <1>1 DEF WatchlistInv, TypeOK, Asked, AskedWell, Section
<1>5. Owns' /\ Prepared' /\ Written'
  BY <1>1 DEF WatchlistInv, TypeOK, Owns, Prepared, Written, Section
<1> QED
  BY <1>2, <1>3, <1>4, <1>5 DEF WatchlistInv

LEMMA ResolvedKeepsInv ==
  ASSUME WatchlistInv, NEW r \in Requests, Resolved(r) PROVE WatchlistInv'
<1>1. CASE Finish(r)
  <2>1. TypeOK'
    BY <1>1 DEF WatchlistInv, TypeOK, Resolved, Finish, Goto, Idle, Asked
  <2>2. Good(file)' /\ AskedWell' /\ Owns' /\ Prepared' /\ Written'
    BY <1>1 DEF WatchlistInv, TypeOK, Resolved, Finish, Goto, AskedWell, Owns, Prepared, Written, Section
  <2> QED
    BY <2>1, <2>2 DEF WatchlistInv
<1>2. CASE \E type \in _VALID_TYPES : req' = [req EXCEPT ![r].asset_type = type] /\ Goto(r, "locking")
  <2>1. PICK type \in _VALID_TYPES : req' = [req EXCEPT ![r].asset_type = type]
    BY <1>2
  <2>2. pc' = [pc EXCEPT ![r] = "locking"] /\ pc[r] = "resolving" /\ UNCHANGED <<file, tmp, _lock>>
    BY <1>2 DEF Goto, Resolved
  <2>3. TypeOK'
    BY <2>1, <2>2 DEF WatchlistInv, TypeOK
  <2>4. Good(file)' /\ Owns' /\ Prepared' /\ Written'
    BY <2>1, <2>2 DEF WatchlistInv, TypeOK, Owns, Prepared, Written, Section
  <2>5. AskedWell'
    BY <2>1, <2>2 DEF WatchlistInv, TypeOK, AskedWell, Section
  <2> QED
    BY <2>3, <2>4, <2>5 DEF WatchlistInv
<1> QED
  BY <1>1, <1>2 DEF Resolved

LEMMA LockKeepsInv ==
  ASSUME WatchlistInv, NEW r \in Requests, Lock(r) PROVE WatchlistInv'
<1>1. PICK items \in _read_unlocked :
        LET after == Changed(req[r].op, items, req[r].isin, req[r].asset_type)
        IN  IF after = NULL
            THEN Finish(r) /\ UNCHANGED _lock
            ELSE /\ _lock' = r
                 /\ req' = [req EXCEPT ![r].items = after]
                 /\ Goto(r, "open")
  BY DEF Lock
<1> DEFINE after == Changed(req[r].op, items, req[r].isin, req[r].asset_type)
<1>2. pc[r] = "locking" /\ _lock = NULL /\ UNCHANGED <<file, tmp>>
  BY DEF Lock
<1>3. Good(items)
  BY EmptyGood DEF _read_unlocked, WatchlistInv
<1>4. CASE after = NULL
  <2>1. Finish(r) /\ UNCHANGED _lock
    BY <1>1, <1>4
  <2>2. TypeOK'
    BY <1>2, <2>1 DEF WatchlistInv, TypeOK, Finish, Goto, Idle, Asked
  <2>3. Good(file)' /\ AskedWell' /\ Owns' /\ Prepared' /\ Written'
    BY <1>2, <2>1 DEF WatchlistInv, TypeOK, Finish, Goto, AskedWell, Owns, Prepared, Written, Section
  <2> QED
    BY <2>2, <2>3 DEF WatchlistInv
<1>5. CASE after # NULL
  <2>1. Good(after)
    BY <1>2, <1>3, <1>5, ChangedGood DEF WatchlistInv, AskedWell, Section
  <2>2. /\ _lock' = r
        /\ req' = [req EXCEPT ![r].items = after]
        /\ pc' = [pc EXCEPT ![r] = "open"]
    BY <1>1, <1>5 DEF Goto
  <2> HIDE DEF after
  <2>3. TypeOK'
    BY <1>2, <2>1, <2>2 DEF WatchlistInv, TypeOK, Good
  <2>4. Good(file)' /\ AskedWell'
    BY <1>2, <2>2 DEF WatchlistInv, TypeOK, AskedWell, Section
  <2>5. \A q \in Requests : pc[q] \notin Section
    BY <1>2, WatchlistAssumption DEF WatchlistInv, Owns
  <2>6. Owns' /\ Prepared' /\ Written'
    BY <2>1, <2>2, <2>5 DEF WatchlistInv, TypeOK, Owns, Prepared, Written, Section
  <2> QED
    BY <2>3, <2>4, <2>6 DEF WatchlistInv
<1> QED
  BY <1>4, <1>5

LEMMA WriteKeepsInv ==
  ASSUME WatchlistInv, NEW r \in Requests, TmpOpen(r) \/ TmpWrite(r)
  PROVE  WatchlistInv'
<1>1. PICK new \in {PARTIAL} \cup Seq(Entry), from \in {"open", "write"}, to \in {"write", "replace"} :
        /\ pc[r] = from /\ pc' = [pc EXCEPT ![r] = to]
        /\ tmp' = new
        /\ to = "replace" => new = req[r].items
        /\ UNCHANGED <<file, _lock, req>>
  BY DEF TmpOpen, TmpWrite, Goto, WatchlistInv, Prepared, Section, Good
<1>2. \A q \in Requests \ {r} : pc[q] \notin Section
  BY <1>1 DEF WatchlistInv, Owns, Section
<1>3. TypeOK'
  BY <1>1 DEF WatchlistInv, TypeOK
<1>4. Good(file)' /\ AskedWell' /\ Owns' /\ Prepared'
  BY <1>1 DEF WatchlistInv, TypeOK, AskedWell, Owns, Prepared, Section
<1>5. Written'
  BY <1>1, <1>2 DEF WatchlistInv, TypeOK, Written, Section
<1> QED
  BY <1>3, <1>4, <1>5 DEF WatchlistInv

LEMMA EndKeepsInv ==
  ASSUME WatchlistInv, NEW r \in Requests, Replace(r) \/ WriteFail(r)
  PROVE  WatchlistInv'
<1>1. /\ pc[r] \in Section /\ pc' = [pc EXCEPT ![r] = "idle"]
      /\ req' = [req EXCEPT ![r] = Idle] /\ _lock' = NULL
  BY DEF Replace, WriteFail, Finish, Goto, Section
<1>2. \/ file' = req[r].items /\ Good(req[r].items) /\ tmp' = NULL
      \/ UNCHANGED <<file, tmp>>
  BY DEF Replace, WriteFail, WatchlistInv, Prepared, Written, Section
<1>3. \A q \in Requests \ {r} : pc[q] \notin Section
  BY <1>1 DEF WatchlistInv, Owns
<1>4. TypeOK'
  BY <1>1, <1>2 DEF WatchlistInv, TypeOK, Idle, Asked, Good
<1>5. Good(file)'
  BY <1>2 DEF WatchlistInv
<1>6. AskedWell'
  BY <1>1 DEF WatchlistInv, TypeOK, AskedWell, Section
<1>7. Owns' /\ Prepared' /\ Written'
  BY <1>1, <1>3 DEF WatchlistInv, TypeOK, Owns, Prepared, Written, Section
<1> QED
  BY <1>4, <1>5, <1>6, <1>7 DEF WatchlistInv

LEMMA ReaderKeepsInv ==
  ASSUME WatchlistInv, NEW t \in Readers, ReaderStart(t) \/ list_entries(t)
  PROVE  WatchlistInv'
<1>1. t \notin Requests /\ NULL \notin Requests
  BY WatchlistAssumption
<1>2. /\ UNCHANGED <<file, tmp, req>>
      /\ pc' = pc \/ \E site \in {"idle", "listing"} : pc' = [pc EXCEPT ![t] = site]
      /\ _lock' = _lock \/ (_lock \in {NULL, t} /\ _lock' \in {NULL, t})
  BY DEF ReaderStart, list_entries, Goto
<1>3. \A r \in Requests : pc'[r] = pc[r]
  BY <1>1, <1>2 DEF WatchlistInv, TypeOK
<1>4. TypeOK'
  BY <1>2 DEF WatchlistInv, TypeOK
<1>5. Good(file)' /\ AskedWell' /\ Prepared' /\ Written'
  BY <1>2, <1>3 DEF WatchlistInv, AskedWell, Prepared, Written
<1>6. Owns'
  BY <1>1, <1>2, <1>3 DEF WatchlistInv, Owns
<1> QED
  BY <1>4, <1>5, <1>6 DEF WatchlistInv

LEMMA RestartKeepsInv ==
  ASSUME WatchlistInv, Restart PROVE WatchlistInv'
<1>1. TypeOK'
  BY DEF WatchlistInv, TypeOK, Restart, Idle, Asked
<1>2. Good(file)' /\ AskedWell' /\ Owns' /\ Prepared' /\ Written'
  BY DEF WatchlistInv, Restart, AskedWell, Owns, Prepared, Written, Section
<1> QED
  BY <1>1, <1>2 DEF WatchlistInv

LEMMA NextKeepsInv == WatchlistInv /\ [Next]_vars => WatchlistInv'
<1> SUFFICES ASSUME WatchlistInv, [Next]_vars PROVE WatchlistInv'
  OBVIOUS
<1>1. ASSUME NEW r \in Requests, Start(r) PROVE WatchlistInv'
  BY <1>1, StartKeepsInv
<1>2. ASSUME NEW r \in Requests, Progress(r) PROVE WatchlistInv'
  BY <1>2, ResolvedKeepsInv, LockKeepsInv, WriteKeepsInv, EndKeepsInv DEF Progress
<1>3. ASSUME NEW t \in Readers, ReaderStart(t) \/ list_entries(t) PROVE WatchlistInv'
  BY <1>3, ReaderKeepsInv
<1>4. CASE Restart
  BY <1>4, RestartKeepsInv
<1>5. CASE UNCHANGED vars
  BY <1>5 DEF vars, WatchlistInv, TypeOK, AskedWell, Owns, Prepared, Written
<1> QED
  BY <1>1, <1>2, <1>3, <1>4, <1>5 DEF Next

LEMMA Invariance == Spec => []WatchlistInv
  BY InitInv, NextKeepsInv, PTL DEF Spec

(* Every variable keeps its type, whatever reading and writing do.         *)
THEOREM TypeCorrect == Spec => []TypeOK
<1>1. WatchlistInv => TypeOK
  BY DEF WatchlistInv
<1> QED
  BY <1>1, Invariance, PTL

(* One entry per ISIN and no more than the cap, whatever reads, writes and *)
(* kills come between the requests: POST, DELETE, PATCH and resolve look   *)
(* again under the lock at what they checked before they awaited Yahoo.    *)
THEOREM NoDuplicates == Spec => []OneEntryPerIsin
<1>1. WatchlistInv => OneEntryPerIsin
  BY DEF WatchlistInv, Good, Unique, OneEntryPerIsin
<1> QED
  BY <1>1, Invariance, PTL

-----------------------------------------------------------------------------
(* The refinement: as long as the file can be read, what a request is      *)
(* about to write is its own operation on the file as it is.               *)

Current == \A r \in Requests : pc[r] \in Section =>
    /\ req[r].items = Changed(req[r].op, file, req[r].isin, req[r].asset_type)
    /\ req[r].items # NULL

LEMMA NextKeepsCurrent ==
  ASSUME ReadFaults = FALSE, WatchlistInv, Current, [Next]_vars
  PROVE  Current'
<1>1. ASSUME NEW r \in Requests, Start(r) PROVE Current'
  <2>1. /\ file' = file
        /\ \A q \in Requests : \/ pc'[q] \notin Section
                               \/ pc'[q] = pc[q] /\ req'[q] = req[q]
    BY <1>1 DEF Start, AddStart, ResolveStart, DirectStart, Goto, WatchlistInv, TypeOK, Section
  <2> QED
    BY <2>1 DEF Current
<1>2. ASSUME NEW r \in Requests, Resolved(r) PROVE Current'
  <2>1. /\ file' = file
        /\ \A q \in Requests : \/ pc'[q] \notin Section
                               \/ pc'[q] = pc[q] /\ req'[q] = req[q]
    BY <1>2 DEF Resolved, Finish, Goto, WatchlistInv, TypeOK, Section
  <2> QED
    BY <2>1 DEF Current
<1>3. ASSUME NEW r \in Requests, Lock(r) PROVE Current'
  <2> DEFINE after == Changed(req[r].op, file, req[r].isin, req[r].asset_type)
  <2>1. _read_unlocked = {file}
    BY DEF _read_unlocked
  <2>2. file' = file /\ IF after = NULL
                        THEN Finish(r)
                        ELSE req' = [req EXCEPT ![r].items = after] /\ Goto(r, "open")
    BY <1>3, <2>1 DEF Lock
  <2>3. pc'[r] \in Section =>
          /\ req'[r].op = req[r].op /\ req'[r].isin = req[r].isin
          /\ req'[r].asset_type = req[r].asset_type
          /\ req'[r].items = after /\ after # NULL
    <3> HIDE DEF after
    <3> QED
      BY <2>2 DEF Finish, Goto, WatchlistInv, TypeOK, Section
  <2>4. \A q \in Requests \ {r} : pc'[q] = pc[q] /\ req'[q] = req[q]
    <3> HIDE DEF after
    <3> QED
      BY <2>2 DEF Finish, Goto, WatchlistInv, TypeOK
  <2> QED
    BY <2>2, <2>3, <2>4 DEF Current
<1>4. ASSUME NEW r \in Requests, TmpOpen(r) \/ TmpWrite(r) PROVE Current'
  <2>1. /\ file' = file /\ req' = req
        /\ \A q \in Requests : pc'[q] \in Section => pc[q] \in Section
    BY <1>4 DEF TmpOpen, TmpWrite, Goto, WatchlistInv, TypeOK, Section
  <2> QED
    BY <2>1 DEF Current
<1>5. ASSUME NEW r \in Requests, Replace(r) \/ WriteFail(r) PROVE Current'
  <2>1. pc[r] \in Section /\ pc' = [pc EXCEPT ![r] = "idle"]
    BY <1>5 DEF Replace, WriteFail, Finish, Goto, Section
  <2>2. \A q \in Requests \ {r} : pc[q] \notin Section
    BY <2>1 DEF WatchlistInv, Owns
  <2>3. \A q \in Requests : pc'[q] \notin Section
    BY <2>1, <2>2 DEF WatchlistInv, TypeOK, Section
  <2> QED
    BY <2>3 DEF Current
<1>6. ASSUME NEW t \in Readers, ReaderStart(t) \/ list_entries(t) PROVE Current'
  <2>1. \A r \in Requests : pc'[r] = pc[r]
    BY <1>6, WatchlistAssumption DEF ReaderStart, list_entries, Goto, WatchlistInv, TypeOK
  <2> QED
    BY <1>6, <2>1 DEF ReaderStart, list_entries, Current
<1>7. CASE Restart
  BY <1>7 DEF Restart, Current, Section
<1>8. CASE UNCHANGED vars
  BY <1>8 DEF vars, Current
<1> QED
  BY <1>1, <1>2, <1>3, <1>4, <1>5, <1>6, <1>7, <1>8 DEF Next, Progress

(* What the abstract watchlist does while the file is replaced.            *)
LEMMA ChangedAbstract ==
  ASSUME NEW items, Good(items), NEW op \in Ops, NEW isin \in Isins,
         NEW type, op # "remove" => type \in _VALID_TYPES,
         Changed(op, items, isin, type) # NULL
  PROVE  LET a == Abstract(items)
             b == Abstract(Changed(op, items, isin, type))
         IN  \/ op = "add" /\ isin \notin DOMAIN a /\ Cardinality(DOMAIN a) < MAX_ENTRIES
                /\ b = Put(a, isin, type, "auto")
             \/ op = "remove" /\ isin \in DOMAIN a /\ b = [i \in DOMAIN a \ {isin} |-> a[i]]
             \/ op = "override" /\ isin \in DOMAIN a /\ b = Put(a, isin, type, "manual")
             \/ op = "resolve" /\ isin \in DOMAIN a /\ a[isin].source = "auto"
                /\ b = Put(a, isin, type, "auto")
             \/ b = a
<1> DEFINE after == Changed(op, items, isin, type)
           a == Abstract(items)
<1>1. DOMAIN a = ListedIn(items)
  BY DEF Abstract
<1>2. isin \in DOMAIN a <=> At(items, isin) # {}
  BY <1>1 DEF ListedIn, At
<1>3. CASE op = "add"
  <2>1. after = add_entry(items, isin, type)
    BY <1>3 DEF Changed
  <2>2. At(items, isin) = {} /\ ~(Len(items) >= MAX_ENTRIES)
    BY <2>1 DEF add_entry
  <2>3. Len(items) < MAX_ENTRIES
    BY <2>2, WatchlistAssumption DEF Good
  <2>4. Abstract(after) = Put(a, isin, type, "auto")
    BY <1>3, <2>1, <2>2, <2>3, AppendedAbstract DEF add_entry
  <2>5. items \in Seq(Entry)
    BY DEF Good
  <2>6. Cardinality(DOMAIN a) < MAX_ENTRIES
    BY <1>1, <2>3, <2>5, ListedAtMostLength, WatchlistAssumption
  <2> QED
    BY <1>2, <1>3, <2>2, <2>4, <2>6
<1>4. CASE op = "remove"
  <2>1. after = remove_entry(items, isin)
    BY <1>4 DEF Changed
  <2>2. At(items, isin) # {}
    BY <2>1 DEF remove_entry
  <2>3. Abstract(after) = [i \in DOMAIN a \ {isin} |-> a[i]]
    BY <2>1, <2>2, RemovedAbstract
  <2> QED
    BY <1>2, <1>4, <2>2, <2>3
<1>5. CASE op = "override"
  <2>1. after = set_asset_type(items, isin, type)
    BY <1>5 DEF Changed
  <2>2. At(items, isin) # {} /\ after = Replaced(items, isin, type, "manual")
    BY <2>1 DEF set_asset_type
  <2>3. Abstract(after) = Put(a, isin, type, "manual")
    BY <1>5, <2>2, ReplacedAbstract
  <2> QED
    BY <1>2, <1>5, <2>2, <2>3
<1>6. CASE op = "resolve"
  <2>1. after = update_resolution(items, isin, type)
    BY <1>6 DEF Changed
  <2>2. At(items, isin) # {}
    BY <2>1 DEF update_resolution
  <2>3. CASE \E k \in At(items, isin) : items[k].asset_type_source = "manual"
    BY <2>1, <2>2, <2>3 DEF update_resolution
  <2>4. CASE ~ \E k \in At(items, isin) : items[k].asset_type_source = "manual"
    <3>1. after = Replaced(items, isin, type, "auto")
      BY <2>1, <2>2, <2>4 DEF update_resolution
    <3>2. Abstract(after) = Put(a, isin, type, "auto")
      BY <1>6, <2>2, <3>1, ReplacedAbstract
    <3>3. PICK k \in At(items, isin) : TRUE
      BY <2>2
    <3>4. k \in DOMAIN items /\ items[k].isin = isin
      BY DEF At
    <3>5. items[k] \in Entry /\ items[k].asset_type_source # "manual"
      BY <2>4, <3>4 DEF Good
    <3>6. items[k].asset_type_source = "auto"
      BY <3>5 DEF Entry
    <3>7. a[isin] = Value(items[k])
      BY <3>4, AbstractAt
    <3>8. a[isin].source = "auto"
      BY <3>6, <3>7 DEF Value
    <3> QED
      BY <1>2, <1>6, <2>2, <3>2, <3>8
  <2> QED
    BY <2>3, <2>4
<1> QED
  BY <1>3, <1>4, <1>5, <1>6 DEF Ops

LEMMA EntriesAreAbstract == entries = Abstract(file) /\ entries' = Abstract(file')
  BY DEF entries, Listed, EntryOf, At, Abstract, ListedIn, Value

LEMMA InitImplements == Init => Store!Init
<1> SUFFICES ASSUME Init PROVE Store!Init
  OBVIOUS
<1>1. Listed = {}
  BY DEF Init, Listed
<1> QED
  BY <1>1 DEF Store!Init, entries

LEMMA NextImplements ==
  ASSUME ReadFaults = FALSE, WatchlistInv, Current, [Next]_vars
  PROVE  [Store!Next]_entries
<1>1. CASE file' = file
  BY <1>1, EntriesAreAbstract
<1>2. CASE file' # file
  <2>1. PICK r \in Requests : Replace(r)
    BY <1>2 DEF Next, Start, AddStart, ResolveStart, DirectStart, Progress, Resolved, Lock,
                TmpOpen, TmpWrite, WriteFail, ReaderStart, list_entries, Restart, vars
  <2> DEFINE op == req[r].op
             isin == req[r].isin
             type == req[r].asset_type
  <2>2. pc[r] \in Section /\ pc[r] # "idle" /\ file' = Changed(op, file, isin, type)
    BY <2>1 DEF Replace, WatchlistInv, Written, Current, Section
  <2>3. /\ Good(file) /\ op \in Ops /\ isin \in Isins
        /\ op # "remove" => type \in _VALID_TYPES
        /\ Changed(op, file, isin, type) # NULL
    BY <2>2 DEF WatchlistInv, AskedWell, Current, Section
  <2> HIDE DEF op, isin, type
  <2>4. \/ op = "add" /\ isin \notin DOMAIN entries
           /\ Cardinality(DOMAIN entries) < MAX_ENTRIES
           /\ entries' = Put(entries, isin, type, "auto")
        \/ op = "remove" /\ isin \in DOMAIN entries
           /\ entries' = [i \in DOMAIN entries \ {isin} |-> entries[i]]
        \/ op = "override" /\ isin \in DOMAIN entries
           /\ entries' = Put(entries, isin, type, "manual")
        \/ op = "resolve" /\ isin \in DOMAIN entries /\ entries[isin].source = "auto"
           /\ entries' = Put(entries, isin, type, "auto")
        \/ entries' = entries
    BY <2>2, <2>3, ChangedAbstract, EntriesAreAbstract
  <2>5. Store!Cardinality(DOMAIN entries) = Cardinality(DOMAIN entries)
    BY DEF Store!Cardinality, Cardinality
  <2>6. ASSUME NEW source
        PROVE  Store!With(isin, type, source) = Put(entries, isin, type, source)
    BY DEF Store!With, Store!Listed, Put
  <2>7. op # "remove" => type \in Store!Types
    BY <2>3 DEF Store!Types, _VALID_TYPES
  <2>8. CASE op = "add" /\ entries' # entries
    <3>1. Store!Add(isin, type)
      BY <2>4, <2>5, <2>6, <2>8 DEF Store!Add, Store!Listed
    <3> QED
      BY <2>3, <2>7, <2>8, <3>1 DEF Store!Next
  <2>9. CASE op = "remove" /\ entries' # entries
    <3>1. Store!Remove(isin)
      BY <2>4, <2>9 DEF Store!Remove, Store!Listed
    <3> QED
      BY <2>3, <3>1 DEF Store!Next
  <2>10. CASE op = "override" /\ entries' # entries
    <3>1. Store!Override(isin, type)
      BY <2>4, <2>6, <2>10 DEF Store!Override, Store!Listed
    <3> QED
      BY <2>3, <2>7, <2>10, <3>1 DEF Store!Next
  <2>11. CASE op = "resolve" /\ entries' # entries
    <3>1. Store!Resolve(isin, type)
      BY <2>4, <2>6, <2>11 DEF Store!Resolve, Store!Listed
    <3> QED
      BY <2>3, <2>7, <2>11, <3>1 DEF Store!Next
  <2> QED
    BY <2>4, <2>8, <2>9, <2>10, <2>11
<1> QED
  BY <1>1, <1>2

(* As long as the file can be read, it is an atomic watchlist: no change   *)
(* is lost or half made and no manual asset type is overwritten, over      *)
(* concurrent requests, failed writes and kills at every system call of    *)
(* _write_unlocked.                                                        *)
THEOREM StoreImplemented ==
  ASSUME ReadFaults = FALSE
  PROVE  Spec => ImplementsWatchlist
<1>1. Init => Current
  BY DEF Init, Current, Section
<1>2. WatchlistInv /\ Current /\ [Next]_vars => Current'
  BY NextKeepsCurrent
<1>3. WatchlistInv /\ Current /\ [Next]_vars => [Store!Next]_entries
  BY NextImplements
<1> QED
  BY <1>1, <1>2, <1>3, Invariance, InitImplements, PTL DEF Spec, ImplementsWatchlist, Store!Spec
=============================================================================
