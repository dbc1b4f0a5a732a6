--------------------------- MODULE WatchlistStore ---------------------------
(***************************************************************************)
(* What the watchlist promises: at most one entry per ISIN, at most so     *)
(* many entries, each of the four operations in one step, and an asset     *)
(* type chosen by hand that only a hand changes.                           *)
(***************************************************************************)
EXTENDS Naturals, FiniteSets

CONSTANTS Isins, MaxEntries

Types == {"ETF", "STOCK"}

VARIABLE entries     \* ISIN -> asset type and who chose it

Listed == DOMAIN entries

With(isin, type, source) ==
    [i \in Listed \cup {isin} |->
        IF i = isin THEN [type |-> type, source |-> source] ELSE entries[i]]

Add(isin, type) ==
    /\ isin \notin Listed
    /\ Cardinality(Listed) < MaxEntries
    /\ entries' = With(isin, type, "auto")

Remove(isin) ==
    /\ isin \in Listed
    /\ entries' = [i \in Listed \ {isin} |-> entries[i]]

Override(isin, type) ==
    /\ isin \in Listed
    /\ entries' = With(isin, type, "manual")

Resolve(isin, type) ==
    /\ isin \in Listed
    /\ entries[isin].source = "auto"
    /\ entries' = With(isin, type, "auto")

Init == entries = [i \in {} |-> [type |-> "ETF", source |-> "auto"]]

Next == \E isin \in Isins :
    \/ Remove(isin)
    \/ \E type \in Types : Add(isin, type) \/ Override(isin, type) \/ Resolve(isin, type)

Spec == Init /\ [][Next]_entries
=============================================================================
