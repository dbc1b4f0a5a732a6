----------------------------- MODULE Watchlist -----------------------------
(***************************************************************************)
(* The watchlist file (app/watchlist_store.py) under the requests that     *)
(* change it (app/main.py: POST, DELETE and PATCH /api/watchlist, POST     *)
(* /api/watchlist/{isin}/resolve) and the worker threads that list it.     *)
(*                                                                         *)
(* A request that adds or re-resolves an ISIN asks Yahoo in a worker       *)
(* thread first; until the answer is back, other requests run.  The change *)
(* itself runs on the event loop from lock to unlock.                      *)
(***************************************************************************)
EXTENDS Naturals, Sequences, FiniteSets, Comprehension

CONSTANTS
    Isins,
    Requests,       \* concurrent requests that change the watchlist
    Readers,        \* worker threads that call list_entries
    MAX_ENTRIES,
    ReadFaults,     \* whether reading the file may raise
    PARTIAL,        \* a file cut short
    NULL

_VALID_TYPES == {"ETF", "STOCK"}
Ops == {"add", "remove", "override", "resolve"}

ASSUME WatchlistAssumption ==
    /\ Requests \cap Readers = {}
    /\ MAX_ENTRIES \in Nat
    /\ ReadFaults \in BOOLEAN
    /\ NULL \notin Requests \cup Readers
    /\ PARTIAL # NULL

VARIABLES
    file,    \* the items of watchlist.json
    tmp,     \* watchlist.json.tmp: NULL, or its items, or PARTIAL
    _lock,   \* who is in the critical section
    pc,      \* where each request is
    req      \* what it was asked, what Yahoo answered, what it will write

vars == <<file, tmp, _lock, pc, req>>

Entry == [isin: Isins, asset_type: _VALID_TYPES, asset_type_source: {"auto", "manual"}]
Asked(op, isin, type) == [op |-> op, isin |-> isin, asset_type |-> type, items |-> NULL]
Idle == Asked(NULL, NULL, NULL)

(* The requests that keep the event loop.                                  *)
LoopFree == \A r \in Requests : pc[r] \in {"idle", "resolving"}
Goto(r, site) == pc' = [pc EXCEPT ![r] = site]
Finish(r) ==
    /\ Goto(r, "idle")
    /\ req' = [req EXCEPT ![r] = Idle]

At(items, isin) == {k \in DOMAIN items : items[k].isin = isin}

-----------------------------------------------------------------------------
(* The requests, up to the critical section *)

(* An owned ISIN answers 400, a stuttering step.  What is owned changes    *)
(* with every portfolio and is asked here only: either answer may come.    *)
AddStart(r, isin) ==
    /\ LoopFree
    /\ pc[r] = "idle"
    /\ req' = [req EXCEPT ![r] = Asked("add", isin, NULL)]
    /\ Goto(r, "resolving")
    /\ UNCHANGED <<file, tmp, _lock>>

ResolveStart(r, isin) ==
    /\ LoopFree
    /\ pc[r] = "idle"
    /\ req' = [req EXCEPT ![r] = Asked("resolve", isin, NULL)]
    /\ Goto(r, "resolving")
    /\ UNCHANGED <<file, tmp, _lock>>

(* resolve_and_classify is back with a type, or the answer is 400.         *)
Resolved(r) ==
    /\ LoopFree
    /\ pc[r] = "resolving"
    /\ \/ /\ \E type \in _VALID_TYPES : req' = [req EXCEPT ![r].asset_type = type]
          /\ Goto(r, "locking")
       \/ Finish(r)
    /\ UNCHANGED <<file, tmp, _lock>>

DirectStart(r, op, isin, type) ==
    /\ LoopFree
    /\ pc[r] = "idle"
    /\ req' = [req EXCEPT ![r] = Asked(op, isin, type)]
    /\ Goto(r, "locking")
    /\ UNCHANGED <<file, tmp, _lock>>

-----------------------------------------------------------------------------
(* The critical section: read, change, write the temporary file, replace *)

(* What may come of reading the file; an exception reads as empty.         *)
_read_unlocked == {file} \cup IF ReadFaults THEN {<< >>} ELSE {}

Record(isin, type, source) ==
    [isin |-> isin, asset_type |-> type, asset_type_source |-> source]

add_entry_NoDuplicateCheck(items, isin, type) ==
    IF Len(items) >= MAX_ENTRIES THEN NULL
    ELSE Append(items, Record(isin, type, "auto"))

add_entry(items, isin, type) ==
    IF Len(items) >= MAX_ENTRIES \/ At(items, isin) # {} THEN NULL
    ELSE Append(items, Record(isin, type, "auto"))

(* The items of other ISINs, in their order.                               *)
remove_entry(items, isin) ==
    IF At(items, isin) = {} THEN NULL
    ELSE ItemsAt(items, DOMAIN items \ At(items, isin))

Replaced(items, isin, type, source) ==
    LET k == CHOOSE k \in At(items, isin) : \A j \in At(items, isin) : k <= j
    IN  [items EXCEPT ![k] = Record(isin, type, source)]

set_asset_type(items, isin, type) ==
    IF At(items, isin) = {} THEN NULL ELSE Replaced(items, isin, type, "manual")

update_resolution_ForgetsManual(items, isin, type) ==
    IF At(items, isin) = {} THEN NULL ELSE Replaced(items, isin, type, "auto")

update_resolution(items, isin, type) ==
    IF At(items, isin) = {} THEN NULL
    ELSE IF \E k \in At(items, isin) : items[k].asset_type_source = "manual" THEN items
    ELSE Replaced(items, isin, type, "auto")

(* The items after the operation; NULL where it raises.                    *)
Changed(op, items, isin, type) ==
    CASE op = "add" -> add_entry(items, isin, type)
      [] op = "remove" -> remove_entry(items, isin)
      [] op = "override" -> set_asset_type(items, isin, type)
      [] op = "resolve" -> update_resolution(items, isin, type)

(* A ValueError or KeyError leaves the section and answers 400 or 404.     *)
Lock(r) ==
    /\ pc[r] = "locking"
    /\ _lock = NULL
    /\ \E items \in _read_unlocked :
         LET after == Changed(req[r].op, items, req[r].isin, req[r].asset_type)
         IN  IF after = NULL
             THEN Finish(r) /\ UNCHANGED _lock
             ELSE /\ _lock' = r
                  /\ req' = [req EXCEPT ![r].items = after]
                  /\ Goto(r, "open")
    /\ UNCHANGED <<file, tmp>>

TmpOpen(r) ==
    /\ pc[r] = "open"
    /\ tmp' = PARTIAL
    /\ Goto(r, "write")
    /\ UNCHANGED <<file, _lock, req>>

TmpWrite(r) ==
    /\ pc[r] = "write"
    /\ tmp' = req[r].items
    /\ Goto(r, "replace")
    /\ UNCHANGED <<file, _lock, req>>

Replace_BeforeWrite(r) ==
    /\ pc[r] \in {"write", "replace"}
    /\ file' = tmp
    /\ tmp' = NULL
    /\ _lock' = NULL
    /\ Finish(r)

Replace(r) ==
    /\ pc[r] = "replace"
    /\ file' = tmp
    /\ tmp' = NULL
    /\ _lock' = NULL
    /\ Finish(r)

WriteFail_KeepsLock(r) ==
    /\ pc[r] \in {"open", "write", "replace"}
    /\ Finish(r)
    /\ UNCHANGED <<file, tmp, _lock>>

(* The disk is full, say: 500, the lock is released, the file is as it was.*)
WriteFail(r) ==
    /\ pc[r] \in {"open", "write", "replace"}
    /\ _lock' = NULL
    /\ Finish(r)
    /\ UNCHANGED <<file, tmp>>

-----------------------------------------------------------------------------
(* Everybody else *)

(* A thread scores or merges the watchlist, and lists it once.             *)
ReaderStart(t) ==
    /\ LoopFree
    /\ pc[t] = "idle"
    /\ Goto(t, "listing")
    /\ UNCHANGED <<file, tmp, _lock, req>>

list_entries(t) ==
    /\ pc[t] = "listing"
    /\ \/ _lock = NULL /\ _lock' = t /\ UNCHANGED pc
       \/ _lock = t /\ _lock' = NULL /\ Goto(t, "idle")
    /\ UNCHANGED <<file, tmp, req>>

(* The process dies, at any moment, and is started again.                  *)
Restart ==
    /\ _lock' = NULL
    /\ pc' = [q \in Requests \cup Readers |-> "idle"]
    /\ req' = [r \in Requests |-> Idle]
    /\ UNCHANGED <<file, tmp>>

Init ==
    /\ file = << >>
    /\ tmp = NULL
    /\ _lock = NULL
    /\ pc = [q \in Requests \cup Readers |-> "idle"]
    /\ req = [r \in Requests |-> Idle]

Start(r) == \E isin \in Isins :
    \/ AddStart(r, isin)
    \/ ResolveStart(r, isin)
    \/ DirectStart(r, "remove", isin, NULL)
    \/ \E type \in _VALID_TYPES : DirectStart(r, "override", isin, type)

Progress(r) ==
    Resolved(r) \/ Lock(r) \/ TmpOpen(r) \/ TmpWrite(r) \/ Replace(r) \/ WriteFail(r)

Next ==
    \/ \E r \in Requests : Start(r) \/ Progress(r)
    \/ \E t \in Readers : ReaderStart(t) \/ list_entries(t)
    \/ Restart

Spec == Init /\ [][Next]_vars

(* The loop goes on with what it runs and comes back to an answered        *)
(* request (its ready queue is FIFO); a thread goes on.  The lock needs no *)
(* fairness of its own: threads are started by the loop, so no new reader  *)
(* comes while it waits.                                                   *)
Fairness ==
    /\ \A r \in Requests :
         /\ SF_vars(Resolved(r))
         /\ WF_vars(Progress(r))
    /\ \A t \in Readers : WF_vars(list_entries(t))

FairSpec == Spec /\ Fairness

-----------------------------------------------------------------------------
(* Every variable has its type.                                            *)
TypeOK ==
    /\ file \in Seq(Entry)
    /\ tmp \in {NULL, PARTIAL} \cup Seq(Entry)
    /\ _lock \in Requests \cup Readers \cup {NULL}
    /\ pc \in [Requests \cup Readers -> {"idle", "listing",
                                   "resolving", "locking", "open", "write", "replace"}]
    /\ req \in [Requests -> [op: Ops \cup {NULL}, isin: Isins \cup {NULL},
                             asset_type: _VALID_TYPES \cup {NULL},
                             items: {NULL} \cup Seq(Entry)]]

(* One entry per ISIN and no more than the cap, with several adds of the   *)
(* same ISIN in flight: the checks are made again after the await.         *)
OneEntryPerIsin ==
    /\ Len(file) <= MAX_ENTRIES
    /\ \A j, k \in DOMAIN file : file[j].isin = file[k].isin => j = k

(* The file behaves as the abstract watchlist: each change is one step and *)
(* nothing else is lost, over concurrent requests, failed writes and kills.*)
Listed == {file[k].isin : k \in DOMAIN file}
EntryOf(isin) == file[CHOOSE k \in At(file, isin) : TRUE]
entries == [i \in Listed |-> [type |-> EntryOf(i).asset_type,
                              source |-> EntryOf(i).asset_type_source]]
Store == INSTANCE WatchlistStore WITH MaxEntries <- MAX_ENTRIES
ImplementsWatchlist == Store!Spec

(* A request ends, although it stops the event loop while it waits for a   *)
(* thread to leave the lock.                                               *)
RequestsEnd == \A r \in Requests : pc[r] # "idle" ~> pc[r] = "idle"
=============================================================================
