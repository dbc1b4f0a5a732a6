--------------------------- MODULE SnapshotStore ---------------------------
(***************************************************************************)
(* What the snapshot directory promises the rest of the program: for each  *)
(* day at most one snapshot, complete, and newer than every other one when *)
(* it is stored; once there is a snapshot, a restart finds one.            *)
(***************************************************************************)
EXTENDS Naturals

CONSTANTS Dates,    \* the days a snapshot can be filed under
          Saves,    \* save attempts, numbered in the order they start
          NULL

VARIABLE store      \* the save each day's snapshot comes from, or NULL

Stored == {d \in Dates : store[d] # NULL}

(* Replacing a day's snapshot is one step, and never brings older data.    *)
Put(d, s) ==
    /\ \A e \in Stored : store[e] < s
    /\ store' = [store EXCEPT ![d] = s]

(* Pruned or deleted, a snapshot leaves another one behind.                *)
Remove(d) ==
    /\ d \in Stored
    /\ Stored # {d}
    /\ store' = [store EXCEPT ![d] = NULL]

Init == store \in [Dates -> Saves \cup {NULL}]

Next ==
    \/ \E d \in Dates, s \in Saves : Put(d, s)
    \/ \E d \in Dates : Remove(d)

Spec == Init /\ [][Next]_store
=============================================================================
