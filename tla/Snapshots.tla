----------------------------- MODULE Snapshots -----------------------------
(***************************************************************************)
(* The snapshot directory: save_snapshot and the pruning that follows it,  *)
(* load_snapshots and load_latest_snapshot (app/snapshots.py), and         *)
(* DELETE /api/snapshots/{date} (app/main.py).                             *)
(*                                                                         *)
(* A writer is whoever calls _save_snapshot_for_portfolio: coroutines call *)
(* it on the event loop and keep the loop until it returns; enrichments    *)
(* call it from a worker thread.  DELETE runs on the loop.  A step is one  *)
(* system call on the directory.  An open file is an inode: open(tmp, "w") *)
(* truncates the inode of a temporary file that is already there, and a    *)
(* writer goes on writing to its inode after somebody renamed it.  A file  *)
(* is written in two chunks, at the writer's own offset.                   *)
(***************************************************************************)
EXTENDS Naturals, FiniteSets, FiniteSetsExt

CONSTANTS
    ThreadWriters,  \* savers in worker threads
    LoopWriters,    \* savers on the event loop
    Deletes,        \* concurrent DELETE requests
    Retention,      \* SNAPSHOT_RETENTION_DAYS
    MaxDay,         \* bound: days in a behaviour
    MaxSaves,       \* bound: saves in a behaviour
    NULL

Writers == ThreadWriters \cup LoopWriters
Callers == Writers \cup Deletes
Dates == 1..MaxDay
Saves == 0..MaxSaves      \* 0: a snapshot found at the start
Chunks == {1, 2}

ASSUME SnapshotsAssumption ==
    /\ ThreadWriters \cap LoopWriters = {}
    /\ Deletes \cap Writers = {}
    /\ Retention \in Nat
    /\ MaxDay \in Nat \ {0}
    /\ MaxSaves \in Nat
    /\ NULL \notin Nat

VARIABLES
    files,   \* {date}.json: its inode, or NULL
    tmp,     \* {date}.json.tmp: its inode, or NULL
    data,    \* inode -> which save each of its chunks was written by, or NULL
    pc,      \* where each writer and each DELETE is
    job,     \* what each of them is working on
    today,   \* datetime.now()
    saves    \* saves started so far

directory == <<files, tmp, data>>
vars == <<directory, pc, job, today, saves>>

Whole(inode) == data[inode][1] # NULL /\ data[inode][1] = data[inode][2]
Existing == {d \in Dates : files[d] # NULL}

(* load_snapshots, and every reader, skips a file that does not parse.     *)
load_snapshots == {d \in Existing : Whole(files[d])}

Content(d) == data[files[d]][1]

(* The save a start restores, if there is one.                             *)
load_latest_snapshot == Content(Max(load_snapshots))

LoopFree == \A q \in LoopWriters \cup Deletes : pc[q] = "idle"
Goto(q, site) == pc' = [pc EXCEPT ![q] = site]

Sites == {"idle", "open", "write1", "write2", "rename", "prune", "unlink", "delete"}
Job == [date: Dates \cup {NULL}, save: Saves \cup {NULL},
        inode: Saves \cup {NULL}, doomed: SUBSET Dates]
Idle == [date |-> NULL, save |-> NULL, inode |-> NULL, doomed |-> {}]
Finish(q) ==
    /\ Goto(q, "idle")
    /\ job' = [job EXCEPT ![q] = Idle]

-----------------------------------------------------------------------------
(* _save_snapshot_for_portfolio, save_snapshot *)

SaveStart_Tomorrow(w) ==
    /\ pc[w] = "idle"
    /\ w \in LoopWriters => LoopFree
    /\ saves < MaxSaves
    /\ saves' = saves + 1
    /\ job' = [job EXCEPT ![w] = [Idle EXCEPT !.date = today + 1, !.save = saves']]
    /\ Goto(w, "open")
    /\ UNCHANGED <<directory, today>>

SaveStart_OtherClock(w) ==
    /\ pc[w] = "idle"
    /\ w \in LoopWriters => LoopFree
    /\ saves < MaxSaves
    /\ saves' = saves + 1
    /\ \E date \in {today - 1, today, today + 1} \cap Dates :
         job' = [job EXCEPT ![w] = [Idle EXCEPT !.date = date, !.save = saves']]
    /\ Goto(w, "open")
    /\ UNCHANGED <<directory, today>>

(* The date is read first; the benchmark is then fetched from the network. *)
SaveStart(w) ==
    /\ pc[w] = "idle"
    /\ w \in LoopWriters => LoopFree
    /\ saves < MaxSaves
    /\ saves' = saves + 1
    /\ job' = [job EXCEPT ![w] = [Idle EXCEPT !.date = today, !.save = saves']]
    /\ Goto(w, "open")
    /\ UNCHANGED <<directory, today>>

Truncated(inode) == [data EXCEPT ![inode] = [k \in Chunks |-> NULL]]

SaveOpen(w) ==
    LET inode == IF tmp[job[w].date] # NULL THEN tmp[job[w].date] ELSE job[w].save
    IN  /\ pc[w] = "open"
        /\ tmp' = [tmp EXCEPT ![job[w].date] = inode]
        /\ data' = Truncated(inode)
        /\ job' = [job EXCEPT ![w].inode = inode]
        /\ Goto(w, "write1")
        /\ UNCHANGED <<files, today, saves>>

SaveWrite(w, k) ==
    /\ pc[w] = IF k = 1 THEN "write1" ELSE "write2"
    /\ data' = [data EXCEPT ![job[w].inode][k] = job[w].save]
    /\ Goto(w, IF k = 1 THEN "write2" ELSE "rename")
    /\ UNCHANGED <<files, tmp, job, today, saves>>

SaveRename_BeforeFlush(w) ==
    /\ pc[w] \in {"write2", "rename"}
    /\ tmp[job[w].date] # NULL
    /\ files' = [files EXCEPT ![job[w].date] = tmp[job[w].date]]
    /\ tmp' = [tmp EXCEPT ![job[w].date] = NULL]
    /\ Goto(w, "prune")
    /\ UNCHANGED <<data, job, today, saves>>

SaveRename(w) ==
    /\ pc[w] = "rename"
    /\ tmp[job[w].date] # NULL
    /\ files' = [files EXCEPT ![job[w].date] = tmp[job[w].date]]
    /\ tmp' = [tmp EXCEPT ![job[w].date] = NULL]
    /\ Goto(w, "prune")
    /\ UNCHANGED <<data, job, today, saves>>

(* A read, a write or a rename that raises: logged, the save is over.  The *)
(* temporary file stays as it is.                                          *)
SaveFail(w) ==
    /\ pc[w] \in {"open", "write1", "write2", "rename"}
    /\ Finish(w)
    /\ UNCHANGED <<directory, today, saves>>

-----------------------------------------------------------------------------
(* _prune_old_snapshots *)

(* The cutoff comes from the UTC date, a day off at most.  0 disables.     *)
PruneList(w) ==
    /\ pc[w] = "prune"
    /\ \E utc \in {today - 1, today, today + 1} :
         job' = [job EXCEPT ![w].doomed =
                   IF Retention = 0 THEN {}
                   ELSE {d \in Existing : (\E e \in Existing : d < e) /\ d + Retention < utc}]
    /\ Goto(w, "unlink")
    /\ UNCHANGED <<directory, today, saves>>

(* One file after the other, oldest first; one that is gone is skipped.    *)
PruneUnlink(w) ==
    /\ pc[w] = "unlink"
    /\ job[w].doomed # {}
    /\ files' = [files EXCEPT ![Min(job[w].doomed)] = NULL]
    /\ job' = [job EXCEPT ![w].doomed = @ \ {Min(@)}]
    /\ UNCHANGED <<tmp, data, pc, today, saves>>

PruneDone(w) ==
    /\ pc[w] = "unlink"
    /\ job[w].doomed = {}
    /\ Finish(w)
    /\ UNCHANGED <<directory, today, saves>>

-----------------------------------------------------------------------------
(* delete_snapshot *)

DeleteCheck_CountsFiles(q, d) ==
    /\ LoopFree
    /\ pc[q] = "idle"
    /\ d \in Existing
    /\ job' = [job EXCEPT ![q].date = d]
    /\ Goto(q, "delete")
    /\ UNCHANGED <<directory, today, saves>>

(* 404 and 400 (the only snapshot) are stuttering steps.                   *)
DeleteCheck(q, d) ==
    /\ LoopFree
    /\ pc[q] = "idle"
    /\ d \in Existing
    /\ Cardinality(load_snapshots) > 1
    /\ job' = [job EXCEPT ![q].date = d]
    /\ Goto(q, "delete")
    /\ UNCHANGED <<directory, today, saves>>

(* A file that has gone since raises, and answers 500.                     *)
DeleteUnlink(q) ==
    /\ pc[q] = "delete"
    /\ files' = [files EXCEPT ![job[q].date] = NULL]
    /\ Finish(q)
    /\ UNCHANGED <<tmp, data, today, saves>>

delete_snapshot(q) == DeleteUnlink(q) \/ \E d \in Dates : DeleteCheck(q, d)

-----------------------------------------------------------------------------
(* The process dies, at any moment, and is started again.                  *)
Restart ==
    /\ pc' = [q \in Callers |-> "idle"]
    /\ job' = [q \in Callers |-> Idle]
    /\ UNCHANGED <<directory, today, saves>>

DayPasses ==
    /\ today < MaxDay
    /\ today' = today + 1
    /\ UNCHANGED <<directory, pc, job, saves>>

Init ==
    /\ files \in {[d \in Dates |-> NULL], [d \in Dates |-> IF d = 1 THEN 0 ELSE NULL]}
    /\ tmp = [d \in Dates |-> NULL]
    /\ data = [i \in Saves |-> [k \in Chunks |-> IF i = 0 THEN 0 ELSE NULL]]
    /\ pc = [q \in Callers |-> "idle"]
    /\ job = [q \in Callers |-> Idle]
    /\ today = 1
    /\ saves = 0

save_snapshot(w) ==
    \/ SaveStart(w) \/ SaveOpen(w) \/ SaveWrite(w, 1) \/ SaveWrite(w, 2)
    \/ SaveRename(w) \/ SaveFail(w)
    \/ PruneList(w) \/ PruneUnlink(w) \/ PruneDone(w)

Next ==
    \/ \E w \in Writers : save_snapshot(w)
    \/ \E q \in Deletes : delete_snapshot(q)
    \/ Restart
    \/ DayPasses

Spec == Init /\ [][Next]_vars

-----------------------------------------------------------------------------
(* Every variable has its type.                                            *)
TypeOK ==
    /\ files \in [Dates -> Saves \cup {NULL}]
    /\ tmp \in [Dates -> Saves \cup {NULL}]
    /\ data \in [Saves -> [Chunks -> Saves \cup {NULL}]]
    /\ pc \in [Callers -> Sites]
    /\ job \in [Callers -> Job]
    /\ today \in Dates
    /\ saves \in Saves

(* snapshots.py:87 "Snapshot saved (atomic)": a snapshot file is complete  *)
(* at every moment, whatever save failed or was killed half-way.  True as  *)
(* long as one writer runs at a time.                                      *)
FilesWhole == load_snapshots = Existing

(* The directory is the abstract store: for readers a save is one step, it *)
(* brings the newest data, and pruning and DELETE never take the last      *)
(* snapshot.  True where saves run one at a time and keep the event loop.  *)
store == [d \in Dates |-> IF d \in load_snapshots THEN Content(d) ELSE NULL]
Store == INSTANCE SnapshotStore
ImplementsStore == Store!Spec

(* A start restores the newest save there is, although it goes by the date *)
(* in the file name and a save may end on a later day than it began on.    *)
RestoresNewest == \A d \in load_snapshots : Content(d) <= load_latest_snapshot
=============================================================================
