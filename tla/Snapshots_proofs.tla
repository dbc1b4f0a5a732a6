-------------------------- MODULE Snapshots_proofs --------------------------
(***************************************************************************)
(* Proofs about the snapshot directory, for any retention, any number of   *)
(* days, saves and deletions.                                              *)
(***************************************************************************)
EXTENDS Snapshots, FiniteSetTheorems, WellFoundedInduction, TLAPS

USE SnapshotsAssumption

(***************************************************************************)
(* A writer at work knows its date and its save, and once its temporary    *)
(* file is open, its inode.                                                *)
(***************************************************************************)
Writing == {"write1", "write2", "rename"}

JobReady ==
    \A w \in Writers :
        /\ pc[w] # "delete"
        /\ pc[w] \in Writing \cup {"open"} => job[w].date \in Dates /\ job[w].save \in Saves
        /\ pc[w] \in Writing => job[w].inode \in Saves

TypeInv == TypeOK /\ JobReady

LEMMA InitType == Init => TypeInv
  BY DEF Init, TypeInv, TypeOK, JobReady, Writing, Idle, Job, Sites, Callers, Writers, Dates, Saves, Chunks

(* One caller moves on, with a job of the right type.                      *)
LEMMA CallerMoves ==
  ASSUME NEW q \in Callers, NEW site \in Sites, NEW j \in Job, TypeInv,
         pc' = [pc EXCEPT ![q] = site], job' = [job EXCEPT ![q] = j],
         q \in Writers =>
           /\ site # "delete"
           /\ site \in Writing \cup {"open"} => j.date \in Dates /\ j.save \in Saves
           /\ site \in Writing => j.inode \in Saves
  PROVE  pc' \in [Callers -> Sites] /\ job' \in [Callers -> Job] /\ JobReady'
  BY DEF TypeInv, TypeOK, JobReady, Callers

(* Saves, deletions, days and restarts keep every variable's type.         *)
LEMMA NextType == TypeInv /\ [Next]_vars => TypeInv'
<1> SUFFICES ASSUME TypeInv, [Next]_vars PROVE TypeInv'
  OBVIOUS
<1> USE DEF TypeInv, TypeOK, directory, Goto
<1>1. ASSUME NEW w \in Writers, save_snapshot(w) PROVE TypeInv'
  <2> w \in Callers /\ job[w] \in Job /\ Idle \in Job
    BY DEF Callers, Idle, Job
  <2>1. CASE SaveStart(w)
    <3> DEFINE j == [Idle EXCEPT !.date = today, !.save = saves']
    <3>0. saves' \in Saves
      BY <2>1 DEF SaveStart, Saves
    <3>1. j \in Job /\ j.date \in Dates /\ j.save \in Saves
      BY <3>0 DEF Idle, Job
    <3>2. pc' \in [Callers -> Sites] /\ job' \in [Callers -> Job] /\ JobReady'
      BY <2>1, <3>1, CallerMoves DEF SaveStart, Sites, Writing
    <3> QED
      BY <2>1, <3>0, <3>1, <3>2 DEF SaveStart
  <2>2. CASE SaveOpen(w)
    <3> DEFINE inode == IF tmp[job[w].date] # NULL THEN tmp[job[w].date] ELSE job[w].save
               j == [job[w] EXCEPT !.inode = inode]
    <3>1. job[w].date \in Dates /\ job[w].save \in Saves /\ inode \in Saves
      BY <2>2 DEF SaveOpen, JobReady
    <3>2. j \in Job /\ j.date \in Dates /\ j.save \in Saves /\ j.inode \in Saves
      BY <3>1 DEF Job
    <3>3. job' = [job EXCEPT ![w] = j] /\ pc' = [pc EXCEPT ![w] = "write1"]
      BY <2>2 DEF SaveOpen
    <3>4. pc' \in [Callers -> Sites] /\ job' \in [Callers -> Job] /\ JobReady'
      BY <3>2, <3>3, CallerMoves DEF Sites, Writing
    <3>5. data' \in [Saves -> [Chunks -> Saves \cup {NULL}]]
      BY <2>2, <3>1 DEF SaveOpen, Truncated
    <3>6. tmp' \in [Dates -> Saves \cup {NULL}]
      BY <2>2, <3>1 DEF SaveOpen
    <3> QED
      BY <2>2, <3>4, <3>5, <3>6 DEF SaveOpen
  <2>3. ASSUME NEW k \in Chunks, SaveWrite(w, k) PROVE TypeInv'
    <3> DEFINE site == IF k = 1 THEN "write2" ELSE "rename"
    <3>1. /\ job[w].date \in Dates /\ job[w].save \in Saves /\ job[w].inode \in Saves
          /\ site \in Sites
      BY <2>3 DEF SaveWrite, JobReady, Writing, Sites
    <3>2. job' = [job EXCEPT ![w] = job[w]] /\ pc' = [pc EXCEPT ![w] = site]
      BY <2>3 DEF SaveWrite
    <3>3. pc' \in [Callers -> Sites] /\ job' \in [Callers -> Job] /\ JobReady'
      BY <3>1, <3>2, CallerMoves
    <3>4. data' \in [Saves -> [Chunks -> Saves \cup {NULL}]]
      BY <2>3, <3>1 DEF SaveWrite
    <3> QED
      BY <2>3, <3>3, <3>4 DEF SaveWrite
  <2>4. CASE SaveRename(w)
    <3>1. job[w].date \in Dates
      BY <2>4 DEF SaveRename, JobReady, Writing
    <3>2. job' = [job EXCEPT ![w] = job[w]]
      BY <2>4 DEF SaveRename
    <3>3. pc' \in [Callers -> Sites] /\ job' \in [Callers -> Job] /\ JobReady'
      BY <2>4, <3>2, CallerMoves DEF SaveRename, Sites, Writing
    <3>4. files' \in [Dates -> Saves \cup {NULL}] /\ tmp' \in [Dates -> Saves \cup {NULL}]
      BY <2>4, <3>1 DEF SaveRename
    <3> QED
      BY <2>4, <3>3, <3>4 DEF SaveRename
  <2>5. CASE SaveFail(w) \/ PruneDone(w)
    <3>1. pc' \in [Callers -> Sites] /\ job' \in [Callers -> Job] /\ JobReady'
      BY <2>5, CallerMoves DEF SaveFail, PruneDone, Finish, Sites, Writing
    <3> QED
      BY <2>5, <3>1 DEF SaveFail, PruneDone
  <2>6. CASE PruneList(w)
    <3>1. PICK D \in SUBSET Dates : job' = [job EXCEPT ![w] = [job[w] EXCEPT !.doomed = D]]
      <4>1. PICK utc \in {today - 1, today, today + 1} :
              job' = [job EXCEPT ![w].doomed =
                   IF Retention = 0 THEN {}
                   ELSE {d \in Existing : (\E e \in Existing : d < e) /\ d + Retention < utc}]
        BY <2>6 DEF PruneList
      <4> DEFINE D == IF Retention = 0 THEN {}
                      ELSE {d \in Existing : (\E e \in Existing : d < e) /\ d + Retention < utc}
      <4>2. D \in SUBSET Dates
        BY DEF Existing
      <4> HIDE DEF D
      <4>3. job' = [job EXCEPT ![w] = [job[w] EXCEPT !.doomed = D]]
        BY <4>1 DEF D
      <4> QED
        BY <4>2, <4>3
    <3>2. [job[w] EXCEPT !.doomed = D] \in Job
      BY DEF Job
    <3>3. pc' \in [Callers -> Sites] /\ job' \in [Callers -> Job] /\ JobReady'
      BY <2>6, <3>1, <3>2, CallerMoves DEF PruneList, Sites, Writing
    <3> QED
      BY <2>6, <3>3 DEF PruneList
  <2>7. CASE PruneUnlink(w)
    <3> DEFINE D == job[w].doomed \ {Min(job[w].doomed)}
    <3>1. [job[w] EXCEPT !.doomed = D] \in Job
      BY DEF Job
    <3>2. job' = [job EXCEPT ![w] = [job[w] EXCEPT !.doomed = D]]
      BY <2>7 DEF PruneUnlink
    <3>3. pc' = [pc EXCEPT ![w] = "unlink"]
      BY <2>7 DEF PruneUnlink
    <3>4. pc' \in [Callers -> Sites] /\ job' \in [Callers -> Job] /\ JobReady'
      BY <3>1, <3>2, <3>3, CallerMoves DEF Sites, Writing
    <3>5. files' \in [Dates -> Saves \cup {NULL}]
      BY <2>7 DEF PruneUnlink
    <3> QED
      BY <2>7, <3>4, <3>5 DEF PruneUnlink
  <2> QED
    BY <1>1, <2>1, <2>2, <2>3, <2>4, <2>5, <2>6, <2>7 DEF save_snapshot, Chunks
<1>2. ASSUME NEW q \in Deletes, delete_snapshot(q) PROVE TypeInv'
  <2> q \in Callers /\ q \notin Writers /\ job[q] \in Job /\ Idle \in Job
    BY DEF Callers, Idle, Job
  <2>1. CASE DeleteUnlink(q)
    <3>1. pc' \in [Callers -> Sites] /\ job' \in [Callers -> Job] /\ JobReady'
      BY <2>1, CallerMoves DEF DeleteUnlink, Finish, Sites
    <3>2. files' \in [Dates -> Saves \cup {NULL}]
      BY <2>1 DEF DeleteUnlink
    <3> QED
      BY <2>1, <3>1, <3>2 DEF DeleteUnlink
  <2>2. ASSUME NEW d \in Dates, DeleteCheck(q, d) PROVE TypeInv'
    <3>1. [job[q] EXCEPT !.date = d] \in Job
      BY DEF Job
    <3>2. job' = [job EXCEPT ![q] = [job[q] EXCEPT !.date = d]]
      BY <2>2 DEF DeleteCheck
    <3>3. pc' \in [Callers -> Sites] /\ job' \in [Callers -> Job] /\ JobReady'
      BY <2>2, <3>1, <3>2, CallerMoves DEF DeleteCheck, Sites
    <3> QED
      BY <2>2, <3>3 DEF DeleteCheck
  <2> QED
    BY <1>2, <2>1, <2>2 DEF delete_snapshot
<1>3. CASE Restart
  BY <1>3 DEF Restart, JobReady, Writing, Idle, Job, Sites, Callers
<1>4. CASE DayPasses
  BY <1>4 DEF DayPasses, JobReady, Dates
<1>5. CASE UNCHANGED vars
  BY <1>5 DEF vars, JobReady
<1> QED
  BY <1>1, <1>2, <1>3, <1>4, <1>5 DEF Next

(***************************************************************************)
(* Every variable of the snapshot directory's model keeps its type.        *)
(***************************************************************************)
THEOREM TypeCorrect == Spec => []TypeOK
  BY InitType, NextType, PTL DEF Spec, TypeInv

-----------------------------------------------------------------------------
(***************************************************************************)
(* Why a single save never publishes a torn file.  A published inode is    *)
(* complete and nobody's temporary file any more; the inode the writer     *)
(* writes to is a temporary file, and holds what has been written so far;  *)
(* the inode of a save that has not opened its file is used nowhere.       *)
(***************************************************************************)
Used(i) == \E d \in Dates : files[d] = i \/ tmp[d] = i

PublishedWhole == \A d \in Dates : files[d] # NULL => Whole(files[d])

TmpApart ==
    /\ \A d, e \in Dates : tmp[e] # NULL => files[d] # tmp[e]
    /\ \A d, e \in Dates : tmp[d] # NULL /\ tmp[d] = tmp[e] => d = e

NumberedInOrder == \A i \in Saves : Used(i) => i <= saves

WriterOwnsTmp ==
    \A w \in Writers :
        /\ pc[w] = "open" => ~Used(job[w].save) /\ job[w].save <= saves
        /\ pc[w] \in Writing => tmp[job[w].date] = job[w].inode
        /\ pc[w] \in {"write2", "rename"} => data[job[w].inode][1] = job[w].save
        /\ pc[w] = "rename" => data[job[w].inode][2] = job[w].save

IInv == TypeInv /\ PublishedWhole /\ TmpApart /\ NumberedInOrder /\ WriterOwnsTmp

(* No two saves at once: what one writer, or no writer in a thread, gives. *)
OneSaveAtATime == ThreadWriters = {} \/ \A v, w \in Writers : v = w

SavesApart == \A v, w \in Writers : pc[v] # "idle" /\ pc[w] # "idle" => v = w

LEMMA InitApart == Init => SavesApart
  BY DEF Init, SavesApart, Callers

LEMMA NextApart ==
  ASSUME OneSaveAtATime, TypeInv, SavesApart, [Next]_vars
  PROVE  SavesApart'
<1> USE DEF Goto
<1>1. CASE \A v, w \in Writers : v = w
  BY <1>1 DEF SavesApart
<1>2. ASSUME ThreadWriters = {}, NEW w \in Writers, SaveStart(w) PROVE SavesApart'
  <2>1. LoopFree /\ w \in LoopWriters
    BY <1>2 DEF SaveStart, Writers
  <2>2. \A v \in Writers : pc[v] = "idle"
    BY <1>2, <2>1 DEF LoopFree, Writers
  <2> QED
    BY <1>2, <2>2 DEF SaveStart, SavesApart, TypeInv, TypeOK, Callers
<1>3. ASSUME NEW w \in Writers, save_snapshot(w), ~SaveStart(w) PROVE SavesApart'
  <2>1. pc[w] # "idle" /\ \E site : pc' = [pc EXCEPT ![w] = site]
    BY <1>3 DEF save_snapshot, SaveOpen, SaveWrite, SaveRename, SaveFail, Finish,
                PruneList, PruneUnlink, PruneDone, TypeInv, TypeOK, Callers
  <2> QED
    BY <2>1 DEF SavesApart, TypeInv, TypeOK, Callers
<1>4. ASSUME NEW q \in Deletes, delete_snapshot(q) PROVE SavesApart'
  BY <1>4 DEF delete_snapshot, DeleteUnlink, DeleteCheck, Finish, SavesApart, TypeInv, TypeOK, Callers
<1>5. CASE Restart \/ DayPasses \/ UNCHANGED vars
  BY <1>5 DEF Restart, DayPasses, vars, SavesApart, Callers
<1> QED
  BY <1>1, <1>2, <1>3, <1>4, <1>5 DEF Next, OneSaveAtATime

LEMMA InitWhole == Init => IInv
<1> SUFFICES ASSUME Init PROVE IInv
  OBVIOUS
<1>1. TypeInv
  BY InitType
<1>2. \A d \in Dates : files[d] \in {NULL, 0} /\ tmp[d] = NULL
  BY DEF Init
<1>3. Whole(0) /\ 0 \in Saves
  BY DEF Init, Whole, Saves, Chunks
<1>4. PublishedWhole
  BY <1>2, <1>3 DEF PublishedWhole
<1>5. TmpApart
  BY <1>2 DEF TmpApart
<1>6. NumberedInOrder
  BY <1>2 DEF NumberedInOrder, Used, Init, Saves
<1>7. WriterOwnsTmp
  BY DEF WriterOwnsTmp, Init, Callers, Writing
<1> QED
  BY <1>1, <1>4, <1>5, <1>6, <1>7 DEF IInv

(* Two states with the same directory and saves, where no writer enters a  *)
(* save: nothing the invariant says is disturbed.                          *)
LEMMA QuietStep ==
  ASSUME IInv, TypeInv', UNCHANGED <<tmp, data, saves>>,
         \A d \in Dates : files'[d] \in {files[d], NULL},
         \A w \in Writers : pc'[w] \in Writing \cup {"open"} =>
             pc'[w] = pc[w] /\ job'[w] = job[w]
  PROVE  IInv'
<1>1. PublishedWhole'
  BY DEF IInv, PublishedWhole, Whole
<1>2. TmpApart'
  BY DEF IInv, TmpApart
<1>3. \A i \in Saves : Used(i)' => Used(i)
  BY DEF Used, Saves
<1>4. NumberedInOrder'
  BY <1>3 DEF IInv, NumberedInOrder
<1>5. WriterOwnsTmp'
  <2> SUFFICES ASSUME NEW w \in Writers, pc'[w] \in Writing \cup {"open"}
               PROVE  /\ pc'[w] = "open" => ~Used(job[w].save)' /\ job[w].save <= saves
                      /\ pc'[w] \in Writing => tmp[job[w].date] = job[w].inode
                      /\ pc'[w] \in {"write2", "rename"} => data[job[w].inode][1] = job[w].save
                      /\ pc'[w] = "rename" => data[job[w].inode][2] = job[w].save
    BY DEF WriterOwnsTmp, Writing
  <2>1. pc'[w] = pc[w] /\ job[w].save \in Saves
    BY DEF IInv, TypeInv, JobReady
  <2> QED
    BY <2>1, <1>3 DEF IInv, WriterOwnsTmp
<1> QED
  BY <1>1, <1>2, <1>4, <1>5 DEF IInv

LEMMA NextWhole ==
  ASSUME IInv, SavesApart', [Next]_vars
  PROVE  IInv'
<1>0. TypeInv'
  BY NextType DEF IInv
<1> USE <1>0 DEF directory, Goto
<1>1. ASSUME NEW w \in Writers, save_snapshot(w) PROVE IInv'
  <2> w \in Callers /\ pc \in [Callers -> Sites] /\ job \in [Callers -> Job]
    BY DEF Callers, IInv, TypeInv, TypeOK
  <2> \A v \in Writers : v # w /\ pc'[w] # "idle" => pc'[v] = "idle"
    BY DEF SavesApart
  <2>1. CASE SaveStart(w)
    <3>1. /\ pc'[w] = "open" /\ job'[w].save = saves'
          /\ saves' = saves + 1 /\ saves' \in Saves /\ saves \in Nat
      BY <2>1 DEF SaveStart, Idle, Saves, IInv, TypeInv, TypeOK
    <3>2. \A i \in Saves : Used(i)' => Used(i)
      BY <2>1 DEF SaveStart, Used
    <3>3. NumberedInOrder'
      BY <3>1, <3>2 DEF IInv, NumberedInOrder, Saves
    <3>4. \A i \in Saves : i = saves' => ~Used(i)'
      BY <3>1, <3>2 DEF IInv, NumberedInOrder, Saves
    <3>5. WriterOwnsTmp'
      BY <3>1, <3>4 DEF WriterOwnsTmp, Writing, Saves, Used
    <3> QED
      BY <2>1, <3>3, <3>5 DEF SaveStart, IInv, PublishedWhole, Whole, TmpApart
  <2>2. CASE SaveOpen(w)
    <3> DEFINE date == job[w].date
               inode == IF tmp[date] # NULL THEN tmp[date] ELSE job[w].save
    <3>1. /\ date \in Dates /\ job[w].save \in Saves /\ inode \in Saves
          /\ ~Used(job[w].save) /\ job[w].save <= saves
      BY <2>2 DEF SaveOpen, IInv, TypeInv, TypeOK, JobReady, WriterOwnsTmp
    <3>2. /\ pc'[w] = "write1" /\ job'[w].date = date /\ job'[w].inode = inode
          /\ tmp' = [tmp EXCEPT ![date] = inode] /\ tmp'[date] = inode
          /\ files' = files /\ saves' = saves
      BY <2>2, <3>1 DEF SaveOpen, IInv, TypeInv, TypeOK, Job
    <3>3. \A d \in Dates : files[d] # inode /\ (d # date => tmp[d] # inode)
      BY <3>1 DEF IInv, TmpApart, Used
    <3>4. \A i \in Saves : i # inode => data'[i] = data[i]
      BY <2>2 DEF SaveOpen, Truncated, IInv, TypeInv, TypeOK
    <3>5. PublishedWhole'
      BY <3>2, <3>3, <3>4 DEF IInv, TypeInv, TypeOK, PublishedWhole, Whole
    <3>6. TmpApart'
      <4>1. \A d \in Dates : tmp'[d] = IF d = date THEN inode ELSE tmp[d]
        BY <3>2 DEF IInv, TypeInv, TypeOK
      <4> QED
        BY <3>2, <3>3, <4>1 DEF IInv, TmpApart
    <3>7. NumberedInOrder'
      <4>1. inode <= saves
        BY <3>1 DEF IInv, NumberedInOrder, Used
      <4>2. \A i \in Saves : Used(i)' => Used(i) \/ i = inode
        BY <3>2 DEF Used, IInv, TypeInv, TypeOK
      <4> QED
        BY <3>2, <4>1, <4>2 DEF IInv, NumberedInOrder
    <3>8. WriterOwnsTmp'
      BY <3>2 DEF WriterOwnsTmp, Writing
    <3> QED
      BY <3>5, <3>6, <3>7, <3>8 DEF IInv
  <2>3. ASSUME NEW k \in Chunks, SaveWrite(w, k) PROVE IInv'
    <3> DEFINE inode == job[w].inode
    <3>1. /\ job[w].date \in Dates /\ job[w].save \in Saves /\ inode \in Saves
          /\ tmp[job[w].date] = inode
          /\ k = 2 => data[inode][1] = job[w].save
      BY <2>3 DEF SaveWrite, IInv, TypeInv, JobReady, WriterOwnsTmp, Writing, Chunks
    <3>2. /\ pc'[w] = IF k = 1 THEN "write2" ELSE "rename"
          /\ job' = job /\ tmp' = tmp /\ files' = files /\ saves' = saves
      BY <2>3 DEF SaveWrite
    <3>3. \A i \in Saves : i # inode => data'[i] = data[i]
      BY <2>3 DEF SaveWrite, IInv, TypeInv, TypeOK
    <3>4. /\ data'[inode][k] = job[w].save
          /\ k = 2 => data'[inode][1] = job[w].save
      BY <2>3, <3>1 DEF SaveWrite, IInv, TypeInv, TypeOK, Chunks
    <3>5. \A d \in Dates : files[d] # inode
      BY <3>1 DEF IInv, TmpApart, Saves
    <3>6. PublishedWhole'
      BY <3>2, <3>3, <3>5 DEF IInv, TypeInv, TypeOK, PublishedWhole, Whole
    <3>7. TmpApart' /\ NumberedInOrder'
      BY <3>2 DEF IInv, TmpApart, NumberedInOrder, Used
    <3>8. WriterOwnsTmp'
      BY <3>1, <3>2, <3>4 DEF WriterOwnsTmp, Writing, Chunks
    <3> QED
      BY <3>6, <3>7, <3>8 DEF IInv
  <2>4. CASE SaveRename(w)
    <3> DEFINE date == job[w].date
               inode == job[w].inode
    <3>1. /\ date \in Dates /\ job[w].save \in Saves /\ inode \in Saves
          /\ tmp[date] = inode /\ inode # NULL
          /\ data[inode][1] = job[w].save /\ data[inode][2] = job[w].save
      BY <2>4 DEF SaveRename, IInv, TypeInv, JobReady, WriterOwnsTmp, Writing
    <3>2. Whole(inode)
      BY <3>1 DEF Whole, Saves
    <3>3. /\ \A d \in Dates : files'[d] = IF d = date THEN inode ELSE files[d]
          /\ \A d \in Dates : tmp'[d] = IF d = date THEN NULL ELSE tmp[d]
          /\ data' = data /\ saves' = saves /\ pc'[w] = "prune"
      BY <2>4, <3>1 DEF SaveRename, IInv, TypeInv, TypeOK
    <3>4. PublishedWhole'
      BY <3>2, <3>3 DEF IInv, PublishedWhole, Whole
    <3>5. TmpApart'
      BY <3>1, <3>3 DEF IInv, TmpApart
    <3>6. NumberedInOrder'
      <4>1. \A i \in Saves : Used(i)' => Used(i)
        BY <3>1, <3>3 DEF Used, Saves
      <4> QED
        BY <3>3, <4>1 DEF IInv, NumberedInOrder
    <3>7. WriterOwnsTmp'
      BY <3>3 DEF WriterOwnsTmp, Writing
    <3> QED
      BY <3>4, <3>5, <3>6, <3>7 DEF IInv
  <2>5. CASE SaveFail(w) \/ PruneDone(w)
    <3>1. /\ pc'[w] = "idle"
          /\ \A v \in Writers : v # w => pc'[v] = pc[v] /\ job'[v] = job[v]
      BY <2>5 DEF SaveFail, PruneDone, Finish, Callers
    <3> QED
      BY <2>5, <3>1, QuietStep DEF SaveFail, PruneDone, Writing
  <2>6. CASE PruneList(w)
    <3>1. pc'[w] = "unlink"
      BY <2>6 DEF PruneList
    <3> QED
      BY <2>6, <3>1, QuietStep DEF PruneList, Writing
  <2>7. CASE PruneUnlink(w)
    <3>1. pc'[w] = "unlink"
      BY <2>7 DEF PruneUnlink
    <3>2. \A d \in Dates : files'[d] \in {files[d], NULL}
      BY <2>7 DEF PruneUnlink, IInv, TypeInv, TypeOK
    <3> QED
      BY <2>7, <3>1, <3>2, QuietStep DEF PruneUnlink, Writing
  <2> QED
    BY <1>1, <2>1, <2>2, <2>3, <2>4, <2>5, <2>6, <2>7 DEF save_snapshot, Chunks
<1>2. ASSUME NEW q \in Deletes, delete_snapshot(q) PROVE IInv'
  <2>1. \A w \in Writers : pc'[w] = pc[w] /\ job'[w] = job[w]
    BY <1>2 DEF delete_snapshot, DeleteUnlink, DeleteCheck, Finish, Callers,
                IInv, TypeInv, TypeOK
  <2>2. \A d \in Dates : files'[d] \in {files[d], NULL}
    BY <1>2 DEF delete_snapshot, DeleteUnlink, DeleteCheck, IInv, TypeInv, TypeOK
  <2>3. UNCHANGED <<tmp, data, saves>>
    BY <1>2 DEF delete_snapshot, DeleteUnlink, DeleteCheck
  <2> QED
    BY <2>1, <2>2, <2>3, QuietStep
<1>3. CASE Restart
  <2>1. \A w \in Writers : pc'[w] = "idle"
    BY <1>3 DEF Restart, Callers
  <2> QED
    BY <1>3, <2>1, QuietStep DEF Restart, Writing
<1>4. CASE DayPasses
  BY <1>4, QuietStep DEF DayPasses
<1>5. CASE UNCHANGED vars
  BY <1>5, QuietStep DEF vars
<1> QED
  BY <1>1, <1>2, <1>3, <1>4, <1>5 DEF Next

(***************************************************************************)
(* With one writer (what the operation lock makes of all that honour it),  *)
(* or with any number that save on the event loop, every published         *)
(* snapshot is complete at every moment, over failed saves, kills, pruning *)
(* and deletions.                                                          *)
(***************************************************************************)
THEOREM SnapshotsAreWhole ==
  ASSUME OneSaveAtATime
  PROVE  Spec => []FilesWhole
<1>1. IInv => FilesWhole
  BY DEF IInv, PublishedWhole, FilesWhole, load_snapshots, Existing
<1>2. IInv /\ SavesApart /\ [Next]_vars => IInv' /\ SavesApart'
  BY NextWhole, NextApart DEF IInv
<1> QED
  BY <1>1, <1>2, InitWhole, InitApart, PTL DEF Spec

-----------------------------------------------------------------------------
(***************************************************************************)
(* Why a start restores the newest save.  No file is dated after today, a  *)
(* later date has a newer content, and the save under way is dated no      *)
(* earlier, and is newer, than everything published: nobody else publishes *)
(* between the moment it reads the date and its rename.                    *)
(***************************************************************************)
Saving(w) == pc[w] \in Writing \cup {"open"}

PublishedInOrder ==
    /\ \A d \in Existing : d <= today /\ Content(d) \in Saves /\ Content(d) <= saves
    /\ \A d, e \in Existing : d <= e => Content(d) <= Content(e)

SavingNewest ==
    \A w \in Writers : Saving(w) =>
        /\ job[w].date <= today
        /\ job[w].save <= saves
        /\ \A d \in Existing : d <= job[w].date /\ Content(d) < job[w].save

NewestInv == IInv /\ PublishedInOrder /\ SavingNewest

LEMMA InitNewest == Init => NewestInv
<1> SUFFICES ASSUME Init PROVE NewestInv
  OBVIOUS
<1>1. \A d \in Existing : d = 1 /\ Content(d) = 0
  BY DEF Init, Existing, Content, Saves, Chunks
<1>2. PublishedInOrder
  BY <1>1 DEF PublishedInOrder, Init, Saves
<1>3. SavingNewest
  BY DEF SavingNewest, Saving, Init, Callers, Writing
<1> QED
  BY <1>2, <1>3, InitWhole DEF NewestInv

(* What is published stays as it is or goes, and no save begins.           *)
LEMMA NothingPublished ==
  ASSUME NewestInv, IInv', today <= today', saves <= saves',
         \A d \in Dates : files'[d] \in {files[d], NULL},
         \A d \in Existing : data'[files[d]] = data[files[d]],
         \A w \in Writers : Saving(w)' =>
             Saving(w) /\ job'[w].date = job[w].date /\ job'[w].save = job[w].save
  PROVE  NewestInv'
<1>1. \A d \in Existing' : d \in Existing /\ Content(d)' = Content(d)
  BY DEF Existing, Content
<1>2. today \in Nat /\ today' \in Nat /\ saves \in Nat /\ saves' \in Nat
  BY DEF NewestInv, IInv, TypeInv, TypeOK, Dates, Saves
<1>3. \A d \in Existing : d \in Nat /\ Content(d) \in Nat
  BY DEF NewestInv, PublishedInOrder, Existing, Dates, Saves
<1>4. PublishedInOrder'
  BY <1>1, <1>2, <1>3 DEF NewestInv, PublishedInOrder
<1>5. SavingNewest'
  <2> SUFFICES ASSUME NEW w \in Writers, Saving(w)'
               PROVE  /\ job'[w].date <= today'
                      /\ job'[w].save <= saves'
                      /\ \A d \in Existing' : d <= job'[w].date /\ Content(d)' < job'[w].save
    BY DEF SavingNewest
  <2>1. job[w].date \in Nat /\ job[w].save \in Nat
    BY DEF NewestInv, IInv, TypeInv, JobReady, Saving, Dates, Saves
  <2>2. Saving(w) /\ job'[w].date = job[w].date /\ job'[w].save = job[w].save
    OBVIOUS
  <2> QED
    BY <1>1, <1>2, <2>1, <2>2 DEF NewestInv, SavingNewest
<1> QED
  BY <1>4, <1>5 DEF NewestInv

LEMMA NextNewest ==
  ASSUME NewestInv, SavesApart', [Next]_vars
  PROVE  NewestInv'
<1>0. IInv /\ IInv' /\ TypeOK /\ TypeOK'
  BY NextWhole DEF NewestInv, IInv, TypeInv
<1> USE <1>0 DEF directory, Goto
<1>a. today \in Nat /\ saves \in Nat
  BY DEF TypeOK, Dates, Saves
<1>1. ASSUME NEW w \in Writers, save_snapshot(w) PROVE NewestInv'
  <2> w \in Callers /\ pc \in [Callers -> Sites] /\ job \in [Callers -> Job]
    BY DEF Callers, TypeOK
  <2> \A v \in Writers : v # w /\ pc'[w] # "idle" => pc'[v] = "idle"
    BY DEF SavesApart
  <2>1. CASE SaveStart(w)
    <3>1. /\ pc'[w] = "open" /\ job'[w].save = saves' /\ job'[w].date = today
          /\ saves' = saves + 1 /\ today' = today /\ files' = files /\ data' = data
      BY <2>1 DEF SaveStart, Idle
    <3>2. Existing' = Existing /\ \A d \in Existing : Content(d)' = Content(d)
      BY <3>1 DEF Existing, Content
    <3>3. PublishedInOrder'
      BY <1>a, <3>1, <3>2 DEF NewestInv, PublishedInOrder, Existing, Saves
    <3>4. SavingNewest'
      <4>1. \A d \in Existing' : d <= today /\ Content(d)' < saves'
        BY <1>a, <3>1, <3>2 DEF NewestInv, PublishedInOrder, Saves
      <4>2. \A v \in Writers : Saving(v)' => v = w
        BY <3>1 DEF Saving, Writing
      <4> QED
        BY <1>a, <3>1, <4>1, <4>2 DEF SavingNewest
    <3> QED
      BY <3>3, <3>4 DEF NewestInv
  <2>2. CASE SaveOpen(w)
    <3> DEFINE inode == IF tmp[job[w].date] # NULL THEN tmp[job[w].date] ELSE job[w].save
    <3>1. job[w].date \in Dates /\ job[w].save \in Saves /\ ~Used(job[w].save)
      BY <2>2 DEF SaveOpen, IInv, TypeInv, JobReady, WriterOwnsTmp
    <3>2. \A d \in Dates : files[d] # inode
      BY <3>1 DEF IInv, TmpApart, Used
    <3>3. \A d \in Existing : data'[files[d]] = data[files[d]]
      BY <2>2, <3>2 DEF SaveOpen, Truncated, TypeOK, Existing
    <3>4. /\ Saving(w)
          /\ job'[w].date = job[w].date /\ job'[w].save = job[w].save
          /\ \A v \in Writers : Saving(v)' => v = w
      BY <2>2 DEF SaveOpen, Saving, Writing, Job
    <3> QED
      BY <1>a, <2>2, <3>3, <3>4, NothingPublished DEF SaveOpen
  <2>3. ASSUME NEW k \in Chunks, SaveWrite(w, k) PROVE NewestInv'
    <3>1. /\ job[w].date \in Dates /\ job[w].inode \in Saves
          /\ tmp[job[w].date] = job[w].inode
      BY <2>3 DEF SaveWrite, IInv, TypeInv, JobReady, WriterOwnsTmp, Writing
    <3>2. \A d \in Dates : files[d] # job[w].inode
      BY <3>1 DEF IInv, TmpApart, Saves
    <3>3. \A d \in Existing : data'[files[d]] = data[files[d]]
      BY <2>3, <3>2 DEF SaveWrite, TypeOK, Existing
    <3>4. Saving(w) /\ \A v \in Writers : Saving(v)' => v = w
      BY <2>3 DEF SaveWrite, Saving, Writing
    <3> QED
      BY <1>a, <2>3, <3>3, <3>4, NothingPublished DEF SaveWrite
  <2>4. CASE SaveRename(w)
    <3>0. PICK date \in Dates : date = job[w].date
      BY <2>4 DEF SaveRename, IInv, TypeInv, JobReady, Writing
    <3> DEFINE inode == job[w].inode
    <3>1. /\ job[w].save \in Saves /\ inode \in Saves
          /\ tmp[date] = inode /\ data[inode][1] = job[w].save
      BY <2>4, <3>0 DEF SaveRename, IInv, TypeInv, JobReady, WriterOwnsTmp, Writing
    <3>2. /\ \A d \in Dates : files'[d] = IF d = date THEN inode ELSE files[d]
          /\ data' = data /\ saves' = saves /\ today' = today /\ pc'[w] = "prune"
      BY <2>4, <3>0, <3>1 DEF SaveRename, TypeOK
    <3>3. Content(date)' = job[w].save
      BY <3>1, <3>2 DEF Content
    <3>4. \A d \in Existing' : d # date => d \in Existing /\ Content(d)' = Content(d)
      BY <3>2 DEF Existing, Content
    <3>5. /\ date <= today /\ job[w].save <= saves
          /\ \A d \in Existing : d <= date /\ Content(d) < job[w].save
      BY <2>4, <3>0 DEF SaveRename, NewestInv, SavingNewest, Saving, Writing
    <3>6. \A d \in Existing' : d <= date /\ Content(d)' \in Nat /\ Content(d)' <= job[w].save
      BY <3>1, <3>3, <3>4, <3>5 DEF NewestInv, PublishedInOrder, Dates, Saves
    <3>7. \A d, e \in Existing' : d <= e => Content(d)' <= Content(e)'
      <4> SUFFICES ASSUME NEW d \in Existing', NEW e \in Existing', d <= e
                   PROVE  Content(d)' <= Content(e)'
        OBVIOUS
      <4>1. CASE e = date
        BY <3>3, <3>6, <4>1
      <4>2. CASE e # date
        <5>1. d # date
          BY <3>1, <3>6, <4>2 DEF Dates, Existing
        <5> QED
          BY <3>4, <4>2, <5>1 DEF NewestInv, PublishedInOrder
      <4> QED
        BY <4>1, <4>2
    <3>8. PublishedInOrder'
      <4>1. \A d \in Existing' : d <= today' /\ Content(d)' \in Saves /\ Content(d)' <= saves'
        BY <1>a, <3>1, <3>2, <3>3, <3>4, <3>5 DEF NewestInv, PublishedInOrder
      <4> QED
        BY <3>7, <4>1 DEF PublishedInOrder
    <3>9. SavingNewest'
      BY <3>2 DEF SavingNewest, Saving, Writing
    <3> QED
      BY <3>8, <3>9 DEF NewestInv
  <2>5. CASE SaveFail(w) \/ PruneList(w) \/ PruneDone(w)
    <3>1. pc'[w] \in {"idle", "unlink"}
      BY <2>5 DEF SaveFail, PruneList, PruneDone, Finish
    <3>2. \A v \in Writers : Saving(v)' => Saving(v) /\ job'[v] = job[v]
      BY <2>5, <3>1 DEF SaveFail, PruneList, PruneDone, Finish, Saving, Writing, Callers
    <3> QED
      BY <1>a, <2>5, <3>2, NothingPublished DEF SaveFail, PruneList, PruneDone
  <2>6. CASE PruneUnlink(w)
    <3>1. \A v \in Writers : ~Saving(v)'
      BY <2>6 DEF PruneUnlink, Saving, Writing
    <3>2. \A d \in Dates : files'[d] \in {files[d], NULL}
      BY <2>6 DEF PruneUnlink, TypeOK
    <3> QED
      BY <1>a, <2>6, <3>1, <3>2, NothingPublished DEF PruneUnlink
  <2> QED
    BY <1>1, <2>1, <2>2, <2>3, <2>4, <2>5, <2>6 DEF save_snapshot, Chunks
<1>2. ASSUME NEW q \in Deletes, delete_snapshot(q) PROVE NewestInv'
  <2>1. \A w \in Writers : pc'[w] = pc[w] /\ job'[w] = job[w]
    BY <1>2 DEF delete_snapshot, DeleteUnlink, DeleteCheck, Finish, Callers, TypeOK
  <2>2. \A d \in Dates : files'[d] \in {files[d], NULL}
    BY <1>2 DEF delete_snapshot, DeleteUnlink, DeleteCheck, TypeOK
  <2>3. UNCHANGED <<data, saves, today>>
    BY <1>2 DEF delete_snapshot, DeleteUnlink, DeleteCheck
  <2> QED
    BY <1>a, <2>1, <2>2, <2>3, NothingPublished DEF Saving, Existing
<1>3. CASE Restart
  <2>1. \A w \in Writers : ~Saving(w)'
    BY <1>3 DEF Restart, Callers, Saving, Writing
  <2> QED
    BY <1>a, <1>3, <2>1, NothingPublished DEF Restart
<1>4. CASE DayPasses
  BY <1>a, <1>4, NothingPublished DEF DayPasses, Saving
<1>5. CASE UNCHANGED vars
  BY <1>a, <1>5, NothingPublished DEF vars, Saving
<1> QED
  BY <1>1, <1>2, <1>3, <1>4, <1>5 DEF Next

(* A set of dates has a last one.                                          *)
LEMMA LastDate ==
  ASSUME NEW S \in SUBSET Dates, S # {}
  PROVE  Max(S) \in S /\ \A d \in S : d <= Max(S)
<1> DEFINE Before(d) == MaxDay - d
           T == {Before(d) : d \in S}
           Less == OpToRel(<, Nat)
<1>1. T \subseteq Nat /\ T # {}
  BY DEF Dates
<1>2. \E x \in T : \A y \in T : ~(<<y, x>> \in Less)
  <2>1. IsWellFoundedOn(Less, Nat)
    BY NatLessThanWellFounded
  <2> HIDE DEF Less, T
  <2> QED
    BY <1>1, <2>1, WFMin
<1>3. \A x, y \in T : y < x => <<y, x>> \in Less
  BY <1>1 DEF OpToRel
<1> HIDE DEF Less
<1>4. PICK d \in S : \A e \in S : ~(Before(e) < Before(d))
  BY <1>2, <1>3
<1>5. \A e \in S : d >= e
  BY <1>4 DEF Dates
<1> QED
  BY <1>5 DEF Max

(* And a first one.                                                        *)
LEMMA FirstDate ==
  ASSUME NEW S \in SUBSET Dates, S # {}
  PROVE  Min(S) \in S
<1> DEFINE Less == OpToRel(<, Nat)
<1>1. S \subseteq Nat
  BY DEF Dates
<1>2. \E x \in S : \A y \in S : ~(<<y, x>> \in Less)
  <2>1. IsWellFoundedOn(Less, Nat)
    BY NatLessThanWellFounded
  <2> HIDE DEF Less
  <2> QED
    BY <1>1, <2>1, WFMin
<1>3. \A x, y \in S : y < x => <<y, x>> \in Less
  BY <1>1 DEF OpToRel
<1> HIDE DEF Less
<1>4. PICK d \in S : \A e \in S : ~(e < d)
  BY <1>2, <1>3
<1>5. \A e \in S : d <= e
  BY <1>1, <1>4
<1> QED
  BY <1>5 DEF Min

(***************************************************************************)
(* With one writer, or any number on the event loop, a start restores the  *)
(* newest save there is, for any retention, any number of days, deletions  *)
(* and kills, although it goes by the date in the file's name.             *)
(***************************************************************************)
THEOREM StartRestoresNewest ==
  ASSUME OneSaveAtATime
  PROVE  Spec => []RestoresNewest
<1>1. NewestInv => RestoresNewest
  <2> SUFFICES ASSUME NewestInv, NEW d \in load_snapshots
               PROVE  Content(d) <= load_latest_snapshot
    BY DEF RestoresNewest
  <2>1. load_snapshots \in SUBSET Dates /\ load_snapshots \subseteq Existing
    BY DEF load_snapshots, Existing
  <2>2. Max(load_snapshots) \in load_snapshots /\ d <= Max(load_snapshots)
    BY <2>1, LastDate
  <2> QED
    BY <2>1, <2>2 DEF NewestInv, PublishedInOrder, load_latest_snapshot
<1>2. NewestInv /\ SavesApart /\ [Next]_vars => NewestInv' /\ SavesApart'
  BY NextNewest, NextApart DEF NewestInv, IInv
<1> QED
  BY <1>1, <1>2, InitNewest, InitApart, PTL DEF Spec

-----------------------------------------------------------------------------
(***************************************************************************)
(* Why the directory is the abstract store where every save keeps the      *)
(* event loop.  One caller is at work at a time, so what it has looked at  *)
(* is still so when it acts on it: the files it found old enough to prune  *)
(* leave a later one, the file it may delete is not the only one.          *)
(***************************************************************************)
OneAtWork == \A p, q \in Callers : pc[p] # "idle" /\ pc[q] # "idle" => p = q

DoomedLeaveOne ==
    \A w \in Writers : pc[w] = "unlink" /\ job[w].doomed # {} =>
        \E e \in Existing : \A d \in job[w].doomed : d < e

DeleteLeavesOne ==
    \A q \in Deletes : pc[q] = "delete" =>
        /\ job[q].date \in Dates
        /\ \E e \in Existing : e # job[q].date

LoopInv == OneAtWork /\ DoomedLeaveOne /\ DeleteLeavesOne

LEMMA InitLoop == Init => LoopInv
  BY DEF Init, LoopInv, OneAtWork, DoomedLeaveOne, DeleteLeavesOne, Callers

(* Whoever takes a step, the others are idle.                              *)
LEMMA OthersIdle ==
  ASSUME ThreadWriters = {}, TypeInv, OneAtWork, NEW q \in Callers,
         (q \in Writers /\ save_snapshot(q)) \/ (q \in Deletes /\ delete_snapshot(q))
  PROVE  \A p \in Callers \ {q} : pc[p] = "idle" /\ pc'[p] = "idle"
<1> USE DEF Goto
<1>1. CASE q \in Writers /\ save_snapshot(q)
  <2>1. CASE PruneUnlink(q)
    BY <2>1 DEF PruneUnlink, OneAtWork, Callers
  <2>2. CASE ~PruneUnlink(q)
    <3>1. \E site : pc' = [pc EXCEPT ![q] = site]
      BY <1>1, <2>2 DEF save_snapshot, SaveStart, SaveOpen, SaveWrite, SaveRename, SaveFail,
                        Finish, PruneList, PruneDone
    <3>2. pc[q] # "idle" \/ LoopFree
      BY <1>1, <2>2 DEF save_snapshot, SaveStart, SaveOpen, SaveWrite, SaveRename, SaveFail,
                        PruneList, PruneDone, Writers
    <3> QED
      BY <3>1, <3>2 DEF OneAtWork, LoopFree, Callers, Writers, TypeInv, TypeOK
  <2> QED
    BY <2>1, <2>2
<1>2. CASE q \in Deletes /\ delete_snapshot(q)
  <2>1. \E site : pc' = [pc EXCEPT ![q] = site]
    BY <1>2 DEF delete_snapshot, DeleteCheck, DeleteUnlink, Finish
  <2>2. pc[q] # "idle" \/ LoopFree
    BY <1>2 DEF delete_snapshot, DeleteCheck, DeleteUnlink
  <2> QED
    BY <2>1, <2>2 DEF OneAtWork, LoopFree, Callers, Writers, TypeInv, TypeOK
<1> QED
  BY <1>1, <1>2

(* The files doomed to go are older than the last one there is.            *)
LEMMA ListedLeaveOne ==
  ASSUME TypeInv, NEW w \in Writers, PruneList(w)
  PROVE  pc'[w] = "unlink" /\ job'[w].doomed # {} =>
            \E e \in Existing' : \A d \in job'[w].doomed : d < e
<1>1. PICK utc \in {today - 1, today, today + 1} :
        job' = [job EXCEPT ![w].doomed =
             IF Retention = 0 THEN {}
             ELSE {d \in Existing : (\E e \in Existing : d < e) /\ d + Retention < utc}]
  BY DEF PruneList
<1>2. job'[w].doomed \subseteq {d \in Existing : \E e \in Existing : d < e}
  BY <1>1 DEF TypeInv, TypeOK, Callers, Job
<1>3. Existing' = Existing
  BY DEF PruneList, directory, Existing
<1>4. CASE Existing = {}
  BY <1>2, <1>4
<1>5. CASE Existing # {}
  <2>1. Existing \in SUBSET Dates
    BY DEF Existing
  <2>2. Max(Existing) \in Existing /\ \A d \in Existing : d <= Max(Existing)
    BY <1>5, <2>1, LastDate
  <2>3. ASSUME NEW d \in job'[w].doomed PROVE d < Max(Existing)
    <3>1. PICK e \in Existing : d < e
      BY <1>2
    <3> DEFINE last == Max(Existing)
    <3>2. d \in Existing
      BY <1>2
    <3>3. last \in Existing /\ e <= last
      BY <2>2
    <3>4. \A x \in Existing : x \in Nat
      BY <2>1 DEF Dates
    <3> HIDE DEF last
    <3>5. d < last
      BY <3>1, <3>2, <3>3, <3>4
    <3> QED
      BY <3>5 DEF last
  <2> QED
    BY <1>3, <2>2, <2>3
<1> QED
  BY <1>4, <1>5

(* DELETE asks for a second snapshot.                                      *)
LEMMA CheckedLeavesOne ==
  ASSUME NEW d \in Dates, Cardinality(load_snapshots) > 1
  PROVE  \E e \in Existing : e # d
<1>1. ASSUME load_snapshots \subseteq {d} PROVE FALSE
  <2>1. IsFiniteSet({d}) /\ Cardinality({d}) = 1
    BY FS_Singleton
  <2>2. IsFiniteSet(load_snapshots) /\ Cardinality(load_snapshots) <= 1
    BY <1>1, <2>1, FS_Subset
  <2>3. Cardinality(load_snapshots) \in Nat
    BY <2>2, FS_CardinalityType
  <2> QED
    BY <2>2, <2>3
<1> QED
  BY <1>1 DEF load_snapshots

LEMMA NextLoop ==
  ASSUME ThreadWriters = {}, TypeInv, TypeInv', LoopInv, [Next]_vars
  PROVE  LoopInv'
<1> USE DEF Goto
<1>1. ASSUME NEW w \in Writers, save_snapshot(w) PROVE LoopInv'
  <2> w \in Callers /\ w \notin Deletes
    BY DEF Callers
  <2>1. \A p \in Callers \ {w} : pc'[p] = "idle"
    BY <1>1, OthersIdle DEF LoopInv
  <2>2. OneAtWork' /\ DeleteLeavesOne'
    BY <2>1 DEF OneAtWork, DeleteLeavesOne, Callers
  <2>3. pc'[w] = "unlink" /\ job'[w].doomed # {} =>
          \E e \in Existing' : \A d \in job'[w].doomed : d < e
    <3>1. CASE PruneList(w)
      BY <3>1, ListedLeaveOne
    <3>2. CASE PruneUnlink(w)
      <4>1. PICK e \in Existing : \A d \in job[w].doomed : d < e
        BY <3>2 DEF PruneUnlink, LoopInv, DoomedLeaveOne
      <4>2. job[w].doomed \in SUBSET Dates /\ job[w].doomed # {}
        BY <3>2 DEF PruneUnlink, TypeInv, TypeOK, Job
      <4>3. Min(job[w].doomed) \in job[w].doomed
        BY <4>2, FirstDate
      <4>4. e \in Existing'
        BY <3>2, <4>1, <4>2, <4>3 DEF PruneUnlink, Existing, TypeInv, TypeOK, Dates
      <4>5. job'[w].doomed \subseteq job[w].doomed
        BY <3>2 DEF PruneUnlink, TypeInv, TypeOK, Job
      <4> QED
        BY <4>1, <4>4, <4>5
    <3>3. CASE ~PruneList(w) /\ ~PruneUnlink(w)
      BY <1>1, <3>3 DEF save_snapshot, SaveStart, SaveOpen, SaveWrite, SaveRename, SaveFail,
                        Finish, PruneDone, TypeInv, TypeOK
    <3> QED
      BY <3>1, <3>2, <3>3
  <2>4. DoomedLeaveOne'
    BY <2>1, <2>3 DEF DoomedLeaveOne, Callers
  <2> QED
    BY <2>2, <2>4 DEF LoopInv
<1>2. ASSUME NEW q \in Deletes, delete_snapshot(q) PROVE LoopInv'
  <2> q \in Callers /\ q \notin Writers
    BY DEF Callers
  <2>1. \A p \in Callers \ {q} : pc'[p] = "idle"
    BY <1>2, OthersIdle DEF LoopInv
  <2>2. OneAtWork' /\ DoomedLeaveOne'
    BY <2>1 DEF OneAtWork, DoomedLeaveOne, Callers
  <2>3. CASE DeleteUnlink(q)
    <3>1. pc'[q] = "idle"
      BY <2>3 DEF DeleteUnlink, Finish, TypeInv, TypeOK
    <3> QED
      BY <2>1, <2>2, <3>1 DEF LoopInv, DeleteLeavesOne, Callers
  <2>4. ASSUME NEW d \in Dates, DeleteCheck(q, d) PROVE LoopInv'
    <3>1. job'[q].date = d /\ Existing' = Existing
      BY <2>4 DEF DeleteCheck, directory, Existing, TypeInv, TypeOK, Job
    <3>2. \E e \in Existing : e # d
      BY <2>4, CheckedLeavesOne DEF DeleteCheck
    <3> QED
      BY <2>1, <2>2, <3>1, <3>2 DEF LoopInv, DeleteLeavesOne, Callers
  <2> QED
    BY <1>2, <2>3, <2>4 DEF delete_snapshot
<1>3. CASE Restart
  BY <1>3 DEF Restart, LoopInv, OneAtWork, DoomedLeaveOne, DeleteLeavesOne, Callers
<1>4. CASE DayPasses \/ UNCHANGED vars
  BY <1>4 DEF DayPasses, vars, directory, LoopInv, OneAtWork, DoomedLeaveOne, DeleteLeavesOne, Existing
<1> QED
  BY <1>1, <1>2, <1>3, <1>4 DEF Next

(* What readers see, file by file, when every published file is whole.     *)
LEMMA StoreIs ==
  ASSUME IInv
  PROVE  /\ load_snapshots = Existing
         /\ store = [d \in Dates |-> IF d \in Existing THEN Content(d) ELSE NULL]
<1>1. load_snapshots = Existing
  BY DEF IInv, PublishedWhole, load_snapshots, Existing
<1> QED
  BY <1>1 DEF store

LEMMA StoreIsPrimed ==
  ASSUME IInv'
  PROVE  store' = [d \in Dates |-> IF d \in Existing' THEN Content(d)' ELSE NULL]
<1>1. load_snapshots' = Existing'
  BY DEF IInv, PublishedWhole, load_snapshots, Existing
<1> QED
  BY <1>1 DEF store

LEMMA StoreSame ==
  ASSUME IInv, IInv', files' = files, \A d \in Existing : data'[files[d]] = data[files[d]]
  PROVE  store' = store
<1>1. Existing' = Existing /\ \A d \in Existing : Content(d)' = Content(d)
  BY DEF Existing, Content
<1> QED
  BY <1>1, StoreIs, StoreIsPrimed

(* A file is gone, and was not the only one.                               *)
LEMMA StoreRemoves ==
  ASSUME NewestInv, IInv', NEW d \in Dates, data' = data,
         files' = [files EXCEPT ![d] = NULL],
         \E e \in Existing : e # d
  PROVE  [Store!Next]_store
<1>1. IInv /\ files \in [Dates -> Saves \cup {NULL}]
  BY DEF NewestInv, IInv, TypeInv, TypeOK
<1>2. Existing' = Existing \ {d}
  BY <1>1 DEF Existing
<1>3. \A e \in Existing' : Content(e)' = Content(e)
  BY <1>1, <1>2 DEF Existing, Content
<1>4. store' = [store EXCEPT ![d] = NULL]
  BY <1>1, <1>2, <1>3, StoreIs, StoreIsPrimed
<1>5. Store!Stored = Existing
  <2>1. \A e \in Existing : Content(e) # NULL
    BY DEF NewestInv, PublishedInOrder, Saves
  <2>2. Existing \subseteq Dates
    BY DEF Existing
  <2> QED
    BY <1>1, <2>1, <2>2, StoreIs DEF Store!Stored
<1>6. CASE d \in Existing
  <2>1. Store!Remove(d)
    BY <1>4, <1>5, <1>6 DEF Store!Remove
  <2> QED
    BY <2>1 DEF Store!Next
<1>7. CASE d \notin Existing
  <2>1. Existing' = Existing
    BY <1>2, <1>7
  <2>2. store' = store
    BY <1>1, <1>3, <2>1, StoreIs, StoreIsPrimed
  <2> QED
    BY <2>2
<1> QED
  BY <1>6, <1>7

(* The rename replaces a day's snapshot by a newer one than any.           *)
LEMMA RenameStores ==
  ASSUME NewestInv, IInv', NEW w \in Writers, SaveRename(w)
  PROVE  Store!Next
<1>1. IInv /\ files \in [Dates -> Saves \cup {NULL}]
  BY DEF NewestInv, IInv, TypeInv, TypeOK
<1>2. PICK date \in Dates, save \in Saves, inode \in Saves :
        /\ date = job[w].date /\ save = job[w].save /\ inode = job[w].inode
        /\ tmp[date] = inode /\ data[inode][1] = save
  BY DEF SaveRename, NewestInv, IInv, TypeInv, JobReady, WriterOwnsTmp, Writing
<1>3. files' = [files EXCEPT ![date] = inode] /\ data' = data
  BY <1>2 DEF SaveRename
<1>4. inode # NULL /\ save # NULL
  BY DEF Saves
<1>5. Existing' = Existing \cup {date}
  BY <1>1, <1>3, <1>4 DEF Existing
<1>6. /\ Content(date)' = save
      /\ \A d \in Existing \ {date} : Content(d)' = Content(d)
  BY <1>1, <1>2, <1>3 DEF Existing, Content
<1>7. store' = [store EXCEPT ![date] = save]
  BY <1>1, <1>5, <1>6, StoreIs, StoreIsPrimed
<1>8. \A d \in Existing : Content(d) < save
  BY <1>2 DEF NewestInv, SavingNewest, Saving, Writing, SaveRename
<1>9. \A e \in Store!Stored : e \in Existing /\ store[e] = Content(e)
  BY <1>1, StoreIs DEF Store!Stored
<1>10. Store!Put(date, save)
  BY <1>7, <1>8, <1>9 DEF Store!Put
<1> QED
  BY <1>10 DEF Store!Next

LEMMA NextImplements ==
  ASSUME NewestInv, NewestInv', LoopInv, [Next]_vars
  PROVE  [Store!Next]_store
<1>0. IInv /\ IInv' /\ TypeOK
  BY DEF NewestInv, IInv, TypeInv
<1> USE <1>0 DEF directory
<1>1. ASSUME NEW w \in Writers, save_snapshot(w) PROVE [Store!Next]_store
  <2>1. CASE SaveOpen(w)
    <3> DEFINE inode == IF tmp[job[w].date] # NULL THEN tmp[job[w].date] ELSE job[w].save
    <3>1. job[w].date \in Dates /\ job[w].save \in Saves /\ ~Used(job[w].save)
      BY <2>1 DEF SaveOpen, IInv, TypeInv, JobReady, WriterOwnsTmp
    <3>2. \A d \in Dates : files[d] # inode
      BY <3>1 DEF IInv, TmpApart, Used
    <3>3. \A d \in Existing : data'[files[d]] = data[files[d]]
      BY <2>1, <3>2 DEF SaveOpen, Truncated, TypeOK, Existing
    <3> QED
      BY <2>1, <3>3, StoreSame DEF SaveOpen
  <2>2. ASSUME NEW k \in Chunks, SaveWrite(w, k) PROVE [Store!Next]_store
    <3>1. /\ job[w].date \in Dates /\ job[w].inode \in Saves
          /\ tmp[job[w].date] = job[w].inode
      BY <2>2 DEF SaveWrite, IInv, TypeInv, JobReady, WriterOwnsTmp, Writing
    <3>2. \A d \in Dates : files[d] # job[w].inode
      BY <3>1 DEF IInv, TmpApart, Saves
    <3>3. \A d \in Existing : data'[files[d]] = data[files[d]]
      BY <2>2, <3>2 DEF SaveWrite, TypeOK, Existing
    <3> QED
      BY <2>2, <3>3, StoreSame DEF SaveWrite
  <2>3. CASE SaveRename(w)
    BY <2>3, RenameStores
  <2>4. CASE PruneUnlink(w)
    <3>1. PICK d \in job[w].doomed : d = Min(job[w].doomed)
      <4>1. w \in Callers
        BY DEF Callers
      <4>2. job[w].doomed \in SUBSET Dates /\ job[w].doomed # {}
        BY <2>4, <4>1 DEF PruneUnlink, TypeOK, Job
      <4> QED
        BY <4>2, FirstDate
    <3>2. d \in Dates
      BY DEF TypeOK, Job, Callers
    <3>3. \E e \in Existing : e # d
      <4>1. PICK e \in Existing : \A c \in job[w].doomed : c < e
        BY <2>4 DEF PruneUnlink, LoopInv, DoomedLeaveOne
      <4>2. d < e /\ d \in Nat
        BY <3>2, <4>1 DEF Dates
      <4> QED
        BY <4>1, <4>2
    <3>4. data' = data /\ files' = [files EXCEPT ![d] = NULL]
      BY <2>4, <3>1 DEF PruneUnlink
    <3> QED
      BY <3>2, <3>3, <3>4, StoreRemoves
  <2>5. CASE SaveStart(w) \/ SaveFail(w) \/ PruneList(w) \/ PruneDone(w)
    BY <2>5, StoreSame DEF SaveStart, SaveFail, PruneList, PruneDone
  <2> QED
    BY <1>1, <2>1, <2>2, <2>3, <2>4, <2>5 DEF save_snapshot, Chunks
<1>2. ASSUME NEW q \in Deletes, delete_snapshot(q) PROVE [Store!Next]_store
  <2>1. CASE DeleteUnlink(q)
    <3>1. job[q].date \in Dates /\ \E e \in Existing : e # job[q].date
      BY <2>1 DEF DeleteUnlink, LoopInv, DeleteLeavesOne
    <3> QED
      BY <2>1, <3>1, StoreRemoves DEF DeleteUnlink
  <2>2. ASSUME NEW d \in Dates, DeleteCheck(q, d) PROVE [Store!Next]_store
    BY <2>2, StoreSame DEF DeleteCheck
  <2> QED
    BY <1>2, <2>1, <2>2 DEF delete_snapshot
<1>3. CASE Restart \/ DayPasses \/ UNCHANGED vars
  BY <1>3, StoreSame DEF Restart, DayPasses, vars
<1> QED
  BY <1>1, <1>2, <1>3 DEF Next

LEMMA InitImplements == NewestInv => Store!Init
<1> SUFFICES ASSUME NewestInv PROVE Store!Init
  OBVIOUS
<1>1. \A d \in Existing : Content(d) \in Saves
  BY DEF NewestInv, PublishedInOrder
<1>2. store = [d \in Dates |-> IF d \in Existing THEN Content(d) ELSE NULL]
  BY StoreIs DEF NewestInv
<1> QED
  BY <1>1, <1>2 DEF Store!Init

(***************************************************************************)
(* Where every save keeps the event loop, for any number of callers, the   *)
(* directory is the abstract store: to its readers a save is one step and  *)
(* brings the newest data, and neither pruning nor DELETE takes the last   *)
(* snapshot, over failed saves and kills at every system call.             *)
(***************************************************************************)
THEOREM StoreImplemented ==
  ASSUME ThreadWriters = {}
  PROVE  Spec => ImplementsStore
<1> DEFINE Inv == NewestInv /\ SavesApart /\ LoopInv
<1>1. Init => Inv
  BY InitNewest, InitApart, InitLoop
<1>2. Inv /\ [Next]_vars => Inv'
  <2> SUFFICES ASSUME Inv, [Next]_vars PROVE Inv'
    OBVIOUS
  <2>1. TypeInv
    BY DEF NewestInv, IInv
  <2>2. SavesApart'
    BY <2>1, NextApart DEF OneSaveAtATime
  <2>3. NewestInv'
    BY <2>2, NextNewest
  <2>4. TypeInv'
    BY <2>3 DEF NewestInv, IInv
  <2>5. LoopInv'
    BY <2>1, <2>4, NextLoop
  <2> QED
    BY <2>2, <2>3, <2>5
<1>3. Inv /\ Inv' /\ [Next]_vars => [Store!Next]_store
  BY NextImplements
<1>4. Inv => Store!Init
  BY InitImplements
<1> QED
  BY <1>1, <1>2, <1>3, <1>4, PTL DEF Spec, ImplementsStore, Store!Spec
=============================================================================
