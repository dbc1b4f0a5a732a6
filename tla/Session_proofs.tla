--------------------------- MODULE Session_proofs ---------------------------
(***************************************************************************)
(* Proofs about Session, for any number of requests, tasks and loops.      *)
(***************************************************************************)
EXTENDS Session, TLAPS

(* A process that is about to publish or save something has computed it.   *)
WorkReady ==
    \A q \in Procs :
        pc[q] \in {"enrich", "record", "dump", "commit", "save"} => work[q] \in Work

TypeInv == TypeOK /\ WorkReady

-----------------------------------------------------------------------------
(* Type correctness *)

LEMMA SeedType == Seed \in Portfolio
  BY BoundsAssumption DEF Seed, Portfolio, Owners, Versions, Days

LEMMA ComputedType ==
  ASSUME versions \in Versions, versions < MaxVersions, today \in Days,
         NEW owner \in Owners, NEW by \in {"fetch", "refresh"}
  PROVE  /\ Computed(owner, by) \in Portfolio
         /\ versions + 1 \in Versions
  BY BoundsAssumption DEF Computed, Portfolio, Versions

LEMMA InitTypeInv == Init => TypeInv
<1> SUFFICES ASSUME Init PROVE TypeInv
    OBVIOUS
<1>1. pc \in [Procs -> Sites] /\ work \in [Procs -> Work \cup {NULL}]
  BY DEF Init, Sites
<1>2. /\ valuation \in Versions \cup {NULL} /\ versions \in Versions
      /\ logins \in 0..MaxLogins /\ today \in Days /\ disk_date \in Days
  BY BoundsAssumption DEF Init, Versions, Days
<1>3. disk \in Portfolio \cup {NULL}
  BY SeedType DEF Init
<1>4. WorkReady
  BY DEF Init, WorkReady
<1> QED
  BY <1>1, <1>2, <1>3, <1>4 DEF Init, TypeInv, TypeOK

(* Moving one process keeps the types of pc and work.                      *)
LEMMA GotoType ==
  ASSUME pc \in [Procs -> Sites], NEW p \in Procs, NEW site \in Sites, Goto(p, site)
  PROVE  /\ pc' \in [Procs -> Sites]
         /\ pc'[p] = site
         /\ \A q \in Procs : q # p => pc'[q] = pc[q]
  BY DEF Goto

LEMMA FinishType ==
  ASSUME TypeInv, NEW p \in Procs, Finish(p)
  PROVE  /\ pc' \in [Procs -> Sites]
         /\ work' \in [Procs -> Work \cup {NULL}]
         /\ WorkReady'
         /\ pc'[p] = "idle"
         /\ \A q \in Procs : q # p => pc'[q] = pc[q] /\ work'[q] = work[q]
  BY DEF Finish, Goto, TypeInv, TypeOK, WorkReady, Sites

LEMMA ReleaseType ==
  ASSUME TypeOK, _release_operation_lock
  PROVE  operation_lock' \in BOOLEAN /\ operation_lock_held' \in BOOLEAN
  BY DEF TypeOK, _release_operation_lock, lock

LEMMA NowType ==
  ASSUME TypeOK, NEW ver \in Versions
  PROVE  Now(ver) \in Stamp
  BY DEF TypeOK, Now, Stamp

LEMMA SaveType ==
  ASSUME TypeOK, NEW result \in Portfolio, _save_snapshot_for_portfolio(result)
  PROVE  disk' \in Portfolio \cup {NULL} /\ disk_date' \in Days
<1>1. ASSUME NEW date \in result.day..today
      PROVE  date \in Days
  BY BoundsAssumption DEF TypeOK, Portfolio, Days
<1> QED
  BY <1>1 DEF _save_snapshot_for_portfolio, TypeOK

(* A save brings what it was given, or nothing.                            *)
LEMMA SaveKeeps ==
  ASSUME NEW result, _save_snapshot_for_portfolio(result)
  PROVE  disk' \in {result, disk}
  BY DEF _save_snapshot_for_portfolio

LEMMA StepTypeInv == TypeInv /\ [Next]_vars => TypeInv'
<1> SUFFICES ASSUME TypeInv, [Next]_vars
             PROVE  TypeInv'
    OBVIOUS
<1> USE DEF TypeInv
<1>1. CASE Login
  BY <1>1, BoundsAssumption
     DEF Login, TypeOK, WorkReady, Owners, store, procs, lock
<1>2. CASE Logout
  BY <1>2 DEF Logout, _clear_session, TypeOK, WorkReady, store, procs, lock, env
<1>3. CASE SessionExpires
  BY <1>3 DEF SessionExpires, TypeOK, WorkReady, store, procs, lock, env
<1>4. ASSUME NEW p \in PortfolioReqs, get_portfolio(p)
      PROVE  TypeInv'
  <2>0. p \in Procs
    BY DEF Procs
  <2>1. CASE PortfolioStart(p)
    <3>1. trading_api \in Owners
      BY <2>1 DEF PortfolioStart, _is_session_valid, TypeOK
    <3>2. Computed(trading_api, "fetch") \in Portfolio /\ versions' \in Versions
      BY <2>1, <3>1, ComputedType DEF PortfolioStart, TypeOK
    <3>3. [base |-> NULL, result |-> Computed(trading_api, "fetch")] \in Work
      BY <3>2 DEF Work
    <3>4. work' \in [Procs -> Work \cup {NULL}] /\ work'[p] \in Work
          /\ \A q \in Procs : q # p => work'[q] = work[q]
      BY <2>0, <2>1, <3>3 DEF PortfolioStart, TypeOK
    <3>5. "enrich" \in Sites
      BY DEF Sites
    <3>6. /\ pc' \in [Procs -> Sites]
          /\ pc'[p] = "enrich"
          /\ \A q \in Procs : q # p => pc'[q] = pc[q]
      BY <2>0, <2>1, <3>5, GotoType DEF PortfolioStart, TypeOK
    <3> QED
      BY <2>1, <3>2, <3>4, <3>6
         DEF PortfolioStart, _acquire_operation_lock, TypeOK, WorkReady, session, store
  <2>2. CASE PortfolioSave(p)
    <3>1. work[p].result \in Portfolio
      BY <2>0, <2>2 DEF PortfolioSave, WorkReady, Work
    <3> QED
      BY <2>0, <2>2, <3>1, SaveType
         DEF PortfolioSave, Goto, TypeOK, WorkReady, Sites, session, lock, env
  <2>3. CASE PortfolioCommit(p)
    <3>1. work[p].result \in Portfolio /\ work[p].result.ver \in Versions
      BY <2>0, <2>3 DEF PortfolioCommit, WorkReady, Work, Portfolio
    <3> QED
      BY <2>0, <2>3, <3>1, FinishType, ReleaseType, NowType
         DEF PortfolioCommit, TypeOK, store, env
  <2>4. CASE PortfolioFail(p)
    BY <2>0, <2>4, FinishType, ReleaseType DEF PortfolioFail, TypeOK, session, store, env
  <2> QED
    BY <1>4, <2>1, <2>2, <2>3, <2>4 DEF get_portfolio
<1>5. ASSUME NEW t \in RefreshTasks, refresh_prices(t) \/ RefreshTask(t)
      PROVE  TypeInv'
  <2>0. t \in Procs
    BY DEF Procs, Enrichers
  <2>1. CASE refresh_prices(t)
    BY <2>0, <2>1 DEF refresh_prices, Goto, TypeOK, WorkReady, Sites, session, lock, store, env
  <2>2. CASE RefreshAcquire(t)
    BY <2>0, <2>2 DEF RefreshAcquire, _acquire_operation_lock, Goto, TypeOK, WorkReady,
                      Sites, session, store, env
  <2>3. CASE RefreshSkip(t)
    BY <2>0, <2>3 DEF RefreshSkip, Goto, TypeOK, WorkReady, Sites, session, lock, store, env
  <2>4. CASE RefreshRelease(t)
    BY <2>0, <2>4, FinishType, ReleaseType DEF RefreshRelease, TypeOK, session, store, env
  <2> QED
    BY <1>5, <2>1, <2>2, <2>3, <2>4 DEF RefreshTask
<1>6. ASSUME NEW d \in DailyLoops,
             _daily_enrichment_loop(d) \/ _daily_eod_loop(d) \/ DailySleep(d)
      PROVE  TypeInv'
  <2>0. d \in Procs
    BY DEF Procs, Enrichers
  <2>1. CASE _daily_enrichment_loop(d) \/ _daily_eod_loop(d)
    BY <2>0, <2>1 DEF _daily_enrichment_loop, _daily_eod_loop, Goto, TypeOK, WorkReady,
                      Sites, session, lock, store, env
  <2>2. CASE DailySleep(d)
    BY <2>0, <2>2, FinishType DEF DailySleep, TypeOK, session, lock, store, env
  <2> QED
    BY <1>6, <2>1, <2>2
<1>7. ASSUME NEW e \in Enrichers, _do_enrich_session(e)
      PROVE  TypeInv'
  <2>0. e \in Procs
    BY DEF Procs
  <2>1. CASE EnrichFlag(e) \/ EnrichUnflag(e) \/ EnrichFail(e)
    BY <2>0, <2>1 DEF EnrichFlag, EnrichUnflag, EnrichFail, Goto, TypeOK, WorkReady,
                      Sites, session, lock, store, env
  <2>2. CASE EnrichRead(e)
    <3>1. portfolio.owner \in Owners /\ portfolio.ver \in Versions
      BY <2>2 DEF EnrichRead, TypeOK, Portfolio
    <3>2. Computed(portfolio.owner, "refresh") \in Portfolio /\ versions' \in Versions
      BY <2>2, <3>1, ComputedType DEF EnrichRead, TypeOK
    <3>3. [base |-> portfolio.ver, result |-> Computed(portfolio.owner, "refresh")] \in Work
      BY <3>1, <3>2 DEF Work
    <3>4. work' \in [Procs -> Work \cup {NULL}] /\ work'[e] \in Work
          /\ \A q \in Procs : q # e => work'[q] = work[q]
      BY <2>0, <2>2, <3>3 DEF EnrichRead, TypeOK
    <3>5. "record" \in Sites
      BY DEF Sites
    <3>6. /\ pc' \in [Procs -> Sites]
          /\ pc'[e] = "record"
          /\ \A q \in Procs : q # e => pc'[q] = pc[q]
      BY <2>0, <2>2, <3>5, GotoType DEF EnrichRead, TypeOK
    <3> QED
      BY <2>2, <3>2, <3>4, <3>6 DEF EnrichRead, TypeOK, WorkReady, session, lock, store
  <2>3. CASE EnrichTruncate(e) \/ EnrichDump(e)
    <3>1. work[e].result.ver \in Versions
      BY <2>0, <2>3 DEF EnrichTruncate, EnrichDump, WorkReady, Work, Portfolio
    <3> QED
      BY <2>0, <2>3, <3>1
         DEF EnrichTruncate, EnrichDump, Goto, TypeOK, WorkReady, Sites, session, lock, env
  <2>4. CASE EnrichCommit(e)
    <3>1. work[e].result \in Portfolio /\ work[e].result.ver \in Versions
      BY <2>0, <2>4 DEF EnrichCommit, WorkReady, Work, Portfolio
    <3> QED
      BY <2>0, <2>4, <3>1, NowType
         DEF EnrichCommit, Goto, TypeOK, WorkReady, Sites, lock, store, env
  <2>5. CASE EnrichSave(e)
    <3>1. work[e].result \in Portfolio
      BY <2>0, <2>5 DEF EnrichSave, WorkReady, Work
    <3> QED
      BY <2>0, <2>5, <3>1, SaveType
         DEF EnrichSave, Goto, TypeOK, WorkReady, Sites, session, lock, env
  <2> QED
    BY <1>7, <2>1, <2>2, <2>3, <2>4, <2>5 DEF _do_enrich_session
<1>8. CASE get_rebalance_plan
  <2>1. portfolio' \in Portfolio
    BY <1>8 DEF get_rebalance_plan, TypeOK, Portfolio
  <2>2. ASSUME NEW q \in Procs, pc[q] = "save"
        PROVE  [work[q] EXCEPT !.result.weights = "override"] \in Work
    BY <2>2 DEF WorkReady, Work, Portfolio
  <2>3. \A q \in Procs : work'[q] = work[q] \/ (pc[q] = "save" /\ work'[q] \in Work)
    BY <1>8, <2>2 DEF get_rebalance_plan
  <2>4. work' \in [Procs -> Work \cup {NULL}]
    BY <1>8, <2>2 DEF get_rebalance_plan, TypeOK
  <2> QED
    BY <1>8, <2>1, <2>3, <2>4 DEF get_rebalance_plan, TypeOK, WorkReady, lock, store, env
<1>9. ASSUME NEW s \in ManualSaves, save_snapshot_now(s)
      PROVE  TypeInv'
  <2>0. s \in Procs
    BY DEF Procs
  <2>1. CASE ManualSaveRead(s)
    <3>1. [base |-> NULL, result |-> portfolio] \in Work
      BY <2>1 DEF ManualSaveRead, TypeOK, Work
    <3> QED
      BY <2>0, <2>1, <3>1
         DEF ManualSaveRead, Goto, TypeOK, WorkReady, Sites, session, lock, store, env
  <2>2. CASE ManualSaveWrite(s)
    <3>1. work[s].result \in Portfolio
      BY <2>0, <2>2 DEF ManualSaveWrite, WorkReady, Work
    <3> QED
      BY <2>0, <2>2, <3>1, FinishType, SaveType DEF ManualSaveWrite, TypeOK, session, lock, env
  <2> QED
    BY <1>9, <2>1, <2>2 DEF save_snapshot_now
<1>10. CASE Start
  BY <1>10 DEF Start, TypeOK, WorkReady, Portfolio, Stamp, lock, procs, store
<1>11. CASE Shutdown
  BY <1>11 DEF Shutdown, _clear_session, TypeOK, WorkReady, lock, procs, store
<1>12. CASE Die
  BY <1>12 DEF Die, _clear_session, TypeOK, WorkReady, Sites, store
<1>13. CASE Midnight
  BY <1>13, BoundsAssumption DEF Midnight, TypeOK, WorkReady, Days, session, lock, procs, store
<1>14. CASE UNCHANGED vars
  BY <1>14 DEF vars, session, lock, procs, store, env, TypeOK, WorkReady
<1> QED
  BY <1>1, <1>2, <1>3, <1>4, <1>5, <1>6, <1>7, <1>8, <1>9, <1>10, <1>11, <1>12, <1>13,
     <1>14
     DEF Next

(* Every variable keeps its type, and nothing is published before it has   *)
(* been computed.                                                          *)
THEOREM TypeCorrect == Spec => [](TypeOK /\ WorkReady)
  BY InitTypeInv, StepTypeInv, PTL DEF Spec, TypeInv

-----------------------------------------------------------------------------
(* The operation lock *)

LEMMA SameHolders ==
  ASSUME OpLockExclusive, UNCHANGED lock,
         \A q \in Procs : HoldsLock(q)' <=> HoldsLock(q)
  PROVE  OpLockExclusive'
  BY DEF OpLockExclusive, lock

LEMMA OneMoreHolder ==
  ASSUME OpLockExclusive, _acquire_operation_lock,
         NEW p \in Procs, HoldsLock(p)',
         \A q \in Procs : q # p => (HoldsLock(q)' <=> HoldsLock(q))
  PROVE  OpLockExclusive'
  BY DEF OpLockExclusive, _acquire_operation_lock

LEMMA OneHolderLess ==
  ASSUME OpLockExclusive, _release_operation_lock,
         NEW p \in Procs, HoldsLock(p), ~HoldsLock(p)',
         \A q \in Procs : q # p => (HoldsLock(q)' <=> HoldsLock(q))
  PROVE  OpLockExclusive'
  BY DEF OpLockExclusive, _release_operation_lock

LEMMA StepLock == TypeInv /\ OpLockExclusive /\ [Next]_vars => OpLockExclusive'
<1> SUFFICES ASSUME TypeInv, OpLockExclusive, [Next]_vars
             PROVE  OpLockExclusive'
    OBVIOUS
<1>0. pc \in [Procs -> Sites]
  BY DEF TypeInv, TypeOK
<1>1. CASE Login \/ Logout \/ SessionExpires \/ get_rebalance_plan \/ Start \/ Shutdown
           \/ Midnight \/ UNCHANGED vars
  <2>1. UNCHANGED <<lock, pc>>
    BY <1>1 DEF Login, Logout, SessionExpires, get_rebalance_plan, Start, Shutdown, Midnight,
                vars, procs
  <2> QED
    BY <2>1, SameHolders DEF HoldsLock
<1>2. ASSUME NEW p \in PortfolioReqs, get_portfolio(p)
      PROVE  OpLockExclusive'
  <2>0. p \in Procs
    BY DEF Procs
  <2>1. CASE PortfolioStart(p)
    BY <1>0, <2>0, <2>1, OneMoreHolder DEF PortfolioStart, Goto, HoldsLock
  <2>2. CASE PortfolioSave(p)
    BY <1>0, <2>0, <2>2, SameHolders DEF PortfolioSave, Goto, HoldsLock
  <2>3. CASE PortfolioCommit(p) \/ PortfolioFail(p)
    <3>1. HoldsLock(p)
      BY <2>3 DEF PortfolioCommit, PortfolioFail, HoldsLock
    <3>2. p \notin RefreshTasks
      BY ProcsAssumption DEF Enrichers
    <3> QED
      BY <1>0, <2>0, <2>3, <3>1, <3>2, OneHolderLess
         DEF PortfolioCommit, PortfolioFail, Finish, Goto, HoldsLock
  <2> QED
    BY <1>2, <2>1, <2>2, <2>3 DEF get_portfolio
<1>3. ASSUME NEW t \in RefreshTasks, refresh_prices(t) \/ RefreshTask(t)
      PROVE  OpLockExclusive'
  <2>0. t \in Procs /\ t \notin PortfolioReqs
    BY ProcsAssumption DEF Procs, Enrichers
  <2>1. CASE refresh_prices(t) \/ RefreshSkip(t)
    BY <1>0, <2>0, <2>1, SameHolders DEF refresh_prices, RefreshSkip, Goto, HoldsLock
  <2>2. CASE RefreshAcquire(t)
    BY <1>0, <2>0, <2>2, OneMoreHolder DEF RefreshAcquire, Goto, HoldsLock
  <2>3. CASE RefreshRelease(t)
    <3>1. HoldsLock(t)
      BY <2>3 DEF RefreshRelease, HoldsLock
    <3> QED
      BY <1>0, <2>0, <2>3, <3>1, OneHolderLess DEF RefreshRelease, Finish, Goto, HoldsLock
  <2> QED
    BY <1>3, <2>1, <2>2, <2>3 DEF RefreshTask
<1>4. ASSUME NEW q \in DailyLoops \cup ManualSaves,
             \/ _daily_enrichment_loop(q) \/ _daily_eod_loop(q) \/ DailySleep(q)
             \/ save_snapshot_now(q)
      PROVE  OpLockExclusive'
  <2>1. q \in Procs /\ q \notin PortfolioReqs /\ q \notin RefreshTasks
    BY ProcsAssumption DEF Procs, Enrichers
  <2>2. UNCHANGED lock /\ \A r \in Procs : r # q => pc'[r] = pc[r]
    BY <1>0, <1>4 DEF _daily_enrichment_loop, _daily_eod_loop, DailySleep, save_snapshot_now,
                ManualSaveRead, ManualSaveWrite, Finish, Goto
  <2> QED
    BY <2>1, <2>2, SameHolders DEF HoldsLock
<1>5. ASSUME NEW e \in Enrichers, _do_enrich_session(e)
      PROVE  OpLockExclusive'
  <2>1. e \in Procs /\ e \notin PortfolioReqs
    BY ProcsAssumption DEF Procs
  <2>2. /\ UNCHANGED lock
        /\ \A r \in Procs : r # e => pc'[r] = pc[r]
        /\ pc[e] \notin {"idle", "scheduled"} /\ pc'[e] \notin {"idle", "scheduled"}
    BY <1>0, <1>5, <2>1
       DEF _do_enrich_session, EnrichFlag, EnrichRead, EnrichFail, EnrichTruncate, EnrichDump,
           EnrichCommit, EnrichSave, EnrichUnflag, Goto
  <2> QED
    BY <2>1, <2>2, SameHolders DEF HoldsLock
<1>6. CASE Die
  BY <1>6 DEF Die, OpLockExclusive, HoldsLock
<1> QED
  BY <1>1, <1>2, <1>3, <1>4, <1>5, <1>6 DEF Next

LEMMA InitLock == Init => OpLockExclusive
  BY DEF Init, OpLockExclusive, HoldsLock

(* At most one request or refresh task is between acquire and release, and *)
(* the flag, the lock and that section never disagree.                     *)
THEOREM OperationLockExcludes == Spec => []OpLockExclusive
<1>1. TypeInv /\ OpLockExclusive /\ [Next]_vars => (TypeInv /\ OpLockExclusive)'
  BY StepTypeInv, StepLock
<1>2. Init => TypeInv /\ OpLockExclusive
  BY InitTypeInv, InitLock
<1> QED
  BY <1>1, <1>2, PTL DEF Spec

-----------------------------------------------------------------------------
(* The status flag *)

LEMMA StepBacked == TypeInv /\ EnrichingIsBacked /\ [Next]_vars => EnrichingIsBacked'
<1> SUFFICES ASSUME TypeInv, EnrichingIsBacked, [Next]_vars, enriching'
             PROVE  \E e \in Enrichers : Enriching(e)'
    BY DEF EnrichingIsBacked, Enriching
<1>0. pc \in [Procs -> Sites] /\ Enrichers \subseteq Procs
  BY DEF TypeInv, TypeOK, Procs
<1>1. ASSUME enriching, \A e \in Enrichers : Enriching(e) => Enriching(e)'
      PROVE  \E e \in Enrichers : Enriching(e)'
  BY <1>1 DEF EnrichingIsBacked
<1>2. CASE Login \/ SessionExpires \/ get_rebalance_plan \/ Start \/ Midnight \/ UNCHANGED vars
  BY <1>1, <1>2 DEF Login, SessionExpires, get_rebalance_plan, Start, Midnight, vars, procs,
                    session, Enriching
<1>3. CASE Logout \/ Shutdown \/ Die
  BY <1>3 DEF Logout, Shutdown, Die, _clear_session
<1>4. ASSUME NEW q \in PortfolioReqs \cup ManualSaves, get_portfolio(q) \/ save_snapshot_now(q)
      PROVE  \E e \in Enrichers : Enriching(e)'
  <2>1. q \in Procs /\ q \notin Enrichers
    BY ProcsAssumption DEF Procs
  <2>2. enriching /\ \A e \in Enrichers : pc'[e] = pc[e]
    BY <1>0, <1>4, <2>1
       DEF get_portfolio, PortfolioStart, PortfolioSave, PortfolioCommit, PortfolioFail,
           save_snapshot_now, ManualSaveRead, ManualSaveWrite, Finish, Goto, session
  <2> QED
    BY <1>1, <2>2 DEF Enriching
<1>5. ASSUME NEW q \in Enrichers,
             \/ refresh_prices(q) \/ RefreshTask(q)
             \/ _daily_enrichment_loop(q) \/ _daily_eod_loop(q) \/ DailySleep(q)
      PROVE  \E e \in Enrichers : Enriching(e)'
  <2>1. enriching /\ ~Enriching(q) /\ \A e \in Enrichers : e # q => pc'[e] = pc[e]
    BY <1>0, <1>5
       DEF refresh_prices, RefreshTask, RefreshAcquire, RefreshSkip, RefreshRelease,
           _daily_enrichment_loop, _daily_eod_loop, DailySleep, Finish, Goto, session, Enriching
  <2> QED
    BY <1>1, <2>1 DEF Enriching
<1>6. ASSUME NEW q \in Enrichers, _do_enrich_session(q)
      PROVE  \E e \in Enrichers : Enriching(e)'
  <2>1. Enriching(q)'
    BY <1>0, <1>6
       DEF _do_enrich_session, EnrichFlag, EnrichRead, EnrichFail, EnrichTruncate, EnrichDump,
           EnrichCommit, EnrichSave, EnrichUnflag, Goto, Enriching
  <2> QED
    BY <2>1
<1> QED
  BY <1>2, <1>3, <1>4, <1>5, <1>6 DEF Next, Enrichers

(* The status endpoint never reports an enrichment that nobody runs.       *)
THEOREM StatusIsBacked == Spec => []EnrichingIsBacked
<1>1. Init => TypeInv /\ EnrichingIsBacked
  BY InitTypeInv DEF Init, EnrichingIsBacked
<1>2. TypeInv /\ EnrichingIsBacked /\ [Next]_vars => (TypeInv /\ EnrichingIsBacked)'
  BY StepTypeInv, StepBacked
<1> QED
  BY <1>1, <1>2, PTL DEF Spec

-----------------------------------------------------------------------------
(* What the lock buys: no refresh buries a newer portfolio *)

(* Only the holder of the lock publishes, besides login and logout, which  *)
(* leave nothing to bury.                                                  *)
LEMMA StepOntoBase ==
  ASSUME DailyLoops = {}
  PROVE  TypeInv /\ OpLockExclusive /\ RefreshCommitsOntoItsBase /\ [Next]_vars
           => RefreshCommitsOntoItsBase'
<1> SUFFICES ASSUME TypeInv, OpLockExclusive, RefreshCommitsOntoItsBase, [Next]_vars,
                    NEW t \in RefreshTasks, pc'[t] \in {"record", "dump", "commit"}
             PROVE  (portfolio = NULL \/ portfolio.ver = work[t].base)'
    BY DEF RefreshCommitsOntoItsBase
<1>0. /\ pc \in [Procs -> Sites]
      /\ work \in [Procs -> Work \cup {NULL}]
      /\ t \in Procs /\ t \in Enrichers /\ t \notin PortfolioReqs /\ t \notin ManualSaves
  BY ProcsAssumption DEF TypeInv, TypeOK, Procs, Enrichers
<1>1. ASSUME pc[t] \in {"record", "dump", "commit"}, work'[t] = work[t],
             portfolio' = NULL \/ (portfolio' # NULL /\ portfolio # NULL /\ portfolio'.ver = portfolio.ver)
      PROVE  (portfolio = NULL \/ portfolio.ver = work[t].base)'
  BY <1>1 DEF RefreshCommitsOntoItsBase
<1>2. pc[t] \in {"record", "dump", "commit"} => HoldsLock(t)
  BY DEF HoldsLock
<1>3. CASE Login \/ Logout \/ SessionExpires \/ Shutdown \/ Midnight \/ UNCHANGED vars
  BY <1>1, <1>3 DEF Login, Logout, SessionExpires, Shutdown, Midnight, _clear_session,
                    vars, procs, session
<1>4. CASE get_rebalance_plan
  <2>1. portfolio \in Portfolio
    BY <1>4 DEF get_rebalance_plan, TypeInv, TypeOK
  <2>2. portfolio' # NULL \/ portfolio' = NULL
    OBVIOUS
  <2>3. portfolio'.ver = portfolio.ver
    BY <1>4, <2>1 DEF get_rebalance_plan, Portfolio
  <2>4. work'[t] = work[t] /\ pc[t] \in {"record", "dump", "commit"}
    BY <1>0, <1>4 DEF get_rebalance_plan
  <2> QED
    BY <1>1, <1>4, <2>2, <2>3, <2>4 DEF get_rebalance_plan
<1>5. ASSUME NEW p \in PortfolioReqs, get_portfolio(p)
      PROVE  (portfolio = NULL \/ portfolio.ver = work[t].base)'
  <2>1. p \in Procs /\ pc'[t] = pc[t] /\ work'[t] = work[t]
    BY <1>0, <1>5
       DEF get_portfolio, PortfolioStart, PortfolioSave, PortfolioCommit, PortfolioFail,
           Finish, Goto, Procs
  <2>2. HoldsLock(t)
    BY <1>2, <2>1
  <2>3. ~PortfolioCommit(p)
    BY <1>0, <2>1, <2>2 DEF PortfolioCommit, OpLockExclusive, HoldsLock
  <2>4. portfolio' = portfolio
    BY <1>5, <2>3 DEF get_portfolio, PortfolioStart, PortfolioSave, PortfolioFail, session
  <2> QED
    BY <1>1, <2>1, <2>4
<1>6. ASSUME NEW r \in RefreshTasks,
             refresh_prices(r) \/ RefreshTask(r) \/ _do_enrich_session(r)
      PROVE  (portfolio = NULL \/ portfolio.ver = work[t].base)'
  <2>0. r \in Procs
    BY DEF Procs, Enrichers
  <2>1. CASE r # t
    <3>1. pc'[t] = pc[t] /\ work'[t] = work[t]
      BY <1>0, <1>6, <2>0, <2>1
         DEF refresh_prices, RefreshTask, RefreshAcquire, RefreshSkip, RefreshRelease,
             _do_enrich_session, EnrichFlag, EnrichRead, EnrichFail, EnrichTruncate, EnrichDump,
             EnrichCommit, EnrichSave, EnrichUnflag, Finish, Goto
    <3>2. ~EnrichCommit(r)
      BY <1>0, <1>2, <2>0, <2>1, <3>1 DEF EnrichCommit, OpLockExclusive, HoldsLock
    <3>3. portfolio' = portfolio
      BY <1>6, <3>2
         DEF refresh_prices, RefreshTask, RefreshAcquire, RefreshSkip, RefreshRelease,
             _do_enrich_session, EnrichFlag, EnrichRead, EnrichFail, EnrichTruncate, EnrichDump,
             EnrichSave, EnrichUnflag, session
    <3> QED
      BY <1>1, <3>1, <3>3
  <2>2. CASE r = t
    <3>1. CASE EnrichRead(t)
      BY <1>0, <3>1 DEF EnrichRead, session
    <3>2. CASE EnrichTruncate(t) \/ EnrichDump(t)
      BY <1>1, <3>2 DEF EnrichTruncate, EnrichDump, session
    <3> QED
      BY <1>0, <1>6, <2>2, <3>1, <3>2
         DEF refresh_prices, RefreshTask, RefreshAcquire, RefreshSkip, RefreshRelease,
             _do_enrich_session, EnrichFlag, EnrichFail, EnrichCommit, EnrichSave,
             EnrichUnflag, Finish, Goto
  <2> QED
    BY <2>1, <2>2
<1>7. ASSUME NEW s \in ManualSaves, save_snapshot_now(s)
      PROVE  (portfolio = NULL \/ portfolio.ver = work[t].base)'
  <2>1. pc'[t] = pc[t] /\ work'[t] = work[t] /\ portfolio' = portfolio
    BY <1>0, <1>7 DEF save_snapshot_now, ManualSaveRead, ManualSaveWrite, Finish, Goto,
                      session, Procs
  <2> QED
    BY <1>1, <2>1
<1>8. CASE Start \/ Die
  BY <1>0, <1>8 DEF Start, Die, procs
<1> QED
  BY <1>3, <1>4, <1>5, <1>6, <1>7, <1>8 DEF Next, Enrichers

(* Where no daily loop runs, a refresh never overwrites a portfolio it has *)
(* not read.                                                               *)
THEOREM RefreshNeverBuries ==
  ASSUME DailyLoops = {}
  PROVE  Spec => []RefreshCommitsOntoItsBase
<1>1. Init => TypeInv /\ OpLockExclusive /\ RefreshCommitsOntoItsBase
  <2>1. Init => RefreshCommitsOntoItsBase
    BY DEF Init, RefreshCommitsOntoItsBase
  <2> QED
    BY <2>1, InitTypeInv, InitLock
<1>2. TypeInv /\ OpLockExclusive /\ RefreshCommitsOntoItsBase /\ [Next]_vars
        => (TypeInv /\ OpLockExclusive /\ RefreshCommitsOntoItsBase)'
  BY StepTypeInv, StepLock, StepOntoBase
<1> QED
  BY <1>1, <1>2, PTL DEF Spec

-----------------------------------------------------------------------------
(* The stamp of the session *)

(* A process that has a result in hand.                                    *)
Computing(q) == pc[q] \in {"enrich", "record", "dump", "commit", "save"}

(* The planner's write through the shallow copy changes weights only.      *)
LEMMA PlanKeepsResults ==
  ASSUME TypeInv, get_rebalance_plan, NEW q \in Procs, Computing(q)
  PROVE  /\ work'[q].result.owner = work[q].result.owner
         /\ work'[q].result.ver = work[q].result.ver
         /\ work'[q].result.by = work[q].result.by
         /\ work'[q].result.day = work[q].result.day
<1>1. CASE work'[q] = work[q]
  BY <1>1
<1>2. CASE work'[q] # work[q]
  <2>1. work'[q] = [work[q] EXCEPT !.result.weights = "override"]
    BY <1>2 DEF get_rebalance_plan
  <2>2. work[q] \in [base: Versions \cup {NULL}, result: Portfolio]
    BY DEF TypeInv, WorkReady, Computing, Work
  <2> QED
    BY <2>1, <2>2 DEF Portfolio
<1> QED
  BY <1>1, <1>2

(* Nothing was computed on a day still to come, nor is the newest file     *)
(* named after a day before its data were read.                            *)
Dated ==
    /\ disk_date <= today
    /\ disk # NULL => disk.day <= disk_date
    /\ portfolio # NULL => portfolio.day <= today
    /\ \A q \in Procs : Computing(q) => work[q].result.day <= today

StampInv == Dated /\ PortfolioStamped

LEMMA FinishDated ==
  ASSUME TypeInv, Dated, NEW p \in Procs, Finish(p), today' = today
  PROVE  \A q \in Procs : Computing(q)' => work'[q].result.day <= today'
<1>1. pc'[p] = "idle" /\ \A q \in Procs : q # p => pc'[q] = pc[q] /\ work'[q] = work[q]
  BY FinishType
<1> QED
  BY <1>1 DEF Dated, Computing

LEMMA GotoDated ==
  ASSUME TypeInv, Dated, NEW p \in Procs, NEW site, Goto(p, site),
         site \in {"enrich", "record", "dump", "commit", "save"} => Computing(p),
         UNCHANGED <<today, work>>
  PROVE  \A q \in Procs : Computing(q)' => work'[q].result.day <= today'
  BY DEF Goto, TypeInv, TypeOK, Dated, Computing

LEMMA SaveDated ==
  ASSUME TypeInv, Dated, NEW result \in Portfolio, _save_snapshot_for_portfolio(result),
         today' = today
  PROVE  disk_date' <= today' /\ (disk' # NULL => disk'.day <= disk_date')
  BY BoundsAssumption DEF _save_snapshot_for_portfolio, Dated, TypeInv, TypeOK, Portfolio, Days

(* What is put into the session now is not stamped before its day.         *)
LEMMA NowStamps ==
  ASSUME TypeInv, Dated, NEW q \in Procs, Computing(q)
  PROVE  LET stamp == Now(work[q].result.ver) IN
           /\ stamp # NULL
           /\ stamp.ver = work[q].result.ver
           /\ stamp.day >= work[q].result.day
<1>1. /\ work[q].result.ver \in Versions /\ work[q].result.day \in Nat /\ today \in Nat
      /\ work[q].result.day <= today
  BY BoundsAssumption
     DEF TypeInv, TypeOK, WorkReady, Computing, Work, Portfolio, Days, Dated
<1>2. Now(work[q].result.ver) \in Stamp
  BY <1>1, NowType DEF TypeInv
<1> QED
  BY <1>1, <1>2, NullAssumption DEF Now

LEMMA StepStamped == TypeInv /\ StampInv /\ [Next]_vars => StampInv'
<1> SUFFICES ASSUME TypeInv, Dated, PortfolioStamped, [Next]_vars
             PROVE  StampInv'
    BY DEF StampInv
<1>0. /\ pc \in [Procs -> Sites] /\ work \in [Procs -> Work \cup {NULL}]
      /\ today \in Nat /\ disk_date \in Nat
      /\ disk # NULL => disk \in Portfolio /\ disk.day \in Nat
      /\ portfolio # NULL => portfolio \in Portfolio /\ portfolio.day \in Nat
      /\ \A q \in Procs : Computing(q) =>
            work[q].result \in Portfolio /\ work[q].result.day \in Nat
  BY BoundsAssumption DEF TypeInv, TypeOK, WorkReady, Computing, Work, Portfolio, Days
<1>1. ASSUME portfolio' = NULL \/ (portfolio' = portfolio /\ last_enriched_at' = last_enriched_at),
             disk_date' <= today', disk' # NULL => disk'.day <= disk_date',
             \A q \in Procs : Computing(q)' => work'[q].result.day <= today',
             today' = today
      PROVE  StampInv'
  BY <1>1 DEF StampInv, Dated, PortfolioStamped
<1>2. CASE Login \/ Logout \/ SessionExpires \/ Shutdown \/ Die \/ UNCHANGED vars
  <2>1. /\ portfolio' = NULL \/ (portfolio' = portfolio /\ last_enriched_at' = last_enriched_at)
        /\ UNCHANGED <<disk, disk_date, today>>
        /\ UNCHANGED <<pc, work>> \/ \A q \in Procs : pc'[q] = "idle"
    BY <1>2
       DEF Login, Logout, SessionExpires, Shutdown, Die, _clear_session, vars, session, procs,
           store, env
  <2> QED
    BY <1>1, <2>1 DEF Dated, Computing
<1>3. CASE Midnight
  <2>1. today' = today + 1 /\ UNCHANGED <<portfolio, last_enriched_at, disk, disk_date, pc, work>>
    BY <1>3 DEF Midnight, session, procs, store
  <2>2. \A d \in Nat : d <= today => d <= today'
    BY <1>0, <2>1
  <2> QED
    BY <1>0, <2>1, <2>2 DEF StampInv, Dated, PortfolioStamped, Computing
<1>4. ASSUME NEW p \in PortfolioReqs, get_portfolio(p)
      PROVE  StampInv'
  <2>0. p \in Procs
    BY DEF Procs
  <2>1. CASE PortfolioStart(p)
    <3>1. /\ UNCHANGED <<portfolio, last_enriched_at, disk, disk_date, today>>
          /\ work' = [work EXCEPT ![p] = [base |-> NULL,
                                         result |-> Computed(trading_api, "fetch")]]
          /\ Goto(p, "enrich")
      BY <2>1 DEF PortfolioStart, session, store
    <3>2. work'[p].result.day = today
      BY <1>0, <2>0, <3>1 DEF Computed
    <3>3. \A q \in Procs : q # p => work'[q] = work[q] /\ pc'[q] = pc[q]
      BY <1>0, <2>0, <3>1 DEF Goto
    <3> QED
      BY <1>0, <1>1, <3>1, <3>2, <3>3 DEF Dated, Computing
  <2>2. CASE PortfolioSave(p)
    <3>1. /\ UNCHANGED <<portfolio, last_enriched_at, today, work>> /\ Computing(p)
          /\ Goto(p, "commit") /\ _save_snapshot_for_portfolio(work[p].result)
      BY <2>2 DEF PortfolioSave, session, env, Computing
    <3> QED
      BY <1>0, <1>1, <2>0, <3>1, GotoDated, SaveDated
  <2>3. CASE PortfolioCommit(p)
    <3>1. /\ portfolio' = work[p].result /\ last_enriched_at' = Now(work[p].result.ver)
          /\ UNCHANGED <<disk, disk_date, today>> /\ Computing(p) /\ Finish(p)
      BY <2>3 DEF PortfolioCommit, store, env, Computing
    <3>2. work[p].result.day <= today
      BY <2>0, <3>1 DEF Dated
    <3>3. /\ Now(work[p].result.ver) # NULL /\ Now(work[p].result.ver).ver = work[p].result.ver
          /\ Now(work[p].result.ver).day >= work[p].result.day
      BY <2>0, <3>1, NowStamps
    <3> QED
      BY <2>0, <3>1, <3>2, <3>3, FinishDated DEF StampInv, Dated, PortfolioStamped
  <2>4. CASE PortfolioFail(p)
    BY <1>1, <2>0, <2>4, FinishDated DEF PortfolioFail, Dated, session, store, env
  <2> QED
    BY <1>4, <2>1, <2>2, <2>3, <2>4 DEF get_portfolio
<1>5. ASSUME NEW q \in Enrichers,
             \/ refresh_prices(q) \/ RefreshTask(q)
             \/ _daily_enrichment_loop(q) \/ _daily_eod_loop(q) \/ DailySleep(q)
      PROVE  StampInv'
  <2>0. q \in Procs
    BY DEF Procs
  <2>1. /\ UNCHANGED <<portfolio, last_enriched_at, disk, disk_date, today>>
        /\ Finish(q) \/ \E site \in {"scheduled", "flag", "idle"} :
                           Goto(q, site) /\ UNCHANGED work
    BY <1>5
       DEF refresh_prices, RefreshTask, RefreshAcquire, RefreshSkip, RefreshRelease,
           _daily_enrichment_loop, _daily_eod_loop, DailySleep, session, store, env
  <2>2. \A r \in Procs : Computing(r)' => work'[r].result.day <= today'
    BY <2>0, <2>1, FinishDated, GotoDated
  <2> QED
    BY <1>1, <2>1, <2>2 DEF Dated
<1>6. ASSUME NEW e \in Enrichers, _do_enrich_session(e)
      PROVE  StampInv'
  <2>0. e \in Procs
    BY DEF Procs
  <2>1. CASE EnrichRead(e)
    <3>1. /\ UNCHANGED <<portfolio, last_enriched_at, disk, disk_date, today>>
          /\ work' = [work EXCEPT ![e] = [base |-> portfolio.ver,
                                         result |-> Computed(portfolio.owner, "refresh")]]
          /\ Goto(e, "record")
      BY <2>1 DEF EnrichRead, session, store
    <3>2. work'[e].result.day = today
      BY <1>0, <2>0, <3>1 DEF Computed
    <3>3. \A q \in Procs : q # e => work'[q] = work[q] /\ pc'[q] = pc[q]
      BY <1>0, <2>0, <3>1 DEF Goto
    <3> QED
      BY <1>0, <1>1, <3>1, <3>2, <3>3 DEF Dated, Computing
  <2>2. CASE EnrichCommit(e)
    <3>1. /\ portfolio' = work[e].result /\ last_enriched_at' = Now(work[e].result.ver)
          /\ UNCHANGED <<disk, disk_date, today, work>> /\ Computing(e) /\ Goto(e, "save")
      BY <2>2 DEF EnrichCommit, store, env, Computing
    <3>2. work[e].result.day <= today
      BY <2>0, <3>1 DEF Dated
    <3>3. /\ Now(work[e].result.ver) # NULL /\ Now(work[e].result.ver).ver = work[e].result.ver
          /\ Now(work[e].result.ver).day >= work[e].result.day
      BY <2>0, <3>1, NowStamps
    <3> QED
      BY <2>0, <3>1, <3>2, <3>3, GotoDated DEF StampInv, Dated, PortfolioStamped
  <2>3. CASE EnrichSave(e)
    <3>1. /\ UNCHANGED <<portfolio, last_enriched_at, today, work>> /\ Computing(e)
          /\ Goto(e, "unflag") /\ _save_snapshot_for_portfolio(work[e].result)
      BY <2>3 DEF EnrichSave, session, env, Computing
    <3> QED
      BY <1>0, <1>1, <2>0, <3>1, GotoDated, SaveDated
  <2>4. CASE ~(EnrichRead(e) \/ EnrichCommit(e) \/ EnrichSave(e))
    <3>1. /\ UNCHANGED <<portfolio, last_enriched_at, disk, disk_date, today, work>>
          /\ \/ Goto(e, "read") \/ Goto(e, "unflag") \/ Goto(e, "done")
             \/ Computing(e) /\ (Goto(e, "dump") \/ Goto(e, "commit"))
      BY <1>6, <2>4
         DEF _do_enrich_session, EnrichFlag, EnrichFail, EnrichTruncate, EnrichDump, EnrichUnflag,
             session, store, env, Computing
    <3>2. \A r \in Procs : Computing(r)' => work'[r].result.day <= today'
      BY <2>0, <3>1, GotoDated
    <3> QED
      BY <1>1, <3>1, <3>2 DEF Dated
  <2> QED
    BY <2>1, <2>2, <2>3, <2>4
<1>7. CASE get_rebalance_plan
  <2>1. /\ portfolio # NULL /\ UNCHANGED <<last_enriched_at, disk, disk_date, today, pc>>
        /\ portfolio' = [portfolio EXCEPT !.weights = "override"]
    BY <1>7 DEF get_rebalance_plan, store, env
  <2>2. portfolio'.ver = portfolio.ver /\ portfolio'.day = portfolio.day
    BY <1>0, <2>1 DEF Portfolio
  <2>3. \A q \in Procs : Computing(q) => work'[q].result.day = work[q].result.day
    BY <1>7, PlanKeepsResults
  <2> QED
    BY <2>1, <2>2, <2>3 DEF StampInv, Dated, PortfolioStamped, Computing
<1>8. ASSUME NEW s \in ManualSaves, save_snapshot_now(s)
      PROVE  StampInv'
  <2>0. s \in Procs
    BY DEF Procs
  <2>1. CASE ManualSaveRead(s)
    <3>1. /\ UNCHANGED <<portfolio, last_enriched_at, disk, disk_date, today>>
          /\ work' = [work EXCEPT ![s] = [base |-> NULL, result |-> portfolio]]
          /\ Goto(s, "save") /\ portfolio # NULL
      BY <2>1 DEF ManualSaveRead, session, store, env
    <3>2. work'[s].result = portfolio
      BY <1>0, <2>0, <3>1
    <3>3. \A q \in Procs : q # s => work'[q] = work[q] /\ pc'[q] = pc[q]
      BY <1>0, <2>0, <3>1 DEF Goto
    <3> QED
      BY <1>1, <3>1, <3>2, <3>3 DEF Dated, Computing
  <2>2. CASE ManualSaveWrite(s)
    <3>1. /\ UNCHANGED <<portfolio, last_enriched_at, today>> /\ Computing(s)
          /\ Finish(s) /\ _save_snapshot_for_portfolio(work[s].result)
      BY <2>2 DEF ManualSaveWrite, session, env, Computing
    <3> QED
      BY <1>0, <1>1, <2>0, <3>1, FinishDated, SaveDated
  <2> QED
    BY <1>8, <2>1, <2>2 DEF save_snapshot_now
<1>9. CASE Start
  <2>1. /\ UNCHANGED <<disk, disk_date, today, pc, work>>
        /\ portfolio' = IF disk = NULL THEN NULL ELSE [disk EXCEPT !.weights = "own"]
        /\ last_enriched_at' = IF disk = NULL THEN NULL ELSE [ver |-> NULL, day |-> disk_date]
    BY <1>9 DEF Start, procs, store
  <2>2. CASE disk = NULL
    BY <1>1, <2>1, <2>2 DEF Dated, Computing
  <2>3. CASE disk # NULL
    <3>1. portfolio'.day = disk.day /\ disk.day <= disk_date
      BY <1>0, <2>1, <2>3 DEF Portfolio, Dated
    <3>2. /\ last_enriched_at'.ver = NULL /\ last_enriched_at'.day = disk_date
          /\ last_enriched_at' \in Stamp
      BY <2>1, <2>3 DEF Stamp, TypeInv, TypeOK
    <3>3. last_enriched_at'.day >= portfolio'.day
      BY <1>0, <2>3, <3>1, <3>2
    <3>4. disk_date <= today
      BY DEF Dated
    <3>5. portfolio'.day <= today'
      BY <1>0, <2>1, <2>3, <3>1, <3>4
    <3> QED
      BY <2>1, <3>2, <3>3, <3>5, NullAssumption DEF StampInv, Dated, PortfolioStamped, Computing
  <2> QED
    BY <2>2, <2>3
<1> QED
  BY <1>2, <1>3, <1>4, <1>5, <1>6, <1>7, <1>8, <1>9 DEF Next, Enrichers

(* The session never shows a portfolio under the time of another one, nor  *)
(* as of a day before its data were read, whatever overlaps, fails or is   *)
(* restored.                                                               *)
THEOREM StampIsThePortfolios == Spec => []PortfolioStamped
<1>1. Init => TypeInv /\ StampInv
  <2>1. Init => Dated
    BY DEF Init, Dated, Computing, Seed
  <2> QED
    BY <2>1, InitTypeInv DEF Init, StampInv, PortfolioStamped
<1>2. TypeInv /\ StampInv /\ [Next]_vars => (TypeInv /\ StampInv)'
  BY StepTypeInv, StepStamped
<1>3. StampInv => PortfolioStamped
  BY DEF StampInv
<1> QED
  BY <1>1, <1>2, <1>3, PTL DEF Spec

-----------------------------------------------------------------------------
(* The single-use token *)

(* Everything in memory and on disk comes from a login that has happened;  *)
(* a stopped process has no token.                                         *)
OwnersIssued ==
    /\ ~up => trading_api = NULL
    /\ trading_api # NULL => trading_api <= logins
    /\ \A held \in {portfolio, disk} \ {NULL} : held.owner <= logins
    /\ \A q \in Procs : Computing(q) => work[q].result.owner <= logins

(* The token kept, and the one in use, are of later logins than owner.     *)
OlderThanTokens(owner) ==
    /\ trading_api # NULL => owner < trading_api
    /\ \A p \in PortfolioReqs : HoldsLock(p) => owner < work[p].result.owner

(* So a refresh that is about to publish may do so at any time.            *)
RefreshesOlder ==
    \A e \in Enrichers :
        pc[e] \in {"record", "dump", "commit"} => OlderThanTokens(work[e].result.owner)

TokenInv == TypeInv /\ OpLockExclusive /\ OwnersIssued /\ RefreshesOlder /\ TokenYieldsOnce

LEMMA TokenIsOlder ==
  TokenYieldsOnce <=> (portfolio # NULL => OlderThanTokens(portfolio.owner))
  BY DEF TokenYieldsOnce, OlderThanTokens

LEMMA FinishIssued ==
  ASSUME TypeInv, OwnersIssued, NEW p \in Procs, Finish(p), logins' = logins
  PROVE  \A q \in Procs : Computing(q)' => work'[q].result.owner <= logins'
<1>1. pc'[p] = "idle" /\ \A q \in Procs : q # p => pc'[q] = pc[q] /\ work'[q] = work[q]
  BY FinishType
<1> QED
  BY <1>1 DEF OwnersIssued, Computing

(* A step of one process that computes nothing new.                        *)
LEMMA GotoIssued ==
  ASSUME TypeInv, OwnersIssued, NEW p \in Procs, NEW site, Goto(p, site),
         site \in {"enrich", "record", "dump", "commit", "save"} => Computing(p),
         UNCHANGED <<logins, work>>
  PROVE  \A q \in Procs : Computing(q)' => work'[q].result.owner <= logins'
  BY DEF Goto, TypeInv, TypeOK, OwnersIssued, Computing

LEMMA StepIssued == TypeInv /\ OwnersIssued /\ [Next]_vars => OwnersIssued'
<1> SUFFICES ASSUME TypeInv, OwnersIssued, [Next]_vars
             PROVE  OwnersIssued'
    OBVIOUS
<1>0. /\ pc \in [Procs -> Sites] /\ work \in [Procs -> Work \cup {NULL}]
      /\ logins \in 0..MaxLogins
  BY DEF TypeInv, TypeOK
<1>1. CASE Login
  <2>1. /\ logins' = logins + 1 /\ trading_api' = logins' /\ portfolio' = NULL
        /\ up /\ UNCHANGED <<up, work, disk>>
    BY <1>1 DEF Login, LoopFree, procs, store
  <2>2. \A held \in {disk} \ {NULL} : held.owner \in Owners
    BY DEF TypeInv, TypeOK, Portfolio
  <2>3. \A q \in Procs : Computing(q) => work[q].result.owner \in Owners
    BY DEF TypeInv, WorkReady, Computing, Work, Portfolio
  <2>4. \A q \in Procs : Computing(q)' <=> Computing(q)
    BY <1>1 DEF Login, procs, Computing
  <2> QED
    BY <1>0, <2>1, <2>2, <2>3, <2>4, BoundsAssumption DEF OwnersIssued, Owners
<1>2. CASE Logout \/ SessionExpires \/ Shutdown \/ Midnight \/ UNCHANGED vars
  BY <1>2 DEF Logout, SessionExpires, Shutdown, Midnight, _clear_session, vars, session, procs, store, env,
              OwnersIssued, Computing
<1>3. ASSUME NEW p \in PortfolioReqs, get_portfolio(p)
      PROVE  OwnersIssued'
  <2>0. p \in Procs
    BY DEF Procs
  <2>1. CASE PortfolioStart(p)
    <3>1. /\ work' = [work EXCEPT ![p] = [base |-> NULL,
                                         result |-> Computed(trading_api, "fetch")]]
          /\ UNCHANGED <<up, logins, trading_api, portfolio, disk>>
          /\ trading_api # NULL /\ Goto(p, "enrich")
      BY <2>1 DEF PortfolioStart, _is_session_valid, session, store
    <3>2. work'[p].result.owner = trading_api
      BY <1>0, <2>0, <3>1 DEF Computed
    <3>3. \A q \in Procs : q # p => work'[q] = work[q] /\ pc'[q] = pc[q]
      BY <1>0, <2>0, <3>1 DEF Goto
    <3> QED
      BY <3>1, <3>2, <3>3 DEF OwnersIssued, Computing
  <2>2. CASE PortfolioSave(p)
    <3>1. Computing(p) /\ UNCHANGED <<up, logins, trading_api, portfolio, work>>
      BY <2>2 DEF PortfolioSave, session, env, Computing
    <3> QED
      BY <2>0, <2>2, <3>1, GotoIssued, SaveKeeps DEF PortfolioSave, OwnersIssued
  <2>3. CASE PortfolioCommit(p)
    <3>1. Computing(p)
      BY <2>3 DEF PortfolioCommit, Computing
    <3> QED
      BY <2>0, <2>3, <3>1, FinishIssued DEF PortfolioCommit, OwnersIssued, store, env
  <2>4. CASE PortfolioFail(p)
    BY <2>0, <2>4, FinishIssued DEF PortfolioFail, OwnersIssued, session, store, env
  <2> QED
    BY <1>3, <2>1, <2>2, <2>3, <2>4 DEF get_portfolio
<1>4. ASSUME NEW q \in Enrichers,
             \/ refresh_prices(q) \/ RefreshTask(q)
             \/ _daily_enrichment_loop(q) \/ _daily_eod_loop(q) \/ DailySleep(q)
      PROVE  OwnersIssued'
  <2>0. q \in Procs
    BY DEF Procs
  <2>1. CASE RefreshRelease(q) \/ DailySleep(q)
    BY <2>0, <2>1, FinishIssued DEF RefreshRelease, DailySleep, OwnersIssued, session, store, env
  <2>2. CASE ~(RefreshRelease(q) \/ DailySleep(q))
    <3>1. UNCHANGED <<up, logins, trading_api, portfolio, disk, work>>
      BY <1>4, <2>2
         DEF refresh_prices, RefreshTask, RefreshAcquire, RefreshSkip,
             _daily_enrichment_loop, _daily_eod_loop, session, store, env
    <3>2. Goto(q, "scheduled") \/ Goto(q, "flag") \/ Goto(q, "idle")
      BY <1>4, <2>2
         DEF refresh_prices, RefreshTask, RefreshAcquire, RefreshSkip,
             _daily_enrichment_loop, _daily_eod_loop
    <3>3. \A r \in Procs : Computing(r)' => work'[r].result.owner <= logins'
      BY <2>0, <3>1, <3>2, GotoIssued
    <3> QED
      BY <3>1, <3>3 DEF OwnersIssued
  <2> QED
    BY <2>1, <2>2
<1>5. ASSUME NEW e \in Enrichers, _do_enrich_session(e)
      PROVE  OwnersIssued'
  <2>0. e \in Procs
    BY DEF Procs
  <2>1. CASE EnrichRead(e)
    <3>1. /\ work' = [work EXCEPT ![e] = [base |-> portfolio.ver,
                                         result |-> Computed(portfolio.owner, "refresh")]]
          /\ UNCHANGED <<up, logins, trading_api, portfolio, disk>>
          /\ portfolio # NULL /\ Goto(e, "record")
      BY <2>1 DEF EnrichRead, session, store
    <3>2. work'[e].result.owner = portfolio.owner
      BY <1>0, <2>0, <3>1 DEF Computed
    <3>3. \A q \in Procs : q # e => work'[q] = work[q] /\ pc'[q] = pc[q]
      BY <1>0, <2>0, <3>1 DEF Goto
    <3> QED
      BY <3>1, <3>2, <3>3 DEF OwnersIssued, Computing
  <2>2. CASE EnrichCommit(e) \/ EnrichSave(e)
    <3>1. Computing(e) /\ UNCHANGED <<up, logins, trading_api, work>>
          /\ (Goto(e, "save") \/ Goto(e, "unflag"))
      BY <2>2 DEF EnrichCommit, EnrichSave, session, env, Computing
    <3>2. \A held \in {portfolio', disk'} :
             held \in {portfolio, disk, work[e].result}
      BY <2>2, SaveKeeps DEF EnrichCommit, EnrichSave, session, store
    <3>3. \A r \in Procs : Computing(r)' => work'[r].result.owner <= logins'
      BY <2>0, <3>1, GotoIssued
    <3> QED
      BY <2>0, <3>1, <3>2, <3>3 DEF OwnersIssued
  <2>3. CASE ~(EnrichRead(e) \/ EnrichCommit(e) \/ EnrichSave(e))
    <3>1. UNCHANGED <<up, logins, trading_api, portfolio, disk, work>>
      BY <1>5, <2>3
         DEF _do_enrich_session, EnrichFlag, EnrichFail, EnrichTruncate, EnrichDump, EnrichUnflag,
             session, store, env
    <3>2. \/ Goto(e, "read") \/ Goto(e, "unflag") \/ Goto(e, "done")
          \/ (Goto(e, "commit") \/ Goto(e, "dump")) /\ Computing(e)
      BY <1>5, <2>3
         DEF _do_enrich_session, EnrichFlag, EnrichFail, EnrichTruncate, EnrichDump, EnrichUnflag, Computing
    <3>3. \A r \in Procs : Computing(r)' => work'[r].result.owner <= logins'
      BY <2>0, <3>1, <3>2, GotoIssued
    <3> QED
      BY <3>1, <3>3 DEF OwnersIssued
  <2> QED
    BY <2>1, <2>2, <2>3
<1>6. CASE get_rebalance_plan
  <2>1. /\ portfolio # NULL /\ portfolio' = [portfolio EXCEPT !.weights = "override"]
        /\ portfolio \in Portfolio /\ UNCHANGED <<up, logins, trading_api, disk>>
    BY <1>6 DEF get_rebalance_plan, TypeInv, TypeOK, store, env
  <2>2. portfolio'.owner = portfolio.owner
    BY <2>1 DEF Portfolio
  <2>3. \A q \in Procs : Computing(q)' =>
           Computing(q) /\ work'[q].result.owner = work[q].result.owner
    BY <1>6, PlanKeepsResults DEF get_rebalance_plan, Computing
  <2> QED
    BY <2>1, <2>2, <2>3 DEF OwnersIssued
<1>7. ASSUME NEW s \in ManualSaves, save_snapshot_now(s)
      PROVE  OwnersIssued'
  <2>0. s \in Procs
    BY DEF Procs
  <2>1. CASE ManualSaveRead(s)
    <3>1. /\ work' = [work EXCEPT ![s] = [base |-> NULL, result |-> portfolio]]
          /\ UNCHANGED <<up, logins, trading_api, portfolio, disk>>
          /\ portfolio # NULL /\ Goto(s, "save")
      BY <2>1 DEF ManualSaveRead, session, store, env
    <3>2. work'[s].result = portfolio
      BY <1>0, <2>0, <3>1
    <3>3. \A q \in Procs : q # s => work'[q] = work[q] /\ pc'[q] = pc[q]
      BY <1>0, <2>0, <3>1 DEF Goto
    <3> QED
      BY <3>1, <3>2, <3>3 DEF OwnersIssued, Computing
  <2>2. CASE ManualSaveWrite(s)
    <3>1. Computing(s)
      BY <2>2 DEF ManualSaveWrite, Computing
    <3> QED
      BY <2>0, <2>2, <3>1, FinishIssued, SaveKeeps DEF ManualSaveWrite, OwnersIssued, session, env
  <2> QED
    BY <1>7, <2>1, <2>2 DEF save_snapshot_now
<1>8. CASE Start
  <2>1. /\ UNCHANGED <<trading_api, logins, disk, work>> /\ trading_api = NULL
        /\ portfolio' = IF disk = NULL THEN NULL ELSE [disk EXCEPT !.weights = "own"]
    BY <1>8 DEF Start, OwnersIssued, procs, store
  <2>2. disk # NULL => [disk EXCEPT !.weights = "own"].owner = disk.owner
    BY DEF TypeInv, TypeOK, Portfolio
  <2> QED
    BY <1>8, <2>1, <2>2 DEF Start, procs, OwnersIssued, Computing
<1>9. CASE Die
  BY <1>9 DEF Die, _clear_session, OwnersIssued, Computing, store
<1> QED
  BY <1>1, <1>2, <1>3, <1>4, <1>5, <1>6, <1>7, <1>8, <1>9 DEF Next, Enrichers

(* An owner once older than every token in use stays so: a login brings a  *)
(* later token, a request takes the token there is.                        *)
LEMMA StaysOlder ==
  ASSUME TypeInv, OwnersIssued, [Next]_vars,
         NEW o \in Owners, o <= logins, OlderThanTokens(o)
  PROVE  /\ trading_api' # NULL => o < trading_api'
         /\ \A p \in PortfolioReqs : HoldsLock(p)' => o < work'[p].result.owner
<1>0. /\ pc \in [Procs -> Sites] /\ work \in [Procs -> Work \cup {NULL}]
      /\ PortfolioReqs \subseteq Procs
      /\ \A p \in PortfolioReqs : p \notin RefreshTasks
  BY ProcsAssumption DEF TypeInv, TypeOK, Procs, Enrichers
<1>1. ASSUME trading_api' \in {trading_api, NULL},
             \A p \in PortfolioReqs : HoldsLock(p)' =>
                HoldsLock(p) /\ work'[p].result.owner = work[p].result.owner
      PROVE  /\ trading_api' # NULL => o < trading_api'
             /\ \A p \in PortfolioReqs : HoldsLock(p)' => o < work'[p].result.owner
  BY <1>1 DEF OlderThanTokens
<1>2. CASE Login
  <2>1. trading_api' = logins + 1 /\ UNCHANGED <<pc, work>>
    BY <1>2 DEF Login, procs
  <2>2. o < trading_api'
    BY <2>1, BoundsAssumption DEF TypeInv, TypeOK, Owners
  <2> QED
    BY <2>1, <2>2 DEF OlderThanTokens, HoldsLock
<1>3. CASE Logout \/ SessionExpires \/ Start \/ Shutdown \/ Midnight \/ UNCHANGED vars
  <2>1. trading_api' \in {trading_api, NULL} /\ UNCHANGED <<pc, work>>
    BY <1>3 DEF Logout, SessionExpires, Start, Shutdown, Midnight, _clear_session, vars, session, procs
  <2> QED
    BY <1>1, <2>1 DEF HoldsLock
<1>4. ASSUME NEW r \in PortfolioReqs, get_portfolio(r)
      PROVE  /\ trading_api' # NULL => o < trading_api'
             /\ \A p \in PortfolioReqs : HoldsLock(p)' => o < work'[p].result.owner
  <2>1. CASE PortfolioStart(r)
    <3>1. /\ trading_api # NULL /\ trading_api' = trading_api
          /\ work' = [work EXCEPT ![r] = [base |-> NULL,
                                         result |-> Computed(trading_api, "fetch")]]
          /\ Goto(r, "enrich")
      BY <2>1 DEF PortfolioStart, _is_session_valid, session
    <3>2. work'[r].result.owner = trading_api
      BY <1>0, <3>1 DEF Computed
    <3>3. \A p \in PortfolioReqs : p # r => work'[p] = work[p] /\ pc'[p] = pc[p]
      BY <1>0, <3>1 DEF Goto
    <3> QED
      BY <3>1, <3>2, <3>3 DEF OlderThanTokens, HoldsLock
  <2>2. CASE PortfolioSave(r)
    <3>1. /\ UNCHANGED <<trading_api, work>> /\ Goto(r, "commit") /\ HoldsLock(r)
      BY <2>2 DEF PortfolioSave, session, HoldsLock
    <3>2. \A p \in PortfolioReqs : p # r => pc'[p] = pc[p]
      BY <1>0, <3>1 DEF Goto
    <3> QED
      BY <1>1, <3>1, <3>2 DEF HoldsLock
  <2>3. CASE PortfolioCommit(r) \/ PortfolioFail(r)
    <3>1. trading_api' \in {trading_api, NULL} /\ Finish(r)
      BY <2>3 DEF PortfolioCommit, PortfolioFail, session
    <3>2. /\ pc'[r] = "idle"
          /\ \A p \in PortfolioReqs : p # r => work'[p] = work[p] /\ pc'[p] = pc[p]
      BY <1>0, <3>1, FinishType
    <3> QED
      BY <1>0, <1>1, <3>1, <3>2 DEF HoldsLock
  <2> QED
    BY <1>4, <2>1, <2>2, <2>3 DEF get_portfolio
<1>5. ASSUME NEW q \in Enrichers \cup ManualSaves,
             \/ refresh_prices(q) \/ RefreshTask(q)
             \/ _daily_enrichment_loop(q) \/ _daily_eod_loop(q) \/ DailySleep(q)
             \/ _do_enrich_session(q) \/ save_snapshot_now(q)
      PROVE  /\ trading_api' # NULL => o < trading_api'
             /\ \A p \in PortfolioReqs : HoldsLock(p)' => o < work'[p].result.owner
  <2>1. q \in Procs /\ q \notin PortfolioReqs
    BY ProcsAssumption DEF Procs
  <2>2. trading_api' = trading_api
    BY <1>5
       DEF refresh_prices, RefreshTask, RefreshAcquire, RefreshSkip, RefreshRelease,
           _daily_enrichment_loop, _daily_eod_loop, DailySleep, _do_enrich_session,
           EnrichFlag, EnrichRead, EnrichFail, EnrichTruncate, EnrichDump, EnrichCommit, EnrichSave,
           EnrichUnflag, save_snapshot_now, ManualSaveRead, ManualSaveWrite, session
  <2>3. \A p \in PortfolioReqs : work'[p] = work[p] /\ pc'[p] = pc[p]
    BY <1>0, <1>5, <2>1
       DEF refresh_prices, RefreshTask, RefreshAcquire, RefreshSkip, RefreshRelease,
           _daily_enrichment_loop, _daily_eod_loop, DailySleep, _do_enrich_session,
           EnrichFlag, EnrichRead, EnrichFail, EnrichTruncate, EnrichDump, EnrichCommit, EnrichSave,
           EnrichUnflag, save_snapshot_now, ManualSaveRead, ManualSaveWrite, Finish, Goto
  <2> QED
    BY <1>1, <2>2, <2>3 DEF HoldsLock
<1>6. CASE get_rebalance_plan
  <2>1. trading_api' = trading_api /\ pc' = pc
    BY <1>6 DEF get_rebalance_plan
  <2>2. \A p \in PortfolioReqs : HoldsLock(p) => Computing(p)
    BY <1>0 DEF HoldsLock, Computing
  <2>3. \A p \in PortfolioReqs : HoldsLock(p) =>
           work'[p].result.owner = work[p].result.owner
    BY <1>0, <1>6, <2>2, PlanKeepsResults
  <2> QED
    BY <1>1, <2>1, <2>3 DEF HoldsLock
<1>7. CASE Die
  BY <1>0, <1>7 DEF Die, _clear_session, HoldsLock
<1> QED
  BY <1>2, <1>3, <1>4, <1>5, <1>6, <1>7 DEF Next, Enrichers

LEMMA StepOlder ==
  TokenInv /\ [Next]_vars => RefreshesOlder'
<1> SUFFICES ASSUME TokenInv, [Next]_vars,
                    NEW e \in Enrichers, pc'[e] \in {"record", "dump", "commit"}
             PROVE  OlderThanTokens(work[e].result.owner)'
    BY DEF RefreshesOlder
<1>0. /\ TypeInv /\ OwnersIssued
      /\ pc \in [Procs -> Sites] /\ work \in [Procs -> Work \cup {NULL}]
      /\ e \in Procs /\ e \notin PortfolioReqs /\ e \notin ManualSaves
  BY ProcsAssumption DEF TokenInv, TypeInv, TypeOK, Procs
<1>1. ASSUME NEW o \in Owners, o <= logins, OlderThanTokens(o), work'[e].result.owner = o
      PROVE  OlderThanTokens(work[e].result.owner)'
  BY <1>0, <1>1, StaysOlder DEF OlderThanTokens
<1>2. CASE pc[e] \in {"record", "dump", "commit"} /\ work'[e].result.owner = work[e].result.owner
  <2>1. /\ work[e].result.owner \in Owners /\ work[e].result.owner <= logins
        /\ OlderThanTokens(work[e].result.owner)
    BY <1>0, <1>2 DEF TokenInv, RefreshesOlder, OwnersIssued, Computing, TypeInv, WorkReady,
                      Work, Portfolio
  <2> QED
    BY <1>1, <1>2, <2>1
<1>3. CASE EnrichRead(e)
  <2>1. portfolio # NULL /\ portfolio \in Portfolio
    BY <1>3 DEF EnrichRead, TokenInv, TypeInv, TypeOK
  <2>2. /\ portfolio.owner \in Owners /\ portfolio.owner <= logins
        /\ OlderThanTokens(portfolio.owner)
    BY <1>0, <2>1, TokenIsOlder DEF TokenInv, OwnersIssued, Portfolio
  <2>3. work'[e].result.owner = portfolio.owner
    BY <1>0, <1>3 DEF EnrichRead, Computed
  <2> QED
    BY <1>1, <2>2, <2>3
<1>4. CASE get_rebalance_plan
  <2>1. pc[e] \in {"record", "dump", "commit"}
    BY <1>4 DEF get_rebalance_plan
  <2>2. Computing(e)
    BY <2>1 DEF Computing
  <2> QED
    BY <1>0, <1>2, <1>4, <2>1, <2>2, PlanKeepsResults
<1>5. CASE ~EnrichRead(e) /\ ~get_rebalance_plan
  <2>1. ASSUME UNCHANGED procs
        PROVE  pc[e] \in {"record", "dump", "commit"} /\ work'[e] = work[e]
    BY <2>1 DEF procs
  <2>2. CASE Login \/ Logout \/ SessionExpires \/ Start \/ Shutdown \/ Midnight \/ UNCHANGED vars
    BY <1>2, <2>1, <2>2 DEF Login, Logout, SessionExpires, Start, Shutdown, Midnight, vars
  <2>3. CASE Die
    BY <1>0, <2>3 DEF Die
  <2>4. ASSUME NEW q \in Procs, q # e,
               \/ get_portfolio(q) \/ refresh_prices(q) \/ RefreshTask(q)
               \/ _daily_enrichment_loop(q) \/ _daily_eod_loop(q) \/ DailySleep(q)
               \/ _do_enrich_session(q) \/ save_snapshot_now(q)
        PROVE  pc[e] \in {"record", "dump", "commit"} /\ work'[e] = work[e]
    BY <1>0, <2>4
       DEF get_portfolio, PortfolioStart, PortfolioSave, PortfolioCommit, PortfolioFail,
           refresh_prices, RefreshTask, RefreshAcquire, RefreshSkip, RefreshRelease,
           _daily_enrichment_loop, _daily_eod_loop, DailySleep, _do_enrich_session,
           EnrichFlag, EnrichRead, EnrichFail, EnrichTruncate, EnrichDump, EnrichCommit, EnrichSave,
           EnrichUnflag, save_snapshot_now, ManualSaveRead, ManualSaveWrite, Finish, Goto
  <2>5. CASE \/ refresh_prices(e) \/ RefreshTask(e)
             \/ _daily_enrichment_loop(e) \/ _daily_eod_loop(e) \/ DailySleep(e)
    BY <1>0, <2>5
       DEF refresh_prices, RefreshTask, RefreshAcquire, RefreshSkip, RefreshRelease,
           _daily_enrichment_loop, _daily_eod_loop, DailySleep, Finish, Goto
  <2>6. CASE _do_enrich_session(e)
    <3>1. EnrichTruncate(e) \/ EnrichDump(e)
      BY <1>0, <1>5, <2>6
         DEF _do_enrich_session, EnrichFlag, EnrichFail, EnrichCommit, EnrichSave,
             EnrichUnflag, Goto
    <3> QED
      BY <1>2, <3>1 DEF EnrichTruncate, EnrichDump
  <2> QED
    BY <1>0, <1>2, <1>5, <2>2, <2>3, <2>4, <2>5, <2>6 DEF Next, Procs, Enrichers
<1> QED
  BY <1>3, <1>4, <1>5

LEMMA StepTokenYields ==
  TokenInv /\ [Next]_vars => TokenYieldsOnce'
<1> SUFFICES ASSUME TokenInv, [Next]_vars, portfolio' # NULL
             PROVE  OlderThanTokens(portfolio.owner)'
    BY DEF TokenYieldsOnce, OlderThanTokens
<1>0. /\ TypeInv /\ OwnersIssued
      /\ pc \in [Procs -> Sites] /\ work \in [Procs -> Work \cup {NULL}]
      /\ PortfolioReqs \subseteq Procs /\ Enrichers \subseteq Procs
  BY DEF TokenInv, TypeInv, TypeOK, Procs
<1>1. ASSUME NEW o \in Owners, o <= logins, OlderThanTokens(o), portfolio'.owner = o
      PROVE  OlderThanTokens(portfolio.owner)'
  BY <1>0, <1>1, StaysOlder DEF OlderThanTokens
<1>2. CASE portfolio # NULL /\ portfolio'.owner = portfolio.owner
  <2>1. portfolio \in Portfolio
    BY <1>0, <1>2 DEF TypeInv, TypeOK
  <2>2. /\ portfolio.owner \in Owners /\ portfolio.owner <= logins
        /\ OlderThanTokens(portfolio.owner)
    BY <1>0, <1>2, <2>1, TokenIsOlder DEF TokenInv, OwnersIssued, Portfolio
  <2> QED
    BY <1>1, <1>2, <2>2
<1>3. ASSUME NEW e \in Enrichers, EnrichCommit(e)
      PROVE  OlderThanTokens(portfolio.owner)'
  <2>1. /\ work[e].result.owner \in Owners /\ work[e].result.owner <= logins
        /\ OlderThanTokens(work[e].result.owner)
    BY <1>0, <1>3 DEF EnrichCommit, TokenInv, RefreshesOlder, OwnersIssued, Computing,
                      TypeInv, WorkReady, Work, Portfolio
  <2> QED
    BY <1>1, <1>3, <2>1 DEF EnrichCommit
<1>4. ASSUME NEW p \in PortfolioReqs, PortfolioCommit(p)
      PROVE  OlderThanTokens(portfolio.owner)'
  <2>1. trading_api' = NULL /\ Finish(p) /\ HoldsLock(p)
    BY <1>4 DEF PortfolioCommit, HoldsLock
  <2>2. /\ pc'[p] = "idle"
        /\ \A q \in PortfolioReqs : q # p => pc'[q] = pc[q]
    BY <1>0, <2>1, FinishType
  <2>3. \A q \in PortfolioReqs : q # p => ~HoldsLock(q)
    BY <1>0, <2>1 DEF TokenInv, OpLockExclusive
  <2>4. \A q \in PortfolioReqs : ~HoldsLock(q)'
    BY <1>0, <2>2, <2>3, ProcsAssumption DEF HoldsLock, Enrichers
  <2> QED
    BY <2>1, <2>4 DEF OlderThanTokens
<1>5. CASE Start
  <2>1. trading_api' = NULL /\ \A q \in PortfolioReqs : pc'[q] = "idle"
    BY <1>0, <1>5 DEF Start, OwnersIssued, procs
  <2> QED
    BY <2>1, ProcsAssumption DEF OlderThanTokens, HoldsLock, Enrichers
<1>6. CASE get_rebalance_plan
  <2>1. portfolio # NULL /\ portfolio \in Portfolio
    BY <1>0, <1>6 DEF get_rebalance_plan, TypeInv, TypeOK
  <2>2. portfolio'.owner = portfolio.owner
    BY <1>6, <2>1 DEF get_rebalance_plan, Portfolio
  <2> QED
    BY <1>2, <2>1, <2>2
<1>7. CASE portfolio' = portfolio
  BY <1>2, <1>7
<1>8. CASE Login \/ Logout \/ SessionExpires \/ Shutdown \/ Die \/ Midnight \/ UNCHANGED vars
  BY <1>7, <1>8 DEF Login, Logout, SessionExpires, Shutdown, Midnight, Die, _clear_session, vars, session
<1>9. ASSUME NEW q \in Procs,
             \/ PortfolioStart(q) \/ PortfolioSave(q) \/ PortfolioFail(q)
             \/ refresh_prices(q) \/ RefreshTask(q)
             \/ _daily_enrichment_loop(q) \/ _daily_eod_loop(q) \/ DailySleep(q)
             \/ EnrichFlag(q) \/ EnrichRead(q) \/ EnrichFail(q) \/ EnrichTruncate(q) \/ EnrichDump(q)
             \/ EnrichSave(q) \/ EnrichUnflag(q) \/ save_snapshot_now(q)
      PROVE  OlderThanTokens(portfolio.owner)'
  BY <1>7, <1>9
     DEF PortfolioStart, PortfolioSave, PortfolioFail,
         refresh_prices, RefreshTask, RefreshAcquire, RefreshSkip, RefreshRelease,
         _daily_enrichment_loop, _daily_eod_loop, DailySleep, EnrichFlag, EnrichRead,
         EnrichFail, EnrichTruncate, EnrichDump, EnrichSave, EnrichUnflag, save_snapshot_now,
         ManualSaveRead, ManualSaveWrite, session
<1> QED
  BY <1>3, <1>4, <1>5, <1>6, <1>8, <1>9
     DEF Next, Procs, Enrichers, get_portfolio, _do_enrich_session

(* A DeGiro token yields one cached portfolio, for any number of requests, *)
(* refreshes and daily loops that overlap, and any logins meanwhile.       *)
THEOREM TokenIsSingleUse == Spec => []TokenYieldsOnce
<1>1. Init => TokenInv
  <2>1. Init => OwnersIssued
    BY BoundsAssumption DEF Init, OwnersIssued, Computing, Seed
  <2>2. Init => RefreshesOlder /\ TokenYieldsOnce
    BY DEF Init, RefreshesOlder, TokenYieldsOnce, Procs
  <2> QED
    BY <2>1, <2>2, InitTypeInv, InitLock DEF TokenInv
<1>2. TokenInv /\ [Next]_vars => TokenInv'
  BY StepTypeInv, StepLock, StepIssued, StepOlder, StepTokenYields DEF TokenInv
<1>3. TokenInv => TokenYieldsOnce
  BY DEF TokenInv
<1> QED
  BY <1>1, <1>2, <1>3, PTL DEF Spec

-----------------------------------------------------------------------------
(* The valuation log *)

(* What the property says of one portfolio.                                *)
Logged(held) ==
    held.by = "refresh" =>
        IF valuation = NULL THEN held.ver < versions ELSE held.ver <= valuation

(* What is shown, on disk, or about to be put there by a manual save.      *)
Kept == ({portfolio, disk} \ {NULL}) \cup {work[s].result : s \in {m \in ManualSaves : Computing(m)}}

(* What a process is about to publish or save is logged, or will be before *)
(* it is; a fetch is not logged at all.  A refresh that is about to write  *)
(* the log is newer than whatever is kept, and finds it as it left it.     *)
ProcLogged(q) ==
    /\ q \in PortfolioReqs /\ Computing(q) =>
         work[q].result.by = "fetch" /\ work[q].result.ver <= versions
    /\ q \in RefreshTasks /\ Computing(q) => work[q].result.ver <= versions
    /\ q \in RefreshTasks /\ pc[q] \in {"record", "dump"} =>
         \A held \in Kept : held.ver < work[q].result.ver
    /\ q \in RefreshTasks /\ pc[q] = "dump" => valuation = NULL
    /\ q \in RefreshTasks /\ pc[q] \in {"commit", "save"} => Logged(work[q].result)

ValuationInv ==
    /\ \A held \in Kept : held.ver <= versions /\ Logged(held)
    /\ \A q \in Procs : ProcLogged(q)

LEMMA KeptType ==
  ASSUME TypeInv
  PROVE  \A held \in Kept : held \in Portfolio /\ held.ver \in Nat
  BY BoundsAssumption
     DEF TypeInv, TypeOK, WorkReady, Computing, Kept, Procs, Work, Portfolio, Versions

(* As long as the log is not written, what is logged stays so.             *)
LEMMA StaysLogged ==
  ASSUME TypeInv, NEW held, held.ver \in Nat, Logged(held), valuation' = valuation,
         versions' = versions \/ versions' = versions + 1
  PROVE  held.by = "refresh" =>
           IF valuation' = NULL THEN held.ver < versions' ELSE held.ver <= valuation'
  BY BoundsAssumption DEF TypeInv, TypeOK, Logged, Versions

(* A step of one process that writes no log, and keeps nothing but what    *)
(* was kept or is logged: if a refresh is about to write, only the former. *)
LEMMA OneMoves ==
  ASSUME TypeInv, ValuationInv, NEW p \in Procs, ProcLogged(p)',
         \A q \in Procs : q # p => pc'[q] = pc[q] /\ work'[q] = work[q],
         valuation' = valuation, versions' = versions \/ versions' = versions + 1,
         \A held \in Kept' : \/ \E known \in Kept : held.ver = known.ver /\ held.by = known.by
                             \/ /\ held \in Portfolio /\ held.ver <= versions /\ Logged(held)
                                /\ \A q \in RefreshTasks : q # p => pc[q] \notin {"record", "dump"}
  PROVE  ValuationInv'
<1>0. versions \in Nat /\ versions' \in Nat /\ versions <= versions'
  BY BoundsAssumption DEF TypeInv, TypeOK, Versions
<1>1. ASSUME NEW held \in Kept'
      PROVE  held.ver \in Nat /\ held.ver <= versions' /\ Logged(held)'
  <2>1. held.ver \in Nat /\ held.ver <= versions /\ Logged(held)
    BY <1>1, KeptType, BoundsAssumption DEF ValuationInv, Logged, Portfolio, Versions
  <2> QED
    BY <1>0, <2>1, StaysLogged DEF Logged
<1>2. ASSUME NEW q \in Procs, q # p
      PROVE  ProcLogged(q)'
  <2>1. pc'[q] = pc[q] /\ work'[q] = work[q] /\ ProcLogged(q)
    BY <1>2 DEF ValuationInv
  <2>2. Computing(q) => work[q].result.ver \in Nat
    BY BoundsAssumption DEF TypeInv, WorkReady, Computing, Work, Portfolio, Versions
  <2>3. ASSUME q \in RefreshTasks, pc[q] \in {"record", "dump"}, NEW held \in Kept'
        PROVE  held.ver < work[q].result.ver
    BY <1>2, <2>1, <2>3 DEF ProcLogged
  <2>4. ASSUME q \in RefreshTasks, pc[q] \in {"commit", "save"}
        PROVE  Logged(work[q].result)'
    <3>1. Logged(work[q].result) /\ work[q].result.ver \in Nat
      BY <2>1, <2>2, <2>4 DEF ProcLogged, Computing
    <3> QED
      BY <2>1, <3>1, StaysLogged DEF Logged
  <2>5. Computing(q) => (work[q].result.ver <= versions => work[q].result.ver <= versions')
    BY <1>0, <2>2
  <2> QED
    BY <2>1, <2>3, <2>4, <2>5 DEF ProcLogged, Computing
<1> QED
  BY <1>1, <1>2 DEF ValuationInv

(* A process that ends, or goes where nothing is published.                *)
LEMMA IdleLogged ==
  ASSUME NEW q \in Procs, pc'[q] \notin {"enrich", "record", "dump", "commit", "save"}
  PROVE  ProcLogged(q)'
  BY DEF ProcLogged, Computing

LEMMA StepValuation ==
  ASSUME DailyLoops = {}
  PROVE  TypeInv /\ OpLockExclusive /\ ValuationInv /\ [Next]_vars => ValuationInv'
<1> SUFFICES ASSUME TypeInv, OpLockExclusive, ValuationInv, [Next]_vars
             PROVE  ValuationInv'
    OBVIOUS
<1>0. /\ pc \in [Procs -> Sites] /\ work \in [Procs -> Work \cup {NULL}]
      /\ versions \in Nat
  BY BoundsAssumption DEF TypeInv, TypeOK, Versions
(* Nobody moves and nothing new is kept.                                   *)
<1>1. ASSUME UNCHANGED <<pc, valuation, versions>>,
             \A q \in Procs : Computing(q) => /\ work'[q].result.ver = work[q].result.ver
                                              /\ work'[q].result.by = work[q].result.by,
             \A held \in {portfolio', disk'} \ {NULL} :
                \E known \in Kept : held.ver = known.ver /\ held.by = known.by
      PROVE  ValuationInv'
  <2>1. \A held \in Kept' : \E known \in Kept : held.ver = known.ver /\ held.by = known.by
    BY <1>1 DEF Kept, Computing, Procs
  <2>2. \A q \in Procs : ProcLogged(q)'
    BY <1>1, <2>1 DEF ValuationInv, ProcLogged, Logged, Computing
  <2>3. \A held \in Kept' : held.ver <= versions' /\ Logged(held)'
    BY <1>1, <2>1 DEF ValuationInv, Logged
  <2> QED
    BY <2>2, <2>3 DEF ValuationInv
<1>2. CASE Login \/ Logout \/ SessionExpires \/ Shutdown \/ Midnight \/ UNCHANGED vars
  <2>1. /\ UNCHANGED <<pc, work, valuation, versions, disk>>
        /\ portfolio' \in {portfolio, NULL}
    BY <1>2 DEF Login, Logout, SessionExpires, Shutdown, Midnight, _clear_session, vars, session,
                procs, store, env
  <2> QED
    BY <1>1, <2>1 DEF Kept
<1>3. CASE Start
  <2>1. /\ UNCHANGED <<pc, work, valuation, versions, disk>>
        /\ portfolio' = IF disk = NULL THEN NULL ELSE [disk EXCEPT !.weights = "own"]
    BY <1>3 DEF Start, procs, store
  <2>2. disk # NULL => /\ [disk EXCEPT !.weights = "own"].by = disk.by
                      /\ [disk EXCEPT !.weights = "own"].ver = disk.ver
    BY DEF TypeInv, TypeOK, Portfolio
  <2> QED
    BY <1>1, <2>1, <2>2 DEF Kept
<1>4. CASE Die
  <2>1. \A q \in Procs : ProcLogged(q)'
    BY <1>4, IdleLogged DEF Die
  <2>2. valuation' = valuation
    <3>1. \A e \in Enrichers : pc[e] = "dump" => valuation = NULL
      BY DEF ValuationInv, ProcLogged, Enrichers, Procs
    <3> QED
      BY <1>4, <3>1 DEF Die
  <2>3. \A held \in Kept' : held \in Kept
    BY <1>4 DEF Die, _clear_session, Kept, Computing, Procs
  <2> QED
    BY <1>4, <2>1, <2>2, <2>3 DEF Die, ValuationInv, Logged
<1>5. CASE get_rebalance_plan
  <2>1. portfolio # NULL /\ portfolio \in Portfolio /\ portfolio \in Kept
    BY <1>5 DEF get_rebalance_plan, TypeInv, TypeOK, Kept
  <2>2. portfolio'.by = portfolio.by /\ portfolio'.ver = portfolio.ver
    BY <1>5, <2>1 DEF get_rebalance_plan, Portfolio
  <2>3. UNCHANGED <<pc, valuation, versions, disk>>
    BY <1>5 DEF get_rebalance_plan, store, env
  <2>4. disk # NULL => disk \in Kept
    BY DEF Kept
  <2>5. \A held \in {portfolio', disk'} \ {NULL} :
           \E known \in Kept : held.ver = known.ver /\ held.by = known.by
    BY <2>1, <2>2, <2>3, <2>4
  <2> QED
    BY <1>1, <1>5, <2>3, <2>5, PlanKeepsResults
<1>6. ASSUME NEW p \in PortfolioReqs, get_portfolio(p)
      PROVE  ValuationInv'
  <2>0. p \in Procs /\ p \notin RefreshTasks /\ p \notin ManualSaves
    BY ProcsAssumption DEF Procs, Enrichers
  <2>1. CASE PortfolioStart(p)
    <3>1. /\ Goto(p, "enrich") /\ versions' = versions + 1
          /\ work' = [work EXCEPT ![p] = [base |-> NULL,
                                         result |-> Computed(trading_api, "fetch")]]
          /\ UNCHANGED <<portfolio, disk, valuation>>
      BY <2>1 DEF PortfolioStart, session, store
    <3>2. work'[p].result.ver = versions + 1 /\ work'[p].result.by = "fetch"
      BY <1>0, <2>0, <3>1 DEF Computed
    <3>3. ProcLogged(p)'
      BY <1>0, <2>0, <3>1, <3>2 DEF ProcLogged
    <3>4. \A q \in Procs : q # p => pc'[q] = pc[q] /\ work'[q] = work[q]
      BY <1>0, <2>0, <3>1 DEF Goto
    <3>5. \A held \in Kept' : held \in Kept
      BY <2>0, <3>1, <3>4 DEF Kept, Computing, Procs
    <3> QED
      BY <2>0, <3>1, <3>3, <3>4, <3>5, OneMoves
  <2>2. CASE PortfolioSave(p) \/ PortfolioCommit(p)
    <3>1. /\ Computing(p) /\ HoldsLock(p)
          /\ Finish(p) \/ (Goto(p, "commit") /\ work' = work)
          /\ \A held \in {portfolio', disk'} : held \in {portfolio, disk, work[p].result}
          /\ UNCHANGED <<valuation, versions>>
      BY <2>2, SaveKeeps
         DEF PortfolioSave, PortfolioCommit, Computing, HoldsLock, session, store, env
    <3>2. /\ work[p].result \in Portfolio /\ work[p].result.ver <= versions
          /\ Logged(work[p].result)
      BY <2>0, <3>1 DEF TypeInv, WorkReady, Computing, Work, ValuationInv, ProcLogged, Logged
    <3>3. \A q \in Procs : q # p => pc'[q] = pc[q] /\ work'[q] = work[q]
      BY <1>0, <2>0, <3>1, FinishType DEF Goto
    <3>4. ProcLogged(p)'
      <4>1. CASE Finish(p)
        BY <2>0, <4>1, FinishType, IdleLogged
      <4>2. CASE Goto(p, "commit") /\ work' = work
        BY <1>0, <2>0, <3>1, <4>2 DEF Goto, ValuationInv, ProcLogged, Computing
      <4> QED
        BY <3>1, <4>1, <4>2
    <3>5. \A q \in RefreshTasks : pc[q] \notin {"record", "dump"}
      BY <2>0, <3>1 DEF OpLockExclusive, HoldsLock, Procs, Enrichers
    <3>6. \A held \in Kept' : held \in Kept \/ held = work[p].result
      BY <2>0, <3>1, <3>3 DEF Kept, Computing, Procs
    <3> QED
      BY <2>0, <3>1, <3>2, <3>3, <3>4, <3>5, <3>6, OneMoves
  <2>3. CASE PortfolioFail(p)
    <3>1. Finish(p) /\ UNCHANGED <<portfolio, disk, valuation, versions>>
      BY <2>3 DEF PortfolioFail, session, store, env
    <3>2. pc'[p] = "idle" /\ \A q \in Procs : q # p => pc'[q] = pc[q] /\ work'[q] = work[q]
      BY <2>0, <3>1, FinishType
    <3>3. ProcLogged(p)'
      BY <2>0, <3>2, IdleLogged
    <3>4. \A held \in Kept' : held \in Kept
      BY <2>0, <3>1, <3>2 DEF Kept, Computing, Procs
    <3> QED
      BY <2>0, <3>1, <3>2, <3>3, <3>4, OneMoves
  <2> QED
    BY <1>6, <2>1, <2>2, <2>3 DEF get_portfolio
<1>7. ASSUME NEW t \in RefreshTasks,
             refresh_prices(t) \/ RefreshTask(t) \/ EnrichFlag(t) \/ EnrichFail(t)
                \/ EnrichUnflag(t)
      PROVE  ValuationInv'
  <2>0. t \in Procs /\ t \notin ManualSaves
    BY ProcsAssumption DEF Procs, Enrichers
  <2>1. valuation' = valuation
    <3>1. pc[t] = "dump" => valuation = NULL
      BY <2>0 DEF ValuationInv, ProcLogged
    <3> QED
      BY <1>7, <3>1
         DEF refresh_prices, RefreshTask, RefreshAcquire, RefreshSkip, RefreshRelease,
             EnrichFlag, EnrichFail, EnrichUnflag, store
  <2>2. /\ pc'[t] \notin {"enrich", "record", "dump", "commit", "save"}
        /\ \A q \in Procs : q # t => pc'[q] = pc[q] /\ work'[q] = work[q]
        /\ UNCHANGED <<portfolio, disk, versions>>
    BY <1>0, <1>7, <2>0
       DEF refresh_prices, RefreshTask, RefreshAcquire, RefreshSkip, RefreshRelease,
           EnrichFlag, EnrichFail, EnrichUnflag, Finish, Goto, session, store, env
  <2>3. ProcLogged(t)'
    BY <2>0, <2>2, IdleLogged
  <2>4. \A held \in Kept' : held \in Kept
    BY <2>0, <2>2 DEF Kept, Computing, Procs
  <2> QED
    BY <2>0, <2>1, <2>2, <2>3, <2>4, OneMoves
<1>8. ASSUME NEW t \in RefreshTasks,
             EnrichRead(t) \/ EnrichTruncate(t) \/ EnrichDump(t) \/ EnrichCommit(t)
                \/ EnrichSave(t)
      PROVE  ValuationInv'
  <2>0. t \in Procs /\ t \notin PortfolioReqs /\ t \notin ManualSaves
    BY ProcsAssumption DEF Procs, Enrichers
  <2>1. CASE EnrichRead(t)
    <3>1. /\ Goto(t, "record") /\ versions' = versions + 1
          /\ work' = [work EXCEPT ![t] = [base |-> portfolio.ver,
                                         result |-> Computed(portfolio.owner, "refresh")]]
          /\ UNCHANGED <<portfolio, disk, valuation>>
      BY <2>1 DEF EnrichRead, session, store
    <3>2. work'[t].result.ver = versions + 1
      BY <1>0, <2>0, <3>1 DEF Computed
    <3>3. pc'[t] = "record" /\ \A q \in Procs : q # t => pc'[q] = pc[q] /\ work'[q] = work[q]
      BY <1>0, <2>0, <3>1 DEF Goto
    <3>4. \A held \in Kept' : held \in Kept
      BY <2>0, <3>1, <3>3 DEF Kept, Computing, Procs
    <3>5. \A held \in Kept : held.ver < versions + 1
      BY <1>0, KeptType DEF ValuationInv
    <3>6. ProcLogged(t)'
      BY <1>0, <2>0, <3>1, <3>2, <3>3, <3>4, <3>5 DEF ProcLogged
    <3> QED
      BY <2>0, <3>1, <3>3, <3>4, <3>6, OneMoves
  <2>2. CASE EnrichTruncate(t) \/ EnrichDump(t)
    <3>1. /\ pc[t] \in {"record", "dump"} /\ HoldsLock(t) /\ Computing(t)
          /\ UNCHANGED <<portfolio, disk, versions, work>>
      BY <2>2 DEF EnrichTruncate, EnrichDump, HoldsLock, Computing, session, env
    <3>2. /\ work[t].result.ver <= versions /\ work[t].result.ver \in Nat
          /\ work[t].result.ver # NULL
          /\ \A held \in Kept : held.ver < work[t].result.ver
      BY <2>0, <3>1, BoundsAssumption
         DEF ValuationInv, ProcLogged, TypeInv, WorkReady, Computing, Work, Portfolio, Versions
    <3>3. \A q \in Procs : q # t => pc'[q] = pc[q] /\ ~(q \in RefreshTasks /\ HoldsLock(q))
      BY <1>0, <2>0, <2>2, <3>1 DEF EnrichTruncate, EnrichDump, Goto, OpLockExclusive
    <3>4. \A held \in Kept' : held \in Kept
      BY <2>0, <3>1, <3>3 DEF Kept, Computing, Procs
    <3>5. /\ \/ pc'[t] = "dump" /\ valuation' = NULL
             \/ pc'[t] = "commit" /\ valuation' = work[t].result.ver
      BY <1>0, <2>0, <2>2 DEF EnrichTruncate, EnrichDump, Goto, ValuationInv, ProcLogged
    <3>6. ASSUME NEW held \in Kept
          PROVE  held.ver <= versions' /\ Logged(held)'
      <4>1. held.ver \in Nat /\ held.ver <= versions /\ held.ver < work[t].result.ver
        BY <3>2, KeptType DEF ValuationInv
      <4>2. held.ver < versions /\ held.ver <= work[t].result.ver
        BY <1>0, <3>2, <4>1
      <4> QED
        BY <3>1, <3>2, <3>5, <4>1, <4>2 DEF Logged
    <3>7. ProcLogged(t)'
      BY <2>0, <3>1, <3>2, <3>4, <3>5 DEF ProcLogged, Logged
    <3>8. ASSUME NEW q \in Procs, q # t
          PROVE  ProcLogged(q)'
      <4>1. q \in RefreshTasks => pc'[q] \notin {"record", "dump", "commit", "save"}
        BY <3>3, <3>8 DEF HoldsLock
      <4> QED
        BY <3>1, <3>3, <3>8, <4>1 DEF ValuationInv, ProcLogged, Computing
    <3> QED
      BY <3>4, <3>6, <3>7, <3>8 DEF ValuationInv
  <2>3. CASE EnrichCommit(t) \/ EnrichSave(t)
    <3>1. /\ pc[t] \in {"commit", "save"} /\ HoldsLock(t) /\ Computing(t)
          /\ Goto(t, "save") \/ Goto(t, "unflag")
          /\ \A held \in {portfolio', disk'} : held \in {portfolio, disk, work[t].result}
          /\ UNCHANGED <<valuation, versions, work>>
      BY <2>3, SaveKeeps
         DEF EnrichCommit, EnrichSave, HoldsLock, Computing, session, store, env
    <3>2. /\ work[t].result \in Portfolio /\ work[t].result.ver <= versions
          /\ Logged(work[t].result)
      BY <2>0, <3>1 DEF TypeInv, WorkReady, Computing, Work, ValuationInv, ProcLogged
    <3>3. /\ pc'[t] \in {"save", "unflag"}
          /\ \A q \in Procs : q # t => pc'[q] = pc[q] /\ work'[q] = work[q]
      BY <1>0, <2>0, <3>1 DEF Goto
    <3>4. ProcLogged(t)'
      BY <2>0, <3>1, <3>2, <3>3 DEF ProcLogged, Computing, Logged
    <3>5. \A q \in RefreshTasks : q # t => pc[q] \notin {"record", "dump"}
      BY <2>0, <3>1 DEF OpLockExclusive, HoldsLock, Procs, Enrichers
    <3>6. \A held \in Kept' : held \in Kept \/ held = work[t].result
      BY <2>0, <3>1, <3>3 DEF Kept, Computing, Procs
    <3> QED
      BY <2>0, <3>1, <3>2, <3>3, <3>4, <3>5, <3>6, OneMoves
  <2> QED
    BY <1>8, <2>1, <2>2, <2>3
<1>9. ASSUME NEW s \in ManualSaves, save_snapshot_now(s)
      PROVE  ValuationInv'
  <2>0. s \in Procs /\ s \notin PortfolioReqs /\ s \notin RefreshTasks
    BY ProcsAssumption DEF Procs, Enrichers
  <2>1. CASE ManualSaveRead(s)
    <3>1. /\ Goto(s, "save") /\ portfolio # NULL
          /\ work' = [work EXCEPT ![s] = [base |-> NULL, result |-> portfolio]]
          /\ UNCHANGED <<portfolio, disk, valuation, versions>>
      BY <2>1 DEF ManualSaveRead, session, store, env
    <3>2. work'[s].result = portfolio /\ portfolio \in Kept
      BY <1>0, <2>0, <3>1 DEF Kept
    <3>3. \A q \in Procs : q # s => pc'[q] = pc[q] /\ work'[q] = work[q]
      BY <1>0, <2>0, <3>1 DEF Goto
    <3>4. ProcLogged(s)'
      BY <2>0 DEF ProcLogged
    <3>5. \A held \in Kept' : held \in Kept
      BY <3>1, <3>2, <3>3 DEF Kept, Computing, Procs
    <3> QED
      BY <2>0, <3>1, <3>3, <3>4, <3>5, OneMoves
  <2>2. CASE ManualSaveWrite(s)
    <3>1. /\ Finish(s) /\ Computing(s) /\ disk' \in {work[s].result, disk}
          /\ UNCHANGED <<portfolio, valuation, versions>>
      BY <2>2, SaveKeeps DEF ManualSaveWrite, Computing, session, env
    <3>2. work[s].result \in Kept
      BY <3>1 DEF Kept
    <3>3. pc'[s] = "idle" /\ \A q \in Procs : q # s => pc'[q] = pc[q] /\ work'[q] = work[q]
      BY <2>0, <3>1, FinishType
    <3>4. ProcLogged(s)'
      BY <2>0 DEF ProcLogged
    <3>5. \A held \in Kept' : held \in Kept
      BY <3>1, <3>2, <3>3 DEF Kept, Computing, Procs
    <3> QED
      BY <2>0, <3>1, <3>3, <3>4, <3>5, OneMoves
  <2> QED
    BY <1>9, <2>1, <2>2 DEF save_snapshot_now
<1> QED
  BY <1>2, <1>3, <1>4, <1>5, <1>6, <1>7, <1>8, <1>9
     DEF Next, Enrichers, _do_enrich_session

(* Where no daily loop runs, a refreshed portfolio that is shown or saved  *)
(* is in the valuation log, unless a later refresh was cut short, or is at *)
(* work, in the middle of writing it.                                      *)
THEOREM RefreshIsLogged ==
  ASSUME DailyLoops = {}
  PROVE  Spec => []ValuationCoversRefresh
<1>1. Init => TypeInv /\ OpLockExclusive /\ ValuationInv
  <2>1. Init => \A q \in Procs : ProcLogged(q)
    BY DEF Init, ProcLogged, Computing
  <2>2. Init => \A held \in Kept : held.ver <= versions /\ Logged(held)
    BY DEF Init, Kept, Logged, Computing, Seed, Procs
  <2> QED
    BY <2>1, <2>2, InitTypeInv, InitLock DEF ValuationInv
<1>2. TypeInv /\ OpLockExclusive /\ ValuationInv /\ [Next]_vars
        => (TypeInv /\ OpLockExclusive /\ ValuationInv)'
  BY StepTypeInv, StepLock, StepValuation
<1>3. ValuationInv => ValuationCoversRefresh
  BY DEF ValuationInv, ValuationCoversRefresh, Logged, Kept
<1> QED
  BY <1>1, <1>2, <1>3, PTL DEF Spec

-----------------------------------------------------------------------------
(* The newest snapshot *)

(* Whoever may still publish or save what it computes has computed it      *)
(* after all that is kept, a manual save under way included.               *)
Computers == PortfolioReqs \cup RefreshTasks

DiskInv ==
    /\ \A held \in Kept : held.ver <= versions
    /\ \A q \in Computers : Computing(q) =>
         /\ work[q].result.ver <= versions
         /\ \A held \in Kept : held.ver <= work[q].result.ver

RequestSites == \A p \in PortfolioReqs : pc[p] \in {"idle", "enrich", "commit"}

LEMMA StepRequestSites == TypeInv /\ RequestSites /\ [Next]_vars => RequestSites'
<1> SUFFICES ASSUME TypeInv, RequestSites, [Next]_vars, NEW p \in PortfolioReqs
             PROVE  pc'[p] \in {"idle", "enrich", "commit"}
    BY DEF RequestSites
<1>0. pc \in [Procs -> Sites] /\ pc[p] \in {"idle", "enrich", "commit"} /\ p \in Procs
  BY DEF TypeInv, TypeOK, RequestSites, Procs
<1>1. CASE \/ Login \/ Logout \/ SessionExpires \/ get_rebalance_plan \/ Start \/ Shutdown
           \/ Die \/ Midnight \/ UNCHANGED vars
  BY <1>0, <1>1 DEF Login, Logout, SessionExpires, get_rebalance_plan, Start, Shutdown, Midnight, Die,
                    vars, procs
<1>2. ASSUME NEW r \in PortfolioReqs, get_portfolio(r)
      PROVE  pc'[p] \in {"idle", "enrich", "commit"}
  BY <1>0, <1>2 DEF get_portfolio, PortfolioStart, PortfolioSave, PortfolioCommit,
                    PortfolioFail, Finish, Goto
<1>3. ASSUME NEW q \in Enrichers \cup ManualSaves,
             \/ refresh_prices(q) \/ RefreshTask(q)
             \/ _daily_enrichment_loop(q) \/ _daily_eod_loop(q) \/ DailySleep(q)
             \/ _do_enrich_session(q) \/ save_snapshot_now(q)
      PROVE  pc'[p] \in {"idle", "enrich", "commit"}
  <2>1. q # p
    BY ProcsAssumption
  <2> QED
    BY <1>0, <1>3, <2>1
       DEF refresh_prices, RefreshTask, RefreshAcquire, RefreshSkip, RefreshRelease,
           _daily_enrichment_loop, _daily_eod_loop, DailySleep, _do_enrich_session,
           EnrichFlag, EnrichRead, EnrichFail, EnrichTruncate, EnrichDump, EnrichCommit, EnrichSave,
           EnrichUnflag, save_snapshot_now, ManualSaveRead, ManualSaveWrite, Finish, Goto
<1> QED
  BY <1>1, <1>2, <1>3 DEF Next, Enrichers

(* Nothing is computed, and nothing is kept that was not kept before.      *)
LEMMA KeptStaysOld ==
  ASSUME DiskInv, versions' = versions,
         \A held \in Kept' : \E known \in Kept : held.ver = known.ver,
         \A q \in Computers : Computing(q)' =>
            Computing(q) /\ work'[q].result.ver = work[q].result.ver
  PROVE  DiskInv'
  BY DEF DiskInv

LEMMA StepDisk ==
  ASSUME DailyLoops = {}, RequestSites, TypeInv, OpLockExclusive, DiskInv, [Next]_vars
  PROVE  /\ DiskInv'
         /\ \/ disk' = disk
            \/ disk # NULL => disk'.ver >= disk.ver
            \/ \E s \in ManualSaves : ManualSaveWrite(s)
<1>0. /\ pc \in [Procs -> Sites] /\ work \in [Procs -> Work \cup {NULL}]
      /\ versions \in Nat
      /\ Procs = Computers \cup ManualSaves /\ Enrichers = RefreshTasks
      /\ \A s \in ManualSaves : s \notin Computers
  BY ProcsAssumption, BoundsAssumption
     DEF TypeInv, TypeOK, Versions, Procs, Enrichers, Computers
<1>1. /\ \A held \in Kept : held.ver \in Nat
      /\ \A q \in Procs : Computing(q) => work[q].result.ver \in Nat
  BY KeptType, BoundsAssumption DEF TypeInv, WorkReady, Computing, Work, Portfolio, Versions
<1>2. \A q \in Computers : Computing(q) => HoldsLock(q)
  BY <1>0 DEF RequestSites, Computing, HoldsLock, Computers
<1>3. ASSUME UNCHANGED <<pc, versions, disk>>,
             \A q \in Procs : Computing(q) => work'[q].result.ver = work[q].result.ver,
             portfolio' # NULL => \E known \in Kept : portfolio'.ver = known.ver
      PROVE  DiskInv' /\ disk' = disk
  <2>1. \A held \in Kept' : \E known \in Kept : held.ver = known.ver
    BY <1>3 DEF Kept, Computing, Procs
  <2> QED
    BY <1>0, <1>3, <2>1, KeptStaysOld DEF Computing
<1>4. CASE \/ Login \/ Logout \/ SessionExpires \/ Shutdown \/ Midnight \/ UNCHANGED vars
  <2>1. /\ UNCHANGED <<pc, work, versions, disk>>
        /\ portfolio' \in {portfolio, NULL}
    BY <1>4 DEF Login, Logout, SessionExpires, Shutdown, Midnight, _clear_session, vars,
                session, procs, store, env
  <2> QED
    BY <1>3, <2>1 DEF Kept
<1>5. CASE Start
  <2>1. /\ UNCHANGED <<pc, work, versions, disk>>
        /\ portfolio' = IF disk = NULL THEN NULL ELSE [disk EXCEPT !.weights = "own"]
    BY <1>5 DEF Start, procs, store
  <2>2. disk # NULL => [disk EXCEPT !.weights = "own"].ver = disk.ver
    BY DEF TypeInv, TypeOK, Portfolio
  <2> QED
    BY <1>3, <2>1, <2>2 DEF Kept
<1>6. CASE Die
  <2>1. \A held \in Kept' : held \in Kept
    BY <1>6 DEF Die, _clear_session, Kept, Computing, Procs
  <2>2. \A q \in Computers : ~Computing(q)'
    BY <1>0, <1>6 DEF Die, Computing
  <2> QED
    BY <1>6, <2>1, <2>2, KeptStaysOld DEF Die
<1>7. CASE get_rebalance_plan
  <2>1. portfolio # NULL /\ portfolio \in Portfolio /\ portfolio \in Kept
    BY <1>7 DEF get_rebalance_plan, TypeInv, TypeOK, Kept
  <2>2. portfolio'.ver = portfolio.ver /\ UNCHANGED <<pc, versions, disk>>
    BY <1>7, <2>1 DEF get_rebalance_plan, Portfolio, store, env
  <2> QED
    BY <1>3, <1>7, <2>1, <2>2, PlanKeepsResults
(* A computation begins: what it computes is newer than all that is kept.  *)
<1>8. ASSUME NEW p \in Computers, PortfolioStart(p) \/ EnrichRead(p)
      PROVE  DiskInv' /\ disk' = disk
  <2>1. /\ versions' = versions + 1 /\ work'[p].result.ver = versions + 1
        /\ UNCHANGED <<portfolio, disk>>
    BY <1>0, <1>8 DEF PortfolioStart, EnrichRead, Computed, session, store
  <2>2. \A q \in Procs : q # p => pc'[q] = pc[q] /\ work'[q] = work[q]
    BY <1>0, <1>8 DEF PortfolioStart, EnrichRead, Goto
  <2>3. \A held \in Kept' : held \in Kept
    BY <1>0, <2>1, <2>2 DEF Kept, Computing
  <2>4. \A held \in Kept : held.ver <= versions + 1
    BY <1>0, <1>1 DEF DiskInv
  <2>5. \A q \in Computers : Computing(q) => work[q].result.ver <= versions + 1
    BY <1>0, <1>1 DEF DiskInv
  <2>6. versions + 1 <= versions + 1
    BY <1>0
  <2> QED
    BY <1>0, <2>1, <2>2, <2>3, <2>4, <2>5, <2>6 DEF DiskInv, Computing
(* It ends in the session or in a file: nobody else is computing then.     *)
<1>9. ASSUME NEW p \in Computers,
             \/ PortfolioSave(p) \/ PortfolioCommit(p) \/ EnrichCommit(p) \/ EnrichSave(p)
      PROVE  DiskInv' /\ (disk' = disk \/ (disk # NULL => disk'.ver >= disk.ver))
  <2>1. /\ Computing(p) /\ versions' = versions
        /\ portfolio' \in {portfolio, work[p].result} /\ disk' \in {disk, work[p].result}
    BY <1>9, SaveKeeps
       DEF PortfolioSave, PortfolioCommit, EnrichCommit, EnrichSave, Computing, session,
           store, env
  <2>2. \A q \in Procs : q # p => pc'[q] = pc[q] /\ work'[q] = work[q]
    BY <1>0, <1>9, FinishType
       DEF PortfolioSave, PortfolioCommit, EnrichCommit, EnrichSave, Goto
  <2>3. Computing(p)' => work'[p] = work[p]
    BY <1>0, <1>9, FinishType
       DEF PortfolioSave, PortfolioCommit, EnrichCommit, EnrichSave, Computing
  <2>4. \A q \in Computers : q # p => ~Computing(q)'
    BY <1>0, <1>2, <2>1, <2>2 DEF OpLockExclusive, Computing
  <2>5. \A held \in Kept' : held \in Kept \/ held = work[p].result
    BY <1>0, <2>1, <2>2 DEF Kept, Computing
  <2>6. /\ work[p].result.ver \in Nat /\ work[p].result.ver <= versions
        /\ \A held \in Kept : held.ver <= work[p].result.ver
    BY <1>0, <1>1, <2>1 DEF DiskInv
  <2>7. work[p].result.ver <= work[p].result.ver
    BY <2>6
  <2>8. DiskInv'
    BY <2>1, <2>3, <2>4, <2>5, <2>6, <2>7 DEF DiskInv
  <2>9. disk # NULL => work[p].result.ver >= disk.ver
    <3>1. disk # NULL => disk \in Kept
      BY DEF Kept
    <3> QED
      BY <1>1, <2>6, <3>1
  <2> QED
    BY <2>1, <2>8, <2>9
<1>10. ASSUME NEW p \in Computers,
              \/ PortfolioFail(p) \/ RefreshRelease(p)
              \/ refresh_prices(p) \/ RefreshAcquire(p) \/ RefreshSkip(p)
              \/ EnrichFlag(p) \/ EnrichFail(p) \/ EnrichTruncate(p) \/ EnrichDump(p)
              \/ EnrichUnflag(p)
       PROVE  DiskInv' /\ disk' = disk
  <2>1. UNCHANGED <<portfolio, disk, versions>>
    BY <1>10 DEF PortfolioFail, RefreshRelease, refresh_prices, RefreshAcquire, RefreshSkip,
                 EnrichFlag, EnrichFail, EnrichTruncate, EnrichDump, EnrichUnflag, session,
                 store, env
  <2>2. \/ Finish(p)
        \/ /\ work' = work /\ \A q \in Procs : q # p => pc'[q] = pc[q]
           /\ Computing(p)' => Computing(p)
    BY <1>0, <1>10
       DEF PortfolioFail, RefreshRelease, refresh_prices, RefreshAcquire, RefreshSkip,
           EnrichFlag, EnrichFail, EnrichTruncate, EnrichDump, EnrichUnflag, Goto, Computing
  <2>3. /\ \A q \in Procs : q # p => pc'[q] = pc[q] /\ work'[q] = work[q]
        /\ Computing(p)' => Computing(p) /\ work'[p] = work[p]
    BY <1>0, <2>2, FinishType DEF Computing
  <2>4. \A held \in Kept' : held \in Kept
    BY <1>0, <2>1, <2>3 DEF Kept, Computing
  <2> QED
    BY <1>0, <2>1, <2>3, <2>4, KeptStaysOld DEF Computing
(* A manual save keeps what was kept already, on disk in the end.          *)
<1>11. ASSUME NEW s \in ManualSaves, save_snapshot_now(s)
       PROVE  DiskInv' /\ (disk' = disk \/ \E m \in ManualSaves : ManualSaveWrite(m))
  <2>1. CASE ManualSaveRead(s)
    <3>1. /\ Goto(s, "save") /\ portfolio # NULL
          /\ work' = [work EXCEPT ![s] = [base |-> NULL, result |-> portfolio]]
          /\ UNCHANGED <<portfolio, disk, versions>>
      BY <2>1 DEF ManualSaveRead, session, store, env
    <3>2. work'[s].result = portfolio /\ portfolio \in Kept
      BY <1>0, <3>1 DEF Kept
    <3>3. \A q \in Procs : q # s => pc'[q] = pc[q] /\ work'[q] = work[q]
      BY <1>0, <3>1 DEF Goto
    <3>4. \A held \in Kept' : held \in Kept
      BY <1>0, <3>1, <3>2, <3>3 DEF Kept, Computing
    <3> QED
      BY <1>0, <3>1, <3>3, <3>4, KeptStaysOld DEF Computing
  <2>2. CASE ManualSaveWrite(s)
    <3>1. /\ Finish(s) /\ Computing(s) /\ disk' \in {work[s].result, disk}
          /\ UNCHANGED <<portfolio, versions>>
      BY <2>2, SaveKeeps DEF ManualSaveWrite, Computing, session, env
    <3>2. work[s].result \in Kept
      BY <3>1 DEF Kept
    <3>3. pc'[s] = "idle" /\ \A q \in Procs : q # s => pc'[q] = pc[q] /\ work'[q] = work[q]
      BY <1>0, <3>1, FinishType
    <3>4. \A held \in Kept' : held \in Kept
      BY <1>0, <3>1, <3>2, <3>3 DEF Kept, Computing
    <3> QED
      BY <1>0, <2>2, <3>1, <3>3, <3>4, KeptStaysOld DEF Computing
  <2> QED
    BY <1>11, <2>1, <2>2 DEF save_snapshot_now
<1>12. ASSUME NEW q \in Computers,
              \/ get_portfolio(q) \/ refresh_prices(q) \/ RefreshTask(q)
              \/ _do_enrich_session(q)
       PROVE  DiskInv' /\ (disk' = disk \/ (disk # NULL => disk'.ver >= disk.ver))
  BY <1>8, <1>9, <1>10, <1>12 DEF get_portfolio, RefreshTask, _do_enrich_session
<1> QED
  BY <1>0, <1>4, <1>5, <1>6, <1>7, <1>11, <1>12 DEF Next, Computers

(* Where no daily loop writes without the lock, the snapshot a restart     *)
(* would show goes back in time at most by a manual save, which writes     *)
(* what it read before it waited for the benchmark.                        *)
THEOREM SnapshotNeverGoesBack ==
  ASSUME DailyLoops = {}
  PROVE  Spec => DiskNeverOlder
<1> DEFINE Inv == TypeInv /\ OpLockExclusive /\ RequestSites /\ DiskInv
<1>1. Init => Inv
  <2>1. Init => DiskInv
    <3>1. Init => /\ \A q \in Procs : ~Computing(q)
                  /\ \A held \in Kept : held = Seed /\ versions = 0
      BY DEF Init, Kept, Computing, Procs
    <3> QED
      BY <3>1 DEF DiskInv, Computers, Procs, Enrichers, Seed
  <2>2. Init => RequestSites
    BY DEF Init, RequestSites, Procs
  <2> QED
    BY <2>1, <2>2, InitTypeInv, InitLock
<1>2. Inv /\ [Next]_vars => Inv'
  BY StepTypeInv, StepLock, StepRequestSites, StepDisk
<1>3. Inv /\ [Next]_vars => [disk # NULL => \/ disk'.ver >= disk.ver
                                            \/ \E s \in ManualSaves : ManualSaveWrite(s)]_disk
  BY StepDisk
<1> QED
  BY <1>1, <1>2, <1>3, PTL DEF Spec, DiskNeverOlder
=============================================================================
