------------------------------ MODULE Session ------------------------------
(***************************************************************************)
(* The in-memory session of app/main.py, the operation lock around it, and *)
(* everything that reads or writes it: GET /api/portfolio, the background  *)
(* task of POST /api/refresh-prices, the two daily loops, login, logout,   *)
(* the rebalance planner, the manual snapshot, start and stop.             *)
(*                                                                         *)
(* One event loop runs every coroutine; a coroutine gives it up only at an *)
(* await.  _do_enrich_session runs in worker threads, which interleave     *)
(* with the loop everywhere except inside a _sync_lock section.  So a step *)
(* is what happens between two awaits (coroutine) or between two accesses  *)
(* to shared state (thread).  Requests answered without a state change     *)
(* (cached 200, 400, 401, 409, /api/portfolio-raw, /api/enrichment-status) *)
(* are stuttering steps.                                                   *)
(***************************************************************************)
EXTENDS Naturals, FiniteSets

CONSTANTS
    PortfolioReqs,  \* concurrent GET /api/portfolio requests
    RefreshTasks,   \* background tasks POST /api/refresh-prices may create
    DailyLoops,     \* the daily loops' processes, each the morning's or the evening's
    ManualSaves,    \* concurrent POST /api/snapshots/save requests
    MaxLogins,      \* bound: DeGiro logins in a behaviour
    MaxVersions,    \* bound: portfolios computed in a behaviour
    MaxDays,        \* bound: midnights in a behaviour
    NULL            \* Python's None

Enrichers == RefreshTasks \cup DailyLoops
Procs == PortfolioReqs \cup Enrichers \cup ManualSaves

ASSUME ProcsAssumption ==
    /\ PortfolioReqs \cap Enrichers = {}
    /\ ManualSaves \cap (PortfolioReqs \cup Enrichers) = {}
    /\ RefreshTasks \cap DailyLoops = {}

ASSUME BoundsAssumption ==
    /\ MaxLogins \in Nat
    /\ MaxVersions \in Nat
    /\ MaxDays \in Nat
    /\ NULL \notin Nat

VARIABLES
    up,                   \* the process accepts requests
    trading_api,          \* the DeGiro token held: which login it came from
    session_time,         \* NULL, "live", or "expired" once SESSION_TTL is over
    portfolio,            \* the cached portfolio, or NULL
    last_enriched_at,     \* a moment: of which computation, if any, on which day
    enriching,            \* what GET /api/enrichment-status reports
    operation_lock,       \* the asyncio.Lock is locked
    operation_lock_held,  \* the flag tested before it
    pc,                   \* where each process is
    work,                 \* what each process has read and computed so far
    disk,                 \* portfolio_data of the newest snapshot, or NULL
    disk_date,            \* the day that snapshot's file is named after
    valuation,            \* newest computation in daily_valuations.json, NULL: unreadable
    logins,               \* logins so far
    versions,             \* portfolios computed so far
    today                 \* midnights so far

session == <<trading_api, session_time, portfolio, last_enriched_at, enriching>>
lock == <<operation_lock, operation_lock_held>>
procs == <<pc, work>>
store == <<disk, disk_date, valuation>>
env == <<up, logins, versions, today>>
vars == <<session, lock, procs, store, env>>

(***************************************************************************)
(* A portfolio is known by the login its DeGiro data came from (0: the     *)
(* snapshot found at the first start), the order in which and the day on   *)
(* which it was computed, which code computed it, and the total its        *)
(* position weights refer to.                                              *)
(***************************************************************************)
Owners == 0..MaxLogins
Versions == 0..MaxVersions
Days == 0..MaxDays
Portfolio == [owner: Owners, ver: Versions, day: Days,
              by: {"fetch", "refresh"}, weights: {"own", "override"}]
Stamp == [ver: Versions \cup {NULL}, day: Days]

ASSUME NullAssumption == NULL \notin Stamp
Work == [base: Versions \cup {NULL}, result: Portfolio]
Sites == {"idle", "scheduled", "flag", "read", "record", "dump", "commit", "save",
          "unflag", "done", "enrich"}

Seed == [owner |-> 0, ver |-> 0, day |-> 0, by |-> "fetch", weights |-> "own"]

(* Reading the market data dates the portfolio: the next version number.   *)
Computed(owner, by) ==
    [owner |-> owner, ver |-> versions + 1, day |-> today, by |-> by, weights |-> "own"]

(* datetime.now(), when a computation is put into the session.             *)
Now(ver) == [ver |-> ver, day |-> today]

(***************************************************************************)
(* A definition X_WithBug is X with a bug one could write; no              *)
(* specification uses it.  It shows that a property can fail.              *)
(***************************************************************************)

(* A coroutine that has called a blocking function keeps the event loop.   *)
LoopFree ==
    /\ up
    /\ \A p \in PortfolioReqs : pc[p] # "commit"
    /\ \A s \in ManualSaves : pc[s] # "save"

Goto(p, site) == pc' = [pc EXCEPT ![p] = site]
Finish(p) ==
    /\ Goto(p, "idle")
    /\ work' = [work EXCEPT ![p] = NULL]

-----------------------------------------------------------------------------
(* The operation lock *)

_acquire_operation_lock_Unchecked ==
    /\ operation_lock' = TRUE
    /\ operation_lock_held' = TRUE

_acquire_operation_lock ==
    /\ ~operation_lock_held
    /\ ~operation_lock
    /\ operation_lock' = TRUE
    /\ operation_lock_held' = TRUE

_release_operation_lock ==
    IF operation_lock_held
    THEN /\ operation_lock' = FALSE
         /\ operation_lock_held' = FALSE
    ELSE UNCHANGED lock

-----------------------------------------------------------------------------
(* Login, logout and the age of the DeGiro session *)

(* POST /api/auth and /api/session, successful: the cached portfolio goes, *)
(* last_enriched_at and enriching stay.                                    *)
Login ==
    /\ LoopFree
    /\ logins < MaxLogins
    /\ logins' = logins + 1
    /\ trading_api' = logins'
    /\ session_time' = "live"
    /\ portfolio' = NULL
    /\ UNCHANGED <<last_enriched_at, enriching, lock, procs, store, up, versions, today>>

_clear_session ==
    /\ trading_api' = NULL
    /\ session_time' = NULL
    /\ portfolio' = NULL
    /\ last_enriched_at' = NULL
    /\ enriching' = FALSE

Logout ==
    /\ LoopFree
    /\ _clear_session
    /\ UNCHANGED <<lock, procs, store, env>>

SessionExpires ==
    /\ session_time = "live"
    /\ session_time' = "expired"
    /\ UNCHANGED <<trading_api, portfolio, last_enriched_at, enriching,
                   lock, procs, store, env>>

_is_session_valid == trading_api # NULL /\ session_time # "expired"

-----------------------------------------------------------------------------
(* GET /api/portfolio, when nothing is cached *)

PortfolioStart_NoSessionCheck(p) ==
    /\ LoopFree
    /\ pc[p] = "idle"
    /\ _acquire_operation_lock
    /\ portfolio = NULL
    /\ versions < MaxVersions
    /\ versions' = versions + 1
    /\ work' = [work EXCEPT ![p] = [base |-> NULL,
                                    result |-> Computed(trading_api, "fetch")]]
    /\ Goto(p, "enrich")
    /\ UNCHANGED <<session, store, up, logins, today>>

(* Lock, read the token, fetch from DeGiro: no await up to the first       *)
(* to_thread.  A failed fetch answers 500 and releases: a stuttering step. *)
PortfolioStart(p) ==
    /\ LoopFree
    /\ pc[p] = "idle"
    /\ _acquire_operation_lock
    /\ portfolio = NULL
    /\ _is_session_valid
    /\ versions < MaxVersions
    /\ versions' = versions + 1
    /\ work' = [work EXCEPT ![p] = [base |-> NULL,
                                    result |-> Computed(trading_api, "fetch")]]
    /\ Goto(p, "enrich")
    /\ UNCHANGED <<session, store, up, logins, today>>

(* The file is named after the day the save began: after the data were     *)
(* read, before the benchmark is downloaded and the file written, which    *)
(* may be on either side of a midnight.  A later file stays the newest.  A *)
(* failed save is swallowed.                                               *)
_save_snapshot_for_portfolio(result) ==
    \/ \E date \in result.day..today :
          /\ disk # NULL => disk_date <= date
          /\ disk' = result
          /\ disk_date' = date
    \/ UNCHANGED <<disk, disk_date>>

(* The worker threads (enrichment, watchlist merge) are back: save the     *)
(* snapshot on the loop.                                                   *)
PortfolioSave(p) ==
    /\ LoopFree
    /\ pc[p] = "enrich"
    /\ _save_snapshot_for_portfolio(work[p].result)
    /\ Goto(p, "commit")
    /\ UNCHANGED <<session, lock, work, valuation, env>>

PortfolioCommit_KeepsToken(p) ==
    /\ up
    /\ pc[p] = "commit"
    /\ portfolio' = work[p].result
    /\ last_enriched_at' = Now(work[p].result.ver)
    /\ _release_operation_lock
    /\ Finish(p)
    /\ UNCHANGED <<trading_api, session_time, enriching, store, env>>

(* Store the result, discard the token, release.                           *)
PortfolioCommit(p) ==
    /\ up
    /\ pc[p] = "commit"
    /\ portfolio' = work[p].result
    /\ last_enriched_at' = Now(work[p].result.ver)
    /\ trading_api' = NULL
    /\ session_time' = NULL
    /\ _release_operation_lock
    /\ Finish(p)
    /\ UNCHANGED <<enriching, store, env>>

PortfolioFail_WithoutRelease(p) ==
    /\ LoopFree
    /\ pc[p] = "enrich"
    /\ Finish(p)
    /\ UNCHANGED <<session, lock, store, env>>

(* Any exception after the start: answer 500, keep the session, release.   *)
PortfolioFail(p) ==
    /\ LoopFree
    /\ pc[p] = "enrich"
    /\ _release_operation_lock
    /\ Finish(p)
    /\ UNCHANGED <<session, store, env>>

-----------------------------------------------------------------------------
(* POST /api/refresh-prices and its background task *)

refresh_prices(t) ==
    /\ LoopFree
    /\ pc[t] = "idle"
    /\ portfolio # NULL
    /\ Goto(t, "scheduled")
    /\ UNCHANGED <<session, lock, work, store, env>>

RefreshAcquire_Unlocked(t) ==
    /\ LoopFree
    /\ pc[t] = "scheduled"
    /\ Goto(t, "flag")
    /\ UNCHANGED <<session, lock, work, store, env>>

RefreshAcquire(t) ==
    /\ LoopFree
    /\ pc[t] = "scheduled"
    /\ _acquire_operation_lock
    /\ Goto(t, "flag")
    /\ UNCHANGED <<session, work, store, env>>

(* 409 inside the task: logged, nobody is told.                            *)
RefreshSkip(t) ==
    /\ LoopFree
    /\ pc[t] = "scheduled"
    /\ operation_lock_held
    /\ Goto(t, "idle")
    /\ UNCHANGED <<session, lock, work, store, env>>

RefreshRelease(t) ==
    /\ LoopFree
    /\ pc[t] = "done"
    /\ _release_operation_lock
    /\ Finish(t)
    /\ UNCHANGED <<session, store, env>>

-----------------------------------------------------------------------------
(* The daily loops: straight to the thread, whoever holds the lock.  A     *)
(* process that wakes up is the morning's loop, which looks for a          *)
(* portfolio first, or the evening's, which does not.                      *)

_daily_enrichment_loop(d) ==
    /\ LoopFree
    /\ pc[d] = "idle"
    /\ portfolio # NULL
    /\ Goto(d, "flag")
    /\ UNCHANGED <<session, lock, work, store, env>>

_daily_eod_loop(d) ==
    /\ LoopFree
    /\ pc[d] = "idle"
    /\ Goto(d, "flag")
    /\ UNCHANGED <<session, lock, work, store, env>>

DailySleep(d) ==
    /\ LoopFree
    /\ pc[d] = "done"
    /\ Finish(d)
    /\ UNCHANGED <<session, lock, store, env>>

-----------------------------------------------------------------------------
(* _do_enrich_session, in a worker thread *)

EnrichFlag(e) ==
    /\ pc[e] = "flag"
    /\ enriching' = TRUE
    /\ Goto(e, "read")
    /\ UNCHANGED <<trading_api, session_time, portfolio, last_enriched_at,
                   lock, work, store, env>>

EnrichRead(e) ==
    /\ pc[e] = "read"
    /\ portfolio # NULL
    /\ versions < MaxVersions
    /\ versions' = versions + 1
    /\ work' = [work EXCEPT ![e] = [base |-> portfolio.ver,
                                    result |-> Computed(portfolio.owner, "refresh")]]
    /\ Goto(e, "record")
    /\ UNCHANGED <<session, lock, store, up, logins, today>>

EnrichFail_WithoutFinally(e) ==
    /\ pc[e] \in {"read", "record", "dump"}
    /\ Goto(e, "done")
    /\ UNCHANGED <<session, lock, work, store, env>>

EnrichFail_NotOnLogout(e) ==
    /\ pc[e] \in {"record", "dump"}
    /\ Goto(e, "unflag")
    /\ UNCHANGED <<session, lock, work, store, env>>

(* An exception before the commit: no portfolio to copy (TypeError), an    *)
(* enrichment that raises, a valuation log that cannot be opened, or not   *)
(* be written to its end, which leaves what it was cut down to.            *)
EnrichFail(e) ==
    /\ \/ pc[e] \in {"read", "record"} /\ valuation' = valuation
       \/ pc[e] = "dump" /\ valuation' \in {valuation, NULL}
    /\ Goto(e, "unflag")
    /\ UNCHANGED <<session, lock, work, disk, disk_date, env>>

(* _record_daily_valuation, first part: read the log (unreadable counts as *)
(* empty; which days before the newest it goes back to is left out) and    *)
(* open it for writing, which truncates it.                                *)
EnrichTruncate(e) ==
    /\ pc[e] = "record"
    /\ valuation' = NULL
    /\ Goto(e, "dump")
    /\ UNCHANGED <<session, lock, work, disk, disk_date, env>>

EnrichDump_Swallows(e) ==
    /\ pc[e] = "dump"
    /\ valuation' \in {work[e].result.ver, valuation}
    /\ Goto(e, "commit")
    /\ UNCHANGED <<session, lock, work, disk, disk_date, env>>

(* Second part: write it.  Where another writer has written since, its     *)
(* text may stick out behind this one, and nobody can read the two.        *)
EnrichDump(e) ==
    /\ pc[e] = "dump"
    /\ valuation' \in {work[e].result.ver} \cup IF valuation = NULL THEN {} ELSE {NULL}
    /\ Goto(e, "commit")
    /\ UNCHANGED <<session, lock, work, disk, disk_date, env>>

EnrichCommit_Unstamped(e) ==
    /\ pc[e] = "commit"
    /\ portfolio' = work[e].result
    /\ Goto(e, "save")
    /\ UNCHANGED <<trading_api, session_time, last_enriched_at, enriching,
                   lock, work, store, env>>

EnrichCommit(e) ==
    /\ pc[e] = "commit"
    /\ portfolio' = work[e].result
    /\ last_enriched_at' = Now(work[e].result.ver)
    /\ Goto(e, "save")
    /\ UNCHANGED <<trading_api, session_time, enriching, lock, work, store, env>>

EnrichSave(e) ==
    /\ pc[e] = "save"
    /\ _save_snapshot_for_portfolio(work[e].result)
    /\ Goto(e, "unflag")
    /\ UNCHANGED <<session, lock, work, valuation, env>>

EnrichUnflag_Forgets(e) ==
    /\ pc[e] = "unflag"
    /\ Goto(e, "done")
    /\ UNCHANGED <<session, lock, work, store, env>>

EnrichUnflag(e) ==
    /\ pc[e] = "unflag"
    /\ enriching' = FALSE
    /\ Goto(e, "done")
    /\ UNCHANGED <<trading_api, session_time, portfolio, last_enriched_at,
                   lock, work, store, env>>

_do_enrich_session(e) ==
    \/ EnrichFlag(e) \/ EnrichRead(e) \/ EnrichFail(e) \/ EnrichTruncate(e)
    \/ EnrichDump(e) \/ EnrichCommit(e) \/ EnrichSave(e) \/ EnrichUnflag(e)

-----------------------------------------------------------------------------
(* The other readers of the session *)

(* GET /api/rebalance-plan?total_portfolio_eur=...: the copy of the        *)
(* portfolio is shallow, so the weights are written into the positions of  *)
(* the session, which a thread about to save shares.                       *)
get_rebalance_plan ==
    /\ LoopFree
    /\ portfolio # NULL
    /\ portfolio' = [portfolio EXCEPT !.weights = "override"]
    /\ work' = [q \in Procs |->
                  IF q \in Enrichers /\ pc[q] = "save" /\ work[q].result.ver = portfolio.ver
                  THEN [work[q] EXCEPT !.result.weights = "override"]
                  ELSE work[q]]
    /\ UNCHANGED <<trading_api, session_time, last_enriched_at, enriching,
                   lock, pc, store, env>>

(* POST /api/snapshots/save: no operation lock; the loop is kept while the *)
(* benchmark is fetched and the file written.                              *)
ManualSaveRead(s) ==
    /\ LoopFree
    /\ pc[s] = "idle"
    /\ portfolio # NULL
    /\ work' = [work EXCEPT ![s] = [base |-> NULL, result |-> portfolio]]
    /\ Goto(s, "save")
    /\ UNCHANGED <<session, lock, store, env>>

ManualSaveWrite(s) ==
    /\ up
    /\ pc[s] = "save"
    /\ _save_snapshot_for_portfolio(work[s].result)
    /\ Finish(s)
    /\ UNCHANGED <<session, lock, valuation, env>>

save_snapshot_now(s) == ManualSaveRead(s) \/ ManualSaveWrite(s)

-----------------------------------------------------------------------------
(* Start and stop *)

(* lifespan, entry: restore the newest snapshot, weights recomputed.  Its  *)
(* stamp is midnight of the day in the file's name.                        *)
Start ==
    /\ ~up
    /\ \A q \in Procs : pc[q] = "idle"
    /\ up' = TRUE
    /\ portfolio' = IF disk = NULL THEN NULL ELSE [disk EXCEPT !.weights = "own"]
    /\ last_enriched_at' = IF disk = NULL THEN NULL ELSE [ver |-> NULL, day |-> disk_date]
    /\ UNCHANGED <<trading_api, session_time, enriching, lock, procs, store,
                   logins, versions, today>>

(* lifespan, exit: requests have drained; enrichment threads still run.    *)
Shutdown ==
    /\ up
    /\ \A q \in PortfolioReqs \cup ManualSaves : pc[q] = "idle"
    /\ up' = FALSE
    /\ _clear_session
    /\ UNCHANGED <<lock, procs, store, logins, versions, today>>

(* The process is gone, at any moment: memory is lost, files stay as they  *)
(* are, a log that is being written perhaps half written.                  *)
Die ==
    /\ up' = FALSE
    /\ _clear_session
    /\ operation_lock' = FALSE
    /\ operation_lock_held' = FALSE
    /\ pc' = [q \in Procs |-> "idle"]
    /\ work' = [q \in Procs |-> NULL]
    /\ valuation' \in {valuation} \cup
                       IF \E e \in Enrichers : pc[e] = "dump" THEN {NULL} ELSE {}
    /\ UNCHANGED <<disk, disk_date, logins, versions, today>>

Midnight ==
    /\ today < MaxDays
    /\ today' = today + 1
    /\ UNCHANGED <<session, lock, procs, store, up, logins, versions>>

-----------------------------------------------------------------------------
Init ==
    /\ up = FALSE
    /\ trading_api = NULL
    /\ session_time = NULL
    /\ portfolio = NULL
    /\ last_enriched_at = NULL
    /\ enriching = FALSE
    /\ operation_lock = FALSE
    /\ operation_lock_held = FALSE
    /\ pc = [q \in Procs |-> "idle"]
    /\ work = [q \in Procs |-> NULL]
    /\ disk \in {NULL, Seed}
    /\ disk_date = 0
    /\ valuation \in {NULL, 0}
    /\ logins = 0
    /\ versions = 0
    /\ today = 0

get_portfolio(p) ==
    PortfolioStart(p) \/ PortfolioSave(p) \/ PortfolioCommit(p) \/ PortfolioFail(p)

RefreshTask(t) == RefreshAcquire(t) \/ RefreshSkip(t) \/ RefreshRelease(t)

Next ==
    \/ Login \/ Logout \/ SessionExpires
    \/ \E p \in PortfolioReqs : get_portfolio(p)
    \/ \E t \in RefreshTasks : refresh_prices(t) \/ RefreshTask(t)
    \/ \E d \in DailyLoops : _daily_enrichment_loop(d) \/ _daily_eod_loop(d) \/ DailySleep(d)
    \/ \E e \in Enrichers : _do_enrich_session(e)
    \/ get_rebalance_plan
    \/ \E s \in ManualSaves : save_snapshot_now(s)
    \/ Start \/ Shutdown \/ Die \/ Midnight

Spec == Init /\ [][Next]_vars

(***************************************************************************)
(* Fairness: a thread that is running goes on (yfinance calls time out), a *)
(* coroutine whose await is over is resumed (asyncio's ready queue is      *)
(* FIFO, so strong fairness where the loop is only intermittently free),   *)
(* and a process that was told to stop ends.  Nobody has to send a         *)
(* request, and no daily loop has to wake up.                              *)
(***************************************************************************)
Fairness ==
    /\ \A p \in PortfolioReqs :
         /\ SF_vars(PortfolioSave(p) \/ PortfolioFail(p))
         /\ WF_vars(PortfolioCommit(p))
    /\ \A t \in RefreshTasks : SF_vars(RefreshTask(t))
    /\ \A e \in Enrichers : WF_vars(_do_enrich_session(e))
    /\ \A d \in DailyLoops : SF_vars(DailySleep(d))
    /\ \A s \in ManualSaves : WF_vars(ManualSaveWrite(s))
    /\ WF_vars(~up /\ Die)

FairSpec == Spec /\ Fairness

-----------------------------------------------------------------------------
(* Who is doing what *)

HoldsLock(q) ==
    \/ q \in PortfolioReqs /\ pc[q] \in {"enrich", "commit"}
    \/ q \in RefreshTasks /\ pc[q] \notin {"idle", "scheduled"}

(* The stretch of _do_enrich_session in which the flag should be up.       *)
Enriching(e) == pc[e] \in {"read", "record", "dump", "commit", "save", "unflag"}

(* Everything that runs an enrichment or a DeGiro sync, lock or no lock.   *)
Operating(q) ==
    HoldsLock(q) \/ (q \in DailyLoops /\ pc[q] # "idle")

-----------------------------------------------------------------------------
(* Safety *)

(* Every variable has its type.                                            *)
TypeOK ==
    /\ up \in BOOLEAN
    /\ trading_api \in Owners \cup {NULL}
    /\ session_time \in {NULL, "live", "expired"}
    /\ portfolio \in Portfolio \cup {NULL}
    /\ last_enriched_at \in Stamp \cup {NULL}
    /\ enriching \in BOOLEAN
    /\ operation_lock \in BOOLEAN
    /\ operation_lock_held \in BOOLEAN
    /\ pc \in [Procs -> Sites]
    /\ work \in [Procs -> Work \cup {NULL}]
    /\ disk \in Portfolio \cup {NULL}
    /\ disk_date \in Days
    /\ valuation \in Versions \cup {NULL}
    /\ logins \in 0..MaxLogins
    /\ versions \in Versions
    /\ today \in Days

(* The flag, the asyncio.Lock and the code between acquire and release     *)
(* agree: the lock is taken exactly while one request or refresh task is   *)
(* in its critical section, so no release can ever free somebody else's    *)
(* lock (_release_operation_lock does not ask whose it is).                *)
OpLockExclusive ==
    /\ operation_lock = operation_lock_held
    /\ operation_lock_held <=> \E q \in Procs : HoldsLock(q)
    /\ \A q, r \in Procs : HoldsLock(q) /\ HoldsLock(r) => q = r

(* A refresh overwrites the portfolio it read or, after a login or logout, *)
(* nothing: it never buries a portfolio fetched or enriched meanwhile.     *)
(* True where no daily loop runs; the lock is what makes it so.            *)
RefreshCommitsOntoItsBase ==
    \A t \in RefreshTasks :
        pc[t] \in {"record", "dump", "commit"} =>
            portfolio = NULL \/ portfolio.ver = work[t].base

(* A DeGiro token yields one cached portfolio: neither the token kept in   *)
(* the session nor one a request is using is the one the cached portfolio  *)
(* came from ("single-use DeGiro token").                                  *)
TokenYieldsOnce ==
    portfolio # NULL =>
        /\ trading_api # NULL => portfolio.owner < trading_api
        /\ \A p \in PortfolioReqs :
             HoldsLock(p) => portfolio.owner < work[p].result.owner

(* The session never shows a portfolio under the time of another one, nor  *)
(* as of a day before its data were read: the time is either that at which *)
(* this portfolio was put into the session or, from a restart on, midnight *)
(* of a day on which it was saved, which may be later than all its data    *)
(* (POST /api/snapshots/save on another day).                              *)
PortfolioStamped ==
    portfolio # NULL =>
        /\ last_enriched_at # NULL
        /\ last_enriched_at.ver \in {portfolio.ver, NULL}
        /\ last_enriched_at.day >= portfolio.day

(* The status endpoint never reports an enrichment nobody is running, over *)
(* overlapping enrichments, failures, logouts and restarts: a client that  *)
(* polls until "enriching" is false is not left polling.                   *)
EnrichingIsBacked ==
    enriching => \E e \in Enrichers : Enriching(e)

(* A refreshed portfolio is shown, or saved for the next start, only when  *)
(* the daily valuation log has its total (the same or a later computation) *)
(* or a refresh begun after it was cut short while it wrote the log, by a  *)
(* kill or a failure, and left it unreadable.  True where no daily loop    *)
(* runs.                                                                   *)
ValuationCoversRefresh ==
    \A held \in {portfolio, disk} \ {NULL} :
        held.by = "refresh" =>
            IF valuation = NULL THEN held.ver < versions ELSE held.ver <= valuation

(* A saved snapshot is never replaced by one computed before it, so a      *)
(* restart never goes back in time, but for POST /api/snapshots/save, which *)
(* writes what it read before it waited.  True where no daily loop runs.   *)
DiskNeverOlder ==
    [][disk # NULL =>
         \/ disk'.ver >= disk.ver
         \/ \E s \in ManualSaves : ManualSaveWrite(s)]_disk

(* Whatever takes the lock gives it back: later requests do not answer 409 *)
(* for ever.                                                               *)
LockComesBack == operation_lock_held ~> ~operation_lock_held

(* A refresh the user asked for is either run or skipped, and over.        *)
RefreshEnds ==
    \A t \in RefreshTasks : pc[t] = "scheduled" ~> pc[t] = "idle"

(* An enrichment the status endpoint reports ends: the client's poll loop  *)
(* terminates.                                                             *)
EnrichingEnds == enriching ~> ~enriching

-----------------------------------------------------------------------------
(* What the repository's comments say, and the code does not do *)

(* main.py:76 "prevents concurrent enrichment, Update Prices, and DeGiro   *)
(* sync": at most one of them is under way.                                *)
OperationsExclude ==
    \A q, r \in Procs : Operating(q) /\ Operating(r) => q = r
=============================================================================
