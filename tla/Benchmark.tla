----------------------------- MODULE Benchmark -----------------------------
(***************************************************************************)
(* GET /api/benchmark (app/main.py) and the one-hour cache behind it.      *)
(* The handler never awaits: it keeps the event loop while Yahoo answers.  *)
(* Worker threads store refreshed portfolios and snapshots, and prune old  *)
(* ones, meanwhile; the loop's own logins, logouts, syncs and deletions do *)
(* not.  The cache lives in memory: a restart begins without it.           *)
(*                                                                         *)
(* A series is known by the date it is indexed to 100 at (0: no data), an  *)
(* attribution by the portfolio it was computed from.                      *)
(***************************************************************************)
EXTENDS Naturals, FiniteSets, FiniteSetsExt

CONSTANTS
    TTL,            \* _BENCHMARK_TTL
    CallTimeout,    \* how long fetch_sp500_ytd_reference may take
    MaxDate,        \* bound: dates of snapshots
    MaxTime,        \* bound: time in a behaviour
    MaxVersions,    \* bound: portfolios stored in a behaviour
    NULL

ASSUME BenchmarkAssumption ==
    /\ TTL \in Nat \ {0}
    /\ CallTimeout \in Nat
    /\ MaxDate \in Nat \ {0} /\ MaxTime \in Nat /\ MaxVersions \in Nat
    /\ NULL \notin Nat

Dates == 1..MaxDate
Times == 0..MaxTime
Versions == 1..MaxVersions
Series == 0..MaxDate

VARIABLES
    now,                    \* time.time()
    snapshots,              \* dates with a snapshot
    doomed,                 \* dates that savers have listed for pruning
    saved,                  \* the portfolio in the newest snapshot, or NULL
    portfolio,              \* the session's portfolio, or NULL
    versions,               \* portfolios stored so far
    replaced,               \* when each portfolio stopped being the session's
    series,                 \* _benchmark_cache["series"]
    attribution,            \* _benchmark_cache["attribution"]
    _benchmark_cache_time,  \* NULL: 0.0, before any time
    get,                    \* the request under way: step, locals
    shown                   \* the last response, and when it was given

cache == <<series, attribution, _benchmark_cache_time>>
session == <<portfolio, versions, replaced>>
vars == <<now, snapshots, doomed, saved, session, cache, get, shown>>

Idle == [step |-> "idle", series |-> NULL, portfolio |-> NULL, since |-> NULL]
LoopFree == get.step = "idle"

Respond(s, a) == shown' = [series |-> s, attribution |-> a, at |-> now]

-----------------------------------------------------------------------------
CacheIsLive ==
    /\ series # NULL
    /\ _benchmark_cache_time # NULL
    /\ now - _benchmark_cache_time < TTL

GetEmpty ==
    /\ LoopFree
    /\ snapshots = {}
    /\ Respond(0, NULL)
    /\ UNCHANGED <<now, snapshots, doomed, saved, session, cache, get>>

GetCached_Renews ==
    /\ LoopFree
    /\ snapshots # {}
    /\ CacheIsLive
    /\ _benchmark_cache_time' = now
    /\ Respond(series, attribution)
    /\ UNCHANGED <<now, snapshots, doomed, saved, session, series, attribution, get>>

GetCached ==
    /\ LoopFree
    /\ snapshots # {}
    /\ CacheIsLive
    /\ Respond(series, attribution)
    /\ UNCHANGED <<now, snapshots, doomed, saved, session, cache, get>>

GetMiss ==
    /\ LoopFree
    /\ snapshots # {}
    /\ ~CacheIsLive
    /\ get' = [Idle EXCEPT !.step = "fetch", !.series = Min(snapshots)]
    /\ UNCHANGED <<now, snapshots, doomed, saved, session, cache, shown>>

GetFetch_NoFallback ==
    /\ get.step = "fetch"
    /\ \E fetched \in {get.series, 0} :
         get' = [get EXCEPT !.step = "read", !.series = fetched]
    /\ UNCHANGED <<now, snapshots, doomed, saved, session, cache, shown>>

(* Yahoo answers, or the stale series is served, or there is none.         *)
GetFetch ==
    /\ get.step = "fetch"
    /\ \E fetched \in {get.series, 0} :
         get' = [get EXCEPT !.step = "read", !.series =
                   IF fetched = 0 /\ series \notin {NULL, 0} THEN series ELSE fetched]
    /\ UNCHANGED <<now, snapshots, doomed, saved, session, cache, shown>>

(* An error Yahoo's client does not know: 500.                             *)
GetRaise ==
    /\ get.step = "fetch"
    /\ get' = Idle
    /\ UNCHANGED <<now, snapshots, doomed, saved, session, cache, shown>>

GetNoPortfolio ==
    /\ get.step = "read"
    /\ portfolio = NULL
    /\ Respond(get.series, NULL)
    /\ get' = Idle
    /\ UNCHANGED <<now, snapshots, doomed, saved, session, cache>>

GetRead ==
    /\ get.step = "read"
    /\ portfolio # NULL
    /\ get' = [get EXCEPT !.step = "store", !.portfolio = portfolio, !.since = now]
    /\ UNCHANGED <<now, snapshots, doomed, saved, session, cache, shown>>

GetStore_AsExpiry ==
    /\ get.step = "store"
    /\ series' = get.series
    /\ attribution' = get.portfolio
    /\ _benchmark_cache_time' = now + TTL
    /\ Respond(series', attribution')
    /\ get' = Idle
    /\ UNCHANGED <<now, snapshots, doomed, saved, session>>

GetStore ==
    /\ get.step = "store"
    /\ series' = get.series
    /\ attribution' = get.portfolio
    /\ _benchmark_cache_time' = now
    /\ Respond(series', attribution')
    /\ get' = Idle
    /\ UNCHANGED <<now, snapshots, doomed, saved, session>>

get_benchmark ==
    \/ GetEmpty \/ GetCached \/ GetMiss \/ GetFetch \/ GetRaise
    \/ GetNoPortfolio \/ GetRead \/ GetStore

-----------------------------------------------------------------------------
(* Everybody else *)

Replace(v) ==
    /\ portfolio' = v
    /\ replaced' = [u \in Versions |-> IF u = portfolio THEN now ELSE replaced[u]]

(* A thread's refresh, or a sync on the loop: another portfolio.           *)
StorePortfolio ==
    /\ versions < MaxVersions
    /\ versions' = versions + 1
    /\ Replace(versions')
    /\ UNCHANGED <<now, snapshots, doomed, saved, cache, get, shown>>

(* Login and logout empty the session.                                     *)
ClearPortfolio ==
    /\ LoopFree
    /\ portfolio # NULL
    /\ Replace(NULL)
    /\ UNCHANGED <<now, snapshots, doomed, saved, versions, cache, get, shown>>

(* The newest day's file is written, and older ones are listed.            *)
_save_snapshot_for_portfolio ==
    /\ portfolio # NULL
    /\ saved' = portfolio
    /\ \E day \in Dates :
         /\ \A d \in snapshots : d <= day
         /\ snapshots' = snapshots \cup {day}
         /\ \E old \in {d \in Dates : d <= day} :
              doomed' = doomed \cup {d \in snapshots : d < old}
    /\ UNCHANGED <<now, session, cache, get, shown>>

(* One file of the list is unlinked; an error is logged and passed over.   *)
_prune_old_snapshots ==
    /\ doomed # {}
    /\ doomed' = doomed \ {Min(doomed)}
    /\ snapshots' \in {snapshots, snapshots \ {Min(doomed)}}
    /\ UNCHANGED <<now, saved, session, cache, get, shown>>

(* What a saver has listed meanwhile is not looked at.                     *)
delete_snapshot ==
    /\ LoopFree
    /\ Cardinality(snapshots) > 1
    /\ \E d \in snapshots : snapshots' = snapshots \ {d}
    /\ _benchmark_cache_time' = NULL
    /\ UNCHANGED <<now, doomed, saved, session, series, attribution, get, shown>>

(* The process dies and is started again: the portfolio of a snapshot, as  *)
(* one more version, or none.                                              *)
Restart ==
    /\ \/ Replace(NULL) /\ UNCHANGED versions
       \/ /\ snapshots # {} /\ versions < MaxVersions
          /\ versions' = versions + 1
          /\ Replace(versions')
    /\ series' = NULL
    /\ attribution' = NULL
    /\ _benchmark_cache_time' = NULL
    /\ get' = Idle
    /\ doomed' = {}
    /\ UNCHANGED <<now, snapshots, saved, shown>>

TimePasses ==
    /\ now < MaxTime
    /\ get.step = "store" => now - get.since < CallTimeout
    /\ now' = now + 1
    /\ UNCHANGED <<snapshots, doomed, saved, session, cache, get, shown>>

Init ==
    /\ now = 0
    /\ snapshots \in {{}, {1}}
    /\ doomed = {}
    /\ saved = NULL
    /\ portfolio = NULL
    /\ versions = 0
    /\ replaced = [v \in Versions |-> NULL]
    /\ series = NULL
    /\ attribution = NULL
    /\ _benchmark_cache_time = NULL
    /\ get = Idle
    /\ shown = [series |-> NULL, attribution |-> NULL, at |-> NULL]

Next ==
    \/ get_benchmark
    \/ StorePortfolio
    \/ ClearPortfolio
    \/ _save_snapshot_for_portfolio
    \/ _prune_old_snapshots
    \/ delete_snapshot
    \/ Restart
    \/ TimePasses

Spec == Init /\ [][Next]_vars

-----------------------------------------------------------------------------
(* Every variable has its type.                                            *)
TypeOK ==
    /\ now \in Times
    /\ snapshots \subseteq Dates
    /\ doomed \subseteq Dates
    /\ saved \in Versions \cup {NULL}
    /\ portfolio \in Versions \cup {NULL}
    /\ versions \in 0..MaxVersions
    /\ replaced \in [Versions -> Times \cup {NULL}]
    /\ series \in Series \cup {NULL}
    /\ attribution \in Versions \cup {NULL}
    /\ _benchmark_cache_time \in Times \cup {NULL}
    /\ get \in [step: {"idle", "fetch", "read", "store"}, series: Series \cup {NULL},
                portfolio: Versions \cup {NULL}, since: Times \cup {NULL}]
    /\ shown \in [series: Series \cup {NULL}, attribution: Versions \cup {NULL},
                  at: Times \cup {NULL}]

(* The attribution shown is that of the session's portfolio, or of one     *)
(* replaced within the TTL and the duration of one call: reading the cache *)
(* or falling back on it never prolongs an attribution's life.             *)
StaleOnlyForTTL ==
    shown.attribution # NULL =>
        \/ replaced[shown.attribution] = NULL
        \/ shown.at < replaced[shown.attribution] + TTL + CallTimeout

(* While the process has a series in its cache, no request that has found  *)
(* a snapshot is answered without a chart, however often Yahoo refuses,    *)
(* whatever is deleted, pruned or invalidated.  Only a request that finds  *)
(* no snapshot is: a prune and a DELETE may empty the directory.           *)
ChartStaysUp ==
    [][series \notin {NULL, 0} /\ (snapshots # {} \/ get.step # "idle")
       => shown'.series # 0]_shown

(* main.py:365 "Save portfolio snapshot and invalidate benchmark cache":   *)
(* a benchmark answered after a save shows the saved portfolio, or a later *)
(* one.                                                                    *)
SaveInvalidates ==
    [][saved # NULL /\ shown'.attribution # NULL => shown'.attribution >= saved]_shown
=============================================================================
