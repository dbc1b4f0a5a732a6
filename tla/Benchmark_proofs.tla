-------------------------- MODULE Benchmark_proofs --------------------------
(***************************************************************************)
(* Proofs about Benchmark, for any TTL, timeout and bounds.                *)
(***************************************************************************)
EXTENDS Benchmark, WellFoundedInduction, TLAPS

-----------------------------------------------------------------------------
(* Every set of dates has an oldest one. *)

LEMMA OldestDate ==
  ASSUME NEW S, S \subseteq Nat, S # {}
  PROVE  Min(S) \in S
<1> DEFINE Less == OpToRel(<, Nat)
<1>1. \E x \in S : \A y \in S : ~ (<<y, x>> \in Less)
  <2>1. IsWellFoundedOn(Less, Nat)
    BY NatLessThanWellFounded
  <2> HIDE DEF Less
  <2> QED
    BY <2>1, WFMin
<1>2. \A x \in S, y \in S : y < x => <<y, x>> \in Less
  BY DEF OpToRel
<1> HIDE DEF Less
<1>3. PICK x \in S : \A y \in S : ~ (<<y, x>> \in Less)
  BY <1>1
<1>4. \A y \in S : ~ (y < x)
  BY <1>2, <1>3
<1>5. \A y \in S : x =< y
  BY <1>4
<1> QED
  BY <1>5 DEF Min

-----------------------------------------------------------------------------
(* Type correctness *)

LEMMA InitType == Init => TypeOK
<1> SUFFICES ASSUME Init PROVE TypeOK
    OBVIOUS
<1>1. now \in Times /\ versions \in 0..MaxVersions
  BY BenchmarkAssumption DEF Init, Times
<1>2. snapshots \subseteq Dates /\ doomed \subseteq Dates
  BY BenchmarkAssumption DEF Init, Dates
<1>3. replaced \in [Versions -> Times \cup {NULL}]
  BY DEF Init
<1>4. get = [step |-> "idle", series |-> NULL, portfolio |-> NULL, since |-> NULL]
  BY DEF Init, Idle
<1> QED
  BY <1>1, <1>2, <1>3, <1>4 DEF Init, TypeOK

LEMMA ReplaceType ==
  ASSUME TypeOK, NEW v \in Versions \cup {NULL}, Replace(v)
  PROVE  /\ portfolio' \in Versions \cup {NULL}
         /\ replaced' \in [Versions -> Times \cup {NULL}]
  BY DEF TypeOK, Replace

LEMMA GetType == TypeOK /\ get_benchmark => TypeOK'
<1> SUFFICES ASSUME TypeOK, get_benchmark
             PROVE  TypeOK'
    OBVIOUS
<1>1. CASE GetEmpty \/ GetCached
  BY <1>1, BenchmarkAssumption
     DEF GetEmpty, GetCached, Respond, TypeOK, Series, session, cache
<1>2. CASE GetMiss
  <2>1. Min(snapshots) \in Dates
    BY <1>2, BenchmarkAssumption, OldestDate DEF GetMiss, TypeOK, Dates
  <2>2. get' = [step |-> "fetch", series |-> Min(snapshots), portfolio |-> NULL, since |-> NULL]
    BY <1>2 DEF GetMiss, Idle
  <2>3. Min(snapshots) \in Series
    BY <2>1, BenchmarkAssumption DEF Dates, Series
  <2> QED
    BY <1>2, <2>2, <2>3 DEF GetMiss, TypeOK, session, cache
<1>3. CASE GetFetch
  <2>1. 0 \in Series
    BY BenchmarkAssumption DEF Series
  <2>2. PICK s \in Series \cup {NULL} : get' = [get EXCEPT !.step = "read", !.series = s]
    BY <1>3, <2>1 DEF GetFetch, TypeOK
  <2> QED
    BY <1>3, <2>2 DEF GetFetch, TypeOK, session, cache
<1>4. CASE GetRaise \/ GetNoPortfolio
  BY <1>4 DEF GetRaise, GetNoPortfolio, Respond, Idle, TypeOK, session, cache
<1>5. CASE GetRead
  BY <1>5 DEF GetRead, TypeOK, session, cache
<1>6. CASE GetStore
  BY <1>6 DEF GetStore, Respond, Idle, TypeOK, session
<1> QED
  BY <1>1, <1>2, <1>3, <1>4, <1>5, <1>6 DEF get_benchmark

LEMMA StepType == TypeOK /\ [Next]_vars => TypeOK'
<1> SUFFICES ASSUME TypeOK, [Next]_vars
             PROVE  TypeOK'
    OBVIOUS
<1>1. CASE get_benchmark
  BY <1>1, GetType
<1>2. CASE StorePortfolio
  <2>1. versions' \in 0..MaxVersions /\ versions' \in Versions
    BY <1>2, BenchmarkAssumption DEF StorePortfolio, TypeOK, Versions
  <2> QED
    BY <1>2, <2>1, ReplaceType DEF StorePortfolio, TypeOK, cache
<1>3. CASE ClearPortfolio
  BY <1>3, ReplaceType DEF ClearPortfolio, TypeOK, cache
<1>4. CASE _save_snapshot_for_portfolio \/ _prune_old_snapshots
  BY <1>4 DEF _save_snapshot_for_portfolio, _prune_old_snapshots, TypeOK, session, cache
<1>5. CASE delete_snapshot
  BY <1>5 DEF delete_snapshot, TypeOK, session
<1>6. CASE TimePasses
  BY <1>6, BenchmarkAssumption DEF TimePasses, TypeOK, Times, session, cache
<1>7. CASE UNCHANGED vars
  BY <1>7 DEF vars, TypeOK, session, cache
<1>8. CASE Restart
  <2>1. /\ portfolio' \in Versions \cup {NULL} /\ replaced' \in [Versions -> Times \cup {NULL}]
        /\ versions' \in 0..MaxVersions
    <3>1. CASE Replace(NULL) /\ UNCHANGED versions
      BY <3>1, ReplaceType DEF TypeOK
    <3>2. CASE versions < MaxVersions /\ versions' = versions + 1 /\ Replace(versions')
      <4>1. versions' \in 0..MaxVersions /\ versions' \in Versions
        BY <3>2, BenchmarkAssumption DEF TypeOK, Versions
      <4> QED
        BY <3>2, <4>1, ReplaceType
    <3> QED
      BY <1>8, <3>1, <3>2 DEF Restart
  <2> QED
    BY <1>8, <2>1 DEF Restart, Idle, TypeOK
<1> QED
  BY <1>1, <1>2, <1>3, <1>4, <1>5, <1>6, <1>7, <1>8 DEF Next

(* Every variable of the benchmark's cache keeps its type.                 *)
THEOREM TypeCorrect == Spec => []TypeOK
  BY InitType, StepType, PTL DEF Spec

-----------------------------------------------------------------------------
(* How long an attribution outlives its portfolio *)

(* A portfolio is replaced once, and after it was stored.                  *)
ReplacedOnce ==
    /\ portfolio # NULL => portfolio <= versions /\ replaced[portfolio] = NULL
    /\ \A v \in Versions : v > versions => replaced[v] = NULL

(* The request under way read its portfolio while it was current, and not  *)
(* longer ago than a call may take.                                        *)
InFlight ==
    get.step = "store" =>
        /\ get.portfolio \in Versions /\ get.since \in Times
        /\ get.since <= now /\ now <= get.since + CallTimeout
        /\ replaced[get.portfolio] = NULL \/ get.since <= replaced[get.portfolio]

(* What is in the cache was stored at most a call after its portfolio went.*)
Cached ==
    _benchmark_cache_time # NULL =>
        /\ _benchmark_cache_time <= now
        /\ attribution # NULL =>
             \/ replaced[attribution] = NULL
             \/ _benchmark_cache_time <= replaced[attribution] + CallTimeout

ShownBefore == shown.attribution # NULL => shown.at \in Times /\ shown.at <= now

StaleInv == TypeOK /\ ReplacedOnce /\ InFlight /\ Cached /\ ShownBefore /\ StaleOnlyForTTL

LEMMA InitStale == Init => StaleInv
<1> SUFFICES ASSUME Init PROVE StaleInv
    OBVIOUS
<1>1. TypeOK
  BY InitType
<1> QED
  BY <1>1 DEF Init, Idle, StaleInv, ReplacedOnce, InFlight, Cached, ShownBefore, StaleOnlyForTTL

(* What Replace does to the time a portfolio was replaced at.              *)
LEMMA ReplacedNow ==
  ASSUME TypeOK, ReplacedOnce, NEW v, Replace(v), NEW u \in Versions
  PROVE  \/ replaced'[u] = replaced[u]
         \/ u = portfolio /\ replaced[u] = NULL /\ replaced'[u] = now
<1>1. replaced'[u] = IF u = portfolio THEN now ELSE replaced[u]
  BY DEF Replace
<1>2. u # NULL
  BY BenchmarkAssumption DEF Versions
<1> QED
  BY <1>1, <1>2 DEF ReplacedOnce

(* Another portfolio in the session, or none: what was shown until now is  *)
(* not older than its replacement.                                         *)
LEMMA ReplaceShown ==
  ASSUME StaleInv, NEW v, Replace(v), UNCHANGED <<now, shown>>
  PROVE  ShownBefore' /\ StaleOnlyForTTL'
<1>1. TypeOK /\ ReplacedOnce
  BY DEF StaleInv
<1> SUFFICES ASSUME shown.attribution # NULL
             PROVE  ShownBefore' /\ StaleOnlyForTTL'
  BY DEF ShownBefore, StaleOnlyForTTL
<1>2. shown.attribution \in Versions
  BY <1>1 DEF TypeOK
<1>3. \/ replaced'[shown.attribution] = replaced[shown.attribution]
      \/ replaced'[shown.attribution] = now
  BY <1>1, <1>2, ReplacedNow
<1> QED
  BY <1>1, <1>3, BenchmarkAssumption
     DEF StaleInv, ShownBefore, StaleOnlyForTTL, TypeOK, Times

(* Nor is what was read or cached.                                         *)
LEMMA ReplaceStale ==
  ASSUME StaleInv, NEW v, Replace(v), UNCHANGED <<now, cache, get>>
  PROVE  InFlight' /\ Cached'
<1>1. TypeOK /\ ReplacedOnce
  BY DEF StaleInv
<1>2. InFlight'
  <2> SUFFICES ASSUME get.step = "store"
               PROVE  InFlight'
    BY DEF InFlight
  <2>1. \/ replaced'[get.portfolio] = replaced[get.portfolio]
        \/ replaced'[get.portfolio] = now
    BY <1>1, ReplacedNow DEF StaleInv, InFlight
  <2> QED
    BY <2>1 DEF StaleInv, InFlight
<1>3. Cached'
  <2> SUFFICES ASSUME _benchmark_cache_time # NULL, attribution # NULL
               PROVE  Cached'
    BY DEF Cached, StaleInv, cache
  <2>1. attribution \in Versions
    BY <1>1 DEF TypeOK
  <2>2. \/ replaced'[attribution] = replaced[attribution]
        \/ replaced'[attribution] = now
    BY <1>1, <2>1, ReplacedNow
  <2> QED
    BY <1>1, <2>2, BenchmarkAssumption DEF StaleInv, Cached, cache, TypeOK, Times
<1> QED
  BY <1>2, <1>3

LEMMA ReplacedOnceKept ==
  ASSUME StaleInv, NEW v, Replace(v),
         \/ v = NULL /\ versions' = versions
         \/ v = versions + 1 /\ versions' = v /\ v \in Versions
  PROVE  ReplacedOnce'
<1>1. TypeOK /\ ReplacedOnce
  BY DEF StaleInv
<1>2. ASSUME NEW u \in Versions, u > versions
      PROVE  replaced'[u] = NULL
  <2>1. u # portfolio
    BY <1>1, <1>2, BenchmarkAssumption DEF TypeOK, ReplacedOnce, Versions
  <2> QED
    BY <1>1, <1>2, <2>1, ReplacedNow DEF ReplacedOnce
<1>3. portfolio' = v
  BY DEF Replace
<1> QED
  BY <1>1, <1>2, <1>3, BenchmarkAssumption DEF ReplacedOnce, TypeOK, Versions

LEMMA GetStale == StaleInv /\ get_benchmark => StaleInv'
<1> SUFFICES ASSUME StaleInv, get_benchmark
             PROVE  StaleInv'
    OBVIOUS
<1>1. TypeOK /\ TypeOK'
  BY GetType DEF StaleInv
<1>2. ReplacedOnce' /\ UNCHANGED <<now, session>>
  BY DEF StaleInv, ReplacedOnce, get_benchmark, GetEmpty, GetCached, GetMiss, GetFetch,
         GetRaise, GetNoPortfolio, GetRead, GetStore, session
<1>3. InFlight'
  <2>1. CASE GetRead
    <3>1. get' = [get EXCEPT !.step = "store", !.portfolio = portfolio, !.since = now]
      BY <2>1 DEF GetRead
    <3>2. get'.portfolio = portfolio /\ get'.since = now
      BY <1>1, <3>1 DEF TypeOK
    <3>3. portfolio \in Versions /\ replaced[portfolio] = NULL
      BY <1>1, <2>1 DEF GetRead, TypeOK, StaleInv, ReplacedOnce
    <3>4. now \in Times /\ now <= now /\ now <= now + CallTimeout
      BY <1>1, BenchmarkAssumption DEF TypeOK, Times
    <3> QED
      BY <1>2, <3>2, <3>3, <3>4 DEF InFlight, session
  <2>2. CASE GetEmpty \/ GetCached
    BY <1>2, <2>2 DEF GetEmpty, GetCached, StaleInv, InFlight, session
  <2>3. CASE GetMiss \/ GetFetch \/ GetRaise \/ GetNoPortfolio \/ GetStore
    <3>1. CASE GetFetch
      BY <1>1, <3>1 DEF GetFetch, InFlight, TypeOK
    <3>2. CASE GetMiss
      BY <3>2 DEF GetMiss, InFlight, Idle
    <3>3. CASE GetRaise \/ GetNoPortfolio \/ GetStore
      BY <3>3 DEF GetRaise, GetNoPortfolio, GetStore, InFlight, Idle
    <3> QED
      BY <2>3, <3>1, <3>2, <3>3
  <2> QED
    BY <2>1, <2>2, <2>3 DEF get_benchmark
<1>4. Cached'
  <2>1. CASE GetStore
    <3>1. /\ attribution' = get.portfolio /\ _benchmark_cache_time' = now
          /\ get.step = "store"
      BY <2>1 DEF GetStore
    <3> QED
      BY <1>1, <1>2, <3>1, BenchmarkAssumption
         DEF StaleInv, InFlight, Cached, session, TypeOK, Times
  <2>2. CASE ~GetStore
    <3>1. UNCHANGED cache
      BY <2>2 DEF get_benchmark, GetEmpty, GetCached, GetMiss, GetFetch, GetRaise,
                  GetNoPortfolio, GetRead
    <3> QED
      BY <1>2, <3>1 DEF StaleInv, Cached, session, cache
  <2> QED
    BY <2>1, <2>2
<1>5. ShownBefore' /\ StaleOnlyForTTL'
  <2> USE BenchmarkAssumption
  <2>1. CASE GetCached
    <3>1. shown'.attribution = attribution /\ shown'.at = now
      BY <2>1 DEF GetCached, Respond
    <3>2. _benchmark_cache_time # NULL /\ now - _benchmark_cache_time < TTL
      BY <2>1 DEF GetCached, CacheIsLive
    <3>3. attribution # NULL => attribution \in Versions
      BY <1>1 DEF TypeOK
    <3> QED
      BY <1>1, <1>2, <3>1, <3>2, <3>3
         DEF StaleInv, Cached, ShownBefore, StaleOnlyForTTL, session, TypeOK, Times
  <2>2. CASE GetStore
    <3>1. shown'.attribution = get.portfolio /\ shown'.at = now /\ get.step = "store"
      BY <2>2 DEF GetStore, Respond
    <3> QED
      BY <1>1, <1>2, <3>1
         DEF StaleInv, InFlight, ShownBefore, StaleOnlyForTTL, session, TypeOK, Times
  <2>3. CASE GetEmpty \/ GetNoPortfolio
    <3>1. shown'.attribution = NULL
      BY <2>3 DEF GetEmpty, GetNoPortfolio, Respond
    <3> QED
      BY <3>1 DEF ShownBefore, StaleOnlyForTTL
  <2>4. CASE GetMiss \/ GetFetch \/ GetRaise \/ GetRead
    <3>1. UNCHANGED shown
      BY <2>4 DEF GetMiss, GetFetch, GetRaise, GetRead
    <3> QED
      BY <1>2, <3>1 DEF StaleInv, ShownBefore, StaleOnlyForTTL, session
  <2> QED
    BY <2>1, <2>2, <2>3, <2>4 DEF get_benchmark
<1> QED
  BY <1>1, <1>2, <1>3, <1>4, <1>5 DEF StaleInv

LEMMA StepStale == StaleInv /\ [Next]_vars => StaleInv'
<1> SUFFICES ASSUME StaleInv, [Next]_vars
             PROVE  StaleInv'
    OBVIOUS
<1>1. TypeOK /\ TypeOK'
  BY StepType DEF StaleInv
<1>2. CASE get_benchmark
  BY <1>2, GetStale
<1>3. CASE StorePortfolio
  <2>1. /\ Replace(versions + 1) /\ versions' = versions + 1
        /\ UNCHANGED <<now, cache, get, shown>>
    BY <1>3 DEF StorePortfolio
  <2>2. versions + 1 \in Versions
    BY <1>1, <1>3, BenchmarkAssumption DEF StorePortfolio, TypeOK, Versions
  <2>3. ReplacedOnce'
    BY <2>1, <2>2, ReplacedOnceKept
  <2> QED
    BY <1>1, <2>1, <2>3, ReplaceStale, ReplaceShown DEF StaleInv
<1>4. CASE ClearPortfolio
  <2>1. Replace(NULL) /\ versions' = versions /\ UNCHANGED <<now, cache, get, shown>>
    BY <1>4 DEF ClearPortfolio
  <2>2. ReplacedOnce'
    BY <2>1, ReplacedOnceKept
  <2> QED
    BY <1>1, <2>1, <2>2, ReplaceStale, ReplaceShown DEF StaleInv
<1>5. CASE _save_snapshot_for_portfolio \/ _prune_old_snapshots \/ UNCHANGED vars
  <2>1. UNCHANGED <<now, session, cache, get, shown>>
    BY <1>5 DEF _save_snapshot_for_portfolio, _prune_old_snapshots, vars
  <2> QED
    BY <1>1, <2>1 DEF StaleInv, ReplacedOnce, InFlight, Cached, ShownBefore, StaleOnlyForTTL,
                      session, cache
<1>6. CASE delete_snapshot
  <2>1. UNCHANGED <<now, session, get, shown>> /\ _benchmark_cache_time' = NULL
    BY <1>6 DEF delete_snapshot
  <2> QED
    BY <1>1, <2>1 DEF StaleInv, ReplacedOnce, InFlight, Cached, ShownBefore, StaleOnlyForTTL,
                      session
<1>7. CASE TimePasses
  <2>1. /\ now' = now + 1 /\ UNCHANGED <<session, cache, get, shown>>
        /\ get.step = "store" => now - get.since < CallTimeout
    BY <1>7 DEF TimePasses
  <2>2. ReplacedOnce' /\ StaleOnlyForTTL'
    BY <2>1 DEF StaleInv, ReplacedOnce, StaleOnlyForTTL, session
  <2>3. InFlight'
    BY <1>1, <2>1, BenchmarkAssumption DEF StaleInv, InFlight, session, TypeOK, Times
  <2>4. Cached' /\ ShownBefore'
    BY <1>1, <2>1, BenchmarkAssumption
       DEF StaleInv, Cached, ShownBefore, session, cache, TypeOK, Times
  <2> QED
    BY <1>1, <2>2, <2>3, <2>4 DEF StaleInv
<1>8. CASE Restart
  <2>1. PICK v : /\ Replace(v)
                 /\ \/ v = NULL /\ versions' = versions
                    \/ v = versions + 1 /\ versions' = v /\ versions < MaxVersions
    BY <1>8 DEF Restart
  <2>2. \/ v = NULL /\ versions' = versions
        \/ v = versions + 1 /\ versions' = v /\ v \in Versions
    <3>1. versions < MaxVersions => versions + 1 \in Versions
      BY <1>1, BenchmarkAssumption DEF TypeOK, Versions
    <3> QED
      BY <2>1, <3>1
  <2>3. ReplacedOnce'
    BY <2>1, <2>2, ReplacedOnceKept
  <2>4. ShownBefore' /\ StaleOnlyForTTL'
    BY <1>8, <2>1, ReplaceShown DEF Restart
  <2>5. InFlight' /\ Cached'
    BY <1>8 DEF Restart, Idle, InFlight, Cached
  <2> QED
    BY <1>1, <2>3, <2>4, <2>5 DEF StaleInv
<1> QED
  BY <1>2, <1>3, <1>4, <1>5, <1>6, <1>7, <1>8 DEF Next

(* An attribution is not shown for longer than the TTL and one call after  *)
(* its portfolio left the session, whoever reads, stores or deletes.       *)
THEOREM StalenessBounded == Spec => []StaleOnlyForTTL
<1>1. StaleInv => StaleOnlyForTTL
  BY DEF StaleInv
<1> QED
  BY <1>1, InitStale, StepStale, PTL DEF Spec

-----------------------------------------------------------------------------
(* The chart *)

(* What keeps the chart: a request that comes back from Yahoo has a series *)
(* wherever one is cached.                                                 *)
HasSeries ==
    /\ get.step = "fetch" => get.series # 0
    /\ get.step \in {"read", "store"} /\ series \notin {NULL, 0} => get.series # 0

ChartInv == TypeOK /\ HasSeries

(* An answer with a chart, or to a request that found no snapshot.         *)
Charted == series \notin {NULL, 0} /\ (snapshots # {} \/ get.step # "idle") => shown'.series # 0

LEMMA InitChart == Init => ChartInv
  BY InitType DEF Init, Idle, ChartInv, HasSeries

LEMMA GetChart ==
  ASSUME ChartInv, get_benchmark
  PROVE  ChartInv' /\ (shown' = shown \/ Charted)
<1>1. TypeOK /\ TypeOK' /\ HasSeries
  BY GetType DEF ChartInv
<1>2. CASE GetEmpty
  <2>1. snapshots = {} /\ get.step = "idle" /\ UNCHANGED <<series, get>>
    BY <1>2 DEF GetEmpty, LoopFree, cache
  <2> QED
    BY <1>1, <2>1 DEF ChartInv, HasSeries, Charted
<1>3. CASE GetCached
  <2>1. UNCHANGED <<series, get>> /\ shown'.series = series
    BY <1>3 DEF GetCached, Respond, cache
  <2> QED
    BY <1>1, <2>1 DEF ChartInv, HasSeries, Charted
<1>4. CASE GetMiss
  <2>1. get' = [step |-> "fetch", series |-> Min(snapshots), portfolio |-> NULL, since |-> NULL]
    BY <1>4 DEF GetMiss, Idle
  <2>2. Min(snapshots) \in Dates
    BY <1>1, <1>4, BenchmarkAssumption, OldestDate DEF GetMiss, TypeOK, Dates
  <2>3. Min(snapshots) # 0 /\ UNCHANGED shown
    BY <1>4, <2>2 DEF Dates, GetMiss
  <2> QED
    BY <1>1, <2>1, <2>3 DEF ChartInv, HasSeries
<1>5. CASE GetFetch
  <2>1. PICK fetched \in {get.series, 0} :
            get' = [get EXCEPT !.step = "read", !.series =
                      IF fetched = 0 /\ series \notin {NULL, 0} THEN series ELSE fetched]
    BY <1>5 DEF GetFetch
  <2>2. UNCHANGED <<series, shown>> /\ get.step = "fetch"
    BY <1>5 DEF GetFetch, cache
  <2>3. /\ get'.step = "read"
        /\ get'.series = IF fetched = 0 /\ series \notin {NULL, 0} THEN series ELSE fetched
    BY <1>1, <2>1 DEF TypeOK
  <2> QED
    BY <1>1, <2>2, <2>3 DEF ChartInv, HasSeries
<1>6. CASE GetRaise
  <2>1. get'.step = "idle" /\ UNCHANGED shown
    BY <1>6 DEF GetRaise, Idle
  <2> QED
    BY <1>1, <2>1 DEF ChartInv, HasSeries
<1>7. CASE GetNoPortfolio
  <2>1. /\ get.step = "read" /\ get'.step = "idle"
        /\ shown'.series = get.series
    BY <1>7 DEF GetNoPortfolio, Respond, Idle
  <2> QED
    BY <1>1, <2>1 DEF ChartInv, HasSeries, Charted
<1>8. CASE GetRead
  <2>1. /\ get.step = "read" /\ get'.step = "store" /\ get'.series = get.series
        /\ UNCHANGED <<series, shown>>
    BY <1>1, <1>8 DEF GetRead, cache, TypeOK
  <2> QED
    BY <1>1, <2>1 DEF ChartInv, HasSeries
<1>9. CASE GetStore
  <2>1. /\ get.step = "store" /\ get'.step = "idle" /\ shown'.series = get.series
    BY <1>9 DEF GetStore, Respond, Idle
  <2> QED
    BY <1>1, <2>1 DEF ChartInv, HasSeries, Charted
<1> QED
  BY <1>2, <1>3, <1>4, <1>5, <1>6, <1>7, <1>8, <1>9 DEF get_benchmark

LEMMA StepChart ==
  ASSUME ChartInv, [Next]_vars
  PROVE  ChartInv' /\ (shown' = shown \/ Charted)
<1>1. TypeOK /\ TypeOK'
  BY StepType DEF ChartInv
<1>2. CASE get_benchmark
  BY <1>2, GetChart
<1>3. CASE Restart
  <2>1. get'.step = "idle" /\ UNCHANGED shown
    BY <1>3 DEF Restart, Idle
  <2> QED
    BY <1>1, <2>1 DEF ChartInv, HasSeries
<1>4. CASE \/ StorePortfolio \/ ClearPortfolio \/ _save_snapshot_for_portfolio
           \/ _prune_old_snapshots \/ delete_snapshot \/ TimePasses \/ UNCHANGED vars
  <2>1. UNCHANGED <<series, get, shown>>
    BY <1>4 DEF StorePortfolio, ClearPortfolio, _save_snapshot_for_portfolio, _prune_old_snapshots,
                delete_snapshot, TimePasses, vars, cache
  <2> QED
    BY <1>1, <2>1 DEF ChartInv, HasSeries
<1> QED
  BY <1>2, <1>3, <1>4 DEF Next

(* As long as one run of the process has a series in its cache, a request  *)
(* that has found a snapshot is answered with a chart, through Yahoo's     *)
(* refusals and errors, deletions, prunes and invalidations.               *)
THEOREM ChartIsKept == Spec => ChartStaysUp
<1>1. ASSUME ChartInv, [Next]_vars
      PROVE  ChartInv' /\ [Charted]_shown
  BY <1>1, StepChart
<1>2. ChartInv /\ [Next]_vars
      => /\ ChartInv'
         /\ [series \notin {NULL, 0} /\ (snapshots # {} \/ get.step # "idle")
              => shown'.series # 0]_shown
  BY <1>1 DEF Charted
<1> QED
  BY <1>2, InitChart, PTL DEF Spec, ChartStaysUp
=============================================================================
