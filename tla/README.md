# Brokr, specified

TLA+ specifications of Brokr (`src/app`), a personal portfolio dashboard: a
FastAPI process that fetches positions from DeGiro with a single-use token,
enriches them with market data from Yahoo, keeps the result in one in-memory
session, saves a snapshot per day, and serves a single-page client.

Line numbers refer to the files under `src/`; `PROJECT.json` maps every
definition that models code to its lines, lists the runs, the mutants, the
hazards and the theorems.

## 1. Inventory

### How the program runs

One process, one asyncio event loop. Coroutines give the loop up only at an
`await`; a coroutine that calls a blocking function (DeGiro, `save_snapshot`,
the whole of `GET /api/benchmark`) keeps it. Worker threads run where the code
says `asyncio.to_thread`, and where FastAPI runs a plain function (the rate
limiter). State is shared through module globals, a few `threading.Lock`s, one
`asyncio.Lock`, and files under `/data` and `snapshots/`. There is no database;
a restart begins from the newest snapshot.

So the granularity of every module is: for a coroutine, what happens between
two awaits; for a thread, what happens between two accesses to shared state,
or between two system calls on a shared file.

### Components

| component (source) | state | operations | what makes it hard | what makes it correct |
|---|---|---|---|---|
| session, operation lock, enrichment (`main.py` 64-98, 191-198, 398-528, 627-945, 1126-1178, 1335, 1473) | `_session`, `_operation_lock` and its flag, `daily_valuations.json` | login, logout, expiry, `GET /api/portfolio`, `POST /api/refresh-prices`, two daily loops, rebalance plan, manual snapshot, start, stop | requests hold data over awaits; enrichment threads run for minutes; daily loops bypass the lock; three writes that can fail separately; kills | operations exclude each other, no refresh buries a newer portfolio, a token is used once, the status flag can be trusted by a polling client, everything ends |
| snapshot store (`snapshots.py`, `main.py` 364-395, 1449-1470) | `{date}.json`, `{date}.json.tmp` | save, prune, load, delete | shared temporary file, kills between system calls, prune against delete, local against UTC date | files are whole, a start restores the newest save, the store is never emptied |
| benchmark cache (`main.py` 100-103, 1367-1426) | `_benchmark_cache`, its time | `GET /api/benchmark` | invalidation from elsewhere, empty answers of Yahoo, threads that store meanwhile | bounded staleness, a cached chart stays while the process runs |
| watchlist (`watchlist_store.py`, `main.py` 1244-1314) | `watchlist.json` and its temporary file | add, remove, override type, re-resolve, list | check before an await and act after it, the loop blocking on a thread's lock, kills | one entry per ISIN, cap, no lost update, a manual type survives, requests end |
| rate limiter (`rate_limiter.py`) | timestamps per address | `check_rate_limit` | clock read outside the lock, window boundary | the limit, and no undeserved refusal |
| market data (`market_data.py`) | symbol, FX, price, fundamentals caches, overrides file | resolve, fetch, enrich, clear | globals shared by threads, two paths that find the currency differently, negative caching, whole-file saves, deferred saves | a value in EUR was converted at the rate of its own unit; the file holds what memory holds |
| DeGiro client (`degiro_client.py`) | fetch cache by `id(trading_api)` | login variants, fetch, parse | identity reuse, slow path under a lock | a fetch returns the data of its own login |
| daily valuation log (`main.py` 109-139) | `daily_valuations.json` | append, daily change | rewritten in place; unreadable counts as empty | history survives; today's change is against another day |
| rebalancing planner (`rebalance.py`) | none; the route writes weights into the session | `plan_contribution` | rounding in four places, a cap checked in two, matching by symbol | spends and reserves what it was given, within the cap and the targets of the classes |
| scoring, health checks, universe | none | weights, scores, alerts, candidates | missing and tied numbers, three of six factors inverted, pools of different members | a better position scores no lower; candidates and alerts agree |
| web client (`static/*.js`) | `portfolioData`, `operationActive` | poll loop, tabs | polls a flag that may never rise | says "updated" when something was |
| authentication (`auth.py`, `main.py` 20-60) | none (signed cookie) | cookie, token, middleware | expiry boundary | no route is open by accident |
| Indexa client (`indexa_client.py`) | token | fetch with renewal on 401 | concurrent renewals | one retry, no stale token kept |
| context builder, schemas, debug scripts | none | formatting, diagnostics | - | - |

### Who calls whom

- `GET /api/portfolio` and every enrichment end with
  `_save_snapshot_for_portfolio` (snapshot store, which reads Yahoo) and write
  the session; `GET /api/benchmark` reads both and caches.
- `DELETE /api/snapshots/{date}` invalidates the benchmark cache; saving,
  login, logout and sync do not.
- The session's positions decide what the watchlist accepts and which
  candidates are shown; `/api/rebalance-plan` reads the session and, with
  `total_portfolio_eur`, writes into its positions.
- `_do_enrich_session` calls `enrich_positions`, then scoring, candidates and
  health checks, and stores what they return; the watchlist is enriched and
  scored beside copies of the session's positions whenever it is shown.
- The client polls `/api/enrichment-status`, the one flag `enriching`.

## 2. Modules

| module | models | over |
|---|---|---|
| `Session` | session, operation lock, enrichments, start, stop, kill | - |
| `SnapshotStore` | abstract: what the snapshot directory promises | - |
| `Snapshots` | saves, pruning, deletion, by system call | `SnapshotStore` |
| `WatchlistStore` | abstract: what the watchlist promises | - |
| `Watchlist` | routes, critical sections and file writes | `WatchlistStore`, `Comprehension` |
| `Benchmark` | the benchmark route and its cache | - |
| `RateLimiter` | the limiter with its clock outside the lock | `Comprehension` |
| `Comprehension` | Python's list comprehension with a condition, and its stable sort | - |
| `Resolution` | from a DeGiro position to a Yahoo ticker, as functions | - |
| `MarketData` | enrichment: threads, caches, file, conversion | `Resolution` |
| `Scoring` | weights, gates, z-scores, scores, candidates, as functions | `Comprehension` |
| `Rebalance` | the planner, as functions | `Scoring` |
| `Analysis` | summary, alerts and the planner's route, as a state machine | `Rebalance` |
| `MC...` | symmetry, small sets and sample data for TLC | the module of that name |
| `X_proofs`, for `Session`, `Snapshots`, `Watchlist`, `Benchmark`, `RateLimiter`, `MarketData`, `Analysis` and `Comprehension` | theorems and lemmas | `X` |

Names are the source's wherever TLA+ allows (`_do_enrich_session`,
`operation_lock_held`, `load_latest_snapshot`). A definition `X_WithBug` just
before `X` is `X` with a mistake one could make; no specification uses it, each
serves to see that a property can fail (`mutants` in `PROJECT.json`).

`Comprehension` says by counting what the library's `SelectSeq` and `SortSeq`
say by recursion and by choice: the n-th item kept is the one with n - 1 kept
items before it. TLC computes the same lists from it, and it can be proved
about.

### Session

A portfolio is the login its DeGiro data came from (0 for what the first start
found on disk), the number of the computation that produced it, which code
computed it, on which day, and the total its weights refer to. Positions, prices
and scores are inside that number: two portfolios computed at different times
differ. A time the session shows is a moment: of which computation it is the
commit (`Now`), or of none, midnight of the day a snapshot's file is named after,
which is what a restart shows (`main.py:448`).

| code | model |
|---|---|
| `_session` fields | `trading_api` (which login), `session_time`, `portfolio`, `last_enriched_at`, `enriching` |
| `_operation_lock`, `_operation_lock_held` | `operation_lock`, `operation_lock_held` |
| `_acquire_operation_lock` / `_release_operation_lock` | same names; the test of the flag and the uncontended `await` of the lock are one step, because the lock is never contended when the flag is down |
| `GET /api/portfolio` | `PortfolioStart` (lock, session check, DeGiro fetch: no await), `PortfolioSave` (threads back, snapshot written on the loop), `PortfolioCommit`, `PortfolioFail` |
| `POST /api/refresh-prices` | `refresh_prices` (task created), `RefreshAcquire` or `RefreshSkip`, `RefreshRelease` |
| daily loops | `_daily_enrichment_loop`, `_daily_eod_loop`, `DailySleep`; `DailyLoops` says which processes take either part |
| `_do_enrich_session` | `EnrichFlag`, `EnrichRead`, `EnrichCommit`, `EnrichSave`, `EnrichUnflag`, and `EnrichFail` for an exception before the commit |
| `_record_daily_valuation` | `EnrichTruncate` (read, then `open("w")`), `EnrichDump`; a failure or a kill in between leaves a file nobody can read (`valuation = NULL`), and so may another writer's text |
| `_save_snapshot_for_portfolio` | same name: the file is named after a day between the one the data were read on and today, or the save fails |
| `/api/rebalance-plan` | `get_rebalance_plan`, the write through the shallow copy |
| `POST /api/snapshots/save` | `ManualSaveRead`, `ManualSaveWrite` |
| login, logout, TTL | `Login`, `Logout`, `SessionExpires` |
| `lifespan` | `Start` (restore), `Shutdown`; `Die` is a kill at any moment |
| the calendar | `Midnight`, at most `MaxDays` times |

`LoopFree` says that no coroutine is inside a blocking call; every coroutine
step needs it, no thread step does. `PortfolioSave` and `PortfolioCommit` are two
steps although no await lies between them: threads run in between, and the
process may be killed there. Requests that change nothing (a cached portfolio,
400, 401, 409, `/api/portfolio-raw`, `/api/enrichment-status`, a failed login
or fetch) are stuttering steps.

### Snapshots over SnapshotStore

An open file is an inode. `open(tmp, "w")` creates an inode or truncates the
one a dead or concurrent writer left, a file is written in two chunks at the
writer's own offset, `os.rename` publishes the inode the temporary name then
has. Two chunks are enough to tell a whole file from a cut or mixed one. All
saves are taken to have the same length: a shorter file that overwrites a
longer one would be torn in more ways, never in fewer. The prune cutoff comes
from the UTC date, a day off either way. A snapshot is the number of the save
that wrote it.

`SnapshotStore` promises: a save is one step and brings the newest data, and
neither pruning nor deletion takes the last snapshot.

### Watchlist over WatchlistStore

The file is a sequence of entries (ISIN, asset type, who chose it). Add and
re-resolve wait for Yahoo on a thread (`resolving`); every operation then runs
lock, read, change (`add_entry`, `remove_entry`, `set_asset_type`,
`update_resolution`, as functions from items to items), temporary file,
replace, on the event loop. Worker threads take the same lock to list. While a
request waits for that lock the whole loop waits, so nothing else runs on it.
What DeGiro's positions make of an add (an owned ISIN is refused) changes at
any time and is asked once, so either answer may come. `ReadFaults` lets a read
raise, which the code takes for an empty list; the run assumes that reads
succeed (section 7 says what happens when not).

`WatchlistStore` promises one entry per ISIN, a cap, atomic operations, and
that only a hand changes a type chosen by hand.

### Benchmark

A series is the first snapshot date it is indexed to, an attribution the
portfolio it was computed from. The route is split where it reads something
that a thread may change: `GetCached`, `GetMiss`, `GetFetch` (Yahoo answers,
or the stale series is served), `GetRaise`, `GetRead`, `GetStore`. A save writes
its file and lists the older ones (`doomed`); `_prune_old_snapshots` unlinks them
one by one, in a thread, while a DELETE looks at what is there: between the two
the directory may be emptied. `Restart` begins without a cache, with the
portfolio of a snapshot or none; it counts as one more portfolio. Time is a
counter; `_benchmark_cache_time = NULL` stands for 0.0, long before any request.
`CallTimeout` bounds how long Yahoo may keep the route between reading the
portfolio and storing its attribution.

### RateLimiter

Each request reads the clock, and some time later (at most `MaxDelay`) holds
the lock and cleans, counts and appends with the time it read. `accepted`
records when requests were really let through, for the properties to compare.
The model covers one run of the process: a restart forgets the store.

### Resolution

A ticker is a name and an exchange suffix; what Yahoo lists, what it finds for
an ISIN and which ISIN it gives for a ticker are constants. The suffix tables,
the order of suffixes by country, the preferred exchanges by currency and the
checks of each stage are the code's. The constants are taken to fit together
(`MarketAssumption`: every ISIN has quotes, if none, and a US share has an
ISIN). Because every question may fail, find
nothing (404) or be refused (429), `Resolutions` is the set of results a
resolution may have; `Then` puts the stages one after the other. Symbols come
in the forms the code distinguishes: plain, dotted, numeric, with a share class
(`Name`, which is what makes `RawKey` and `NormKey` differ), and none. What
DeGiro calls a position may be somebody else's ticker at Yahoo (`SymbolTicker`).

### MarketData over Resolution

An amount is known by the unit it is really in (EUR, pence, a hundredth of a
pound...), a converted value by the currency at whose rate it was converted:
that is all `ValueConverted` compares, and quantities and prices are left out.

| code | model |
|---|---|
| `_resolution_cache`, `_price_cache`, `_fx_cache`, `_yf_rate_limited` | same names; an age is a day (24 h), or an action that lets an entry expire (the 60 s, the price's and the rate's TTL) |
| `enrich_positions` steps 1-4 | `EnrichStart`, `ResolveOne`/`ResolveWrite`/`ResolveDone`, `Download`, `ConvertToEur`; `EnrichRaises` when a thread raised |
| `enrich_position` in its thread | `Lookup`, then the fast path (`WarmRead`) or `ResolveThread`/`WriteThread`, `AskInfo`, `Price`/`PriceMissing` |
| `_resolve_yf_symbol` | a look into the cache with the questions that follow (`Resolved`), and a later step in which the answer, kept in `job.found`, is written to whatever the cache is by then (`Written`) |
| `history_batch.get(yf_sym) or history_batch.get(symbol)` | `WarmRead`: the batch's price of the resolved ticker, or of `SymbolTicker`, or the price cache's |
| `_save_symbol_cache` | `SaveCopy` under the file lock, `SaveDump`, which fails when the shallow copy changes under it, or when the disk refuses (`Denied`) |
| `_save_defer` | the resolution loop saves once, in `ResolveDone`; a save by one of the threads is immediate, since the flag is thread-local |
| `_load_symbol_cache`, `clear_symbol_cache` | `Restart`, `clear_symbol_cache` |

Refreshes start from what the session shows, syncs from what DeGiro reports, so
what an enrichment got wrong is there for the next one. `InfoFaults` lets
`ticker.info` fail in a way that counts as an empty answer, `ClearWhileBusy`
lets the cache be cleared during an enrichment; both are constants so that a
run can say which assumption it makes. The disk may refuse any access to the file
up to day `MaxBadDay`: every error of a save, a load or a removal is swallowed,
and `io_failed` remembers that the last one was. An entry that the resolver
looks past is deleted even when the questions that follow are refused
(`Forgotten`).

### Scoring, Rebalance, Analysis

Integers stand for the code's floats: amounts in cents, weights and scores in
hundredths, allocations in tenths of a percent; a price per share keeps
`PRICE_SCALE` fractions of a cent. The code's `round` is rounding to nearest;
Python's ties to even and the binary error of floats are below what the
properties tell apart. A z-score is `0.5 + d / (3 std)` compared by squares and
rounded down to hundredths on both sides of the mean, which keeps its order;
the floor under the standard deviation is left out. `(headroom/20)^1.5`
is found by cubes and squares in the same way.

`Scoring` and `Rebalance` are functions of sequences of positions, in the
code's order, with Python's stable sort. `Analysis` is the state around them:
`EnrichAndScore` stores a summary made from any of the `Markets` given, with
the watchlist's candidates or, when its enrichment raises, without. The
watchlist is enriched apart and later (`universe.py:27`), so its quotes are any of
`WatchMarkets`, also for a stock that is held as well, and nothing keeps such a
stock from the candidates. The thresholds of the alerts are the defaults of
their environment variables. `get_rebalance_plan` answers 400, an empty plan, a
plan, or 500 where a value is unknown, and leaves the weights against
`total_portfolio_eur` behind;
`Discard` is logout and expiry. Since a summary depends on nothing that was
there before, `EnrichAndScore` starts from an empty session; enrichments over
each other are the subject of `Session`. The projected allocation and the
reasons and warnings of a plan are left out.

## 3. Runs

Everything below passes unless it says "violated". "Bounds" names the bounds
that cut the behaviours; the sets are small because each property is about at
most two actors of a kind and a third event between them.

| run | question | bounds |
|---|---|---|
| `session_serial` | What the lock buys when only requests and refresh tasks run: `OpLockExclusive`, `RefreshCommitsOntoItsBase`, `TokenYieldsOnce`, `PortfolioStamped`, `ValuationCoversRefresh`, `DiskNeverOlder` | 2 GETs, 2 refresh tasks, 1 manual save, 2 logins, 3 computed portfolios, 1 midnight: enough for two operations to overlap, a third portfolio to be buried or resurrected, and a save on a later day |
| `session_full` | What is left when a daily loop writes without the lock: `OpLockExclusive`, `TokenYieldsOnce`, `EnrichingIsBacked`; and, under fairness, that the lock comes back, refreshes end and a reported enrichment ends | 1 GET, 1 refresh, 1 daily loop, 1 login, 2 portfolios besides the one on disk: any two writers overlap; no symmetry |
| `session_daily` | violated: `OperationsExclude`, the promise of `main.py:76` | 2 portfolios |
| `snapshots_loop` | Saves and deletions that keep the loop implement `SnapshotStore`; `FilesWhole`, `RestoresNewest` | 2 writers on the loop, 1 DELETE, 4 saves over 3 days, retention 1: prune, replace, and fail twice |
| `snapshots_torn` | violated: `FilesWhole` with two writers | 2 saves, 1 day |
| `watchlist` | `OneEntryPerIsin`, the file implements `WatchlistStore`, and requests end although they stop the loop | 2 requests and a listing thread on one lock, 2 ISINs, cap 2: a full list, a duplicate, a removal under an add. With two ISINs the cap follows from uniqueness; `NoDuplicates` proves both for any cap |
| `benchmark_cache` | `StaleOnlyForTTL`, `ChartStaysUp` | TTL 2, time 5: two expiries, 3 portfolios (restored ones counted), 2 dates: one to prune, one to delete; restarts |
| `benchmark_saved` | violated: `SaveInvalidates`, the promise of `main.py:365` | 2 portfolios, time 2 |
| `ratelimiter` | `AtMostMaxAttempts`, `RefusedOnlyAtTheLimit` | 3 requests of one address, 2 attempts per 4 ticks, delay 2, time 9: more than two windows; addresses share nothing but the lock |
| `market` | `ValueConverted`, `DiskMatches` where no listing is in pence | 1 ETF on Xetra, 1 US share, enriched together by two threads again and again, 2 days: every cache warm, cold and expired, and a day old; restarts; on the first day the disk may refuse (`MaxBadDay = 0`) |
| `market_pence` | violated: `ValueConverted` for an ETF on the London exchange, the promise of `README.md:61` | 1 position, 1 day, nothing else fails |
| `analysis` | `BetterScoresHigher`, `NeverBuyAndTrim`, `PlanReconciles`, `CapHeld`, `NeverBeyondTarget` | 2 ETFs, 4 stocks (the smallest pool with scores), a watchlist of another stock and one of those four; 64 markets and 4 answers for the watchlist on both sides of every gate, 4 contributions, with and without assets elsewhere, plan after plan |

`MaxVersions`, `MaxLogins`, `MaxDays`, `MaxSaves`, `MaxDay`, `MaxBadDay`,
`MaxDate`, `MaxTime` are the bounds on counters; they appear as guards. In `Session` a process for which no
number is left stays where it is or fails: `EnrichFail` and a kill are always
possible, so no liveness property holds because of the bound alone. In
`analysis` the amounts are small so that products fit TLC's 32 bits;
`MIN_SPEND_PER_POS` is scaled with them, so that two to four candidates share a
budget as they do for real amounts.

Deadlock is checked in every run.

## 4. Properties, and where they hold

- `OpLockExclusive`: flag, `asyncio.Lock` and critical sections agree. It is
  not obvious, because `_release_operation_lock` frees the lock whoever calls it.
- `RefreshCommitsOntoItsBase`, `DiskNeverOlder`, `ValuationCoversRefresh` hold
  only without the daily loops: with them two enrichments overlap and the later
  commit wins, whatever it was computed from. `OperationsExclude` shows the
  overlap. `DiskNeverOlder` excepts the manual save, which writes what it read
  before it waited; `ValuationCoversRefresh` the refresh that was cut short while
  it wrote the log (section 7).
- `TokenYieldsOnce`, `PortfolioStamped`, `EnrichingIsBacked` hold with them
  (`PortfolioStamped` by proof; its run has no daily loop).
- `PortfolioStamped` speaks of two kinds of time: that of a commit, which is the
  shown portfolio's own, and midnight of the day of a file, which is no earlier
  than the day the data were read, and may be later than all of them.
- `ChartStaysUp` is about one run of the process and requests that find a
  snapshot: neither holds of a restart or of an emptied directory.
- `FilesWhole` holds with one writer and fails with two on the same day; two
  are possible, a daily loop beside a refresh or a manual save.
- `ImplementsStore` holds where saves keep the event loop.
- `StaleOnlyForTTL` bounds an attribution's life after the portfolio was
  replaced by TTL plus one call: neither a hit nor a fallback renews it.
- `AtMostMaxAttempts` is the limit less the time a thread may lose between the
  clock and the lock; with `MaxDelay = 0` it is README's "5 attempts/IP/60s".
- `ValueConverted` leaves out `Namesakes`, positions whose DeGiro symbol is
  another listing's ticker in another currency, of which it is false (section 7).
  Neither instrument of the run is one; the theorem is for any positions. It
  follows an amount through two paths, two caches and earlier
  enrichments to the conversion, where a label that was right when it was made
  may be wrong. It holds for listings in EUR and USD under the exchanges the
  `market` run has, and fails for pence.
- `DiskMatches` says nothing while the last access to the file was refused, and
  that the next save makes good for it. It needs the file lock to cover copy and write (a mutant that
  copies before it takes the lock loses a resolution), and the deferred save to
  come before the threads start.
- `BetterScoresHigher` compares positions that agree on which data is missing:
  a missing number counts as neutral, which may be better or worse than a real
  one. It is what makes the inverted factors worth checking together.
- `NeverBuyAndTrim` holds because the gate blocks on either signal and the
  alert needs both, for the copies of a stock one at a time: a candidate is never
  one that would be trimmed for its own signals, and a held candidate is in no
  alert. A stock that is also watched may be in both lists (section 7). It says
  nothing of ETFs, which no gate blocks
  (`health_checks.py:121` calls the alert "the exact inverse of the buy gate").
  The alert's threshold comes from the environment, the gate's does not: below
  70, `HEALTH_OVERBOUGHT_RSI` would make them contradict each other.
- `PlanReconciles` allows a cent and one for each of the shares that phase 3 can
  add: 1 + 2 * 18, for two classes of six candidates in three passes. A top-up
  rounds twice: the entry of the purchase, where `spent` is not rounded, and
  `remaining`, which may round up what the budget still has. `tests/test_rebalance.py` allows less than
  two cents, which is too few (section 7).
- `CapHeld` and `NeverBeyondTarget` hold of plans made with weights an earlier
  plan left behind: the cap is checked against values, not weights. `CapHeld`
  takes symbols that differ (`SymbolsApart`), as in the markets of `analysis`:
  phase 3 finds the entry to add to by symbol (section 7).

## 5. Fairness

`Session`: an enrichment thread goes on (`WF`, its network calls time out); a
coroutine whose await is over is resumed although the loop is only free now
and then (`SF`: asyncio's ready queue is FIFO); a process that is told to stop
ends (`WF` on `~up /\ Die`). Nobody has to send a request, and no daily loop
has to wake. `Watchlist`: a request on the loop goes on (`WF`), one whose
answer is back is resumed (`SF`), a listing thread goes on (`WF`). The
`threading.Lock` needs no fairness: threads are started by the loop, so none
comes while the loop waits for the lock.

The violated runs are about safety and need none.

## 6. Proofs

TLAPS proves, for any number of processes and any bounds, from the named
assumptions of the modules (disjoint sets of processes, bounds in `Nat`,
`NULL` none of the values; TLC evaluates them in the runs):

| theorem | statement |
|---|---|
| `Session_proofs!TypeCorrect` | `Spec => []TypeOK`, with `WorkReady`: what a process at work has computed is a portfolio |
| `Session_proofs!OperationLockExcludes` | `Spec => []OpLockExclusive` |
| `Session_proofs!StatusIsBacked` | `Spec => []EnrichingIsBacked` |
| `Session_proofs!RefreshNeverBuries` | `Spec => []RefreshCommitsOntoItsBase` where no daily loop runs |
| `Session_proofs!StampIsThePortfolios` | `Spec => []PortfolioStamped` |
| `Session_proofs!TokenIsSingleUse` | `Spec => []TokenYieldsOnce` |
| `Session_proofs!RefreshIsLogged` | `Spec => []ValuationCoversRefresh` where no daily loop runs: logged, or a later refresh left the log unreadable |
| `Session_proofs!SnapshotNeverGoesBack` | `Spec => DiskNeverOlder`, an action property, where no daily loop runs, but for manual saves |
| `Snapshots_proofs!TypeCorrect` | `Spec => []TypeOK` |
| `Snapshots_proofs!SnapshotsAreWhole` | `Spec => []FilesWhole` with one writer, or any number on the event loop |
| `Snapshots_proofs!StartRestoresNewest` | `Spec => []RestoresNewest` under the same assumption |
| `Snapshots_proofs!StoreImplemented` | `Spec => ImplementsStore` where every save keeps the event loop |
| `Watchlist_proofs!TypeCorrect` | `Spec => []TypeOK` |
| `Watchlist_proofs!NoDuplicates` | `Spec => []OneEntryPerIsin`, even where reading the file may raise |
| `Watchlist_proofs!StoreImplemented` | `Spec => ImplementsWatchlist` where reading does not raise |
| `Benchmark_proofs!TypeCorrect` | `Spec => []TypeOK` |
| `Benchmark_proofs!StalenessBounded` | `Spec => []StaleOnlyForTTL`, for any TTL and duration of a call |
| `Benchmark_proofs!ChartIsKept` | `Spec => ChartStaysUp`, an action property: within one run of the process, for requests that find a snapshot |
| `RateLimiter_proofs!TypeCorrect` | `Spec => []TypeOK` |
| `RateLimiter_proofs!AttemptsBounded` | `Spec => []AtMostMaxAttempts`, for any requests, limit, window and delay |
| `RateLimiter_proofs!RefusalsDeserved` | `Spec => RefusedOnlyAtTheLimit`, an action property |
| `MarketData_proofs!TypeCorrect` | `Spec => []TypeOK`, for any positions, enrichments and answers of Yahoo |
| `MarketData_proofs!FileMatches` | `Spec => []DiskMatches` where the cache is not cleared under an enrichment (`ClearWhileBusy = FALSE`), unless the disk refused the last access |
| `MarketData_proofs!ValuesConverted` | `Spec => []ValueConverted` under `MeetAlike` and `Consistent`, see below; `Namesakes` left out |
| `Analysis_proofs!CandidatesAgree` | `Spec => []NeverBuyAndTrim`, for any positions, any watchlist and whatever either enrichment finds |
| `Analysis_proofs!TypeCorrect` | `Spec => []TypeOK` |
| `Analysis_proofs!BetterScores` | `Spec => []BetterScoresHigher`, for pools of any size |
| `Analysis_proofs!PlansReconcile` | `Spec => []PlanReconciles`, for any portfolio, total and contribution |
| `Analysis_proofs!CapIsHeld` | `Spec => []CapHeld` where symbols differ (`SymbolsApart`) |
| `Analysis_proofs!TargetsKept` | `Spec => []NeverBeyondTarget` |

`TypeOK` alone is not inductive: that a computed portfolio has a version in
range needs `WorkReady` (`work` is not `NULL` between read and save).
`OpLockExclusive` is inductive over the types: three lemmas say what one
process more, one less, and none does to it. `RefreshNeverBuries` rests on it:
a refresh past its read holds the lock, so the only other writers of the
portfolio are login and logout (which leave nothing) and the planner (which
keeps the version). For `SnapshotsAreWhole` the invariant says that a
published inode is whole and nobody's temporary file any more
(`PublishedWhole`, `TmpApart`), that inodes are numbered in the order of saves
so that a save's inode is fresh until it opens it (`NumberedInOrder`), and
that the writer's inode is a temporary file holding what it has written
(`WriterOwnsTmp`). The last part is what two writers break.

`TokenIsSingleUse` needs to know that owners are logins that have happened
(`OwnersIssued`), so that a new token is newer than all of them, and that a
refresh about to commit carries an owner older than every token still held
(`RefreshesOlder`): it may put an old portfolio back after a newer one, but
never one whose token is still there. `StaysOlder` is the lemma they share: no
step but a login makes a token, and no step makes one older.

`StampIsThePortfolios` needs days to be in order (`Dated`): nothing in hand, shown
or on disk was computed on a day to come, and the file is named after no day
before its data. `RefreshIsLogged` follows a computation from the log to commit
to save (`ProcLogged`: once past the log it is there) and keeps the same of what
is shown, on disk or in the hands of a manual save (`Kept`, `Logged`). A refresh
that truncates the log is newer than all of those, because the lock leaves one
refresh at a time, so the log may become unreadable under it: that is the second
half of `Logged`, which says that a later computation has begun. `OneMoves` is
the lemma for all steps that leave the log alone. `SnapshotNeverGoesBack` says that
every computation in hand is at least as new as all that is kept (`DiskInv`, over
the `Computers`): with the lock held by its owner nobody else can make the file
newer before it is saved.

For `StartRestoresNewest` dates and saves are shown to run in the same order
(`PublishedInOrder`), and the save under way to be dated no earlier and to be
newer than everything published (`SavingNewest`): it read the date when it
began, and nobody else has published since. `StoreImplemented` (for the
snapshots) adds what a caller has looked at: one caller is at work at a time
(`OneAtWork`, from `LoopFree`), so the dates it is about to prune leave a later
one (`DoomedLeaveOne`) and the one it is about to delete is not the only one
(`DeleteLeavesOne`). With a saver in a thread the latter is false, and so is
the refinement. `StalenessBounded` rests on the time a portfolio is replaced
(`ReplacedOnce`), on what the request under way has read (`InFlight`: at most
one call ago, and current at the time) and on what the cache then holds
(`Cached`); that an earliest snapshot date exists is `OldestDate`, a lemma about
sets of numbers.

For the watchlist the invariant says who may write and what: a request past
its read holds the lock (`Owns`), what it is about to write holds an ISIN once
and fits the cap (`Prepared`), and the temporary file is that when it is renamed
(`Written`). That each operation turns a good list into a good list is
`ChangedGood`; for a removal it takes `Places`, that counting the items kept up
to a position numbers them without gap or repetition. The refinement adds that
a request in the section writes its own operation on the file as it is
(`Current`, which a failed read would break), and `ChangedAbstract`, that
operation by operation the list stands for what `WatchlistStore` says.

`ChartIsKept` needs a fact about the request under way: it asks for a real date,
and once back from Yahoo it holds a series wherever one is cached (`HasSeries`),
whatever has become of the snapshots meanwhile.

For the limiter a store is matched with the log of what it let through: each
timestamp stands for a request of its own, which took the lock at most
`MaxDelay` later, and what is in the log and no longer in the store is out of
every window that can still be asked for (`Recorded`). Timestamps may be
appended out of order and cleaned by a late reader of the clock; the
correspondence survives both. A store that is not full then means that the
attempt `MAX_ATTEMPTS` before is old enough (`FullWhenRecent`, by counting), so
the log stays spaced (`Spaced`), and conversely what the store counts was really
let through (`CountedOnce`), so a refusal is deserved.

For `MarketData!TypeCorrect` a thread is at work only while its enrichment
gathers, and then on a copy (`WorkReady`, `JobReady`). `FileMatches` is about who
has the last word (`LastWord`): as long as some process will yet save, the file
may hold anything; when none will, a copy that is being dumped agrees with
memory on every entry that is in force, and when nobody is dumping either, the
file does. It takes the file lock (one copy is under way at a time), the
deferred save counted as a save to come, that a dump fails rather than mix
(`Dumpable`), and that a refused access is remembered until the next one that is
not (`io_failed`). An answer of Yahoo that is written later than it was asked for
does no harm: its writer saves too. That only dated entries of today last (`Dates`) is why expired
ones may differ. A cleared cache under a save breaks it, so the theorem says
`ClearWhileBusy = FALSE`.

`ValuesConverted` follows the unit of an amount through everything that keeps
one (`ConvertedInv`): every entry of the cache, the file and a copy being dumped
holds a ticker its position may be resolved to (`OwnTickers`), every kept price
is in its listing's unit, what the session shows is in the currency it is
labelled with (`Sound`), and so is what a thread has in hand at each point of
either path (`ThreadSound`). What an enrichment has downloaded is for its own
members (`Wanted`, `OwnBatch`), so the price the fast path takes by DeGiro's
symbol is either in the position's currency or makes it one of the `Namesakes`,
which keep their label but not their unit. The hypotheses are what the code relies on without
checking it. `Consistent`: every ticker a position may be resolved to is quoted
in the currency DeGiro names, and its suffix says so to the fast path (for
dollars: it says nothing). That excludes London, where the property is false
(`market_pence`), and the exchanges section 7 lists. `MeetAlike`: positions that
share a key of the cache may be resolved to the same tickers and are not in
dollars. Two enrichments of one European listing at a time satisfy it; of one
US share they do not, and then the property is false: section 7 says how. The
constants of the `market` run satisfy both.

`CandidatesAgree` is one step as far as the state goes; what it takes is to
follow a gated position through weights, scores, sort, cut, the watchlist's pool
and the merge. What is kept or sorted was in the list (`ItemsStay`,
`OrderedPlaces`: in a finite strict order every place is taken), scores are
between 0 and 100 whatever the pool (`ScoreRange`, so that the sort is by a
total order), and a score is only given to what passed the gates
(`ScoredGated`). A gated position is not too hot by its own signals, wherever they
were found; and for a held one those are the signals the alerts read.

The other theorems about `Analysis` are about what its functions compute, for
lists of any length. Sums are the library's `SumFunctionOnSet`, a fold:
`Comprehension_proofs` unfolds it once and shows by induction over the subsets
of a finite set, stated as a set of subsets, that a sum is the first value and
the rest (`SumLaws`), that equal values have equal sums, that sums are linear
and can be split. The long division of `Scoring`, the powers of `Base` and the
three passes of phase 3 are written out, and a pass is a recursive function, so
that nothing in these modules is a `RECURSIVE` operator.

The invariant is `AnalysisInv`. `PortfolioInv`: the positions are those that
enrichment found (`KnownList`), weighed and scored in range, and the total is
theirs; weights against another total leave it so, because a copy has the same
values, prices and symbols (`Copies`). `PlanInv`: the last plan keeps its
promises, with the classes as they are in the portfolio now; that is why a
second plan, which reweighs the portfolio under the first, must be shown to
leave the classes worth the same. The step that makes a plan is `PlanLaws`, for
any list of positions. Under it, each candidate of a class carries an allowance
through the phases: after phase 2 a purchase is under the cap and the bill
within the budget to half a cent for each candidate (`SnapLaws`); a top-up adds
at most half a cent to what the bill and the exact sum differ by, at most half
a cent to what is spent beyond the budget, and keeps the entry under the cap
because the entry found is that of the position at hand (`AddShareKept`); by
induction over a pass (`PassKept`) and over three of them (`TopUpKept`)
eighteen top-ups add no more than eighteen times that. `EntryLaws` is where the
symbols must differ: without `SymbolsApart` the entry may be another's, and the
cap may be passed (section 7). `TargetsKept` adds that a class's
budget is at most its gap (`BudgetLaws`: rounding a share of the contribution
is cut at the gap), and that the total covers both classes, so that a class
beyond its target has no budget unless neither has a gap.

`BetterScores` follows the order of two positions through the six factors. The
z-score of a column keeps order (`NormalisedMonotone`): deviations do, since all
subtract one sum, and the spread does, since it counts the hundredths whose
square fits a quotient that the long division yields exactly
(`TenThousandthsLaws`). A missing value is neutral for both or for neither
(`NeutralMonotone`), negation turns the order round (`NegatedColumn`), and so it
is kept or turned by the mean of two ratios (`MeanMonotone`), the weights
(`WeighedByValue`), the clamp of the days since the last purchase and the final
rounding (`GoodScores`). Both positions are in the same pool because they are of
one kind (`ScoredByMerit`), and plans that reweigh the positions leave scores
and what they were computed from alone (`OrderKept`).

Only model-checked: liveness under fairness (`LockComesBack`, `RefreshEnds`,
`EnrichingEnds`, `RequestsEnd`), since the prover has no `ENABLED`. Every safety
property of a passing run is stated by a theorem.

## 7. Where the code and its comments disagree

Shown by a run:

- `main.py:510` and `main.py:526`: the daily loops enrich without the lock
  that `main.py:76` says excludes enrichments, and that `main.py:900` says
  they use (`session_daily`).
- `snapshots.py:81`: the temporary file is named after the date, so two
  writers of one day publish a mixture (`snapshots_torn`).
- `main.py:365`: "and invalidate benchmark cache" - the function does not
  (`benchmark_saved`).
- `README.md:61` promises that London prices, which come in pence, are divided
  by 100 before any calculation; the fast path of `enrich_position`
  (`market_data.py:1277`) calls them GBP and stores them as they are
  (`market_pence`).

In the models, and not kept as runs of their own:

- `main.py:198`: logout lowers `enriching` under an enrichment that goes on,
  and so does the first of two overlapping enrichments to end; the status
  endpoint then says nothing runs.
- `main.py:772`: a `GET /api/portfolio` in flight stores its portfolio after a
  logout ("Clear in-memory session and portfolio data", `main.py:1337`).
- `main.py:782`: that commit discards whatever token is there, also one from a
  login made meanwhile.
- `main.py:448`: "last enriched" after a restart is midnight UTC of the date in
  the snapshot's name: a time at which nothing was enriched, earlier than the
  data's own time and, after `POST /api/snapshots/save` on a later day, a day
  later than any of them.
- `main.py:117`: the valuation log is truncated before it is written; a kill or a
  full disk in between, or two writers, leave it unreadable, and the next writer
  (`main.py:114`) begins an empty one. The session and the snapshots still show
  refreshed portfolios, and today's change has nothing to be compared with.
- `main.py:1171`: the planner that is "read-only" (`main.py:1130`) writes
  weights into the session's positions (`get_rebalance_plan` in `Session` and
  `Analysis`).
- `market_data.py:1277-1306`: the fast path knows the exchanges of the euro
  zone it lists, Switzerland (as EUR) and London (as GBP); anything else,
  Brussels, Lisbon, Stockholm or Toronto, it labels USD. A cached price in
  pounds is divided by 100 once more on the cold path, and is not divided at
  all when `ticker.info` failed.
- `market_data.py:1289`: where the batch lacks a position's own history, the fast
  path takes `history_batch.get(symbol)`, by DeGiro's symbol, which may be the
  ticker of another listing in the same batch: a French share `AI`, resolved to
  AI.PA, gets the dollars of a US share `AI` held beside it and calls them EUR.
  `ValueConverted` leaves such positions out (`Namesakes`).
- `market_data.py:265`: every error of a save is logged and passed over, and so
  are those of a load and of the removal by `clear_symbol_cache`: a restart before
  the next save comes back with what was resolved before, or with what was cleared.
- `market_data.py:1262`: `_is_cache_warm` answers, and nine lines later the
  entry is read again. If another enrichment evicts it in between (404,
  `market_data.py:1415`) and a third resolves it anew, the entry has no
  fundamentals, and `entry.get("fundamentals", {}).get("currency", "EUR")`
  labels the dollars of a US share EUR. It takes a second enrichment of the
  share under the first, as the daily loops allow, and one more after it, all
  between two reads of a cache; a failed attempt at `ValuesConverted` without
  `MeetAlike` showed it, and TLC confirms it.
- `market_data.py:1317`: without a rate from EUR the fast path multiplies by
  `None` outside any `try`, and the enrichment of the whole portfolio fails.
- `market_data.py:774`, `1384`: a network error ends as "not found" or as empty
  fundamentals, either kept for 24 h; the comment at `market_data.py:553`
  ("persistent, no TTL") speaks of an earlier cache.
- `market_data.py:563`: a manual override "must beat cache", but
  `enrich_positions` looks into the cache first and calls the resolver only
  when it finds nothing fresh.
- `rebalance.py:310`: a top-up adds the unrounded price to what is spent, from
  which the reserve is computed, and the rounded one to the purchase, so up to
  half a cent per top-up accumulates. "The plan always reconciles [...] (to the
  cent)" (line 117 of the planner's design,
  `docs/superpowers/specs/2026-05-30-cash-flow-rebalancer-design.md`), to less
  than two cents in `tests/test_rebalance.py:110`, fails with purchases of 20.12
  and 18.44 EUR and a reserve of 21.46 EUR out of a contribution of 60.
  `MCAnalysis_cents.cfg` has TLC find it (`ReconcilesAsTested`).
- `rebalance.py:282`: phase 3 adds to the first entry with the same symbol, but
  checks the cap with the value of the position at hand. Where two positions
  share a symbol, or have none, the first may be bought beyond the cap, although
  the design says "never push a position above" it (its line 84).
  `MCAnalysis_symbols.cfg` has TLC find it (`CapHeld`).
- `universe.py:27`, `main.py:1184`: a stock that is bought while it is on the
  watchlist is enriched twice, and the merge does not look for what is held. If
  the second enrichment is refused, the watched copy, without RSI and distance,
  passes the gate (`scoring.py:130`) and is offered for buying, while the alerts
  of the same summary suggest to trim the held one. A state of the `analysis` run.
- `rebalance.py:393`: a position without a value in EUR makes the sums raise,
  and the plan's route answers 500.
- `universe.py:6`: a candidate's score is "always directly comparable"; the
  positions were scored in a pool without the watchlist, the candidates in one
  with it (`merge_watchlist_candidates`).
- `main.py:128`: "Walk back up to 4 days" walks back as far as the log goes.
- `snapshots.py:101`: pruning in a thread lists, then unlinks; a DELETE of the
  newest in between leaves no snapshot (`main.py:1461` and `snapshots.py:92`
  mean to prevent that), and the benchmark no chart. It is possible in
  `Benchmark`, and in `Snapshots` with a saver in a thread.
- `main.py:1396`: the stale series that stands in when Yahoo refuses lives in
  memory; after a restart a refusal leaves no chart, and an empty series is then
  kept for the hour.
- `watchlist_store.py:37`: a read that raises counts as an empty list, and the
  next add writes that list back.
- `main.py:1268`: ownership is checked before the await on Yahoo and not after.

## 8. Not modelled, and why

- The computation of RSI, performance, distance from the high and P/E from
  price histories, and of the attribution against the benchmark: floating
  point over data from outside. `Analysis` takes any of their values, `Benchmark`
  takes a series as a value.
- NaN and infinity in scoring: `_sanitize_floats` removes them at the border,
  and TLC has integers.
- Editing the symbol overrides while an enrichment runs, and in `MarketData` the
  separate enrichment of the watchlist: the same steps over the same caches as
  the portfolio's. What it finds is in `Analysis`.
- DeGiro's client: login variants and parsing, with no state but a cache of the
  last fetch for 30 s. Indexa's client: HTTP, one renewal and retry on 401; how
  two renewals of one token end is decided by Indexa's server.
- The web client renders, and polls a flag: what it relies on is
  `EnrichingIsBacked` and `EnrichingEnds`. It takes the flag's being down for
  success, also when the refresh was skipped (`static/app.js:590`).
- Cookies, bearer token, middleware: checks of one request, without state.
- The entries of earlier days in `daily_valuations.json`, and the daily change:
  `Session` has the newest computation in the log, or that nobody can read it.
- `DELETE /api/snapshots` in `Session`: it takes a snapshot away, which
  `DiskNeverOlder` does not speak of; it is in `Snapshots` and `Benchmark`.
- Snapshots without `portfolio_data`, written by earlier versions; the 24-hour
  cache of the S&P reference.
- `schemas.py`, `context_builder.py` and the debug scripts keep no state.
