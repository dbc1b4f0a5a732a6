----------------------------- MODULE MarketData -----------------------------
(***************************************************************************)
(* The enrichment pipeline of app/market_data.py (enrich_positions and     *)
(* enrich_position) and the caches it shares with every other enrichment:  *)
(* resolutions with fundamentals (kept on disk), prices, FX rates, and the *)
(* rate-limit flag.                                                        *)
(*                                                                         *)
(* An enrichment resolves its positions one after the other, downloads     *)
(* their price histories in one batch, enriches each position in a thread  *)
(* of its own and converts the values to EUR when all are back.  A step is *)
(* what happens between two questions to Yahoo or two locked sections; the *)
(* questions of one resolution, between which nothing else is looked at,   *)
(* are one step with the look into the cache that comes before them, and   *)
(* what they find is written in a later one.                               *)
(*                                                                         *)
(* An amount is known by the unit it is really in.  Two positions with one *)
(* symbol and ISIN stand for two enrichments that meet in the cache.       *)
(***************************************************************************)
EXTENDS Resolution

CONSTANTS
    Enrichments,    \* the sequences of positions that are enriched together
    OverrideOf,     \* ISIN -> the user's ticker, or NULL
    InfoFaults,     \* whether ticker.info may fail in a way that counts as empty
    ClearWhileBusy, \* whether the cache may be cleared during an enrichment
    MaxDay,         \* bound: days in a behaviour
    MaxBadDay       \* bound: after this day the disk refuses nothing

Threads == Positions
Procs == Enrichments \cup Threads
Members(e) == Range(e)
Days == 0..MaxDay
Isins == {Instrument[p].isin : p \in Positions} \ {NULL}
Keys == {RawKey(p) : p \in Positions} \cup {NormKey(p) : p \in Positions}

Units == {"EUR", "GBp", "GBP", "GBP/100", "CHF", "CAD", "SEK", "USD"}
Currencies == {"EUR", "GBP", "CHF", "CAD", "SEK", "USD"}
Position == [currency: Currencies, unit: Units \cup {NULL}, eur: Currencies \cup {NULL}]

KnownTickers ==
    (Listed \cup {OverrideOf[i] : i \in DOMAIN OverrideOf} \cup {Canonical[i] : i \in DOMAIN Canonical}
     \cup (UNION {{Quotes[i][k].ticker : k \in DOMAIN Quotes[i]} : i \in DOMAIN Quotes})
     \cup {SymbolTicker(p) : p \in Positions}) \ {NULL}

ASSUME MarketAssumption ==
    /\ MaxDay \in Nat /\ MaxBadDay \in Nat
    /\ NULL \notin Nat /\ NULL \notin Position
    /\ ClearWhileBusy \in BOOLEAN
    /\ InfoFaults \in BOOLEAN
    /\ Enrichments \subseteq Seq(Positions)
    /\ Enrichments \cap Positions = {}
    /\ \A e, f \in Enrichments : e = f \/ Members(e) \cap Members(f) = {}
    /\ \A p \in Positions : Instrument[p].currency \in Currencies
    /\ \A p \in Positions : Instrument[p].country = "US" => Instrument[p].isin # NULL
    /\ \A i \in Isins : {i} \subseteq DOMAIN OverrideOf \cap DOMAIN Canonical \cap DOMAIN Quotes
    /\ \A i \in DOMAIN Quotes : DOMAIN Quotes[i] \subseteq Nat

VARIABLES
    _resolution_cache,  \* key -> entry or NULL
    _price_cache,       \* ticker -> the unit of the price kept, or NULL
    _fx_cache,          \* currencies with a live rate to EUR
    _yf_rate_limited,
    disk,               \* symbol_cache.json
    io_failed,          \* history: the last access to that file failed
    today,              \* 24 hours are over when the day changes
    shown,              \* each position in the portfolio of the session, or NULL
    pc,                 \* where each enrichment and each thread is
    work,               \* the copy of the position each thread works on
    job                 \* what else each of them keeps in local variables

caches == <<_resolution_cache, _price_cache, _fx_cache, _yf_rate_limited>>
file == <<disk, io_failed>>
env == <<file, today, shown>>
local == <<pc, work, job>>
vars == <<caches, env, local>>

(***************************************************************************)
(* External: the unit in which Yahoo quotes a listing.                     *)
(***************************************************************************)
QuoteUnit(ticker) ==
    CASE ticker.suffix \in {".AS", ".PA", ".DE", ".F", ".MI", ".MC", ".HE", ".BR", ".LS"} -> "EUR"
      [] ticker.suffix = ".L" -> "GBp"
      [] ticker.suffix = ".SW" -> "CHF"
      [] ticker.suffix = ".TO" -> "CAD"
      [] ticker.suffix = ".ST" -> "SEK"
      [] OTHER -> "USD"

(* What the code takes the currency of a listing for; "" is unknown.       *)
yf_currency(ticker) ==
    CASE ticker.suffix \in {".AS", ".PA", ".DE", ".F", ".MI", ".MC", ".HE", ".SW",
                            ".EAM", ".EPA", ".ETR"} -> "EUR"
      [] ticker.suffix = ".L" -> "GBP"
      [] OTHER -> ""

(* The GBp safety net: a hundredth of whatever the price is.               *)
DividedBy100(unit) == IF unit = "GBp" THEN "GBP" ELSE "GBP/100"

Entry(ticker, cached_at) ==
    [ticker |-> ticker, cached_at |-> cached_at, fundamentals |-> NULL]

(* A position as DeGiro reports it: what it is labelled with, the unit its *)
(* price and value are in, and eur, the currency at whose rate the value   *)
(* was converted (NULL: current_value_eur is None).                        *)
Raw(p) == [currency |-> Instrument[p].currency,
           unit |-> IF Instrument[p].owned THEN Instrument[p].currency ELSE NULL,
           eur |-> NULL]

Idle == [ticker |-> NULL, history |-> {}, cached |-> NULL, copy |-> NULL,
         then |-> NULL, next |-> 1, tickers |-> << >>, dirty |-> FALSE, pence |-> FALSE,
         found |-> NULL]

Goto(q, site) == pc' = [pc EXCEPT ![q] = site]

IsFresh(entry) == entry # NULL /\ entry.cached_at = today
HasFundamentals(entry) == entry # NULL /\ entry.fundamentals = today

-----------------------------------------------------------------------------
(* The symbol cache and its file *)

(* The disk may refuse any access to the file.                             *)
Denied == today <= MaxBadDay /\ io_failed' = TRUE

(* _save_symbol_cache: the file lock is held from the copy to the rename.  *)
FileLocked == \E q \in Procs : pc[q] = "dump"

SaveCopy_Unlocked(q) ==
    /\ pc[q] = "save"
    /\ job' = [job EXCEPT ![q].copy = _resolution_cache]
    /\ Goto(q, "dump")
    /\ UNCHANGED <<caches, env, work>>

SaveCopy(q) ==
    /\ pc[q] = "save"
    /\ ~FileLocked
    /\ job' = [job EXCEPT ![q].copy = _resolution_cache]
    /\ Goto(q, "dump")
    /\ UNCHANGED <<caches, env, work>>

(* The copy is shallow: json.dump fails when fundamentals are put into an  *)
(* entry meanwhile.                                                        *)
DumpMayFail(copy) ==
    \E k \in Keys : /\ copy[k] # NULL
                    /\ _resolution_cache[k] # NULL
                    /\ copy[k].fundamentals # _resolution_cache[k].fundamentals

(* Besides, the disk may refuse the directory, the file, its contents or   *)
(* the rename at any time.  Whatever fails, the file stays as it is, and   *)
(* nobody is told.                                                         *)
SaveDump(q) ==
    /\ pc[q] = "dump"
    /\ \/ disk' = job[q].copy /\ io_failed' = FALSE
       \/ DumpMayFail(job[q].copy) /\ UNCHANGED file
       \/ Denied /\ UNCHANGED disk
    /\ job' = [job EXCEPT ![q].copy = NULL, ![q].then = NULL]
    /\ Goto(q, job[q].then)
    /\ UNCHANGED <<caches, today, shown, work>>

_save_symbol_cache(q) == SaveCopy(q) \/ SaveDump(q)

(* Whoever is not deferring saves goes through the two steps above first.  *)
SaveThen(q, site, changed) ==
    Goto(q, IF changed THEN "save" ELSE site)

_load_symbol_cache(saved) ==
    [k \in Keys |-> IF \/ k[2] = NULL
                       \/ saved[k] = NULL
                       \/ saved[k].ticker # NULL /\ saved[k].ticker.suffix = ".L"
                    THEN NULL ELSE saved[k]]

(* DELETE /api/admin/symbol-cache; the file may be there still.            *)
clear_symbol_cache ==
    /\ ClearWhileBusy \/ \A q \in Procs : pc[q] = "idle"
    /\ _resolution_cache' = [k \in Keys |-> NULL]
    /\ _price_cache' = [t \in DOMAIN _price_cache |-> NULL]
    /\ \/ disk' = [k \in Keys |-> NULL] /\ io_failed' = FALSE
       \/ Denied /\ UNCHANGED disk
    /\ UNCHANGED <<_fx_cache, _yf_rate_limited, today, shown, local>>

-----------------------------------------------------------------------------
(* Resolution with its cache *)

(* What a step of a resolution comes to: a ticker or none, or, where Yahoo *)
(* was asked, what it has yet to write.                                    *)
Outcome(cache, ticker, saves, limited, found) ==
    [cache |-> cache, ticker |-> ticker, saves |-> saves, limited |-> limited, found |-> found]

(* _resolve_yf_symbol, up to the answer of Yahoo.  An entry that is looked *)
(* past holds no ticker and is too old: deleted, whatever the answer.      *)
Resolved(p, cache, limited) ==
    LET key == NormKey(p)
        isin == Instrument[p].isin
        entry == cache[key]
        Known(ticker) == Outcome(cache, ticker, FALSE, limited, NULL)
        Forgotten == [cache EXCEPT ![key] = NULL]
        After(r) == IF r.method = "refused" THEN Outcome(Forgotten, NULL, FALSE, TRUE, NULL)
                    ELSE Outcome(Forgotten, NULL, FALSE, limited, r)
    IN  IF Instrument[p].form = "unnamed" THEN {Known(NULL)}
        ELSE IF isin # NULL /\ OverrideOf[isin] # NULL
        THEN {Outcome([cache EXCEPT ![RawKey(p)] = Entry(OverrideOf[isin], NULL)],
                      OverrideOf[isin], TRUE, limited, NULL)}
        ELSE IF Instrument[p].form = "numeric" THEN {Known(NULL)}
        ELSE IF Instrument[p].form = "dotted" THEN {Known(SymbolTicker(p))}
        ELSE IF entry # NULL /\ entry.ticker # NULL THEN {Known(entry.ticker)}
        ELSE IF IsFresh(entry) THEN {Known(NULL)}
        ELSE {After(r) : r \in Resolutions[p][limited]}

(* Step 1 of enrich_positions for a numeric symbol: by ISIN only.          *)
ResolvedByIsin(p, cache, limited) ==
    LET isin == Instrument[p].isin
        ticker == IF isin = NULL THEN NULL ELSE _resolve_by_isin(isin, Instrument[p].currency)
    IN  {Outcome(cache, NULL, FALSE, limited, NULL)}
        \cup (IF isin = NULL THEN {} ELSE {Outcome(cache, NULL, FALSE, TRUE, NULL)})
        \cup (IF ticker = NULL THEN {}
              ELSE {Outcome(cache, NULL, FALSE, limited, Found(ticker, "numeric_isin"))})

(* What the cache becomes when the answer is there, whatever is in it by   *)
(* then: a 404 evicts, a numeric symbol is kept under the key without an   *)
(* ISIN too.                                                               *)
Written(p, r, cache) ==
    CASE r.method = "gone" -> [cache EXCEPT ![NormKey(p)] = NULL]
      [] r.method = "numeric_isin" ->
            [k \in Keys |-> IF k \in {RawKey(p), <<RawKey(p)[1], NULL>>}
                            THEN Entry(r.ticker, today) ELSE cache[k]]
      [] OTHER -> [cache EXCEPT ![NormKey(p)] = Entry(r.ticker, today)]

Answer(p, r) == Outcome(Written(p, r, _resolution_cache), r.ticker, TRUE, _yf_rate_limited, NULL)

-----------------------------------------------------------------------------
(* enrich_positions, up to the threads *)

(* A sync brings DeGiro's data, a refresh copies the session's; the FX     *)
(* rates are fetched in advance, as far as Yahoo answers.                  *)
EnrichStart(e) ==
    /\ pc[e] = "idle"
    /\ \E sync \in BOOLEAN :
         /\ sync \/ \A p \in Members(e) : shown[p] # NULL
         /\ work' = [p \in Positions |->
                       IF p \notin Members(e) THEN work[p]
                       ELSE IF sync THEN Raw(p) ELSE shown[p]]
    /\ Goto(e, "resolve")
    /\ job' = [job EXCEPT ![e] = Idle]
    /\ \E live \in SUBSET ({Instrument[p].currency : p \in Members(e)} \ {"EUR"}) :
         _fx_cache' = _fx_cache \cup live
    /\ UNCHANGED <<_resolution_cache, _price_cache, _yf_rate_limited, env>>

(* Step 1, one position: a fresh entry, or _resolve_yf_symbol.  The save   *)
(* is deferred to the end of the loop, on this thread only.                *)
Settle(e, r) ==
    /\ _resolution_cache' = r.cache
    /\ _yf_rate_limited' = r.limited
    /\ \/ /\ r.found = NULL
          /\ job' = [job EXCEPT ![e].next = @ + 1, ![e].found = NULL,
                                ![e].tickers = Append(@, r.ticker),
                                ![e].dirty = @ \/ r.saves]
          /\ Goto(e, "resolve")
       \/ /\ r.found # NULL
          /\ job' = [job EXCEPT ![e].found = r.found]
          /\ Goto(e, "write")
    /\ UNCHANGED <<_price_cache, _fx_cache, env, work>>

ResolveOne(e) ==
    /\ pc[e] = "resolve"
    /\ job[e].next <= Len(e)
    /\ LET p == e[job[e].next]
           entry == _resolution_cache[RawKey(p)]
           results == IF IsFresh(entry) /\ entry.ticker # NULL
                      THEN {Outcome(_resolution_cache, entry.ticker, FALSE, _yf_rate_limited, NULL)}
                      ELSE IF Instrument[p].form = "numeric"
                      THEN ResolvedByIsin(p, _resolution_cache, _yf_rate_limited)
                      ELSE Resolved(p, _resolution_cache, _yf_rate_limited)
       IN  \E r \in results : Settle(e, r)

ResolveWrite(e) ==
    /\ pc[e] = "write"
    /\ e \in Enrichments
    /\ Settle(e, Answer(e[job[e].next], job[e].found))

(* The end of the loop: what was deferred is saved.                        *)
ResolveDone(e) ==
    /\ pc[e] = "resolve"
    /\ job[e].next > Len(e)
    /\ SaveThen(e, "download", job[e].dirty)
    /\ job' = [job EXCEPT ![e].then = "download", ![e].dirty = FALSE]
    /\ UNCHANGED <<caches, env, work>>

(* Step 2: the batch brings the history of some of the tickers; the        *)
(* threads of step 3 start.                                                *)
Download(e) ==
    /\ pc[e] = "download"
    /\ \E history \in SUBSET (Range(job[e].tickers) \ {NULL}) :
         job' = [job EXCEPT ![e] = [Idle EXCEPT !.history = history]]
    /\ pc' = [q \in Procs |-> IF q = e THEN "gather"
                              ELSE IF q \in Members(e) THEN "start" ELSE pc[q]]
    /\ UNCHANGED <<caches, env, work>>

-----------------------------------------------------------------------------
(* enrich_position, one thread per position *)

EndThread(p) ==
    /\ Goto(p, "done")
    /\ job' = [job EXCEPT ![p] = Idle]

(* The first look: _is_cache_warm, or else the resolution cache, where an  *)
(* entry that is too old is deleted.                                       *)
Lookup(p) ==
    LET entry == _resolution_cache[RawKey(p)]
        known == entry # NULL /\ entry.ticker # NULL
    IN  /\ pc[p] = "start"
        /\ Goto(p, IF ~known \/ ~IsFresh(entry) THEN "resolve"
                   ELSE IF HasFundamentals(entry) THEN "warm" ELSE "ask")
        /\ job' = [job EXCEPT ![p] = [Idle EXCEPT !.ticker = IF known /\ IsFresh(entry)
                                                    THEN entry.ticker ELSE NULL]]
        /\ _resolution_cache' = IF known /\ ~IsFresh(entry)
                                THEN [_resolution_cache EXCEPT ![RawKey(p)] = NULL]
                                ELSE _resolution_cache
        /\ UNCHANGED <<_price_cache, _fx_cache, _yf_rate_limited, env, work>>

(* Without a ticker the position is left as it is.                         *)
SettleThread(p, r) ==
    LET site == IF r.ticker = NULL THEN "done" ELSE "ask"
    IN  /\ _resolution_cache' = r.cache
        /\ _yf_rate_limited' = r.limited
        /\ \/ /\ r.found = NULL
              /\ SaveThen(p, site, r.saves)
              /\ job' = [job EXCEPT ![p].ticker = r.ticker, ![p].found = NULL,
                                    ![p].then = IF r.saves THEN site ELSE NULL]
           \/ /\ r.found # NULL
              /\ Goto(p, "write")
              /\ job' = [job EXCEPT ![p].found = r.found]
        /\ UNCHANGED <<_price_cache, _fx_cache, env, work>>

ResolveThread(p) ==
    /\ pc[p] = "resolve"
    /\ p \in Threads
    /\ \E r \in Resolved(p, _resolution_cache, _yf_rate_limited) : SettleThread(p, r)

WriteThread(p) ==
    /\ pc[p] = "write"
    /\ p \in Threads
    /\ SettleThread(p, Answer(p, job[p].found))

Evict(p) ==
    /\ _resolution_cache' = [_resolution_cache EXCEPT ![RawKey(p)] = NULL]
    /\ job' = [job EXCEPT ![p] = [Idle EXCEPT !.then = "done"]]
    /\ Goto(p, "save")

(* The price kept, and the fundamentals: from the cache, or from           *)
(* ticker.info, which may be refused, missing (404), or fail and count as  *)
(* empty.  What comes of it is kept for a day.                             *)
AskInfo(p) ==
    LET key == RawKey(p)
        cached == _price_cache[job[p].ticker]
    IN  /\ pc[p] = "ask"
        /\ \/ /\ HasFundamentals(_resolution_cache[key])
              /\ job' = [job EXCEPT ![p].cached = cached]
              /\ Goto(p, "price")
              /\ UNCHANGED _resolution_cache
           \/ /\ ~HasFundamentals(_resolution_cache[key])
              /\ \/ Evict(p)
                 \/ EndThread(p) /\ UNCHANGED _resolution_cache
                 \/ /\ \E answered \in {TRUE} \cup {~InfoFaults} :
                         job' = [job EXCEPT ![p].cached = cached,
                                   ![p].then = IF _resolution_cache[key] = NULL THEN NULL ELSE "price",
                                   ![p].pence = answered /\ QuoteUnit(job[p].ticker) = "GBp"]
                    /\ _resolution_cache' =
                          IF _resolution_cache[key] = NULL THEN _resolution_cache
                          ELSE [_resolution_cache EXCEPT ![key].fundamentals = today]
                    /\ SaveThen(p, "price", _resolution_cache[key] # NULL)
        /\ UNCHANGED <<_price_cache, _fx_cache, _yf_rate_limited, env, work>>

Relabelled_Blank(p) == yf_currency(job[p].ticker)

Relabelled(p) ==
    IF yf_currency(job[p].ticker) = "" THEN work[p].currency ELSE yf_currency(job[p].ticker)

(* The units the price may come out in: the batch's or the cached price or *)
(* the ticker's own history, pence divided if ticker.info says so; asked   *)
(* again, it may fail.                                                     *)
ColdUnits(p) ==
    LET ticker == job[p].ticker
        batch == UNION {job[e].history : e \in {f \in Enrichments : p \in Members(f)}}
        unit == IF ticker \notin batch /\ job[p].cached # NULL THEN job[p].cached
                ELSE QuoteUnit(ticker)
    IN  IF QuoteUnit(ticker) # "GBp" THEN {unit}
        ELSE {DividedBy100(unit)} \cup IF InfoFaults /\ ~job[p].pence THEN {unit} ELSE {}

(* The position takes the currency of the listing, whether or not a price  *)
(* follows.  What fails after the price is stamped leaves it.              *)
Price(p) ==
    /\ pc[p] = "price"
    /\ \/ \E unit \in ColdUnits(p) :
            /\ work' = [work EXCEPT ![p].currency = Relabelled(p), ![p].unit = unit]
            /\ _price_cache' = [_price_cache EXCEPT ![job[p].ticker] = unit]
       \/ /\ work' = [work EXCEPT ![p].currency = Relabelled(p)]
          /\ UNCHANGED _price_cache
    /\ EndThread(p)
    /\ UNCHANGED <<_resolution_cache, _fx_cache, _yf_rate_limited, env>>

(* The history says the ticker is missing: evicted, after the relabelling. *)
PriceMissing(p) ==
    /\ pc[p] = "price"
    /\ work' = [work EXCEPT ![p].currency = Relabelled(p)]
    /\ Evict(p)
    /\ UNCHANGED <<_price_cache, _fx_cache, _yf_rate_limited, env>>

(* The fast path: everything from the entry and the batch, where what      *)
(* DeGiro calls the position does for a ticker too, or else the price      *)
(* cache; the entry may have gone since, or lost its fundamentals.         *)
(* With no rate from EUR the profit of an owned position cannot be         *)
(* computed, and the whole enrichment raises.                              *)
WarmRead(p) ==
    LET entry == _resolution_cache[RawKey(p)]
        batch == UNION {job[e].history : e \in {f \in Enrichments : p \in Members(f)}}
        label == IF yf_currency(entry.ticker) # "" THEN yf_currency(entry.ticker)
                 ELSE IF entry.fundamentals = NULL THEN "EUR" ELSE "USD"
        unit == IF entry = NULL \/ entry.ticker = NULL THEN NULL
                ELSE IF entry.ticker \in batch THEN QuoteUnit(entry.ticker)
                ELSE IF SymbolTicker(p) \in batch THEN QuoteUnit(SymbolTicker(p))
                ELSE _price_cache[entry.ticker]
    IN  /\ pc[p] = "warm"
        /\ work' = IF unit = NULL THEN work
                   ELSE [work EXCEPT ![p].currency = label, ![p].unit = unit]
        /\ \/ EndThread(p)
           \/ /\ unit # NULL /\ label # "EUR" /\ Instrument[p].owned
              /\ Goto(p, "raised")
              /\ UNCHANGED job
        /\ UNCHANGED <<caches, env>>

enrich_position(p) ==
    \/ Lookup(p) \/ ResolveThread(p) \/ WriteThread(p) \/ AskInfo(p)
    \/ Price(p) \/ PriceMissing(p) \/ WarmRead(p)

-----------------------------------------------------------------------------
(* enrich_positions, after the threads *)

(* The rates to EUR get_fx_rate may come back with: what the cache holds,  *)
(* and whatever else Yahoo answers.                                        *)
get_fx_rate(currencies) ==
    {live \in SUBSET (currencies \cup _fx_cache) : _fx_cache \subseteq live}

Converted_Unlabelled(w, live) ==
    IF w.currency = "EUR" THEN [w EXCEPT !.eur = IF w.unit = NULL THEN NULL ELSE "EUR"]
    ELSE IF w.currency \in live THEN [w EXCEPT !.eur = IF w.unit = NULL THEN NULL ELSE w.currency]
    ELSE [w EXCEPT !.eur = "EUR"]

Converted(w, live) ==
    IF w.currency = "EUR" THEN [w EXCEPT !.eur = IF w.unit = NULL THEN NULL ELSE "EUR"]
    ELSE IF w.currency \in live THEN [w EXCEPT !.eur = IF w.unit = NULL THEN NULL ELSE w.currency]
    ELSE [w EXCEPT !.eur = NULL]

ConvertToEur(e) ==
    /\ pc[e] = "gather"
    /\ \A p \in Members(e) : pc[p] = "done"
    /\ \E live \in get_fx_rate({work[p].currency : p \in Members(e)} \ {"EUR"}) :
         /\ _fx_cache' = live
         /\ shown' = [p \in Positions |-> IF p \in Members(e) THEN Converted(work[p], live)
                                                              ELSE shown[p]]
    /\ pc' = [q \in Procs |-> IF q = e \/ q \in Members(e) THEN "idle" ELSE pc[q]]
    /\ job' = [q \in Procs |-> IF q = e \/ q \in Members(e) THEN Idle ELSE job[q]]
    /\ work' = [p \in Positions |-> IF p \in Members(e) THEN NULL ELSE work[p]]
    /\ UNCHANGED <<_resolution_cache, _price_cache, _yf_rate_limited, file, today>>

(* A thread raised: the caller gets the exception, the copies are dropped. *)
EnrichRaises(e) ==
    /\ pc[e] = "gather"
    /\ \A p \in Members(e) : pc[p] \in {"done", "raised"}
    /\ \E p \in Members(e) : pc[p] = "raised"
    /\ pc' = [q \in Procs |-> IF q = e \/ q \in Members(e) THEN "idle" ELSE pc[q]]
    /\ job' = [q \in Procs |-> IF q = e \/ q \in Members(e) THEN Idle ELSE job[q]]
    /\ work' = [p \in Positions |-> IF p \in Members(e) THEN NULL ELSE work[p]]
    /\ UNCHANGED <<caches, env>>

enrich_positions(e) ==
    \/ EnrichStart(e) \/ ResolveOne(e) \/ ResolveWrite(e) \/ ResolveDone(e)
    \/ Download(e) \/ ConvertToEur(e) \/ EnrichRaises(e)

-----------------------------------------------------------------------------
(* Time and restarts *)

PriceExpires ==
    /\ \E t \in DOMAIN _price_cache :
         /\ _price_cache[t] # NULL
         /\ _price_cache' = [_price_cache EXCEPT ![t] = NULL]
    /\ UNCHANGED <<_resolution_cache, _fx_cache, _yf_rate_limited, env, local>>

FxExpires ==
    /\ \E c \in _fx_cache : _fx_cache' = _fx_cache \ {c}
    /\ UNCHANGED <<_resolution_cache, _price_cache, _yf_rate_limited, env, local>>

RateLimitEnds ==
    /\ _yf_rate_limited
    /\ _yf_rate_limited' = FALSE
    /\ UNCHANGED <<_resolution_cache, _price_cache, _fx_cache, env, local>>

DayPasses ==
    /\ today < MaxDay
    /\ today' = today + 1
    /\ UNCHANGED <<caches, file, shown, local>>

(* The process dies at any moment; positions come back from a snapshot,    *)
(* the resolutions from the file, or not at all if it cannot be read.      *)
Restart ==
    /\ \/ _resolution_cache' = _load_symbol_cache(disk) /\ io_failed' = FALSE
       \/ _resolution_cache' = [k \in Keys |-> NULL] /\ Denied
    /\ _price_cache' = [t \in DOMAIN _price_cache |-> NULL]
    /\ _fx_cache' = {}
    /\ _yf_rate_limited' = FALSE
    /\ pc' = [q \in Procs |-> "idle"]
    /\ job' = [q \in Procs |-> Idle]
    /\ work' = [p \in Positions |-> NULL]
    /\ UNCHANGED <<disk, today, shown>>

Init ==
    /\ _resolution_cache = [k \in Keys |-> NULL]
    /\ _price_cache = [t \in KnownTickers |-> NULL]
    /\ _fx_cache = {}
    /\ _yf_rate_limited = FALSE
    /\ disk = [k \in Keys |-> NULL]
    /\ io_failed = FALSE
    /\ today = 0
    /\ shown = [p \in Positions |-> NULL]
    /\ pc = [q \in Procs |-> "idle"]
    /\ work = [p \in Positions |-> NULL]
    /\ job = [q \in Procs |-> Idle]

Next ==
    \/ \E e \in Enrichments : enrich_positions(e)
    \/ \E p \in Threads : enrich_position(p)
    \/ \E q \in Procs : _save_symbol_cache(q)
    \/ clear_symbol_cache
    \/ PriceExpires \/ FxExpires \/ RateLimitEnds \/ DayPasses
    \/ Restart

Spec == Init /\ [][Next]_vars

-----------------------------------------------------------------------------
(* Every variable has its type: in particular no thread relabels a position*)
(* with what is no currency, and whoever dumps has a copy to dump.         *)
Entries == [ticker: KnownTickers \cup {NULL}, cached_at: Days \cup {NULL},
            fundamentals: Days \cup {NULL}]
Cache == [Keys -> Entries \cup {NULL}]
Findings == [method: {"found", "numeric_isin", "notfound", "gone"},
             ticker: KnownTickers \cup {NULL}]
Sites == {"idle", "resolve", "write", "save", "dump", "download", "gather",
          "start", "warm", "ask", "price", "done", "raised"}
Job == [ticker: KnownTickers \cup {NULL}, history: SUBSET KnownTickers, cached: Units \cup {NULL},
        copy: Cache \cup {NULL}, then: Sites \cup {NULL}, next: Nat \ {0},
        tickers: Seq(KnownTickers \cup {NULL}), dirty: BOOLEAN, pence: BOOLEAN,
        found: Findings \cup {NULL}]
TypeOK ==
    /\ _resolution_cache \in Cache
    /\ disk \in Cache
    /\ io_failed \in BOOLEAN
    /\ _price_cache \in [KnownTickers -> Units \cup {NULL}]
    /\ _fx_cache \subseteq Currencies
    /\ _yf_rate_limited \in BOOLEAN
    /\ today \in Days
    /\ shown \in [Positions -> Position \cup {NULL}]
    /\ work \in [Positions -> Position \cup {NULL}]
    /\ pc \in [Procs -> Sites]
    /\ job \in [Procs -> Job]
    /\ \A q \in Procs : pc[q] = "dump" => job[q].copy \in Cache

(* The tickers p may be resolved to.                                       *)
Tickers(p) ==
    {r.ticker : r \in Resolutions[p][TRUE] \cup Resolutions[p][FALSE]}
    \cup (IF Instrument[p].form = "dotted" THEN {SymbolTicker(p)} ELSE {})
    \cup (IF Instrument[p].isin = NULL THEN {}
          ELSE {OverrideOf[Instrument[p].isin],
                _resolve_by_isin(Instrument[p].isin, Instrument[p].currency)})

(* What DeGiro calls these is, at Yahoo, a listing in another currency to  *)
(* which a position enriched together with them may be resolved.           *)
Namesakes ==
    {p \in Positions :
        /\ QuoteUnit(SymbolTicker(p)) # Instrument[p].currency
        /\ \E e \in Enrichments : /\ p \in Members(e)
                                  /\ \E q \in Members(e) : SymbolTicker(p) \in Tickers(q)}

(* A value in EUR was converted at the rate of the unit it is really in,   *)
(* from whichever path, cache or earlier enrichment price and currency     *)
(* came, and whatever failed on the way: nothing is converted twice, left  *)
(* unconverted or taken for another currency.  Namesakes are left out,     *)
(* which the fast path may give each other's prices.                       *)
ValueConverted ==
    \A p \in Positions \ Namesakes :
        shown[p] # NULL /\ shown[p].eur # NULL => shown[p].eur = shown[p].unit

(* When nothing is under way a restart would bring back from the file what *)
(* memory holds and is still in force, unless the disk refused the last    *)
(* access to it: no resolution is lost to a deferred or an overtaken save, *)
(* or to one that failed because the cache changed, nothing evicted comes  *)
(* back, and the next save makes good for any that the disk refused.       *)
InForce(cache) ==
    LET kept == _load_symbol_cache(cache) IN [k \in Keys |-> IF IsFresh(kept[k]) THEN kept[k] ELSE NULL]
DiskMatches ==
    ~io_failed /\ (\A q \in Procs : pc[q] = "idle") => InForce(disk) = InForce(_resolution_cache)
=============================================================================
