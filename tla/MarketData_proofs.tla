-------------------------- MODULE MarketData_proofs --------------------------
(***************************************************************************)
(* Proofs about MarketData, for any positions and enrichments, whatever    *)
(* Yahoo lists, finds and refuses, and any number of days.                 *)
(***************************************************************************)
EXTENDS MarketData, WellFoundedInduction, TLAPS

-----------------------------------------------------------------------------
(* What a resolution returns *)

(* A set of quotes has a first one.                                        *)
LEMMA Smallest ==
  ASSUME NEW S, S \subseteq Nat, S # {}
  PROVE  Min(S) \in S
<1> DEFINE Less == OpToRel(<, Nat)
<1>1. \E x \in S : \A y \in S : ~ (<<y, x>> \in Less)
  <2>1. IsWellFoundedOn(Less, Nat)
    BY NatLessThanWellFounded
  <2> HIDE DEF Less
  <2> QED
    BY <2>1, WFMin
<1>2. \A x, y \in S : y < x => <<y, x>> \in Less
  BY DEF OpToRel
<1> HIDE DEF Less
<1>3. PICK x \in S : \A y \in S : ~ (<<y, x>> \in Less)
  BY <1>1
<1>4. \A y \in S : ~ (y < x)
  BY <1>2, <1>3
<1>5. \A y \in S : x =< y
  BY <1>4
<1> QED
  BY <1>5 DEF Min

Ticker_ == KnownTickers \cup {NULL}

LEMMA FoundFields ==
  /\ \A t, m : Found(t, m).ticker = t /\ Found(t, m).method = m
  /\ NotFound.ticker = NULL /\ Gone.ticker = NULL
  /\ Refused.ticker = NULL /\ Next_.ticker = NULL
  BY DEF Found, NotFound, Gone, Refused, Next_

LEMMA QuoteKnown ==
  ASSUME NEW isin \in Isins, NEW currency
  PROVE  _resolve_by_isin(isin, currency) \in Ticker_
<1> DEFINE quotes  == Quotes[isin]
           usable  == {k \in DOMAIN quotes : quotes[k].exchange \notin {"SG", "STU", "TDG"}}
           matched == {k \in usable : quotes[k].exchange \in Preferred(currency)}
           neutral == {k \in usable : quotes[k].exchange \notin Competing(currency)}
<1>1. isin \in DOMAIN Quotes /\ DOMAIN quotes \subseteq Nat
  BY MarketAssumption
<1>2. ASSUME NEW k \in DOMAIN quotes PROVE quotes[k].ticker \in Ticker_
  <2> DEFINE found == UNION {{Quotes[i][j].ticker : j \in DOMAIN Quotes[i]} : i \in DOMAIN Quotes}
  <2>1. quotes[k].ticker \in found
    BY <1>1
  <2>2. found \subseteq Ticker_
    BY DEF Ticker_, KnownTickers
  <2> QED
    BY <2>1, <2>2
<1>3. matched \subseteq Nat /\ neutral \subseteq Nat
  BY <1>1
<1>4. _resolve_by_isin(isin, currency) = IF matched # {} THEN quotes[Min(matched)].ticker
                                         ELSE IF neutral # {} THEN quotes[Min(neutral)].ticker
                                         ELSE NULL
  BY DEF _resolve_by_isin
<1>5. CASE matched # {}
  <2>1. Min(matched) \in matched
    BY <1>3, <1>5, Smallest
  <2> QED
    BY <1>2, <1>4, <1>5, <2>1
<1>6. CASE matched = {} /\ neutral # {}
  <2>1. Min(neutral) \in neutral
    BY <1>3, <1>6, Smallest
  <2> QED
    BY <1>2, <1>4, <1>6, <2>1
<1>7. CASE matched = {} /\ neutral = {}
  BY <1>4, <1>7 DEF Ticker_
<1> QED
  BY <1>5, <1>6, <1>7

LEMMA ThenKnown ==
  ASSUME NEW first, NEW rest, NEW r \in Then(first, rest)
  PROVE  (r # Next_ /\ r \in first) \/ r \in rest
  BY DEF Then

(* A finding that has to be written.                                       *)
Proper(x) == x \in Findings /\ (x.method = "gone" => x.ticker = NULL)

(* Every result is a refusal or a finding, and its ticker one that somebody*)
(* named: Yahoo, the user or DeGiro.                                       *)
LEMMA ResultKnown ==
  ASSUME NEW p \in Positions, NEW limited \in BOOLEAN, NEW r \in Resolutions[p][limited]
  PROVE  r.ticker \in Ticker_ /\ (r.method # "refused" => Proper(r))
<1> DEFINE Good(x) == x.ticker \in Ticker_ /\ (x.method # "refused" => Proper(x))
<1>a. \A t \in Ticker_ : Good(Found(t, "found"))
  BY DEF Found, Findings, Proper, Ticker_
<1>b. Good(NotFound) /\ Good(Gone) /\ Good(Refused)
  BY DEF Found, NotFound, Gone, Refused, Findings, Proper, Ticker_
<1> HIDE DEF Good
<1>0. Instrument[p].isin # NULL => Instrument[p].isin \in Isins
  BY DEF Isins
<1>1. ASSUME NEW x \in ExchangeResults(p), x # Next_ PROVE Good(x)
  <2>1. \/ x = Gone
        \/ \E t \in Listed : x = Found(t, "found")
    BY <1>1 DEF ExchangeResults
  <2> QED
    BY <2>1, <1>a, <1>b DEF Ticker_, KnownTickers
<1>2. ASSUME NEW x \in TradegateResults(p), x # Next_ PROVE Good(x)
  <2>1. \/ x = Gone
        \/ /\ Instrument[p].country = "US"
           /\ x = Found(Canonical[Instrument[p].isin], "found")
    BY <1>2 DEF TradegateResults
  <2>2. Instrument[p].country = "US" => Instrument[p].isin \in DOMAIN Canonical
    BY <1>0, MarketAssumption
  <2> QED
    BY <2>1, <2>2, <1>a, <1>b DEF Ticker_, KnownTickers
<1>3. ASSUME NEW x \in SearchResults(p), x # Next_ PROVE Good(x)
  <2>1. \/ x = Refused
        \/ /\ Instrument[p].isin # NULL
           /\ x = Found(_resolve_by_isin(Instrument[p].isin, Instrument[p].currency), "found")
    BY <1>3 DEF SearchResults
  <2>2. Instrument[p].isin # NULL =>
          _resolve_by_isin(Instrument[p].isin, Instrument[p].currency) \in Ticker_
    BY <1>0, QuoteKnown
  <2> QED
    BY <2>1, <2>2, <1>a, <1>b
<1>4. ASSUME NEW x \in ScanResults(p) PROVE Good(x)
  <2>1. \/ x = NotFound \/ x = Refused \/ x = Gone
        \/ \E t \in Listed : x = Found(t, "found")
    BY <1>4 DEF ScanResults
  <2> QED
    BY <2>1, <1>a, <1>b DEF Ticker_, KnownTickers
<1>5. \/ r # Next_ /\ (r \in ExchangeResults(p) \/ r \in TradegateResults(p) \/ r \in SearchResults(p))
      \/ r = Refused \/ r \in ScanResults(p)
  <2>1. Resolutions[p][limited] =
          Then(ExchangeResults(p),
               Then(TradegateResults(p),
                    IF limited THEN {Refused} ELSE Then(SearchResults(p), ScanResults(p))))
    BY DEF Resolutions
  <2> DEFINE scan == IF limited THEN {Refused} ELSE Then(SearchResults(p), ScanResults(p))
             later == Then(TradegateResults(p), scan)
  <2>2. (r # Next_ /\ r \in ExchangeResults(p)) \/ r \in later
    <3> HIDE DEF later
    <3> QED
      BY <2>1, ThenKnown DEF later
  <2>3. r \in later => (r # Next_ /\ r \in TradegateResults(p)) \/ r \in scan
    BY ThenKnown
  <2>4. r \in scan => r = Refused \/ (r # Next_ /\ r \in SearchResults(p)) \/ r \in ScanResults(p)
    BY ThenKnown
  <2> QED
    BY <2>2, <2>3, <2>4
<1>6. Good(r)
  BY <1>1, <1>2, <1>3, <1>4, <1>5, <1>b
<1> QED
  BY <1>6 DEF Good

-----------------------------------------------------------------------------
(* What becomes of the cache *)

(* The keys under which a position is looked up or written.                *)
KeysOf(p) == {RawKey(p), NormKey(p), <<RawKey(p)[1], NULL>>}

(* What may have to be written for p.                                      *)
Answerable(p, x) == Proper(x) /\ (x.ticker = NULL \/ x.ticker \in Tickers(p))

(* What a resolution may do: leave an entry, forget it, or write the ticker*)
(* it returns; what it neither saves nor keeps was too old anyway.         *)
Resolves(p, r) ==
    /\ r.cache \in Cache /\ r.ticker \in Ticker_
    /\ r.saves \in BOOLEAN /\ r.limited \in BOOLEAN
    /\ \A k \in Keys :
         \/ r.cache[k] = _resolution_cache[k]
         \/ /\ k \in KeysOf(p) /\ r.cache[k] = NULL
            /\ r.saves \/ ~IsFresh(_resolution_cache[k])
         \/ /\ k \in KeysOf(p) /\ r.saves
            /\ \E date \in {today, NULL} : r.cache[k] = Entry(r.ticker, date)
    /\ \/ r.ticker = NULL
       \/ r.ticker \in Tickers(p)
       \/ \E k \in Keys \cap KeysOf(p) :
             _resolution_cache[k] # NULL /\ r.ticker = _resolution_cache[k].ticker
    /\ r.found # NULL => Answerable(p, r.found) /\ ~r.saves

LEMMA EntryType ==
  ASSUME NEW t \in Ticker_, NEW date \in Days \cup {NULL}
  PROVE  Entry(t, date) \in Entries
  BY DEF Entry, Entries, Ticker_

LEMMA OwnKeys ==
  ASSUME NEW p \in Positions
  PROVE  RawKey(p) \in Keys \cap KeysOf(p) /\ NormKey(p) \in Keys \cap KeysOf(p)
  BY DEF Keys, KeysOf

LEMMA CachedTicker ==
  ASSUME TypeOK, NEW k \in Keys, _resolution_cache[k] # NULL
  PROVE  _resolution_cache[k] \in Entries /\ _resolution_cache[k].ticker \in Ticker_
  BY DEF TypeOK, Cache, Entries, Ticker_

(* Nothing changes but perhaps the flag.                                   *)
LEMMA LeaveResolves ==
  ASSUME TypeOK, NEW p \in Positions, NEW limited \in BOOLEAN, NEW t \in Ticker_,
         \/ t = NULL
         \/ t \in Tickers(p)
         \/ \E k \in Keys \cap KeysOf(p) :
               _resolution_cache[k] # NULL /\ t = _resolution_cache[k].ticker,
         NEW found, found = NULL \/ Answerable(p, found)
  PROVE  Resolves(p, Outcome(_resolution_cache, t, FALSE, limited, found))
<1> DEFINE r == Outcome(_resolution_cache, t, FALSE, limited, found)
<1>1. /\ r.cache = _resolution_cache /\ r.ticker = t
      /\ r.saves = FALSE /\ r.limited = limited /\ r.found = found
  BY DEF Outcome
<1> HIDE DEF r
<1>2. Resolves(p, r)
  BY <1>1 DEF Resolves, TypeOK
<1> QED
  BY <1>2 DEF r

(* An entry is written under some of the position's keys, and saved.       *)
LEMMA WriteResolves ==
  ASSUME TypeOK, NEW p \in Positions, NEW limited \in BOOLEAN, NEW t \in Ticker_,
         t = NULL \/ t \in Tickers(p),
         NEW cache \in Cache, NEW date \in {today, NULL},
         \A k \in Keys : \/ cache[k] = _resolution_cache[k]
                         \/ k \in KeysOf(p) /\ cache[k] = Entry(t, date)
  PROVE  Resolves(p, Outcome(cache, t, TRUE, limited, NULL))
<1> DEFINE r == Outcome(cache, t, TRUE, limited, NULL)
<1>1. /\ r.cache = cache /\ r.ticker = t
      /\ r.saves = TRUE /\ r.limited = limited /\ r.found = NULL
  BY DEF Outcome
<1> HIDE DEF r
<1>2. Resolves(p, r)
  BY <1>1 DEF Resolves
<1> QED
  BY <1>2 DEF r

(* An entry is forgotten that is too old, or else this is saved.           *)
LEMMA ForgetResolves ==
  ASSUME TypeOK, NEW p \in Positions, NEW limited \in BOOLEAN, NEW saves \in BOOLEAN,
         NEW key \in Keys \cap KeysOf(p), saves \/ ~IsFresh(_resolution_cache[key]),
         NEW found, found = NULL \/ (Answerable(p, found) /\ ~saves)
  PROVE  Resolves(p, Outcome([_resolution_cache EXCEPT ![key] = NULL], NULL, saves, limited, found))
<1> DEFINE cache == [_resolution_cache EXCEPT ![key] = NULL]
           r == Outcome(cache, NULL, saves, limited, found)
<1>1. /\ r.cache = cache /\ r.ticker = NULL
      /\ r.saves = saves /\ r.limited = limited /\ r.found = found
  BY DEF Outcome
<1>2. /\ cache \in Cache /\ cache[key] = NULL
      /\ \A k \in Keys : k # key => cache[k] = _resolution_cache[k]
  BY DEF TypeOK, Cache
<1> HIDE DEF r, cache
<1>3. Resolves(p, r)
  BY <1>1, <1>2 DEF Resolves, Ticker_
<1> QED
  BY <1>3 DEF r, cache

LEMMA WriteOne ==
  ASSUME TypeOK, NEW key \in Keys, NEW entry \in Entries
  PROVE  /\ [_resolution_cache EXCEPT ![key] = entry] \in Cache
         /\ [_resolution_cache EXCEPT ![key] = entry][key] = entry
         /\ \A k \in Keys : k # key => [_resolution_cache EXCEPT ![key] = entry][k] = _resolution_cache[k]
  BY DEF TypeOK, Cache

LEMMA ResolvedResolves ==
  ASSUME TypeOK, NEW p \in Positions,
         NEW r \in Resolved(p, _resolution_cache, _yf_rate_limited)
  PROVE  Resolves(p, r)
<1> DEFINE key == NormKey(p)
           isin == Instrument[p].isin
           entry == _resolution_cache[key]
           limited == _yf_rate_limited
           Forgotten == [_resolution_cache EXCEPT ![key] = NULL]
           Overridden == [_resolution_cache EXCEPT ![RawKey(p)] = Entry(OverrideOf[isin], NULL)]
<1>0. limited \in BOOLEAN /\ NULL \in Ticker_
  BY DEF TypeOK, Ticker_
<1>1. \/ r = Outcome(_resolution_cache, NULL, FALSE, limited, NULL)
      \/ /\ isin # NULL /\ OverrideOf[isin] # NULL
         /\ r = Outcome(Overridden, OverrideOf[isin], TRUE, limited, NULL)
      \/ /\ Instrument[p].form = "dotted"
         /\ r = Outcome(_resolution_cache, SymbolTicker(p), FALSE, limited, NULL)
      \/ /\ entry # NULL
         /\ r = Outcome(_resolution_cache, entry.ticker, FALSE, limited, NULL)
      \/ /\ ~IsFresh(entry)
         /\ r = Outcome(Forgotten, NULL, FALSE, TRUE, NULL)
      \/ /\ ~IsFresh(entry)
         /\ \E x \in Resolutions[p][limited] :
               /\ x.method # "refused"
               /\ r = Outcome(Forgotten, NULL, FALSE, limited, x)
  BY DEF Resolved
<1>2. CASE r = Outcome(_resolution_cache, NULL, FALSE, limited, NULL)
  BY <1>0, <1>2, LeaveResolves
<1>3. CASE /\ isin # NULL /\ OverrideOf[isin] # NULL
           /\ r = Outcome(Overridden, OverrideOf[isin], TRUE, limited, NULL)
  <2>1. isin \in Isins
    BY <1>3 DEF Isins
  <2>2. OverrideOf[isin] \in Ticker_
    BY <2>1, MarketAssumption DEF Ticker_, KnownTickers
  <2>3. OverrideOf[isin] \in Tickers(p)
    BY <1>3 DEF Tickers
  <2>4. /\ Overridden \in Cache /\ Overridden[RawKey(p)] = Entry(OverrideOf[isin], NULL)
        /\ \A k \in Keys : k # RawKey(p) => Overridden[k] = _resolution_cache[k]
    BY <2>2, OwnKeys, EntryType, WriteOne DEF TypeOK
  <2> HIDE DEF Overridden
  <2> QED
    BY <1>0, <1>3, <2>2, <2>3, <2>4, OwnKeys, WriteResolves
<1>4. CASE /\ Instrument[p].form = "dotted"
           /\ r = Outcome(_resolution_cache, SymbolTicker(p), FALSE, limited, NULL)
  <2>1. SymbolTicker(p) \in Ticker_ /\ SymbolTicker(p) \in Tickers(p)
    BY <1>4 DEF Ticker_, KnownTickers, Tickers
  <2> QED
    BY <1>0, <1>4, <2>1, LeaveResolves
<1>5. CASE /\ entry # NULL
           /\ r = Outcome(_resolution_cache, entry.ticker, FALSE, limited, NULL)
  BY <1>0, <1>5, OwnKeys, CachedTicker, LeaveResolves
<1>6. CASE ~IsFresh(entry) /\ r = Outcome(Forgotten, NULL, FALSE, TRUE, NULL)
  BY <1>6, OwnKeys, ForgetResolves
<1>7. CASE /\ ~IsFresh(entry)
           /\ \E x \in Resolutions[p][limited] :
                 /\ x.method # "refused"
                 /\ r = Outcome(Forgotten, NULL, FALSE, limited, x)
  <2>1. PICK x \in Resolutions[p][limited] :
               x.method # "refused" /\ r = Outcome(Forgotten, NULL, FALSE, limited, x)
    BY <1>7
  <2>2. Proper(x)
    BY <1>0, <2>1, ResultKnown
  <2>3. x.ticker \in Tickers(p)
    BY <1>0 DEF Tickers
  <2>4. Answerable(p, x)
    BY <2>2, <2>3 DEF Answerable
  <2> QED
    BY <1>0, <1>7, <2>1, <2>4, OwnKeys, ForgetResolves
<1> QED
  BY <1>1, <1>2, <1>3, <1>4, <1>5, <1>6, <1>7

LEMMA MembersKnown ==
  ASSUME NEW e \in Enrichments
  PROVE  /\ e \in Seq(Positions) /\ Members(e) \subseteq Positions
         /\ \A n \in 1..Len(e) : e[n] \in Members(e)
  BY MarketAssumption DEF Members, Range

LEMMA ByIsinResolves ==
  ASSUME TypeOK, NEW p \in Positions,
         NEW r \in ResolvedByIsin(p, _resolution_cache, _yf_rate_limited)
  PROVE  Resolves(p, r)
<1> DEFINE isin == Instrument[p].isin
           ticker == _resolve_by_isin(isin, Instrument[p].currency)
           limited == _yf_rate_limited
           found == Found(ticker, "numeric_isin")
<1>0. limited \in BOOLEAN /\ NULL \in Ticker_
  BY DEF TypeOK, Ticker_
<1>1. \/ r = Outcome(_resolution_cache, NULL, FALSE, limited, NULL)
      \/ r = Outcome(_resolution_cache, NULL, FALSE, TRUE, NULL)
      \/ isin # NULL /\ r = Outcome(_resolution_cache, NULL, FALSE, limited, found)
  BY DEF ResolvedByIsin
<1>2. CASE isin # NULL /\ r = Outcome(_resolution_cache, NULL, FALSE, limited, found)
  <2>1. ticker \in Ticker_ /\ ticker \in Tickers(p)
    <3>1. isin \in Isins
      BY <1>2 DEF Isins
    <3> QED
      BY <1>2, <3>1, QuoteKnown DEF Tickers
  <2>2. found \in Findings /\ found.method # "gone" /\ found.ticker = ticker
    BY <2>1 DEF Findings, Found, Ticker_
  <2>3. Answerable(p, found)
    BY <2>1, <2>2 DEF Answerable, Proper
  <2> HIDE DEF found
  <2> QED
    BY <1>0, <1>2, <2>3, LeaveResolves
<1> QED
  BY <1>0, <1>1, <1>2, LeaveResolves

(* What was found is written as any resolution writes.                     *)
LEMMA AnswerResolves ==
  ASSUME TypeOK, NEW p \in Positions, NEW x, Answerable(p, x)
  PROVE  Resolves(p, Answer(p, x)) /\ Answer(p, x).found = NULL
<1> DEFINE cache == Written(p, x, _resolution_cache)
<1>0. /\ _yf_rate_limited \in BOOLEAN /\ x.ticker \in Ticker_
      /\ x.method = "gone" => x.ticker = NULL
  BY DEF TypeOK, Answerable, Proper, Findings, Ticker_
<1>1. Answer(p, x) = Outcome(cache, x.ticker, TRUE, _yf_rate_limited, NULL)
  BY DEF Answer
<1>2. CASE x.method = "gone"
  <2>1. cache = [_resolution_cache EXCEPT ![NormKey(p)] = NULL]
    BY <1>2 DEF Written
  <2> QED
    <3>1. Resolves(p, Outcome([_resolution_cache EXCEPT ![NormKey(p)] = NULL], NULL, TRUE,
                              _yf_rate_limited, NULL))
      BY <1>0, OwnKeys, ForgetResolves
    <3>2. Answer(p, x) = Outcome([_resolution_cache EXCEPT ![NormKey(p)] = NULL], NULL, TRUE,
                                 _yf_rate_limited, NULL)
      BY <1>0, <1>1, <1>2, <2>1
    <3> QED
      BY <3>1, <3>2 DEF Outcome
<1>3. CASE x.method # "gone"
  <2>1. Entry(x.ticker, today) \in Entries
    BY <1>0, EntryType DEF TypeOK
  <2>2. /\ cache \in Cache
        /\ \A k \in Keys : \/ cache[k] = _resolution_cache[k]
                           \/ k \in KeysOf(p) /\ cache[k] = Entry(x.ticker, today)
    <3>1. CASE x.method = "numeric_isin"
      BY <1>3, <2>1, <3>1 DEF Written, TypeOK, Cache, KeysOf
    <3>2. CASE x.method # "numeric_isin"
      <4>1. cache = [_resolution_cache EXCEPT ![NormKey(p)] = Entry(x.ticker, today)]
        BY <1>3, <3>2 DEF Written
      <4> QED
        <5>1. NormKey(p) \in Keys /\ NormKey(p) \in KeysOf(p)
          BY OwnKeys
        <5>2. /\ cache \in Cache /\ cache[NormKey(p)] = Entry(x.ticker, today)
              /\ \A k \in Keys : k # NormKey(p) => cache[k] = _resolution_cache[k]
          <6>1. [_resolution_cache EXCEPT ![NormKey(p)] = Entry(x.ticker, today)] \in Cache
            BY <2>1, <5>1, WriteOne
          <6> HIDE DEF cache
          <6> QED
            BY <4>1, <5>1, <6>1 DEF TypeOK, Cache
        <5> HIDE DEF cache
        <5> QED
          BY <5>1, <5>2
    <3> QED
      BY <3>1, <3>2
  <2>3. x.ticker = NULL \/ x.ticker \in Tickers(p)
    BY DEF Answerable
  <2> HIDE DEF cache
  <2>4. Resolves(p, Outcome(cache, x.ticker, TRUE, _yf_rate_limited, NULL))
    BY <1>0, <2>2, <2>3, WriteResolves
  <2> QED
    BY <1>1, <2>4 DEF Outcome
<1> QED
  BY <1>2, <1>3

-----------------------------------------------------------------------------
(* Type correctness *)

(* Where a thread and where an enrichment may be.                          *)
ThreadSites == {"idle", "start", "resolve", "write", "save", "dump", "warm", "ask", "price", "done",
                "raised"}
EnrichmentSites == {"idle", "resolve", "write", "save", "dump", "download", "gather"}

(* Threads run only while their enrichment waits for them, and whoever     *)
(* works has positions to work on.                                         *)
WorkReady ==
    /\ \A p \in Positions : pc[p] \in ThreadSites /\ (pc[p] # "idle" => work[p] \in Position)
    /\ \A e \in Enrichments :
         /\ pc[e] \in EnrichmentSites
         /\ \A p \in Members(e) : /\ pc[e] # "idle" => work[p] \in Position
                                  /\ pc[e] # "gather" => pc[p] = "idle"

(* The answer is for the position the loop is at.                          *)
Positioned(e, x) == x.next \in 1..Len(e) /\ Answerable(e[x.next], x.found)

(* A save knows where to go on, who asks for a ticker has one, and who has *)
(* an answer to write knows for which position.                            *)
JobReady ==
    /\ \A p \in Positions :
         /\ pc[p] = "write" => Answerable(p, job[p].found)
         /\ pc[p] \in {"ask", "price"} => job[p].ticker # NULL
         /\ pc[p] \in {"save", "dump"} =>
              job[p].then = "done" \/ (job[p].then \in {"ask", "price"} /\ job[p].ticker # NULL)
    /\ \A e \in Enrichments :
         /\ pc[e] \in {"save", "dump"} => job[e].then = "download"
         /\ pc[e] = "write" => Positioned(e, job[e])

MarketInv == TypeOK /\ WorkReady /\ JobReady

Typed == /\ pc \in [Procs -> Sites]
         /\ job \in [Procs -> Job]
         /\ \A q \in Procs : pc[q] = "dump" => job[q].copy \in Cache

LEMMA Apart ==
  /\ Positions \subseteq Procs /\ Enrichments \subseteq Procs
  /\ \A q \in Procs : q \in Positions \/ q \in Enrichments
  /\ \A p \in Positions : p \notin Enrichments
  BY MarketAssumption DEF Procs, Threads

(* A thread at work takes a step.                                          *)
LEMMA ThreadMoves ==
  ASSUME MarketInv, NEW p \in Positions, pc[p] # "idle",
         NEW site \in ThreadSites, site # "idle", NEW x \in Job,
         site = "write" => Answerable(p, x.found),
         site \in {"ask", "price"} => x.ticker # NULL,
         site \in {"save", "dump"} =>
           x.then = "done" \/ (x.then \in {"ask", "price"} /\ x.ticker # NULL),
         site = "dump" => x.copy \in Cache,
         pc' = [pc EXCEPT ![p] = site], job' = [job EXCEPT ![p] = x],
         \A q \in Positions : work[q] \in Position => work'[q] \in Position
  PROVE  Typed' /\ WorkReady' /\ JobReady'
<1>1. pc \in [Procs -> Sites] /\ job \in [Procs -> Job] /\ p \in Procs
  BY Apart DEF MarketInv, TypeOK
<1>2. /\ pc'[p] = site /\ \A q \in Procs : q # p => pc'[q] = pc[q]
      /\ job'[p] = x /\ \A q \in Procs : q # p => job'[q] = job[q]
  BY <1>1
<1>3. Typed'
  <2>1. pc' \in [Procs -> Sites]
    BY <1>1 DEF ThreadSites, Sites
  <2>2. job' \in [Procs -> Job]
    BY <1>1
  <2>3. \A q \in Procs : pc'[q] = "dump" => job'[q].copy \in Cache
    BY <1>2 DEF MarketInv, TypeOK
  <2> QED
    BY <2>1, <2>2, <2>3 DEF Typed
<1>4. WorkReady'
  <2>1. \A q \in Positions : pc'[q] \in ThreadSites /\ (pc'[q] # "idle" => work'[q] \in Position)
    BY <1>2, Apart DEF MarketInv, WorkReady
  <2>2. ASSUME NEW e \in Enrichments
        PROVE  /\ pc'[e] \in EnrichmentSites
               /\ \A q \in Members(e) : /\ pc'[e] # "idle" => work'[q] \in Position
                                        /\ pc'[e] # "gather" => pc'[q] = "idle"
    <3>1. pc'[e] = pc[e]
      BY <1>2, Apart
    <3>2. ASSUME NEW q \in Members(e)
          PROVE  /\ pc[e] # "idle" => work'[q] \in Position
                 /\ pc[e] # "gather" => pc'[q] = "idle"
      BY <1>2, MembersKnown, Apart DEF MarketInv, WorkReady
    <3> QED
      BY <3>1, <3>2 DEF MarketInv, WorkReady
  <2> QED
    BY <2>1, <2>2 DEF WorkReady
<1>5. JobReady'
  <2>1. \A q \in Positions :
          /\ pc'[q] = "write" => Answerable(q, job'[q].found)
          /\ pc'[q] \in {"ask", "price"} => job'[q].ticker # NULL
          /\ pc'[q] \in {"save", "dump"} =>
               \/ job'[q].then = "done"
               \/ job'[q].then \in {"ask", "price"} /\ job'[q].ticker # NULL
    BY <1>2, Apart DEF MarketInv, JobReady
  <2>2. \A e \in Enrichments : pc'[e] = pc[e] /\ job'[e] = job[e]
    BY <1>2, Apart
  <2> QED
    BY <2>1, <2>2 DEF MarketInv, JobReady
<1> QED
  BY <1>3, <1>4, <1>5

(* An enrichment takes a step outside the time of its threads.             *)
LEMMA EnrichmentMoves ==
  ASSUME MarketInv, NEW e \in Enrichments, pc[e] # "gather",
         NEW site \in EnrichmentSites, site # "gather", NEW x \in Job,
         site \in {"save", "dump"} => x.then = "download",
         site = "write" => Positioned(e, x),
         site = "dump" => x.copy \in Cache,
         pc' = [pc EXCEPT ![e] = site], job' = [job EXCEPT ![e] = x],
         \A q \in Positions : work[q] \in Position => work'[q] \in Position,
         \A q \in Members(e) : work'[q] \in Position
  PROVE  Typed' /\ WorkReady' /\ JobReady'
<1>1. pc \in [Procs -> Sites] /\ job \in [Procs -> Job] /\ e \in Procs
  BY Apart DEF MarketInv, TypeOK
<1>2. /\ pc'[e] = site /\ \A q \in Procs : q # e => pc'[q] = pc[q]
      /\ job'[e] = x /\ \A q \in Procs : q # e => job'[q] = job[q]
  BY <1>1
<1>3. Typed'
  <2>1. pc' \in [Procs -> Sites]
    BY <1>1 DEF EnrichmentSites, Sites
  <2>2. job' \in [Procs -> Job]
    BY <1>1
  <2>3. \A q \in Procs : pc'[q] = "dump" => job'[q].copy \in Cache
    BY <1>2 DEF MarketInv, TypeOK
  <2> QED
    BY <2>1, <2>2, <2>3 DEF Typed
<1>4. WorkReady'
  <2>1. \A q \in Positions : pc'[q] \in ThreadSites /\ (pc'[q] # "idle" => work'[q] \in Position)
    BY <1>2, Apart DEF MarketInv, WorkReady
  <2>2. ASSUME NEW f \in Enrichments, NEW q \in Members(f)
        PROVE  /\ pc'[f] # "idle" => work'[q] \in Position
               /\ pc'[f] # "gather" => pc'[q] = "idle"
    <3>1. pc'[q] = pc[q] /\ q \in Positions
      BY <1>2, MembersKnown, Apart
    <3>2. CASE f = e
      BY <1>2, <3>1, <3>2 DEF MarketInv, WorkReady
    <3>3. CASE f # e
      BY <1>2, <3>1, <3>3, Apart DEF MarketInv, WorkReady
    <3> QED
      BY <3>2, <3>3
  <2>3. \A f \in Enrichments : pc'[f] \in EnrichmentSites
    BY <1>2, Apart DEF MarketInv, WorkReady
  <2> QED
    BY <2>1, <2>2, <2>3 DEF WorkReady
<1>5. JobReady'
  <2>1. \A q \in Positions : pc'[q] = pc[q] /\ job'[q] = job[q]
    BY <1>2, Apart
  <2>2. ASSUME NEW f \in Enrichments
        PROVE  /\ pc'[f] \in {"save", "dump"} => job'[f].then = "download"
               /\ pc'[f] = "write" => Positioned(f, job'[f])
    <3>1. CASE f = e
      BY <1>2, <3>1
    <3>2. CASE f # e
      BY <1>2, <3>2, Apart DEF MarketInv, JobReady
    <3> QED
      BY <3>1, <3>2
  <2> QED
    BY <2>1, <2>2 DEF MarketInv, JobReady
<1> QED
  BY <1>3, <1>4, <1>5

(* The types but those of pc and job.                                      *)
Data ==
    /\ _resolution_cache \in Cache /\ disk \in Cache /\ io_failed \in BOOLEAN
    /\ _price_cache \in [KnownTickers -> Units \cup {NULL}]
    /\ _fx_cache \subseteq Currencies
    /\ _yf_rate_limited \in BOOLEAN
    /\ today \in Days
    /\ shown \in [Positions -> Position \cup {NULL}]
    /\ work \in [Positions -> Position \cup {NULL}]

LEMMA MarketParts ==
  /\ MarketInv => Data /\ Typed /\ WorkReady /\ JobReady
  /\ Data' /\ Typed' /\ WorkReady' /\ JobReady' => MarketInv'
  BY DEF MarketInv, TypeOK, Data, Typed

LEMMA IdleType ==
  /\ Idle \in Job
  /\ \A t \in Ticker_ : [Idle EXCEPT !.ticker = t] \in Job /\ [Idle EXCEPT !.ticker = t].ticker = t
  /\ [Idle EXCEPT !.then = "done"] \in Job /\ [Idle EXCEPT !.then = "done"].then = "done"
  /\ \A h \in SUBSET KnownTickers : [Idle EXCEPT !.history = h] \in Job
<1>1. /\ << >> \in Seq(KnownTickers \cup {NULL}) /\ 1 \in Nat \ {0} /\ {} \in SUBSET KnownTickers
      /\ FALSE \in BOOLEAN
  OBVIOUS
<1> QED
  BY <1>1 DEF Idle, Job, Sites, Ticker_

(* What the fields of a job may be set to.                                 *)
LEMMA JobSteps ==
  ASSUME NEW x \in Job
  PROVE  /\ \A c \in Cache : [x EXCEPT !.copy = c] \in Job
         /\ [x EXCEPT !.copy = NULL, !.then = NULL] \in Job
         /\ \A t \in Ticker_, site \in Sites \cup {NULL} :
               [x EXCEPT !.ticker = t, !.found = NULL, !.then = site] \in Job
         /\ \A y \in Findings : [x EXCEPT !.found = y] \in Job
         /\ [x EXCEPT !.then = "download", !.dirty = FALSE] \in Job
         /\ \A t \in Ticker_, d \in BOOLEAN :
               [x EXCEPT !.next = @ + 1, !.found = NULL, !.tickers = Append(@, t),
                         !.dirty = @ \/ d] \in Job
         /\ \A u \in Units \cup {NULL} : [x EXCEPT !.cached = u] \in Job
         /\ \A u \in Units \cup {NULL}, b \in BOOLEAN, site \in Sites \cup {NULL} :
               [x EXCEPT !.cached = u, !.then = site, !.pence = b] \in Job
<1>1. \A c \in Cache : [x EXCEPT !.copy = c] \in Job
  BY DEF Job
<1>2. [x EXCEPT !.copy = NULL, !.then = NULL] \in Job
  BY DEF Job
<1>3. /\ \A t \in Ticker_, site \in Sites \cup {NULL} :
            [x EXCEPT !.ticker = t, !.found = NULL, !.then = site] \in Job
      /\ \A y \in Findings : [x EXCEPT !.found = y] \in Job
  BY DEF Job, Ticker_
<1>4. [x EXCEPT !.then = "download", !.dirty = FALSE] \in Job
  BY DEF Job, Sites
<1>5. ASSUME NEW t \in Ticker_, NEW d \in BOOLEAN
      PROVE  [x EXCEPT !.next = @ + 1, !.found = NULL, !.tickers = Append(@, t),
                       !.dirty = @ \/ d] \in Job
  <2>1. x.next + 1 \in Nat \ {0} /\ Append(x.tickers, t) \in Seq(KnownTickers \cup {NULL})
        /\ (x.dirty \/ d) \in BOOLEAN
    BY DEF Job, Ticker_
  <2> QED
    BY <2>1 DEF Job
<1>6. \A u \in Units \cup {NULL} : [x EXCEPT !.cached = u] \in Job
  BY DEF Job
<1>7. \A u \in Units \cup {NULL}, b \in BOOLEAN, site \in Sites \cup {NULL} :
        [x EXCEPT !.cached = u, !.then = site, !.pence = b] \in Job
  BY DEF Job
<1> QED
  BY <1>1, <1>2, <1>3, <1>4, <1>5, <1>6, <1>7

LEMMA SaveCopyType ==
  ASSUME MarketInv, NEW q \in Procs, SaveCopy(q)
  PROVE  MarketInv'
<1> DEFINE x == [job[q] EXCEPT !.copy = _resolution_cache]
<1>1. job \in [Procs -> Job] /\ job[q] \in Job /\ _resolution_cache \in Cache
  BY DEF MarketInv, TypeOK
<1>2. x \in Job /\ x.copy = _resolution_cache /\ x.then = job[q].then /\ x.ticker = job[q].ticker
  <2>1. x \in Job
    BY <1>1, JobSteps
  <2> QED
    BY <1>1, <2>1 DEF Job
<1>3. job' = [job EXCEPT ![q] = x] /\ pc' = [pc EXCEPT ![q] = "dump"] /\ pc[q] = "save"
  BY <1>1 DEF SaveCopy, Goto, Job
<1>4. x.copy \in Cache
  BY <1>1, <1>2
<1>5. work' = work /\ UNCHANGED <<caches, env>>
  BY DEF SaveCopy
<1> HIDE DEF x
<1>6. Data'
  BY <1>5, MarketParts DEF Data, caches, env, file
<1>7. CASE q \in Positions
  <2>1. "dump" \in ThreadSites /\ (x.then = "done" \/ (x.then \in {"ask", "price"} /\ x.ticker # NULL))
    BY <1>2, <1>3, <1>7 DEF MarketInv, JobReady, ThreadSites
  <2>2. Typed' /\ WorkReady' /\ JobReady'
    BY <1>2, <1>3, <1>4, <1>5, <1>7, <2>1, ThreadMoves
  <2> QED
    BY <1>6, <2>2, MarketParts
<1>8. CASE q \in Enrichments
  <2>1. "dump" \in EnrichmentSites /\ x.then = "download"
    BY <1>2, <1>3, <1>8 DEF MarketInv, JobReady, EnrichmentSites
  <2>2. \A p \in Members(q) : work'[p] \in Position
    BY <1>3, <1>5, <1>8 DEF MarketInv, WorkReady
  <2>3. Typed' /\ WorkReady' /\ JobReady'
    BY <1>2, <1>3, <1>4, <1>5, <1>8, <2>1, <2>2, EnrichmentMoves
  <2> QED
    BY <1>6, <2>3, MarketParts
<1> QED
  BY <1>7, <1>8, Apart

LEMMA SaveDumpType ==
  ASSUME MarketInv, NEW q \in Procs, SaveDump(q)
  PROVE  MarketInv'
<1> DEFINE x == [job[q] EXCEPT !.copy = NULL, !.then = NULL]
           site == job[q].then
<1>1. job \in [Procs -> Job] /\ job[q] \in Job
  BY DEF MarketInv, TypeOK
<1>2. x \in Job /\ x.ticker = job[q].ticker
  <2>1. x \in Job
    BY <1>1, JobSteps
  <2> QED
    BY <1>1, <2>1 DEF Job
<1>3. job' = [job EXCEPT ![q] = x] /\ pc' = [pc EXCEPT ![q] = site] /\ pc[q] = "dump"
  BY <1>1 DEF SaveDump, Goto, Job
<1>4. /\ work' = work /\ UNCHANGED <<caches, today, shown>>
      /\ disk' \in {disk, job[q].copy} /\ io_failed' \in {io_failed, TRUE, FALSE}
  BY DEF SaveDump, Denied, file
<1> HIDE DEF x
<1>5. Data'
  <2>1. job[q].copy \in Cache
    BY <1>3 DEF MarketInv, TypeOK
  <2> QED
    BY <1>4, <2>1, MarketParts DEF Data, caches
<1>6. CASE q \in Positions
  <2>1. site = "done" \/ (site \in {"ask", "price"} /\ x.ticker # NULL)
    BY <1>2, <1>3, <1>6 DEF MarketInv, JobReady
  <2>2. Typed' /\ WorkReady' /\ JobReady'
    <3>1. site \in ThreadSites /\ site \notin {"idle", "save", "dump"}
      BY <2>1 DEF ThreadSites
    <3> HIDE DEF site
    <3> QED
      BY <1>2, <1>3, <1>4, <1>6, <2>1, <3>1, ThreadMoves
  <2> QED
    BY <1>5, <2>2, MarketParts
<1>7. CASE q \in Enrichments
  <2>1. site = "download"
    BY <1>3, <1>7 DEF MarketInv, JobReady
  <2>2. \A p \in Members(q) : work'[p] \in Position
    BY <1>3, <1>4, <1>7 DEF MarketInv, WorkReady
  <2>3. Typed' /\ WorkReady' /\ JobReady'
    <3>1. site \in EnrichmentSites /\ site \notin {"idle", "save", "dump", "write", "gather"}
      BY <2>1 DEF EnrichmentSites
    <3> HIDE DEF site
    <3> QED
      BY <1>2, <1>3, <1>4, <1>7, <2>2, <3>1, EnrichmentMoves
  <2> QED
    BY <1>5, <2>3, MarketParts
<1> QED
  BY <1>6, <1>7, Apart

LEMMA EmptyCaches ==
  /\ [k \in Keys |-> NULL] \in Cache
  /\ [t \in KnownTickers |-> NULL] \in [KnownTickers -> Units \cup {NULL}]
  /\ Data => DOMAIN _price_cache = KnownTickers
  BY DEF Cache, Data

LEMMA ClearType ==
  ASSUME MarketInv, clear_symbol_cache
  PROVE  MarketInv'
<1>1. Data'
  <2>1. DOMAIN _price_cache = KnownTickers
    BY EmptyCaches, MarketParts
  <2>2. _price_cache' = [t \in KnownTickers |-> NULL]
    BY <2>1 DEF clear_symbol_cache
  <2>3. /\ _resolution_cache' \in Cache /\ disk' \in Cache
        /\ _price_cache' \in [KnownTickers -> Units \cup {NULL}]
        /\ io_failed' \in BOOLEAN
    BY <2>2, EmptyCaches, MarketParts DEF clear_symbol_cache, Denied, Data
  <2> QED
    BY <2>3, MarketParts DEF Data, clear_symbol_cache, local
<1>2. Typed' /\ WorkReady' /\ JobReady'
  BY MarketParts DEF clear_symbol_cache, local, Typed, WorkReady, JobReady
<1> QED
  BY <1>1, <1>2, MarketParts

LEMMA RawType ==
  ASSUME NEW p \in Positions
  PROVE  Raw(p) \in Position
<1>1. Instrument[p].currency \in Currencies
  BY MarketAssumption
<1>2. Currencies \subseteq Units
  BY DEF Currencies, Units
<1> QED
  BY <1>1, <1>2 DEF Raw, Position

LEMMA EnrichStartType ==
  ASSUME MarketInv, NEW e \in Enrichments, EnrichStart(e)
  PROVE  MarketInv'
<1>1. PICK sync \in BOOLEAN :
        /\ sync \/ \A p \in Members(e) : shown[p] # NULL
        /\ work' = [p \in Positions |-> IF p \notin Members(e) THEN work[p]
                                       ELSE IF sync THEN Raw(p) ELSE shown[p]]
  BY DEF EnrichStart
<1>2. job' = [job EXCEPT ![e] = Idle] /\ pc' = [pc EXCEPT ![e] = "resolve"] /\ pc[e] = "idle"
  BY DEF EnrichStart, Goto
<1>3. /\ work' \in [Positions -> Position \cup {NULL}]
      /\ \A p \in Members(e) : work'[p] \in Position
      /\ \A p \in Positions : work[p] \in Position => work'[p] \in Position
  BY <1>1, RawType, MembersKnown DEF MarketInv, TypeOK
<1>4. _fx_cache' \subseteq Currencies
  <2>1. PICK live \in SUBSET ({Instrument[p].currency : p \in Members(e)} \ {"EUR"}) :
          _fx_cache' = _fx_cache \cup live
    BY DEF EnrichStart
  <2>2. live \subseteq Currencies
    BY MembersKnown, MarketAssumption
  <2> QED
    BY <2>1, <2>2 DEF MarketInv, TypeOK
<1>5. Data'
  BY <1>3, <1>4, MarketParts DEF Data, EnrichStart, env, file
<1>6. Typed' /\ WorkReady' /\ JobReady'
  <2>1. "resolve" \in EnrichmentSites
    BY DEF EnrichmentSites
  <2> QED
    BY <1>2, <1>3, <2>1, IdleType, EnrichmentMoves
<1> QED
  BY <1>5, <1>6, MarketParts

(* A step of the loop over the positions of an enrichment: it settles one  *)
(* position, or finds what has to be written for it.                       *)
Resolving(e) == ResolveOne(e) \/ ResolveWrite(e)
Onward(x, r) == [x EXCEPT !.next = @ + 1, !.found = NULL, !.tickers = Append(@, r.ticker),
                            !.dirty = @ \/ r.saves]

LEMMA ResolvingResult ==
  ASSUME MarketInv, NEW e \in Enrichments, Resolving(e)
  PROVE  /\ pc[e] \in {"resolve", "write"} /\ job[e] \in Job
         /\ job[e].next \in 1..Len(e) /\ e[job[e].next] \in Members(e)
         /\ UNCHANGED <<_price_cache, _fx_cache, env, work>>
         /\ \E r : /\ Resolves(e[job[e].next], r)
                  /\ _resolution_cache' = r.cache /\ _yf_rate_limited' = r.limited
                  /\ \/ /\ r.found = NULL /\ pc' = [pc EXCEPT ![e] = "resolve"]
                        /\ job' = [job EXCEPT ![e] = Onward(job[e], r)]
                     \/ /\ r.found # NULL /\ pc' = [pc EXCEPT ![e] = "write"]
                        /\ job' = [job EXCEPT ![e] = [job[e] EXCEPT !.found = r.found]]
<1> DEFINE p == e[job[e].next]
           entry == _resolution_cache[RawKey(p)]
<1>1. /\ job \in [Procs -> Job] /\ job[e] \in Job /\ e \in Procs /\ job[e].next \in Nat \ {0}
      /\ pc[e] = "write" => job[e].next \in 1..Len(e) /\ Answerable(p, job[e].found)
  BY Apart DEF MarketInv, TypeOK, Job, JobReady, Positioned
<1>2. job[e].next \in 1..Len(e) /\ p \in Members(e) /\ p \in Positions
  <2>1. CASE ResolveOne(e)
    <3>1. job[e].next <= Len(e) /\ Len(e) \in Nat
      BY <2>1, MembersKnown DEF ResolveOne
    <3> HIDE DEF p
    <3>2. job[e].next \in 1..Len(e)
      BY <1>1, <3>1
    <3> QED
      BY <3>2, MembersKnown DEF p
  <2>2. CASE ResolveWrite(e)
    BY <1>1, <2>2, MembersKnown DEF ResolveWrite
  <2> QED
    BY <2>1, <2>2 DEF Resolving
<1>3. PICK r : Resolves(p, r) /\ Settle(e, r)
  <2> HIDE DEF p
  <2>1. CASE ResolveOne(e)
    <3>1. PICK r : /\ \/ /\ IsFresh(entry) /\ entry.ticker # NULL
                         /\ r = Outcome(_resolution_cache, entry.ticker, FALSE, _yf_rate_limited, NULL)
                      \/ r \in ResolvedByIsin(p, _resolution_cache, _yf_rate_limited)
                      \/ r \in Resolved(p, _resolution_cache, _yf_rate_limited)
                   /\ Settle(e, r)
      BY <2>1 DEF ResolveOne, p
    <3>2. CASE /\ IsFresh(entry) /\ entry.ticker # NULL
               /\ r = Outcome(_resolution_cache, entry.ticker, FALSE, _yf_rate_limited, NULL)
      <4>1. /\ entry # NULL /\ RawKey(p) \in Keys \cap KeysOf(p)
            /\ entry.ticker \in Ticker_ /\ _yf_rate_limited \in BOOLEAN
        BY <1>2, <3>2, OwnKeys, CachedTicker DEF IsFresh, MarketInv, TypeOK
      <4> QED
        BY <1>2, <3>1, <3>2, <4>1, LeaveResolves DEF MarketInv
    <3> QED
      BY <1>2, <3>1, <3>2, ByIsinResolves, ResolvedResolves DEF MarketInv
  <2>2. CASE ResolveWrite(e)
    <3>1. Answerable(p, job[e].found) /\ Settle(e, Answer(p, job[e].found))
      BY <1>1, <2>2 DEF ResolveWrite, p
    <3> QED
      BY <1>2, <3>1, AnswerResolves DEF MarketInv
  <2> QED
    BY <2>1, <2>2 DEF Resolving
<1>4. pc[e] \in {"resolve", "write"}
  BY DEF Resolving, ResolveOne, ResolveWrite
<1>5. CASE r.found = NULL
  <2>1. job' = [job EXCEPT ![e].next = @ + 1, ![e].found = NULL,
                           ![e].tickers = Append(@, r.ticker), ![e].dirty = @ \/ r.saves]
    BY <1>3, <1>5 DEF Settle
  <2>2. job' = [job EXCEPT ![e] = Onward(job[e], r)]
    BY <1>1, <2>1 DEF Job, Onward
  <2> HIDE DEF p
  <2> QED
    BY <1>1, <1>2, <1>3, <1>4, <1>5, <2>2 DEF Settle, Goto, p
<1>6. CASE r.found # NULL
  <2>1. job' = [job EXCEPT ![e].found = r.found]
    BY <1>3, <1>6 DEF Settle
  <2>2. job' = [job EXCEPT ![e] = [job[e] EXCEPT !.found = r.found]]
    BY <1>1, <2>1 DEF Job
  <2> HIDE DEF p
  <2> QED
    BY <1>1, <1>2, <1>3, <1>4, <1>6, <2>2 DEF Settle, Goto, p
<1> QED
  BY <1>5, <1>6

LEMMA ResolvingType ==
  ASSUME MarketInv, NEW e \in Enrichments, Resolving(e)
  PROVE  MarketInv'
<1> DEFINE p == e[job[e].next]
<1>1. PICK r : /\ Resolves(p, r)
               /\ _resolution_cache' = r.cache /\ _yf_rate_limited' = r.limited
               /\ \/ /\ r.found = NULL /\ pc' = [pc EXCEPT ![e] = "resolve"]
                     /\ job' = [job EXCEPT ![e] = Onward(job[e], r)]
                  \/ /\ r.found # NULL /\ pc' = [pc EXCEPT ![e] = "write"]
                     /\ job' = [job EXCEPT ![e] = [job[e] EXCEPT !.found = r.found]]
  BY ResolvingResult
<1>2. /\ pc[e] \in {"resolve", "write"} /\ job[e] \in Job /\ job[e].next \in 1..Len(e)
      /\ UNCHANGED <<_price_cache, _fx_cache, env, work>>
  BY ResolvingResult
<1>3. Data'
  BY <1>1, <1>2, MarketParts DEF Data, env, file, Resolves
<1>4. "resolve" \in EnrichmentSites /\ "write" \in EnrichmentSites
  BY DEF EnrichmentSites
<1>5. \A q \in Members(e) : work'[q] \in Position
  BY <1>2 DEF MarketInv, WorkReady
<1>6. CASE /\ pc' = [pc EXCEPT ![e] = "resolve"]
           /\ job' = [job EXCEPT ![e] = Onward(job[e], r)]
  <2>1. Onward(job[e], r) \in Job
    BY <1>1, <1>2, JobSteps DEF Resolves, Onward
  <2> QED
    BY <1>2, <1>3, <1>4, <1>5, <1>6, <2>1, EnrichmentMoves, MarketParts
<1>7. CASE /\ r.found # NULL /\ pc' = [pc EXCEPT ![e] = "write"]
           /\ job' = [job EXCEPT ![e] = [job[e] EXCEPT !.found = r.found]]
  <2> DEFINE x == [job[e] EXCEPT !.found = r.found]
  <2>1. Answerable(p, r.found) /\ r.found \in Findings
    BY <1>1, <1>7 DEF Resolves, Answerable, Proper
  <2>2. x \in Job
    BY <1>2, <2>1, JobSteps
  <2>3. x.next = job[e].next /\ x.found = r.found
    BY <1>2, <2>2 DEF Job
  <2>4. Positioned(e, x)
    BY <1>2, <2>1, <2>3 DEF Positioned
  <2> HIDE DEF x, p
  <2>5. job' = [job EXCEPT ![e] = x]
    BY <1>7 DEF x
  <2> QED
    BY <1>2, <1>3, <1>4, <1>5, <1>7, <2>2, <2>4, <2>5, EnrichmentMoves, MarketParts
<1> QED
  BY <1>1, <1>6, <1>7

LEMMA ResolveDoneType ==
  ASSUME MarketInv, NEW e \in Enrichments, ResolveDone(e)
  PROVE  MarketInv'
<1> DEFINE x == [job[e] EXCEPT !.then = "download", !.dirty = FALSE]
           site == IF job[e].dirty THEN "save" ELSE "download"
<1>1. job \in [Procs -> Job] /\ job[e] \in Job
  BY Apart DEF MarketInv, TypeOK
<1>2. x \in Job /\ x.then = "download"
  <2>1. x \in Job
    BY <1>1, JobSteps
  <2> QED
    BY <1>1, <2>1 DEF Job
<1>3. job' = [job EXCEPT ![e] = x] /\ pc' = [pc EXCEPT ![e] = site] /\ pc[e] = "resolve" /\ work' = work
  BY <1>1 DEF ResolveDone, SaveThen, Goto, Job
<1>4. site \in EnrichmentSites /\ site \notin {"dump", "write", "gather"}
  BY DEF EnrichmentSites
<1> HIDE DEF x, site
<1>5. Data'
  BY MarketParts DEF Data, ResolveDone, caches, env, file
<1>6. Typed' /\ WorkReady' /\ JobReady'
  <2>1. \A q \in Members(e) : work'[q] \in Position
    BY <1>3 DEF MarketInv, WorkReady
  <2> QED
    BY <1>2, <1>3, <1>4, <2>1, EnrichmentMoves
<1> QED
  BY <1>5, <1>6, MarketParts

LEMMA LookupType ==
  ASSUME MarketInv, NEW p \in Positions, Lookup(p)
  PROVE  MarketInv'
<1> DEFINE entry == _resolution_cache[RawKey(p)]
           known == entry # NULL /\ entry.ticker # NULL
           x == [Idle EXCEPT !.ticker = IF known /\ IsFresh(entry) THEN entry.ticker ELSE NULL]
           site == IF ~known \/ ~IsFresh(entry) THEN "resolve"
                   ELSE IF HasFundamentals(entry) THEN "warm" ELSE "ask"
<1>1. x \in Job /\ (known /\ IsFresh(entry) => x.ticker # NULL)
  <2>1. known => entry.ticker \in Ticker_
    BY OwnKeys, CachedTicker DEF MarketInv
  <2> QED
    BY <2>1, IdleType DEF Ticker_
<1>2. /\ pc' = [pc EXCEPT ![p] = site] /\ job' = [job EXCEPT ![p] = x]
      /\ pc[p] = "start" /\ work' = work
  BY DEF Lookup, Goto
<1>3. site \in {"warm", "ask", "resolve"} /\ (site = "ask" => known /\ IsFresh(entry))
  OBVIOUS
<1>4. Data'
  <2>1. _resolution_cache' \in Cache
    BY DEF Lookup, MarketInv, TypeOK, Cache
  <2> QED
    BY <2>1, MarketParts DEF Data, Lookup, env, file
<1> HIDE DEF x, site, known
<1>5. Typed' /\ WorkReady' /\ JobReady'
  <2>1. site \in ThreadSites
    BY <1>3 DEF ThreadSites
  <2> QED
    BY <1>1, <1>2, <1>3, <2>1, ThreadMoves
<1> QED
  BY <1>4, <1>5, MarketParts

(* The same in a thread of its own.                                        *)
ThreadResolving(p) == ResolveThread(p) \/ WriteThread(p)
Site(r) == IF r.ticker = NULL THEN "done" ELSE "ask"
With(x, r) == [x EXCEPT !.ticker = r.ticker, !.found = NULL,
                        !.then = IF r.saves THEN Site(r) ELSE NULL]

LEMMA ThreadResolvingResult ==
  ASSUME MarketInv, NEW p \in Positions, ThreadResolving(p)
  PROVE  /\ pc[p] \in {"resolve", "write"} /\ job[p] \in Job
         /\ UNCHANGED <<_price_cache, _fx_cache, env, work>>
         /\ \E r : /\ Resolves(p, r)
                  /\ _resolution_cache' = r.cache /\ _yf_rate_limited' = r.limited
                  /\ \/ /\ r.found = NULL
                        /\ pc' = [pc EXCEPT ![p] = IF r.saves THEN "save" ELSE Site(r)]
                        /\ job' = [job EXCEPT ![p] = With(job[p], r)]
                     \/ /\ r.found # NULL /\ pc' = [pc EXCEPT ![p] = "write"]
                        /\ job' = [job EXCEPT ![p] = [job[p] EXCEPT !.found = r.found]]
<1>1. /\ job \in [Procs -> Job] /\ job[p] \in Job /\ p \in Procs
      /\ pc[p] = "write" => Answerable(p, job[p].found)
  BY Apart DEF MarketInv, TypeOK, JobReady
<1>2. PICK r : Resolves(p, r) /\ SettleThread(p, r)
  <2>1. CASE ResolveThread(p)
    BY <2>1, ResolvedResolves DEF ResolveThread, MarketInv
  <2>2. CASE WriteThread(p)
    <3>1. Answerable(p, job[p].found) /\ SettleThread(p, Answer(p, job[p].found))
      BY <1>1, <2>2 DEF WriteThread
    <3> QED
      BY <3>1, AnswerResolves DEF MarketInv
  <2> QED
    BY <2>1, <2>2 DEF ThreadResolving
<1>3. pc[p] \in {"resolve", "write"}
  BY DEF ThreadResolving, ResolveThread, WriteThread
<1>4. CASE r.found = NULL
  <2>1. job' = [job EXCEPT ![p].ticker = r.ticker, ![p].found = NULL,
                           ![p].then = IF r.saves THEN Site(r) ELSE NULL]
    BY <1>2, <1>4 DEF SettleThread, Site
  <2>2. job' = [job EXCEPT ![p] = With(job[p], r)]
    BY <1>1, <2>1 DEF Job, With
  <2> QED
    BY <1>1, <1>2, <1>3, <1>4, <2>2 DEF SettleThread, SaveThen, Goto, Site
<1>5. CASE r.found # NULL
  <2>1. job' = [job EXCEPT ![p].found = r.found]
    BY <1>2, <1>5 DEF SettleThread
  <2>2. job' = [job EXCEPT ![p] = [job[p] EXCEPT !.found = r.found]]
    BY <1>1, <2>1 DEF Job
  <2> QED
    BY <1>1, <1>2, <1>3, <1>5, <2>2 DEF SettleThread, Goto
<1> QED
  BY <1>4, <1>5

LEMMA ThreadResolvingType ==
  ASSUME MarketInv, NEW p \in Positions, ThreadResolving(p)
  PROVE  MarketInv'
<1>1. PICK r : /\ Resolves(p, r)
               /\ _resolution_cache' = r.cache /\ _yf_rate_limited' = r.limited
               /\ \/ /\ r.found = NULL
                     /\ pc' = [pc EXCEPT ![p] = IF r.saves THEN "save" ELSE Site(r)]
                     /\ job' = [job EXCEPT ![p] = With(job[p], r)]
                  \/ /\ r.found # NULL /\ pc' = [pc EXCEPT ![p] = "write"]
                     /\ job' = [job EXCEPT ![p] = [job[p] EXCEPT !.found = r.found]]
  BY ThreadResolvingResult
<1>2. /\ pc[p] \in {"resolve", "write"} /\ job[p] \in Job
      /\ UNCHANGED <<_price_cache, _fx_cache, env, work>>
  BY ThreadResolvingResult
<1>3. Data'
  BY <1>1, <1>2, MarketParts DEF Data, env, file, Resolves
<1>4. CASE /\ pc' = [pc EXCEPT ![p] = IF r.saves THEN "save" ELSE Site(r)]
           /\ job' = [job EXCEPT ![p] = With(job[p], r)]
  <2> DEFINE site == IF r.saves THEN "save" ELSE Site(r)
             x == With(job[p], r)
             then == IF r.saves THEN Site(r) ELSE NULL
  <2>1. then \in Sites \cup {NULL} /\ r.ticker \in Ticker_
    BY <1>1 DEF Site, Sites, Resolves
  <2>2. x \in Job /\ x.ticker = r.ticker /\ x.then = then
    <3> HIDE DEF then
    <3>1. x = [job[p] EXCEPT !.ticker = r.ticker, !.found = NULL, !.then = then]
      BY DEF With, then
    <3>2. [job[p] EXCEPT !.ticker = r.ticker, !.found = NULL, !.then = then] \in Job
      BY <1>2, <2>1, JobSteps
    <3> QED
      BY <1>2, <3>1, <3>2 DEF Job
  <2>3. /\ site \in {"save", "done", "ask"} /\ (site = "ask" => x.ticker # NULL)
        /\ site = "save" => x.then = "done" \/ (x.then = "ask" /\ x.ticker # NULL)
    BY <2>2 DEF Site
  <2>4. site \in ThreadSites
    BY <2>3 DEF ThreadSites
  <2>5. pc' = [pc EXCEPT ![p] = site] /\ job' = [job EXCEPT ![p] = x]
    BY <1>4
  <2> HIDE DEF x, site
  <2> QED
    BY <1>2, <1>3, <2>2, <2>3, <2>4, <2>5, ThreadMoves, MarketParts
<1>5. CASE /\ r.found # NULL /\ pc' = [pc EXCEPT ![p] = "write"]
           /\ job' = [job EXCEPT ![p] = [job[p] EXCEPT !.found = r.found]]
  <2> DEFINE x == [job[p] EXCEPT !.found = r.found]
  <2>1. Answerable(p, r.found) /\ r.found \in Findings
    BY <1>1, <1>5 DEF Resolves, Answerable, Proper
  <2>2. x \in Job
    BY <1>2, <2>1, JobSteps
  <2>3. x.found = r.found
    BY <1>2, <2>2 DEF Job
  <2>4. "write" \in ThreadSites
    BY DEF ThreadSites
  <2> HIDE DEF x
  <2>5. job' = [job EXCEPT ![p] = x]
    BY <1>5 DEF x
  <2> QED
    BY <1>2, <1>3, <1>5, <2>1, <2>2, <2>3, <2>4, <2>5, ThreadMoves, MarketParts
<1> QED
  BY <1>1, <1>4, <1>5

(* An entry goes and the save is next, or the thread ends.                 *)
LEMMA EvictMoves ==
  ASSUME MarketInv, NEW p \in Positions, pc[p] # "idle", Evict(p),
         \A q \in Positions : work[q] \in Position => work'[q] \in Position
  PROVE  Typed' /\ WorkReady' /\ JobReady' /\ _resolution_cache' \in Cache
<1> DEFINE x == [Idle EXCEPT !.then = "done"]
<1>1. x \in Job /\ x.then = "done"
  BY IdleType
<1>2. pc' = [pc EXCEPT ![p] = "save"] /\ job' = [job EXCEPT ![p] = x]
  BY DEF Evict, Goto
<1>3. _resolution_cache' \in Cache
  BY DEF Evict, MarketInv, TypeOK, Cache
<1> HIDE DEF x
<1>4. "save" \in ThreadSites
  BY DEF ThreadSites
<1> QED
  BY <1>1, <1>2, <1>3, <1>4, ThreadMoves

LEMMA EndMoves ==
  ASSUME MarketInv, NEW p \in Positions, pc[p] # "idle", EndThread(p),
         \A q \in Positions : work[q] \in Position => work'[q] \in Position
  PROVE  Typed' /\ WorkReady' /\ JobReady'
<1>1. pc' = [pc EXCEPT ![p] = "done"] /\ job' = [job EXCEPT ![p] = Idle]
  BY DEF EndThread, Goto
<1>2. "done" \in ThreadSites
  BY DEF ThreadSites
<1> QED
  BY <1>1, <1>2, IdleType, ThreadMoves

(* Fundamentals that are answered for are asked for no more.               *)
Answered(p) ==
    IF _resolution_cache[RawKey(p)] = NULL THEN _resolution_cache
    ELSE [_resolution_cache EXCEPT ![RawKey(p)].fundamentals = today]

LEMMA AnsweredType ==
  ASSUME TypeOK, NEW p \in Positions
  PROVE  /\ Answered(p) \in Cache
         /\ \A k \in Keys : k # RawKey(p) => Answered(p)[k] = _resolution_cache[k]
         /\ _resolution_cache[RawKey(p)] = NULL => Answered(p) = _resolution_cache
         /\ _resolution_cache[RawKey(p)] # NULL =>
               /\ Answered(p)[RawKey(p)].ticker = _resolution_cache[RawKey(p)].ticker
               /\ Answered(p)[RawKey(p)].cached_at = _resolution_cache[RawKey(p)].cached_at
               /\ Answered(p)[RawKey(p)].fundamentals = today
<1> DEFINE key == RawKey(p)
<1>1. key \in Keys /\ today \in Days /\ _resolution_cache \in Cache
  BY OwnKeys DEF TypeOK
<1>2. CASE _resolution_cache[key] = NULL
  BY <1>1, <1>2 DEF Answered
<1>3. CASE _resolution_cache[key] # NULL
  <2> DEFINE x == [_resolution_cache[key] EXCEPT !.fundamentals = today]
  <2>1. _resolution_cache[key] \in Entries
    BY <1>1, <1>3 DEF Cache
  <2>2. /\ x \in Entries /\ x.ticker = _resolution_cache[key].ticker
        /\ x.cached_at = _resolution_cache[key].cached_at /\ x.fundamentals = today
    BY <1>1, <2>1 DEF Entries
  <2>3. Answered(p) = [_resolution_cache EXCEPT ![key] = x]
    BY <1>3 DEF Answered
  <2> HIDE DEF x
  <2> QED
    BY <1>1, <1>3, <2>2, <2>3 DEF Cache
<1> QED
  BY <1>2, <1>3

AfterSave(p) == IF _resolution_cache[RawKey(p)] = NULL THEN NULL ELSE "price"

(* The ways AskInfo may come out.                                          *)
LEMMA AskInfoResult ==
  ASSUME MarketInv, NEW p \in Positions, AskInfo(p)
  PROVE  LET cached == _price_cache[job[p].ticker]
             known == HasFundamentals(_resolution_cache[RawKey(p)])
         IN  /\ cached \in Units \cup {NULL}
             /\ \/ /\ job' = [job EXCEPT ![p] = [job[p] EXCEPT !.cached = cached]]
                   /\ pc' = [pc EXCEPT ![p] = "price"]
                   /\ UNCHANGED _resolution_cache
                \/ ~known /\ Evict(p)
                \/ EndThread(p) /\ UNCHANGED _resolution_cache
                \/ /\ ~known
                   /\ \E pence \in BOOLEAN :
                        job' = [job EXCEPT ![p] =
                                  [job[p] EXCEPT !.cached = cached, !.then = AfterSave(p), !.pence = pence]]
                   /\ _resolution_cache' = Answered(p)
                   /\ pc' = [pc EXCEPT ![p] = IF _resolution_cache[RawKey(p)] # NULL
                                             THEN "save" ELSE "price"]
<1> DEFINE cached == _price_cache[job[p].ticker]
           known == HasFundamentals(_resolution_cache[RawKey(p)])
<1>1. job \in [Procs -> Job] /\ p \in Procs
  BY Apart DEF MarketInv, TypeOK
<1>2. cached \in Units \cup {NULL}
  <2>1. job[p].ticker # NULL /\ job[p].ticker \in KnownTickers \cup {NULL}
    BY <1>1 DEF AskInfo, MarketInv, JobReady, Job
  <2> QED
    BY <2>1 DEF MarketInv, TypeOK
<1>3. CASE /\ job' = [job EXCEPT ![p].cached = cached]
           /\ Goto(p, "price")
           /\ UNCHANGED _resolution_cache
  <2>1. job' = [job EXCEPT ![p] = [job[p] EXCEPT !.cached = cached]]
    <3> HIDE DEF cached
    <3> QED
      BY <1>1, <1>3 DEF Job
  <2> QED
    BY <1>2, <1>3, <2>1 DEF Goto
<1>4. CASE /\ ~known
           /\ \E answered \in {TRUE} \cup {~InfoFaults} :
                 job' = [job EXCEPT ![p].cached = cached, ![p].then = AfterSave(p),
                           ![p].pence = answered /\ QuoteUnit(job[p].ticker) = "GBp"]
           /\ _resolution_cache' = Answered(p)
           /\ SaveThen(p, "price", _resolution_cache[RawKey(p)] # NULL)
  <2>1. PICK pence \in BOOLEAN :
          job' = [job EXCEPT ![p].cached = cached, ![p].then = AfterSave(p), ![p].pence = pence]
    BY <1>4, MarketAssumption
  <2>2. job' = [job EXCEPT ![p] =
                  [job[p] EXCEPT !.cached = cached, !.then = AfterSave(p), !.pence = pence]]
    <3> HIDE DEF cached
    <3> QED
      BY <1>1, <2>1 DEF Job
  <2> QED
    BY <1>2, <1>4, <2>2 DEF SaveThen, Goto
<1>5. CASE ~known /\ Evict(p)
  BY <1>2, <1>5
<1>6. CASE EndThread(p) /\ UNCHANGED _resolution_cache
  BY <1>2, <1>6
<1> QED
  BY <1>3, <1>4, <1>5, <1>6 DEF AskInfo, Answered, AfterSave

LEMMA AskInfoType ==
  ASSUME MarketInv, NEW p \in Positions, AskInfo(p)
  PROVE  MarketInv'
<1> DEFINE cached == _price_cache[job[p].ticker]
<1>1. /\ job[p] \in Job /\ job[p].ticker # NULL /\ pc[p] = "ask"
      /\ work' = work /\ cached \in Units \cup {NULL}
  BY AskInfoResult, Apart DEF AskInfo, MarketInv, TypeOK, JobReady
<1>2. "price" \in ThreadSites /\ "save" \in ThreadSites
  BY DEF ThreadSites
<1> HIDE DEF cached
<1>3. Typed' /\ WorkReady' /\ JobReady' /\ _resolution_cache' \in Cache
  <2>1. CASE /\ job' = [job EXCEPT ![p] = [job[p] EXCEPT !.cached = cached]]
             /\ pc' = [pc EXCEPT ![p] = "price"]
             /\ UNCHANGED _resolution_cache
    <3> DEFINE x == [job[p] EXCEPT !.cached = cached]
    <3>1. x \in Job
      BY <1>1, JobSteps
    <3>2. x.ticker = job[p].ticker
      BY <1>1, <3>1 DEF Job
    <3> HIDE DEF x
    <3>3. job' = [job EXCEPT ![p] = x]
      BY <2>1 DEF x
    <3>4. Typed' /\ WorkReady' /\ JobReady'
      BY <1>1, <1>2, <2>1, <3>1, <3>2, <3>3, ThreadMoves
    <3> QED
      BY <2>1, <3>4 DEF MarketInv, TypeOK
  <2>2. CASE Evict(p)
    BY <1>1, <2>2, EvictMoves
  <2>3. CASE EndThread(p) /\ UNCHANGED _resolution_cache
    BY <1>1, <2>3, EndMoves DEF MarketInv, TypeOK
  <2>4. ASSUME NEW pence \in BOOLEAN,
               job' = [job EXCEPT ![p] =
                         [job[p] EXCEPT !.cached = cached, !.then = AfterSave(p), !.pence = pence]],
               _resolution_cache' = Answered(p),
               pc' = [pc EXCEPT ![p] = IF _resolution_cache[RawKey(p)] # NULL THEN "save" ELSE "price"]
        PROVE  Typed' /\ WorkReady' /\ JobReady' /\ _resolution_cache' \in Cache
    <3> DEFINE x == [job[p] EXCEPT !.cached = cached, !.then = AfterSave(p), !.pence = pence]
               site == IF _resolution_cache[RawKey(p)] # NULL THEN "save" ELSE "price"
    <3>0. AfterSave(p) \in Sites \cup {NULL} /\ (site = "save" => AfterSave(p) = "price")
      BY DEF AfterSave, Sites
    <3>1. x \in Job
      BY <1>1, <3>0, JobSteps
    <3>2. x.ticker = job[p].ticker /\ x.then = AfterSave(p)
      BY <1>1, <3>1 DEF Job
    <3>3. job' = [job EXCEPT ![p] = x] /\ pc' = [pc EXCEPT ![p] = site]
      BY <2>4
    <3>4. site \in {"save", "price"}
      OBVIOUS
    <3> HIDE DEF x, site
    <3>5. Typed' /\ WorkReady' /\ JobReady'
      BY <1>1, <1>2, <3>0, <3>1, <3>2, <3>3, <3>4, ThreadMoves
    <3> QED
      BY <2>4, <3>5, AnsweredType DEF MarketInv
  <2> QED
    BY <2>1, <2>2, <2>3, <2>4, AskInfoResult DEF cached
<1>4. Data'
  BY <1>3, MarketParts DEF Data, AskInfo, env, file
<1> QED
  BY <1>3, <1>4, MarketParts

(* What a thread makes of its copy of a position.                          *)
LEMMA WorkSteps ==
  ASSUME TypeOK, NEW p \in Positions, work[p] \in Position, NEW c \in Currencies
  PROVE  /\ [work EXCEPT ![p].currency = c] = [work EXCEPT ![p] = [work[p] EXCEPT !.currency = c]]
         /\ [work[p] EXCEPT !.currency = c] \in Position
         /\ \A u \in Units \cup {NULL} :
              /\ [work EXCEPT ![p].currency = c, ![p].unit = u]
                    = [work EXCEPT ![p] = [work[p] EXCEPT !.currency = c, !.unit = u]]
              /\ [work[p] EXCEPT !.currency = c, !.unit = u] \in Position
<1>1. work \in [Positions -> Position \cup {NULL}]
  BY DEF TypeOK
<1>2. [work EXCEPT ![p].currency = c] = [work EXCEPT ![p] = [work[p] EXCEPT !.currency = c]]
  BY <1>1
<1>3. [work[p] EXCEPT !.currency = c] \in Position
  BY DEF Position
<1>4. ASSUME NEW u \in Units \cup {NULL}
      PROVE  /\ [work EXCEPT ![p].currency = c, ![p].unit = u]
                   = [work EXCEPT ![p] = [work[p] EXCEPT !.currency = c, !.unit = u]]
             /\ [work[p] EXCEPT !.currency = c, !.unit = u] \in Position
  <2>1. [work EXCEPT ![p].currency = c, ![p].unit = u]
          = [work EXCEPT ![p] = [work[p] EXCEPT !.currency = c, !.unit = u]]
    BY <1>1 DEF Position
  <2>2. [work[p] EXCEPT !.currency = c, !.unit = u] \in Position
    BY DEF Position
  <2> QED
    BY <2>1, <2>2
<1> QED
  BY <1>2, <1>3, <1>4

LEMMA WorkWritten ==
  ASSUME TypeOK, NEW p \in Positions, NEW w \in Position, work' = [work EXCEPT ![p] = w]
  PROVE  /\ work' \in [Positions -> Position \cup {NULL}]
         /\ work'[p] = w /\ \A q \in Positions : q # p => work'[q] = work[q]
         /\ \A q \in Positions : work[q] \in Position => work'[q] \in Position
  BY DEF TypeOK

LEMMA ListingCurrency ==
  \A ticker : yf_currency(ticker) \in {"EUR", "GBP", ""}
  BY DEF yf_currency

LEMMA RelabelledType ==
  ASSUME NEW p \in Positions, work[p] \in Position
  PROVE  Relabelled(p) \in Currencies
<1>1. work[p].currency \in Currencies
  BY DEF Position
<1> QED
  BY <1>1, ListingCurrency DEF Relabelled, Currencies

LEMMA UnitTypes ==
  /\ \A ticker : QuoteUnit(ticker) \in Units
  /\ \A unit \in Units : DividedBy100(unit) \in Units
<1>1. \A ticker : QuoteUnit(ticker) \in Units
  BY DEF QuoteUnit, Units
<1>2. \A unit \in Units : DividedBy100(unit) \in Units
  BY DEF DividedBy100, Units
<1> QED
  BY <1>1, <1>2

LEMMA ColdUnitsType ==
  ASSUME TypeOK, NEW p \in Positions, NEW unit \in ColdUnits(p)
  PROVE  unit \in Units
<1>1. job[p].cached \in Units \cup {NULL}
  BY Apart DEF TypeOK, Job
<1>2. \E u \in {QuoteUnit(job[p].ticker), job[p].cached} :
        /\ u = QuoteUnit(job[p].ticker) \/ job[p].cached # NULL
        /\ unit \in {u, DividedBy100(u)}
  BY DEF ColdUnits
<1> QED
  BY <1>1, <1>2, UnitTypes

LEMMA PriceType ==
  ASSUME MarketInv, NEW p \in Positions, Price(p)
  PROVE  MarketInv'
<1>1. TypeOK /\ pc[p] = "price" /\ work[p] \in Position /\ Relabelled(p) \in Currencies
  BY RelabelledType DEF Price, MarketInv, WorkReady
<1>2. /\ work' \in [Positions -> Position \cup {NULL}]
      /\ \A q \in Positions : work[q] \in Position => work'[q] \in Position
      /\ _price_cache' \in [KnownTickers -> Units \cup {NULL}]
  <2>1. CASE \E unit \in ColdUnits(p) :
               /\ work' = [work EXCEPT ![p].currency = Relabelled(p), ![p].unit = unit]
               /\ _price_cache' = [_price_cache EXCEPT ![job[p].ticker] = unit]
    <3>1. PICK unit \in ColdUnits(p) :
               /\ work' = [work EXCEPT ![p].currency = Relabelled(p), ![p].unit = unit]
               /\ _price_cache' = [_price_cache EXCEPT ![job[p].ticker] = unit]
      BY <2>1
    <3>2. unit \in Units
      BY <1>1, ColdUnitsType
    <3> DEFINE w == [work[p] EXCEPT !.currency = Relabelled(p), !.unit = unit]
    <3>3. w \in Position /\ work' = [work EXCEPT ![p] = w]
      BY <1>1, <3>1, <3>2, WorkSteps
    <3> HIDE DEF w
    <3> QED
      BY <1>1, <3>1, <3>2, <3>3, WorkWritten DEF TypeOK
  <2>2. CASE /\ work' = [work EXCEPT ![p].currency = Relabelled(p)]
             /\ UNCHANGED _price_cache
    <3>1. PICK w \in Position : work' = [work EXCEPT ![p] = w]
      BY <1>1, <2>2, WorkSteps
    <3> QED
      BY <1>1, <2>2, <3>1, WorkWritten DEF TypeOK
  <2> QED
    BY <2>1, <2>2 DEF Price
<1>3. Data'
  BY <1>2, MarketParts DEF Data, Price, env, file
<1>4. Typed' /\ WorkReady' /\ JobReady'
  BY <1>1, <1>2, EndMoves DEF Price
<1> QED
  BY <1>3, <1>4, MarketParts

LEMMA PriceMissingType ==
  ASSUME MarketInv, NEW p \in Positions, PriceMissing(p)
  PROVE  MarketInv'
<1>1. TypeOK /\ pc[p] = "price" /\ work[p] \in Position /\ Relabelled(p) \in Currencies
  BY RelabelledType DEF PriceMissing, MarketInv, WorkReady
<1>2. PICK w \in Position : work' = [work EXCEPT ![p] = w]
  BY <1>1, WorkSteps DEF PriceMissing
<1>3. /\ work' \in [Positions -> Position \cup {NULL}]
      /\ \A q \in Positions : work[q] \in Position => work'[q] \in Position
  BY <1>1, <1>2, WorkWritten
<1>4. Typed' /\ WorkReady' /\ JobReady' /\ _resolution_cache' \in Cache
  BY <1>1, <1>3, EvictMoves DEF PriceMissing
<1>5. Data'
  BY <1>3, <1>4, MarketParts DEF Data, PriceMissing, env, file
<1> QED
  BY <1>4, <1>5, MarketParts

(* The units of the prices the fast path may take for a listing.           *)
Batch(p) == UNION {job[e].history : e \in {f \in Enrichments : p \in Members(f)}}
WarmUnits(p, ticker) ==
    {QuoteUnit(ticker), _price_cache[ticker]}
    \cup (IF SymbolTicker(p) \in Batch(p) THEN {QuoteUnit(SymbolTicker(p))} ELSE {})

(* What the fast path makes of the entry it finds: no price, or a label    *)
(* and a unit.                                                             *)
LEMMA WarmReadResult ==
  ASSUME MarketInv, NEW p \in Positions, WarmRead(p)
  PROVE  LET entry == _resolution_cache[RawKey(p)]
         IN  \/ work' = work
             \/ /\ entry # NULL /\ entry.ticker # NULL
                /\ \E unit \in WarmUnits(p, entry.ticker) : \E label \in Currencies :
                       /\ unit # NULL
                       /\ work' = [work EXCEPT ![p].currency = label, ![p].unit = unit]
                       /\ \/ label = yf_currency(entry.ticker)
                          \/ yf_currency(entry.ticker) = "" /\ label = "EUR" /\ entry.fundamentals = NULL
                          \/ yf_currency(entry.ticker) = "" /\ label = "USD"
<1> DEFINE entry == _resolution_cache[RawKey(p)]
           batch == Batch(p)
           label == IF yf_currency(entry.ticker) # "" THEN yf_currency(entry.ticker)
                    ELSE IF entry.fundamentals = NULL THEN "EUR" ELSE "USD"
           unit == IF entry = NULL \/ entry.ticker = NULL THEN NULL
                   ELSE IF entry.ticker \in batch THEN QuoteUnit(entry.ticker)
                   ELSE IF SymbolTicker(p) \in batch THEN QuoteUnit(SymbolTicker(p))
                   ELSE _price_cache[entry.ticker]
<1>1. work' = IF unit = NULL THEN work
              ELSE [work EXCEPT ![p].currency = label, ![p].unit = unit]
  BY DEF WarmRead, Batch
<1> HIDE DEF entry
<1>2. \/ label = yf_currency(entry.ticker) /\ label # ""
      \/ yf_currency(entry.ticker) = "" /\ label = "EUR" /\ entry.fundamentals = NULL
      \/ yf_currency(entry.ticker) = "" /\ label = "USD"
  OBVIOUS
<1>3. label \in Currencies
  BY <1>2, ListingCurrency DEF Currencies
<1>4. unit # NULL => /\ entry # NULL /\ entry.ticker # NULL
                     /\ unit \in WarmUnits(p, entry.ticker)
  BY DEF WarmUnits
<1> HIDE DEF label, unit
<1>5. CASE unit = NULL
  BY <1>1, <1>5
<1>6. CASE unit # NULL
  BY <1>1, <1>2, <1>3, <1>4, <1>6 DEF entry
<1> QED
  BY <1>5, <1>6

LEMMA WarmReadType ==
  ASSUME MarketInv, NEW p \in Positions, WarmRead(p)
  PROVE  MarketInv'
<1>1. TypeOK /\ pc[p] = "warm" /\ work[p] \in Position
  BY DEF WarmRead, MarketInv, WorkReady
<1>2. /\ work' \in [Positions -> Position \cup {NULL}]
      /\ \A q \in Positions : work[q] \in Position => work'[q] \in Position
  <2>1. CASE work' = work
    BY <1>1, <2>1 DEF TypeOK
  <2>2. CASE work' # work
    <3> DEFINE entry == _resolution_cache[RawKey(p)]
    <3>1. PICK unit, label : /\ entry # NULL /\ entry.ticker # NULL /\ label \in Currencies
                             /\ unit \in WarmUnits(p, entry.ticker)
                             /\ work' = [work EXCEPT ![p].currency = label, ![p].unit = unit]
      BY <2>2, WarmReadResult
    <3>2. entry.ticker \in KnownTickers
      BY <3>1, OwnKeys, CachedTicker DEF MarketInv, Ticker_
    <3>3. unit \in Units \cup {NULL}
      BY <1>1, <3>1, <3>2, UnitTypes DEF TypeOK, WarmUnits
    <3> DEFINE w == [work[p] EXCEPT !.currency = label, !.unit = unit]
    <3>4. w \in Position /\ work' = [work EXCEPT ![p] = w]
      BY <1>1, <3>1, <3>3, WorkSteps
    <3> HIDE DEF w
    <3> QED
      BY <1>1, <3>4, WorkWritten
  <2> QED
    BY <2>1, <2>2
<1>3. Data'
  BY <1>2, MarketParts DEF Data, WarmRead, caches, env, file
<1>4. Typed' /\ WorkReady' /\ JobReady'
  <2>1. CASE EndThread(p)
    BY <1>1, <1>2, <2>1, EndMoves
  <2>2. CASE Goto(p, "raised") /\ UNCHANGED job
    <3>1. job' = [job EXCEPT ![p] = job[p]] /\ job[p] \in Job
      BY <2>2, Apart DEF MarketInv, TypeOK
    <3>2. pc' = [pc EXCEPT ![p] = "raised"]
      BY <2>2 DEF Goto
    <3>3. "raised" \in ThreadSites
      BY DEF ThreadSites
    <3> QED
      BY <1>1, <1>2, <3>1, <3>2, <3>3, ThreadMoves
  <2> QED
    BY <2>1, <2>2 DEF WarmRead
<1> QED
  BY <1>3, <1>4, MarketParts

(* What happens to one enrichment's positions leaves the others' alone.    *)
LEMMA MembersApart ==
  ASSUME NEW e \in Enrichments, NEW f \in Enrichments, e # f
  PROVE  \A p \in Members(f) : p \notin Members(e)
  BY MarketAssumption

LEMMA DownloadType ==
  ASSUME MarketInv, NEW e \in Enrichments, Download(e)
  PROVE  MarketInv'
<1>1. /\ pc \in [Procs -> Sites] /\ job \in [Procs -> Job] /\ e \in Procs
      /\ job[e].tickers \in Seq(KnownTickers \cup {NULL})
  BY Apart DEF MarketInv, TypeOK, Job
<1>2. PICK x \in Job : job' = [job EXCEPT ![e] = x]
  <2>1. PICK history \in SUBSET (Range(job[e].tickers) \ {NULL}) :
          job' = [job EXCEPT ![e] = [Idle EXCEPT !.history = history]]
    BY DEF Download
  <2>2. Range(job[e].tickers) \subseteq KnownTickers \cup {NULL}
    BY <1>1 DEF Range
  <2>3. history \in SUBSET KnownTickers
    BY <2>2
  <2> QED
    BY <2>1, <2>3, IdleType
<1>3. /\ pc[e] = "download" /\ work' = work /\ UNCHANGED <<caches, env>>
      /\ \A q \in Procs : pc'[q] = IF q = e THEN "gather"
                                  ELSE IF q \in Members(e) THEN "start" ELSE pc[q]
      /\ DOMAIN pc' = Procs
  BY DEF Download
<1>4. pc' \in [Procs -> Sites]
  BY <1>1 DEF Download, Sites
<1>5. /\ job' \in [Procs -> Job] /\ job'[e] = x
      /\ \A q \in Procs : q # e => job'[q] = job[q]
  BY <1>1, <1>2
<1>6. Typed'
  <2>1. \A q \in Procs : pc'[q] = "dump" => q # e /\ pc'[q] = pc[q]
    BY <1>3
  <2> QED
    BY <1>4, <1>5, <2>1 DEF Typed, MarketInv, TypeOK
<1>7. WorkReady'
  <2>1. \A p \in Positions : pc'[p] \in ThreadSites /\ (pc'[p] # "idle" => work'[p] \in Position)
    BY <1>3, Apart DEF MarketInv, WorkReady, ThreadSites
  <2>2. ASSUME NEW f \in Enrichments
        PROVE  /\ pc'[f] \in EnrichmentSites
               /\ \A p \in Members(f) : /\ pc'[f] # "idle" => work'[p] \in Position
                                        /\ pc'[f] # "gather" => pc'[p] = "idle"
    <3>1. CASE f = e
      BY <1>3, <3>1, Apart DEF MarketInv, WorkReady, EnrichmentSites
    <3>2. CASE f # e
      <4>1. pc'[f] = pc[f]
        BY <1>3, <3>2, MembersKnown, Apart
      <4>2. ASSUME NEW p \in Members(f) PROVE pc'[p] = pc[p]
        <5>1. p \in Positions /\ p # e /\ p \notin Members(e)
          BY <3>2, MembersKnown, MembersApart, Apart
        <5> QED
          BY <1>3, <5>1, Apart
      <4> QED
        BY <1>3, <4>1, <4>2 DEF MarketInv, WorkReady
    <3> QED
      BY <3>1, <3>2
  <2> QED
    BY <2>1, <2>2 DEF WorkReady
<1>8. JobReady'
  <2>1. \A p \in Positions : job'[p] = job[p] /\ pc'[p] \in {pc[p], "start"}
    BY <1>3, <1>5, Apart
  <2>2. \A f \in Enrichments : pc'[f] \in {"save", "dump", "write"} => pc'[f] = pc[f] /\ job'[f] = job[f]
    BY <1>3, <1>5, MembersKnown, Apart
  <2> QED
    BY <2>1, <2>2 DEF MarketInv, JobReady
<1>9. Data'
  BY <1>3, MarketParts DEF Data, caches, env, file
<1> QED
  BY <1>6, <1>7, <1>8, <1>9, MarketParts

(* An enrichment and its threads are over.                                 *)
LEMMA AllGathered ==
  ASSUME MarketInv, NEW e \in Enrichments, pc[e] = "gather",
         pc' = [q \in Procs |-> IF q = e \/ q \in Members(e) THEN "idle" ELSE pc[q]],
         job' = [q \in Procs |-> IF q = e \/ q \in Members(e) THEN Idle ELSE job[q]],
         work' = [p \in Positions |-> IF p \in Members(e) THEN NULL ELSE work[p]]
  PROVE  Typed' /\ WorkReady' /\ JobReady' /\ work' \in [Positions -> Position \cup {NULL}]
<1> DEFINE gone(q) == q = e \/ q \in Members(e)
<1>1. /\ pc \in [Procs -> Sites] /\ job \in [Procs -> Job]
      /\ work \in [Positions -> Position \cup {NULL}]
  BY DEF MarketInv, TypeOK
<1>2. \A q \in Procs : \/ pc'[q] = "idle" /\ gone(q)
                       \/ pc'[q] = pc[q] /\ job'[q] = job[q] /\ ~gone(q)
  OBVIOUS
<1>3. Typed'
  <2>1. pc' \in [Procs -> Sites] /\ job' \in [Procs -> Job]
    BY <1>1, IdleType DEF Sites
  <2>2. \A q \in Procs : pc'[q] = "dump" => job'[q].copy \in Cache
    BY <1>2 DEF MarketInv, TypeOK
  <2> QED
    BY <2>1, <2>2 DEF Typed
<1>4. WorkReady'
  <2>1. ASSUME NEW p \in Positions
        PROVE  pc'[p] \in ThreadSites /\ (pc'[p] # "idle" => work'[p] \in Position)
    BY <1>2, Apart DEF MarketInv, WorkReady, ThreadSites
  <2>2. ASSUME NEW f \in Enrichments
        PROVE  /\ pc'[f] \in EnrichmentSites
               /\ \A p \in Members(f) : /\ pc'[f] # "idle" => work'[p] \in Position
                                        /\ pc'[f] # "gather" => pc'[p] = "idle"
    <3>1. CASE f = e
      BY <3>1, MembersKnown, Apart DEF EnrichmentSites
    <3>2. CASE f # e
      <4>1. pc'[f] = pc[f]
        BY <1>2, <3>2, MembersKnown, Apart
      <4>2. ASSUME NEW p \in Members(f) PROVE pc'[p] = pc[p] /\ work'[p] = work[p]
        <5>1. p \in Positions /\ p # e /\ p \notin Members(e)
          BY <3>2, MembersKnown, MembersApart, Apart
        <5> QED
          BY <5>1, Apart
      <4> QED
        BY <4>1, <4>2 DEF MarketInv, WorkReady
    <3> QED
      BY <3>1, <3>2
  <2> QED
    BY <2>1, <2>2 DEF WorkReady
<1>5. JobReady'
  <2>1. \A p \in Positions : pc'[p] = "idle" \/ (pc'[p] = pc[p] /\ job'[p] = job[p])
    BY <1>2, Apart
  <2>2. \A f \in Enrichments : pc'[f] = "idle" \/ (pc'[f] = pc[f] /\ job'[f] = job[f])
    BY <1>2, Apart
  <2> QED
    BY <2>1, <2>2 DEF MarketInv, JobReady
<1> QED
  BY <1>1, <1>3, <1>4, <1>5

LEMMA ConvertedType ==
  ASSUME NEW w \in Position, NEW live
  PROVE  Converted(w, live) \in Position
<1>1. /\ [w EXCEPT !.eur = NULL] \in Position /\ [w EXCEPT !.eur = "EUR"] \in Position
      /\ [w EXCEPT !.eur = w.currency] \in Position
  BY DEF Position, Currencies
<1> QED
  BY <1>1 DEF Converted

LEMMA ConvertType ==
  ASSUME MarketInv, NEW e \in Enrichments, ConvertToEur(e)
  PROVE  MarketInv'
<1>1. Typed' /\ WorkReady' /\ JobReady' /\ work' \in [Positions -> Position \cup {NULL}]
  BY AllGathered DEF ConvertToEur
<1>2. PICK live \in get_fx_rate({work[p].currency : p \in Members(e)} \ {"EUR"}) :
        /\ _fx_cache' = live
        /\ shown' = [p \in Positions |-> IF p \in Members(e) THEN Converted(work[p], live) ELSE shown[p]]
  BY DEF ConvertToEur
<1>3. \A p \in Members(e) : work[p] \in Position /\ work[p].currency \in Currencies
  BY DEF ConvertToEur, MarketInv, WorkReady, Position
<1>4. live \subseteq Currencies
  BY <1>3 DEF get_fx_rate, MarketInv, TypeOK
<1>5. shown' \in [Positions -> Position \cup {NULL}]
  BY <1>2, <1>3, ConvertedType DEF MarketInv, TypeOK
<1>6. Data'
  BY <1>1, <1>2, <1>4, <1>5, MarketParts DEF Data, ConvertToEur, file
<1> QED
  BY <1>1, <1>6, MarketParts

LEMMA RaisesType ==
  ASSUME MarketInv, NEW e \in Enrichments, EnrichRaises(e)
  PROVE  MarketInv'
<1>1. Typed' /\ WorkReady' /\ JobReady' /\ work' \in [Positions -> Position \cup {NULL}]
  BY AllGathered DEF EnrichRaises
<1>2. Data'
  BY <1>1, MarketParts DEF Data, EnrichRaises, caches, env, file
<1> QED
  BY <1>1, <1>2, MarketParts

(* Expiry and time leave the processes alone.                              *)
LEMMA TimeType ==
  ASSUME MarketInv, PriceExpires \/ FxExpires \/ RateLimitEnds \/ DayPasses
  PROVE  MarketInv'
<1>1. UNCHANGED <<local, file>> /\ shown' = shown /\ _resolution_cache' = _resolution_cache
  BY DEF PriceExpires, FxExpires, RateLimitEnds, DayPasses, caches, env
<1>2. Data'
  <2>1. _price_cache' \in [KnownTickers -> Units \cup {NULL}]
    BY MarketParts DEF Data, PriceExpires, FxExpires, RateLimitEnds, DayPasses, caches
  <2>2. _fx_cache' \subseteq Currencies /\ _yf_rate_limited' \in BOOLEAN
    BY MarketParts DEF Data, PriceExpires, FxExpires, RateLimitEnds, DayPasses, caches
  <2>3. today' \in Days
    BY MarketParts, MarketAssumption DEF Data, PriceExpires, FxExpires, RateLimitEnds, DayPasses, env, Days
  <2> QED
    BY <1>1, <2>1, <2>2, <2>3, MarketParts DEF Data, local, file
<1>3. Typed' /\ WorkReady' /\ JobReady'
  BY <1>1, MarketParts DEF local, Typed, WorkReady, JobReady
<1> QED
  BY <1>2, <1>3, MarketParts

(* When nobody is at work, there is little to say about the processes.     *)
LEMMA NobodyAtWork ==
  ASSUME pc' = [q \in Procs |-> "idle"], job' = [q \in Procs |-> Idle]
  PROVE  Typed' /\ WorkReady' /\ JobReady'
<1>1. \A q \in Procs : pc'[q] = "idle"
  OBVIOUS
<1>2. Typed'
  BY <1>1, IdleType DEF Typed, Sites
<1>3. WorkReady'
  BY <1>1, MembersKnown, Apart DEF WorkReady, ThreadSites, EnrichmentSites
<1>4. JobReady'
  BY <1>1, Apart DEF JobReady
<1> QED
  BY <1>2, <1>3, <1>4

LEMMA RestartType ==
  ASSUME MarketInv, Restart
  PROVE  MarketInv'
<1>1. Typed' /\ WorkReady' /\ JobReady'
  BY NobodyAtWork DEF Restart
<1>2. _load_symbol_cache(disk) \in Cache
  BY DEF _load_symbol_cache, MarketInv, TypeOK, Cache
<1>3. _price_cache' = [t \in KnownTickers |-> NULL]
  BY EmptyCaches, MarketParts DEF Restart
<1>4. Data'
  BY <1>2, <1>3, EmptyCaches, MarketParts DEF Data, Restart, Denied
<1> QED
  BY <1>1, <1>4, MarketParts

LEMMA InitType == Init => MarketInv
<1> SUFFICES ASSUME Init PROVE MarketInv
    OBVIOUS
<1>1. \A q \in Procs : pc[q] = "idle"
  BY DEF Init
<1>2. today \in Days
  BY MarketAssumption DEF Init, Days
<1>3. TypeOK
  BY <1>1, <1>2, EmptyCaches, IdleType DEF Init, TypeOK, Sites
<1>4. WorkReady
  BY <1>1, MembersKnown, Apart DEF WorkReady, ThreadSites, EnrichmentSites
<1>5. JobReady
  BY <1>1, Apart DEF JobReady
<1> QED
  BY <1>3, <1>4, <1>5 DEF MarketInv

LEMMA StepType == MarketInv /\ [Next]_vars => MarketInv'
<1> SUFFICES ASSUME MarketInv, [Next]_vars
             PROVE  MarketInv'
    OBVIOUS
<1>1. ASSUME NEW e \in Enrichments, enrich_positions(e) PROVE MarketInv'
  BY <1>1, EnrichStartType, ResolvingType, ResolveDoneType, DownloadType, ConvertType, RaisesType
     DEF enrich_positions, Resolving
<1>2. ASSUME NEW p \in Threads, enrich_position(p) PROVE MarketInv'
  BY <1>2, LookupType, ThreadResolvingType, AskInfoType, PriceType, PriceMissingType, WarmReadType
     DEF enrich_position, ThreadResolving, Threads
<1>3. ASSUME NEW q \in Procs, _save_symbol_cache(q) PROVE MarketInv'
  BY <1>3, SaveCopyType, SaveDumpType DEF _save_symbol_cache
<1>4. CASE UNCHANGED vars
  <2>1. Data' /\ Typed' /\ WorkReady' /\ JobReady'
    BY <1>4, MarketParts DEF vars, caches, env, file, local, Data, Typed, WorkReady, JobReady
  <2> QED
    BY <2>1, MarketParts
<1> QED
  BY <1>1, <1>2, <1>3, <1>4, ClearType, TimeType, RestartType DEF Next

(* Every variable of the pipeline keeps its type: threads are only there   *)
(* while their enrichment waits for them, and work on a copy.              *)
THEOREM TypeCorrect == Spec => []TypeOK
<1>1. Init => MarketInv
  BY InitType
<1>2. MarketInv /\ [Next]_vars => MarketInv'
  BY StepType
<1>3. MarketInv => TypeOK
  BY DEF MarketInv
<1> QED
  BY <1>1, <1>2, <1>3, PTL DEF Spec

-----------------------------------------------------------------------------
(* The file *)

(* The entry of a key would come back from the file and is in force.       *)
Lasting(cache, k, day) ==
    /\ k[2] # NULL
    /\ cache[k] # NULL
    /\ ~ (cache[k].ticker # NULL /\ cache[k].ticker.suffix = ".L")
    /\ cache[k].cached_at = day

Agree(c, d, day) ==
    \A k \in Keys : Lasting(c, k, day) \/ Lasting(d, k, day) => c[k] = d[k]

(* json.dump meets no fundamentals that came after the copy.               *)
Dumpable(copy, cache) ==
    \A k \in Keys : copy[k] # NULL /\ cache[k] # NULL => copy[k].fundamentals = cache[k].fundamentals

DatedBy(cache, day) ==
    \A k \in Keys : cache[k] # NULL /\ cache[k].cached_at # NULL => cache[k].cached_at <= day

(* Who will yet copy the cache to the file.                                *)
Saver(q) ==
    pc[q] = "save" \/ (q \in Enrichments /\ pc[q] \in {"resolve", "write"} /\ job[q].dirty)

(* When nobody will, whoever is dumping has the last word, and if nobody   *)
(* is, the file has it unless the disk refused it.                         *)
LastWord ==
    /\ \A q \in Procs : pc[q] = "dump" =>
          Dumpable(job[q].copy, _resolution_cache) /\ Agree(job[q].copy, _resolution_cache, today)
    /\ (\A q \in Procs : pc[q] # "dump") => io_failed \/ Agree(disk, _resolution_cache, today)

Dates ==
    /\ DatedBy(_resolution_cache, today) /\ DatedBy(disk, today)
    /\ \A q \in Procs : pc[q] = "dump" => DatedBy(job[q].copy, today)

DiskInv == MarketInv /\ Dates /\ ((\A q \in Procs : ~Saver(q)) => LastWord)

LEMMA AgreeLaws ==
  ASSUME NEW day
  PROVE  /\ \A c : Agree(c, c, day)
         /\ \A c, d, e : Agree(c, d, day) /\ Agree(d, e, day) => Agree(c, e, day)
<1>1. ASSUME NEW c, NEW d, NEW e, Agree(c, d, day), Agree(d, e, day), NEW k \in Keys,
             Lasting(c, k, day) \/ Lasting(e, k, day)
      PROVE  c[k] = e[k]
  <2>1. CASE Lasting(c, k, day)
    BY <1>1, <2>1 DEF Agree, Lasting
  <2>2. CASE Lasting(e, k, day)
    BY <1>1, <2>2 DEF Agree, Lasting
  <2> QED
    BY <1>1, <2>1, <2>2
<1> QED
  BY <1>1 DEF Agree

(* Entries that are too old may go.                                        *)
Forgets(before, after, day) ==
    \A k \in Keys : \/ after[k] = before[k]
                    \/ after[k] = NULL /\ (before[k] = NULL \/ before[k].cached_at # day)

LEMMA ForgettingAgrees ==
  ASSUME NEW c, NEW d, NEW day, Forgets(c, d, day)
  PROVE  /\ Agree(c, d, day)
         /\ \A copy : Dumpable(copy, c) => Dumpable(copy, d)
         /\ DatedBy(c, day) => DatedBy(d, day)
<1>1. Agree(c, d, day)
  BY DEF Agree, Lasting, Forgets
<1>2. \A copy : Dumpable(copy, c) => Dumpable(copy, d)
  BY DEF Dumpable, Forgets
<1>3. DatedBy(c, day) => DatedBy(d, day)
  BY DEF DatedBy, Forgets
<1> QED
  BY <1>1, <1>2, <1>3

(* What agrees is equal where InForce looks.                               *)
LEMMA AgreeMeansInForce ==
  ASSUME NEW c, NEW d, Agree(c, d, today)
  PROVE  InForce(c) = InForce(d)
<1> DEFINE at(cache, k) == IF IsFresh(_load_symbol_cache(cache)[k])
                           THEN _load_symbol_cache(cache)[k] ELSE NULL
<1>1. ASSUME NEW cache, NEW k \in Keys
      PROVE  at(cache, k) = IF Lasting(cache, k, today) THEN cache[k] ELSE NULL
  <2>1. _load_symbol_cache(cache)[k] =
          IF k[2] = NULL \/ cache[k] = NULL \/ (cache[k].ticker # NULL /\ cache[k].ticker.suffix = ".L")
          THEN NULL ELSE cache[k]
    BY DEF _load_symbol_cache
  <2> QED
    BY <2>1 DEF IsFresh, Lasting
<1> HIDE DEF at
<1>2. ASSUME NEW k \in Keys PROVE at(c, k) = at(d, k)
  <2>1. /\ at(c, k) = IF Lasting(c, k, today) THEN c[k] ELSE NULL
        /\ at(d, k) = IF Lasting(d, k, today) THEN d[k] ELSE NULL
    BY <1>1
  <2>2. CASE Lasting(c, k, today) \/ Lasting(d, k, today)
    <3>1. c[k] = d[k]
      BY <1>2, <2>2 DEF Agree
    <3>2. Lasting(c, k, today) /\ Lasting(d, k, today)
      BY <2>2, <3>1 DEF Lasting
    <3> QED
      BY <2>1, <3>1, <3>2
  <2>3. CASE ~Lasting(c, k, today) /\ ~Lasting(d, k, today)
    BY <2>1, <2>3
  <2> QED
    BY <2>2, <2>3
<1> QED
  BY <1>2 DEF InForce, at

(* Nothing but the cache changes, and somebody will save it or all that    *)
(* goes is too old.                                                        *)
LEMMA FileKept ==
  ASSUME DiskInv, MarketInv', UNCHANGED file, today' = today,
         DatedBy(_resolution_cache', today),
         \A q \in Procs : pc'[q] = "dump" => pc[q] = "dump" /\ job'[q].copy = job[q].copy,
         \A q \in Procs : pc[q] = "dump" => pc'[q] = "dump",
         (\A q \in Procs : ~Saver(q)') =>
            /\ \A q \in Procs : ~Saver(q)
            /\ Forgets(_resolution_cache, _resolution_cache', today)
  PROVE  DiskInv'
<1>1. Dates'
  BY DEF DiskInv, Dates, file
<1>2. ASSUME \A q \in Procs : ~Saver(q)'
      PROVE  LastWord'
  <2>1. LastWord /\ Forgets(_resolution_cache, _resolution_cache', today)
    BY <1>2 DEF DiskInv
  <2>2. /\ Agree(_resolution_cache, _resolution_cache', today)
        /\ \A copy : Dumpable(copy, _resolution_cache) => Dumpable(copy, _resolution_cache')
    BY <2>1, ForgettingAgrees
  <2>3. ASSUME NEW q \in Procs, pc'[q] = "dump"
        PROVE  /\ Dumpable(job'[q].copy, _resolution_cache')
               /\ Agree(job'[q].copy, _resolution_cache', today')
    BY <2>1, <2>2, <2>3, AgreeLaws DEF LastWord
  <2>4. (\A q \in Procs : pc'[q] # "dump") => io_failed' \/ Agree(disk', _resolution_cache', today')
    BY <2>1, <2>2, AgreeLaws DEF LastWord, file
  <2> QED
    BY <2>3, <2>4 DEF LastWord
<1> QED
  BY <1>1, <1>2 DEF DiskInv

(* A thread that neither saves nor dumps takes a step.                     *)
LEMMA ThreadDisk ==
  ASSUME DiskInv, MarketInv', NEW p \in Positions, pc[p] \notin {"save", "dump"},
         NEW site, site # "dump", pc' = [pc EXCEPT ![p] = site],
         NEW x, job' = [job EXCEPT ![p] = x],
         UNCHANGED file, today' = today, DatedBy(_resolution_cache', today),
         site = "save" \/ Forgets(_resolution_cache, _resolution_cache', today)
  PROVE  DiskInv'
<1>1. pc \in [Procs -> Sites] /\ job \in [Procs -> Job] /\ p \in Procs /\ p \notin Enrichments
  BY Apart DEF DiskInv, MarketInv, TypeOK
<1>2. /\ pc'[p] = site
      /\ \A q \in Procs : q # p => pc'[q] = pc[q] /\ job'[q] = job[q]
  BY <1>1
<1>3. \A q \in Procs : Saver(q) => Saver(q)'
  BY <1>1, <1>2 DEF Saver
<1>4. site = "save" => Saver(p)'
  BY <1>2 DEF Saver
<1> QED
  BY <1>1, <1>2, <1>3, <1>4, FileKept

(* What a resolution writes is of today or has no date.                    *)
LEMMA ResolvesDisk ==
  ASSUME TypeOK, NEW p \in Positions, NEW r, Resolves(p, r), DatedBy(_resolution_cache, today)
  PROVE  /\ DatedBy(r.cache, today)
         /\ r.saves \/ Forgets(_resolution_cache, r.cache, today)
<1>1. ASSUME NEW k \in Keys, r.cache[k] # NULL, r.cache[k].cached_at # NULL
      PROVE  r.cache[k].cached_at <= today
  <2>1. CASE r.cache[k] = _resolution_cache[k]
    BY <1>1, <2>1 DEF DatedBy
  <2>2. CASE \E date \in {today, NULL} : r.cache[k] = Entry(r.ticker, date)
    <3>1. r.cache[k].cached_at = today /\ today \in Nat
      BY <1>1, <2>2, MarketAssumption DEF Entry, TypeOK, Days
    <3> QED
      BY <3>1
  <2> QED
    BY <1>1, <2>1, <2>2 DEF Resolves
<1>2. r.saves \/ Forgets(_resolution_cache, r.cache, today)
  BY DEF Resolves, Forgets, IsFresh
<1> QED
  BY <1>1, <1>2 DEF DatedBy

LEMMA SaveCopyDisk ==
  ASSUME DiskInv, MarketInv', NEW q \in Procs, SaveCopy(q)
  PROVE  DiskInv'
<1>1. pc \in [Procs -> Sites] /\ job \in [Procs -> Job]
  BY DEF DiskInv, MarketInv, TypeOK
<1>2. /\ pc'[q] = "dump" /\ \A r \in Procs : r # q => pc'[r] = pc[r] /\ job'[r] = job[r]
      /\ job'[q].copy = _resolution_cache
      /\ UNCHANGED file /\ today' = today /\ _resolution_cache' = _resolution_cache
  BY <1>1 DEF SaveCopy, Goto, caches, env, Job
<1>3. \A r \in Procs : r # q => pc'[r] # "dump"
  BY <1>2 DEF SaveCopy, FileLocked
<1>4. Dates'
  BY <1>2, <1>3 DEF DiskInv, Dates, file
<1>5. LastWord'
  BY <1>2, <1>3, AgreeLaws DEF LastWord, Dumpable
<1> QED
  BY <1>4, <1>5 DEF DiskInv

LEMMA SaveDumpDisk ==
  ASSUME DiskInv, MarketInv', NEW q \in Procs, SaveDump(q)
  PROVE  DiskInv'
<1>1. pc \in [Procs -> Sites] /\ job \in [Procs -> Job]
  BY DEF DiskInv, MarketInv, TypeOK
<1>2. /\ pc[q] = "dump" /\ pc'[q] = job[q].then
      /\ \A r \in Procs : r # q => pc'[r] = pc[r] /\ job'[r] = job[r]
      /\ today' = today /\ _resolution_cache' = _resolution_cache
      /\ \/ disk' = job[q].copy
         \/ DumpMayFail(job[q].copy) /\ disk' = disk /\ io_failed' = io_failed
         \/ disk' = disk /\ io_failed'
  BY <1>1 DEF SaveDump, Denied, Goto, caches, file
<1>3. pc'[q] \in {"download", "done", "ask", "price"}
  BY <1>2, Apart DEF DiskInv, MarketInv, JobReady
<1>4. Dates'
  BY <1>2, <1>3 DEF DiskInv, Dates
<1>5. ASSUME \A r \in Procs : ~Saver(r)'
      PROVE  LastWord'
  <2>1. \A r \in Procs : ~Saver(r)
    BY <1>2, <1>5, Apart DEF Saver
  <2>2. LastWord
    BY <2>1 DEF DiskInv
  <2>3. io_failed' \/ (disk' = job[q].copy /\ Agree(disk', _resolution_cache, today))
    BY <1>2, <2>2 DEF LastWord, DumpMayFail, Dumpable
  <2> QED
    BY <1>2, <1>3, <2>2, <2>3 DEF LastWord
<1> QED
  BY <1>4, <1>5 DEF DiskInv

LEMMA ClearDisk ==
  ASSUME DiskInv, MarketInv', clear_symbol_cache, ClearWhileBusy = FALSE
  PROVE  DiskInv'
<1>1. /\ \A q \in Procs : pc'[q] = "idle"
      /\ _resolution_cache' = [k \in Keys |-> NULL] /\ today' = today
      /\ disk' = [k \in Keys |-> NULL] \/ (disk' = disk /\ io_failed')
  BY DEF clear_symbol_cache, Denied, local
<1>2. Dates'
  BY <1>1 DEF Dates, DatedBy, DiskInv
<1>3. LastWord'
  BY <1>1, AgreeLaws DEF LastWord
<1> QED
  BY <1>2, <1>3 DEF DiskInv

LEMMA EnrichStartDisk ==
  ASSUME DiskInv, MarketInv', NEW e \in Enrichments, EnrichStart(e)
  PROVE  DiskInv'
<1>1. pc \in [Procs -> Sites] /\ job \in [Procs -> Job] /\ e \in Procs
  BY Apart DEF DiskInv, MarketInv, TypeOK
<1>2. /\ pc[e] = "idle" /\ pc'[e] = "resolve" /\ job'[e].dirty = FALSE
      /\ \A q \in Procs : q # e => pc'[q] = pc[q] /\ job'[q] = job[q]
      /\ UNCHANGED file /\ today' = today /\ _resolution_cache' = _resolution_cache
  BY <1>1 DEF EnrichStart, Goto, env, Idle
<1>3. \A q \in Procs : Saver(q) => Saver(q)'
  BY <1>2 DEF Saver
<1>4. DatedBy(_resolution_cache', today) /\ Forgets(_resolution_cache, _resolution_cache', today)
  BY <1>2 DEF DiskInv, Dates, Forgets
<1> QED
  BY <1>2, <1>3, <1>4, FileKept

LEMMA ResolvingDisk ==
  ASSUME DiskInv, MarketInv', NEW e \in Enrichments, Resolving(e)
  PROVE  DiskInv'
<1> DEFINE p == e[job[e].next]
<1>1. PICK r : /\ Resolves(p, r)
               /\ _resolution_cache' = r.cache /\ _yf_rate_limited' = r.limited
               /\ \/ /\ r.found = NULL /\ pc' = [pc EXCEPT ![e] = "resolve"]
                     /\ job' = [job EXCEPT ![e] = Onward(job[e], r)]
                  \/ /\ r.found # NULL /\ pc' = [pc EXCEPT ![e] = "write"]
                     /\ job' = [job EXCEPT ![e] = [job[e] EXCEPT !.found = r.found]]
  BY ResolvingResult DEF DiskInv
<1>2. /\ pc[e] \in {"resolve", "write"} /\ job[e] \in Job /\ p \in Positions
      /\ UNCHANGED file /\ today' = today
  BY ResolvingResult, MembersKnown DEF DiskInv, env
<1> HIDE DEF p
<1>3. pc \in [Procs -> Sites] /\ job \in [Procs -> Job] /\ e \in Procs
  BY Apart DEF DiskInv, MarketInv, TypeOK
<1>4. /\ pc'[e] \in {"resolve", "write"}
      /\ \A q \in Procs : q # e => pc'[q] = pc[q] /\ job'[q] = job[q]
  BY <1>1, <1>3
<1>5. job'[e].dirty = (job[e].dirty \/ r.saves) /\ r.saves \in BOOLEAN
  <2>1. r.saves \in BOOLEAN /\ job[e].dirty \in BOOLEAN
    BY <1>1, <1>2 DEF Resolves, Job
  <2>2. CASE job' = [job EXCEPT ![e] = Onward(job[e], r)]
    BY <1>2, <1>3, <2>1, <2>2 DEF Onward, Job
  <2>3. CASE r.found # NULL /\ job' = [job EXCEPT ![e] = [job[e] EXCEPT !.found = r.found]]
    <3>1. r.saves = FALSE
      BY <1>1, <2>1, <2>3 DEF Resolves
    <3>2. job'[e].dirty = job[e].dirty
      BY <1>2, <1>3, <2>3 DEF Job
    <3> QED
      BY <2>1, <3>1, <3>2
  <2> QED
    BY <1>1, <2>2, <2>3
<1>6. \A q \in Procs : Saver(q) => Saver(q)'
  BY <1>2, <1>4, <1>5 DEF Saver
<1>7. r.saves => Saver(e)'
  BY <1>4, <1>5 DEF Saver
<1>8. /\ DatedBy(r.cache, today)
      /\ r.saves \/ Forgets(_resolution_cache, r.cache, today)
  BY <1>1, <1>2, ResolvesDisk DEF DiskInv, MarketInv, Dates
<1>9. \A q \in Procs : pc[q] = "dump" \/ pc'[q] = "dump" => q # e
  BY <1>2, <1>4
<1> QED
  BY <1>1, <1>2, <1>3, <1>4, <1>6, <1>7, <1>8, <1>9, FileKept

LEMMA ResolveDoneDisk ==
  ASSUME DiskInv, MarketInv', NEW e \in Enrichments, ResolveDone(e)
  PROVE  DiskInv'
<1>1. pc \in [Procs -> Sites] /\ job \in [Procs -> Job] /\ e \in Procs
  BY Apart DEF DiskInv, MarketInv, TypeOK
<1>2. /\ pc[e] = "resolve" /\ pc'[e] = IF job[e].dirty THEN "save" ELSE "download"
      /\ \A q \in Procs : q # e => pc'[q] = pc[q] /\ job'[q] = job[q]
      /\ UNCHANGED file /\ today' = today /\ _resolution_cache' = _resolution_cache
  BY <1>1 DEF ResolveDone, SaveThen, Goto, caches, env
<1>3. \A q \in Procs : Saver(q) => Saver(q)'
  BY <1>2 DEF Saver
<1>4. DatedBy(_resolution_cache', today) /\ Forgets(_resolution_cache, _resolution_cache', today)
  BY <1>2 DEF DiskInv, Dates, Forgets
<1> QED
  BY <1>2, <1>3, <1>4, FileKept

LEMMA DownloadDisk ==
  ASSUME DiskInv, MarketInv', NEW e \in Enrichments, Download(e)
  PROVE  DiskInv'
<1>1. job \in [Procs -> Job] /\ e \in Procs
  BY Apart DEF DiskInv, MarketInv, TypeOK
<1>2. /\ pc[e] = "download" /\ pc'[e] = "gather"
      /\ \A q \in Procs : q # e => job'[q] = job[q]
      /\ \A q \in Procs : q # e => pc'[q] = IF q \in Members(e) THEN "start" ELSE pc[q]
      /\ UNCHANGED file /\ today' = today /\ _resolution_cache' = _resolution_cache
  BY <1>1 DEF Download, caches, env
<1>3. \A q \in Members(e) : pc[q] = "idle" /\ q \in Positions
  BY <1>2, MembersKnown DEF DiskInv, MarketInv, WorkReady
<1>4. \A q \in Procs : Saver(q) => Saver(q)'
  BY <1>2, <1>3 DEF Saver
<1>5. DatedBy(_resolution_cache', today) /\ Forgets(_resolution_cache, _resolution_cache', today)
  BY <1>2 DEF DiskInv, Dates, Forgets
<1>6. \A q \in Procs : (pc'[q] = "dump" \/ pc[q] = "dump") => q # e /\ pc'[q] = pc[q]
  BY <1>2, <1>3
<1> QED
  BY <1>2, <1>4, <1>5, <1>6, FileKept

LEMMA LookupDisk ==
  ASSUME DiskInv, MarketInv', NEW p \in Positions, Lookup(p)
  PROVE  DiskInv'
<1> DEFINE entry == _resolution_cache[RawKey(p)]
           known == entry # NULL /\ entry.ticker # NULL
           x == [Idle EXCEPT !.ticker = IF known /\ IsFresh(entry) THEN entry.ticker ELSE NULL]
           site == IF ~known \/ ~IsFresh(entry) THEN "resolve"
                   ELSE IF HasFundamentals(entry) THEN "warm" ELSE "ask"
<1>1. /\ pc' = [pc EXCEPT ![p] = site] /\ job' = [job EXCEPT ![p] = x]
      /\ pc[p] = "start" /\ UNCHANGED file /\ today' = today
  BY DEF Lookup, Goto, env
<1>2. Forgets(_resolution_cache, _resolution_cache', today)
  BY OwnKeys DEF Lookup, Forgets, IsFresh, DiskInv, MarketInv, TypeOK, Cache
<1>3. DatedBy(_resolution_cache', today)
  BY <1>2, ForgettingAgrees DEF DiskInv, Dates
<1>4. site # "dump"
  OBVIOUS
<1> HIDE DEF x, site
<1> QED
  BY <1>1, <1>2, <1>3, <1>4, ThreadDisk

LEMMA ThreadResolvingDisk ==
  ASSUME DiskInv, MarketInv', NEW p \in Positions, ThreadResolving(p)
  PROVE  DiskInv'
<1>1. PICK r : /\ Resolves(p, r)
               /\ _resolution_cache' = r.cache /\ _yf_rate_limited' = r.limited
               /\ \/ /\ r.found = NULL
                     /\ pc' = [pc EXCEPT ![p] = IF r.saves THEN "save" ELSE Site(r)]
                     /\ job' = [job EXCEPT ![p] = With(job[p], r)]
                  \/ /\ r.found # NULL /\ pc' = [pc EXCEPT ![p] = "write"]
                     /\ job' = [job EXCEPT ![p] = [job[p] EXCEPT !.found = r.found]]
  BY ThreadResolvingResult DEF DiskInv
<1>2. pc[p] \in {"resolve", "write"} /\ UNCHANGED file /\ today' = today
  BY ThreadResolvingResult DEF DiskInv, env
<1>3. /\ DatedBy(r.cache, today)
      /\ r.saves \/ Forgets(_resolution_cache, r.cache, today)
  BY <1>1, ResolvesDisk DEF DiskInv, MarketInv, Dates
<1>4. PICK site, x : /\ pc' = [pc EXCEPT ![p] = site] /\ job' = [job EXCEPT ![p] = x]
                     /\ site # "dump" /\ (r.saves => site = "save")
  <2>1. r.found # NULL => ~r.saves
    BY <1>1 DEF Resolves
  <2>2. Site(r) # "dump"
    BY DEF Site
  <2> QED
    BY <1>1, <2>1, <2>2
<1> QED
  BY <1>1, <1>2, <1>3, <1>4, ThreadDisk

(* An entry that goes is saved next, and a thread may end at any time.     *)
LEMMA EvictDisk ==
  ASSUME DiskInv, MarketInv', NEW p \in Positions, pc[p] \notin {"save", "dump"}, Evict(p),
         UNCHANGED file, today' = today
  PROVE  DiskInv'
<1>1. DatedBy(_resolution_cache', today)
  BY DEF Evict, DiskInv, MarketInv, TypeOK, Cache, Dates, DatedBy
<1> QED
  BY <1>1, ThreadDisk DEF Evict, Goto

LEMMA EndDisk ==
  ASSUME DiskInv, MarketInv', NEW p \in Positions, pc[p] \notin {"save", "dump"}, EndThread(p),
         UNCHANGED file, today' = today, _resolution_cache' = _resolution_cache
  PROVE  DiskInv'
<1>1. DatedBy(_resolution_cache', today) /\ Forgets(_resolution_cache, _resolution_cache', today)
  BY DEF DiskInv, Dates, Forgets
<1> QED
  BY <1>1, ThreadDisk DEF EndThread, Goto

LEMMA AskInfoDisk ==
  ASSUME DiskInv, MarketInv', NEW p \in Positions, AskInfo(p)
  PROVE  DiskInv'
<1>1. pc[p] = "ask" /\ UNCHANGED file /\ today' = today
  BY DEF AskInfo, env
<1>2. Forgets(_resolution_cache, _resolution_cache, today) /\ DatedBy(_resolution_cache, today)
  BY DEF Forgets, DiskInv, Dates
<1>3. ASSUME NEW x, job' = [job EXCEPT ![p] = x], pc' = [pc EXCEPT ![p] = "price"],
             UNCHANGED _resolution_cache
      PROVE  DiskInv'
  BY <1>1, <1>2, <1>3, ThreadDisk
<1>4. CASE Evict(p)
  BY <1>1, <1>4, EvictDisk
<1>5. CASE EndThread(p) /\ UNCHANGED _resolution_cache
  BY <1>1, <1>5, EndDisk
<1>6. ASSUME NEW x, job' = [job EXCEPT ![p] = x], _resolution_cache' = Answered(p),
             pc' = [pc EXCEPT ![p] = IF _resolution_cache[RawKey(p)] # NULL THEN "save" ELSE "price"]
      PROVE  DiskInv'
  <2> DEFINE site == IF _resolution_cache[RawKey(p)] # NULL THEN "save" ELSE "price"
  <2>1. site = "save" \/ Answered(p) = _resolution_cache
    BY AnsweredType DEF DiskInv, MarketInv
  <2>2. DatedBy(Answered(p), today)
    <3>1. ASSUME NEW k \in Keys, Answered(p)[k] # NULL, Answered(p)[k].cached_at # NULL
          PROVE  Answered(p)[k].cached_at <= today
      <4>1. CASE k # RawKey(p) \/ _resolution_cache[RawKey(p)] = NULL
        BY <1>2, <3>1, <4>1, AnsweredType DEF DatedBy, DiskInv, MarketInv
      <4>2. CASE k = RawKey(p) /\ _resolution_cache[RawKey(p)] # NULL
        BY <1>2, <3>1, <4>2, AnsweredType DEF DatedBy, DiskInv, MarketInv
      <4> QED
        BY <4>1, <4>2
    <3> QED
      BY <3>1 DEF DatedBy
  <2>3. site # "dump" /\ pc' = [pc EXCEPT ![p] = site]
    BY <1>6
  <2> HIDE DEF site
  <2> QED
    BY <1>1, <1>2, <1>6, <2>1, <2>2, <2>3, ThreadDisk
<1> QED
  BY <1>3, <1>4, <1>5, <1>6, AskInfoResult DEF DiskInv

LEMMA PriceDisk ==
  ASSUME DiskInv, MarketInv', NEW p \in Positions, Price(p) \/ PriceMissing(p) \/ WarmRead(p)
  PROVE  DiskInv'
<1>1. CASE Price(p)
  BY <1>1, EndDisk DEF Price, env
<1>2. CASE PriceMissing(p)
  BY <1>2, EvictDisk DEF PriceMissing, env
<1>3. CASE WarmRead(p)
  <2>1. pc[p] = "warm" /\ UNCHANGED file /\ today' = today /\ _resolution_cache' = _resolution_cache
    BY <1>3 DEF WarmRead, caches, env
  <2>2. CASE EndThread(p)
    BY <2>1, <2>2, EndDisk
  <2>3. CASE Goto(p, "raised") /\ UNCHANGED job
    <3>1. job' = [job EXCEPT ![p] = job[p]] /\ pc' = [pc EXCEPT ![p] = "raised"]
      BY <2>3, Apart DEF DiskInv, MarketInv, TypeOK, Goto
    <3>2. DatedBy(_resolution_cache', today) /\ Forgets(_resolution_cache, _resolution_cache', today)
      BY <2>1 DEF DiskInv, Dates, Forgets
    <3> QED
      BY <2>1, <3>1, <3>2, ThreadDisk
  <2> QED
    BY <1>3, <2>2, <2>3 DEF WarmRead
<1> QED
  BY <1>1, <1>2, <1>3

LEMMA GatheredDisk ==
  ASSUME DiskInv, MarketInv', NEW e \in Enrichments, ConvertToEur(e) \/ EnrichRaises(e)
  PROVE  DiskInv'
<1>1. /\ pc[e] = "gather" /\ \A p \in Members(e) : pc[p] \in {"done", "raised"} /\ p \in Positions
      /\ UNCHANGED file /\ today' = today /\ _resolution_cache' = _resolution_cache
      /\ pc' = [q \in Procs |-> IF q = e \/ q \in Members(e) THEN "idle" ELSE pc[q]]
      /\ job' = [q \in Procs |-> IF q = e \/ q \in Members(e) THEN Idle ELSE job[q]]
  BY MembersKnown DEF ConvertToEur, EnrichRaises, caches, env
<1>2. \A q \in Procs : pc[q] \in {"save", "dump", "resolve", "write"} => pc'[q] = pc[q] /\ job'[q] = job[q]
  BY <1>1
<1>3. \A q \in Procs : pc'[q] = "dump" => pc[q] = "dump"
  BY <1>1
<1>4. \A q \in Procs : Saver(q) => Saver(q)'
  BY <1>2 DEF Saver
<1>5. DatedBy(_resolution_cache', today) /\ Forgets(_resolution_cache, _resolution_cache', today)
  BY <1>1 DEF DiskInv, Dates, Forgets
<1> QED
  BY <1>1, <1>2, <1>3, <1>4, <1>5, FileKept

LEMMA ExpiryDisk ==
  ASSUME DiskInv, MarketInv', PriceExpires \/ FxExpires \/ RateLimitEnds \/ UNCHANGED vars
  PROVE  DiskInv'
<1>1. UNCHANGED local /\ UNCHANGED file /\ today' = today /\ _resolution_cache' = _resolution_cache
  BY DEF PriceExpires, FxExpires, RateLimitEnds, vars, caches, env
<1>2. \A q \in Procs : Saver(q) => Saver(q)'
  BY <1>1 DEF Saver, local
<1>3. DatedBy(_resolution_cache', today) /\ Forgets(_resolution_cache, _resolution_cache', today)
  BY <1>1 DEF DiskInv, Dates, Forgets
<1> QED
  BY <1>1, <1>2, <1>3, FileKept DEF local

(* At midnight nothing is in force any more.                               *)
LEMMA DayDisk ==
  ASSUME DiskInv, MarketInv', DayPasses
  PROVE  DiskInv'
<1>1. /\ UNCHANGED <<local, file>> /\ _resolution_cache' = _resolution_cache
      /\ today' = today + 1 /\ today \in Nat
  BY MarketAssumption DEF DayPasses, caches, DiskInv, MarketInv, TypeOK, Days
<1>2. ASSUME NEW cache \in Cache, DatedBy(cache, today)
      PROVE  DatedBy(cache, today') /\ \A k \in Keys : ~Lasting(cache, k, today')
  <2>1. ASSUME NEW k \in Keys, cache[k] # NULL
        PROVE  /\ cache[k].cached_at # NULL => cache[k].cached_at <= today'
               /\ cache[k].cached_at # today'
    <3>1. cache[k].cached_at \in Days \cup {NULL}
      BY <2>1 DEF Cache, Entries
    <3>2. CASE cache[k].cached_at = NULL
      <4>1. today' \in Nat
        BY <1>1
      <4> QED
        BY <3>2, <4>1, MarketAssumption
    <3>3. CASE cache[k].cached_at # NULL
      <4>1. cache[k].cached_at \in Nat /\ cache[k].cached_at <= today
        BY <1>2, <2>1, <3>1, <3>3, MarketAssumption DEF Days, DatedBy
      <4> QED
        BY <1>1, <4>1
    <3> QED
      BY <3>2, <3>3
  <2> QED
    BY <2>1 DEF DatedBy, Lasting
<1>3. /\ _resolution_cache \in Cache /\ disk \in Cache
      /\ \A q \in Procs : pc[q] = "dump" => job[q].copy \in Cache
  BY DEF DiskInv, MarketInv, TypeOK
<1>4. Dates'
  BY <1>1, <1>2, <1>3 DEF DiskInv, Dates, local, file
<1>5. ASSUME \A q \in Procs : ~Saver(q)'
      PROVE  LastWord'
  <2>1. LastWord
    BY <1>1, <1>5 DEF DiskInv, Saver, local
  <2>2. Agree(disk, _resolution_cache, today')
    BY <1>2, <1>3 DEF DiskInv, Dates, Agree
  <2>3. \A q \in Procs : pc[q] = "dump" => Agree(job[q].copy, _resolution_cache, today')
    BY <1>2, <1>3 DEF DiskInv, Dates, Agree
  <2> QED
    BY <1>1, <2>1, <2>2, <2>3 DEF LastWord, local, file
<1> QED
  BY <1>4, <1>5 DEF DiskInv

LEMMA RestartDisk ==
  ASSUME DiskInv, MarketInv', Restart
  PROVE  DiskInv'
<1>1. /\ \A q \in Procs : pc'[q] = "idle"
      /\ disk' = disk /\ today' = today
      /\ \/ _resolution_cache' = _load_symbol_cache(disk)
         \/ _resolution_cache' = [k \in Keys |-> NULL] /\ io_failed'
  BY DEF Restart, Denied
<1>2. CASE _resolution_cache' = _load_symbol_cache(disk)
  <2>1. \A k \in Keys : _resolution_cache'[k] =
          IF k[2] = NULL \/ disk[k] = NULL \/ (disk[k].ticker # NULL /\ disk[k].ticker.suffix = ".L")
          THEN NULL ELSE disk[k]
    BY <1>2 DEF _load_symbol_cache
  <2>2. Dates'
    BY <1>1, <2>1 DEF DiskInv, Dates, DatedBy
  <2>3. LastWord'
    BY <1>1, <2>1 DEF LastWord, Agree, Lasting
  <2> QED
    BY <2>2, <2>3 DEF DiskInv
<1>3. CASE _resolution_cache' = [k \in Keys |-> NULL] /\ io_failed'
  <2>1. Dates'
    BY <1>1, <1>3 DEF DiskInv, Dates, DatedBy
  <2>2. LastWord'
    BY <1>1, <1>3 DEF LastWord
  <2> QED
    BY <2>1, <2>2 DEF DiskInv
<1> QED
  BY <1>1, <1>2, <1>3

LEMMA InitDisk == Init => DiskInv
<1> SUFFICES ASSUME Init PROVE DiskInv
    OBVIOUS
<1>1. /\ _resolution_cache = [k \in Keys |-> NULL] /\ disk = [k \in Keys |-> NULL]
      /\ \A q \in Procs : pc[q] = "idle"
  BY DEF Init
<1>2. LastWord
  BY <1>1, AgreeLaws DEF LastWord
<1>3. Dates
  BY <1>1 DEF Dates, DatedBy
<1> QED
  BY <1>2, <1>3, InitType DEF DiskInv

LEMMA StepDisk ==
  ASSUME ClearWhileBusy = FALSE
  PROVE  DiskInv /\ [Next]_vars => DiskInv'
<1> SUFFICES ASSUME DiskInv, [Next]_vars
             PROVE  DiskInv'
    OBVIOUS
<1>0. MarketInv'
  BY StepType DEF DiskInv
<1>1. ASSUME NEW e \in Enrichments, enrich_positions(e) PROVE DiskInv'
  BY <1>0, <1>1, EnrichStartDisk, ResolvingDisk, ResolveDoneDisk, DownloadDisk, GatheredDisk
     DEF enrich_positions, Resolving
<1>2. ASSUME NEW p \in Threads, enrich_position(p) PROVE DiskInv'
  BY <1>0, <1>2, LookupDisk, ThreadResolvingDisk, AskInfoDisk, PriceDisk
     DEF enrich_position, ThreadResolving, Threads
<1>3. ASSUME NEW q \in Procs, _save_symbol_cache(q) PROVE DiskInv'
  BY <1>0, <1>3, SaveCopyDisk, SaveDumpDisk DEF _save_symbol_cache
<1> QED
  BY <1>0, <1>1, <1>2, <1>3, ClearDisk, ExpiryDisk, DayDisk, RestartDisk DEF Next

(* Where the cache is not cleared during an enrichment, symbol_cache.json  *)
(* holds whatever is in force when nothing is under way, for any number of *)
(* enrichments and threads that save, fail to dump and die at any moment,  *)
(* unless the disk refused the last access, on whatever day.               *)
THEOREM FileMatches ==
  ASSUME ClearWhileBusy = FALSE
  PROVE  Spec => []DiskMatches
<1>1. Init => DiskInv
  BY InitDisk
<1>2. DiskInv /\ [Next]_vars => DiskInv'
  BY StepDisk
<1>3. DiskInv => DiskMatches
  <2> SUFFICES ASSUME DiskInv, ~io_failed, \A q \in Procs : pc[q] = "idle"
               PROVE  InForce(disk) = InForce(_resolution_cache)
      BY DEF DiskMatches
  <2>1. \A q \in Procs : ~Saver(q)
    BY DEF Saver
  <2>2. Agree(disk, _resolution_cache, today)
    BY <2>1 DEF DiskInv, LastWord
  <2> QED
    BY <2>2, AgreeMeansInForce
<1> QED
  BY <1>1, <1>2, <1>3, PTL DEF Spec

-----------------------------------------------------------------------------
(* The values *)

(* Positions that meet under a key of the cache may be resolved to the     *)
(* same tickers, and are not in dollars.                                   *)
MeetAlike ==
    \A p, q \in Positions :
        \/ p = q
        \/ KeysOf(p) \cap KeysOf(q) = {}
        \/ Tickers(p) = Tickers(q) /\ "USD" \notin {Instrument[p].currency, Instrument[q].currency}

(* The listing is quoted in the currency DeGiro names, and the suffix, or  *)
(* for dollars the lack of one that says something, says so too.           *)
Settled(p, ticker) ==
    /\ QuoteUnit(ticker) = Instrument[p].currency
    /\ yf_currency(ticker) = IF Instrument[p].currency = "USD" THEN "" ELSE Instrument[p].currency

(* Every ticker any position may be resolved to is such a listing.         *)
Consistent == \A p \in Positions : \A ticker \in Tickers(p) \ {NULL} : Settled(p, ticker)

(* A position keeps DeGiro's label, and what it is worth is in that unit,  *)
(* unless it may get the price of a namesake.                              *)
Sound(p, w) ==
    w # NULL => /\ w.currency = Instrument[p].currency
                /\ p \notin Namesakes => /\ w.unit \in {NULL, w.currency}
                                         /\ w.eur # NULL => w.eur = w.unit

OwnTickers(cache) ==
    \A p \in Positions : \A k \in Keys \cap KeysOf(p) :
        cache[k] # NULL => cache[k].ticker \in Tickers(p) \cup {NULL}

Kept(prices) == \A t \in KnownTickers : prices[t] \in {NULL, QuoteUnit(t)}

(* What an enrichment has resolved and downloaded is for its members.      *)
Wanted(e) == UNION {Tickers(p) : p \in Members(e)}
OwnBatch(e, x) ==
    /\ x.history \subseteq Wanted(e)
    /\ \A n \in 1..Len(x.tickers) : x.tickers[n] \in Wanted(e) \cup {NULL}

(* A thread asks for a ticker of its position, has the price kept for it,  *)
(* and for dollars finds fundamentals or nothing on the fast path.         *)
ThreadSound(p, cache, w, site, x) ==
    /\ Sound(p, w)
    /\ x.ticker \in Tickers(p) \cup {NULL}
    /\ x.cached = NULL \/ x.cached = QuoteUnit(x.ticker)
    /\ site \in {"resolve", "write"} => x.cached = NULL
    /\ site = "warm" /\ Instrument[p].currency = "USD" =>
          cache[RawKey(p)] = NULL \/ cache[RawKey(p)].fundamentals # NULL

ConvertedInv ==
    /\ MarketInv
    /\ OwnTickers(_resolution_cache) /\ OwnTickers(disk)
    /\ \A q \in Procs : pc[q] = "dump" => OwnTickers(job[q].copy)
    /\ Kept(_price_cache)
    /\ \A p \in Positions : Sound(p, shown[p])
    /\ \A p \in Positions : ThreadSound(p, _resolution_cache, work[p], pc[p], job[p])
    /\ \A e \in Enrichments : OwnBatch(e, job[e])

LEMMA Meeting ==
  ASSUME MeetAlike, NEW p \in Positions, NEW q \in Positions, NEW k \in KeysOf(p)
  PROVE  /\ k \in KeysOf(q) => Tickers(p) = Tickers(q)
         /\ p # q /\ Instrument[p].currency = "USD" => k \notin KeysOf(q)
         /\ p # q /\ Instrument[q].currency = "USD" => k \notin KeysOf(q)
  BY DEF MeetAlike

(* An entry that goes, or keeps its ticker, is still its position's own.   *)
LEMMA OwnKept ==
  ASSUME NEW c, NEW d, OwnTickers(c),
         \A k \in Keys : d[k] = c[k] \/ d[k] = NULL \/ (c[k] # NULL /\ d[k].ticker = c[k].ticker)
  PROVE  OwnTickers(d)
  BY DEF OwnTickers

(* No other position in dollars sees its entry change.                     *)
DollarsLeft(p, cache) ==
    \A q \in Positions : q # p /\ Instrument[q].currency = "USD" =>
        cache[RawKey(q)] = _resolution_cache[RawKey(q)]

LEMMA LeftAlone ==
  ASSUME MeetAlike, NEW p \in Positions, NEW cache,
         \A k \in Keys : k \notin KeysOf(p) => cache[k] = _resolution_cache[k]
  PROVE  DollarsLeft(p, cache)
<1>1. ASSUME NEW q \in Positions, q # p, Instrument[q].currency = "USD"
      PROVE  cache[RawKey(q)] = _resolution_cache[RawKey(q)]
  <2>1. RawKey(q) \in Keys /\ RawKey(q) \notin KeysOf(p)
    BY <1>1, OwnKeys, Meeting
  <2> QED
    BY <2>1
<1> QED
  BY <1>1 DEF DollarsLeft

(* A resolution writes only to its position, and only what may be its own. *)
LEMMA ResolvesOwn ==
  ASSUME MeetAlike, OwnTickers(_resolution_cache), NEW p \in Positions, NEW r, Resolves(p, r)
  PROVE  /\ OwnTickers(r.cache)
         /\ r.ticker \in Tickers(p) \cup {NULL}
         /\ DollarsLeft(p, r.cache)
<1>1. r.ticker \in Tickers(p) \cup {NULL}
  BY DEF Resolves, OwnTickers
<1>2. ASSUME NEW q \in Positions, NEW k \in Keys \cap KeysOf(q), r.cache[k] # NULL
      PROVE  r.cache[k].ticker \in Tickers(q) \cup {NULL}
  <2>1. CASE r.cache[k] = _resolution_cache[k]
    BY <1>2, <2>1 DEF OwnTickers
  <2>2. CASE k \in KeysOf(p) /\ \E date \in {today, NULL} : r.cache[k] = Entry(r.ticker, date)
    <3>1. Tickers(q) = Tickers(p)
      BY <1>2, <2>2, Meeting
    <3>2. r.cache[k].ticker = r.ticker
      BY <2>2 DEF Entry
    <3> QED
      BY <1>1, <3>1, <3>2
  <2> QED
    BY <1>2, <2>1, <2>2 DEF Resolves
<1>3. DollarsLeft(p, r.cache)
  BY LeftAlone DEF Resolves
<1> QED
  BY <1>1, <1>2, <1>3 DEF OwnTickers

(* A thread takes a step.                                                  *)
LEMMA ThreadConverts ==
  ASSUME ConvertedInv, MarketInv', NEW p \in Positions, NEW site, NEW x, NEW w,
         pc' = [pc EXCEPT ![p] = site], job' = [job EXCEPT ![p] = x],
         work' = [work EXCEPT ![p] = w],
         site = "dump" => OwnTickers(x.copy),
         shown' = shown, OwnTickers(disk'), Kept(_price_cache'), OwnTickers(_resolution_cache'),
         DollarsLeft(p, _resolution_cache'),
         ThreadSound(p, _resolution_cache', w, site, x)
  PROVE  ConvertedInv'
<1>1. /\ pc \in [Procs -> Sites] /\ job \in [Procs -> Job] /\ p \in Procs
      /\ work \in [Positions -> Position \cup {NULL}]
  BY Apart DEF ConvertedInv, MarketInv, TypeOK
<1>2. /\ pc'[p] = site /\ job'[p] = x /\ work'[p] = w
      /\ \A q \in Procs : q # p => pc'[q] = pc[q] /\ job'[q] = job[q]
      /\ \A q \in Positions : q # p => work'[q] = work[q]
  BY <1>1
<1>3. \A q \in Procs : pc'[q] = "dump" => OwnTickers(job'[q].copy)
  BY <1>2 DEF ConvertedInv
<1>4. ASSUME NEW q \in Positions
      PROVE  ThreadSound(q, _resolution_cache', work'[q], pc'[q], job'[q])
  <2>1. CASE q = p
    BY <1>2, <2>1
  <2>2. CASE q # p
    <3>1. ThreadSound(q, _resolution_cache, work[q], pc[q], job[q])
      BY DEF ConvertedInv
    <3>2. /\ pc'[q] = pc[q] /\ job'[q] = job[q] /\ work'[q] = work[q]
          /\ Instrument[q].currency = "USD" =>
                _resolution_cache'[RawKey(q)] = _resolution_cache[RawKey(q)]
      BY <1>2, <2>2, Apart DEF DollarsLeft
    <3> QED
      BY <3>1, <3>2 DEF ThreadSound
  <2> QED
    BY <2>1, <2>2
<1>5. \A q \in Positions : Sound(q, shown'[q])
  BY DEF ConvertedInv
<1>6. \A e \in Enrichments : OwnBatch(e, job'[e])
  BY <1>2, Apart DEF ConvertedInv
<1> QED
  BY <1>3, <1>4, <1>5, <1>6 DEF ConvertedInv

(* An enrichment takes a step that leaves the threads where they are.      *)
LEMMA EnrichmentConverts ==
  ASSUME ConvertedInv, MarketInv', NEW e \in Enrichments, NEW site, NEW x,
         pc' = [pc EXCEPT ![e] = site], job' = [job EXCEPT ![e] = x],
         \A q \in Positions : Sound(q, work'[q]),
         site = "dump" => OwnTickers(x.copy), OwnBatch(e, x),
         shown' = shown, OwnTickers(disk'), _price_cache' = _price_cache, OwnTickers(_resolution_cache'),
         \A q \in Positions : pc[q] = "warm" /\ Instrument[q].currency = "USD" =>
            _resolution_cache'[RawKey(q)] = _resolution_cache[RawKey(q)]
  PROVE  ConvertedInv'
<1>1. /\ pc \in [Procs -> Sites] /\ job \in [Procs -> Job] /\ e \in Procs
  BY Apart DEF ConvertedInv, MarketInv, TypeOK
<1>2. /\ pc'[e] = site /\ job'[e] = x
      /\ \A q \in Procs : q # e => pc'[q] = pc[q] /\ job'[q] = job[q]
  BY <1>1
<1>3. \A q \in Procs : pc'[q] = "dump" => OwnTickers(job'[q].copy)
  BY <1>2 DEF ConvertedInv
<1>4. ASSUME NEW q \in Positions
      PROVE  ThreadSound(q, _resolution_cache', work'[q], pc'[q], job'[q])
  <2>1. ThreadSound(q, _resolution_cache, work[q], pc[q], job[q])
    BY DEF ConvertedInv
  <2>2. pc'[q] = pc[q] /\ job'[q] = job[q]
    BY <1>2, Apart
  <2> QED
    BY <2>1, <2>2 DEF ThreadSound
<1>5. \A q \in Positions : Sound(q, shown'[q])
  BY DEF ConvertedInv
<1>6. \A f \in Enrichments : OwnBatch(f, job'[f])
  BY <1>2, Apart DEF ConvertedInv
<1> QED
  BY <1>3, <1>4, <1>5, <1>6 DEF ConvertedInv

LEMMA SaveCopyConverts ==
  ASSUME ConvertedInv, MarketInv', NEW q \in Procs, SaveCopy(q)
  PROVE  ConvertedInv'
<1> DEFINE x == [job[q] EXCEPT !.copy = _resolution_cache]
<1>1. pc \in [Procs -> Sites] /\ job \in [Procs -> Job] /\ work \in [Positions -> Position \cup {NULL}]
  BY DEF ConvertedInv, MarketInv, TypeOK
<1>2. /\ x.copy = _resolution_cache /\ x.ticker = job[q].ticker
      /\ x.then = job[q].then /\ x.cached = job[q].cached
      /\ x.history = job[q].history /\ x.tickers = job[q].tickers
  BY <1>1 DEF Job
<1>3. /\ pc[q] = "save" /\ pc' = [pc EXCEPT ![q] = "dump"] /\ job' = [job EXCEPT ![q] = x]
      /\ work' = work /\ shown' = shown /\ disk' = disk
      /\ _price_cache' = _price_cache /\ _resolution_cache' = _resolution_cache
  BY <1>1 DEF SaveCopy, Goto, caches, env, file
<1> HIDE DEF x
<1>4. /\ OwnTickers(_resolution_cache) /\ OwnTickers(disk) /\ Kept(_price_cache)
      /\ \A p \in Positions : ThreadSound(p, _resolution_cache, work[p], pc[p], job[p])
  BY DEF ConvertedInv
<1>5. CASE q \in Enrichments
  <2>1. \A p \in Positions : Sound(p, work[p])
    BY <1>4 DEF ThreadSound
  <2>2. OwnBatch(q, x)
    BY <1>2, <1>5 DEF ConvertedInv, OwnBatch
  <2> QED
    BY <1>2, <1>3, <1>4, <1>5, <2>1, <2>2, EnrichmentConverts
<1>6. CASE q \in Positions
  <2>1. ThreadSound(q, _resolution_cache, work[q], "dump", x)
    BY <1>2, <1>4, <1>6 DEF ThreadSound
  <2>2. work' = [work EXCEPT ![q] = work[q]]
    BY <1>1, <1>3, <1>6
  <2> QED
    BY <1>2, <1>3, <1>4, <1>6, <2>1, <2>2, ThreadConverts DEF DollarsLeft
<1> QED
  BY <1>5, <1>6, Apart

LEMMA SaveDumpConverts ==
  ASSUME ConvertedInv, MarketInv', NEW q \in Procs, SaveDump(q)
  PROVE  ConvertedInv'
<1> DEFINE x == [job[q] EXCEPT !.copy = NULL, !.then = NULL]
<1>1. pc \in [Procs -> Sites] /\ job \in [Procs -> Job] /\ work \in [Positions -> Position \cup {NULL}]
  BY DEF ConvertedInv, MarketInv, TypeOK
<1>2. /\ x.then = NULL /\ x.ticker = job[q].ticker /\ x.cached = job[q].cached
      /\ x.history = job[q].history /\ x.tickers = job[q].tickers
  BY <1>1 DEF Job
<1>3. job' = [job EXCEPT ![q] = x]
  BY <1>1 DEF SaveDump, Job
<1>4. /\ pc[q] = "dump" /\ pc' = [pc EXCEPT ![q] = job[q].then]
      /\ work' = work /\ shown' = shown /\ disk' \in {disk, job[q].copy}
      /\ _price_cache' = _price_cache /\ _resolution_cache' = _resolution_cache
  BY DEF SaveDump, Goto, caches, file
<1> HIDE DEF x
<1>5. /\ OwnTickers(_resolution_cache) /\ OwnTickers(disk') /\ Kept(_price_cache)
      /\ \A p \in Positions : ThreadSound(p, _resolution_cache, work[p], pc[p], job[p])
  BY <1>4 DEF ConvertedInv
<1>6. CASE q \in Enrichments
  <2>1. \A p \in Positions : Sound(p, work[p])
    BY <1>5 DEF ThreadSound
  <2>2. job[q].then # "dump"
    BY <1>4, <1>6 DEF ConvertedInv, MarketInv, JobReady
  <2>3. OwnBatch(q, x)
    BY <1>2, <1>6 DEF ConvertedInv, OwnBatch
  <2> QED
    BY <1>3, <1>4, <1>5, <1>6, <2>1, <2>2, <2>3, EnrichmentConverts
<1>7. CASE q \in Positions
  <2>1. job[q].then \in {"done", "ask", "price"}
    BY <1>4, <1>7 DEF ConvertedInv, MarketInv, JobReady
  <2>2. ThreadSound(q, _resolution_cache, work[q], job[q].then, x)
    BY <1>2, <1>5, <1>7, <2>1 DEF ThreadSound
  <2>3. work' = [work EXCEPT ![q] = work[q]]
    BY <1>1, <1>4, <1>7
  <2> QED
    BY <1>3, <1>4, <1>5, <1>7, <2>1, <2>2, <2>3, ThreadConverts DEF DollarsLeft
<1> QED
  BY <1>6, <1>7, Apart

LEMMA EnrichStartConverts ==
  ASSUME ConvertedInv, MarketInv', NEW e \in Enrichments, EnrichStart(e)
  PROVE  ConvertedInv'
<1>1. \A p \in Positions : Sound(p, Raw(p)) /\ Sound(p, shown[p]) /\ Sound(p, work[p])
  BY DEF Raw, Sound, ConvertedInv, ThreadSound
<1>2. PICK sync \in BOOLEAN :
        work' = [p \in Positions |-> IF p \notin Members(e) THEN work[p]
                                     ELSE IF sync THEN Raw(p) ELSE shown[p]]
  BY DEF EnrichStart
<1>3. \A p \in Positions : Sound(p, work'[p])
  BY <1>1, <1>2
<1>4. /\ pc' = [pc EXCEPT ![e] = "resolve"] /\ job' = [job EXCEPT ![e] = Idle]
      /\ shown' = shown /\ disk' = disk
      /\ _price_cache' = _price_cache /\ _resolution_cache' = _resolution_cache
  BY DEF EnrichStart, Goto, env, file
<1>5. OwnTickers(_resolution_cache) /\ OwnTickers(disk) /\ OwnBatch(e, Idle)
  BY DEF ConvertedInv, OwnBatch, Idle
<1> QED
  BY <1>3, <1>4, <1>5, EnrichmentConverts

(* What is resolved for a member is wanted by the enrichment.              *)
LEMMA WantedOnward ==
  ASSUME NEW e \in Enrichments, NEW p \in Members(e), NEW x \in Job, OwnBatch(e, x),
         NEW r, r.ticker \in Tickers(p) \cup {NULL}, r.ticker \in Ticker_
  PROVE  OwnBatch(e, Onward(x, r))
<1>1. x.tickers \in Seq(Ticker_)
  BY DEF Job, Ticker_
<1>2. /\ Onward(x, r).history = x.history
      /\ Onward(x, r).tickers = Append(x.tickers, r.ticker)
  BY DEF Onward, Job
<1>3. r.ticker \in Wanted(e) \cup {NULL}
  BY DEF Wanted
<1> DEFINE s == x.tickers
           t == Append(s, r.ticker)
<1> HIDE DEF s
<1>4. /\ Len(s) \in Nat /\ Len(t) = Len(s) + 1 /\ t[Len(s) + 1] = r.ticker
      /\ \A n \in 1..Len(s) : t[n] = s[n]
  BY <1>1 DEF s
<1> HIDE DEF t
<1>5. ASSUME NEW n \in 1..Len(t) PROVE t[n] \in Wanted(e) \cup {NULL}
  <2>1. n \in 1..Len(s) \/ n = Len(s) + 1
    BY <1>4
  <2> QED
    BY <1>3, <1>4, <2>1 DEF OwnBatch, s
<1> QED
  BY <1>2, <1>5 DEF OwnBatch, s, t

LEMMA ResolvingConverts ==
  ASSUME MeetAlike, ConvertedInv, MarketInv', NEW e \in Enrichments, Resolving(e)
  PROVE  ConvertedInv'
<1> DEFINE p == e[job[e].next]
<1>1. PICK r : /\ Resolves(p, r)
               /\ _resolution_cache' = r.cache /\ _yf_rate_limited' = r.limited
               /\ \/ /\ r.found = NULL /\ pc' = [pc EXCEPT ![e] = "resolve"]
                     /\ job' = [job EXCEPT ![e] = Onward(job[e], r)]
                  \/ /\ r.found # NULL /\ pc' = [pc EXCEPT ![e] = "write"]
                     /\ job' = [job EXCEPT ![e] = [job[e] EXCEPT !.found = r.found]]
  BY ResolvingResult DEF ConvertedInv
<1>2. /\ pc[e] \in {"resolve", "write"} /\ job[e] \in Job /\ p \in Members(e)
      /\ work' = work /\ shown' = shown /\ disk' = disk /\ _price_cache' = _price_cache
  BY ResolvingResult DEF ConvertedInv, env, file
<1> HIDE DEF p
<1>3. p \in Positions /\ pc[p] = "idle"
  BY <1>2, MembersKnown DEF ConvertedInv, MarketInv, WorkReady
<1>4. /\ OwnTickers(_resolution_cache) /\ OwnTickers(disk) /\ OwnBatch(e, job[e])
      /\ \A q \in Positions : Sound(q, work[q])
  BY DEF ConvertedInv, ThreadSound
<1>5. /\ OwnTickers(r.cache) /\ DollarsLeft(p, r.cache)
      /\ r.ticker \in Tickers(p) \cup {NULL} /\ r.ticker \in Ticker_
  BY <1>1, <1>3, <1>4, ResolvesOwn DEF Resolves
<1>6. \A q \in Positions : pc[q] = "warm" /\ Instrument[q].currency = "USD" =>
         _resolution_cache'[RawKey(q)] = _resolution_cache[RawKey(q)]
  BY <1>1, <1>3, <1>5 DEF DollarsLeft
<1>7. \E x : \E site \in {"resolve", "write"} :
         pc' = [pc EXCEPT ![e] = site] /\ job' = [job EXCEPT ![e] = x] /\ OwnBatch(e, x)
  <2>1. OwnBatch(e, Onward(job[e], r))
    BY <1>2, <1>4, <1>5, WantedOnward
  <2>2. OwnBatch(e, [job[e] EXCEPT !.found = r.found])
    BY <1>2, <1>4 DEF OwnBatch, Job
  <2> QED
    BY <1>1, <2>1, <2>2
<1>8. PICK x : \E site \in {"resolve", "write"} :
         pc' = [pc EXCEPT ![e] = site] /\ job' = [job EXCEPT ![e] = x] /\ OwnBatch(e, x)
  BY <1>7
<1>9. PICK site \in {"resolve", "write"} :
         pc' = [pc EXCEPT ![e] = site] /\ job' = [job EXCEPT ![e] = x] /\ OwnBatch(e, x)
  BY <1>8
<1>10. OwnTickers(disk') /\ OwnTickers(_resolution_cache') /\ \A q \in Positions : Sound(q, work'[q])
  BY <1>1, <1>2, <1>4, <1>5
<1> QED
  BY <1>2, <1>6, <1>9, <1>10, EnrichmentConverts

LEMMA ResolveDoneConverts ==
  ASSUME ConvertedInv, MarketInv', NEW e \in Enrichments, ResolveDone(e)
  PROVE  ConvertedInv'
<1> DEFINE x == [job[e] EXCEPT !.then = "download", !.dirty = FALSE]
           site == IF job[e].dirty THEN "save" ELSE "download"
<1>1. job \in [Procs -> Job] /\ e \in Procs
  BY Apart DEF ConvertedInv, MarketInv, TypeOK
<1>2. job' = [job EXCEPT ![e] = x] /\ x.history = job[e].history /\ x.tickers = job[e].tickers
  BY <1>1 DEF ResolveDone, Job
<1>3. /\ pc' = [pc EXCEPT ![e] = site] /\ work' = work /\ shown' = shown /\ disk' = disk
      /\ _price_cache' = _price_cache /\ _resolution_cache' = _resolution_cache
  BY DEF ResolveDone, SaveThen, Goto, caches, env, file
<1>4. site # "dump"
  OBVIOUS
<1> HIDE DEF x, site
<1>5. /\ OwnTickers(_resolution_cache) /\ OwnTickers(disk)
      /\ \A q \in Positions : Sound(q, work[q])
  BY DEF ConvertedInv, ThreadSound
<1>6. OwnBatch(e, x)
  BY <1>2 DEF ConvertedInv, OwnBatch
<1> QED
  BY <1>2, <1>3, <1>4, <1>5, <1>6, EnrichmentConverts

(* The threads that start have what they had when they were idle.          *)
LEMMA DownloadConverts ==
  ASSUME ConvertedInv, MarketInv', NEW e \in Enrichments, Download(e)
  PROVE  ConvertedInv'
<1>1. job \in [Procs -> Job] /\ e \in Procs /\ pc[e] = "download"
  BY Apart DEF ConvertedInv, MarketInv, TypeOK, Download
<1>2. /\ \A q \in Procs : q # e => job'[q] = job[q]
      /\ \A q \in Procs : pc'[q] = IF q = e THEN "gather"
                                  ELSE IF q \in Members(e) THEN "start" ELSE pc[q]
      /\ work' = work /\ shown' = shown /\ disk' = disk
      /\ _price_cache' = _price_cache /\ _resolution_cache' = _resolution_cache
  BY <1>1 DEF Download, caches, env, file
<1>3. \A q \in Procs : pc'[q] = "dump" => OwnTickers(job'[q].copy)
  BY <1>2 DEF ConvertedInv
<1>4. ASSUME NEW q \in Positions
      PROVE  ThreadSound(q, _resolution_cache', work'[q], pc'[q], job'[q])
  <2>1. ThreadSound(q, _resolution_cache, work[q], pc[q], job[q])
    BY DEF ConvertedInv
  <2>2. pc'[q] \in {pc[q], "start"} /\ job'[q] = job[q]
    BY <1>2, Apart
  <2> QED
    BY <1>2, <2>1, <2>2 DEF ThreadSound
<1>5. OwnBatch(e, job'[e])
  <2>1. PICK history \in SUBSET (Range(job[e].tickers) \ {NULL}) :
          job' = [job EXCEPT ![e] = [Idle EXCEPT !.history = history]]
    BY DEF Download
  <2>2. Range(job[e].tickers) \subseteq Wanted(e) \cup {NULL}
    <3>1. job[e].tickers \in Seq(KnownTickers \cup {NULL}) /\ OwnBatch(e, job[e])
      BY <1>1 DEF ConvertedInv, Job
    <3> QED
      BY <3>1 DEF Range, OwnBatch
  <2>3. job'[e] = [Idle EXCEPT !.history = history]
    BY <1>1, <2>1
  <2>4. job'[e].history = history /\ job'[e].tickers = << >>
    BY <2>3 DEF Idle
  <2> QED
    BY <2>2, <2>4 DEF OwnBatch
<1>6. \A f \in Enrichments : OwnBatch(f, job'[f])
  BY <1>2, <1>5, Apart DEF ConvertedInv
<1> QED
  BY <1>2, <1>3, <1>4, <1>6 DEF ConvertedInv

LEMMA LookupConverts ==
  ASSUME MeetAlike, ConvertedInv, MarketInv', NEW p \in Positions, Lookup(p)
  PROVE  ConvertedInv'
<1> DEFINE entry == _resolution_cache[RawKey(p)]
           known == entry # NULL /\ entry.ticker # NULL
           t == IF known /\ IsFresh(entry) THEN entry.ticker ELSE NULL
           x == [Idle EXCEPT !.ticker = t]
           site == IF ~known \/ ~IsFresh(entry) THEN "resolve"
                   ELSE IF HasFundamentals(entry) THEN "warm" ELSE "ask"
<1>1. /\ pc' = [pc EXCEPT ![p] = site] /\ job' = [job EXCEPT ![p] = x]
      /\ work' = work /\ shown' = shown /\ disk' = disk /\ _price_cache' = _price_cache
      /\ _resolution_cache' = IF known /\ ~IsFresh(entry)
                              THEN [_resolution_cache EXCEPT ![RawKey(p)] = NULL]
                              ELSE _resolution_cache
  BY DEF Lookup, Goto, env, file
<1>2. /\ work \in [Positions -> Position \cup {NULL}] /\ _resolution_cache \in Cache
      /\ RawKey(p) \in Keys \cap KeysOf(p) /\ today \in Nat
  BY OwnKeys DEF ConvertedInv, MarketInv, TypeOK, Days
<1>3. /\ OwnTickers(_resolution_cache) /\ OwnTickers(disk) /\ Kept(_price_cache)
      /\ Sound(p, work[p])
  BY DEF ConvertedInv, ThreadSound
<1>4. t \in Tickers(p) \cup {NULL}
  BY <1>2, <1>3 DEF OwnTickers
<1>5. x.ticker = t /\ x.cached = NULL
  BY DEF Idle
<1>6. site # "dump" /\ (site = "warm" => _resolution_cache' = _resolution_cache /\ entry.fundamentals # NULL)
  BY <1>1, <1>2, MarketAssumption DEF HasFundamentals
<1>7. \A k \in Keys : /\ _resolution_cache'[k] = _resolution_cache[k] \/ _resolution_cache'[k] = NULL
                      /\ k # RawKey(p) => _resolution_cache'[k] = _resolution_cache[k]
  BY <1>1, <1>2 DEF Cache
<1> HIDE DEF x, site, t, known
<1>8. OwnTickers(_resolution_cache')
  BY <1>3, <1>7, OwnKept
<1>9. DollarsLeft(p, _resolution_cache')
  BY <1>2, <1>7, LeftAlone
<1>10. ThreadSound(p, _resolution_cache', work[p], site, x)
  BY <1>3, <1>4, <1>5, <1>6 DEF ThreadSound
<1>11. work' = [work EXCEPT ![p] = work[p]] /\ OwnTickers(disk') /\ Kept(_price_cache')
  BY <1>1, <1>2, <1>3
<1> QED
  BY <1>1, <1>6, <1>8, <1>9, <1>10, <1>11, ThreadConverts

LEMMA ThreadResolvingConverts ==
  ASSUME MeetAlike, ConvertedInv, MarketInv', NEW p \in Positions, ThreadResolving(p)
  PROVE  ConvertedInv'
<1>1. PICK r : /\ Resolves(p, r)
               /\ _resolution_cache' = r.cache /\ _yf_rate_limited' = r.limited
               /\ \/ /\ r.found = NULL
                     /\ pc' = [pc EXCEPT ![p] = IF r.saves THEN "save" ELSE Site(r)]
                     /\ job' = [job EXCEPT ![p] = With(job[p], r)]
                  \/ /\ r.found # NULL /\ pc' = [pc EXCEPT ![p] = "write"]
                     /\ job' = [job EXCEPT ![p] = [job[p] EXCEPT !.found = r.found]]
  BY ThreadResolvingResult DEF ConvertedInv
<1>2. /\ pc[p] \in {"resolve", "write"} /\ job[p] \in Job
      /\ work' = work /\ shown' = shown /\ disk' = disk /\ _price_cache' = _price_cache
  BY ThreadResolvingResult DEF ConvertedInv, env, file
<1>3. work \in [Positions -> Position \cup {NULL}]
  BY DEF ConvertedInv, MarketInv, TypeOK
<1>4. /\ OwnTickers(_resolution_cache) /\ OwnTickers(disk) /\ Kept(_price_cache)
      /\ Sound(p, work[p]) /\ job[p].cached = NULL
      /\ job[p].ticker \in Tickers(p) \cup {NULL}
  BY <1>2 DEF ConvertedInv, ThreadSound
<1>5. /\ OwnTickers(r.cache) /\ r.ticker \in Tickers(p) \cup {NULL}
      /\ DollarsLeft(p, r.cache)
  BY <1>1, <1>4, ResolvesOwn
<1>6. \E x : \E site \in {"save", "done", "ask", "write"} :
         /\ pc' = [pc EXCEPT ![p] = site] /\ job' = [job EXCEPT ![p] = x]
         /\ x.ticker \in Tickers(p) \cup {NULL} /\ x.cached = NULL
  <2>1. With(job[p], r).ticker = r.ticker /\ With(job[p], r).cached = NULL
    <3> DEFINE then == IF r.saves THEN Site(r) ELSE NULL
    <3> HIDE DEF then
    <3>1. With(job[p], r) = [job[p] EXCEPT !.ticker = r.ticker, !.found = NULL, !.then = then]
      BY DEF With, then
    <3> QED
      BY <1>2, <1>4, <3>1 DEF Job
  <2>2. /\ [job[p] EXCEPT !.found = r.found].ticker = job[p].ticker
        /\ [job[p] EXCEPT !.found = r.found].cached = NULL
    BY <1>2, <1>4 DEF Job
  <2>3. (IF r.saves THEN "save" ELSE Site(r)) \in {"save", "done", "ask", "write"}
    BY DEF Site
  <2> QED
    BY <1>1, <1>4, <1>5, <2>1, <2>2, <2>3
<1>7. PICK x : \E site \in {"save", "done", "ask", "write"} :
         /\ pc' = [pc EXCEPT ![p] = site] /\ job' = [job EXCEPT ![p] = x]
         /\ x.ticker \in Tickers(p) \cup {NULL} /\ x.cached = NULL
  BY <1>6
<1>8. PICK site \in {"save", "done", "ask", "write"} :
         /\ pc' = [pc EXCEPT ![p] = site] /\ job' = [job EXCEPT ![p] = x]
         /\ x.ticker \in Tickers(p) \cup {NULL} /\ x.cached = NULL
  BY <1>7
<1>9. ThreadSound(p, _resolution_cache', work[p], site, x) /\ site # "dump"
  BY <1>4, <1>8 DEF ThreadSound
<1>10. /\ work' = [work EXCEPT ![p] = work[p]] /\ OwnTickers(disk') /\ Kept(_price_cache')
       /\ _resolution_cache' = r.cache
  BY <1>1, <1>2, <1>3, <1>4
<1> QED
  BY <1>2, <1>5, <1>8, <1>9, <1>10, ThreadConverts

(* A thread that evicts or ends forgets its ticker.                        *)
LEMMA EvictConverts ==
  ASSUME MeetAlike, ConvertedInv, MarketInv', NEW p \in Positions, Evict(p), NEW w, Sound(p, w),
         work' = [work EXCEPT ![p] = w], shown' = shown, disk' = disk, _price_cache' = _price_cache
  PROVE  ConvertedInv'
<1> DEFINE x == [Idle EXCEPT !.then = "done"]
<1>1. /\ pc' = [pc EXCEPT ![p] = "save"] /\ job' = [job EXCEPT ![p] = x]
      /\ _resolution_cache' = [_resolution_cache EXCEPT ![RawKey(p)] = NULL]
  BY DEF Evict, Goto
<1>2. x.ticker = NULL /\ x.cached = NULL
  BY DEF Idle
<1> HIDE DEF x
<1>3. RawKey(p) \in Keys \cap KeysOf(p) /\ _resolution_cache \in Cache
  BY OwnKeys DEF ConvertedInv, MarketInv, TypeOK
<1>4. \A k \in Keys : /\ _resolution_cache'[k] = _resolution_cache[k] \/ _resolution_cache'[k] = NULL
                      /\ k # RawKey(p) => _resolution_cache'[k] = _resolution_cache[k]
  BY <1>1, <1>3 DEF Cache
<1>5. OwnTickers(_resolution_cache')
  BY <1>4, OwnKept DEF ConvertedInv
<1>6. DollarsLeft(p, _resolution_cache')
  BY <1>3, <1>4, LeftAlone
<1>7. ThreadSound(p, _resolution_cache', w, "save", x)
  BY <1>2 DEF ThreadSound
<1>8. OwnTickers(disk') /\ Kept(_price_cache')
  BY DEF ConvertedInv
<1> QED
  BY <1>1, <1>5, <1>6, <1>7, <1>8, ThreadConverts

LEMMA EndConverts ==
  ASSUME ConvertedInv, MarketInv', NEW p \in Positions, EndThread(p), NEW w, Sound(p, w),
         work' = [work EXCEPT ![p] = w], shown' = shown, disk' = disk,
         Kept(_price_cache'), _resolution_cache' = _resolution_cache
  PROVE  ConvertedInv'
<1>1. /\ pc' = [pc EXCEPT ![p] = "done"] /\ job' = [job EXCEPT ![p] = Idle]
  BY DEF EndThread, Goto
<1>2. ThreadSound(p, _resolution_cache', w, "done", Idle)
  BY DEF ThreadSound, Idle
<1>3. OwnTickers(disk') /\ OwnTickers(_resolution_cache')
  BY DEF ConvertedInv
<1> QED
  BY <1>1, <1>2, <1>3, ThreadConverts DEF DollarsLeft

LEMMA AskInfoConverts ==
  ASSUME MeetAlike, ConvertedInv, MarketInv', NEW p \in Positions, AskInfo(p)
  PROVE  ConvertedInv'
<1> DEFINE cached == _price_cache[job[p].ticker]
<1>1. /\ pc[p] = "ask" /\ work' = work /\ shown' = shown /\ disk' = disk
      /\ _price_cache' = _price_cache
  BY DEF AskInfo, env, file
<1>2. /\ work \in [Positions -> Position \cup {NULL}] /\ job[p] \in Job
      /\ RawKey(p) \in Keys \cap KeysOf(p) /\ today \in Nat
  BY OwnKeys, Apart DEF ConvertedInv, MarketInv, TypeOK, Days
<1>3. /\ OwnTickers(_resolution_cache) /\ OwnTickers(disk) /\ Kept(_price_cache)
      /\ Sound(p, work[p]) /\ job[p].ticker \in Tickers(p) \cup {NULL}
  BY DEF ConvertedInv, ThreadSound
<1>4. cached \in {NULL, QuoteUnit(job[p].ticker)}
  <2>1. job[p].ticker \in KnownTickers
    BY <1>1, <1>2 DEF ConvertedInv, MarketInv, JobReady, Job
  <2> QED
    BY <1>3, <2>1 DEF Kept
<1>5. work' = [work EXCEPT ![p] = work[p]] /\ OwnTickers(disk') /\ Kept(_price_cache')
  BY <1>1, <1>2, <1>3
<1> HIDE DEF cached
<1>6. ASSUME NEW x, job' = [job EXCEPT ![p] = x], x.ticker = job[p].ticker, x.cached = cached,
             NEW site \in {"price", "save"}, pc' = [pc EXCEPT ![p] = site],
             OwnTickers(_resolution_cache'),
             DollarsLeft(p, _resolution_cache')
      PROVE  ConvertedInv'
  <2>1. ThreadSound(p, _resolution_cache', work[p], site, x)
    BY <1>3, <1>4, <1>6 DEF ThreadSound
  <2>2. site # "dump"
    BY <1>6
  <2> QED
    BY <1>1, <1>5, <1>6, <2>1, <2>2, ThreadConverts
<1>7. CASE /\ job' = [job EXCEPT ![p] = [job[p] EXCEPT !.cached = cached]]
           /\ pc' = [pc EXCEPT ![p] = "price"]
           /\ UNCHANGED _resolution_cache
  <2> DEFINE x == [job[p] EXCEPT !.cached = cached]
  <2>1. x.ticker = job[p].ticker /\ x.cached = cached
    BY <1>2 DEF Job
  <2>2. job' = [job EXCEPT ![p] = x]
    BY <1>7
  <2> HIDE DEF x
  <2> QED
    BY <1>3, <1>6, <1>7, <2>1, <2>2 DEF DollarsLeft
<1>8. CASE Evict(p)
  BY <1>1, <1>3, <1>5, <1>8, EvictConverts
<1>9. CASE EndThread(p) /\ UNCHANGED _resolution_cache
  BY <1>1, <1>3, <1>5, <1>9, EndConverts
<1>10. ASSUME NEW pence \in BOOLEAN,
              job' = [job EXCEPT ![p] = [job[p] EXCEPT !.cached = cached, !.then = AfterSave(p),
                                                      !.pence = pence]],
              _resolution_cache' = Answered(p),
              pc' = [pc EXCEPT ![p] = IF _resolution_cache[RawKey(p)] # NULL THEN "save" ELSE "price"]
       PROVE  ConvertedInv'
  <2> DEFINE x == [job[p] EXCEPT !.cached = cached, !.then = AfterSave(p), !.pence = pence]
             site == IF _resolution_cache[RawKey(p)] # NULL THEN "save" ELSE "price"
  <2>1. x.ticker = job[p].ticker /\ x.cached = cached
    BY <1>2 DEF Job
  <2>2. job' = [job EXCEPT ![p] = x] /\ pc' = [pc EXCEPT ![p] = site] /\ site \in {"price", "save"}
    BY <1>10
  <2> HIDE DEF x, site
  <2>3. OwnTickers(Answered(p))
    BY <1>3, AnsweredType, OwnKept DEF ConvertedInv, MarketInv
  <2>4. DollarsLeft(p, Answered(p))
    BY <1>2, AnsweredType, LeftAlone DEF ConvertedInv, MarketInv
  <2> QED
    BY <1>6, <1>10, <2>1, <2>2, <2>3, <2>4
<1> QED
  BY <1>7, <1>8, <1>9, <1>10, AskInfoResult DEF ConvertedInv, cached

(* What the listing of a position is worth is told by its label.           *)
LEMMA SettledUnits ==
  ASSUME Consistent, NEW p \in Positions, NEW t \in Tickers(p), t # NULL
  PROVE  /\ Instrument[p].currency \in Currencies /\ QuoteUnit(t) = Instrument[p].currency
         /\ QuoteUnit(t) # "GBp"
         /\ yf_currency(t) = IF Instrument[p].currency = "USD" THEN "" ELSE Instrument[p].currency
<1>1. Instrument[p].currency \in Currencies
  BY MarketAssumption
<1>2. /\ QuoteUnit(t) = Instrument[p].currency
      /\ yf_currency(t) = IF Instrument[p].currency = "USD" THEN "" ELSE Instrument[p].currency
  BY DEF Consistent, Settled
<1> QED
  BY <1>1, <1>2 DEF Currencies

LEMMA SoundSteps ==
  ASSUME NEW p \in Positions, NEW w \in Position, Sound(p, w), NEW c, c = Instrument[p].currency,
         NEW u, u = c \/ p \in Namesakes
  PROVE  /\ Sound(p, [w EXCEPT !.currency = c])
         /\ Sound(p, [w EXCEPT !.currency = c, !.unit = u])
<1>1. /\ w.currency = c
      /\ p \notin Namesakes => /\ w.unit \in {NULL, c}
                               /\ w.eur # NULL => w.eur = w.unit
  BY MarketAssumption DEF Sound
<1>2. Sound(p, [w EXCEPT !.currency = c])
  <2> DEFINE v == [w EXCEPT !.currency = c]
  <2>1. v.currency = c /\ v.unit = w.unit /\ v.eur = w.eur
    BY DEF Position
  <2> HIDE DEF v
  <2>2. Sound(p, v)
    BY <1>1, <2>1 DEF Sound
  <2> QED
    BY <2>2 DEF v
<1>3. ASSUME w.eur # NULL, p \notin Namesakes PROVE w.eur = c /\ u = c
  BY <1>1, <1>3
<1>4. Sound(p, [w EXCEPT !.currency = c, !.unit = u])
  <2> DEFINE v == [w EXCEPT !.currency = c, !.unit = u]
  <2>1. v.currency = c /\ v.unit = u /\ v.eur = w.eur
    BY DEF Position
  <2> HIDE DEF v
  <2>2. Sound(p, v)
    BY <1>3, <2>1 DEF Sound
  <2> QED
    BY <2>2 DEF v
<1> QED
  BY <1>2, <1>4

(* The label of a listing says again what DeGiro's says.                   *)
LEMMA RelabelledSame ==
  ASSUME Consistent, ConvertedInv, NEW p \in Positions, pc[p] = "price"
  PROVE  /\ work[p] \in Position /\ Sound(p, work[p])
         /\ job[p].ticker \in Tickers(p) /\ job[p].ticker \in KnownTickers
         /\ Relabelled(p) = Instrument[p].currency /\ Relabelled(p) \in Currencies
         /\ \A unit \in ColdUnits(p) : unit = QuoteUnit(job[p].ticker)
<1>1. /\ work[p] \in Position /\ Sound(p, work[p]) /\ work[p].currency = Instrument[p].currency
      /\ job[p].cached \in {NULL, QuoteUnit(job[p].ticker)}
  <2>1. work[p] \in Position
    BY DEF ConvertedInv, MarketInv, WorkReady
  <2>2. Sound(p, work[p]) /\ job[p].cached \in {NULL, QuoteUnit(job[p].ticker)}
    BY DEF ConvertedInv, ThreadSound
  <2>3. work[p].currency = Instrument[p].currency
    <3>1. CASE work[p] # NULL
      BY <2>2, <3>1 DEF Sound
    <3>2. CASE work[p] = NULL
      BY <2>1, <3>2, MarketAssumption
    <3> QED
      BY <3>1, <3>2
  <2> QED
    BY <2>1, <2>2, <2>3
<1>2. job[p].ticker \in Tickers(p) /\ job[p].ticker # NULL /\ job[p].ticker \in KnownTickers
  BY Apart DEF ConvertedInv, ThreadSound, MarketInv, JobReady, TypeOK, Job
<1>3. /\ Instrument[p].currency \in Currencies
      /\ QuoteUnit(job[p].ticker) = Instrument[p].currency /\ QuoteUnit(job[p].ticker) # "GBp"
      /\ yf_currency(job[p].ticker) = IF Instrument[p].currency = "USD" THEN "" ELSE Instrument[p].currency
  BY <1>2, SettledUnits
<1>4. Relabelled(p) = Instrument[p].currency
  BY <1>1, <1>3 DEF Relabelled
<1>5. \A unit \in ColdUnits(p) : unit = QuoteUnit(job[p].ticker)
  BY <1>1, <1>3 DEF ColdUnits
<1> QED
  BY <1>1, <1>2, <1>3, <1>4, <1>5

LEMMA PriceConverts ==
  ASSUME Consistent, ConvertedInv, MarketInv', NEW p \in Positions, Price(p)
  PROVE  ConvertedInv'
<1> DEFINE c == Instrument[p].currency
<1>1. /\ TypeOK /\ pc[p] = "price" /\ EndThread(p) /\ shown' = shown /\ disk' = disk
      /\ _resolution_cache' = _resolution_cache
  BY DEF Price, env, file, ConvertedInv, MarketInv
<1>2. /\ work[p] \in Position /\ Sound(p, work[p])
      /\ job[p].ticker \in Tickers(p) /\ job[p].ticker \in KnownTickers
      /\ Relabelled(p) = c /\ c \in Currencies /\ c \in Units
      /\ \A unit \in ColdUnits(p) : unit = QuoteUnit(job[p].ticker)
  BY <1>1, RelabelledSame DEF Currencies, Units
<1>3. QuoteUnit(job[p].ticker) = c
  <2>1. job[p].ticker # NULL
    BY <1>1 DEF ConvertedInv, MarketInv, JobReady
  <2> QED
    BY <1>2, <2>1, SettledUnits
<1>4. Kept(_price_cache) /\ _price_cache \in [KnownTickers -> Units \cup {NULL}]
  BY <1>1 DEF ConvertedInv, TypeOK
<1>5. CASE \E unit \in ColdUnits(p) :
             /\ work' = [work EXCEPT ![p].currency = Relabelled(p), ![p].unit = unit]
             /\ _price_cache' = [_price_cache EXCEPT ![job[p].ticker] = unit]
  <2>1. /\ work' = [work EXCEPT ![p].currency = c, ![p].unit = c]
        /\ _price_cache' = [_price_cache EXCEPT ![job[p].ticker] = QuoteUnit(job[p].ticker)]
    BY <1>2, <1>3, <1>5
  <2> DEFINE w == [work[p] EXCEPT !.currency = c, !.unit = c]
  <2>2. work' = [work EXCEPT ![p] = w]
    BY <1>1, <1>2, <2>1, WorkSteps
  <2>3. Sound(p, w)
    BY <1>2, SoundSteps
  <2>4. Kept(_price_cache')
    BY <1>2, <1>4, <2>1 DEF Kept
  <2> HIDE DEF w
  <2> QED
    BY <1>1, <2>2, <2>3, <2>4, EndConverts
<1>6. CASE /\ work' = [work EXCEPT ![p].currency = Relabelled(p)]
           /\ UNCHANGED _price_cache
  <2> DEFINE w == [work[p] EXCEPT !.currency = c]
  <2>1. work' = [work EXCEPT ![p] = w]
    BY <1>1, <1>2, <1>6, WorkSteps
  <2>2. Sound(p, w)
    BY <1>2, SoundSteps
  <2>3. Kept(_price_cache')
    BY <1>4, <1>6
  <2> HIDE DEF w
  <2> QED
    BY <1>1, <2>1, <2>2, <2>3, EndConverts
<1> QED
  BY <1>5, <1>6 DEF Price

LEMMA PriceMissingConverts ==
  ASSUME MeetAlike, Consistent, ConvertedInv, MarketInv', NEW p \in Positions, PriceMissing(p)
  PROVE  ConvertedInv'
<1> DEFINE c == Instrument[p].currency
           w == [work[p] EXCEPT !.currency = c]
<1>1. /\ TypeOK /\ pc[p] = "price" /\ Evict(p) /\ shown' = shown /\ disk' = disk
      /\ _price_cache' = _price_cache
      /\ work' = [work EXCEPT ![p].currency = Relabelled(p)]
  BY DEF PriceMissing, env, file, ConvertedInv, MarketInv
<1>2. /\ work[p] \in Position /\ Sound(p, work[p])
      /\ Relabelled(p) = c /\ c \in Currencies
  BY <1>1, RelabelledSame
<1>3. work' = [work EXCEPT ![p] = w] /\ Sound(p, w)
  BY <1>1, <1>2, WorkSteps, SoundSteps
<1> HIDE DEF w
<1> QED
  BY <1>1, <1>3, EvictConverts

(* What the batch has under the name DeGiro uses is for another member.    *)
LEMMA BatchUnits ==
  ASSUME ConvertedInv, NEW p \in Positions, p \notin Namesakes, SymbolTicker(p) \in Batch(p)
  PROVE  QuoteUnit(SymbolTicker(p)) = Instrument[p].currency
<1>1. PICK e \in Enrichments : p \in Members(e) /\ SymbolTicker(p) \in job[e].history
  BY DEF Batch
<1>2. \E q \in Members(e) : SymbolTicker(p) \in Tickers(q)
  BY <1>1 DEF ConvertedInv, OwnBatch, Wanted
<1> QED
  BY <1>1, <1>2 DEF Namesakes

(* On the fast path the label comes from the suffix, or is dollars: there  *)
(* are fundamentals, and it is no other currency's listing.                *)
LEMMA WarmReadConverts ==
  ASSUME Consistent, ConvertedInv, MarketInv', NEW p \in Positions, WarmRead(p)
  PROVE  ConvertedInv'
<1> DEFINE entry == _resolution_cache[RawKey(p)]
           c == Instrument[p].currency
<1>1. /\ TypeOK /\ pc[p] = "warm" /\ shown' = shown /\ disk' = disk
      /\ _price_cache' = _price_cache /\ _resolution_cache' = _resolution_cache
      /\ EndThread(p) \/ (Goto(p, "raised") /\ UNCHANGED job)
  BY DEF WarmRead, caches, env, file, ConvertedInv, MarketInv
<1>2. /\ work[p] \in Position /\ Sound(p, work[p])
      /\ job \in [Procs -> Job] /\ work \in [Positions -> Position \cup {NULL}] /\ p \in Procs
  BY <1>1, Apart DEF ConvertedInv, ThreadSound, MarketInv, WorkReady, TypeOK
<1>3. \E w : work' = [work EXCEPT ![p] = w] /\ Sound(p, w)
  <2>1. CASE work' = work
    BY <1>2, <2>1
  <2>2. CASE work' # work
    <3>1. PICK unit, label :
            /\ entry # NULL /\ entry.ticker # NULL /\ label \in Currencies
            /\ unit \in WarmUnits(p, entry.ticker) /\ unit # NULL
            /\ work' = [work EXCEPT ![p].currency = label, ![p].unit = unit]
            /\ \/ label = yf_currency(entry.ticker)
               \/ yf_currency(entry.ticker) = "" /\ label = "EUR" /\ entry.fundamentals = NULL
               \/ yf_currency(entry.ticker) = "" /\ label = "USD"
      BY <2>2, WarmReadResult DEF ConvertedInv
    <3>2. entry.ticker \in Tickers(p) /\ entry.ticker \in KnownTickers
      BY <3>1, OwnKeys, CachedTicker DEF ConvertedInv, MarketInv, OwnTickers, Ticker_
    <3>3. c = "USD" => entry.fundamentals # NULL
      BY <1>1, <3>1 DEF ConvertedInv, ThreadSound
    <3> HIDE DEF entry
    <3>4. /\ c \in Currencies /\ QuoteUnit(entry.ticker) = c
          /\ yf_currency(entry.ticker) = IF c = "USD" THEN "" ELSE c
      BY <3>1, <3>2, SettledUnits
    <3>5. unit \in Units /\ (unit = c \/ p \in Namesakes)
      <4>1. _price_cache[entry.ticker] \in {NULL, c}
        BY <3>2, <3>4 DEF ConvertedInv, Kept
      <4>2. p \notin Namesakes => unit = c
        BY <3>1, <3>4, <4>1, BatchUnits DEF WarmUnits
      <4>3. unit \in Units
        BY <3>1, <3>4, <4>1, UnitTypes DEF WarmUnits, Currencies, Units
      <4> QED
        BY <4>2, <4>3
    <3>6. label = c
      BY <3>1, <3>3, <3>4 DEF Currencies
    <3> DEFINE w == [work[p] EXCEPT !.currency = c, !.unit = unit]
    <3>7. work' = [work EXCEPT ![p] = w] /\ Sound(p, w)
      BY <1>1, <1>2, <3>1, <3>4, <3>5, <3>6, WorkSteps, SoundSteps
    <3> HIDE DEF w
    <3> QED
      BY <3>7
  <2> QED
    BY <2>1, <2>2
<1>4. PICK w : work' = [work EXCEPT ![p] = w] /\ Sound(p, w)
  BY <1>3
<1>5. OwnTickers(disk') /\ OwnTickers(_resolution_cache') /\ Kept(_price_cache')
  BY <1>1 DEF ConvertedInv
<1>6. CASE EndThread(p)
  BY <1>1, <1>4, <1>5, <1>6, EndConverts
<1>7. CASE Goto(p, "raised") /\ UNCHANGED job
  <2>1. pc' = [pc EXCEPT ![p] = "raised"] /\ job' = [job EXCEPT ![p] = job[p]]
    BY <1>2, <1>7 DEF Goto
  <2>2. ThreadSound(p, _resolution_cache', w, "raised", job[p])
    BY <1>4 DEF ConvertedInv, ThreadSound
  <2>3. DollarsLeft(p, _resolution_cache')
    BY <1>1 DEF DollarsLeft
  <2> QED
    BY <1>1, <1>4, <1>5, <2>1, <2>2, <2>3, ThreadConverts
<1> QED
  BY <1>1, <1>6, <1>7

(* What is worth something in a sound position is converted at its rate.   *)
LEMMA ConvertedSound ==
  ASSUME NEW p \in Positions, NEW w \in Position, Sound(p, w), NEW live
  PROVE  Sound(p, Converted(w, live))
<1>1. /\ w.currency = Instrument[p].currency
      /\ p \notin Namesakes => w.unit \in {NULL, w.currency}
  BY MarketAssumption DEF Sound
<1>2. ASSUME NEW u, p \in Namesakes \/ u = NULL \/ u = w.unit
      PROVE  Sound(p, [w EXCEPT !.eur = u])
  <2> DEFINE v == [w EXCEPT !.eur = u]
  <2>1. v.currency = w.currency /\ v.unit = w.unit /\ v.eur = u
    BY DEF Position
  <2> HIDE DEF v
  <2>2. Sound(p, v)
    BY <1>1, <1>2, <2>1 DEF Sound
  <2> QED
    BY <2>2 DEF v
<1>3. \E u : /\ p \in Namesakes \/ u = NULL \/ u = w.unit
             /\ Converted(w, live) = [w EXCEPT !.eur = u]
  <2>1. CASE p \in Namesakes
    BY <2>1 DEF Converted
  <2>2. CASE w.unit = NULL
    BY <2>2 DEF Converted
  <2>3. CASE w.unit = w.currency
    BY <2>3 DEF Converted
  <2> QED
    BY <1>1, <2>1, <2>2, <2>3
<1> QED
  BY <1>2, <1>3

LEMMA IdleBatch ==
  \A e : OwnBatch(e, Idle)
  BY DEF OwnBatch, Idle

LEMMA GatheredConverts ==
  ASSUME ConvertedInv, MarketInv', NEW e \in Enrichments, ConvertToEur(e) \/ EnrichRaises(e)
  PROVE  ConvertedInv'
<1>1. /\ pc[e] = "gather" /\ disk' = disk
      /\ _price_cache' = _price_cache /\ _resolution_cache' = _resolution_cache
      /\ pc' = [q \in Procs |-> IF q = e \/ q \in Members(e) THEN "idle" ELSE pc[q]]
      /\ job' = [q \in Procs |-> IF q = e \/ q \in Members(e) THEN Idle ELSE job[q]]
      /\ work' = [p \in Positions |-> IF p \in Members(e) THEN NULL ELSE work[p]]
  BY DEF ConvertToEur, EnrichRaises, caches, env, file
<1>2. \A q \in Procs : pc'[q] = "dump" => OwnTickers(job'[q].copy)
  BY <1>1 DEF ConvertedInv
<1>3. ASSUME NEW q \in Positions
      PROVE  ThreadSound(q, _resolution_cache', work'[q], pc'[q], job'[q])
  <2>1. CASE q \in Members(e)
    <3>1. work'[q] = NULL /\ pc'[q] = "idle" /\ job'[q] = Idle
      BY <1>1, <2>1, Apart
    <3> QED
      BY <3>1 DEF ThreadSound, Sound, Idle
  <2>2. CASE q \notin Members(e)
    <3>1. work'[q] = work[q] /\ pc'[q] = pc[q] /\ job'[q] = job[q]
      BY <1>1, <2>2, Apart
    <3> QED
      BY <1>1, <3>1 DEF ConvertedInv
  <2> QED
    BY <2>1, <2>2
<1>4. \A q \in Positions : Sound(q, shown'[q])
  <2>1. CASE ConvertToEur(e)
    <3>1. PICK live :
            shown' = [p \in Positions |-> IF p \in Members(e) THEN Converted(work[p], live) ELSE shown[p]]
      BY <2>1 DEF ConvertToEur
    <3>2. \A p \in Members(e) : work[p] \in Position /\ Sound(p, work[p])
      BY <1>1, MembersKnown DEF ConvertedInv, ThreadSound, MarketInv, WorkReady
    <3> QED
      BY <3>1, <3>2, ConvertedSound DEF ConvertedInv
  <2>2. CASE EnrichRaises(e)
    BY <2>2 DEF EnrichRaises, env, ConvertedInv
  <2> QED
    BY <2>1, <2>2
<1>5. OwnTickers(disk') /\ OwnTickers(_resolution_cache') /\ Kept(_price_cache')
  BY <1>1 DEF ConvertedInv
<1>6. ASSUME NEW f \in Enrichments PROVE OwnBatch(f, job'[f])
  <2>1. job'[f] \in {Idle, job[f]}
    BY <1>1, Apart
  <2> QED
    BY <2>1, IdleBatch DEF ConvertedInv
<1> QED
  BY <1>2, <1>3, <1>4, <1>5, <1>6 DEF ConvertedInv

LEMMA EmptySound ==
  /\ OwnTickers([k \in Keys |-> NULL])
  /\ Kept([t \in KnownTickers |-> NULL])
  BY DEF OwnTickers, Kept

LEMMA ClearConverts ==
  ASSUME ConvertedInv, MarketInv', clear_symbol_cache
  PROVE  ConvertedInv'
<1>1. /\ pc' = pc /\ job' = job /\ work' = work /\ shown' = shown
      /\ _resolution_cache' = [k \in Keys |-> NULL] /\ disk' \in {disk, [k \in Keys |-> NULL]}
      /\ _price_cache' = [t \in KnownTickers |-> NULL]
  BY EmptyCaches, MarketParts DEF clear_symbol_cache, local, ConvertedInv
<1>2. OwnTickers(disk') /\ OwnTickers(_resolution_cache') /\ Kept(_price_cache')
  BY <1>1, EmptySound DEF ConvertedInv
<1>3. ASSUME NEW q \in Positions
      PROVE  ThreadSound(q, _resolution_cache', work'[q], pc'[q], job'[q])
  <2>1. _resolution_cache'[RawKey(q)] = NULL
    BY <1>1, OwnKeys
  <2> QED
    BY <1>1, <2>1 DEF ConvertedInv, ThreadSound
<1> QED
  BY <1>1, <1>2, <1>3 DEF ConvertedInv

LEMMA TimeConverts ==
  ASSUME ConvertedInv, MarketInv',
         PriceExpires \/ FxExpires \/ RateLimitEnds \/ DayPasses \/ UNCHANGED vars
  PROVE  ConvertedInv'
<1>1. /\ pc' = pc /\ job' = job /\ work' = work /\ shown' = shown
      /\ disk' = disk /\ _resolution_cache' = _resolution_cache
  BY DEF PriceExpires, FxExpires, RateLimitEnds, DayPasses, vars, caches, env, file, local
<1>2. Kept(_price_cache')
  <2>1. Kept(_price_cache) /\ _price_cache \in [KnownTickers -> Units \cup {NULL}]
    BY DEF ConvertedInv, MarketInv, TypeOK
  <2>2. CASE PriceExpires
    BY <2>1, <2>2 DEF PriceExpires, Kept
  <2>3. CASE FxExpires \/ RateLimitEnds \/ DayPasses \/ UNCHANGED vars
    BY <2>1, <2>3 DEF FxExpires, RateLimitEnds, DayPasses, vars, caches
  <2> QED
    BY <2>2, <2>3
<1>3. \A q \in Positions : ThreadSound(q, _resolution_cache', work'[q], pc'[q], job'[q])
  BY <1>1 DEF ConvertedInv
<1>4. /\ OwnTickers(disk') /\ OwnTickers(_resolution_cache')
      /\ \A q \in Procs : pc'[q] = "dump" => OwnTickers(job'[q].copy)
      /\ \A q \in Positions : Sound(q, shown'[q])
      /\ \A e \in Enrichments : OwnBatch(e, job'[e])
  BY <1>1 DEF ConvertedInv
<1> QED
  BY <1>2, <1>3, <1>4 DEF ConvertedInv

(* Nobody at work has nothing to be wrong about.                           *)
LEMMA IdleConverts ==
  ASSUME NEW p \in Positions, NEW cache
  PROVE  ThreadSound(p, cache, NULL, "idle", Idle)
  BY DEF ThreadSound, Sound, Idle

LEMMA RestartConverts ==
  ASSUME ConvertedInv, MarketInv', Restart
  PROVE  ConvertedInv'
<1>1. /\ pc' = [q \in Procs |-> "idle"] /\ job' = [q \in Procs |-> Idle]
      /\ work' = [p \in Positions |-> NULL] /\ shown' = shown /\ disk' = disk
      /\ _resolution_cache' \in {_load_symbol_cache(disk), [k \in Keys |-> NULL]}
      /\ _price_cache' = [t \in KnownTickers |-> NULL]
  BY EmptyCaches, MarketParts DEF Restart, ConvertedInv
<1>2. \A k \in Keys : _load_symbol_cache(disk)[k] = disk[k] \/ _load_symbol_cache(disk)[k] = NULL
  BY DEF _load_symbol_cache
<1>3. OwnTickers(_resolution_cache') /\ OwnTickers(disk)
  <2>1. OwnTickers(_load_symbol_cache(disk)) /\ OwnTickers(disk)
    BY <1>2, OwnKept DEF ConvertedInv
  <2> QED
    BY <1>1, <2>1, EmptySound
<1>4. Kept(_price_cache')
  BY <1>1, EmptySound
<1>5. \A q \in Positions : ThreadSound(q, _resolution_cache', work'[q], pc'[q], job'[q])
  BY <1>1, IdleConverts, Apart
<1>6. /\ \A q \in Procs : pc'[q] # "dump"
      /\ \A e \in Enrichments : OwnBatch(e, job'[e])
  BY <1>1, IdleBatch, Apart
<1> QED
  BY <1>1, <1>3, <1>4, <1>5, <1>6 DEF ConvertedInv

LEMMA InitConverts == Init => ConvertedInv
<1> SUFFICES ASSUME Init PROVE ConvertedInv
    OBVIOUS
<1>1. /\ pc = [q \in Procs |-> "idle"] /\ job = [q \in Procs |-> Idle]
      /\ work = [p \in Positions |-> NULL] /\ shown = [p \in Positions |-> NULL]
      /\ _resolution_cache = [k \in Keys |-> NULL] /\ disk = [k \in Keys |-> NULL]
      /\ _price_cache = [t \in KnownTickers |-> NULL]
  BY DEF Init
<1>2. OwnTickers(_resolution_cache) /\ OwnTickers(disk) /\ Kept(_price_cache)
  BY <1>1, EmptySound
<1>3. \A q \in Positions : ThreadSound(q, _resolution_cache, work[q], pc[q], job[q])
  BY <1>1, IdleConverts, Apart
<1>4. \A q \in Positions : Sound(q, shown[q])
  BY <1>1 DEF Sound
<1>5. /\ \A q \in Procs : pc[q] # "dump"
      /\ \A e \in Enrichments : OwnBatch(e, job[e])
  BY <1>1, IdleBatch, Apart
<1> QED
  BY <1>2, <1>3, <1>4, <1>5, InitType DEF ConvertedInv

LEMMA StepConverts ==
  ASSUME MeetAlike, Consistent
  PROVE  ConvertedInv /\ [Next]_vars => ConvertedInv'
<1> SUFFICES ASSUME ConvertedInv, [Next]_vars
             PROVE  ConvertedInv'
    OBVIOUS
<1>0. MarketInv'
  BY StepType DEF ConvertedInv
<1>1. ASSUME NEW e \in Enrichments, enrich_positions(e) PROVE ConvertedInv'
  BY <1>0, <1>1, EnrichStartConverts, ResolvingConverts, ResolveDoneConverts, DownloadConverts,
     GatheredConverts DEF enrich_positions, Resolving
<1>2. ASSUME NEW p \in Threads, enrich_position(p) PROVE ConvertedInv'
  BY <1>0, <1>2, LookupConverts, ThreadResolvingConverts, AskInfoConverts, PriceConverts,
     PriceMissingConverts, WarmReadConverts DEF enrich_position, Threads, ThreadResolving
<1>3. ASSUME NEW q \in Procs, _save_symbol_cache(q) PROVE ConvertedInv'
  BY <1>0, <1>3, SaveCopyConverts, SaveDumpConverts DEF _save_symbol_cache
<1> QED
  BY <1>0, <1>1, <1>2, <1>3, ClearConverts, TimeConverts, RestartConverts DEF Next

(* Where every ticker a position may be resolved to is a listing in the    *)
(* currency DeGiro names, told by its suffix, and positions that share a   *)
(* key of the cache are alike and not in dollars, every value in EUR that  *)
(* is shown was converted at the rate of the unit it is in: whatever the   *)
(* batch brought, whichever path, cache, file or earlier enrichment it came*)
(* from, and however often the cache was cleared and the process died.     *)
THEOREM ValuesConverted ==
  ASSUME MeetAlike, Consistent
  PROVE  Spec => []ValueConverted
<1>1. Init => ConvertedInv
  BY InitConverts
<1>2. ConvertedInv /\ [Next]_vars => ConvertedInv'
  BY StepConverts
<1>3. ConvertedInv => ValueConverted
  BY DEF ConvertedInv, Sound, ValueConverted
<1> QED
  BY <1>1, <1>2, <1>3, PTL DEF Spec
=============================================================================
