----------------------------- MODULE Resolution -----------------------------
(***************************************************************************)
(* From a DeGiro position to a Yahoo ticker: the rules of                  *)
(* app/market_data.py, as functions of what Yahoo answers.                 *)
(*                                                                         *)
(* A ticker is a name and an exchange suffix.  What Yahoo knows is given   *)
(* by constants; any question may also fail, be refused (429) or find the  *)
(* ticker missing (404), so a resolution has a set of possible results.    *)
(***************************************************************************)
EXTENDS Naturals, Sequences, SequencesExt, TLC

CONSTANTS
    Instrument,  \* position -> [symbol, form, suffix, isin, country,
                 \*             exchange_id, currency, owned]
    Listed,      \* the tickers Yahoo has prices for
    IsinAtYahoo, \* listed ticker -> the ISIN Yahoo gives for it, or NULL
    Quotes,      \* ISIN -> what yf.Search finds: a sequence of [ticker, exchange]
    Canonical,   \* ISIN -> the ticker Yahoo means by the ISIN itself, or NULL
    NULL

Positions == DOMAIN Instrument
Ticker(name, suffix) == [name |-> name, suffix |-> suffix]

(* The symbol of a class share is normalised (BRK.B to BRK-B): another     *)
(* name, and another key in the cache.                                     *)
Name(p) == IF Instrument[p].form = "class" THEN <<Instrument[p].symbol, "dash">>
           ELSE <<Instrument[p].symbol>>

(* What DeGiro calls it, read as a ticker.                                 *)
SymbolTicker(p) == Ticker(<<Instrument[p].symbol>>,
                          IF Instrument[p].form = "dotted" THEN Instrument[p].suffix ELSE "")
RawKey(p) == << <<Instrument[p].symbol>>, Instrument[p].isin >>
NormKey(p) == <<Name(p), Instrument[p].isin>>

-----------------------------------------------------------------------------
EUR_EXCHANGES == {"AMS", "EAM", "PAR", "EPA", "FRA", "GER", "ETR", "EBS", "MIL", "BIT",
                  "MCE", "HEL", "OSL", "BRU", "EBR", "LIS", "ELI", "VIE"}
USD_EXCHANGES == {"NYQ", "NMS", "NGM", "PCX", "ASE", "CBT"}
GBP_EXCHANGES == {"LSE", "IOB"}

Preferred(currency) ==
    CASE currency = "USD" -> USD_EXCHANGES
      [] currency = "GBP" -> GBP_EXCHANGES
      [] OTHER -> EUR_EXCHANGES

Competing(currency) ==
    (IF currency = "EUR" THEN {} ELSE EUR_EXCHANGES)
    \cup (IF currency = "USD" THEN {} ELSE USD_EXCHANGES)
    \cup (IF currency = "GBP" THEN {} ELSE GBP_EXCHANGES)

(* The first quote on an exchange of the currency, or else the first that  *)
(* is not on an exchange of another currency; Stuttgart and Tradegate give *)
(* the ISIN for a symbol and are left out.  NULL: nothing suitable.        *)
_resolve_by_isin(isin, currency) ==
    LET quotes  == Quotes[isin]
        usable  == {k \in DOMAIN quotes : quotes[k].exchange \notin {"SG", "STU", "TDG"}}
        matched == {k \in usable : quotes[k].exchange \in Preferred(currency)}
        neutral == {k \in usable : quotes[k].exchange \notin Competing(currency)}
    IN  IF matched # {} THEN quotes[Min(matched)].ticker
        ELSE IF neutral # {} THEN quotes[Min(neutral)].ticker
        ELSE NULL

-----------------------------------------------------------------------------
_DEGIRO_EXCHANGE_TO_YF_SUFFIX ==
    "200" :> ".AS" @@ "394" :> ".PA" @@ "490" :> ".BR" @@ "314" :> ".LS"
    @@ "645" :> ".DE" @@ "72" :> ".F" @@ "2" :> ".HM" @@ "3" :> ".BE" @@ "4" :> ".DU"
    @@ "5" :> ".MU" @@ "6" :> ".SG" @@ "62" :> ".F" @@ "663" :> ".L" @@ "1" :> ".L"
    @@ "109" :> ".HE" @@ "194" :> ".ST" @@ "518" :> ".OL" @@ "735" :> ".CO"
    @@ "296" :> ".MI" @@ "750" :> ".MC" @@ "455" :> ".SW" @@ "710" :> ".PA"
    @@ [us \in {"676", "13", "14", "75", "71", "25"} |-> ""]
    @@ "130" :> ".TO" @@ "138" :> ".V" @@ "737" :> ".SI" @@ "225" :> ".T" @@ "240" :> ".HK"

(* NULL: the exchange says nothing, the ISIN has to be searched.           *)
_suffix_from_exchange_id(exchange_id, country) ==
    CASE exchange_id \notin DOMAIN _DEGIRO_EXCHANGE_TO_YF_SUFFIX -> NULL
      [] exchange_id = "663" -> CASE country \in {"US", "KY"} -> ""
                                  [] country \in {"GB", "IE", "LU"} -> ".L"
                                  [] OTHER -> NULL
      [] exchange_id = "194" -> IF country \in {"IE", "LU"} THEN NULL ELSE ".ST"
      [] OTHER -> _DEGIRO_EXCHANGE_TO_YF_SUFFIX[exchange_id]

Europe == <<".DE", ".F", ".AS", ".PA", ".L", ".MI", ".MC", ".HE", ".SW", ".TO", ".SI", "">>
First(suffixes) == suffixes \o SelectSeq(Europe, LAMBDA s : ~Contains(suffixes, s))

(* The suffixes in the order of the scan: the instrument's home first.     *)
_get_suffix_order(country) ==
    CASE country \in {"US", "CA"} -> <<"", ".TO", ".AS", ".PA", ".DE", ".L", ".MI", ".MC",
                                       ".HE", ".F", ".SW", ".SI">>
      [] country \in {"IE", "LU"} -> First(<<".DE", ".F", ".L">>)
      [] country = "GB" -> First(<<".L">>)
      [] country = "FI" -> First(<<".HE">>)
      [] country = "CH" -> First(<<".SW">>)
      [] OTHER -> First(<<".AS", ".PA", ".DE", ".L", ".MI", ".MC", ".HE", ".F">>)

-----------------------------------------------------------------------------
(* What comes of a resolution: a ticker to cache, nothing anywhere (cached *)
(* for a day), a 404 (the entry is evicted), or a refusal (nothing cached).*)
Found(ticker, method) == [method |-> method, ticker |-> ticker]
NotFound == Found(NULL, "notfound")
Gone == Found(NULL, "gone")
Refused == Found(NULL, "refused")
Next_ == Found(NULL, "next")

(* first, and where it does not settle the matter, rest.                   *)
Then(first, rest) == (first \ {Next_}) \cup (IF Next_ \in first THEN rest ELSE {})

(* The listing on the exchange DeGiro names, unless Yahoo knows it under   *)
(* another ISIN.                                                           *)
ExchangeResults(p) ==
    LET suffix == _suffix_from_exchange_id(Instrument[p].exchange_id, Instrument[p].country)
        candidate == Ticker(Name(p), suffix)
    IN  IF suffix = NULL THEN {Next_}
        ELSE IF candidate \notin Listed THEN {Gone, Next_}
        ELSE IF Instrument[p].isin # NULL
                /\ IsinAtYahoo[candidate] \notin {NULL, Instrument[p].isin} THEN {Next_}
        ELSE {Found(candidate, "found"), Next_}

(* Tradegate names US stocks by local codes: Yahoo is asked for the ISIN.  *)
TradegateResults(p) ==
    IF Instrument[p].exchange_id # "196" \/ Instrument[p].country # "US" THEN {Next_}
    ELSE IF Canonical[Instrument[p].isin] = NULL THEN {Gone, Next_}
    ELSE {Found(Canonical[Instrument[p].isin], "found"), Next_}

SearchResults(p) ==
    IF Instrument[p].isin = NULL THEN {Next_}
    ELSE LET ticker == _resolve_by_isin(Instrument[p].isin, Instrument[p].currency)
         IN  {Refused, Next_} \cup (IF ticker = NULL THEN {} ELSE {Found(ticker, "found")})

(* The first suffix with a price among those whose question does not fail; *)
(* pence listings (.L) are not asked for.                                  *)
ScanResults(p) ==
    LET suffixes == _get_suffix_order(Instrument[p].country)
        asked    == {k \in DOMAIN suffixes : suffixes[k] # ".L"}
        priced   == {k \in asked : Ticker(Name(p), suffixes[k]) \in Listed}
        firsts   == {k \in priced : \E failed \in SUBSET priced :
                        k \notin failed /\ \A j \in priced : j < k => j \in failed}
    IN  {Found(Ticker(Name(p), suffixes[k]), "found") : k \in firsts}
        \cup {NotFound, Refused}
        \cup (IF priced = asked THEN {} ELSE {Gone})

(* All of _resolve_yf_symbol after its look into the cache.                *)
Resolutions == [p \in Positions |-> [limited \in BOOLEAN |->
    Then(ExchangeResults(p),
         Then(TradegateResults(p),
              IF limited THEN {Refused} ELSE Then(SearchResults(p), ScanResults(p))))]]
=============================================================================
