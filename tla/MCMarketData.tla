---------------------------- MODULE MCMarketData ----------------------------
(* A European ETF on Xetra and a US share, and for the pence an ETF that   *)
(* DeGiro holds on the London exchange.                                    *)
EXTENDS MarketData

CONSTANTS etf, share, lse

XetraEtf == [symbol |-> "SXR8", form |-> "plain", suffix |-> "", isin |-> "IE1", country |-> "IE",
             exchange_id |-> "194", currency |-> "EUR", owned |-> TRUE]
UsShare == [symbol |-> "AAPL", form |-> "plain", suffix |-> "", isin |-> "US1", country |-> "US",
            exchange_id |-> "663", currency |-> "USD", owned |-> TRUE]
LondonEtf == [symbol |-> "VUSA", form |-> "plain", suffix |-> "", isin |-> "IE2", country |-> "IE",
              exchange_id |-> "663", currency |-> "GBP", owned |-> TRUE]

TwoInstruments == etf :> XetraEtf @@ share :> UsShare
OneLondonEtf == lse :> LondonEtf

XetraTicker == Ticker(<<"SXR8">>, ".DE")
UsTicker == Ticker(<<"AAPL">>, "")
LondonTicker == Ticker(<<"VUSA">>, ".L")

AllListed == {XetraTicker, UsTicker, LondonTicker}
YahooIsins == XetraTicker :> NULL @@ UsTicker :> "US1" @@ LondonTicker :> NULL
SearchQuotes == "IE1" :> <<[ticker |-> XetraTicker, exchange |-> "GER"]>>
                @@ "US1" :> <<[ticker |-> UsTicker, exchange |-> "NMS"]>>
                @@ "IE2" :> <<[ticker |-> LondonTicker, exchange |-> "LSE"]>>
NoIsinTickers == [i \in {"IE1", "IE2", "US1"} |-> NULL]

Together == {<<etf, share>>}
Alone == {<<lse>>}
=============================================================================
