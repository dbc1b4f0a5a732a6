----------------------------- MODULE MCAnalysis -----------------------------
(* Two ETFs and four stocks; the watchlist has another stock and one of    *)
(* those, for which the second enrichment may find nothing.  The quotes lie*)
(* on both sides of every gate, with data missing, ties, odd prices, a     *)
(* position at the cap and one without a value in EUR; two stocks may      *)
(* differ in nothing but how far below their high they are.                *)
EXTENDS Analysis, TLC

CONSTANTS e1, e2, s1, s2, s3, s4, w1

Portfolio == <<e1, e2, s1, s2, s3, s4>>
Watchlist == <<w1, s1>>

Plain == [id |-> NULL, owned |-> NULL, weight |-> 0, score |-> NULL, symbol |-> "A",
          kind |-> "STOCK", sector |-> "Tech", value |-> 2000, quantity |-> 2,
          price |-> 1000, currency |-> "EUR", rsi |-> 50, dist |-> -10, perf_30d |-> 0,
          perf_90d |-> 2, perf_1y |-> 10, perf_ytd |-> 5, pe |-> 20, pb |-> 3, last_buy |-> NULL]
Etf == [Plain EXCEPT !.kind = "ETF", !.sector = "World", !.pe = NULL, !.pb = NULL]

Found ==
    e1 :> {[Etf EXCEPT !.symbol = "E1", !.value = v, !.quantity = 3] : v \in {4000, 13003}}
    @@ e2 :> {[Etf EXCEPT !.symbol = "E2", !.value = 3001, !.quantity = 6, !.rsi = 75, !.dist = -1],
              [Etf EXCEPT !.symbol = "E2", !.value = 5900, !.quantity = 1]}
    @@ s1 :> {[Plain EXCEPT !.symbol = "S1", !.pe = 5, !.pb = 1, !.value = 500, !.rsi = h[1],
                            !.dist = h[2], !.last_buy = 20] : h \in {<<69, -4>>, <<70, -3>>}}
    @@ s2 :> {[Plain EXCEPT !.symbol = "S2", !.pe = 10, !.pb = 1, !.value = 1001, !.quantity = 3,
                            !.last_buy = 3],
              [Plain EXCEPT !.symbol = "S2", !.value = NULL, !.currency = "USD"]}
    @@ s3 :> {[Plain EXCEPT !.symbol = "S3", !.perf_1y = y, !.sector = "Health", !.value = 1400,
                            !.dist = -20, !.quantity = 6, !.pe = -5] : y \in {-60, 10}}
    @@ s4 :> {[Plain EXCEPT !.symbol = "S4", !.pe = NULL, !.rsi = NULL, !.value = 5995],
              [Plain EXCEPT !.symbol = "S4", !.pe = -5, !.perf_ytd = -90, !.dist = -30,
                            !.value = 1400]}
(* One of what may be found for each of them.                              *)
Combinations(found, ids) ==
    FoldLeft(LAMBDA fs, id : {[x \in DOMAIN f \cup {id} |-> IF x = id THEN data ELSE f[x]] :
                                 f \in fs, data \in found[id]},
             {<< >>}, ids)
EveryMarket == Combinations(Found, Portfolio)
Unowned == [Plain EXCEPT !.value = NULL, !.quantity = 0]
EveryQuote ==
    Combinations(w1 :> {[Unowned EXCEPT !.symbol = "W1", !.rsi = r, !.dist = -15] : r \in {30, 80}}
                 @@ s1 :> {[Unowned EXCEPT !.symbol = "S1", !.rsi = h[1], !.dist = h[2]] :
                              h \in {<<NULL, NULL>>, <<71, -5>>}}, Watchlist)
Contributions == {0, 70, 2000, 6000}
OtherTotals == {0, 9000, 40000}

(* Three ETFs and nobody watched: of two, half a cent is lost or won with  *)
(* every share, and of the third not one share can be afforded.            *)
Trio == <<e1, e2, s1>>
Nobody == << >>
NoQuotes == {<< >>}
Cheap == [Etf EXCEPT !.value = 1005, !.quantity = 6]
Dear == [Etf EXCEPT !.symbol = "D", !.value = 5000, !.quantity = 1]
HalfCents ==
    Combinations(e1 :> {[Cheap EXCEPT !.symbol = "E1"]} @@ e2 :> {[Cheap EXCEPT !.symbol = "E2"]}
                 @@ s1 :> {Dear}, Trio)

(* Two listings of one ETF under the same symbol, and what fills the sector*)
(* of the second.                                                          *)
SharedSymbol ==
    Combinations(e1 :> {[Etf EXCEPT !.symbol = "E", !.value = 1700]}
                 @@ e2 :> {[Etf EXCEPT !.symbol = "E", !.value = 1000, !.quantity = 1, !.sector = "Tech"]}
                 @@ s1 :> {[Dear EXCEPT !.sector = "Tech"]}, Trio)
=============================================================================
