CONSTANTS
    NULL = NULL
    e1 = e1
    e2 = e2
    s1 = s1
    s2 = s2
    s3 = s3
    s4 = s4
    w1 = w1
    Held <- Portfolio
    Watched <- Watchlist
    Markets <- EveryMarket
    WatchMarkets <- EveryQuote
    Amounts <- Contributions
    Totals <- OtherTotals
    PRICE_SCALE = 6
    MIN_SPEND_PER_POS = 1500
SPECIFICATION Spec
INVARIANTS TypeOK BetterScoresHigher NeverBuyAndTrim PlanReconciles CapHeld NeverBeyondTarget
