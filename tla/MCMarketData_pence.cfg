CONSTANTS
    NULL = NULL
    etf = etf
    share = share
    lse = lse
    Instrument <- OneLondonEtf
    Listed <- AllListed
    IsinAtYahoo <- YahooIsins
    Quotes <- SearchQuotes
    Canonical <- NoIsinTickers
    OverrideOf <- NoIsinTickers
    Enrichments <- Alone
    InfoFaults = FALSE
    ClearWhileBusy = FALSE
    MaxDay = 0
    MaxBadDay = 0
SPECIFICATION Spec
INVARIANTS ValueConverted
