CONSTANTS
    NULL = NULL
    etf = etf
    share = share
    lse = lse
    Instrument <- TwoInstruments
    Listed <- AllListed
    IsinAtYahoo <- YahooIsins
    Quotes <- SearchQuotes
    Canonical <- NoIsinTickers
    OverrideOf <- NoIsinTickers
    Enrichments <- Together
    InfoFaults = TRUE
    ClearWhileBusy = FALSE
    MaxDay = 1
    MaxBadDay = 0
SPECIFICATION Spec
INVARIANTS TypeOK ValueConverted DiskMatches
