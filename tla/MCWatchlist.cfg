CONSTANTS
    NULL = NULL
    PARTIAL = PARTIAL
    Isins = {i1, i2}
    Requests = {r1, r2}
    Readers = {t1}
    MAX_ENTRIES = 2
    ReadFaults = FALSE
SPECIFICATION FairSpec
INVARIANTS TypeOK OneEntryPerIsin
PROPERTIES ImplementsWatchlist RequestsEnd
