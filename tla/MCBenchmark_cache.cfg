CONSTANTS
    NULL = NULL
    TTL = 2
    CallTimeout = 1
    MaxDate = 2
    MaxTime = 5
    MaxVersions = 3
SPECIFICATION Spec
INVARIANTS TypeOK StaleOnlyForTTL
PROPERTIES ChartStaysUp
