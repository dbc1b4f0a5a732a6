CONSTANTS
    NULL = NULL
    Requests = {r1, r2, r3}
    Ips = {a1}
    MAX_ATTEMPTS = 2
    WINDOW_SECONDS = 4
    MaxDelay = 2
    MaxTime = 9
SYMMETRY Symmetry
SPECIFICATION Spec
INVARIANTS TypeOK AtMostMaxAttempts
PROPERTIES RefusedOnlyAtTheLimit
