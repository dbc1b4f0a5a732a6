CONSTANTS
    NULL = NULL
    TTL = 2
    CallTimeout = 1
    MaxDate = 2
    MaxTime = 2
    MaxVersions = 2
SPECIFICATION Spec
PROPERTIES SaveInvalidates
