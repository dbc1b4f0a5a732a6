SPECIFICATION Spec
CONSTANTS
    PortfolioReqs = {g1, g2}
    RefreshTasks = {t1, t2}
    DailyLoops = {}
    ManualSaves = {s1}
    MaxLogins = 2
    MaxVersions = 3
    MaxDays = 1
    NULL = NULL
SYMMETRY Symmetry
INVARIANTS
    TypeOK
    OpLockExclusive
    RefreshCommitsOntoItsBase
    TokenYieldsOnce
    PortfolioStamped
    ValuationCoversRefresh
PROPERTIES
    DiskNeverOlder
