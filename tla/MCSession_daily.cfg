SPECIFICATION FairSpec
CONSTANTS
    PortfolioReqs = {g1}
    RefreshTasks = {t1}
    DailyLoops = {d}
    ManualSaves = {}
    MaxLogins = 1
    MaxVersions = 2
    MaxDays = 0
    NULL = NULL
INVARIANT
    OperationsExclude
