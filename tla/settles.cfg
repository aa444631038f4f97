SPECIFICATION FairSpec
CONSTANTS
    m1 = m1
    m2 = m2
    s1 = s1
    s2 = s2
    Msg = {m1}
    Sub = {s1, s2}
    Exec = {e1}
    Worker = {w1}
    Origin <- AllNotifications
    EventId <- DistinctIds
    LogInDb = TRUE
    Limit = 1
    LockTimeout = 2
    StuckAfter = 2
    LeastRetries = 1
    MostRetries = 1
    Factor = 1
    Base = 2
    BackoffMax = 1
    Operations = {}
    MaxRun = 1
    MaxTask = 1
    MaxQueue = 1
    MaxCrashes = 1
PROPERTIES
    EveryRowSettles
