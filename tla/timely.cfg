SPECIFICATION Spec
CONSTANTS
    m1 = m1
    m2 = m2
    s1 = s1
    s2 = s2
    Msg = {m1, m2}
    Sub = {s1}
    Exec = {e1, e2}
    Worker = {w1, w2}
    Origin <- EventThenNotification
    EventId <- DistinctIds
    LogInDb = TRUE
    Limit = 1
    LockTimeout = 2
    StuckAfter = 3
    LeastRetries = 2
    MostRetries = 2
    Factor = 1
    Base = 2
    BackoffMax = 2
    Operations = {"deleteParent"}
    MaxRun = 1
    MaxTask = 2
    MaxQueue = 1
    MaxCrashes = 1
SYMMETRY Threads
INVARIANTS
    OneTaskPerRow
    RunsExclusive
    LimitRespected
    RetryBound
PROPERTIES
    NoRedelivery
