SPECIFICATION Spec
CONSTANTS
    m1 = m1
    m2 = m2
    s1 = s1
    s2 = s2
    Msg = {m1}
    Sub = {s1}
    Exec = {e1}
    Worker = {w1, w2}
    Origin <- AllNotifications
    EventId <- DistinctIds
    LogInDb = TRUE
    Limit = 1
    LockTimeout = 1
    StuckAfter = 1
    LeastRetries = 0
    MostRetries = 1
    Factor = 1
    Base = 2
    BackoffMax = 1
    Operations <- AnyOperation
    MaxRun = 0
    MaxTask = 9
    MaxQueue = 1
    MaxCrashes = 1
SYMMETRY Threads
INVARIANTS
    TypeOK
    HistoryAgrees
PROPERTIES
    NoSilentLoss
    ContractSpec
