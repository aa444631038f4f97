SPECIFICATION Spec
CONSTANTS
    o1 = o1
    o2 = o2
    n1 = n1
    s1 = s1
    s2 = s2
    p1 = p1
    p2 = p2
    Object = {o1, o2, n1}
    Sub = {s1, s2}
    SendCE = {s1, s2}
    Publication = {p1, p2}
    Kind <- Kinds
    EventId <- SharedId
    MaxRetries = 1
    MaxRows = 2
    MaxFaults = 1
SYMMETRY Interchangeable
CHECK_DEADLOCK FALSE
INVARIANTS
    TypeOK
    AttemptsGrow
    NewestDecides
PROPERTIES
    SettledAsLogged
