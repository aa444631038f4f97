SPECIFICATION Spec
CONSTANTS
    Admin = {a1, a2}
    Thread = {t1, t2}
    Abonnement = {s1, s2}
    Endpoint <- TwoTokens
    MaxChecks = 2
    MaxViews = 1
    MaxChanges = 1
    a1 = a1
    a2 = a2
    t1 = t1
    t2 = t2
    s1 = s1
    s2 = s2
SYMMETRY Symmetry
CHECK_DEADLOCK FALSE
INVARIANTS
    TypeOK
    ShownWasAnswered
    OneCheck
    ListAgrees
