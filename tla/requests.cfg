SPECIFICATION FairSpec
CONSTANTS
    q1 = q1
    q2 = q2
    q3 = q3
    s1 = s1
    s2 = s2
    k1 = k1
    initial = initial
    Request = {q1, q2, q3}
    Initial = initial
    Sub = {s1, s2}
    Field = {"callback_url", "auth"}
    Naam = {k1}
    Key = {"bron", "type"}
    Channels <- OneFilter
    Existing = {s1}
    Bodies <- AllMethods
    ChannelOps = {"update", "delete"}
CHECK_DEADLOCK FALSE
INVARIANTS
    TypeOK
    Untorn
    RevivedByReader
    GroupsConsistent
PROPERTIES
    OneStepPerRequest
    FailureLeavesNoTrace
    EveryRequestAnswered
