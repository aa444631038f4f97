SPECIFICATION Spec
CONSTANTS
    p1 = p1
    p2 = p2
    s1 = s1
    s2 = s2
    n1 = n1
    e1 = e1
    e2 = e2
    Publication = {p1, p2}
    Message = {n1, e1, e2}
    Sub = {s1, s2}
    Naam = {"zaken"}
    Topic = {"zaken", "zaak.created", "zaak", "created"}
    Key = {"zaak_type", "zaakType"}
    Value = {"1", "2"}
    Camel <- TwoSpellings
    Covers <- EventTopics
    Content <- Contents
    LogInDb = TRUE
    Channels <- ChannelFilters
    KeySets <- SomeKeySets
    FilterSets <- SomeFilters
    Operations = {"resend", "subscribe", "replace", "unsubscribe", "switch", "channel", "dropChannel", "purge", "crash"}
    MaxEdits = 2
SYMMETRY Interchangeable
CHECK_DEADLOCK FALSE
INVARIANTS
    TypeOK
    NoneMissed
    OneRowPerSub
    AllOrNothing
