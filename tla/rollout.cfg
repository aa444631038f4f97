SPECIFICATION FairSpec
CONSTANTS
    Setup = {"web-init"}
    Web = {"web-1", "web-2"}
    Starts <- Versions
    Together <- RollingVersions
    Kanalen = {"zaken"}
    Name = {"zaken", "nl.overheid.zaken", "nl.overheid"}
    Items <- ZakenAndEvents
    Key = {"bron", "zaaktype", "kenmerk"}
    Wanted <- FiltersOfEach
    KeySets <- SomeKeySets
    MaxFaults = 1
CHECK_DEADLOCK FALSE
INVARIANTS
    TypeOK
    ServesOnItsModels
    IndexRestored
    ValuesKept
    ConfiguredWhenDone
PROPERTIES
    RolledOut
