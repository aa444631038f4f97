SPECIFICATION FairSpec
CONSTANTS
    MaxDelta = 6
    Delay = 1
    Period = 3
    Threshold = 3
    Grace = 3
    MaxBoot = 5
    MaxRetry = 3
    MaxFaults = 3
INVARIANTS
    TypeOK
    BelievedBriefly
PROPERTIES
    OnlyStandstillTerminated
    HungReplaced
    StaysUp
