SPECIFICATION FairSpec
CONSTANTS
    FailureLimit = 10
    Tolerance = 3
    Burst = 5
    MaxFaults = 6
    None = None
INVARIANTS
    TypeOK
PROPERTIES
    HangIsTold
    ComesBack
CHECK_DEADLOCK FALSE
