SPECIFICATION FairSpec
CONSTANTS
    Limit = 2
    MaxBars = 3
    Retries = 2
    Tolerance = 2
    Windows <- MCWindows
    Lag = 1
    Lead = 0
    LastBar = 5
    MaxFailures = 2
    MaxCrashes = 1
    None = None
    Half = Half
INVARIANTS
    TypeOK
    PagingLosesNothing
    CacheIsSound
    StaleMeansOld
PROPERTY FetchEnds
CHECK_DEADLOCK FALSE
