SPECIFICATION Spec
CONSTANTS
    Limit = 6
    MaxBars = 2
    Retries = 2
    Tolerance = 2
    Windows <- MCRuntime
    Lag = 0
    Lead = 0
    LastBar = 6
    MaxFailures = 0
    MaxCrashes = 0
    None = None
    Half = Half
INVARIANT StaleMeansOld
CHECK_DEADLOCK FALSE
