CONSTANTS
    StartRuns = 1
    SubServices = 3
    SyncRuns = 1
    StopRuns = 2
    Asyncs = {a1, a2}
    ErrorStop = {2}
    Detached = {3}
    MaxServices = 3
SPECIFICATION FairSpec
INVARIANTS
    NothingAfterFatal
    LeftServing
    EveryStopFunctionRuns
PROPERTIES
    SubServicesEnd
CHECK_DEADLOCK FALSE
