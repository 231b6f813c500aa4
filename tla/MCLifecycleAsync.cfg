CONSTANTS
    StartRuns = 1
    SubServices = 2
    SyncRuns = 1
    StopRuns = 2
    Asyncs = {a1, a2}
    ErrorStop = {2}
    Detached = {}
    MaxServices = 1
SPECIFICATION Spec
PROPERTIES
    LoggedIsError
CHECK_DEADLOCK FALSE
