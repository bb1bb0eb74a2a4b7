CONSTANTS
    c1 = c1
    c2 = c2
    k1 = k1
    k2 = k2
    Clients = {c1, c2}
    Keys = {k1, k2}
    Requests <- LifecycleRequests
    PageSize = 1
    BatchSize = 2
    MaxCalls = 3
    MaxFaults = 1
    MaxDims = 8
SPECIFICATION FairSpec
CHECK_DEADLOCK FALSE
INVARIANTS OverwriteNeverLosesIndex
PROPERTIES DestroysOnlyWhenAsked ClearReturns
