CONSTANTS
    k1 = k1
    k2 = k2
    v1 = v1
    p1 = p1
    p2 = p2
    Keys <- MCKeys
    Vals <- MCVals
    Procs <- MCProcs
    Hooks <- MCHooks
    TTLArg = 1
    CapacityArg = 1
    DefaultTTL = 3
    DefaultCapacity = 3
    MaxInt64 <- MCMaxInt
    MaxTime = 0
    MaxCalls = 1
    MaxDepth = 2
    NoItem = NoItem
    None = None
    NoProc = NoProc
SPECIFICATION LockFairSpec
PROPERTIES
    CallsReturn
CHECK_DEADLOCK FALSE
