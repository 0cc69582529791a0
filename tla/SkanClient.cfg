CONSTANTS
    u = u
    l1 = l1
    l2 = l2
    empty = empty
    p1 = p1
    p2 = p2
    Keys <- MCKeys
    Vals <- MCVals
    Lists <- MCLists
    EmptyList = empty
    URL = u
    Procs <- MCProcs
    TTLArg = 2
    CapacityArg = 1
    DefaultTTL = 3
    DefaultCapacity = 3
    MaxInt64 <- MCMaxInt
    MaxTime <- MCMaxTime
    MaxFetches = 2
    NoItem = NoItem
    None = None

SYMMETRY Symmetry
INIT ClientInit
NEXT ClientNext

INVARIANTS
    ClientTypeOK
    OnlyServedLists
