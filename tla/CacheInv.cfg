CONSTANTS
    k1 = k1
    k2 = k2
    k3 = k3
    v1 = v1
    v2 = v2
    Keys <- MCKeys
    Vals <- MCVals
    TTLArg = 2
    CapacityArg = 2
    DefaultTTL = 3
    DefaultCapacity = 3
    MaxInt64 <- MCMaxInt
    MaxTime <- MCMaxTime
    NoItem = NoItem
    None = None
INIT Init
NEXT Next
INVARIANTS
    TypeOK
    CapacityBound
PROPERTIES
    EagerSpec
