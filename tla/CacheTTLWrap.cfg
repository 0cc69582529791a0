CONSTANTS
    k1 = k1
    k2 = k2
    k3 = k3
    v1 = v1
    v2 = v2
    Keys <- MCKeys
    Vals <- MCVals
    TTLArg = 6
    CapacityArg = 2
    DefaultTTL = 3
    DefaultCapacity = 3
    MaxInt64 <- WrapMaxInt
    MaxTime <- WrapMaxTime
    NoItem = NoItem
    None = None
INIT Init
NEXT Next
PROPERTIES
    EagerSpec
