CONSTANTS
    defaultURI = defaultURI
    useastURI = useastURI
    MaxImps = 2
    Regions <- MCRegions
    Rewards <- MCRewards
    URI = defaultURI
    USEastURI = useastURI

INIT RequestsInit
NEXT RequestsNext

INVARIANTS
    RequestsTypeOK
    OneRequestPerImp
