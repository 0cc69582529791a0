CONSTANTS
    Prices <- MCPrices
    MaxSeats = 2
    MaxBids = 2
    PerIterationLoopVar = TRUE
    None = None

INIT BidsInit
NEXT BidsNext

INVARIANTS
    BidsTypeOK
    BidsAreResponseBids
