CONSTANTS
    Prices <- MCPrices
    MaxSeats = 2
    MaxBids = 2
    PerIterationLoopVar = FALSE
    None = None

INIT BidsInit
NEXT BidsNext

INVARIANT BidsAreResponseBids
