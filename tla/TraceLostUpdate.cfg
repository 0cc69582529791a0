CONSTANTS
    r1 = r1
    r2 = r2
    t1 = t1
    t2 = t2
    w1 = w1
    w2 = w2
    w3 = w3
    Traces <- MCTraces
    NoRequest = NoRequest
    Absent = Absent
    Requests <- RaceRequests
    TraceOf <- RaceTraceOf
    Workers <- RaceWorkers
    ReqOf <- RaceReqOf
    Joined <- RaceJoined
    Adds = 1

INIT TraceInit
NEXT TraceNext

INVARIANT SpanHasJoinedData
