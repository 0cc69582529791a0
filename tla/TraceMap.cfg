CONSTANTS
    r1 = r1
    r2 = r2
    t1 = t1
    t2 = t2
    w1 = w1
    w2 = w2
    w3 = w3
    Traces <- MCTraces
    NoRequest = NoRequest
    Absent = Absent
    Requests <- MCRequests
    TraceOf <- MCTraceOf
    Workers <- MCWorkers
    ReqOf <- MCReqOf
    Joined <- MCJoined
    Adds = 2

INIT TraceInit
NEXT TraceNext

INVARIANTS
    SpanHasJoinedData
    NoLeak
