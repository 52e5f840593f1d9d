\* Two scripts of either kind, two connections: the requests of both on one
\* connection, and those of one on both.
CONSTANTS
    Conns = {c1, c2}
    MaxCalls = 2
    NoConn = NoConn
    NoCb = NoCb
    TermCb = TermCb
    Jobs = {j1, j2}
    NoCall = NoCall
SPECIFICATION ClientFairSpec
INVARIANTS
    ResourceStays
    ScriptsSafe
PROPERTIES
    OwnResult
    HandlerRuns
CHECK_DEADLOCK FALSE
