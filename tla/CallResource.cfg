\* Two connections and two calls are enough for a second reader, a second
\* call on a kept-alive connection and a client that leaves. No symmetry: it is
\* unsound for liveness.
CONSTANTS
    Conns = {c1, c2}
    MaxCalls = 2
    NoConn = NoConn
    NoCb = NoCb
    TermCb = TermCb
SPECIFICATION FairSpec
INVARIANTS
    TypeOK
    PathsMatchCalls
    InflightAlive
    SoleReaderSafe
    SyncWaiters
PROPERTIES
    ImplementsRemoteCall
    ResultNotLost
    SyncCallAnswered
    TerminateEnds
CHECK_DEADLOCK FALSE
