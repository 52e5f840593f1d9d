CONSTANTS
    Conns = {c1, c2}
    MaxCalls = 2
    NoConn = NoConn
    NoCb = NoCb
    TermCb = TermCb
SPECIFICATION Spec
INVARIANT
    NoUseAfterFree
CHECK_DEADLOCK FALSE
