\* Three invocations: one that serves, one that was started at the same time
\* and fails, one that comes later.
CONSTANTS
    Runs = {r1, r2, r3}
    NoPid = NoPid
SPECIFICATION Spec
INVARIANTS
    OneDaemonUnlessRobbed
    VerdictFinal
    PidFileExplained
CHECK_DEADLOCK FALSE
