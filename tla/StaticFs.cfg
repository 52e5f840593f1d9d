\* Two mountpoints that both fit, one of them or none; up to two changes of the
\* file system, before any system call.
CONSTANTS
    MaxMounts = 2
    MaxSize = 1
    MaxChanges = 2
    Paths <- MCPaths
SPECIFICATION Spec
INVARIANTS
    AnsweredOnce
    AnswerRight
CHECK_DEADLOCK FALSE
