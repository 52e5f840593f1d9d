\* Three ids and a limit of three blocks: empty parts, two parts in one upload,
\* an upload after a failed one, the limit reached exactly and exceeded.
CONSTANTS
    Lengths = {0, 1, 2}
    MaxSize = 3
    MaxIds = 3
SPECIFICATION Spec
INVARIANTS
    PathsMatchBuffers
    SizeBounded
    FreedMemoryConfined
    ReplyListsUpload
PROPERTIES
    EveryUploadAnswered
CHECK_DEADLOCK FALSE
