\* Both settings of original_filename are initial states. Three names: an old
\* file, one this request writes, one it fails to write.
CONSTANTS
    Names = {n1, n2, n3}
    NoName = NoName
SPECIFICATION FileSpec
INVARIANTS
    ReplyOwned
    ListedFilesOwn
CHECK_DEADLOCK FALSE
