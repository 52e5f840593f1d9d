\* Bytes of two bits and JSON integers of two bytes: integers from -8 to 7,
\* inside and outside the range of one byte; strings that leave a binary
\* item short, fill it and exceed it.
CONSTANTS
    Base = 4
    JsonBytes = 2
    BinLen = 3
    StrLens = {2, 3, 4}
    MaxItems = 2
SPECIFICATION Spec
INVARIANTS
    ArgsInPlace
    ResultRight
CHECK_DEADLOCK FALSE
