SPECIFICATION Spec
CONSTANTS
    Block = {b1, b2, b3, b4}
    Value = {0}
    Thread = {t1, t2}
    MAXOPBLOCKS = 2
    OpBlocks = 2
    LOGSIZE = 4
    LogBlocks = 4
INVARIANT NeverExhausted
