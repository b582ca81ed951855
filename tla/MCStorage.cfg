SPECIFICATION StorageSpec
CONSTANTS
    Component = {"log", "space", "disk", "data", "shared"}
    Block = {b1, b2, b3}
    Value = {0, 1}
    Thread = {t1, t2}
    MAXOPBLOCKS = 3
    OpBlocks = 2
    LOGSIZE = 6
    LogBlocks = 6
    t1 = t1
    t2 = t2
    t3 = t3
    b1 = b1
    b2 = b2
    b3 = b3
    b4 = b4
    b5 = b5
    Nil = Nil
SYMMETRY Symmetry
INVARIANTS
    LogConsistent
    LogSpace
    DiskServes
    BlocksOwned
PROPERTIES
    AtomicAndDurable
    WritesFit
