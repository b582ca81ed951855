SPECIFICATION Spec
CONSTANTS
    NPROC = 3
    CPU = {c0, c1}
    NoCpu = NoCpu
    MaxPid = 3
    KillArgs = {0, 2}
SYMMETRY Symmetry
INVARIANTS
    TypeOK
    StackExclusive
    SchedLocks
    NoLostWakeup
    SleeperHasChild
    ParentAlive
    PidsUnique
PROPERTY ZombieReapedByParent
