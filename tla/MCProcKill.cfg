SPECIFICATION Spec
CONSTANTS
    NPROC = 2
    CPU = {c0}
    NoCpu = NoCpu
    MaxPid = 2
    KillArgs = {0}
INVARIANT KillNamesPid
