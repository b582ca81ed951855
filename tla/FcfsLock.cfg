SPECIFICATION Spec
CHECK_DEADLOCK FALSE
CONSTANTS
    Hart = {h0, h1}
    Nobody = Nobody
    Proc = {1, 2, 3, 4}
    LowPid = 2
    MaxPid = 4
    MaxTicks = 1
INVARIANTS
    HoldsLock
