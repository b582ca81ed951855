SPECIFICATION SchedSpec
CONSTANTS
    Component = {"clock", "fcfs", "pbs", "mlfq", "mlfq2", "mlfq3", "syscall"}
    Hart = {h2, h3}
    NPROC = 3
    Nobody = Nil
    UINT = 65536
    NewPriority = {100}
    MaxTicks = 1
    MaxSched = 1
    MaxPush = 2
    h0 = h0
    h1 = h1
    h2 = h2
    h3 = h3
    Nil = Nil
SYMMETRY Symmetry
INVARIANTS
    SelectsLastEarlier
    SafeSelection
    RunsOnce
    TraceExact
PROPERTIES
    TimesExact
