SPECIFICATION StreamsSpec
CONSTANTS
    Component = {"pipe", "console", "uart"}
    Writer = {w1, w2}
    Reader = {r1, r2}
    NoThread = Nil
    Byte = {0, 1}
    PIPESIZE = 2
    UINT = 4
    MaxN = 2
    w1 = w1
    w2 = w2
    r1 = r1
    r2 = r2
    h1 = h1
    Nil = Nil
SYMMETRY Symmetry
INVARIANTS
    NotStranded
    OutputInOrder
PROPERTIES
    FirstInFirstOut
    ConsoleIsEditor
