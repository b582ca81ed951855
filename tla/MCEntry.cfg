SPECIFICATION EntrySpec
CONSTANTS
    Component = {"locks", "trap", "copy"}
    Hart = {h2, h3}
    Proc = {p1, p2}
    Nobody = Nil
    h0 = h0
    h1 = h1
    h2 = h2
    h3 = h3
    p1 = p1
    p2 = p2
    Nil = Nil
SYMMETRY Symmetry
INVARIANTS
    LocksExclude
    CopyExact
PROPERTIES
    TrapsReturn
