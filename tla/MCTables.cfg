SPECIFICATION TablesSpec
CONSTANTS
    Component = {"cache", "inode", "files"}
    Thread = {t1, t2}
    NoThread = Nil
    Block = {m1, m2, m3, m4}
    NoBlock = Nil
    Value = {0, 1}
    NBUF = 3
    MaxPinned = 1
    t1 = t1
    t2 = t2
    m1 = m1
    m2 = m2
    m3 = m3
    m4 = m4
    Nil = Nil
SYMMETRY Symmetry
INVARIANTS
    CacheCoherent
    RefExact
    InodesConsistent
