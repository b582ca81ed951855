SPECIFICATION Spec
CONSTANTS
    t1 = t1
    t2 = t2
    Nil = Nil
SYMMETRY Symmetry
PROPERTIES
    TreeShape
CHECK_DEADLOCK FALSE
