SPECIFICATION Spec
CONSTANTS
    a = a
    b = b
    c = c
    d = d
    g1 = g1
    g2 = g2
    NoGroup = NoGroup
    Nil = Nil
    Monitors <- MCGroups
    Limit = 2
    MaxCycles = 1
INVARIANTS
    OpOwnGroup
CHECK_DEADLOCK FALSE
