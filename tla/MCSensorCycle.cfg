SPECIFICATION FairSpec
CONSTANTS
    a = a
    b = b
    c = c
    d = d
    g1 = g1
    g2 = g2
    NoGroup = NoGroup
    Nil = Nil
    Monitors <- MCMonitors
    Limit = 2
    MaxCycles = 2
INVARIANTS
    TypeOK
    PublishedInOrder
    ZeroAccountedFor
    OldOnlyIfMissing
PROPERTIES
    FailureIsSeen
    OnlyFailuresCount
    CycleEnds
CHECK_DEADLOCK FALSE
