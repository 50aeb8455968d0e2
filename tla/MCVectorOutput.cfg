SPECIFICATION Spec
CONSTANTS
    Monitors <- MCMonitors
    Readings <- MCReadings
    Expression <- MCExpression
    NaN = NaN
    Nil = Nil
    Now = Now
    MaxCycles = 3
INVARIANTS
    NoSampleLost
    OpAligned
    MeanInRange
CHECK_DEADLOCK FALSE
