SPECIFICATION Spec
CONSTANTS
    Wrap32 = 3
    Wrap64 = 5
    Multiplier = 2
    MaxRate = 5
    MaxTotal = 6
    MaxTime = 4
    MaxEpochs = 2
INVARIANTS
    RateIsIncrease
    ResetBounded
PROPERTIES
    CountsAgain
CHECK_DEADLOCK FALSE
