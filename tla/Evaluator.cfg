SPECIFICATION Spec
CONSTANTS
    Operators = {"+", "-", "*"}
    MaxTokens = 7
INVARIANTS
    MeansArithmetic
    Conserved
CHECK_DEADLOCK FALSE
