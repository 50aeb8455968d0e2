SPECIFICATION Spec
CONSTANTS
    Confs <- MCConfs
    None = None
    MaxEdits = 2
    MaxHups = 2
    MaxStarts = 2
    MaxQueries = 1
INVARIANTS
    ServesWhenUp
    OneConfigInForce
    ClientFinds
CHECK_DEADLOCK FALSE
