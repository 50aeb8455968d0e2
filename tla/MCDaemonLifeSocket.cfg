SPECIFICATION Spec
CONSTANTS
    Confs <- MCPathConfs
    None = None
    MaxEdits = 1
    MaxHups = 1
    MaxStarts = 1
    MaxQueries = 0
INVARIANT ListenerFollowsConfig
CHECK_DEADLOCK FALSE
