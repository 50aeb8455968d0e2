SPECIFICATION Spec
CONSTANTS
    Unmade = Unmade
    Workers = {w1, w2}
    Configs <- MCConfigs
    HighCap = 1
    LowCap = 1
    MetricCap = 1
    SigCap = 2
    MaxMetrics = 0
    MaxFailures = 2
    MaxHandles = 3
    MaxHups = 1
    MaxTerms = 0
SYMMETRY WorkerSymmetry
INVARIANTS
    TypeOK
    OneCyclePerSensor
    PriorityFollowsFails
    ListMatchesConfig
PROPERTIES
    StableDefinition
    ReloadKeepsState
