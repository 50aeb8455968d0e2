SPECIFICATION FairSpec
CONSTANTS
    Unmade = Unmade
    Workers = {w1, w2}
    Configs <- MCDropConfigs
    HighCap = 1
    LowCap = 1
    MetricCap = 1
    SigCap = 2
    MaxMetrics = 1
    MaxFailures = 1
    MaxHandles = 2
    MaxHups = 1
    MaxTerms = 1
INVARIANTS
    NoSendOnClosed
PROPERTIES
    ReloadFinishes
    RetiredSensorsFade
    ShutdownCompletes
