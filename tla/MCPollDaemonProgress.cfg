SPECIFICATION FairSpec
CONSTANTS
    Unmade = Unmade
    Workers = {w1, w2}
    Configs <- MCConfigs
    HighCap = 1
    LowCap = 1
    MetricCap = 1
    SigCap = 1
    MaxMetrics = 1
    MaxFailures = 0
    MaxHandles = 3
    MaxHups = 1
    MaxTerms = 0
PROPERTIES
    PollingGoesOn
