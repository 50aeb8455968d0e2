SPECIFICATION FairSpec
CONSTANTS
    m1 = m1
    m2 = m2
    m3 = m3
    None = None
    Queries <- MCQueries
    Keys = {"shared", "other"}
    KeyOf <- MCKeyOf
    DiskUsage <- MCDiskUsage
    MaxRuns = 1
INVARIANTS
    RetryFindsSession
    OneLogin
PROPERTIES
    QueryEnds
CHECK_DEADLOCK FALSE
