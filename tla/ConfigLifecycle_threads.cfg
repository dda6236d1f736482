SPECIFICATION FairSpec
CONSTANTS
    t1 = t1
    t2 = t2
    good = good
    better = better
    bad = bad
    None = None
    Threads <- MCThreads
    Configs <- MCConfigs
    ValidConfigs <- MCValidConfigs
    InitialConfig = good
    MaxRevision = 2
    MaxCrashes = 0
    MaxFaults = 1
INVARIANTS
    FreshNumber
PROPERTIES
    OkMeansDone
    ImplementsRegistry
    LockReleased
