SPECIFICATION Spec
CONSTANTS
    t1 = t1
    t2 = t2
    good = good
    better = better
    bad = bad
    None = None
    Threads <- MCOneThread
    Configs <- MCConfigs
    ValidConfigs <- MCValidConfigs
    InitialConfig = good
    MaxRevision = 2
    MaxCrashes = 2
    MaxFaults = 2
INVARIANTS
    TypeOK
    StateFileWellFormed
    FilesAgreeAtRest
    BoundedRefusals
PROPERTIES
    ErrorChangesNothing
    ImplementsRegistry
