SPECIFICATION Spec
CONSTANTS
    None = None
    c0 = c0
    c1 = c1
    c2 = c2
    Configs <- MCConfigs
    InitialConfig = c0
    MaxRevision = 3
    MaxLosses = 2
INVARIANTS
    RecordsHold
PROPERTIES
    ActiveSurvives
CHECK_DEADLOCK FALSE
