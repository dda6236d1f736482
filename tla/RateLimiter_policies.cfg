SPECIFICATION Spec
CONSTANTS
    q1 = q1
    q2 = q2
    q3 = q3
    api = api
    None = None
    Requests <- MCRequests
    Routes <- MCRoutes
    Limits <- MCLimits
    MaxRequests = 2
    MinWindow = 2
    MaxClock = 5
INVARIANTS
    AdmissionBound
PROPERTIES
    RefusalJustified
SYMMETRY RequestSymmetry
