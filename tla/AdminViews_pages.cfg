SPECIFICATION ViewsSpec
CONSTANTS
    r1 = r1
    r2 = r2
    t1 = t1
    t2 = t2
    a1 = a1
    a2 = a2
    a3 = a3
    b1 = b1
    blank = blank
    relative = relative
    padded = padded
    None = None
    Slash = "/"
    Characters <- MCCharacters
    HealthPath <- MCHealthPath
    Requests <- OneRequest
    Reloaders <- MCReloaders
    Queries <- SwapQueries
    InitialConfig <- SwapInitial
    Candidates <- SwapCandidates
    Addresses <- SwapAddresses
    Resolve <- Literal
    HeaderValues <- MCNames
    MaxIterations = 1
    MaxOutages = 0
    SimulationForms <- ViewsForms
    Trimmed <- Padded
    Blank = blank
    Relative <- RelativePaths
SYMMETRY ReloaderSymmetry
INVARIANTS
    TypeOK
    ServedByBestRoute
    PoolAlwaysFound
    DashboardFits
    SimulationHolds
