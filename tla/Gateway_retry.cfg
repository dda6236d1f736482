SPECIFICATION FairSpec
CONSTANTS
    r1 = r1
    r2 = r2
    t1 = t1
    t2 = t2
    a1 = a1
    a2 = a2
    a3 = a3
    b1 = b1
    None = None
    Slash = "/"
    Characters <- MCCharacters
    HealthPath <- MCHealthPath
    Requests <- MCRequests
    Reloaders <- MCNone
    Queries <- AnyQuery
    InitialConfig <- PoolOfTwo
    Candidates <- MCNone
    Addresses <- MCTwoAddresses
    Resolve <- Literal
    HeaderValues <- MCNames
    MaxIterations = 4
    MaxOutages = 0
PROPERTIES
    RetriedWhileEndpointRemains
