SPECIFICATION ProxySpec
CONSTANTS
    Unset = Unset
    X = X
    x = x
    requestId = requestId
    requestID = requestID
    routeName = routeName
    altSvc = altSvc
    v1 = v1
    v2 = v2
    id1 = id1
    id2 = id2
    n1 = n1
    n2 = n2
    r1 = r1
    r2 = r2
    RequestId = requestId
    RouteName = routeName
    AltSvc = altSvc
    Requests <- MCRequests
    Spellings <- MCSpellings
    Lower <- MCLower
    Client <- MCClient
    Backend <- MCBackend
    Policies <- MCPolicies
    Id <- MCId
INVARIANTS ChangedAsConfigured IdsAgree
CHECK_DEADLOCK FALSE
