SPECIFICATION EditingSpec
CONSTANTS
    None = None
    Empty = Empty
    Junk = Junk
    a = a
    b = b
    padB = padB
    u = u
    v = v
    padV = padV
    host = host
    padHost = padHost
    e = e
    padE = padE
    GET = GET
    padGET = padGET
    xId = xId
    badName = badName
    one = one
    listen = listen
    loopback = loopback
    Trimmed <- MCTrimmed
    Slash = "/"
    Characters <- MCCharacters
    SocketAddresses <- MCSocketAddresses
    Loopback <- MCLoopback
    HeaderNames <- MCHeaderNames
    HeaderValues <- MCHeaderValues
    FirstConfig <- MCFirstConfig
    NewForms <- MCNewForms
    Priorities <- MCPriorities
    Paths <- MCPaths
    Intervals <- MCIntervals
    MaxRoutes = 3
INVARIANTS RoundTrip ValidatedCanBeStaged
PROPERTIES OneChange UpdateInPlace
