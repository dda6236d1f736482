SPECIFICATION Spec
CONSTANTS
    None = None
    Empty = Empty
    Junk = Junk
    a = a
    b = b
    u = u
    e = e
    one = one
    listen = listen
    loopback = loopback
    public = public
    r1 = r1
    r2 = r2
    Trimmed <- MCTrimmed
    Slash = "/"
    Characters <- MCCharacters
    SocketAddresses <- MCSocketAddresses
    Loopback <- MCLoopback
    HeaderNames = {}
    HeaderValues = {}
    Requests <- MCRequests
    Forms <- MCForms
    Configs <- MCConfigs
    InitialConfig <- Writable
    HandWritten <- MCHandWritten
    MaxRevision = 2
    MaxStarts = 2
INVARIANTS TypeOK AcknowledgedStays
PROPERTIES WritesGated FlagMatchesReload EveryFormAnswered
CHECK_DEADLOCK FALSE
