SPECIFICATION Spec
CONSTANTS
    None = None
    Empty = Empty
    a = a
    b = b
    u = u
    e = e
    one = one
    listen = listen
    loopback = loopback
    Trimmed <- MCTrimmed
    Slash = "/"
    Characters <- MCCharacters
    SocketAddresses = {loopback}
    Loopback = {loopback}
    HeaderNames = {}
    HeaderValues = {}
    Configs <- MCConfigs
    InitialConfig <- MCInitialConfig
    MaxRevision = 3
INVARIANTS ReferencesListed ListedCompare DiffStaysTrue
