SPECIFICATION Spec
CONSTANTS
    s1 = s1
    s2 = s2
    Servers = {s1, s2}
    NoServer = NoServer
    Affinities <- MCAffinities
    OptsSet <- MCOptsSet
    MaxClaims = 3
    Escapes <- MCEscapes
    DefaultCompressionThreshold = 2
    Infos <- MCInfos
    Clients = {"CLI_a", "CLI_b"}
    Keys = {"k", "l"}
    MaxContextOps = 3
    Bodies <- MCBodies
    BusOptsSet <- MCBusOpts
    MaxSizes = {0, 3}
    RetryOptsSet <- MCRetryOpts
    Callers <- MCCallers
    ClientTimeout = 0
    DefaultClientTimeout = 3
    AffinityTimeout = 1
    MaxTries = 4
    MaxChain = 3
    MaxNextCalls = 2
CHECK_DEADLOCK FALSE
INVARIANTS
    GrantsTheBest
    HeldErrorIsReported
    ChannelsAreIsolated
    ContentArrivesWhole
    ErrorsSurvive
    HandlerIsGuarded
    RetriesAreAsConfigured
