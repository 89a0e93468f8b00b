SPECIFICATION StackSpec
CONSTANTS
    Escapes <- MCEscapes
    DefaultCompressionThreshold = 2
    Infos <- MCInfos
    Clients = {"CLI_a", "CLI_b"}
    Keys = {"k", "l"}
    MaxContextOps = 3
    Bodies <- MCBodies
    BusOptsSet <- MCBusOpts
    MaxSizes = {0, 3}
    RetryOptsSet <- MCRetryOpts
    Callers <- MCCallers
    ClientTimeout = 0
    DefaultClientTimeout = 3
    AffinityTimeout = 1
    MaxTries = 4
    MaxChain = 3
    MaxNextCalls = 2
CHECK_DEADLOCK FALSE
INVARIANTS
    ErrorKeepsCode
