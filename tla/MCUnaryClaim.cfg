SPECIFICATION Spec
CONSTANTS
    s1 = s1
    s2 = s2
    r1 = r1
    Servers = {s1, s2}
    Requests = {r1}
    Copies = {1}
    NoServer = NoServer
    NoCopy = NoCopy
    Legacy = {}
    Closable = {s1}
    ClientCloses = TRUE
    Affinities <- MCAffinities
    OptsSet <- MCBestBid
    ChannelSize = 2
    Queue = FALSE
    RequireClaim = TRUE
    Inbox = FALSE
CHECK_DEADLOCK FALSE
INVARIANTS
    OnlyChosenRuns
    SingleServer
    ClaimsNeverBlock
    GracefulCloseIsQuiet
    NothingStuck
PROPERTIES
    ImplementsAssignment
