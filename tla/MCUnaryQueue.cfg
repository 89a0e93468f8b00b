SPECIFICATION FairSpec
CONSTANTS
    s1 = s1
    s2 = s2
    r1 = r1
    Servers = {s1, s2}
    Requests = {r1}
    Copies = {1}
    NoServer = NoServer
    NoCopy = NoCopy
    Legacy = {s1}
    Closable = {s1, s2}
    ClientCloses = FALSE
    Affinities <- MCAffinities
    OptsSet <- MCFirstOnly
    ChannelSize = 2
    Queue = TRUE
    RequireClaim = TRUE
    Inbox = TRUE
CHECK_DEADLOCK FALSE
INVARIANTS
    ResultIsTheServers
PROPERTIES
    NothingHangs
