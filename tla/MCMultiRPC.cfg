SPECIFICATION Spec
CONSTANTS
    s1 = s1
    s2 = s2
    s3 = s3
    s4 = s4
    r1 = r1
    Servers = {s1, s2, s3, s4}
    Requests = {r1}
    Copies = {1}
    NoServer = NoServer
    NoCopy = NoCopy
    Legacy = {}
    Closable = {}
    Affinities <- MCAffinities
    ChannelSize = 1
    Queue = FALSE
    RequireClaim = FALSE
    Inbox = FALSE
SYMMETRY MCSymmetry
CHECK_DEADLOCK FALSE
INVARIANTS
    TakenIsDelivered
    BlockedMeansFlooded
    NothingStuck
