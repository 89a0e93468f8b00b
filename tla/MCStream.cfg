SPECIFICATION Spec
CONSTANTS
    m1 = m1
    m2 = m2
    Sends <- MCSends
    Senders <- MCSenders
    ChannelSize = 1
    CallerCancels = TRUE
SYMMETRY MCSymmetry
CHECK_DEADLOCK FALSE
INVARIANTS
    NoPanic
    SentMeansReceived
    CloseWaits
    NothingStuck
