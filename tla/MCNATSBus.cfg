SPECIFICATION Spec
CONSTANTS
    a = a
    b = b
    q = q
    p = p
    m1 = m1
    m2 = m2
    Routed = {a, b, q}
    Plain = {p}
    QueueSubs = {q}
    Messages = {m1, m2}
    ChannelSize = 1
    None = None
    LocalOf <- MCLocalOf
    Dests <- MCDests
SYMMETRY MCSymmetry
CHECK_DEADLOCK FALSE
INVARIANTS
    NoPanic
    OpenIsReachable
    EverySubscriberGetsIt
    NothingStuck
