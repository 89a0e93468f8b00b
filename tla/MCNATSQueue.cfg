SPECIFICATION Spec
CONSTANTS
    a = a
    b = b
    q = q
    p = p
    m1 = m1
    m2 = m2
    Routed = {a, b}
    Plain = {}
    QueueSubs = {a, b}
    Messages = {m1}
    ChannelSize = 1
    None = None
    LocalOf <- MCLocalOf
    Dests <- MCDests
SYMMETRY MCSymmetry
CHECK_DEADLOCK FALSE
INVARIANTS
    QueueDeliversOnce
