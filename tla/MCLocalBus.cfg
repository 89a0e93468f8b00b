SPECIFICATION FairBusSpec
CONSTANTS
    s1 = s1
    s2 = s2
    p1 = p1
    Subs <- MCSubs
    KindSet <- MCKindSet
    Publishers = {p1}
    Count <- MCCount
    Size = 1
    None = None
CHECK_DEADLOCK FALSE
INVARIANT NoPanic
PROPERTIES
    DeliversAsSubscribed
    CallsReturn
