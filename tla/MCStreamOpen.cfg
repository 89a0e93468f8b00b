SPECIFICATION Spec
CONSTANTS
    s1 = s1
    s2 = s2
    r1 = r1
    Servers = {s1, s2}
    Streams = {r1}
    NoServer = NoServer
    Closable = {s1}
CHECK_DEADLOCK FALSE
INVARIANTS
    AckedIsHeld
    CloseDrains
    NothingStuck
PROPERTIES
    ImplementsAssignment
