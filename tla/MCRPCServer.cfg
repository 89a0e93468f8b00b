SPECIFICATION Spec
CONSTANTS
    g1 = g1
    g2 = g2
    k1 = k1
    k2 = k2
    Groups <- MCGroups
    Slice <- MCSlice
    StreamKeys = {k2}
    Calls = {shutdown, kill}
    ForceCalls = {kill}
    Fuses <- MCFuses
    None = None
CHECK_DEADLOCK FALSE
INVARIANTS
    EveryHandlerIsMapped
    NothingStuck
    ShutdownIsQuiet
