SPECIFICATION Spec
CONSTANTS
    s1 = s1
    s2 = s2
    a = a
    b = b
    Subs <- MCSubs
    Channels <- MCChannels
    Publishable = {a}
    Setups <- MCSetups
    Buckets = {0}
    Bucket <- MCBucket
    Size = 1
    MaxMessages = 2
    MaxFailures = 1
CHECK_DEADLOCK FALSE
INVARIANTS
    NoPanic
    SettledIsSubscribed
    InOrder
    NothingStuck
