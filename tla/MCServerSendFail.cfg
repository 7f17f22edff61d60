SPECIFICATION Spec
CONSTANTS
    s1 = s1
    s2 = s2
    Sessions <- MCSessions
    N = 2
    MaxSends = 5
    SyncSendFail = TRUE
INVARIANT PoolAccounting
