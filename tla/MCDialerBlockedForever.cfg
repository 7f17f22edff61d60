CONSTANTS
    c1 = c1
    c2 = c2
    Conns <- MCConns
    N = 2
    MaxPending = 2
    MaxSends = 6
    SyncSendFail = FALSE
SPECIFICATION Spec
PROPERTY
    WriterEventuallyWoken
