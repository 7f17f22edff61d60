CONSTANTS
    UsePP = TRUE
    SyncClose = TRUE
    MaxUp <- MCMaxUp
    MaxDown <- MCMaxDown
    ReadChunk = 2
    MaxDupFin = 1
    LOWER = 1
    UPPER = 2
SPECIFICATION Spec
INVARIANTS
    TypeOK
    DownstreamInOrder
    EofAfterAllData
    ProxyHeaderFirst
    SendBufBounded
    NoUseAfterClean
    NoSelfInflictedTeardown
PROPERTIES
    TunnelSpec
    DownDelivered
    DownEofDelivered
    UpDelivered
