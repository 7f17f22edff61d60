CONSTANTS
    SyncClose = TRUE
    OnClosedCleans = FALSE
    MaxUp <- MCMaxUp
    MaxDown <- MCMaxDown
    ReadChunk = 2
    MaxDupFin = 1
    LOWER = 1
    UPPER = 2
SPECIFICATION Spec
INVARIANTS
    TypeOK
    DownstreamInOrder
    EofAfterAllData
    SendBufBounded
    NoUseAfterFree
PROPERTIES
    DownDelivered
    DownEofDelivered
    UpDelivered
    TunnelSpec
