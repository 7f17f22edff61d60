CONSTANTS
    SyncClose = TRUE
    OnClosedCleans = TRUE
    MaxUp <- MCMaxUp
    MaxDown <- MCMaxDown
    ReadChunk = 2
    MaxDupFin = 1
    LOWER = 1
    UPPER = 2
SPECIFICATION Spec
INVARIANT
    NoUseAfterFree
