SPECIFICATION Spec
CONSTANTS
    NWorkers = 2
    MaxCrashes = 0
    SpawnMayFail = FALSE
    IpLiterals <- MCIpLiterals
    AddrTexts <- MCGoodAddrTexts
PROPERTY StopTerminates
CHECK_DEADLOCK FALSE
