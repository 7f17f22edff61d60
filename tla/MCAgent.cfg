CONSTANTS
    c1 = c1
    c2 = c2
    c3 = c3
    Clients <- MCClients
    StartMayFail = TRUE
SPECIFICATION Spec
INVARIANTS
    TypeOK
    JobConnConsistent
PROPERTIES
    IdleDialerReleased
    WorkerQuits
