SPECIFICATION FairSpec
CONSTANTS
    Client = {c1, c2}
    Addr = {a1, a2}
    SocketAmount = 1
    MaxManagers = 2
    MaxLosses = 1
INVARIANTS
    TypeOK
    RouterKnows
    ReportsWhenClosed
PROPERTIES
    Reclaims
    ClientLearns
CHECK_DEADLOCK FALSE
