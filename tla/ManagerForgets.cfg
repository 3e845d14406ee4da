SPECIFICATION FairSpec
CONSTANTS
    Client = {c1}
    Addr = {a1}
    SocketAmount = 1
    MaxManagers = 1
    MaxLosses = 0
PROPERTIES
    CloseReported
CHECK_DEADLOCK FALSE
