SPECIFICATION FairSpec
CONSTANTS
    MaxIp = 2
    MaxMoves = 2
    MaxWakes = 1
    MaxLosses = 2
    Lookup = TRUE
    PromptClose = TRUE
INVARIANTS
    TypeOK
    OneClient
    StateMatches
    FdReleased
PROPERTIES
    Reconnects
CHECK_DEADLOCK FALSE
