SPECIFICATION Spec
CONSTANTS
    MaxIp = 2
    MaxMoves = 2
    MaxWakes = 1
    MaxLosses = 2
    Lookup = TRUE
    PromptClose = FALSE
INVARIANTS
    FdReleased
CHECK_DEADLOCK FALSE
