SPECIFICATION FairSpec
CONSTANTS
    A = A
    B = B
    MaxId = 1
    Creates <- A2
    MaxData = 1
    Closers <- Both
    Uses <- NoCalls
    ConnTimeout = TRUE
INVARIANTS
    RemovalsListed
PROPERTIES
    CloseEnds
CHECK_DEADLOCK FALSE
