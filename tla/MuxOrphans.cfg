SPECIFICATION Spec
CONSTANTS
    A = A
    B = B
    MaxId = 100
    Creates <- A1
    MaxData = 1
    Closers <- OnlyA
    Uses <- StopsByA
    ConnTimeout = TRUE
INVARIANTS
    NoOrphans
CHECK_DEADLOCK FALSE
