SPECIFICATION Spec
CONSTANTS
    A = A
    B = B
    MaxId = 100
    Creates <- A1B1
    MaxData = 1
    Closers <- None
    Uses <- MoreByA
    ConnTimeout = FALSE
INVARIANTS
    TypeOK
    StreamIntegrity
    QuietAfterStop
    ClosePropagates
CHECK_DEADLOCK FALSE
