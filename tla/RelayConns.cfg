SPECIFICATION FairSpec
CONSTANTS
    A = A
    B = B
    MaxData <- Chunks
INVARIANTS
    TypeOK
    NoTruncation
    NeverNull
PROPERTIES
    RelayEnds
    NoHalfStays
CHECK_DEADLOCK FALSE
