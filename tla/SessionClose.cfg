SPECIFICATION FairSpec
CONSTANTS
    A = A
    B = B
    MaxLen <- OnceByA
    MaxClose <- Once
    EnableTimeout <- OnlyB
    WaitFin = TRUE
PROPERTIES
    CloseCompletes
    NoHalfOpen
INVARIANTS
    IdleRemovesOnce
