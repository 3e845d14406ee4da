SPECIFICATION Spec
CONSTANTS
    A = A
    B = B
    MaxLen <- MoreByA
    MaxClose <- Once
    EnableTimeout <- Nobody
    WaitFin = TRUE
INVARIANTS
    TypeOK
    RemovedOnce
    OneRemoval
    AckedIsHanded
    GracefulClose
    OneAnswer
    NoSpontaneousClose
PROPERTIES
    StateAdvances
