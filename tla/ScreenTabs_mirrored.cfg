SPECIFICATION Spec
CONSTANTS
    Clients = {1, 2}
    MaxIndex = 1
    Mirrored = TRUE
    Bars = FALSE
    LateRequests = FALSE
    Overlap = TRUE
    MaxHistory = 1
    MaxWaiting = 1
CONSTRAINT Bounded
CHECK_DEADLOCK FALSE
INVARIANTS
    TypeOK
    PositionsContiguous
PROPERTIES
    MirroredStep
