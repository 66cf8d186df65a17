SPECIFICATION Spec
CONSTANTS
    Clients = {1, 2}
    MaxIndex = 2
    Mirrored = FALSE
    Bars = TRUE
    LateRequests = FALSE
    Overlap = FALSE
    MaxHistory = 4
    MaxWaiting = 2
CONSTRAINT Bounded
CHECK_DEADLOCK FALSE
INVARIANTS
    OneTabPerClient
    FailsOnlyWithoutTabs
    ToggleReturns
PROPERTIES
    OneClientMoves
