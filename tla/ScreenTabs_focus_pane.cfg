SPECIFICATION Spec
CONSTANTS
    Clients = {1}
    MaxIndex = 2
    Mirrored = FALSE
    Bars = TRUE
    LateRequests = FALSE
    Overlap = FALSE
    MaxHistory = 4
    MaxWaiting = 1
CONSTRAINT Bounded
CHECK_DEADLOCK FALSE

PROPERTIES
    FocusShowsItsTab
