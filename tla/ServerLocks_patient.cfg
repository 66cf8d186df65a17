SPECIFICATION FairSpec
CONSTANTS
    c1 = c1
    c2 = c2
    c3 = c3
    NoThread = NoThread
    Clients = {c1, c2}
    First = c1
    Foreground = FALSE
    Slow = {c2}
    Resizing = {}
    Requests = {"render"}
    QueueSize = 6
    Patient = TRUE
CHECK_DEADLOCK FALSE
INVARIANTS
    TypeOK
PROPERTIES
    HandlersEnd

