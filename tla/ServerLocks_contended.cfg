SPECIFICATION Spec
CONSTANTS
    c1 = c1
    c2 = c2
    c3 = c3
    NoThread = NoThread
    Clients = {c1, c2}
    First = c1
    Foreground = TRUE
    Slow = {c2}
    Resizing = {c1}
    Requests = {"unblock", "close", "switch", "render"}
    QueueSize = 1
    Patient = TRUE
CHECK_DEADLOCK FALSE
INVARIANTS
    OnlyKnownDeadlocks

