SPECIFICATION Spec
CONSTANTS
    c1 = c1
    c2 = c2
    c3 = c3
    NoConn = NoConn
    Conns = {c1, c2, c3}
    Settings <- OrderlySettings
    Sizes = {1}
    Early = FALSE
    MaxInputs = 1
CHECK_DEADLOCK FALSE
INVARIANTS
    TypeOK
    RoutersOwnTheirIds
    ScreenKnowsClients
PROPERTIES
    NoStrangerRemoved
