CONSTANTS
    Sizes <- Small
    InitSize <- InitSmall
    Buffer = 2
    MaxPending = 2
    Sessions <- AllSessions
    MaxPrints = 3
    MaxOperations = 3
    MaxResizes = 1
    MaxScrolls = 2
SPECIFICATION Spec
CHECK_DEADLOCK FALSE
INVARIANTS
    TypeOK
    RowsAreInOrder
    OutputInOrder
PROPERTIES
    TextSurvives
    BottomReached
