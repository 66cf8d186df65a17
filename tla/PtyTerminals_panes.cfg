SPECIFICATION Spec
CONSTANTS
    Layout <- OneCommand
    Commands = {"missing"}
    Splits = {TRUE}
    MaxRequests = 2
    MaxKeys = 1
    SplitRoom = 2
    FdsReused = FALSE
    Quick = FALSE
    Prompt = TRUE
    Early = FALSE
    Behind = 0
    MaxResumes = 1
CHECK_DEADLOCK FALSE
INVARIANTS
    TypeOK
    PanesFitTerminals
PROPERTIES
    OnlyHungUpStray
    InputResumes
    PanesLiveAsPromised
