SPECIFICATION Spec
CONSTANTS
    Ids = {p1, p2, p3, p4}
    Screens <- McScreens
    Bars = {TRUE, FALSE}
    Whole = 1600
    Step = 80
    MinSize = 5
    Ratio = 4
    MaxCloses = 1
    MaxResizes = 2
    MaxScreens = 2
    MaxOperations = 2
SYMMETRY Symmetry
CHECK_DEADLOCK FALSE
INVARIANTS
    TypeOK
    PanesTile
PROPERTIES
    ResizeObeys
