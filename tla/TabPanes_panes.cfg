SPECIFICATION Spec
CONSTANTS
    Clients = {c1, c2}
    Terminals = {t1, t2}
    Plugins = {g, h}
    TileRoom = 2
    FloatRoom = 2
    Mirrored = FALSE
    Disorder = {}
    None = None
SYMMETRY Symmetry
CHECK_DEADLOCK FALSE
INVARIANTS
    TypeOK
    NeverBroken
    OnePlace
    ClientsSeePanes
    FloatFocusIsShared
PROPERTIES
    PanesSurvive
