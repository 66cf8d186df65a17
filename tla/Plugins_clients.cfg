SPECIFICATION SpecToFailure
CONSTANTS
    Clients = {c1, c2}
    Ids = {p, q}
    Sizes = {small, large}
    Main = Main
    MaxRequests = 4
    Disorder = {"module taken", "broken build"}
    None = None
CHECK_DEADLOCK FALSE
SYMMETRY Symmetry
INVARIANTS
    TypeOK
    ClientsHaveInstances
    InstancesAreCurrent
    LoadingEnds
PROPERTIES
    FailsByMishap
