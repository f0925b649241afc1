SPECIFICATION Spec
CONSTANTS
    Ids = {s1}
    Principals = {p1}
    Callers = {c1}
    Housekeeper = hk
    None = None
    Idle = 1
    Max = 2
    Grace = 1
    PerPrincipal = 1
    MaxNow = 2
SYMMETRY Interchangeable
PROPERTIES
    NothingStartsAfterStop
