SPECIFICATION Spec
CONSTANTS
    Ids = {s1, s2}
    Principals = {p1, p2}
    Callers = {c1, c2}
    Housekeeper = hk
    None = None
    Idle = 1
    Max = 2
    Grace = 1
    PerPrincipal = 1
    MaxNow = 2
SYMMETRY Interchangeable
INVARIANTS
    SlotsReturned
    OpenConnectionReachable
PROPERTIES
    LiveSessionEndsOnRecord
