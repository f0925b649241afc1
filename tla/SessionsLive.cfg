SPECIFICATION FairSpec
CONSTANTS
    Ids = {s1}
    Principals = {p1}
    Callers = {c1, c2}
    Housekeeper = hk
    None = None
    Idle = 1
    Max = 1
    Grace = 1
    PerPrincipal = 1
    MaxNow = 1
PROPERTIES
    EndedSessionsDisconnected
