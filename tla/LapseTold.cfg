SPECIFICATION Spec
CONSTANTS
    None = None
    Sessions = {s1}
    Actions = {a1}
    Requests = {r1, r2}
    Agreements = {g1}
    Agents = {c1}
    Operators = {o1}
    DecideWithin = 2
    RedeemWithin = 1
    StandingCap = 2
    WaitingPerSession = 1
    MaxNow = 2
SYMMETRY Interchangeable
PROPERTIES
    LapseTold
