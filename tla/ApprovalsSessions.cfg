SPECIFICATION FairSpec
CONSTANTS
    None = None
    Sessions = {s1, s2}
    Actions = {a1}
    Requests = {r1, r2}
    Agreements = {g1, g2}
    Agents = {c1}
    Operators = {o1}
    DecideWithin = 1
    RedeemWithin = 1
    StandingCap = 1
    WaitingPerSession = 1
    MaxNow = 1
INVARIANTS
PROPERTIES
    WithdrawnAgreementAnswersNothing
    StandingLockReleased
