SPECIFICATION FairSpec
CONSTANTS
    Ids = {r1}
    Sessions = {s1}
    Calls = {c1}
    Housekeeper = hk
    Shutdown = sd
    None = None
    Workers = 2
    Recorders = 1
INVARIANT UnrecordedIsRead
PROPERTIES
    ReleasedWhenCollectedOrOrphaned
    SettledIsAnnounced
    AccountingEnds
