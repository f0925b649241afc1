SPECIFICATION ServiceSpec
CONSTANTS
    Absent = Absent
    Kinds = {"page", "transcript", "activity"}
    PageSize = 2
    LookBack = 1
    Epoch = 2
    MaxLines = 4
    MaxClock = 3
    Keys = {k1, k2}
    Requests = {q1, q2, q3}
    Lifetime = 2
    Cooldown = 1
    FetchWithin = 1
    InFlight = 2
    PollsInFlight = 1
    LastInstant = 3
    Together = 2
    DrainWithin = 2
    StopWithin = 2
    MaxUnsettled = 2
SYMMETRY Interchangeable
INVARIANTS
    EveryLineOnce
    JourneysTold
    AnswersAreRecent
    FetchesAreSpaced
    PollsLeaveRoom
    ServesKeptApart
    RefusalsCanBeCured
    DialTells
    ExitTells
