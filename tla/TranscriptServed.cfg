SPECIFICATION HistorySpec
CONSTANTS
    Absent = Absent
    Kinds = {"transcript"}
    PageSize = 1
    LookBack = 1
    Epoch = 2
    MaxLines = 6
    MaxClock = 2
INVARIANTS
    TranscriptServed
