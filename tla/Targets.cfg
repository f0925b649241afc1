SPECIFICATION TargetsSpec
CONSTANTS
    References = {f1}
    Principals = {p1}
    Readers = {r1, r2}
    Runs = {r1}
    None = None
    MaxItems = 1
    OwnerItems = 1
    TTL = 1
    MaxNow = 1
    MaxAsking = 1
    ChunkBytes = 2
    ReadAhead = 3
    MaxBytes = 3
    MaxFile = 6
    MaxEntries = 3
    MaxCharge = 9
    BaseCost = 1
    EntryCost = 2
    LetterCost = 1
    MaxNames = 4
    MaxComponents = 4
    HeaderBytes = 2
    MaxFrame = 3
    PieceBytes = 2
    BufferBytes = 3
    MaxFrames = 3
    OutputBytes = 2
    Inline = 1
    Codes = {"zero"}
    MaxOutput = 3
    Bytes = {"a", "b"}
    Shapes <- TwoShapes
    Longest = 3
    Limit = 2
    MaxStream = 6
    Plain <- PlainChars
    MaxArgs = 2
    MaxWire = 40
    Longer = 2
INVARIANTS
    StorageIsCharged
    OutcomeTellsEffect
    OutcomeTellsFile
    LookTells
    FramesAreBounded
    AnswerTells
    OutputTells
    AuthorizedCommandArrives
PROPERTIES
    OwedUntilCollected
    AnswersOnlyMoveOn
