SPECIFICATION RecordSpec
CONSTANTS
    Artifacts = {a1}
    None = None
    Sizes = {2, 3}
    EntriesLimit = 2
    ReadableBytes = 2
    ReadableMillis = 1
    ActiveProofs = 2
    ProofBytes = 4
    EvaluationIds = 1
    MaxIssued = 4
    MaxTime = 1
    Forms = {g1, g2}
    Nobody = Nobody
    Workers = 1
    MaxDecisions = 2
SYMMETRY Operators
INVARIANTS
    OutputIsAChain
    ChainVerifies
    AuthorityKeepsItsDecision
    ReadableAccounted
    WaitingIsAnnounced
    ResponseTells
PROPERTIES
    SteadyRowsAreTrue
