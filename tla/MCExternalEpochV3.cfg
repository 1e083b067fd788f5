CONSTANTS
    Events = {e1, e2, e3, e4}
    Heavy = e1
    Workers = {w1, w2}
    Nobody = Nobody
    Size <- MCSize
    VerbatimFirst = FALSE
    SoftTriggerTurns = 2
    SoftTriggerChars = 4
    JobTurnLimit = 2
    JobCharLimit = 7
    RecentTurns = 3
    RecentChars = 5
    VerbatimTurns = 4
    VerbatimChars = 9
    MaxAttempts = 2

SPECIFICATION Spec

INVARIANTS
    TypeOK
    ChainIntact
    ExactlyOnce
    ProvenanceNamesParent
    RevisionsStepwise
    JobsSound
    OneOpenTurn

PROPERTIES
    HistoryPermanent
    PreflightHolds
    LedgerSpec

CHECK_DEADLOCK FALSE
