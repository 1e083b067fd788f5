CONSTANTS
    Events = {e1, e2}
    Light = e1
    Workers = {w1}
    Worker = w1
    Nobody = Nobody
    NoTurn = NoTurn
    Size <- MCSize
    VerbatimFirst = FALSE
    AckMayTimeOut = TRUE
    SoftTriggerTurns = 4
    SoftTriggerChars = 7
    JobTurnLimit = 4
    JobCharLimit = 20
    RecentTurns = 6
    RecentChars = 12
    VerbatimTurns = 64
    VerbatimChars = 199
    MaxAttempts = 2

SPECIFICATION FairSystemSpec

PROPERTY
    JobsSettle
