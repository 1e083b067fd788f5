\* One attempt a request, as Core's runtime sets it.
CONSTANTS
    Requests = {r1, r2, r3}
    Dear = r1
    DailyLimit = 3
    AttemptCost <- MCCost
    MaxAttempts = 1
    LastDay = 2

SPECIFICATION Spec

INVARIANTS
    TypeOK
    LimitHolds
    CostsHeld
    RolloverRecoverable

PROPERTIES
    BooksPermanent
