CONSTANTS
    Turns = {t1, t2, t3}
    NoHead = NoHead
SPECIFICATION Spec
INVARIANTS TypeOK ArchiveSound
PROPERTY ImplementsLog
CHECK_DEADLOCK FALSE
