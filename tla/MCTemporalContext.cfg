CONSTANTS
    Slots = {s1}
    Texts = {x, y}
    Life = 3
    Ttl = 1
    MaxPending = 2
    Offsets = {0, 1}
    MaxSamples = 6
    MaxNow = 2
    MaxWork = 3
    None = None
SPECIFICATION Spec
INVARIANTS TypeOK LifecycleExplainsFacts AppliedOnce TimeSound
CHECK_DEADLOCK FALSE
