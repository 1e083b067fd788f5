CONSTANTS
    Turns = {chat, command}
    Temporal = {command}
    Requests = {}
    NoHead = NoHead
    NoTurn = NoTurn
    Absent = Absent
    Torn = Torn
SPECIFICATION MemorySpec
INVARIANT TemporalIndexRebuildable
