CONSTANTS
    Turns = {chat, request, command}
    Temporal = {command}
    Requests = {request}
    NoHead = NoHead
    NoTurn = NoTurn
    Absent = Absent
    Torn = Torn
SPECIFICATION MemorySpec
INVARIANTS MemoryTypeOK ArchiveIsWhatWasShown IndexSound TemporalSourcesArchived ProfileAppliedOnce
