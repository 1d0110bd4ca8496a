SPECIFICATION Spec
CONSTANTS
    Horizon = 8
    Begin = 7
    Day = 2
    ChunkDays = 1
    Limit = 3
    Slack = 2
    BackfillSpan = 5
    CatchUpSpan = 1
    BackfillFlags = {TRUE, FALSE}
    MaxFaults = 2
    Request = {r1}
    MinAdvance = 1
INVARIANTS EndsStored HolesExplained
PROPERTIES SentOnce CatchesUp ServesNewest
CHECK_DEADLOCK FALSE
