SPECIFICATION Spec
CONSTANTS
    Horizon = 11
    Begin = 9
    Day = 4
    ChunkDays = 1
    Limit = 2
    Slack = 2
    BackfillSpan = 11
    CatchUpSpan = 1
    BackfillFlags = {TRUE}
    MaxFaults = 0
    Request = {r1}
    MinAdvance = 1
PROPERTY CatchesUp
CHECK_DEADLOCK FALSE
