SPECIFICATION Spec
CONSTANTS
    MaxMsg = 3
    Hash = {h1, h2}
    NoStrategy = NoStrategy
    BatchSize = 2
    MaxPoll = 3
    MaxFaults = 2
INVARIANTS GivenUpExplained CopiesExplained NewestScore
PROPERTY SettlesMessages
CHECK_DEADLOCK FALSE
