SPECIFICATION Spec
CONSTANTS
    Browser = {c1}
    ReplaySize = 3
    QueueSize = 4
    MaxNumbered = 4
    MaxEpochs = 1
PROPERTY NoReplayableGap
