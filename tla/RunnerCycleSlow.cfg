SPECIFICATION FairSpec
CONSTANTS
    NumSymbols = 1
    CycleInterval = 1
    CheckInterval = 1
    MaxOverruns = 2
    CooldownCycles = 2
    WindowSize = 3
    FailureThreshold = 2
    RecoveryTimeout = 2
    HalfOpenMaxCalls = 1
PROPERTY ContinuousGeneration
