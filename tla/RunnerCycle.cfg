SPECIFICATION FairSpec
CONSTANTS
    NumSymbols = 2
    CycleInterval = 1
    CheckInterval = 2
    MaxOverruns = 2
    CooldownCycles = 2
    WindowSize = 3
    FailureThreshold = 2
    RecoveryTimeout = 2
    HalfOpenMaxCalls = 1
INVARIANT BreakerNotWedged
PROPERTY KillSwitchHonoured
PROPERTY CyclesContinue
