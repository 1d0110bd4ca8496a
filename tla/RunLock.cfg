SPECIFICATION FairSpec
CONSTANTS
    Instance = {i1, i2}
    Symbol = {s1}
    NoOwner = NoOwner
    LockTTL = 3
    StaleThreshold = 4
    HeartbeatTTL = 3
    HeartbeatInterval = 1
    MaxSkew = 3
    HeartbeatStarted = TRUE
INVARIANT MutexUnlessStale
INVARIANT LeaseHeld
PROPERTY DoubtOnlyTheSilent
PROPERTY CrashedLockFreed
