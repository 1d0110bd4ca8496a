SPECIFICATION FairSpec
CONSTANTS
    Entry = {e1, e2}
    Worker = {w1}
    Id = {k1, k2}
    None = None
    MaxRetries = 2
    BaseDelay = 1
    BatchSize = 1
    DistinctIds = TRUE
    CrashPossible = FALSE
PROPERTY KeepsPromise
