SPECIFICATION Spec
CONSTANTS
    Entry = {e1, e2}
    Worker = {w1, w2}
    Id = {k1, k2}
    None = None
    MaxRetries = 2
    BaseDelay = 1
    BatchSize = 2
    DistinctIds = TRUE
    CrashPossible = TRUE
SYMMETRY QueueSymmetry
INVARIANT NoDoubleProcessing
INVARIANT Tracked
PROPERTY ExponentialBackoff
