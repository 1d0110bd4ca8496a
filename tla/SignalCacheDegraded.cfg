SPECIFICATION Spec
\* The clock stops at its bound.
CHECK_DEADLOCK FALSE
CONSTANTS
    Instance = {i1}
    TTL = 2
    DegradedTTL = 4
    MaxSkew = 0
    MaxStall = 1
    MaxClock = 6
INVARIANT DegradedOutlasts
