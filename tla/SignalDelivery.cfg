SPECIFICATION Spec
CONSTANTS
    Chat = {c1}
    Hook = {h1}
    MaxSignal = 2
    MaxFaults = 2
    None = None
    FailureThreshold = 1
    RecoveryTimeout = 1
    HalfOpenMaxCalls = 1
INVARIANT Accounted
PROPERTY EveryDeliveryEnds
