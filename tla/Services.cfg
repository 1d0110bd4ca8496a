SPECIFICATION Spec
\* Bounds keep every service finite: each stops when it has used them up.
CHECK_DEADLOCK FALSE
CONSTANTS
    \* SignalGate
    Symbol = {s1, s2}
    Action = {BUY, SELL}
    Hour = 3
    MaxPerHour = 2
    MaxActive = 3
    DedupWindow = 2
    \* DeliveryRouting
    Message = {n1, n2}
    Chain <- MCChain
    Messaging = {"telegram"}
    Window = 5
    PerHour = 1
    MaxAttempts = 2
    SendTime = 1
    MaxUnmarked = 1
    MaxPublished = 2
    None = None
    \* NotificationRouter
    Router = {x1, x2}
    Notice = {z1}
    Senders <- MCSenders
    Insistent = {"webhook"}
    MaxPosts = 2
    Limit = 1
    MaxRouted = 3
    MaxRouterDeaths = 1
    \* AgentOrchestration
    Strategy = {a1, a2}
    MaxPromoted = 1
    FailuresToOpen = 1
    MaxCycles = 2
    MaxAgentDeaths = 1
    \* DecisionStore
    Decision = {v1, v2}
    Job = {j1, j2}
    Conn = {c1, c2}
    MaxFeedback = 1
    MaxRuns = 3
    MaxStatementFaults = 1
    \* ModelRouter
    Call = {q1, q2}
    Fallbacks <- MCFallbacks
    Premium = {"opus"}
    Threshold = 2
    MaxCalls = 3
    \* SignalCache
    Instance = {i1, i2}
    TTL = 2
    DegradedTTL = 4
    MaxSkew = 1
    MaxStall = 1
    MaxClock = 4
    \* AgentGateway
    Connection = {w1, w2, w3}
    MaxConnections = 1
    MaxBroadcasts = 2
    MaxHeartbeats = 1
    \* Janitor
    Implementation = {m1, m2, m3}
    Elsewhere = 7
    MaxPerRun = 50
    Percentage = 10
    MaxReactivations = 1
    MaxCleanings = 2
    MaxDrifts = 2
    \* SignalStream
    Browser = {e1, e2}
    ReplaySize = 2
    QueueSize = 2
    MaxNumbered = 4
    MaxEpochs = 2
    \* CircuitBreaker
    Caller = {g1, g2, g3}
    FailureThreshold = 3
    RecoveryTimeout = 3
    HalfOpenMaxCalls = 2
INVARIANT PromotedAreWatched
INVARIANT MaintenanceSafe
INVARIANT ProbesAndChain
INVARIANT AnswersFresh
INVARIANT StreamsInOrder
INVARIANT LiveStreamComplete
INVARIANT ClosedMeansHealthy
INVARIANT NoWedge
PROPERTY GateKept
PROPERTY MessagesOnce
PROPERTY InOrderOnce
PROPERTY GapsExplained
PROPERTY CallsHalted
