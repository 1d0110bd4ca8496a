SPECIFICATION Spec
\* Bounds keep every service finite: each stops when it has used them up.
CHECK_DEADLOCK FALSE
CONSTANTS
    \* PaperTrading
    HttpRequest = {r1, r2}
    Session = {p1, p2}
    NoSession = NoSession
    StartBalance = 1
    MaxTradeSize = 2
    MaxTrades = 2
    \* OrderSimulator
    MaxQuantity = 2
    InitialBalance = 4
    Slippage = 0
    MakerFee = 100
    TakerFee = 200
    MarketPrice = {1, 2}
    MaxOrders = 2
    \* CostBasis
    LotPrice = {1, 3}
    MaxSize = 2
    MaxReplayed = 4
    \* StrategyExecution
    Thread = {t1, t2}
    ClosingPrice = {95, 100, 106}
    StopLossPct = 2
    TakeProfitPct = 4
    MaxStarts = 2
    MaxCandles = 4
    \* Billing
    Handler = {h1, h2}
    Deliverer = {d1, d2}
    SignalsPerDay = 1
    MaxEvents = 4
    MaxFaults = 1
    MaxSignals = 3
    \* CommunityCounters
    Visit = {b1, b2}
    Visitor = {u1, u2}
    Score = {1, 5}
    MaxVisits = 4
    MaxAborts = 1
    \* Subscriptions
    Client = {k1}
    MaxCommands = 3
    MaxRows = 4
    MaxBotDeaths = 1
    \* CandleAggregation
    Duration = {1, 4}
    TradeTime = {0, 1, 3, 9}
    TradePrice = {1, 2}
    MaxTradesIn = 4
    \* DiscoveryJob
    MaxRequests = 2
    TopN = 2
    MaxRestarts = 2
INVARIANT BooksBalance
INVARIANT BillingKept
INVARIANT CommunityKept
INVARIANT PipelineWhole
