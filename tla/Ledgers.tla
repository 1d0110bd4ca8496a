-------------------------------- MODULE Ledgers --------------------------------
(***************************************************************************)
(* Services of TradeStream that keep records which have to add up: money,  *)
(* lots and positions, quotas, counts beside rows, subscriptions, candles  *)
(* and answered requests.  Like those of Services they share no state, and *)
(* a behaviour is a behaviour of one of them, which its initial state      *)
(* picks; the others rest in an initial state of theirs.                   *)
(*                                                                         *)
(* Constants and variables bear the names they have in the instanced       *)
(* modules, which say what they mean.                                      *)
(***************************************************************************)
EXTENDS Integers, Sequences

CONSTANTS
    HttpRequest, Session, NoSession, StartBalance, MaxTradeSize, MaxTrades,
    MaxQuantity, InitialBalance, Slippage, MakerFee, TakerFee, MarketPrice, MaxOrders,
    LotPrice, MaxSize, MaxReplayed,
    Thread, ClosingPrice, StopLossPct, TakeProfitPct, MaxStarts, MaxCandles,
    Handler, Deliverer, SignalsPerDay, MaxEvents, MaxFaults, MaxSignals,
    Visit, Visitor, Score, MaxVisits, MaxAborts,
    Client, MaxCommands, MaxRows, MaxBotDeaths,
    Duration, TradeTime, TradePrice, MaxTradesIn,
    MaxRequests, TopN, MaxRestarts

ASSUME LedgerConstants ==
    /\ {MaxQuantity, MaxTradeSize, MaxSize, TopN} \subseteq Nat \ {0}
    /\ {StartBalance, InitialBalance, Slippage, MakerFee, TakerFee, TakeProfitPct, SignalsPerDay,
        MaxRequests} \subseteq Nat
    /\ StopLossPct \in 0..100
    /\ Duration # {} /\ Duration \subseteq Nat \ {0}
    /\ Score \cup TradeTime \cup TradePrice \subseteq Nat
    /\ LotPrice \subseteq Nat /\ MarketPrice \cup ClosingPrice \subseteq Nat \ {0}
    /\ NoSession \notin Session

VARIABLES
    running,    \* the service that runs
    session, balance, owner, trade, portfolio, at, order, seen,
    book, cash, held,
    method, lots, left, unit, realized, flow, replayed,
    context, starting, buffer, feeding, fed, follower,
    events, answered, customer, sub, recorded, call, faults, writer, wrote, missed, outdated,
    gate, usage,
    likes, likeCount, nextLike, subscribers, subscriberCount, ratings, average, visit, visits,
    aborts, bent,
    commands, confirmed, offset, batch, checked, activeRows, nextRow, client, touched, botDeaths,
    making, stored, latest, tradesIn, orderly,
    requestEnd, reading, checkpoint, sending, yields, sentTo, unread, restarts

paperVars == <<session, balance, owner, trade, portfolio, at, order, seen>>
simulatorVars == <<book, cash, held>>
basisVars == <<method, lots, left, unit, realized, flow, replayed>>
executionVars == <<context, starting, buffer, feeding, fed, follower>>
billVars == <<events, answered, customer, sub, recorded, call, faults, writer, wrote, missed,
              outdated, gate, usage>>
communityVars == <<likes, likeCount, nextLike, subscribers, subscriberCount, ratings, average,
                   visit, visits, aborts, bent>>
chatVars == <<commands, confirmed, offset, batch, checked, activeRows, nextRow, client, touched,
              botDeaths>>
candleVars == <<making, stored, latest, tradesIn, orderly>>
discoveryVars == <<requestEnd, reading, checkpoint, sending, yields, sentTo, unread, restarts>>
vars == <<running, paperVars, simulatorVars, basisVars, executionVars, billVars, communityVars,
          chatVars, candleVars, discoveryVars>>

Paper == INSTANCE PaperTrading
Simulator == INSTANCE OrderSimulator
Basis == INSTANCE CostBasis
Execution == INSTANCE StrategyExecution
Bills == INSTANCE Billing
Community == INSTANCE CommunityCounters
Chat == INSTANCE Subscriptions
Candles == INSTANCE CandleAggregation
Discovery == INSTANCE DiscoveryJob

Service == {"paper", "simulator", "basis", "execution", "bills", "community", "chat",
            "candles", "discovery"}

\* What a service that does not run may begin with makes no difference.
Init ==
    /\ running \in Service
    /\ Paper!Init
    /\ Simulator!Init
    /\ Basis!Init /\ (running # "basis" => method = "fifo")
    /\ Execution!Init
    /\ Bills!Init
    /\ Community!Init
    /\ Chat!Init
    /\ Candles!Init
    /\ Discovery!Init

\* The others rest.
Only(service) ==
    /\ running = service
    /\ UNCHANGED running
    /\ service # "paper" => UNCHANGED paperVars
    /\ service # "simulator" => UNCHANGED simulatorVars
    /\ service # "basis" => UNCHANGED basisVars
    /\ service # "execution" => UNCHANGED executionVars
    /\ service # "bills" => UNCHANGED billVars
    /\ service # "community" => UNCHANGED communityVars
    /\ service # "chat" => UNCHANGED chatVars
    /\ service # "candles" => UNCHANGED candleVars
    /\ service # "discovery" => UNCHANGED discoveryVars

Next ==
    \/ Only("paper") /\ Paper!Next
    \/ Only("simulator") /\ Simulator!Next
    \/ Only("basis") /\ Basis!Next
    \/ Only("execution") /\ Execution!Next
    \/ Only("bills") /\ Bills!Next
    \/ Only("community") /\ Community!Next
    \/ Only("chat") /\ Chat!Next
    \/ Only("candles") /\ Candles!Next
    \/ Only("discovery") /\ Discovery!Next

Spec == Init /\ [][Next]_vars

----------------------------------------------------------------------------
(* Properties *)
(* Each is about a service that runs; one that rests is in an initial state. *)

Runs(service) == running = service

\* Overlapping trades are all in the session's balance, which they overdraw by
\* no more than all but one of them cost; simulated cash and position are what
\* the fills come to and never below zero; realized profit is cash flow plus open
\* cost, whatever the method, and first in is first out; a follower of the signals
\* owns what the contexts report, and no position outlives its limits
\* (paper_trading/postgres_client.py, order_simulator/simulator.py,
\* pnl_engine/pnl_engine.py, strategy_execution_engine/engine.py).
BooksBalance ==
    /\ Runs("paper") => Paper!BalanceMatchesTrades /\ Paper!OverdraftBounded
    /\ Runs("simulator") => Simulator!FillsAccountForAll /\ Simulator!NeverOverdrawn
    /\ Runs("basis") => Basis!ProfitIsCashFlow /\ Basis!OldestFirst
    /\ Runs("execution") => Execution!FollowerBooks /\ Execution!LimitsHeld

\* Through repeated and failing webhook calls the subscription has the status of
\* the event that was handled last, which may be older than another but was not
\* settled when the newer one wrote; an event that is recorded wrote the
\* subscription, but for those handled before the creation was recorded; the free
\* quota is overrun by overlapping deliveries only (billing/app.py, gating.py).
BillingKept ==
    Runs("bills") =>
        Bills!StatusFollowsStripe /\ Bills!AnsweredIsKept /\ Bills!QuotaOverrunBounded

\* Counts kept beside rows agree with them at rest, and a chat's subscription is
\* what it commanded last, however its bot dies and callers race
\* (social_feed/app.py, strategy_marketplace_api/app.py, telegram_bot/bot.py,
\* signal_api/app.py).
CommunityKept ==
    /\ Runs("community") => Community!CountsMatchRows
    /\ Runs("chat") => Chat!LastCommandWins /\ Chat!DuplicatesBounded

\* No trade is lost or counted twice and the timeframes agree; every request the
\* discovery job passed is answered in full, and evolved again only after a
\* failure (marketdata/CandleAggregator.java, discovery/).
PipelineWhole ==
    /\ Runs("candles") => Candles!VolumeKept /\ Candles!Contiguous /\ Candles!TimeframesAgree
    /\ Runs("discovery") => Discovery!PassedIsAnswered /\ Discovery!EvolvedOncePerRun
=============================================================================
