# TLA+ models of TradeStream

TradeStream is a trading platform: Python services around Kafka, Postgres, Redis
and InfluxDB, a Java/Kotlin pipeline on Beam and Flink, and LLM-driven agents
that talk to MCP servers.  This directory models the parts whose correctness
depends on the order of events: what several processes, threads, coroutines,
timers and lossy calls do to shared state.  Paths are relative to `src/services/`
unless they say otherwise.

Contents: [the system](#the-system), [modules](#modules),
[refinements](#what-implements-what), [runs](#what-the-runs-check),
[bounds](#bounds), [fairness](#fairness), [proofs](#proofs),
[disagreements](#where-code-and-words-disagree), [not modelled](#not-modelled),
[plan](#plan).

To check: `tlc -workers 2 -config X.cfg M.tla` for a run, `tlapm M.tla` for a
module of proofs.  `PROJECT.json` lists every run, mutant, theorem, hazard and
the source lines each definition stands for.

## The system

### Signal pipeline (`autonomous_runner/`)

A process (`runner.py`) loops: gate checks, then `SignalCoordinator.
process_all_symbols`, then a pause.  For each symbol the coordinator takes a
lock in Redis, asks MCP servers for strategies, context and patterns (through a
two-tier cache), fuses them, checks risk and duplicates, emits the signal through
the signal MCP server, stores the decision and hands the signal to an event bus
that the dashboard (a FastAPI thread in the same process) streams to browsers.

| component | state | operations | meets others through | what makes it correct |
|---|---|---|---|---|
| `run_lock.py` | a lock key with TTL per symbol, a heartbeat key with TTL per instance, a thread and a timer | acquire, release, heartbeat loop, check_and_recover | Redis | one instance per symbol; only dead owners are dispossessed; the lock of a dead owner goes away |
| `runner.py` | cooldown, consecutive overruns | `_run_cycle` | kill switch, breaker, scheduler | stops when told to, does not stop otherwise |
| `kill_switch.py` | a Redis key; a cached answer and its time | is_active, activate, deactivate | dashboard thread, other services | honoured within the check interval, survives races on the cache |
| `adaptive_scheduler.py` | sorted latency samples | record_latency, get_state | coordinator | reacts to load and recovers from it |
| `shared/circuit_breaker.py` | state, failure count, last failure, half-open calls | allow_request, record_success, record_failure, state, reset | runner, dashboard, delivery threads | halts calls to a failing service, temporarily |
| `coordinator.py`, `risk_manager.py` | emission times, signal history, count of active signals | check_signal, `_emit_signal`, record_signal_emitted, record_signal_closed | signal service | limits hold at the receiving end, although the count of active signals never comes down |
| `signal_cache.py`, `shared/mcp_client.py` | an entry per key in memory and in Redis | get, put, get_degraded | other instances through Redis | what is fused is fresh |
| `signal_event_bus.py`, `dashboard.py` | event counter, replay buffer, subscribers, a queue per connection | publish, subscribe, unsubscribe, stream | runner thread and event loop | each browser sees every event once, in order, or for a known reason not |
| `db_persistence.py`, `decision_feedback.py`, `retention_job.py` | decisions, feedback, pooled connections | insert, submit, one job of several statements | Postgres, the pool | a decision and its feedback live and go together |
| `outcome_tracker.py`, `signal_publisher.py`, `batch_processor.py`, `signal_fusion.py`, `decision_models.py` | - | see [not modelled](#not-modelled) | coordinator | - |

### Delivery

| component | state | operations | what makes it correct |
|---|---|---|---|
| `signal_api/delivery.py` | pub/sub listener, a breaker | deliver_signal: a fan-out over Telegram chats and webhooks, retries, dead letter queue | every delivery is made, or counted as failed and queued, not both |
| `shared/dead_letter_queue.py` | a list of waiting entries, a hash of entries in process | enqueue, dequeue_batch, ack, nack | no entry lost, tried twice at once or for ever |
| `delivery/` | Redis marks, hourly counters, receipts | route: preferences, deduplication, rate limit, quiet hours, retries | a user gets a signal once, and not too many |
| `notification_service/` | Redis claims, success marks, rate entries | route over one, all or a chain of channels | once per channel; a chain ends with a success |
| `telegram_bot/`, `signal_api/app.py` | subscription rows, Telegram's offset | /subscribe, /unsubscribe, the same by HTTP | the last command wins |
| `agent_gateway/` | sessions, connection counts, generators | SSE streams, cleanup | growing numbers, a bounded number of streams |

### Candles, strategies and agents

| component | state | operations | what makes it correct |
|---|---|---|---|
| `candle_ingestor/` | candles and last-processed times in InfluxDB, two separate writes | backfill, catch-up | no unexplained hole, progress |
| `strategy_discovery_request_factory/` | the end time served | run | no window before its candles, none twice |
| `marketdata/` (Java) | a candle in the making per key and timeframe | add a trade, flush | no trade lost, timeframes agree |
| `discovery/` (Kotlin) | Flink checkpoints | read requests, evolve, write strategies | each request answered in full |
| `strategy_consumer/` | Kafka offsets, tables of strategies and implementations | poll, batch, commit | no message lost silently, newest score wins |
| `agent_orchestration/` | candidates and histories in memory and in a file | discovery, validation, promotion, monitoring | what is promoted is watched |
| `janitor_agent/` | implementations and specifications | retirement cycle, clean-up | something better remains, batches bounded |
| `strategy_execution_engine/` | contexts with positions and candle buffers | start, stop, on_candle | followers' books agree, limits hold |
| `model_router/` | a breaker per model | call_with_fallback | one probe per half-open model, the whole chain tried |

### Money and community

`paper_trading/` (sessions, trades, portfolio rows), `order_simulator/` (orders,
cash, position), `pnl_engine/` (lots and realized profit), `billing/` (Stripe's
webhooks and the delivery quota), `social_feed/`, `strategy_marketplace_api/` and
`marketplace_api/` (counts beside rows).  Correct means that books balance and
counts agree, however requests overlap.

### Everything else

About twenty stateless APIs over Postgres, MCP servers (query adapters), numeric
code, a web UI and deployment files.  `PROJECT.json` lists them all with what is
known of them.

### What is hard to test in it

The full list with lines is under "hazards" in `PROJECT.json`.  The themes:

* a check and the act that depends on it are separate Redis commands
  (`run_lock.py`, `dead_letter_queue.py`, `deduplicator.py`), separate statements
  (`gating.py`, `strategy_marketplace_api/app.py`, `retention_job.py`) or have an
  await or a yield between them (`paper_trading/engine.py`, `agent_gateway/main.py`);
* a call whose reply is lost did or did not take effect (`run_lock.py:87`,
  `coordinator.py:431`, `delivery.py:180`);
* a resource that is only given back by a report, a release or a close that may
  not come (half-open slots, active signals, entries in process, connections);
* a loop that gates itself on measurements it takes only when it runs
  (`adaptive_scheduler.py`, the breaker in `runner.py`);
* two stores that advance separately: candles and their state, offsets and rows,
  a file and a process, a checkpoint and a topic;
* messages that come again, late or in another order (Stripe, Telegram, Kafka,
  trades).

## Modules

Each component has a module (state, actions, specification, properties, each
mutated operator just before the original).  The mutated operators (`...Late`,
`...Blindly` and the like) are not part of any specification: they document
which slip each property would catch.  An MC module is there where a run needs
symmetry or sequences as constants.

| module | models | state and actions |
|---|---|---|
| `RunLock` | `run_lock.py` and the lock section of `process_all_symbols` | One action per Redis round trip: `Acquire` (SET NX EX), `Lookup` (GET and age), `Probe` (EXISTS of the owner's heartbeat), `Recover` and `Release` (the Lua scripts).  Every one may raise, and `Acquire` and `Recover` may take effect and lose the reply.  `Beat` is a turn of the heartbeat thread; `StartHeartbeat`, `StopHeartbeat`, `Crash`, and `Tick` for TTLs. |
| `BreakerOps` | `circuit_breaker.py` | The breaker as a record and each method as an operator on it, for `CircuitBreaker`, `RunnerCycle` and `SignalDelivery`. |
| `CircuitBreaker` | the breaker under overlapping callers | `Admit`/`Refuse`, `Succeed`, `Fail`, `Abort` (an exception between admission and report), `Observe` (the state property has effects), `ManualReset`, `Tick`. |
| `RunnerCycle` | `runner.py`, `kill_switch.py`, `adaptive_scheduler.py`, with `BreakerOps` | The runner thread as five program points, with is_active cut at the Redis read and again before the assignment to the cache; the dashboard's two-step activate/deactivate; other writers of the key. |
| `SignalGate` | `check_signal`, deduplication, emission and bookkeeping in `_process_symbol` | `Decide`, `Emit` (accepted or lost), `Record`; ages instead of timestamps, so that `Tick` may fall between any two.  No outcome is ever reported, as in the repository. |
| `SignalStream` | `signal_event_bus.py`, `signal_stream` of `dashboard.py` | `Publish` (under the lock) and `Deliver` (one callback outside it); the generator as `Connect`, `YieldReplay`, `Subscribe`, `YieldLive`, `Disconnect`; `Restart`. |
| `DeadLetterQueue` | `dead_letter_queue.py` and the worker of its docstring | One action per Redis command: `Enqueue`, `StartScan`, `Pop`, `PutBack`, `Store`, `EndScan`, `Deliver`, `Ack`, `NackGet`, `NackDel`, `Requeue`, `EndWork`, `Crash`. |
| `SignalDelivery` | `signal_api/delivery.py`, with `BreakerOps` and `RetryQueue` | The listener, the loop over subscribers with its two enqueues, a service with a queue or without (`wired`), Redis that fails before or after taking an entry, malformed signals, deaths of the service.  Nobody retries what is queued. |
| `CandleIngest` | `candle_ingestor/`, the tracker | Backfill and catch-up of a ticker: reading the state, fetching a page, writing candles, saving the state, each of which may fail; pages that end inside their chunk (`cut`); deaths and restarts. |
| `RequestFactory` | the request factory, with `CandleIngest` | Both reads, the advance test, one publication per request, the saved end time; composition of both cron jobs and a clock. |
| `StrategyConsumer` | `strategy_consumer/` | `Poll` with its auto-commit, batches as transactions that may fail, shutdown, rebalances, crashes. |
| `DeliveryRouting` | `delivery/` | Route, deduplicate, take a slot, receipt, attempts with pauses, marks; a send takes time and is accepted at some moment of it (`Accept`), and its reply may be lost; deaths of the router. |
| `NotificationRouter` | `notification_service/` routing | Success mark, claim (SET NX), both pipelines of the rate limiter, send, mark, for several routers; senders that post again, and replies that are lost. |
| `PaperTrading` | `paper_trading/` | Sessions and trades statement by statement; requests interleave at awaits. |
| `OrderSimulator` | `order_simulator/` | Placing, cancelling, one market tick over all orders with partial fills. |
| `CostBasis` | `pnl_engine/` | Replay of trades under FIFO, LIFO and average cost. |
| `StrategyExecution` | `strategy_execution_engine/` | start (check and replace), stop, a candle on the context that was looked up, for several threads. |
| `Billing` | `billing/` | Webhook handlers statement by statement, Stripe's events repeated and in any order, the gate and its later count.  Histories say which event wrote the subscription last, which did at all and which found none. |
| `AgentOrchestration` | `agent_orchestration/` | The phases of a cycle behind breakers, saving, crashing. |
| `DecisionStore` | decisions, feedback, retention | Jobs statement by statement in transactions, or in autocommit after a failed VACUUM. |
| `ModelRouter` | `model_router/router.py` | Requests along the fallback chain; coroutines interleave where a model is awaited. |
| `SignalCache` | `signal_cache.py`, `_call_mcp_cached` | Two tiers, a clock per instance, puts that stall, degraded callers. |
| `AgentGateway` | SSE of `agent_gateway/main.py` | Opening, resuming, yielding and resting, heartbeats, cleaning, abandoning. |
| `Janitor` | `janitor_agent/` | Reading candidates, judging, retiring, looking at the specification, while others change things; clean-up and repair. |
| `CommunityCounters` | likes, subscribers, ratings | Row and count as two steps; calls that end between them. |
| `Subscriptions` | bot and API subscriptions | Polls, handling, confirmation by the next poll, deaths of the bot, racing API calls. |
| `CandleAggregation` | `marketdata/CandleAggregator.java` and pipeline | A trade or a flush for all timeframes. |
| `Sums` | - | the sum of a sequence of numbers as a recursive function, for volumes, cash and lots |
| `DiscoveryJob` | `discovery/` | Reading, evolving, sending, checkpoints, failures, stateless deployments. |
| `Settlement`, `RetryQueue` | what a pipeline stage and a retry queue promise | abstract specifications |
| `Services`, `Ledgers` | compositions of eleven and of nine of these | see below |
| `RunLockProofs`, `RunnerCycleProofs`, `DeadLetterQueueProofs`, `SignalDeliveryProofs`, `StrategyConsumerProofs`, `RequestFactoryProofs`, `ServicesProofs`, `LedgersProofs` | - | theorems and proofs about the module they are named after |

How the components meet: `RunLock` brackets the code that `SignalGate` models;
`RunnerCycle.ProcessSymbol` reports to the breaker and the scheduler that
`RunnerCycle.Gate` reads; what the coordinator fuses comes through
`SignalCache`; `SignalGate.Emit` precedes the publication that
`SignalStream.Publish` models and that `SignalDelivery`, `DeliveryRouting` and
`NotificationRouter` hear; `DeadLetterQueue` is used by `SignalDelivery` through
`RetryQueue`; the ingestor's tracker in `CandleIngest` is read by
`RequestFactory`, whose requests `DiscoveryJob` reads, whose strategies
`StrategyConsumer` stores.

`Services` and `Ledgers` instantiate modules whose services share no state in the
repository (each has tables and keys of its own) side by side: `Services` those
about limits, order and recovery (`SignalGate`, `DeliveryRouting`,
`NotificationRouter`, `AgentOrchestration`, `DecisionStore`, `ModelRouter`,
`SignalCache`, `AgentGateway`, `Janitor`, `SignalStream`, `CircuitBreaker`), `Ledgers`
those that keep records (`PaperTrading`, `OrderSimulator`, `CostBasis`,
`StrategyExecution`, `Billing`, `CommunityCounters`, `Subscriptions`,
`CandleAggregation`, `DiscoveryJob`).  The variable `running` is chosen at the start and
says which of them moves: their interleaving with each other would multiply states
without relating any, so one state space holds all of them one after the other.  The
properties guard each service's own with `Runs(service)`; those of one kind are
conjunctions.

## What implements what

* `StrategyConsumer` implements `Settlement` (`SettlesMessages`): a message whose
  strategy is in the table is done, one whose offset is committed without it is
  given up, and neither is ever taken back.  `GivenUpExplained` names the reasons.
* `DeadLetterQueue` implements `RetryQueue` (`KeepsPromise`), without crashes: with
  them the program loses entries (see [below](#where-code-and-words-disagree)).
* Both runs check the implementation with its liveness on a small instance; that every
  step is a step of the abstract specification or leaves it alone is proved for
  all constants (`ImplementsSettlement`, `ImplementsRetryQueue`).
* `SignalDelivery` enqueues through `RetryQueue`'s `Enqueue` instead of the queue's
  details, and shows that no delivery is forgotten.  It uses none of its fairness: what
  is queued stays there, for no process of the repository retries it.
* `RequestFactory` composes `CandleIngest` with the factory; `RunnerCycle`,
  `CircuitBreaker` and `SignalDelivery` use the breaker of `BreakerOps`.

## What the runs check

| run | verdict | what it shows |
|---|---|---|
| `RunLock` | pass | With heartbeats: two instances process a symbol at once only if one outlived LOCK_TTL or was judged stale (`MutexUnlessStale`); Redis agrees with each holder inside its lease (`LeaseHeld`); only the silent or over-aged are judged stale (`DoubtOnlyTheSilent`); a crashed holder's lock goes away (`CrashedLockFreed`). |
| `RunLockNoHeartbeat` | violation | As wired: nobody starts the heartbeat, so every held lock can be stolen at once (`MutexWithinLease`). |
| `RunnerCycle` | pass | No cycle starts once the switch has been set for the check interval and the last read of it succeeded (`KillSwitchHonoured`), in spite of the race on the cached value; a half-open breaker waits for the running cycle (`BreakerNotWedged`); cycles go on through failures, trips and cooldowns (`CyclesContinue`), both unless the scheduler asks for a skip. |
| `DeadLetterQueue` | pass | With crashing workers: an entry is never in two places (`NoDoubleProcessing`); ack and nack find what the worker holds (`Tracked`); retries come after the backoff of their number (`ExponentialBackoff`). |
| `DeadLetterQueueLive` | pass | Without crashes, every entry is settled once and in the end (`KeepsPromise`), although a scan rotates entries that are not due. |
| `RequestFactory` | pass | Ingestor and factory beside each other with failing calls and dying pods: a requested window ends in a stored candle (`EndsStored`), a hole has a failed call behind it, lies before the date a job began at, or was beyond the page of its chunk (`HolesExplained`), nothing is sent twice without a fault (`SentOnce`), the ingestor reaches the present (`CatchesUp`) and the factory the newest candle (`ServesNewest`). |
| `RequestFactoryStuck` | violation | With pages of less than a day, as configured for one-minute candles, the ingestor never catches up (`CatchesUp`). |
| `StrategyConsumer` | pass | Polls, auto-commits, batches, rebalances, failed transactions and crashes, for every assignment of strategies to messages: `SettlesMessages`, `GivenUpExplained`; a message leaves a further row only after a fault (`CopiesExplained`), and a replay does not leave an older score behind (`NewestScore`). |
| `SignalDelivery` | pass | Two subscribers, the breaker, Redis that refuses or loses an enqueue, malformed signals, a dying service, with a dead letter queue and without: no delivery is forgotten, none is both made and queued (`Accounted`), and each comes to its end (`EveryDeliveryEnds`). |
| `SignalCacheDegraded` | violation | A degraded call finds nothing that a normal one would not have found: the entries expire at the normal time to live (`DegradedOutlasts`). |
| `Services` | pass | Eleven services, see the next table. |
| `Ledgers` | pass | Nine services that keep records, see the table after it. |

The properties of `Services`:

| property | says |
|---|---|
| `GateKept` | The hourly limit and the deduplication window hold where signals arrive, however slow emissions are, and the service never accepts more signals of a process than may be active, since the count of those only grows. |
| `MessagesOnce` | A user gets a signal that is published again once, and besides the copies the router did not learn of (a reply was lost, or it died); messages about a symbol are apart by the window less the time of a dispatch, but for repetitions after a lost reply; routers that race hand a signal to each channel once, and a fallback chain stops at the first sender that knows of its success, except for routers that looked before the success mark was there. |
| `PromotedAreWatched` | Histories and candidates agree in memory and in the file. |
| `MaintenanceSafe` | Retention deletes a decision with its feedback or neither; a retirement cycle leaves something better, is bounded, and retires a specification only when it was overtaken. |
| `ProbesAndChain` | One probe per half-open model; a request fails only after the whole chain. |
| `AnswersFresh` | What the cache answers is no older than the normal time to live, whichever tier, clock or mode. |
| `StreamsInOrder` | Numbers grow, no event comes twice, connections are counted. |
| `LiveStreamComplete` | What waits in a live connection's queue, and the event on its way there, are in order exactly what the browser has yet to see, but for what the full queue refused. |
| `InOrderOnce` | No event comes twice or after a later one, across reconnections and restarts. |
| `GapsExplained` | An event is missed for one of three reasons: the replay buffer had dropped it, it was published between the replay and the subscription, or the queue was full. |
| `ClosedMeansHealthy`, `CallsHalted`, `NoWedge` | Late reports of overlapping calls cannot keep a breaker closed after a threshold of failures, nor let a call through before the rest period is over; a half-open breaker that refuses is waiting for a call, or has lost all the calls it lets through to exceptions. |

The properties of `Ledgers`:

| property | says |
|---|---|
| `BooksBalance` | Paper trading: overlapping trades are all in the balance, overdrawn by at most all but one of them.  Simulator: cash and position are what the fills come to.  PnL: profit is cash flow plus open cost under each method, FIFO is first in first out.  Execution: a follower of the signals owns what the contexts report, limits hold. |
| `BillingKept` | The subscription has the status of the event that wrote it last, and that is never a late repetition of one settled before; what was answered is recorded and has written the subscription, or came before the creation was recorded; the quota is overrun by overlapping deliveries only. |
| `CommunityKept` | Counts agree with rows at rest, or a named race bent them; a chat's last command wins. |
| `PipelineWhole` | No trade lost or counted twice, timeframes agree; every request passed is answered in full, evolved again only after a failure. |

Three configurations reproduce disagreements the table of runs leaves out, as they
concern code the passing runs cover: `CircuitBreakerAbort.cfg` (HalfOpenMaxCalls calls
that raise in one half-open period wedge the breaker for ever, `HaltIsTemporary`;
`NoWedge` of the run `Services` says that fewer do not), `SignalStreamGap.cfg` (the gap
between replay and subscription, `NoReplayableGap`) and `RunnerCycleSlow.cfg` (slow
samples stop the runner for good, `ContinuousGeneration`); each ends with a
counterexample.

Each module's `TypeOK`, where there is one, is kept as documentation and for the
proofs; the runs spend their time on the other properties.

## Bounds

Constants are the program's parameters made small; nothing is bounded by a state
constraint.  Bounds (`Max...` constants marked `bound:` in the modules) are
guards.  What matters is the relation between values, which they keep.

* `RunLock`: 2 instances, 1 symbol (locks of different symbols share only the
  heartbeat).  LockTTL 3 = HeartbeatTTL 3 > HeartbeatInterval 1, so that beats can
  be lost with and without consequence; StaleThreshold 4 > LockTTL as in the code
  (120 > 90) and MaxSkew 3, so that only skew can make a live lock look too old.
  The proofs cover any number of instances and any values.
* `CircuitBreaker` in `Services`: 3 callers, threshold 3, timeout 3, 2 half-open calls: more callers
  than half-open slots, and a threshold that takes reports of old calls to reach
  out of order.
* `RunnerCycle`: 2 symbols, window of 3 samples (the least for which a skip is
  recommended), 2 overruns, cooldown of 2 cycles, check interval 2 against a cycle
  interval of 1, so that some cycles use the cached answer and some do not.
* `DeadLetterQueue`: 2 entries, 2 workers, 2 retries, batch of 2 (1 worker and batch
  of 1 for liveness): a scan meets entries that are due, not due and exhausted.
* `RequestFactory`: 8 candles, of which 7 are there at the start, days of 2, chunks of
  a day, pages of 3 and a backfill of 5: a page ends inside the chunk and the day
  after it, as that of one-minute candles does, so that candles are passed over with
  no fault (`cut`), a backfill need not begin at the first candle, and the ingestor has to
  go through several chunks and catch up; 2 faults, which meet in every pair of places.  The stuck instance has pages (2) shorter than a day (4).
* `StrategyConsumer`: 3 messages, 2 strategies, batches of 2, polls of up to 3 and 2
  faults: a batch is full, part of a poll, or cut by a rebalance.
* `SignalCacheDegraded`: one instance is enough, with times to live of 2 and 4 seconds.
* `SignalDelivery`: a chat and a webhook, 2 signals, 2 faults, a breaker that opens at
  once and recovers.
* `Services` and `Ledgers`: two actors wherever actors race (routers, deliveries, handlers,
  threads, jobs, connections, calls, visits), limits of 1 or 2 so that they are
  reached and passed, and enough operations that an actor comes back after the
  other; 1 death or fault where there are any (2 restarts for the discovery job).
  Three channels in a chain and three models, so that there is a middle one.
  Prices 95, 100, 106 with a stop of 2 and a profit of 4 per cent cross both
  limits; timeframes of 1 and 4 with trades at 0, 1, 3 and 9 leave gaps of both.
  The breaker of an agent phase opens at the first failure, so that the second of
  its 2 cycles may be refused.  The janitor has 3 implementations of its own and
  7 elsewhere, so that ten per cent are one.  Two browsers, a buffer and queues of 2, 4
  events per incarnation and 2 incarnations: the buffer wraps around twice, and a browser
  of the first incarnation meets the second.  `DeliveryRouting` has a window of 5 against
  a dispatch of 3 (two sends of 1 and a pause of 1), so that the spacing says something,
  and 1 message per signal that the router does not learn of; the webhook's sender in
  `NotificationRouter` posts twice.  4 events of Stripe let two follow a creation and come
  in either order.

Symmetry is used in safety runs only.

## Fairness

* `RunLock`: weak fairness of time and of each heartbeat thread's turn (a daemon
  thread that is scheduled).  Instances owe nothing: they may stop anywhere.
* `RunnerCycle`: the runner thread runs, the dashboard's request handler finishes,
  and time passes.  Time is strongly fair because it is disabled during local
  steps, which recur for ever in a loop of pauses and cycles; it passes during pauses,
  fetches and while the kill switch is read.  Neither the
  dashboard nor other writers have to act.
* `DeadLetterQueueLive`: the worker runs its loop, and time passes.
* `RequestFactory`: both cron jobs are started again and go on, and the clock ticks
  (weak fairness); failures are finitely many (`MaxFaults`), for otherwise nothing
  would have to succeed.
* `StrategyConsumer`: the topic and the job go on (weak); a job polls again and again
  (strong: a job may be stopped before it polls, but not each of them).
* `SignalDelivery`: the listener's loop goes on.
* `Services` and `Ledgers`: none, their properties are safety.

## Proofs

`RunLockProofs` (any instances, symbols, TTLs, intervals, thresholds and skew, from
the assumption `LockConstants` alone):

* `TypeCorrect`, `HolderOwnsLock` (`LeaseHeld`), `LockGuarantee`
  (`MutexUnlessStale`), `VerdictsJustified` (`DoubtOnlyTheSilent`).
* The inductive invariant is `TypeOK`, `LeaseHeld` and three facts: an instance in
  check_and_recover remembers an owner (`OwnerRead`); one that is about to run the
  recovery script has put this owner into `doubted` (`VerdictRecorded`), which is
  why the script can only take a lock from a doubted holder, since it compares
  the owner again; and a heartbeat key lives as long as the beats that landed
  guarantee (`BeatsKeepAlive`), an inequality between the key's TTL, the thread's
  timer and the number of lost beats, without which `DoubtOnlyTheSilent` is not
  inductive.  `MutexUnlessStale` follows from `LeaseHeld`, for the key has one value.

`RunnerCycleProofs` (any interval, threshold, window of samples and number of symbols):

* `KillSwitchStopsCycles` (`KillSwitchHonoured`), when CheckInterval is positive.
  `FreshAnswers` strengthens it: whoever holds "not active" (the runner between the
  Redis read and the assignment, the cache, the dashboard between its two writes) got
  it when the key was clear or no longer ago than the last check.
* `RunnerDoesNotWedge` (`BreakerNotWedged`).  The invariant `WedgeInv` adds that within a
  cycle the first processed symbol reports, so that a half-open breaker refuses only
  while the cycle that probes it has yet to report, or when the scheduler skips.

`DeadLetterQueueProofs` (any entries, ids, workers and delays):

* `ImplementsRetryQueue`: the queue takes the steps `RetryQueue` allows, from `Types` and
  `Known` (only entries that were enqueued are anywhere).
* `WorkIsTracked` (`Tracked`) and `NoEntryTwice` (`NoDoubleProcessing`), for any number of
  workers, and with their crashes.  Neither is inductive alone: an entry that were in the
  list while a worker tries it would be popped again.  `Exclusive` says pair by pair
  that list, hands and batches share no entry, and one lemma per kind of move
  (list to hand, hand to batch and back, in, out) preserves it.  Both theorems assume
  DistinctIds, which the code does not guarantee: an id is a subscriber and a
  millisecond (`dead_letter_queue.py:53`), and entries of one id overwrite each other's
  record.
* `RetriesBackOff` (`ExponentialBackoff`), under DistinctIds too.  `BInv` relates an entry that
  waits to its history: its number of retries is that of the attempts since it was
  enqueued, and the time since the last attempt and the time until it is due are together
  no less than the delay of that number, or the clock of the property has stopped.  The
  delays are powers of two times the first, a recursive function (`Doubled`) that
  `DoublingGrows` shows to grow.

`SignalDeliveryProofs` (any subscribers, signals, faults and settings of the breaker):

* `DeliveriesAccounted` (`Accounted`).  `Current` says that the subscribers the loop has
  still to serve have neither a delivery nor an entry of the newest signal, except the
  one whose first enqueue raised; `Untouched` says so of all signals to come;
  `HandlerHasCause` links the second enqueue to a fault or a malformed signal.

`StrategyConsumerProofs` (any topic, strategies, batch size and faults, from
`ConsumerConstants`):

* `TypeCorrect`, `NothingLostSilently` (`GivenUpExplained`), `CopiesHaveFaults`
  (`CopiesExplained`), `ImplementsSettlement`, from one inductive invariant: `Order` (the
  commit is behind the consumer, which is behind its position), `PassedExplained`
  (what the consumer has passed is stored or excused, committed or not: a commit
  then gives up nothing unexplained) and `CopiesBound` (a message that will be read
  again has had one copy less than the faults allow).
* `ReplaysKeepNewest` (`NewestScore`) needs more: a replay stores old messages over newer
  ones for a while.  `RowsNewest` says that a row is right, or a newer message of its
  strategy is still to be replayed, or failed; `StoredBehind` bounds what can be
  replayed.  How far a batch reaches and which of its messages wins are a least and
  a greatest element, whose existence `HasLeast` takes from `WellFoundedInduction`.

`RequestFactoryProofs` (any length of days, chunks, pages and spans, any requests and
faults, from the assumptions of `CandleIngest` and `RequestFactory`):

* `TypeCorrect`, `NeverAhead` (`EndsStored`).  `Order` strengthens it: what a job is about to
  save is a candle it wrote, and no time the tracker, the job or the factory knows is
  ahead of the candles, which are not ahead of the clock.
* `NeverSentTwice` (`SentOnce`), when MinAdvance is positive; with 0 the end time just
  served passes the test again.  `Idempotent`: while its calls succeed, the factory has
  published nothing beyond the end time it saved, but for the pair in its hands.
* `HolesHaveCauses` (`HolesExplained`), for pages of any length.  `Gapless` says that what
  precedes a stored candle, and what precedes the day of the next chunk to be fetched, is
  stored, excused, or was beyond the page of its chunk (`cut`).
* `ReachingPagesCutNothing`: `cut` stays empty under `PagesReach`, when a page holds a chunk and
  a day more and the slack of its estimate is a day.  With pages of 1000, chunks of 89
  days and a slack of 10, this holds of daily and four-hour candles and fails for
  hourly ones and for the one-minute candles that are deployed (see
  [below](#where-code-and-words-disagree)).

`ServicesProofs` (for each service named, any number of actors and any limits, from
`ServiceConstants`).  A step of `Services` is a step of one service or leaves its
variables alone, so that each has an inductive invariant over its own:

* `ClosedIsHealthy` (`ClosedMeansHealthy`), `FailingServiceRests` (`CallsHalted`),
  `ReportingCallersDoNotWedge` (`NoWedge`).  `Bookkeeping`: the breaker's own count and
  clock agree with the reports (a closed breaker has counted at least the failures
  since the last success, its age never exceeds the time since the last reported
  failure, and it is half-open only after a rest).  `NoWedge` needs `ProbesOut` besides:
  the half-open calls that are counted are out, or raised since the state last changed.
* `CacheIsFresh` (`AnswersFresh`): `CacheTimes` bounds when an entry expires, by the clock that
  will be asked, and how old a value is that is still to be put.
* `PromotedStayWatched` (`PromotedAreWatched`): the agreement of histories and phases in memory
  and in the file, and that what a cycle found or passed is not promoted yet (`Unpromoted`),
  so that promoting it counts once.
* `OneProbeWholeChain` (`ProbesAndChain`): the slot of a half-open breaker is taken by who was
  let through and is still calling the model (`ProbeHeld`), and who failed has tried the
  chain (`ChainTried`).
* `BrowsersSeeOrder` (`StreamsInOrder`): what a connection was given, the number it has reached
  and what waits for it are in order (`Ordered`), and the address is charged for
  `Counted`, a set that stays finite.
* `MaintenanceKeepsWhole` (`MaintenanceSafe`), when the implementations are finitely many.
  Retention: a foreign key, and for each job (`JobSound`) that all feedback on what it
  deleted is deleted with it, and nothing is pending in autocommit mode.  Janitor: while
  nothing changes from outside, rows say what the database does and something better is
  there (`Undisturbed`), and what a cycle retired and is about to retire is in its limit
  (`Within`); a change after the first retirement is remembered (`Remembered`).
* `GateSpaces` and `GateStaysKept` (`GateKept`).  `OnRecord`: what the service accepted of a symbol
  within the hour is covered, one by one and no older, by what the risk manager has on
  record or is about to record, so that its count is an upper bound; `EmissionsNoted`
  orders both clocks of a signal.  What was accepted in all is at most what is counted as
  active, and the signal being recorded.
* `MessagesStayOnce` (`MessagesOnce`), when the routers are finitely many.  Delivery:
  `SendsMarked` (a copy the user has is marked, about to be, or counts as one the router
  did not learn of) and `WindowsKept`: the rate limiter's window began no earlier than
  the dispatch, whose sends and pauses are added up.  Notification: `ClaimsKept` (a claim
  has one holder, who has not sent) and `Stops`, which counts the channels that answered
  against the routers on their way and the dead.
* `LiveStreamsMissNothing` (`LiveStreamComplete`), `BrowsersSeeEachOnce` (`InOrderOnce`) and
  `GapsHaveReasons` (`GapsExplained`), from one invariant: the buffer holds the newest events
  (`NewestBuffered`), a replay is the unbroken run that ends where the buffer ended when it was read
  (`ReplaySound`), and queue and pending callback are what comes after what the browser has,
  less what was refused (`Live`).  `AfterCuts` says that get_replay_buffer's filter cuts
  a buffer of growing numbers.

`LedgersProofs` (likewise, for the services of `Ledgers`, from `LedgerConstants`):

* `BillsStayTrue` (`BillingKept`), when the deliveries that overlap are finitely many, and
  there is one.  `CallSound`: a creation finds or makes its customer before it is applied,
  and an event is applied before it is recorded.  An event that was settled stays settled, so
  that it writes no more.  Usage and the deliveries between gate and count
  are bounded together.
* `CommunityStaysTrue` (`CommunityKept`), when the API's callers are finitely many.  Counts: a
  count and those on their way to raise it are the rows and those on their way to lower it
  (`LikeInv`, `SubscriberInv`), with no bound on either; the average is that of the ratings or
  someone is about to work it out (`AverageInv`).  Chat: `BotPlace` says where the bot's batch,
  its offset and what Telegram has dropped stand to each other, `BotObeys` that the rows are
  as some command left them which Telegram has dropped last or keeps, so that a bot that
  begins again from there ends where the chat does; rows and inserters are bounded together.
* `DiscoveryAnswers`, the half of `PipelineWhole` about the discovery job: `AttemptUnderWay` (what
  the attempt sent so far is in the topic) and `AttemptsBounded` (one per start).
* `CandlesWhole`, the other half, for any trades, prices, durations and any number of
  timeframes, and `PipelineStaysWhole` (`PipelineWhole`) from both.  `CandleVolume`: what is stored and what is in
  the making of a timeframe have the volume of the trades, late ones and flushes included.
  `CandleOrder`, while trades come in order: the candle in the making is the newest trade's, something was traded
  in it, and the stored ones lead up to it without a hole (`Chain`).  `CandleAgreement`, then too: every candle of
  a coarser timeframe, also the one in the making, is what the finer ones come to that lie
  within it (`Made`), those in the making included, for a trade closes the fine candle
  before, or together with, the coarse one around it (`AgreementOfTwo`).

* `BooksStayBalanced` (`BooksBalance`), from an invariant for each of the four services.
  - Paper trading: the balance is what every trade of the session has charged (`PaperInv`).  How far
    it is overdrawn needs more: `CoversBuyers` says that the balance covers, for every request which
    has passed the test and has not charged yet, as much as one can cost, above the bound that the
    property names, or that the newest of them is covered by its own test.
  - Simulator: `OrderKept` (an order's filled quantity is that of its fills, and it is FILLED when
    that is all) and `AccountKept` (cash and position are the sums over the orders) are kept by one
    visit of one order, and from there by a tick, by induction over its visits.
  - PnL: `BasisCash` is the identity between profit, cash flow and open cost with the denominators of
    average cost multiplied out.  A sale needs that the lots give exactly what is asked, which is
    shown by induction over the sets of lots that come first in the order of the method.
    `BasisOldest` is that of FIFO alone.
  - Execution: what the follower made is what the contexts report less what their open positions
    cost, for sets of contexts that threads replace and feed (`ExecutionInv`), and
    every open position lies within its limits at the last price (`ExecutionLimits`).

  The hypotheses are that the paper requests are finitely many, for the bound on the
  overdraft is their number; `ModestCosts`, that no fee exceeds what is traded
  and slippage exceeds no price, without which selling costs cash and the simulator
  overdraws, as it checks the cash of purchases only; and limits of at least
  one per cent, for with a limit of zero a position is beyond it where it opens.

Where a proof needs an induction over numbers it is made first-order: `LeastNumber` takes a
least element from the library's well-foundedness of the naturals, `ByInduction` refutes
the least counterexample, and the recursive functions are unfolded at one argument.  A sum
(`Total`) is a recursive function too: `PartialExists` and `PartialsAgree` show that its equation
has one solution, so that `TotalUnfolds`, and from it the sum of a joined sequence, of
two functions and of one that changes at a place (`TotalConcat`, `TotalLinear`, `TotalChange`).
Filters of sequences are written as cuts or as sets of positions where the sequence is
ordered, so that they need no induction (`SignalGate`'s recent signals, `SignalStream`'s
replay, the channels of both routers).

The proofs about sets that grow and shrink cite the library's facts about finite sets; the
sum over no ratings is unfolded by hand (`NothingAveraged`).

Only model-checked:

* liveness, which is out of the provers' reach (`CrashedLockFreed`, `CyclesContinue`,
  `CatchesUp`, `ServesNewest`, `EveryDeliveryEnds`, and the fairness parts of `KeepsPromise` and `SettlesMessages`).

Every invariant and every action property that a run checks is a theorem.

## Where code and words disagree

With a run each ("findings" in `PROJECT.json`): the heartbeat nobody starts, the
ingestor that never catches up, and the degraded times to live that nothing lives
to see.  With a configuration each (above): the
breaker raising callers wedge (`signal_api/delivery.py` and `circuit_breaker.py`),
the gap between replay and subscription (`dashboard.py:233`), the runner that slow
samples stop (`adaptive_scheduler.py:58`).

Met while modelling, without a run of their own.  The properties name these cases
as exceptions, or their models do as the code does.

Signal pipeline

* `risk_manager.py:151`: nothing calls record_signal_closed outside the tests, so the
  counter of active signals only grows, and a process emits MaxActive signals at most
  until it is started again.  `SignalGate` has no action for a close.
* `dashboard.py:234` says "Drop oldest if consumer is slow"; a full queue drops the
  newest event.
* `adaptive_scheduler.py:32` says "rolling window"; `:58` drops the smallest sample
  of a sorted list, not the oldest.
* `kill_switch.py:48` says "assume not active (fail open)"; the next line returns the
  cached value, which may be "active".
* `coordinator.py:431` notes an emission whether it succeeded or not: a lost signal
  starts a deduplication window.  A suppressed duplicate is counted as emitted and
  stored as approved.
* `coordinator.py:246`: a cycle that the adaptive scheduler skips has already used up
  the half-open slot of the breaker (`BreakerNotWedged` excepts it by name).
* `run_lock.py`: LOCK_STALE_THRESHOLD (120) exceeds LOCK_TTL (90), so that the age test
  can only fire through clock skew.  A lock is never renewed, and `_process_symbol`
  ignores its timeout argument.  `runner.py:31` builds the coordinator without a
  Redis client: `RunLock` models the coordinator when it is given one.
* `coordinator.py:201` says "On MCP failure, falls back to degraded-TTL cached data", and
  `signal_cache.py:24` and `:80` give that data a longer time to live.  put keeps entries for
  the normal one only (`:124`, `:130`, `:137`), so that there is none left when the fallback
  asks (`SignalCacheDegraded`); `signal_cache_test.py:84` compares the two numbers.
  Besides, a failed HTTP call comes back as `{"error": ...}` (`shared/mcp_client.py`), is never
  retried, and is cached like an answer; only an unreadable answer raises, and
  that is not retryable either.
* `db_persistence.py` and the retention docs: "Export expired decisions to cold storage
  (S3)" is not done.  A failed VACUUM gives its pooled connection back in
  autocommit mode, and the next job's statements are no transaction.  A feedback
  insert that fails is answered as submitted.  V6 and V27 both create
  agent_decisions.
* `outcome_tracker.py:114` selects pending decisions without excluding those that
  have an outcome already; it is built without the MCP call it needs.

Delivery

* `dead_letter_queue.py:86` pops an entry and `:111` records it as in process: a worker
  that dies between them, or before ack or nack, takes the entry along, since
  nothing reads the processing hash back (`signal_api/delivery.py:7` promises
  "reliable delivery").  `:53`: two failures of a subscriber in one millisecond
  share an id and overwrite each other in the processing hash.
* `signal_api/delivery.py:180`: an enqueue that raises leads to a second enqueue, or
  ends the fan-out to the subscribers after it.
* `signal_api/delivery.py:7` promises "dead letter queue for reliable delivery".  Only tests
  construct the service (`signal_api/delivery_test.py:33`, `pipeline_e2e_test.py:49`,
  `tests/e2e/test_signal_pipeline_e2e.py:46` of the repository); `signal_api/main.py` starts no
  delivery and passes no queue, and no process retries what is in one.  `wired` says
  whether there is a queue, and a delivery that failed without one is only counted.
* Lost replies: a sender that does not hear back in 10 s reports a failure, although the
  channel may have the message.  `delivery/channels/telegram.py:43` and `webhook.py:43` call it
  retryable, and `router.py:201` sends again, up to five times; `notification_service/
  telegram_sender.py:39` returns False, and a fallback chain goes on to the next channel;
  `webhook_sender.py:35` posts three times.  "Prevents the same signal from being sent
  multiple times to a user" (`delivery/deduplication.py:5`) is said of what the router knows:
  `SentOnce` counts the copies it did not learn of.
* `delivery/rate_limiter.py:7` says "1 signal per symbol per window", and the window begins
  before the sends.  Two messages may be as close as the window less the time of a dispatch:
  15 s of pauses and five sends of about 10 s each leave 235 of Telegram's 300 s on the free
  tier, 35 of 100 s on the power tier, and nothing of a webhook's 60 or 20 s.
* `delivery/`: a signal suppressed by quiet hours has used its rate slot
  (`rate_limiter.py:66`); a mark of failure outlives the success of a later attempt, so
  that the signal is sent again.
* `notification_service/`: a claim stays when the rate limiter refuses or the send
  fails, so that the signal is lost on that channel; in a fallback chain two routers
  may both succeed ("deliver if no other channel has succeeded"); main.py does not
  use the router; quiet hours are in UTC; a record_delivery that raises ends the
  service's loop.
* `agent_gateway/main.py:16` says "Last-Event-ID reconnection support": nothing is
  replayed, and the first live events up to that number are swallowed.  A stream
  given up before its generator began keeps its slot for ever.  A session
  cleaned while its generator rests sends an event with the number 0.
  Nothing fills the session's queue, so backpressure never shows.
* `telegram_bot/`: a bot and an API call may both subscribe a chat, which then gets every
  signal twice; a database error ends the poll loop.

Candles, strategies, agents

* `postgres_client.py:293` of the consumer says "Continue with other strategies instead
  of failing the entire batch"; the transaction is aborted, and the batch is lost.
* `candle_ingestor/main.py:413`: a chunk of 89 days (`:78`) is one page of at most 1000
  candles, and the next begins a day after the chunk's end (`:548`, `:639`).  Of one-minute
  candles, which the chart configures (`charts/tradestream/values.yaml:227`), a backfill stores
  the first 17 hours of each chunk and passes over the rest, with no call failing.
  `HolesExplained` names those (`cut`).
* `candle_ingestor/main.py:728`: the candle in progress is stored and never completed.
* `kafka_consumer.py:181`: the hash covers parameters only, so that equal parameters of
  two pairs are one strategy.
* `CandleAggregator.java`: a late trade splits a candle, so that two have the same start;
  the flush at a bundle's end does so too.  `WalkForwardSplitter` calls 6480 bars about
  nine months, which of one-minute bars they are not.
* `InfluxDbCandleFetcher.kt` swallows query errors: a request is passed without having been
  evolved on data.  A failure before the first checkpoint, or a deployment, begins
  at the end of the topic.  The Postgres sink beside it is not used.
* `agent_orchestration/discovery.py:137` formats a prompt whose example of JSON has bare braces
  (`:12`): format raises KeyError before the model is asked, where the docstring (`:128`) says
  "or empty list on failure".  `AgentOrchestration` models the discovery that succeeds as
  the code would with a prompt that can be formatted, and the failure as it is.
* `agent_orchestration`: the model's closing summary may list a promoted strategy again,
  whose record is reset and which is no longer watched; candidates of a cycle that
  was interrupted are never backtested.
* `janitor_agent`: check_better_alternatives does not exclude the candidate;
  max_specs_per_run is not applied; a crash between the retirements and the
  specification leaves it unlooked at; reactivating leaves the specification
  RETIRED; the queries use `impl_id` where V2 has `id`.
* `model_router/router.py:386`: `_try_fallback` asks allow_request, and call_with_fallback
  asks again: the half-open slot is used up by the question, and the model is
  refused for ever (its docstring promises a probe).
* `strategy_execution_engine/engine.py:410`: a restart forgets an open position;
  nothing outside the tests calls on_candle.

Money and community

* `paper_trading/engine.py:47` says "Only one session can be ACTIVE at a time": check and
  insert are two steps.  Portfolio updates may be lost, closing a SELL subtracts
  from the portfolio, closing twice subtracts twice.
* `order_simulator`: every order of a tick gets the whole volume; slippage above the bid
  makes a price negative.
* `paper_trading/engine.py:64`: execute_paper_trade has no endpoint; `PaperTrading` models its
  overlapping calls as those of the handlers it is written for.
* `pnl_engine/app.py` queries columns that paper_trades lacks (V8, V38).
* `billing/app.py:407`: no event is compared with those before.  An older event that comes
  after a newer one (and is not a repetition) puts its status over the newer, and one
  that comes before the creation was recorded finds no row, is recorded and
  answered, and never has an effect.  `BillingKept` says what is left: no event overrides
  one it should not as a repetition, and no other way loses one.
* `billing/`: a subscription.created before checkout.completed leaves the customer
  without a chat for ever; "3 signals/day" is overrun by racing deliveries; a
  status outside the table's CHECK list fails each time.  should_deliver_signal has
  no caller outside tests.
* `strategy_marketplace_api/app.py:390`: GREATEST(count - 1, 0) swallows a decrement that
  overtakes its increment; a like taken away twice counts twice.

## Not modelled

* Numeric code (fusion, scores, indicators, learning, the genetic algorithm itself):
  floats, no ordering questions.
* CRUD APIs of single statements, MCP servers, UI, deployment: stateless or
  presentation.  They are most of the repository's lines.
* The time local steps and most Redis commands take: it passes while the kill switch is
  read, a symbol is fetched, a signal is emitted, a message is sent or a cache entry is
  put; elsewhere a command is over at once, its reply's way back included.
* Isolation inside one statement: an UPDATE whose subquery counts rows (`CommunityCounters`) is
  taken as one step.  That is an assumption: under READ COMMITTED the count may be of a
  snapshot that is older than the row the UPDATE waited for.
* Asyncio internals: `put_nowait` from the runner's thread (`dashboard.py:231`) does not
  wake the event loop, so that an event may wait for the consumer's 15 s timeout.
  `SignalStream` delivers at some later time, which covers the delay.
* Risk limits nobody feeds (`update_portfolio_exposure`, `reset_daily`): they may
  reject at any time.
* State lost in a restart of the runner (limits, deduplication, `risk_manager.py:42`):
  each run starts in that state.
* Code with state that nothing reaches or that cannot run as it stands:
  `market_data_ws` (nobody calls broadcast), `config_service` (no user of on_change),
  `strategy_rotation` (get_active_positions returns an empty list), `learning_engine`
  (a reserved word as an alias, a table `candles` that no migration makes),
  `strategy_marketplace_api` publish (seven arguments for eight placeholders),
  `beta_onboarding` (redeem does not fit the schema), `order_api` (nothing fills its
  orders), `outcome_tracker` as built.
* The older `orchestrator_agent`, the alert engine, the webhook dispatcher, the
  optimizer's job store, `position_manager`, `auth_api`: small state machines that are
  still to be done.

## Plan

Done: the pipeline (1. `RunLock`, 2. `BreakerOps` and `CircuitBreaker`, 3. `SignalStream`,
4. `RunnerCycle`, 5. `SignalGate`), delivery (6. `DeadLetterQueue`, 7. `SignalDelivery` with
`RetryQueue`), ingestion (8. `CandleIngest` with `RequestFactory`, 9. `StrategyConsumer` with
`Settlement`), and `Services` and `Ledgers` (10.).  Proofs about `RunLock`, `RunnerCycle`,
`DeadLetterQueue`, `SignalDelivery`, `StrategyConsumer`, `RequestFactory` and
the services.

Next, in this order: the webhook dispatcher and the alert engine as further
services; the order API with positions, if something comes to fill orders; a
pipeline of `RequestFactory`, `DiscoveryJob` and `StrategyConsumer` over shared topics,
each replaced by `Settlement`.
