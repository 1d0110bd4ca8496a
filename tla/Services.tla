------------------------------- MODULE Services -------------------------------
(***************************************************************************)
(* Services of TradeStream that share no state with each other nor with    *)
(* the modelled pipeline.  A behaviour is a behaviour of one of them, which *)
(* its initial state picks; the others rest in an initial state of theirs. *)
(* One run so checks what each of them promises.                           *)
(*                                                                         *)
(* Constants and variables bear the names they have in the instanced       *)
(* modules, which say what they mean.                                      *)
(***************************************************************************)
EXTENDS Integers, Sequences

CONSTANTS
    Symbol, Action, Hour, MaxPerHour, MaxActive, DedupWindow,
    Message, Chain, Messaging, Window, PerHour, MaxAttempts, SendTime, MaxUnmarked,
    MaxPublished, None,
    Router, Notice, Senders, Insistent, MaxPosts, Limit, MaxRouted, MaxRouterDeaths,
    Strategy, MaxPromoted, FailuresToOpen, MaxCycles, MaxAgentDeaths,
    Decision, Job, Conn, MaxFeedback, MaxRuns, MaxStatementFaults,
    Call, Fallbacks, Premium, Threshold, MaxCalls,
    Instance, TTL, DegradedTTL, MaxSkew, MaxStall, MaxClock,
    Connection, MaxConnections, MaxBroadcasts, MaxHeartbeats,
    Implementation, Elsewhere, MaxPerRun, Percentage, MaxReactivations, MaxCleanings, MaxDrifts,
    Browser, ReplaySize, QueueSize, MaxNumbered, MaxEpochs,
    Caller, FailureThreshold, RecoveryTimeout, HalfOpenMaxCalls

ASSUME ServiceConstants ==
    /\ {Hour, Window, MaxAttempts, MaxPosts, Threshold, TTL, MaxPerRun, ReplaySize, QueueSize, MaxEpochs,
        FailureThreshold, RecoveryTimeout, HalfOpenMaxCalls} \subseteq Nat \ {0}
    /\ {MaxPerHour, MaxActive, DedupWindow, PerHour, SendTime, MaxUnmarked, Limit, DegradedTTL, MaxSkew, MaxStall,
        MaxClock, MaxConnections, MaxBroadcasts, MaxHeartbeats, Elsewhere, MaxReactivations,
        MaxNumbered} \subseteq Nat
    /\ TTL <= DegradedTTL
    /\ Percentage \in 0..100
    /\ None \notin Message

ASSUME ChannelLists ==
    /\ Chain \in Seq({Chain[k] : k \in DOMAIN Chain})
    /\ Senders \in Seq({Senders[k] : k \in DOMAIN Senders}) /\ Senders # << >>

VARIABLES
    running,    \* the service that runs
    history, active, lastEmit, stage, current, sent, sinceSent, accepted,
    mode, quiet, delivered, failed, slot, hourly, receipt, signal, targets, attempt, sleep,
    waited, taken, repeats, outcome, published, got, unmarked, apart,
    delivery, routing, claims, success, used, routed, deaths, copies, unanswered,
    state, file, breaker, step, found, passed, cycles, agentDeaths, relisted,
    table, expired, feedback, job, autocommit, runs, statementFaults, given, leaked,
    breakers, calls, probes, requests,
    clock, skew, redis, local, caller, answer,
    stream, sessions, sequence, resumeAfter, inbox, connections, broadcasts, shown,
    status, grade, specRetired, reactivations, phase, rows, doomed, gone, awake, moved,
    surprised, cleanings, drifts,
    epoch, counter, replayBuffer, listeners, publishing, conn, replay, queue, lastSeen,
    replayedTo, subscribedAt, dropped,
    shared, call, rested, failures, raised

gateVars == <<history, active, lastEmit, stage, current, sent, sinceSent, accepted>>
routingVars == <<mode, quiet, delivered, failed, slot, hourly, receipt, signal, targets, attempt,
                 sleep, waited, taken, repeats, outcome, published, got, unmarked, apart>>
notifierVars == <<delivery, routing, claims, success, used, routed, deaths, copies, unanswered>>
agentVars == <<state, file, breaker, step, found, passed, cycles, agentDeaths, relisted>>
storeVars == <<table, expired, feedback, job, autocommit, runs, statementFaults, given, leaked>>
modelVars == <<breakers, calls, probes, requests>>
cacheVars == <<clock, skew, redis, local, caller, answer>>
gatewayVars == <<stream, sessions, sequence, resumeAfter, inbox, connections, broadcasts, shown>>
janitorVars == <<status, grade, specRetired, reactivations, phase, rows, doomed, gone, awake,
                 moved, surprised, cleanings, drifts>>
busVars == <<epoch, counter, replayBuffer, listeners, publishing, conn, replay, queue,
    lastSeen, replayedTo, subscribedAt, dropped>>
breakerVars == <<shared, call, rested, failures, raised>>
vars == <<running, gateVars, routingVars, notifierVars, agentVars, storeVars, modelVars,
          cacheVars, gatewayVars, janitorVars, busVars, breakerVars>>

Gate == INSTANCE SignalGate
Routing == INSTANCE DeliveryRouting
Notifier == INSTANCE NotificationRouter
Agents == INSTANCE AgentOrchestration
Store == INSTANCE DecisionStore
Models == INSTANCE ModelRouter
Cache == INSTANCE SignalCache
Gateway == INSTANCE AgentGateway
Cleaner == INSTANCE Janitor
Bus == INSTANCE SignalStream
Circuit == INSTANCE CircuitBreaker

Service == {"gate", "routing", "notifier", "agents", "store", "models", "cache",
            "gateway", "janitor", "bus", "breaker"}

\* What a service that does not run may begin with makes no difference.
Init ==
    /\ running \in Service
    /\ Gate!Init /\ (running # "gate" => current = CHOOSE g \in Gate!Signal : TRUE)
    /\ Routing!Init /\ (running # "routing" => mode = "primary_only")
    /\ Notifier!Init
    /\ (running # "notifier" =>
           /\ delivery = "primary_only"
           /\ used = [c \in {Senders[k] : k \in DOMAIN Senders} |-> 0])
    /\ Agents!Init
    /\ Store!Init
    /\ Models!Init
    /\ Cache!Init /\ (running # "cache" => skew = [i \in Instance |-> 0])
    /\ Gateway!Init
    /\ Cleaner!Init /\ (running # "janitor" => grade = [i \in Implementation |-> "good"])
    /\ Bus!Init
    /\ Circuit!Init

\* The others rest.
Only(service) ==
    /\ running = service
    /\ UNCHANGED running
    /\ service # "gate" => UNCHANGED gateVars
    /\ service # "routing" => UNCHANGED routingVars
    /\ service # "notifier" => UNCHANGED notifierVars
    /\ service # "agents" => UNCHANGED agentVars
    /\ service # "store" => UNCHANGED storeVars
    /\ service # "models" => UNCHANGED modelVars
    /\ service # "cache" => UNCHANGED cacheVars
    /\ service # "gateway" => UNCHANGED gatewayVars
    /\ service # "janitor" => UNCHANGED janitorVars
    /\ service # "bus" => UNCHANGED busVars
    /\ service # "breaker" => UNCHANGED breakerVars

Next ==
    \/ Only("gate") /\ Gate!Next
    \/ Only("routing") /\ Routing!Next
    \/ Only("notifier") /\ Notifier!Next
    \/ Only("agents") /\ Agents!Next
    \/ Only("store") /\ Store!Next
    \/ Only("models") /\ Models!Next
    \/ Only("cache") /\ Cache!Next
    \/ Only("gateway") /\ Gateway!Next
    \/ Only("janitor") /\ Cleaner!Next
    \/ Only("bus") /\ Bus!Next
    \/ Only("breaker") /\ Circuit!Next

Spec == Init /\ [][Next]_vars

----------------------------------------------------------------------------
(* Properties *)
(* Each is about a service that runs; one that rests is in an initial state. *)

Runs(service) == running = service

\* However slow emissions are, the signal service gets no more signals of a
\* symbol in an hour than the limit, the same one no sooner than the window, and
\* no more in all than may be active at once, for no close is ever reported
\* (risk_manager.py check_signal, coordinator.py _process_symbol).
GateKept ==
    /\ [](Runs("gate") => Gate!RateLimited /\ Gate!ActiveLimited)
    /\ Gate!DedupSpacing

\* A signal published again is not sent to the user again, and messages about a
\* symbol are spaced; routers that race for a signal send it once per channel,
\* and a fallback chain ends with a success: each but for the copies whose reply was
\* lost, which are sent again (delivery/router.py, deduplication.py, rate_limiter.py;
\* notification_service).
MessagesOnce ==
    /\ [](Runs("routing") => Routing!SentOnce)
    /\ Routing!SendsSpaced
    /\ [](Runs("notifier") => Notifier!OnePerChannel /\ Notifier!FallbackStops)

\* What is promoted and not retired is watched, also after a restart
\* (agent_orchestration).
PromotedAreWatched == Runs("agents") => Agents!PromotedAreWatched

\* Retention deletes a decision with all of its feedback or leaves both; a
\* janitor's cycle leaves something better than what it retired, is no larger
\* than its limits, and retires a specification only when it was overtaken
\* (autonomous_runner/retention_job.py, janitor_agent/agent.py).
MaintenanceSafe ==
    /\ Runs("store") => Store!RetentionWhole
    /\ Runs("janitor") =>
           Cleaner!AlternativeRemains /\ Cleaner!BatchBounded /\ Cleaner!SpecOutlivesCycles

\* A half-open model gets one call, and nothing fails before the chain was tried
\* (model_router/router.py).
ProbesAndChain == Runs("models") => Models!ProbesAndChain

\* What the coordinator is told is no older than the normal time to live, from
\* whichever tier, and in degraded times too (autonomous_runner/signal_cache.py).
AnswersFresh == Runs("cache") => Cache!AnswersFresh

\* A browser sees growing numbers and each event once, and every stream not
\* ended is counted (agent_gateway/main.py).
StreamsInOrder == Runs("gateway") => Gateway!InOrder /\ Gateway!ConnectionsCounted

\* What waits in a live connection's queue is all it has yet to see, but for what
\* the full queue refused (autonomous_runner/dashboard.py signal_stream, on_event).
LiveStreamComplete == Runs("bus") => Bus!LiveStreamComplete

\* A browser sees the numbers of a process grow, across reconnections
\* (dashboard.py signal_stream, signal_event_bus.py get_replay_buffer).
InOrderOnce == Bus!InOrderOnce

\* An event is missed for one of three reasons: it left the replay buffer before
\* the browser came back, the full queue refused it, or it was published after the
\* buffer was read and before the subscription (signal_event_bus.py, dashboard.py).
GapsExplained == Bus!GapsExplained

\* A breaker that lets everything through has not been told of a threshold of
\* failures in a row, in whatever order the overlapping calls reported
\* (shared/circuit_breaker.py record_failure).
ClosedMeansHealthy == Runs("breaker") => Circuit!ClosedMeansHealthy

\* A half-open breaker that refuses waits for a call that is out, or lost as many as
\* it allows to exceptions between allow_request and the report
\* (shared/circuit_breaker.py allow_request).
NoWedge == Runs("breaker") => Circuit!NoWedge

\* Unless the breaker is closed, no call goes to the service before it rested for
\* the recovery timeout, even if the last failure was a call's admitted long before
\* (shared/circuit_breaker.py _evaluate_state).
CallsHalted == Circuit!CallsHalted
=============================================================================
