---------------------------- MODULE RunnerCycle ----------------------------
(***************************************************************************)
(* The loop of the autonomous runner (autonomous_runner/runner.py,         *)
(* _run_cycle) with everything that can make it skip a cycle: the kill     *)
(* switch (kill_switch.py), the backpressure cooldown, the LLM circuit     *)
(* breaker (shared/circuit_breaker.py) and the adaptive scheduler          *)
(* (adaptive_scheduler.py); and the part of SignalCoordinator that feeds   *)
(* the last two, one strategy fetch and one latency sample per symbol.     *)
(*                                                                         *)
(* Three parties act: the runner thread, the dashboard thread (it toggles  *)
(* the same KillSwitch object and evaluates the breaker), and any other    *)
(* service that writes the kill switch key in Redis.                       *)
(*                                                                         *)
(* A latency is "fast" or above p99_threshold_ms, "slow".  Batch size and  *)
(* symbol timeout are left out: the coordinator computes them, but its     *)
(* loop is sequential and _process_symbol ignores the timeout.             *)
(***************************************************************************)
EXTENDS BreakerOps, Sequences

CONSTANTS
    NumSymbols,         \* symbols processed in a cycle
    CycleInterval,      \* pause between cycles
    CheckInterval,      \* kill_switch.check_interval_seconds
    MaxOverruns,        \* backpressure_max_overruns
    CooldownCycles,     \* cooldown_cycles
    WindowSize          \* latency_window_size

ASSUME RunnerConstants ==
    /\ NumSymbols \in Nat \ {0}
    /\ CycleInterval \in Nat \ {0}
    /\ CheckInterval \in Nat
    /\ MaxOverruns \in Nat \ {0}
    /\ CooldownCycles \in Nat
    /\ WindowSize \in Nat \ {0}

VARIABLES
    pc,         \* runner: "sleep", "reading", "assign", "gate" or "cycle"
    sleep,      \* time left of the pause
    left,       \* symbols left in the running cycle
    breaker,    \* coordinator.llm_circuit_breaker
    cooldown,   \* _cooldown_remaining
    overruns,   \* _consecutive_overruns
    latencies,  \* adaptive._latencies, kept sorted
    key,        \* Redis: is the kill switch set?
    cache,      \* KillSwitch._local_cache
    sinceCheck, \* now - KillSwitch._last_check, up to CheckInterval
    got,        \* the value is_active read and has not stored yet
    dash,       \* dashboard: value it wrote to Redis but not yet to the cache
    killed,     \* history: how long the key has been set, up to CheckInterval
    blind       \* history: did the last read of the key fail?

loopVars == <<pc, sleep, left>>
gateVars == <<breaker, cooldown, overruns, latencies>>
killVars == <<key, cache, sinceCheck, got, dash, killed, blind>>
vars == <<loopVars, gateVars, killVars>>

Fast == 0
Slow == 1
Latency == {Fast, Slow}

Init ==
    /\ pc = "sleep" /\ sleep = 0 /\ left = 0
    /\ breaker = NewBreaker
    /\ cooldown = 0 /\ overruns = 0
    /\ latencies = << >>
    /\ key \in BOOLEAN
    /\ cache = FALSE /\ sinceCheck = CheckInterval
    /\ got = FALSE /\ dash = "idle"
    /\ killed = 0 /\ blind = FALSE

----------------------------------------------------------------------------
(* AdaptiveScheduler *)

\* record_latency: insert in order, then drop the first, the smallest.
RecordLatency(sorted, x) ==
    LET inserted == SelectSeq(sorted, LAMBDA y : y <= x) \o <<x>>
                      \o SelectSeq(sorted, LAMBDA y : y > x)
    IN  IF Len(inserted) > WindowSize THEN Tail(inserted) ELSE inserted

\* get_state().should_skip_cycle: with three samples or more, the one at index
\* int(n * 0.99) is above the P99 threshold.
ShouldSkip(sorted) ==
    LET n == Len(sorted) IN
    n >= 3 /\ sorted[((n * 99) \div 100) + 1] = Slow

----------------------------------------------------------------------------
(* One cycle *)

\* _run_cycle returns and the loop pauses.
EndOfCycle == pc' = "sleep" /\ sleep' = CycleInterval /\ left' = 0

\* is_active answered: return from _run_cycle, or look at the other gates.
Answer(active) ==
    IF active THEN EndOfCycle
              ELSE pc' = "gate" /\ UNCHANGED <<sleep, left>>

\* is_active that asks Redis only when the cached answer is "not active".
BeginCycleTrustActive ==
    /\ pc = "sleep" /\ sleep = 0
    /\ IF sinceCheck < CheckInterval \/ cache
         THEN Answer(cache) /\ UNCHANGED sinceCheck
         ELSE /\ sinceCheck' = 0
              /\ pc' = "reading" /\ UNCHANGED <<sleep, left>>
    /\ UNCHANGED <<gateVars, key, cache, got, dash, killed, blind>>

\* is_active: a recent answer is reused; otherwise the time of the check is
\* noted and Redis is asked.
BeginCycle ==
    /\ pc = "sleep" /\ sleep = 0
    /\ IF sinceCheck < CheckInterval
         THEN Answer(cache) /\ UNCHANGED sinceCheck
         ELSE /\ sinceCheck' = 0
              /\ pc' = "reading" /\ UNCHANGED <<sleep, left>>
    /\ UNCHANGED <<gateVars, key, cache, got, dash, killed, blind>>

\* is_active, the GET: Redis answers, or raises and the cached value is used.
ReadKey ==
    /\ pc = "reading"
    /\ \/ /\ got' = key
          /\ blind' = FALSE
          /\ pc' = "assign" /\ UNCHANGED <<sleep, left>>
       \/ /\ blind' = TRUE
          /\ Answer(cache)
          /\ UNCHANGED got
    /\ UNCHANGED <<gateVars, key, cache, sinceCheck, dash, killed>>

\* is_active that returns what it read without storing it.
StoreAnswerForgotten ==
    /\ pc = "assign"
    /\ got' = FALSE
    /\ Answer(got)
    /\ UNCHANGED <<gateVars, key, cache, sinceCheck, dash, killed, blind>>

\* is_active, after the GET: the answer is stored, over whatever the dashboard
\* stored meanwhile.
StoreAnswer ==
    /\ pc = "assign"
    /\ cache' = got
    /\ got' = FALSE
    /\ Answer(got)
    /\ UNCHANGED <<gateVars, key, sinceCheck, dash, killed, blind>>

\* _run_cycle after the kill switch, up to the loop over the symbols: cooldown,
\* then the breaker, then the adaptive scheduler, whose empty result counts as
\* a successful cycle.
Gate ==
    /\ pc = "gate"
    /\ \/ /\ cooldown > 0
          /\ cooldown' = cooldown - 1
          /\ EndOfCycle
          /\ UNCHANGED <<breaker, overruns>>
       \/ /\ cooldown = 0
          /\ breaker' = AllowRequest(breaker)
          /\ UNCHANGED cooldown
          /\ \/ /\ ~Allowed(breaker)
                /\ EndOfCycle
                /\ UNCHANGED overruns
             \/ /\ Allowed(breaker) /\ ShouldSkip(latencies)
                /\ overruns' = 0
                /\ EndOfCycle
             \/ /\ Allowed(breaker) /\ ~ShouldSkip(latencies)
                /\ pc' = "cycle" /\ left' = NumSymbols
                /\ UNCHANGED <<sleep, overruns>>
    /\ UNCHANGED <<latencies, killVars>>

\* _fetch_strategy_signal that reports to the breaker only what went wrong.
FetchReportFailuresOnly(b) == {b, RecordFailure(b)}

\* _fetch_strategy_signal reports to the breaker: success, failure, or success
\* followed by failure when the answer cannot be parsed.
FetchReport(b) ==
    {RecordSuccess(b), RecordFailure(b), RecordFailure(RecordSuccess(b))}

\* _process_symbol: the strategy fetch, then the latency sample, unless an
\* exception (which the loop over the symbols catches) comes first.
ProcessSymbol ==
    /\ pc = "cycle" /\ left > 0
    /\ breaker' \in FetchReport(breaker)
    /\ \/ UNCHANGED latencies
       \/ \E x \in Latency : latencies' = RecordLatency(latencies, x)
    /\ left' = left - 1
    /\ UNCHANGED <<pc, sleep, cooldown, overruns, killVars>>

\* The cycle ends well, or an exception reaches _run_cycle's handler, which
\* starts a cooldown after MaxOverruns such cycles in a row.
FinishCycle ==
    /\ pc = "cycle" /\ left = 0
    /\ EndOfCycle
    /\ \/ overruns' = 0 /\ UNCHANGED cooldown
       \/ IF overruns + 1 >= MaxOverruns
            THEN overruns' = 0 /\ cooldown' = CooldownCycles
            ELSE overruns' = overruns + 1 /\ UNCHANGED cooldown
    /\ UNCHANGED <<breaker, latencies, killVars>>

Runner ==
    \/ BeginCycle
    \/ ReadKey
    \/ StoreAnswer
    \/ Gate
    \/ ProcessSymbol
    \/ FinishCycle

----------------------------------------------------------------------------
(* The dashboard thread, other services, time *)

SetKey(value) ==
    /\ key' = value
    /\ killed' = IF key /\ value THEN killed ELSE 0

\* activate / deactivate, first the Redis command ...
DashboardWritesKey(value) ==
    /\ dash = "idle"
    /\ SetKey(value)
    /\ dash' = IF value THEN "activating" ELSE "deactivating"
    /\ UNCHANGED <<loopVars, gateVars, cache, sinceCheck, got, blind>>

\* ... then the cached value of the shared KillSwitch object.
DashboardWritesCache ==
    /\ dash # "idle"
    /\ cache' = (dash = "activating")
    /\ dash' = "idle"
    /\ UNCHANGED <<loopVars, gateVars, key, sinceCheck, got, killed, blind>>

\* another service or an admin tool sets or deletes the key
OtherWritesKey(value) ==
    /\ SetKey(value)
    /\ UNCHANGED <<loopVars, gateVars, cache, sinceCheck, got, dash, blind>>

\* get_pipeline_status evaluates the breaker in the dashboard's thread
DashboardReadsBreaker ==
    /\ breaker' = EvaluateState(breaker)
    /\ UNCHANGED <<loopVars, cooldown, overruns, latencies, killVars>>

\* Time passes while the runner pauses, waits for Redis to look the key up, or
\* waits for a symbol's MCP calls; the answer's way back and the other steps,
\* which are local, take no time.
Tick ==
    /\ pc \in {"sleep", "reading", "cycle"}
    /\ dash = "idle"
    /\ sleep' = IF sleep > 0 THEN sleep - 1 ELSE 0
    /\ breaker' = Age(breaker)
    /\ sinceCheck' = Saturate(sinceCheck + 1, CheckInterval)
    /\ killed' = IF key THEN Saturate(killed + 1, CheckInterval) ELSE 0
    /\ UNCHANGED <<pc, left, cooldown, overruns, latencies, key, cache, got, dash,
                   blind>>

Environment ==
    \/ \E value \in BOOLEAN : DashboardWritesKey(value)
    \/ DashboardWritesCache
    \/ \E value \in BOOLEAN : OtherWritesKey(value)
    \/ DashboardReadsBreaker

Next == Runner \/ Environment \/ Tick

Spec == Init /\ [][Next]_vars

\* The runner thread and the dashboard's request are scheduled; time passes.
Fairness ==
    /\ WF_vars(Runner)
    /\ WF_vars(DashboardWritesCache)
    /\ SF_vars(Tick)

FairSpec == Spec /\ Fairness

----------------------------------------------------------------------------
(* Properties *)

Window == UNION {[1..n -> Latency] : n \in 0..WindowSize}

\* Types of all variables; the overrun counter never reaches its limit and the
\* latencies are sorted.
TypeOK ==
    /\ pc \in {"sleep", "reading", "assign", "gate", "cycle"}
    /\ sleep \in 0..CycleInterval
    /\ left \in 0..NumSymbols
    /\ breaker \in BreakerType
    /\ cooldown \in 0..CooldownCycles
    /\ overruns \in 0..(MaxOverruns - 1)
    /\ latencies \in Window
    /\ \A k \in 1..(Len(latencies) - 1) : latencies[k] <= latencies[k + 1]
    /\ {key, cache, got, blind} \subseteq BOOLEAN
    /\ sinceCheck \in 0..CheckInterval
    /\ dash \in {"idle", "activating", "deactivating"}
    /\ killed \in 0..CheckInterval

CycleStarts == pc = "gate" /\ pc' = "cycle"

\* The kill switch works: whoever set the key, and whatever the dashboard
\* thread did to the shared object meanwhile, no cycle starts once the key has
\* been set for CheckInterval, provided the last read of it did not fail.
KillSwitchHonoured ==
    [][CycleStarts => killed < CheckInterval \/ blind]_vars

\* The runner cannot starve itself of its own breaker: while a half-open
\* breaker refuses cycles, the cycle it admitted is still running, unless the
\* adaptive scheduler ended that cycle before it fetched anything.
BreakerNotWedged ==
    (breaker.state = "half_open" /\ ~Allowed(breaker))
        => pc = "cycle" \/ ShouldSkip(latencies)

\* The service does not stop by itself: unless the kill switch stays set or
\* unreadable, or the adaptive scheduler keeps asking for a skip, cycles keep
\* starting, through any sequence of failing fetches, failing cycles, breaker
\* trips and cooldowns.
CyclesContinue ==
    (<>[]~key /\ <>[]~blind /\ <>[]~ShouldSkip(latencies)) => []<>(pc = "cycle")

\* "Background service that continuously generates trading signals by polling
\* all signal sources on configurable intervals" (runner.py line 3), with only
\* the kill switch as an excuse.
ContinuousGeneration ==
    (<>[]~key /\ <>[]~blind) => []<>(pc = "cycle")

=============================================================================
