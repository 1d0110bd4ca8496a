--------------------------- MODULE AgentOrchestration --------------------------
(***************************************************************************)
(* services/agent_orchestration: a cycle lets a language model discover    *)
(* strategies, backtests what it names, promotes the best and retires      *)
(* promoted ones that do badly.  Each phase is behind a circuit breaker of *)
(* its own kind (resilience.py); the state is a dictionary of candidates   *)
(* and two histories, written to a file when a cycle ends.                 *)
(*                                                                         *)
(* Left out: metrics and allocation weights, the conversation with the     *)
(* model, the decision log, the time between cycles.                       *)
(***************************************************************************)
EXTENDS Integers, FiniteSets, FiniteSetsExt

CONSTANTS
    Strategy,           \* names of strategies
    MaxPromoted,        \* MAX_PROMOTED_PER_CYCLE
    FailuresToOpen,     \* CIRCUIT_BREAKER_FAILURE_THRESHOLD
    MaxCycles,          \* bound: cycles
    MaxAgentDeaths      \* bound: deaths of the process

VARIABLES
    state,      \* candidates' phases, promotions and retirements by name
    file,       \* the state on disk
    breaker,    \* failure_count by server; the breaker is open from the threshold on
    step,       \* the phase that is next in the cycle
    found,      \* discovered_names
    passed,     \* validated
    cycles, agentDeaths,
    relisted    \* history: candidates the model listed as created again

agentVars == <<state, file, breaker, step, found, passed, cycles, agentDeaths, relisted>>

Server == {"strategy", "backtest", "signal"}

Init ==
    /\ state = [phase |-> [n \in Strategy |-> "none"],
                promotions |-> [n \in Strategy |-> 0],
                retirements |-> [n \in Strategy |-> 0]]
    /\ file = state
    /\ breaker = [s \in Server |-> 0]
    /\ step = "idle" /\ found = {} /\ passed = {}
    /\ cycles = 0 /\ agentDeaths = 0
    /\ relisted = {}

Candidates == {n \in Strategy : state.phase[n] # "none"}
SetPhase(names, phase) ==
    [n \in Strategy |-> IF n \in names THEN phase ELSE state.phase[n]]

\* CircuitBreaker: the phase is refused, runs to its end, or raises.  A breaker
\* that is open may have rested for long enough to let the phase be tried.
Refused(s) == breaker[s] = FailuresToOpen /\ UNCHANGED breaker
Succeeds(s) == breaker' = [breaker EXCEPT ![s] = 0]
Raises(s) == breaker' = [breaker EXCEPT ![s] = Min({@ + 1, FailuresToOpen})]

StartCycle ==
    /\ step = "idle" /\ cycles < MaxCycles
    /\ cycles' = cycles + 1
    /\ step' = "discovery"
    /\ UNCHANGED <<state, file, breaker, found, passed, agentDeaths, relisted>>

\* run_discovery: the names it saw created are new, but the model's closing
\* summary takes their place, whatever it lists.
Discovered == SUBSET Strategy

\* Phase 1: every name discovered gets a fresh record.
Discover ==
    /\ step = "discovery" /\ step' = "validation"
    /\ \/ /\ Refused("strategy") \/ Raises("strategy")
          /\ found' = {}
          /\ UNCHANGED <<state, relisted>>
       \/ /\ Succeeds("strategy")
          /\ found' \in Discovered
          /\ state' = [state EXCEPT !.phase = SetPhase(found', "discovery")]
          /\ relisted' = relisted \union (found' \intersect Candidates)
    /\ UNCHANGED <<file, passed, cycles, agentDeaths>>

\* Phase 2: validate_candidates, for the names of this cycle only
Validate ==
    /\ step = "validation" /\ step' = "promotion"
    /\ \/ /\ Refused("backtest") \/ Raises("backtest")
          /\ passed' = {}
          /\ UNCHANGED state
       \/ /\ Succeeds("backtest")
          /\ passed' \in SUBSET found
          /\ state' = [state EXCEPT !.phase = SetPhase(passed', "validation")]
    /\ UNCHANGED <<file, found, cycles, agentDeaths, relisted>>

\* promote_winners that takes the first of all that were ever validated
WinnersOfAll == {best \in SUBSET Candidates : Cardinality(best) <= MaxPromoted}

\* promote_winners: the first of this cycle's
Winners == {best \in SUBSET passed : Cardinality(best) = Min({Cardinality(passed), MaxPromoted})}

\* Phase 3
Promote ==
    /\ step = "promotion" /\ step' = "monitoring"
    /\ \/ /\ Refused("signal") \/ Raises("signal")
          /\ UNCHANGED state
       \/ /\ Succeeds("signal")
          /\ \E best \in Winners :
               state' = [state EXCEPT
                   !.phase = SetPhase(best, "promotion"),
                   !.promotions = [n \in Strategy |-> @[n] + IF n \in best THEN 1 ELSE 0]]
    /\ UNCHANGED <<file, found, passed, cycles, agentDeaths, relisted>>

\* Phase 4: monitor_promoted_strategies retires any of the promoted ones
Monitor ==
    /\ step = "monitoring" /\ step' = "save"
    /\ \/ /\ Refused("signal") \/ Raises("signal")
          /\ UNCHANGED state
       \/ /\ Succeeds("signal")
          /\ \E bad \in SUBSET {n \in Strategy : state.phase[n] = "promotion"} :
               state' = [state EXCEPT
                   !.phase = SetPhase(bad, "none"),
                   !.retirements = [n \in Strategy |-> @[n] + IF n \in bad THEN 1 ELSE 0]]
    /\ UNCHANGED <<file, found, passed, cycles, agentDeaths, relisted>>

\* The end of run_cycle: the file is replaced, or that failed and was logged.
Save ==
    /\ step = "save" /\ step' = "idle"
    /\ file' \in {file, state}
    /\ found' = {} /\ passed' = {}
    /\ UNCHANGED <<state, breaker, cycles, agentDeaths, relisted>>

\* The process dies and loads the file; its breakers are new.
CrashAgent ==
    /\ agentDeaths < MaxAgentDeaths
    /\ agentDeaths' = agentDeaths + 1
    /\ state' = file
    /\ breaker' = [s \in Server |-> 0]
    /\ step' = "idle" /\ found' = {} /\ passed' = {}
    /\ UNCHANGED <<file, cycles, relisted>>

Next == StartCycle \/ Discover \/ Validate \/ Promote \/ Monitor \/ Save \/ CrashAgent
Spec == Init /\ [][Next]_agentVars

----------------------------------------------------------------------------
(* Properties *)

\* The histories and the candidates agree, in memory and in the file a restart
\* begins from: what was promoted once more than it was retired is watched, and
\* nothing else is, unless the model listed it again and so reset its record.
PromotedAreWatched ==
    \A s \in {state, file}, n \in Strategy \ relisted :
        s.promotions[n] - s.retirements[n] = IF s.phase[n] = "promotion" THEN 1 ELSE 0
=============================================================================
