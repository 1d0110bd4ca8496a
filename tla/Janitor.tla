-------------------------------- MODULE Janitor --------------------------------
(***************************************************************************)
(* The janitor's retirement cycle (janitor_agent/agent.py, retirement_      *)
(* criteria.py, db_maintenance.py) over the implementations of one strategy *)
(* specification for one symbol.  A cycle reads its candidates, judges them *)
(* one by one with queries of their own, approves as many as its limits     *)
(* allow, retires each in a transaction of its own and then looks at the    *)
(* specification.  Meanwhile forward tests go on and operators reactivate.  *)
(*                                                                         *)
(* The queries are modelled as they are meant: the migrations call the key  *)
(* of strategy_implementations id where they say impl_id.                   *)
(***************************************************************************)
EXTENDS Integers, FiniteSets, FiniteSetsExt

CONSTANTS
    Implementation,     \* implementations of the specification for the symbol
    Elsewhere,          \* implementations of others that are not retired
    MaxPerRun,          \* RetirementConfig.max_retirements_per_run
    Percentage,         \* max_retirement_percentage
    MaxReactivations,   \* max_reactivation_attempts
    MaxCleanings,       \* bound on cycles
    MaxDrifts           \* bound on changes from outside

VARIABLES
    status,         \* strategy_implementations.status
    grade,          \* forward_sharpe and forward_accuracy
    specRetired,    \* strategy_specs.status = 'RETIRED'
    reactivations,  \* entries in reactivation_log
    phase,          \* where the cycle stands
    rows,           \* candidates that wait for judgement: grades as they were read
    doomed,         \* decisions to retire
    gone,           \* implementations this cycle retired
    awake,          \* history: implementations not retired as the cycle began
    moved,          \* history: something changed from outside during this cycle
    surprised,      \* history: something once did while a cycle retired
    cleanings, drifts

vars == <<status, grade, specRetired, reactivations, phase, rows, doomed, gone, awake, moved,
          surprised, cleanings, drifts>>
databaseVars == <<status, grade, specRetired, reactivations>>

\* Sharpe below 0.5 and accuracy below 45 %; a Sharpe of 1 and more, with an
\* accuracy below 45 % and above it.  What lies between is never retired and no
\* alternative.
Grade == {"poor", "inaccurate", "good"}
Candidate == {"poor", "inaccurate"}
Alternative == {"inaccurate", "good"}

Live == {i \in Implementation : status[i] # "RETIRED"}

Init ==
    /\ status = [i \in Implementation |-> "VALIDATED"]
    /\ grade \in [Implementation -> Grade]
    /\ specRetired = FALSE
    /\ reactivations = [i \in Implementation |-> 0]
    /\ phase = "idle"
    /\ rows = {} /\ doomed = {} /\ gone = {} /\ awake = {}
    /\ moved = FALSE /\ surprised = FALSE
    /\ cleanings = 0 /\ drifts = 0

Fetch ==
    /\ phase = "idle" /\ cleanings < MaxCleanings
    /\ phase' = "judge"
    /\ rows' = {<<i, grade[i]>> : i \in {j \in Implementation :
                                            status[j] = "VALIDATED" /\ grade[j] \in Candidate}}
    /\ doomed' = {} /\ gone' = {}
    /\ awake' = Live
    /\ moved' = FALSE
    /\ cleanings' = cleanings + 1
    /\ UNCHANGED <<databaseVars, surprised, drifts>>

\* check_better_alternatives: the candidate itself counts if it has got better.
BetterExists == \E j \in Implementation : status[j] = "VALIDATED" /\ grade[j] \in Alternative

ShouldRetireEither(g) == g \in Candidate /\ BetterExists

\* evaluate_implementation goes by the row that was read.
ShouldRetire(g) == g = "poor" /\ BetterExists

\* "declining" stands for the trend and the regime.  A query that fails reads
\* like one that speaks against the retirement.
Judge ==
    /\ phase = "judge"
    /\ \E row \in rows, declining \in BOOLEAN :
        /\ rows' = rows \ {row}
        /\ doomed' = IF declining /\ ShouldRetire(row[2])
                     THEN doomed \cup {row[1]} ELSE doomed
    /\ UNCHANGED <<databaseVars, phase, gone, awake, moved, surprised, cleanings, drifts>>

\* The percentage is forgotten.
LimitOfRun(total) == MaxPerRun

LimitOf(total) == Max({1, Min({MaxPerRun, (total * Percentage) \div 100})})

\* The candidates of lowest Sharpe ratio come first.  A count that fails is zero.
ApplyBatchLimits ==
    /\ phase = "judge" /\ rows = {}
    /\ \E total \in {0, Cardinality(Live) + Elsewhere} :
           \E approved \in SUBSET doomed :
               /\ Cardinality(approved) = Min({LimitOf(total), Cardinality(doomed)})
               /\ doomed' = approved
    /\ phase' = "retire"
    /\ UNCHANGED <<databaseVars, rows, gone, awake, moved, surprised, cleanings, drifts>>

\* Whether the implementation is alone by now is not asked again.
ExecuteRetirement ==
    /\ phase = "retire"
    /\ \E i \in doomed :
        /\ doomed' = doomed \ {i}
        /\ \/ /\ status[i] # "RETIRED"
              /\ status' = [status EXCEPT ![i] = "RETIRED"]
              /\ gone' = gone \cup {i}
              /\ surprised' = (surprised \/ moved)
           \/ UNCHANGED <<status, gone, surprised>>
    /\ UNCHANGED <<grade, specRetired, reactivations, phase, rows, awake, moved, cleanings, drifts>>

\* evaluate_spec, for a specification that lost implementations in this cycle.
CheckSpec ==
    /\ phase = "retire" /\ doomed = {}
    /\ phase' = IF gone # {} /\ Live = {} THEN "spec" ELSE "idle"
    /\ UNCHANGED <<databaseVars, rows, doomed, gone, awake, moved, surprised, cleanings, drifts>>

RetireSpec ==
    /\ phase = "spec"
    /\ phase' = "idle"
    /\ specRetired' \in {specRetired, TRUE}
    /\ UNCHANGED <<status, grade, reactivations, rows, doomed, gone, awake, moved, surprised,
                   cleanings, drifts>>

\* The same process, between two cycles: no signal for 90 days.
RepairStaleValidatedStatus ==
    /\ phase = "idle"
    /\ \E i \in Implementation :
        /\ status[i] = "VALIDATED"
        /\ status' = [status EXCEPT ![i] = "STALE"]
    /\ UNCHANGED <<grade, specRetired, reactivations, phase, rows, doomed, gone, awake, moved,
                   surprised, cleanings, drifts>>

Outside ==
    /\ drifts < MaxDrifts
    /\ drifts' = drifts + 1
    /\ moved' = TRUE
    /\ surprised' = (surprised \/ gone # {})
    /\ UNCHANGED <<specRetired, phase, rows, doomed, gone, awake, cleanings>>

Drift ==
    /\ Outside
    /\ \E i \in Implementation, g \in Grade : grade' = [grade EXCEPT ![i] = g]
    /\ UNCHANGED <<status, reactivations>>

\* The specification stays as it is.
Reactivate ==
    /\ Outside
    /\ \E i \in Implementation :
        /\ status[i] = "RETIRED" /\ reactivations[i] < MaxReactivations
        /\ status' = [status EXCEPT ![i] = "VALIDATING"]
        /\ reactivations' = [reactivations EXCEPT ![i] = @ + 1]
    /\ UNCHANGED grade

Validate ==
    /\ Outside
    /\ \E i \in Implementation :
        /\ status[i] = "VALIDATING"
        /\ status' = [status EXCEPT ![i] = "VALIDATED"]
    /\ UNCHANGED <<grade, reactivations>>

CrashJanitor ==
    /\ phase # "idle"
    /\ phase' = "idle"
    /\ rows' = {} /\ doomed' = {}
    /\ UNCHANGED <<databaseVars, gone, awake, moved, surprised, cleanings, drifts>>

Next ==
    \/ Fetch \/ Judge \/ ApplyBatchLimits \/ ExecuteRetirement \/ CheckSpec \/ RetireSpec
    \/ RepairStaleValidatedStatus \/ Drift \/ Reactivate \/ Validate \/ CrashJanitor

Spec == Init /\ [][Next]_vars

----------------------------------------------------------------------------
(* Properties *)

\* While nothing changes from outside, a cycle that retired implementations left
\* a validated one with a Sharpe ratio of 1 or more, although every candidate was
\* judged before the first was retired (agent.py run_retirement_cycle).
AlternativeRemains == phase \in {"retire", "spec"} /\ gone # {} /\ ~moved => BetterExists

\* A specification is retired only after a cycle that something overtook: as
\* configured, evaluate_spec never finds one without implementations otherwise.
SpecOutlivesCycles == specRetired => surprised

\* However the counts fail, a cycle retires one or at most its share of what was
\* active as it began (retirement_criteria.py apply_batch_limits).
BatchBounded ==
    moved \/ Cardinality(gone) <= Max({1, ((Cardinality(awake) + Elsewhere) * Percentage) \div 100})
=============================================================================
