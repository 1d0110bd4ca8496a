--------------------------- MODULE CircuitBreaker ---------------------------
(***************************************************************************)
(* A circuit breaker (services/shared/circuit_breaker.py) shared by        *)
(* threads that follow the protocol of its docstring and of                *)
(* SignalDeliveryService.deliver_to_telegram: ask allow_request, make the  *)
(* call, report record_success or record_failure.  Calls overlap, so a     *)
(* report can arrive in a later state of the breaker than the one that     *)
(* admitted the call.                                                      *)
(*                                                                         *)
(* A caller can also raise between admission and report:                   *)
(* deliver_to_telegram has no try around sender.send_signal, whose message *)
(* formatting can raise before its own try.                                *)
(***************************************************************************)
EXTENDS BreakerOps

CONSTANT Caller    \* threads that use the breaker

VARIABLES
    shared,     \* the breaker
    call,       \* what each caller is doing: "idle" or "calling"
    rested,     \* history: ticks since a failure was last reported
    failures,   \* history: failures reported since the last success or reset
    raised      \* history: calls that raised since the breaker last changed its
                \* state, up to HalfOpenMaxCalls

vars == <<shared, call, rested, failures, raised>>

Init ==
    /\ shared = NewBreaker
    /\ call = [c \in Caller |-> "idle"]
    /\ rested = RecoveryTimeout
    /\ failures = 0
    /\ raised = 0

\* A change of the breaker's state takes it out of what a caller left behind.
NoteState == raised' = IF shared'.state = shared.state THEN raised ELSE 0

\* allow_request answers True: the caller goes to the service.
Admit(c) ==
    /\ call[c] = "idle"
    /\ Allowed(shared)
    /\ shared' = AllowRequest(shared)
    /\ call' = [call EXCEPT ![c] = "calling"]
    /\ NoteState
    /\ UNCHANGED <<rested, failures>>

\* allow_request answers False: the caller skips the delivery.
Refuse(c) ==
    /\ call[c] = "idle"
    /\ ~Allowed(shared)
    /\ shared' = AllowRequest(shared)
    /\ NoteState
    /\ UNCHANGED <<call, rested, failures>>

\* the call returned and record_success is called
Succeed(c) ==
    /\ call[c] = "calling"
    /\ shared' = RecordSuccess(shared)
    /\ NoteState
    /\ call' = [call EXCEPT ![c] = "idle"]
    /\ failures' = 0
    /\ UNCHANGED rested

\* the call failed and record_failure is called
Fail(c) ==
    /\ call[c] = "calling"
    /\ shared' = RecordFailure(shared)
    /\ NoteState
    /\ call' = [call EXCEPT ![c] = "idle"]
    /\ rested' = 0
    /\ failures' = Saturate(failures + 1, FailureThreshold)

\* an exception escapes between allow_request and the report
Abort(c) ==
    /\ call[c] = "calling"
    /\ call' = [call EXCEPT ![c] = "idle"]
    /\ raised' = Saturate(raised + 1, HalfOpenMaxCalls)
    /\ UNCHANGED <<shared, rested, failures>>

\* somebody reads state or to_dict (a dashboard), which evaluates the state
Observe ==
    /\ shared' = EvaluateState(shared)
    /\ NoteState
    /\ UNCHANGED <<call, rested, failures>>

\* an operator calls reset
ManualReset ==
    /\ shared' = Reset(shared)
    /\ NoteState
    /\ failures' = 0
    /\ UNCHANGED <<call, rested>>

\* time passes
Tick ==
    /\ shared' = Age(shared)
    /\ rested' = Saturate(rested + 1, RecoveryTimeout)
    /\ UNCHANGED <<call, failures, raised>>

Report(c) == Succeed(c) \/ Fail(c) \/ Abort(c)

CallerStep(c) == Admit(c) \/ Refuse(c) \/ Report(c)

Next == Tick \/ Observe \/ ManualReset \/ \E c \in Caller : CallerStep(c)

Spec == Init /\ [][Next]_vars

\* Callers keep asking, every call ends, time passes.  Nobody has to reset.
Fairness ==
    /\ WF_vars(Tick)
    /\ \A c \in Caller : WF_vars(Admit(c)) /\ WF_vars(Report(c))

FairSpec == Spec /\ Fairness

----------------------------------------------------------------------------
(* Properties *)

InFlight == {c \in Caller : call[c] = "calling"}

\* Types of all variables.
TypeOK ==
    /\ shared \in BreakerType
    /\ call \in [Caller -> {"idle", "calling"}]
    /\ rested \in 0..RecoveryTimeout
    /\ failures \in 0..FailureThreshold
    /\ raised \in 0..HalfOpenMaxCalls

\* A half-open breaker that refuses requests is waiting for somebody: a call
\* is still out and its report will decide.  Otherwise allow_request would
\* answer False for ever (nothing but a report, or an operator, leaves
\* HALF_OPEN), whatever the order of admissions and reports.  That takes as many
\* calls that raise, in one half-open period, as it allows probes; fewer do not
\* suffice.
NoWedge ==
    (shared.state = "half_open" /\ ~Allowed(shared))
        => InFlight # {} \/ raised >= HalfOpenMaxCalls

\* A breaker that lets everything through has not been told of FailureThreshold
\* failures in a row, in whatever order the overlapping calls reported.
ClosedMeansHealthy ==
    shared.state = "closed" => failures < FailureThreshold

\* Calls to a failing service are halted: unless the breaker is closed, no call
\* is admitted before RecoveryTimeout passed since the last reported failure,
\* even if that failure belonged to a call admitted long before.
CallsHalted ==
    [][\A c \in Caller :
          (shared.state # "closed" /\ call[c] = "idle" /\ call'[c] = "calling")
              => rested >= RecoveryTimeout]_vars

\* Calls are halted temporarily (circuit_breaker.py line 3): again and again
\* some call goes through to the service.  HalfOpenMaxCalls calls that raise in
\* one half-open period end that for good (CircuitBreakerAbort.cfg).
HaltIsTemporary == []<>(InFlight # {})

=============================================================================
