----------------------------- MODULE BreakerOps -----------------------------
(***************************************************************************)
(* The methods of services/shared/circuit_breaker.py as operators on the   *)
(* value of a breaker.  Each method body runs under the breaker's lock, so *)
(* one application is one atomic step of whoever calls it.                 *)
(*                                                                         *)
(* Two unbounded quantities are kept only as far as the code can tell them *)
(* apart: failureCount saturates at FailureThreshold, and sinceFailure,    *)
(* time.time() - _last_failure_time, saturates at RecoveryTimeout.         *)
(***************************************************************************)
EXTENDS Integers

CONSTANTS
    FailureThreshold,   \* failure_threshold
    RecoveryTimeout,    \* recovery_timeout
    HalfOpenMaxCalls    \* half_open_max_calls

ASSUME BreakerConstants ==
    /\ FailureThreshold \in Nat \ {0}
    /\ RecoveryTimeout \in Nat \ {0}
    /\ HalfOpenMaxCalls \in Nat \ {0}

BreakerState == {"closed", "open", "half_open"}

BreakerType ==
    [state : BreakerState,
     failureCount : 0..FailureThreshold,
     sinceFailure : 0..RecoveryTimeout,
     halfOpenCalls : 0..HalfOpenMaxCalls]

Breaker(state, failureCount, sinceFailure, halfOpenCalls) ==
    [state |-> state, failureCount |-> failureCount,
     sinceFailure |-> sinceFailure, halfOpenCalls |-> halfOpenCalls]

\* __init__: _last_failure_time = 0.0 lies in a distant past.
NewBreaker == Breaker("closed", 0, RecoveryTimeout, 0)

Saturate(n, bound) == IF n < bound THEN n ELSE bound

\* time passes
Age(b) ==
    Breaker(b.state, b.failureCount,
            Saturate(b.sinceFailure + 1, RecoveryTimeout), b.halfOpenCalls)

\* _evaluate_state when a new half-open period inherits the old call count.
EvaluateStateNoReset(b) ==
    IF b.state = "open" /\ b.sinceFailure >= RecoveryTimeout
      THEN Breaker("half_open", b.failureCount, b.sinceFailure, b.halfOpenCalls)
      ELSE b

\* _evaluate_state: OPEN becomes HALF_OPEN once the recovery timeout elapsed,
\* with a fresh allowance of probe calls.
EvaluateState(b) ==
    IF b.state = "open" /\ b.sinceFailure >= RecoveryTimeout
      THEN Breaker("half_open", b.failureCount, b.sinceFailure, 0)
      ELSE b

\* allow_request: its answer ...
Allowed(b) ==
    LET e == EvaluateState(b) IN
    \/ e.state = "closed"
    \/ e.state = "half_open" /\ e.halfOpenCalls < HalfOpenMaxCalls

\* ... and what allow_request leaves behind.
AllowRequest(b) ==
    LET e == EvaluateState(b) IN
    IF e.state = "half_open" /\ e.halfOpenCalls < HalfOpenMaxCalls
      THEN Breaker(e.state, e.failureCount, e.sinceFailure, e.halfOpenCalls + 1)
      ELSE e

\* record_success: closes a half-open breaker and forgets the failures, but an
\* open breaker stays open.
RecordSuccess(b) ==
    Breaker(IF b.state = "half_open" THEN "closed" ELSE b.state,
            0, b.sinceFailure, b.halfOpenCalls)

\* The same without the half-open branch: a failed probe changes nothing.
AfterFailureWhenClosed(state, n) ==
    IF state = "closed" /\ n >= FailureThreshold THEN "open" ELSE state

\* The state after a failure was counted as the n-th: a failed probe reopens
\* the breaker at once, a closed one opens at the threshold.
AfterFailure(state, n) ==
    IF state = "half_open" \/ (state = "closed" /\ n >= FailureThreshold)
      THEN "open"
      ELSE state

\* record_failure that notes the time only when it opens a closed breaker.
RecordFailureKeepTime(b) ==
    LET n == Saturate(b.failureCount + 1, FailureThreshold)
        trips == b.state = "closed" /\ n >= FailureThreshold
    IN Breaker(AfterFailure(b.state, n), n,
               IF trips THEN 0 ELSE b.sinceFailure, b.halfOpenCalls)

\* record_failure that tests the threshold before it counts.
RecordFailureLate(b) ==
    Breaker(AfterFailure(b.state, b.failureCount),
            Saturate(b.failureCount + 1, FailureThreshold), 0, b.halfOpenCalls)

\* record_failure: counts the failure and notes its time in every state.
RecordFailure(b) ==
    LET n == Saturate(b.failureCount + 1, FailureThreshold) IN
    Breaker(AfterFailure(b.state, n), n, 0, b.halfOpenCalls)

\* reset
Reset(b) == Breaker("closed", 0, b.sinceFailure, 0)

=============================================================================
