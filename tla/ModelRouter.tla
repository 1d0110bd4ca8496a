------------------------------- MODULE ModelRouter -----------------------------
(***************************************************************************)
(* services/model_router/router.py: call_with_fallback tries the model it  *)
(* selected several times, then the models of a fallback chain, each       *)
(* behind a circuit breaker of its own.  Calls are coroutines: they        *)
(* interleave where a model is awaited, and all of one step happens        *)
(* between two awaits.                                                     *)
(*                                                                         *)
(* Time is what a caller finds when it looks: an open breaker may have     *)
(* rested long enough or not.  Which model is selected for an agent, the   *)
(* budget's cap included, is any model's choice here.                      *)
(***************************************************************************)
EXTENDS Integers, Sequences, FiniteSets, Functions

CONSTANTS
    Call,           \* concurrent requests
    Fallbacks,      \* fallback_chain, cheapest first
    Premium,        \* models that are selected but not in the chain
    MaxAttempts,    \* max_retries + 1
    Threshold,      \* failure_threshold
    MaxCalls        \* bound: requests

VARIABLES
    breakers,   \* by model: label, failures and half_open_calls
    calls,      \* by request: model, _tried, attempts made, label
    requests,   \* requests so far
    probes      \* history: calls let through since a breaker became half-open

routerVars == <<breakers, calls, requests, probes>>

Model == Range(Fallbacks) \union Premium
NoCall == [label |-> "none", model |-> {}, tried |-> {}, attempt |-> 0]

Init ==
    /\ breakers = [m \in Model |-> [label |-> "closed", failures |-> 0, half |-> 0]]
    /\ calls = [c \in Call |-> NoCall]
    /\ requests = 0
    /\ probes = [m \in Model |-> 0]

\* _evaluate_state: the breaker as allow_request finds it, one of these
Evaluated(b) ==
    {b} \union IF b.label = "open" THEN {[b EXCEPT !.label = "half_open", !.half = 0]} ELSE {}

Allows(b) == b.label = "closed" \/ (b.label = "half_open" /\ b.half < 1)

\* An allow_request that forgets to count the probe.
Uncounted(b) == b

\* allow_request that returned True
Admitted(b) == IF b.label = "half_open" THEN [b EXCEPT !.half = @ + 1] ELSE b

Succeeded(b) == [b EXCEPT !.failures = 0,
                          !.label = IF @ = "half_open" THEN "closed" ELSE @]

Failed(b) == [b EXCEPT !.failures = @ + 1,
                       !.label = IF \/ @ = "half_open"
                                    \/ @ = "closed" /\ b.failures + 1 >= Threshold
                                 THEN "open" ELSE @]

\* A half-open period begins with no probes.
Probed(m, b, n) == probes' = [probes EXCEPT ![m] = IF b.label = "half_open" THEN n ELSE 0]

\* call_with_fallback, and the first model's breaker
Request(c, m) ==
    /\ calls[c].label = "none" /\ requests < MaxCalls
    /\ requests' = requests + 1
    /\ \E b \in Evaluated(breakers[m]) :
         LET seen == IF breakers[m].label = "open" THEN 0 ELSE probes[m]
         IN IF Allows(b)
              THEN /\ breakers' = [breakers EXCEPT ![m] = Admitted(b)]
                   /\ calls' = [calls EXCEPT ![c] =
                        [label |-> "calling", model |-> {m}, tried |-> {m}, attempt |-> 1]]
                   /\ Probed(m, b, seen + 1)
              ELSE /\ breakers' = [breakers EXCEPT ![m] = b]
                   /\ calls' = [calls EXCEPT ![c] =
                        [label |-> "fallback", model |-> {}, tried |-> {m}, attempt |-> 0]]
                   /\ Probed(m, b, seen)

\* call_fn answers
Answer(c, m) ==
    /\ calls[c].label = "calling" /\ calls[c].model = {m}
    /\ breakers' = [breakers EXCEPT ![m] = Succeeded(@)]
    /\ calls' = [calls EXCEPT ![c] = NoCall]
    /\ UNCHANGED <<requests, probes>>

\* call_fn raises: once more, without another look at the breaker, or on to
\* the chain
Raise(c, m) ==
    /\ calls[c].label = "calling" /\ calls[c].model = {m}
    /\ breakers' = [breakers EXCEPT ![m] = Failed(@)]
    /\ calls' = [calls EXCEPT ![c] =
         IF calls[c].attempt < MaxAttempts
           THEN [calls[c] EXCEPT !.attempt = @ + 1]
           ELSE [calls[c] EXCEPT !.label = "fallback", !.model = {}]]
    /\ UNCHANGED <<requests, probes>>

\* The chain without its last model.
UntriedButLast(c) == {k \in 1..(Len(Fallbacks) - 1) : Fallbacks[k] \notin calls[c].tried}

Untried(c) == {k \in DOMAIN Fallbacks : Fallbacks[k] \notin calls[c].tried}

\* _try_fallback, for one candidate: its breaker is asked, and if it allows the
\* request, _call_with_retry_and_fallback asks it again.
Try(c, m) ==
    \E b \in Evaluated(breakers[m]) :
      LET seen == IF breakers[m].label = "open" THEN 0 ELSE probes[m]
          again == Admitted(b)
      IN IF Allows(b) /\ Allows(again)
           THEN /\ breakers' = [breakers EXCEPT ![m] = Admitted(again)]
                /\ calls' = [calls EXCEPT ![c] =
                     [calls[c] EXCEPT !.label = "calling", !.model = {m},
                                      !.tried = @ \union {m}, !.attempt = 1]]
                /\ Probed(m, b, seen + 1)
           ELSE /\ breakers' = [breakers EXCEPT ![m] = IF Allows(b) THEN again ELSE b]
                /\ calls' = [calls EXCEPT ![c].tried = @ \union {m}]
                /\ Probed(m, b, seen)

\* The next candidate is the cheapest left.
Fallback(c) ==
    /\ calls[c].label = "fallback"
    /\ \E k \in Untried(c) : /\ \A j \in Untried(c) : k <= j
                            /\ Try(c, Fallbacks[k])
    /\ UNCHANGED requests

\* AllModelsFailedError
GiveUp(c) ==
    /\ calls[c].label = "fallback" /\ Untried(c) = {}
    /\ calls' = [calls EXCEPT ![c] = [@ EXCEPT !.label = "failed"]]
    /\ UNCHANGED <<breakers, requests, probes>>

\* The caller has the error.
Forget(c) ==
    /\ calls[c].label = "failed"
    /\ calls' = [calls EXCEPT ![c] = NoCall]
    /\ UNCHANGED <<breakers, requests, probes>>

Next == \E c \in Call : \/ \E m \in Model : Request(c, m) \/ Answer(c, m) \/ Raise(c, m)
                        \/ Fallback(c) \/ GiveUp(c) \/ Forget(c)
Spec == Init /\ [][Next]_routerVars

----------------------------------------------------------------------------
(* Properties *)

\* A half-open breaker lets one call at most through to its model, and that call
\* is still under way: its end decides the state.  (The other way to be
\* half-open with the slot taken is a wedge: the fallback's first question took
\* it and its second was refused.)  And a request fails only when every model of
\* the chain was tried or refused it.
ProbesAndChain ==
    /\ \A m \in Model : breakers[m].label = "half_open" =>
          /\ probes[m] <= 1
          /\ probes[m] = 1 => \E c \in Call : calls[c].label = "calling" /\ calls[c].model = {m}
    /\ \A c \in Call : calls[c].label = "failed" => Model \ Premium \subseteq calls[c].tried

=============================================================================
