--------------------------- MODULE DeliveryRouting ---------------------------
(***************************************************************************)
(* The multi-channel delivery service (services/delivery): a process that  *)
(* takes signals off Redis pub/sub and routes each to the channels of its  *)
(* users: preferences, deduplication, rate limit, quiet hours, a receipt,  *)
(* then sending with retries (router.py).                                  *)
(*                                                                         *)
(* One user and one symbol.  What the router keeps is in Redis and         *)
(* outlives it; what is published while it is down is lost.  A run lasts   *)
(* less than an hour: the deduplication keys and the hourly counters,      *)
(* which live that long, do not expire in it.                              *)
(*                                                                         *)
(* A channel accepts a message at some time during the send, and a reply   *)
(* that does not come in time counts as a failure to be retried: the user  *)
(* may have a message the router takes for failed.                         *)
(***************************************************************************)
EXTENDS Integers, Sequences, FiniteSetsExt, Functions

CONSTANTS
    Message,        \* signals, each of which may be published repeatedly
    Chain,          \* the user's channels in order of preference, primary first
    Messaging,      \* those limited per symbol; the others are limited per hour
    Window,         \* per_symbol_seconds over the tier's multiplier
    PerHour,        \* per_hour times the tier's multiplier
    MaxAttempts,    \* MAX_RETRY_ATTEMPTS
    SendTime,       \* a send lasts no longer, timeout=10
    MaxUnmarked,    \* bound: replies lost and deaths in a send, for each signal
    MaxPublished,   \* bound: publications
    None

VARIABLES
    mode,       \* dedup_preference
    quiet,      \* are these quiet hours?
    delivered,  \* dedup:user:signal: channels marked as delivered
    failed,     \* dedup:fail:...: channels marked as failed
    slot,       \* time left of the rate limit of a messaging channel, 0 if none
    hourly,     \* the counter of a channel limited per hour
    receipt,    \* status of the receipt of a signal and a channel
    signal,     \* the signal being routed, or None
    targets,    \* its channels still to be tried, as positions in Chain
    attempt,    \* 0, or the number of the next attempt to send
    sleep,      \* time before that attempt
    waited,     \* time that attempt has lasted
    taken,      \* has the channel accepted its message?
    repeats,    \* was an earlier attempt's, although it failed?
    outcome,    \* "none", "sent" or "failed": the dispatch that is to be recorded
    published,  \* publications so far
    got,        \* history: copies of a signal the user's channels accepted
    unmarked,   \* history: those of them the router did not learn of or record
    apart       \* history: time since a channel last accepted a message

redisVars == <<delivered, failed, slot, hourly, receipt>>
sendVars == <<attempt, sleep, waited, taken, repeats, outcome>>
routeVars == <<signal, targets, sendVars>>
historyVars == <<got, unmarked, apart>>
vars == <<mode, quiet, redisVars, routeVars, published, historyVars>>

Channel == Range(Chain)

\* Time between the first and the last attempt: 1, 2, 4, ... between them.
Doubled[n \in Nat] == IF n = 0 THEN 1 ELSE 2 * Doubled[n - 1]
Delay(n) == Doubled[n - 1]
RetrySpan == Doubled[MaxAttempts - 1] - 1

\* The longest a dispatch may take.
DispatchTime == RetrySpan + MaxAttempts * SendTime

Init ==
    /\ mode \in {"primary_only", "all_enabled", "fallback_chain"}
    /\ quiet = FALSE
    /\ delivered = [n \in Message |-> {}]
    /\ failed = [n \in Message |-> {}]
    /\ slot = [c \in Channel |-> 0]
    /\ hourly = [c \in Channel |-> 0]
    /\ receipt = [n \in Message |-> [c \in Channel |-> "none"]]
    /\ signal = None /\ targets = {}
    /\ attempt = 0 /\ sleep = 0 /\ waited = 0 /\ taken = FALSE /\ repeats = FALSE
    /\ outcome = "none"
    /\ published = 0
    /\ got = [n \in Message |-> 0]
    /\ unmarked = [n \in Message |-> 0]
    /\ apart = [c \in Channel |-> Window]

----------------------------------------------------------------------------

\* _resolve_channels, for the channels that are enabled and whose filters let
\* the signal through.
Resolve(candidates) ==
    IF mode = "primary_only" /\ candidates # {} THEN {Min(candidates)} ELSE candidates

\* A publication reaches the router; it routes one signal at a time.
Receive(n) ==
    /\ signal = None
    /\ published < MaxPublished
    /\ published' = published + 1
    /\ signal' = n
    /\ \E candidates \in SUBSET DOMAIN Chain : targets' = Resolve(candidates)
    /\ UNCHANGED <<mode, quiet, redisVars, sendVars, historyVars>>

\* fallback_chain without a look at what was delivered.
ShouldDeliverAnyhow(n) == mode # "primary_only" \/ delivered[n] = {}

\* should_deliver
ShouldDeliver(n) ==
    \/ mode = "all_enabled"
    \/ mode = "primary_only" /\ delivered[n] = {}
    \/ mode = "fallback_chain" /\ delivered[n] \subseteq failed[n]

RateLimited(c) == IF c \in Messaging THEN slot[c] > 0 ELSE hourly[c] >= PerHour

\* A rate limit that is not renewed by what passes it.
UseNoRate(c) == UNCHANGED <<slot, hourly>>

\* is_rate_limited starts the window, or counts, for a signal it lets pass.
UseRate(c) ==
    /\ slot' = IF c \in Messaging THEN [slot EXCEPT ![c] = Window] ELSE slot
    /\ hourly' = IF c \in Messaging THEN hourly ELSE [hourly EXCEPT ![c] = @ + 1]

Target == Chain[Min(targets)]
NextTarget == targets' = targets \ {Min(targets)}

\* route_signal, up to the dispatch: deduplication, rate limit, quiet hours,
\* receipt.
Consider ==
    /\ signal # None /\ targets # {} /\ attempt = 0 /\ outcome = "none"
    /\ LET c == Target IN
       IF ~ShouldDeliver(signal) \/ RateLimited(c)
         THEN NextTarget /\ UNCHANGED <<slot, hourly, receipt, attempt>>
         ELSE /\ UseRate(c)
              /\ IF quiet
                   THEN NextTarget /\ UNCHANGED <<receipt, attempt>>
                   ELSE /\ receipt' = [receipt EXCEPT ![signal][c] = "pending"]
                        /\ attempt' = 1
                        /\ UNCHANGED targets
    /\ UNCHANGED <<mode, quiet, delivered, failed, signal, sleep, waited, taken, repeats,
                   outcome, published, historyVars>>

\* The channel accepts the message that is being sent.
Accept ==
    /\ attempt > 0 /\ sleep = 0 /\ ~taken
    /\ taken' = TRUE
    /\ got' = [got EXCEPT ![signal] = @ + 1]
    /\ apart' = [apart EXCEPT ![Target] = 0]
    /\ UNCHANGED <<mode, quiet, redisVars, signal, targets, attempt, sleep, waited, repeats,
                   outcome, published, unmarked>>

\* What the channel has accepted is not known to be sent.
Miss ==
    unmarked' = IF taken THEN [unmarked EXCEPT ![signal] = @ + 1] ELSE unmarked

\* _dispatch_with_retry, the end of a send: the reply says sent; or the channel
\* refused for good, or failed the last attempt; or the attempt failed for now, the
\* reply was lost, and it is repeated after a while.
Attempt ==
    /\ attempt > 0 /\ sleep = 0
    /\ waited' = 0 /\ taken' = FALSE
    /\ \/ taken /\ outcome' = "sent" /\ UNCHANGED unmarked
          /\ attempt' = 0 /\ repeats' = FALSE /\ UNCHANGED sleep
       \/ (taken => attempt = MaxAttempts) /\ outcome' = "failed" /\ Miss
          /\ attempt' = 0 /\ repeats' = FALSE /\ UNCHANGED sleep
       \/ attempt < MaxAttempts /\ Miss
          /\ attempt' = attempt + 1
          /\ sleep' = Delay(attempt)
          /\ repeats' = (repeats \/ taken)
          /\ UNCHANGED outcome
    /\ UNCHANGED <<mode, quiet, redisVars, signal, targets, published, got, apart>>

\* A success that is not recorded for the deduplication.
RecordReceiptOnly ==
    /\ outcome # "none"
    /\ receipt' = [receipt EXCEPT ![signal][Target] = outcome]
    /\ outcome' = "none"
    /\ NextTarget
    /\ UNCHANGED <<mode, quiet, delivered, failed, slot, hourly, signal, attempt, sleep, waited,
                   taken, repeats, published, historyVars>>

\* mark_delivered or mark_failed, and the receipt.  Failed marks stay beside
\* later successes.
Record ==
    /\ outcome # "none"
    /\ LET c == Target IN
       /\ receipt' = [receipt EXCEPT ![signal][c] = outcome]
       /\ IF outcome = "sent"
            THEN delivered' = [delivered EXCEPT ![signal] = @ \union {c}] /\ UNCHANGED failed
            ELSE failed' = [failed EXCEPT ![signal] = @ \union {c}] /\ UNCHANGED delivered
    /\ outcome' = "none"
    /\ NextTarget
    /\ UNCHANGED <<mode, quiet, slot, hourly, signal, attempt, sleep, waited, taken, repeats,
                   published, historyVars>>

\* The signal was routed to all its channels.
Finish ==
    /\ signal # None /\ targets = {}
    /\ signal' = None
    /\ UNCHANGED <<mode, quiet, redisVars, targets, sendVars, published, historyVars>>

\* The process dies, or a Redis error ends it, and it is started again; what it was
\* sending may have been accepted, what it has sent is not recorded.
Crash ==
    /\ signal # None
    /\ unmarked' = IF taken \/ outcome = "sent" THEN [unmarked EXCEPT ![signal] = @ + 1]
                   ELSE unmarked
    /\ signal' = None /\ targets' = {}
    /\ attempt' = 0 /\ sleep' = 0 /\ waited' = 0 /\ taken' = FALSE /\ repeats' = FALSE
    /\ outcome' = "none"
    /\ UNCHANGED <<mode, quiet, redisVars, published, got, apart>>

\* Time passes; retries are not late, and no send outlasts its timeout.
Tick ==
    /\ attempt > 0 => sleep > 0 \/ waited < SendTime
    /\ waited' = IF attempt > 0 /\ sleep = 0 THEN waited + 1 ELSE waited
    /\ sleep' = IF sleep > 0 THEN sleep - 1 ELSE 0
    /\ slot' = [c \in Channel |-> IF slot[c] > 0 THEN slot[c] - 1 ELSE 0]
    /\ apart' = [c \in Channel |-> IF apart[c] < Window THEN apart[c] + 1 ELSE Window]
    /\ UNCHANGED <<mode, quiet, delivered, failed, hourly, receipt, signal, targets, attempt,
                   taken, repeats, outcome, published, got, unmarked>>

\* Quiet hours begin or end.
Evening ==
    /\ quiet' = ~quiet
    /\ UNCHANGED <<mode, redisVars, routeVars, published, historyVars>>

Next ==
    /\ \/ \E n \in Message : Receive(n)
       \/ Consider \/ Accept \/ Attempt \/ Record \/ Finish
       \/ Crash \/ Tick \/ Evening
    /\ \A n \in Message : unmarked'[n] <= MaxUnmarked

Spec == Init /\ [][Next]_vars

----------------------------------------------------------------------------
(* Properties *)

\* Types of all variables.
TypeOK ==
    /\ quiet \in BOOLEAN
    /\ delivered \in [Message -> SUBSET Channel] /\ failed \in [Message -> SUBSET Channel]
    /\ slot \in [Channel -> 0..Window] /\ hourly \in [Channel -> 0..PerHour]
    /\ receipt \in [Message -> [Channel -> {"none", "pending", "sent", "failed"}]]
    /\ signal \in Message \union {None}
    /\ targets \subseteq DOMAIN Chain
    /\ attempt \in 0..MaxAttempts /\ sleep \in 0..Delay(MaxAttempts)
    /\ outcome \in {"none", "sent", "failed"}
    /\ waited \in 0..SendTime /\ taken \in BOOLEAN /\ repeats \in BOOLEAN
    /\ got \in [Message -> Nat] /\ unmarked \in [Message -> 0..MaxUnmarked]
    /\ apart \in [Channel -> 0..Window]

\* "Prevents the same signal from being sent multiple times to a user"
\* (deduplication.py line 5): of a signal that is published again and retried the
\* user gets one copy and those the router did not learn of, because the
\* reply was lost or it died before it recorded the success; more only if the
\* user wants it on all channels, or the channel that carried it had failed before
\* and still bears that mark.
SentOnce ==
    \A n \in Message :
        got[n] > 1 + unmarked[n] => \/ mode = "all_enabled"
                                    \/ delivered[n] \intersect failed[n] # {}

\* "1 signal per symbol per window" (rate_limiter.py line 7): the window starts
\* when the signal is let through, so that what a channel accepts is as far apart as
\* the window less the time a dispatch may take, but for the repetitions of an
\* attempt whose reply was lost.
SendsSpaced ==
    [][\A c \in Messaging \cap Channel :
           attempt > 0 /\ Target = c /\ got' # got => repeats \/ apart[c] >= Window - DispatchTime]_vars

=============================================================================
