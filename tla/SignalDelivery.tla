---------------------------- MODULE SignalDelivery ----------------------------
(***************************************************************************)
(* The delivery service of the signal API (signal_api/delivery.py): one    *)
(* listener takes signals off Redis pub/sub and fans each out to its       *)
(* subscribers, Telegram chats behind a circuit breaker and webhooks;      *)
(* what fails goes to the dead letter queue, if the service was given one. *)
(*                                                                         *)
(* deliver_signal enqueues a delivery that returned false inside its try   *)
(* block: if that raises, whether or not Redis took the entry, the handler *)
(* enqueues once more, and if that raises too, the exception leaves the    *)
(* loop over the subscribers.  A malformed signal is one that              *)
(* TelegramSender cannot format (a confidence that is not a number).       *)
(*                                                                         *)
(* A delivery is made as far as the service knows: a sender whose reply is *)
(* lost returns false.  What becomes of an entry of the queue is           *)
(* DeadLetterQueue's: no process of the repository retries them.           *)
(***************************************************************************)
EXTENDS Integers, FiniteSets, BreakerOps

CONSTANTS
    Chat,           \* Telegram subscribers
    Hook,           \* webhook subscribers
    MaxSignal,      \* bound: signals published, numbered from 1
    MaxFaults,      \* bound: enqueues that raise
    None            \* no subscriber

ASSUME DeliveryConstants ==
    /\ Chat \intersect Hook = {}
    /\ None \notin Chat \union Hook
    /\ {MaxSignal, MaxFaults} \subseteq Nat

Sub == Chat \union Hook
Signal == 1..MaxSignal
Entry == Signal \X Sub \X (1..2)      \* the second one is the handler's

VARIABLES
    wired,      \* was the service given a dead letter queue (self.dlq)?
    fate,       \* that queue: what became of each entry
    malformed,  \* the signals that cannot be formatted for Telegram
    published,  \* signals published so far
    received,   \* the newest signal the listener took, or lost
    todo,       \* subscribers of that signal deliver_signal has yet to serve
    step,       \* "next", "failed" or "handler": where deliver_signal stands
    serving,    \* the subscriber of the other two steps
    breaker,    \* telegram_cb
    addressed,  \* history: the deliveries deliver_signal set out to make
    delivered,  \* history: those that returned true
    failed,     \* history: those counted as failed
    raised,     \* history: the enqueues that raised
    lost        \* history: the newest signal published before the service last died

DLQ == INSTANCE RetryQueue

loopVars == <<received, todo, step, serving>>
histories == <<addressed, delivered, failed, raised, lost>>
vars == <<wired, fate, malformed, published, loopVars, breaker, histories>>

Init ==
    /\ wired \in BOOLEAN
    /\ DLQ!Init
    /\ malformed \in SUBSET Signal
    /\ published = 0
    /\ received = 0
    /\ todo = {}
    /\ step = "next"
    /\ serving = None
    /\ breaker = NewBreaker
    /\ addressed = {}
    /\ delivered = {}
    /\ failed = {}
    /\ raised = {}
    /\ lost = 0

----------------------------------------------------------------------------

Publish ==
    /\ published < MaxSignal
    /\ published' = published + 1
    /\ UNCHANGED <<wired, fate, malformed, loopVars, breaker, histories>>

\* listen_and_deliver takes the next message, deliver_signal reads who is
\* subscribed.
Receive ==
    /\ todo = {}
    /\ received < published
    /\ received' = received + 1
    /\ todo' \in SUBSET Sub
    /\ addressed' = addressed \union {<<received', s>> : s \in todo'}
    /\ UNCHANGED <<wired, fate, malformed, published, step, serving, breaker, delivered,
                   failed, raised, lost>>

\* The loop over the subscribers goes on behind s.
Done(s) ==
    /\ todo' = todo \ {s}
    /\ step' = "next"
    /\ serving' = None
    /\ UNCHANGED received

Succeeded(s) ==
    /\ delivered' = delivered \union {<<received, s>>}
    /\ Done(s)
    /\ UNCHANGED failed

Failed(s, how) ==
    /\ failed' = failed \union {<<received, s>>}
    /\ step' = how
    /\ serving' = s
    /\ UNCHANGED <<received, todo, delivered>>

\* deliver_to_telegram that reports nothing when the chat refuses.
TelegramUnreported(s) ==
    LET admitted == AllowRequest(breaker) IN
    IF ~Allowed(breaker)
      THEN breaker' = admitted /\ Failed(s, "failed")
      ELSE \/ breaker' = admitted /\ received \in malformed /\ Failed(s, "handler")
           \/ breaker' = RecordSuccess(admitted) /\ received \notin malformed /\ Succeeded(s)
           \/ breaker' = RecordFailure(admitted) /\ received \notin malformed /\ Done(s)
                /\ UNCHANGED <<delivered, failed>>

\* deliver_to_telegram: an exception leaves the breaker without a report.
Telegram(s) ==
    LET admitted == AllowRequest(breaker) IN
    IF ~Allowed(breaker)
      THEN breaker' = admitted /\ Failed(s, "failed")
      ELSE \/ breaker' = admitted /\ received \in malformed /\ Failed(s, "handler")
           \/ breaker' = RecordSuccess(admitted) /\ received \notin malformed /\ Succeeded(s)
           \/ breaker' = RecordFailure(admitted) /\ received \notin malformed
                /\ Failed(s, "failed")

\* deliver_to_webhook, which catches every exception.
Webhook(s) ==
    /\ Succeeded(s) \/ Failed(s, "failed")
    /\ UNCHANGED breaker

Deliver(s) ==
    /\ step = "next"
    /\ s \in todo
    /\ IF s \in Chat THEN Telegram(s) ELSE Webhook(s)
    /\ UNCHANGED <<wired, fate, malformed, published, addressed, raised, lost>>

Reached(e) == DLQ!Enqueue(e)
NotReached == UNCHANGED fate

\* The enqueue of e raises, with the entry in Redis or not.
Raises(e) ==
    /\ Reached(e) \/ NotReached
    /\ raised' = raised \union {e}

\* _enqueue_to_dlq returns; without a queue it does nothing.
Returns(e) ==
    /\ IF wired THEN Reached(e) ELSE NotReached
    /\ UNCHANGED raised

\* The loop counts the enqueue that raised as done.
EnqueueOnce ==
    /\ step = "failed"
    /\ LET e == <<received, serving, 1>>
       IN  Returns(e) \/ (wired /\ Raises(e))
    /\ Done(serving)
    /\ UNCHANGED <<wired, malformed, published, addressed, breaker, delivered, failed, lost>>

\* _enqueue_to_dlq in the try block; if it raises, the handler is next.
Enqueue ==
    /\ step = "failed"
    /\ LET e == <<received, serving, 1>>
       IN  \/ Returns(e) /\ Done(serving)
           \/ wired /\ Raises(e) /\ step' = "handler" /\ UNCHANGED <<received, todo, serving>>
    /\ UNCHANGED <<wired, malformed, published, addressed, breaker, delivered, failed, lost>>

\* The signal is over.
Abandon ==
    /\ todo' = {}
    /\ step' = "next"
    /\ serving' = None
    /\ UNCHANGED received

\* _enqueue_to_dlq in the handler; if it raises, listen_and_deliver catches
\* the exception.
EnqueueInHandler ==
    /\ step = "handler"
    /\ LET e == <<received, serving, 2>>
       IN  \/ Returns(e) /\ Done(serving)
           \/ wired /\ Raises(e) /\ Abandon
    /\ UNCHANGED <<wired, malformed, published, addressed, breaker, delivered, failed, lost>>

\* The service dies and is started again: the signal it worked on and those
\* published until then are lost, and the breaker is a new one.  (Bounded: a death with
\* nothing published since the last one would only renew the breaker.)
Crash ==
    /\ published > lost
    /\ lost' = published
    /\ received' = published
    /\ todo' = {}
    /\ step' = "next"
    /\ serving' = None
    /\ breaker' = NewBreaker
    /\ UNCHANGED <<wired, fate, malformed, published, addressed, delivered, failed, raised>>

\* Time passes.
Tick ==
    /\ breaker' = Age(breaker)
    /\ UNCHANGED <<wired, fate, malformed, published, loopVars, histories>>

ServeNext ==
    /\ Receive \/ (\E s \in Sub : Deliver(s)) \/ Enqueue \/ EnqueueInHandler
    /\ Cardinality(raised') <= MaxFaults

Next ==
    \/ Publish
    \/ ServeNext
    \/ Crash
    \/ Tick

\* The listener's loop goes on.
Spec == Init /\ [][Next]_vars /\ WF_vars(ServeNext)

----------------------------------------------------------------------------
(* Properties *)

Enqueued(n, s) == {k \in 1..2 : fate[<<n, s, k>>] # "none"}

\* deliver_signal is not, or no longer, at this delivery.
Left(n, s) == <<n, s>> \in addressed /\ ~(n = received /\ s \in todo)

\* Redis failed both enqueues of one subscriber of the signal, or the only one the
\* handler makes for a malformed signal, or the service died after the signal was
\* published.
Excused(n) ==
    \/ \E s \in Sub :
          /\ <<n, s, 2>> \in raised
          /\ <<n, s, 1>> \in raised \/ n \in malformed
    \/ n <= lost

\* How the service is done with a delivery: it was made; or it was counted as failed,
\* and queued if there is a queue.
Concluded(n, s) ==
    \/ <<n, s>> \in delivered
    \/ <<n, s>> \in failed /\ (wired => Enqueued(n, s) # {})

\* "Integrates with ... dead letter queue for reliable delivery" (lines 7 and
\* 8): what the loop leaves behind was delivered, or is counted as failed and queued
\* (where there is a queue), unless Redis failed it twice over this very signal or
\* the service died.  Nothing delivered is queued or counted as failed, and nothing is
\* queued twice unless its first enqueue raised.
Accounted ==
    \A n \in Signal, s \in Sub :
        /\ Left(n, s) => Concluded(n, s) \/ Excused(n)
        /\ <<n, s>> \in delivered => Enqueued(n, s) = {} /\ <<n, s>> \notin failed
        /\ Enqueued(n, s) = {1, 2} => <<n, s, 1>> \in raised

\* Every delivery the service sets out to make comes to its end, if its loop goes
\* on: one failure of Redis costs no subscriber the signal, and neither does
\* a malformed signal or a breaker that is open or stuck.
EveryDeliveryEnds ==
    \A n \in Signal, s \in Sub :
        <<n, s>> \in addressed ~> Concluded(n, s) \/ Excused(n)

=============================================================================
