------------------------- MODULE SignalDeliveryProofs -------------------------
(***************************************************************************)
(* Machine-checked proofs about SignalDelivery, for every number of        *)
(* subscribers, signals and failing enqueues and every setting of the      *)
(* breaker, with a queue or without one: a delivery the loop leaves behind *)
(* is accounted for.                                                       *)
(***************************************************************************)
EXTENDS SignalDelivery, TLAPS

Types ==
    /\ fate \in [Entry -> {"none", "queued", "settled"}]
    /\ published \in 0..MaxSignal
    /\ received \in 0..published
    /\ lost \in 0..published
    /\ todo \subseteq Sub
    /\ step \in {"next", "failed", "handler"}
    /\ step # "next" => serving \in todo

\* The loop deals with each subscriber of the newest signal once: until then
\* its delivery is not made, not counted and not queued, but for the one whose
\* failure is being reported.
Current ==
    \A s \in todo :
        /\ received \in Signal
        /\ <<received, s>> \notin delivered
        /\ <<received, s>> \in failed <=> step # "next" /\ serving = s
        /\ fate[<<received, s, 2>>] = "none"
        /\ fate[<<received, s, 1>>] = "none"
             \/ (step = "handler" /\ serving = s /\ <<received, s, 1>> \in raised)

\* The handler is there for a malformed signal or an enqueue that raised.
HandlerHasCause ==
    step = "handler" => received \in malformed \/ <<received, serving, 1>> \in raised

\* Later signals have not been touched.
Untouched ==
    \A n \in Signal, s \in Sub :
        n > received =>
            /\ <<n, s>> \notin addressed \union delivered \union failed
            /\ fate[<<n, s, 1>>] = "none" /\ fate[<<n, s, 2>>] = "none"

USE DeliveryConstants

(* Accounted, said of single entries *)

Queued(n, s, k) == fate[<<n, s, k>>] # "none"

AccountedFor(n, s) ==
    /\ Left(n, s) => \/ <<n, s>> \in delivered
                     \/ <<n, s>> \in failed /\ (wired => Queued(n, s, 1) \/ Queued(n, s, 2))
                     \/ Excused(n)
    /\ <<n, s>> \in delivered => /\ ~Queued(n, s, 1) /\ ~Queued(n, s, 2)
                                 /\ <<n, s>> \notin failed
    /\ Queued(n, s, 1) /\ Queued(n, s, 2) => <<n, s, 1>> \in raised

AllAccountedFor == \A n \in Signal, s \in Sub : AccountedFor(n, s)

LEMMA EnqueuedAre == Accounted <=> AllAccountedFor
<1>1. ASSUME NEW n, NEW s
      PROVE  /\ Enqueued(n, s) = {} <=> ~Queued(n, s, 1) /\ ~Queued(n, s, 2)
             /\ Enqueued(n, s) = {1, 2} <=> Queued(n, s, 1) /\ Queued(n, s, 2)
  BY DEF Enqueued, Queued
<1> QED
  BY <1>1 DEF Accounted, AllAccountedFor, AccountedFor, Concluded

IInv == Types /\ Current /\ HandlerHasCause /\ Untouched /\ AllAccountedFor

LEMMA InitInv == Init => IInv
  BY DEF Init, DLQ!Init, IInv, Types, Current, HandlerHasCause, Untouched, AllAccountedFor,
         AccountedFor, Left, Queued, Entry, Sub, Signal

\* What the queue does with an entry: it becomes queued, or nothing happens.
LEMMA ReturnsOrRaises ==
    ASSUME Types, NEW e \in Entry, Returns(e) \/ (wired /\ Raises(e))
    PROVE  /\ fate' \in [Entry -> {"none", "queued", "settled"}]
           /\ \A f \in Entry : f # e => fate'[f] = fate[f]
           /\ raised \subseteq raised'
           /\ Returns(e) => raised' = raised /\ (wired => fate'[e] # "none")
           /\ Raises(e) => e \in raised'
           /\ fate'[e] # "none" \/ fate'[e] = fate[e]
  BY DEF Types, Returns, Raises, Reached, NotReached, DLQ!Enqueue

LEMMA NextInv == IInv /\ [Next]_vars => IInv'
<1> SUFFICES ASSUME IInv, [Next]_vars  PROVE IInv'
  OBVIOUS
<1> USE DEF loopVars, histories
<1>0. \A n \in Signal, s \in Sub : <<n, s, 1>> \in Entry /\ <<n, s, 2>> \in Entry
  BY DEF Entry
<1>1. CASE Publish
  BY <1>1 DEF Publish, IInv, Types, Current, HandlerHasCause, Untouched, AllAccountedFor,
              AccountedFor, Left, Queued, Excused
<1>2. CASE Receive
  <2>1. PICK subs \in SUBSET Sub : todo' = subs
    BY <1>2 DEF Receive
  <2>2. /\ todo = {} /\ received < published /\ received' = received + 1
        /\ addressed' = addressed \union {<<received', s>> : s \in subs}
        /\ UNCHANGED <<wired, fate, malformed, published, step, serving, breaker, delivered,
                       failed, raised, lost>>
    BY <1>2, <2>1 DEF Receive
  <2>3. step = "next" /\ received' \in Signal
    BY <2>2 DEF IInv, Types, Signal
  <2>4. Types'
    BY <2>1, <2>2, <2>3 DEF IInv, Types
  <2>5. Current'
    BY <2>1, <2>2, <2>3 DEF IInv, Types, Untouched, Current
  <2>6. HandlerHasCause'
    BY <2>2, <2>3 DEF HandlerHasCause
  <2>7. \A n \in Signal, s \in Sub :
          <<n, s>> \in addressed' <=> <<n, s>> \in addressed \/ (n = received' /\ s \in todo')
    BY <2>1, <2>2
  <2>8. Untouched'
    BY <2>2, <2>3, <2>7 DEF IInv, Types, Untouched, Signal
  <2>9. AllAccountedFor'
    <3> SUFFICES ASSUME NEW n \in Signal, NEW s \in Sub  PROVE AccountedFor(n, s)'
      BY DEF AllAccountedFor
    <3>1. AccountedFor(n, s)
      BY DEF IInv, AllAccountedFor
    <3>2. Left(n, s)' => Left(n, s)
      BY <2>2, <2>7 DEF Left
    <3> QED
      BY <2>2, <3>1, <3>2 DEF AccountedFor, Queued, Excused
  <2> QED
    BY <2>4, <2>5, <2>6, <2>8, <2>9 DEF IInv
<1>3. ASSUME NEW s \in Sub, Deliver(s)  PROVE IInv'
  <2>1. /\ step = "next" /\ s \in todo
        /\ UNCHANGED <<wired, fate, malformed, published, received, addressed, raised, lost>>
    BY <1>3 DEF Deliver, Telegram, Webhook, Succeeded, Failed, Done
  <2>2. CASE Succeeded(s)
    <3>1. /\ delivered' = delivered \union {<<received, s>>}
          /\ todo' = todo \ {s} /\ step' = "next" /\ failed' = failed
      BY <2>2 DEF Succeeded, Done
    <3>2. Types' /\ HandlerHasCause'
      BY <2>1, <3>1 DEF IInv, Types, HandlerHasCause
    <3>3. Current'
      BY <2>1, <3>1 DEF IInv, Current
    <3>4. Untouched'
      BY <2>1, <3>1 DEF IInv, Types, Untouched, Signal
    <3>5. AllAccountedFor'
      BY <2>1, <3>1 DEF IInv, AllAccountedFor, AccountedFor, Left, Queued, Excused, Current
    <3> QED
      BY <3>2, <3>3, <3>4, <3>5 DEF IInv
  <2>3. CASE Failed(s, "failed") \/ (Failed(s, "handler") /\ received \in malformed)
    <3>1. UNCHANGED <<todo, delivered>> /\ serving' = s
          /\ failed' = failed \union {<<received, s>>}
          /\ (step' = "failed" \/ (step' = "handler" /\ received \in malformed))
      BY <2>3 DEF Failed
    <3>2. Types' /\ HandlerHasCause'
      BY <2>1, <3>1 DEF IInv, Types, HandlerHasCause
    <3>3. Current' /\ Untouched'
      BY <2>1, <3>1 DEF IInv, Types, Current, Untouched, Signal
    <3>4. AllAccountedFor'
      BY <2>1, <3>1 DEF IInv, AllAccountedFor, AccountedFor, Left, Queued, Excused, Current
    <3> QED
      BY <3>2, <3>3, <3>4 DEF IInv
  <2> QED
    BY <1>3, <2>2, <2>3 DEF Deliver, Telegram, Webhook
<1>4. CASE Enqueue
  <2> DEFINE e == <<received, serving, 1>>
  <2>1. step = "failed" /\ serving \in todo /\ serving \in Sub /\ received \in Signal
    BY <1>4 DEF Enqueue, IInv, Types, Current
  <2>2. e \in Entry
    BY <1>0, <2>1
  <2>3. UNCHANGED <<wired, malformed, published, received, addressed, delivered, failed, lost>>
    BY <1>4 DEF Enqueue, Done
  <2>4. /\ fate' \in [Entry -> {"none", "queued", "settled"}]
        /\ \A f \in Entry : f # e => fate'[f] = fate[f]
        /\ raised \subseteq raised'
        /\ Returns(e) => raised' = raised /\ (wired => fate'[e] # "none")
        /\ Raises(e) => e \in raised'
        /\ fate'[e] # "none" \/ fate'[e] = fate[e]
    BY <1>4, <2>2, ReturnsOrRaises DEF Enqueue, IInv
  <2>5. \A n \in Signal, s \in Sub :
          /\ fate'[<<n, s, 2>>] = fate[<<n, s, 2>>]
          /\ n # received \/ s # serving => fate'[<<n, s, 1>>] = fate[<<n, s, 1>>]
    <3>1. \A n, s : /\ <<n, s, 1>> # <<received, serving, 2>>
                   /\ <<n, s, 2>> # <<received, serving, 1>>
      OBVIOUS
    <3> QED
      BY <1>0, <2>2, <2>4, <3>1
  <2>6. /\ <<received, serving>> \notin delivered /\ <<received, serving>> \in failed
        /\ fate[<<received, serving, 1>>] = "none" /\ fate[<<received, serving, 2>>] = "none"
    BY <2>1 DEF IInv, Current
  <2>7. \/ Returns(e) /\ todo' = todo \ {serving} /\ step' = "next"
        \/ Raises(e) /\ todo' = todo /\ step' = "handler" /\ serving' = serving
    BY <1>4 DEF Enqueue, Done
  <2>8. Types'
    BY <2>1, <2>3, <2>4, <2>7 DEF IInv, Types
  <2>9. HandlerHasCause'
    BY <2>3, <2>4, <2>7 DEF HandlerHasCause
  <2>10. Untouched'
    BY <2>1, <2>3, <2>5 DEF IInv, Types, Untouched, Signal
  <2>11. Current'
    BY <2>1, <2>3, <2>4, <2>5, <2>7 DEF IInv, Types, Current
  <2>12. AllAccountedFor'
    <3> SUFFICES ASSUME NEW n \in Signal, NEW s \in Sub  PROVE AccountedFor(n, s)'
      BY DEF AllAccountedFor
    <3>1. AccountedFor(n, s)
      BY DEF IInv, AllAccountedFor
    <3>2. Excused(n) => Excused(n)'
      BY <2>3, <2>4 DEF Excused
    <3>3. CASE n = received /\ s = serving
      BY <2>1, <2>3, <2>4, <2>5, <2>6, <2>7, <3>3 DEF AccountedFor, Queued, Left
    <3>4. CASE n # received \/ s # serving
      <4>1. Left(n, s)' => Left(n, s)
        BY <2>3, <2>7, <3>4 DEF Left
      <4> QED
        BY <2>3, <2>4, <2>5, <3>1, <3>2, <3>4, <4>1 DEF AccountedFor, Queued
    <3> QED
      BY <3>3, <3>4
  <2> QED
    BY <2>8, <2>9, <2>10, <2>11, <2>12 DEF IInv
<1>5. CASE EnqueueInHandler
  <2> DEFINE e == <<received, serving, 2>>
  <2>1. step = "handler" /\ serving \in todo /\ serving \in Sub /\ received \in Signal
    BY <1>5 DEF EnqueueInHandler, IInv, Types, Current
  <2>2. e \in Entry
    BY <1>0, <2>1
  <2>3. UNCHANGED <<wired, malformed, published, received, addressed, delivered, failed, lost>>
    BY <1>5 DEF EnqueueInHandler, Done, Abandon
  <2>4. /\ fate' \in [Entry -> {"none", "queued", "settled"}]
        /\ \A f \in Entry : f # e => fate'[f] = fate[f]
        /\ raised \subseteq raised'
        /\ Returns(e) => raised' = raised /\ (wired => fate'[e] # "none")
        /\ Raises(e) => e \in raised'
        /\ fate'[e] # "none" \/ fate'[e] = fate[e]
    BY <1>5, <2>2, ReturnsOrRaises DEF EnqueueInHandler, IInv
  <2>5. \A n \in Signal, s \in Sub :
          /\ fate'[<<n, s, 1>>] = fate[<<n, s, 1>>]
          /\ n # received \/ s # serving => fate'[<<n, s, 2>>] = fate[<<n, s, 2>>]
    <3>1. \A n, s : /\ <<n, s, 1>> # <<received, serving, 2>>
                   /\ <<n, s, 2>> # <<received, serving, 1>>
      OBVIOUS
    <3> QED
      BY <1>0, <2>2, <2>4, <3>1
  <2>6. /\ <<received, serving>> \notin delivered /\ <<received, serving>> \in failed
        /\ fate[<<received, serving, 1>>] = "none" \/ <<received, serving, 1>> \in raised
    BY <2>1 DEF IInv, Current
  <2>7. \/ Returns(e) /\ todo' = todo \ {serving} /\ step' = "next"
        \/ Raises(e) /\ todo' = {} /\ step' = "next"
    BY <1>5 DEF EnqueueInHandler, Done, Abandon
  <2>8. Types'
    BY <2>1, <2>3, <2>4, <2>7 DEF IInv, Types
  <2>9. HandlerHasCause'
    BY <2>7 DEF HandlerHasCause
  <2>10. Untouched'
    BY <2>1, <2>3, <2>5 DEF IInv, Types, Untouched, Signal
  <2>11. Current'
    BY <2>1, <2>3, <2>4, <2>5, <2>7 DEF IInv, Types, Current
  <2>12. AllAccountedFor'
    <3> SUFFICES ASSUME NEW n \in Signal, NEW s \in Sub  PROVE AccountedFor(n, s)'
      BY DEF AllAccountedFor
    <3>1. AccountedFor(n, s)
      BY DEF IInv, AllAccountedFor
    <3>2. Excused(n) => Excused(n)'
      BY <2>3, <2>4 DEF Excused
    <3>3. Raises(e) => Excused(received)'
      BY <2>1, <2>3, <2>4 DEF Excused, IInv, HandlerHasCause
    <3>4. CASE n = received /\ s = serving
      BY <2>1, <2>3, <2>4, <2>5, <2>6, <2>7, <3>3, <3>4 DEF AccountedFor, Queued, Left, IInv, Types
    <3>5. CASE n # received \/ s # serving
      <4>1. Left(n, s)' => Left(n, s) \/ Excused(n)'
        BY <2>3, <2>7, <3>3, <3>5 DEF Left
      <4> QED
        BY <2>3, <2>4, <2>5, <3>1, <3>2, <3>5, <4>1 DEF AccountedFor, Queued
    <3> QED
      BY <3>4, <3>5
  <2> QED
    BY <2>8, <2>9, <2>10, <2>11, <2>12 DEF IInv
<1>6. CASE Crash
  <2>1. /\ lost' = published /\ received' = published /\ todo' = {} /\ step' = "next"
        /\ UNCHANGED <<wired, fate, malformed, published, addressed, delivered, failed, raised>>
    BY <1>6 DEF Crash
  <2>2. Types' /\ Current' /\ HandlerHasCause'
    BY <2>1 DEF IInv, Types, Current, HandlerHasCause
  <2>3. Untouched'
    BY <2>1 DEF IInv, Types, Untouched, Signal
  <2>4. AllAccountedFor'
    <3> SUFFICES ASSUME NEW n \in Signal, NEW s \in Sub  PROVE AccountedFor(n, s)'
      BY DEF AllAccountedFor
    <3>1. AccountedFor(n, s)
      BY DEF IInv, AllAccountedFor
    <3>2. <<n, s>> \in addressed => n <= published
      <4>1. n \in Int /\ received \in Int /\ published \in Int /\ received <= published
        BY DEF IInv, Types, Signal
      <4>2. <<n, s>> \in addressed => ~(n > received)
        BY DEF IInv, Untouched
      <4> QED
        BY <4>1, <4>2
    <3> QED
      BY <2>1, <3>1, <3>2 DEF AccountedFor, Queued, Excused, Left
  <2> QED
    BY <2>2, <2>3, <2>4 DEF IInv
<1>7. CASE Tick \/ UNCHANGED vars
  BY <1>7 DEF Tick, vars, IInv, Types, Current, HandlerHasCause, Untouched, AllAccountedFor,
              AccountedFor, Left, Queued, Excused
<1> QED
  BY <1>1, <1>2, <1>3, <1>4, <1>5, <1>6, <1>7 DEF Next, ServeNext

(***************************************************************************)
(* What the delivery loop leaves behind was delivered, or is counted as    *)
(* failed and, where there is a queue, in the dead letter queue, never     *)
(* both, unless Redis failed the enqueues of this very signal or the       *)
(* service died; and an entry is queued twice only after its first enqueue *)
(* raised.                                                                 *)
(***************************************************************************)
THEOREM DeliveriesAccounted == Spec => []Accounted
<1>1. IInv => Accounted
  BY EnqueuedAre DEF IInv
<1> QED
  BY InitInv, NextInv, <1>1, PTL DEF Spec

=============================================================================
