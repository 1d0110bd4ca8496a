------------------------------ MODULE RetryQueue ------------------------------
(***************************************************************************)
(* What deliver_signal expects of a dead letter queue: an entry that was   *)
(* enqueued is settled once, by a successful retry or by giving up after   *)
(* the configured number of them, and that does happen.  DeadLetterQueue   *)
(* implements this; SignalDelivery enqueues through it.                    *)
(***************************************************************************)
CONSTANT Entry

VARIABLE fate

Init == fate = [e \in Entry |-> "none"]

Enqueue(e) ==
    /\ fate[e] = "none"
    /\ fate' = [fate EXCEPT ![e] = "queued"]

Settle(e) ==
    /\ fate[e] = "queued"
    /\ fate' = [fate EXCEPT ![e] = "settled"]

Next == \E e \in Entry : Enqueue(e) \/ Settle(e)

Spec == Init /\ [][Next]_fate /\ \A e \in Entry : WF_fate(Settle(e))

=============================================================================
