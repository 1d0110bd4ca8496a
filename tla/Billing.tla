-------------------------------- MODULE Billing --------------------------------
(***************************************************************************)
(* The billing service (services/billing): Stripe tells of one customer's  *)
(* subscription by webhook calls, at least once and in no certain order,   *)
(* and the service copies it to billing_customers, billing_subscriptions   *)
(* and billing_events; the delivery gate (gating.py) reads the copy and    *)
(* counts the signals of free users.                                       *)
(*                                                                         *)
(* Handlers interleave at every await, one statement at a time; no         *)
(* transaction spans two of them.  Signatures, tiers, periods, invoices of *)
(* no subscription, checkout and portal calls to Stripe and the queries    *)
(* are left out, and the day of the counter does not end.                  *)
(***************************************************************************)
EXTENDS Integers, Sequences, FiniteSets

CONSTANTS
    Handler,        \* concurrent webhook calls
    Deliverer,      \* concurrent deliveries through the gate
    SignalsPerDay,  \* FREE_PLAN.signals_per_day
    MaxEvents,      \* bound: events Stripe emits
    MaxFaults,      \* bound: statements that fail
    MaxSignals      \* bound: deliveries the quota let pass

VARIABLES
    events,     \* what Stripe has emitted, oldest first
    answered,   \* events Stripe got a 2xx for
    customer,   \* billing_customers: "none", "linked" to the chat or "unlinked"
    sub,        \* billing_subscriptions.status, or "none"
    recorded,   \* billing_events
    call,       \* where a webhook call stands, with its event
    faults,
    writer,     \* history: the event the row's status is of, or 0
    wrote,      \* history: events that wrote the row
    missed,     \* history: events that found no row, before the creation was recorded
    outdated,   \* history: events that were settled when a newer one wrote the row
    gate,       \* deliveries past the quota check
    usage       \* signal_usage.signal_count

tables == <<customer, sub, recorded>>
gateVars == <<gate, usage>>
histories == <<writer, wrote, missed, outdated>>
billingVars == <<events, answered, tables, call, faults, histories, gateVars>>

Status == {"active", "past_due", "cancelled"}
Idle == [label |-> "idle", event |-> 0]

Init ==
    /\ events = << >> /\ answered = {}
    /\ customer = "none" /\ sub = "none" /\ recorded = {}
    /\ call = [h \in Handler |-> Idle]
    /\ faults = 0
    /\ writer = 0 /\ wrote = {} /\ missed = {} /\ outdated = {}
    /\ gate = {} /\ usage = 0

Kinds == {events[e].kind : e \in DOMAIN events}

\* Stripe emits an event: a checkout and a creation first, in any order, and
\* nothing after a deletion.
Emit ==
    /\ Len(events) < MaxEvents
    /\ "deleted" \notin Kinds
    /\ \E kind \in {"checkout", "created", "updated", "payment_failed", "deleted"}, status \in Status :
         /\ IF {"checkout", "created"} \subseteq Kinds
              THEN kind \notin {"checkout", "created"}
              ELSE kind \in {"checkout", "created"} \ Kinds
         /\ status = CASE kind = "deleted" -> "cancelled"
                       [] kind = "payment_failed" -> "past_due"
                       [] kind = "updated" -> status
                       [] OTHER -> "active"
         /\ status # "cancelled" \/ kind = "deleted"
         /\ events' = Append(events, [kind |-> kind, status |-> status])
    /\ UNCHANGED <<answered, tables, call, faults, histories, gateVars>>

Event(h) == events[call[h].event]
Goto(h, label) == call' = [call EXCEPT ![h].label = label]

\* Every call is answered with a 2xx.
AnswerOK(h, ok) == /\ call' = [call EXCEPT ![h] = Idle]
                   /\ answered' = answered \union {call[h].event}

Answer(h, ok) == /\ call' = [call EXCEPT ![h] = Idle]
                 /\ answered' = IF ok THEN answered \union {call[h].event} ELSE answered

Fault == faults < MaxFaults /\ faults' = faults + 1

\* A check for duplicates that finds none.
DuplicateNever(e) == FALSE

\* Deduplicate events
Duplicate(e) == e \in recorded

\* stripe_webhook up to the handler: an event that was recorded is answered.
Receive(h, e) ==
    /\ call[h] = Idle
    /\ IF Duplicate(e)
         THEN answered' = answered \union {e} /\ UNCHANGED call
         ELSE /\ call' = [call EXCEPT ![h] = [label |-> IF events[e].kind \in {"checkout", "created"}
                                                   THEN "customer" ELSE "apply", event |-> e]]
              /\ UNCHANGED answered
    /\ UNCHANGED <<events, tables, faults, histories, gateVars>>

\* _handle_checkout_completed, _handle_subscription_created: is there a customer?
LookUpCustomer(h) ==
    /\ call[h].label = "customer"
    /\ Goto(h, IF customer = "none" THEN "insert"
               ELSE IF Event(h).kind = "created" THEN "apply" ELSE "record")
    /\ UNCHANGED <<events, answered, tables, faults, histories, gateVars>>

\* INSERT INTO billing_customers: a second row is refused, the call fails.
InsertCustomer(h) ==
    /\ call[h].label = "insert"
    /\ IF customer = "none"
         THEN /\ customer' = IF Event(h).kind = "checkout" THEN "linked" ELSE "unlinked"
              /\ Goto(h, IF Event(h).kind = "created" THEN "apply" ELSE "record")
              /\ UNCHANGED answered
         ELSE Answer(h, FALSE) /\ UNCHANGED customer
    /\ UNCHANGED <<events, sub, recorded, faults, histories, gateVars>>

\* An update that makes up a row.
WriteSubscriptionAlways(e) == sub' = events[e].status

\* A creation is upserted, everything else updates the row if there is one.
FindsRow(e) == events[e].kind = "created" \/ sub # "none"

WriteSubscription(e) == sub' = IF FindsRow(e) THEN events[e].status ELSE sub

\* Recorded, and in the hands of no call.
Settled == {e \in recorded : \A h \in Handler : call[h].event # e}

NoCreation == \A e \in recorded : events[e].kind # "created"

\* The statement on billing_subscriptions (four handlers).
ApplyEvent(h) ==
    /\ call[h].label = "apply"
    /\ LET e == call[h].event IN
       /\ WriteSubscription(e)
       /\ IF FindsRow(e)
            THEN /\ writer' = e
                 /\ wrote' = wrote \union {e}
                 /\ outdated' = outdated \union {d \in Settled : d < e}
                 /\ UNCHANGED missed
            ELSE /\ missed' = IF NoCreation THEN missed \union {e} ELSE missed
                 /\ UNCHANGED <<writer, wrote, outdated>>
    /\ Goto(h, "record")
    /\ UNCHANGED <<events, answered, customer, recorded, faults, gateVars>>

\* INSERT INTO billing_events, unique by event; the answer may be lost.
RecordEvent(h) ==
    /\ call[h].label = "record"
    /\ \/ Answer(h, call[h].event \notin recorded) /\ UNCHANGED faults
       \/ Fault /\ Answer(h, FALSE)
    /\ recorded' = recorded \union {call[h].event}
    /\ UNCHANGED <<events, customer, sub, histories, gateVars>>

\* A statement fails, or the process dies: Stripe gets no 2xx.
FailCall(h) ==
    /\ call[h] # Idle
    /\ Fault
    /\ Answer(h, FALSE)
    /\ UNCHANGED <<events, tables, histories, gateVars>>

----------------------------------------------------------------------------
(* should_deliver_signal *)

\* get_customer_tier, by the chat
Paying == customer = "linked" /\ sub = "active"

\* check_signal_quota that is off by one
QuotaLeftLate == usage <= SignalsPerDay

\* check_signal_quota
QuotaLeft == usage < SignalsPerDay

\* A delivery to the chat: at once for a paying customer and for a chat that
\* belongs to nobody, through the quota for a customer on the free plan.
AskGate(d) ==
    /\ d \notin gate /\ usage + Cardinality(gate) < MaxSignals
    /\ gate' = IF customer = "linked" /\ ~Paying /\ QuotaLeft THEN gate \union {d} ELSE gate
    /\ UNCHANGED <<events, answered, tables, call, faults, histories, usage>>

\* record_signal_delivery
CountDelivery(d) ==
    /\ d \in gate
    /\ gate' = gate \ {d}
    /\ usage' = usage + 1
    /\ UNCHANGED <<events, answered, tables, call, faults, histories>>

Next ==
    \/ Emit
    \/ \E h \in Handler, e \in DOMAIN events : Receive(h, e)
    \/ \E h \in Handler : \/ LookUpCustomer(h) \/ InsertCustomer(h) \/ ApplyEvent(h)
                          \/ RecordEvent(h) \/ FailCall(h)
    \/ \E d \in Deliverer : AskGate(d) \/ CountDelivery(d)

Spec == Init /\ [][Next]_billingVars

----------------------------------------------------------------------------
(* Properties *)

\* The subscription has the status of the event that wrote it last.  That may be an
\* older event than another that wrote it - nothing compares them - but none that
\* was settled by then: the check for duplicates keeps a late repetition out,
\* however calls fail and overlap.
StatusFollowsStripe ==
    /\ writer > 0 => sub = events[writer].status
    /\ writer \notin outdated
    /\ sub # "none" => customer # "none"

\* What Stripe need not repeat is recorded, and what is recorded has written the
\* subscription, or found none before the creation was recorded.  Such an update
\* is lost for good.
AnsweredIsKept ==
    /\ answered \subseteq recorded
    /\ \A e \in recorded :
          /\ events[e].kind \notin {"checkout", "created"} => e \in wrote \union missed
          /\ events[e].kind = "created" => e \in wrote /\ sub # "none"

\* The quota is checked before it is counted, so deliveries that overlap may
\* pass it, but never more than all of them but one.
QuotaOverrunBounded == usage <= SignalsPerDay + Cardinality(Deliverer) - 1
=============================================================================
