--------------------------- MODULE NotificationRouter --------------------------
(***************************************************************************)
(* services/notification_service: DeliveryRouter.route sends a signal to   *)
(* one user over the channels the preferences allow.  What it shares with  *)
(* other routers - claims, the success mark, the rate limiter's entries -  *)
(* is in Redis, one command or pipeline per step, so routers that were     *)
(* handed the same signal interleave between any two of them.              *)
(*                                                                         *)
(* Behaviours last less than the hour after which claims, marks and rate   *)
(* limiter entries expire.  Filters, quiet hours and priorities, which     *)
(* only shorten the list of channels, are the choice of that list.         *)
(*                                                                         *)
(* A sender whose reply is lost returns False although the channel took    *)
(* the message, and the webhook's sender posts it again, up to three times.*)
(***************************************************************************)
EXTENDS Integers, Sequences, FiniteSetsExt, Functions

CONSTANTS
    Router,         \* routers that run beside each other
    Notice,         \* signals
    Senders,        \* the user's enabled channels, the primary one first
    Insistent,      \* the channels whose sender posts again what failed: webhooks
    MaxPosts,       \* how often, stop_after_attempt(3)
    Limit,          \* deliveries a channel may make in an hour
    MaxRouted,      \* bound: calls of route
    MaxRouterDeaths \* bound: routers that die

VARIABLES
    delivery,       \* the user's delivery_mode
    routing,        \* what each router is at: signal, channels left as positions in
                \* Senders, label
    claims,         \* dedup:{user}:{signal}[:{channel}]
    success,        \* dedup:{user}:{signal}:success
    used,           \* ratelimit:{user}:{channel}, as a number of entries
    routed,         \* calls of route so far
    deaths,
    copies,         \* history: messages a channel accepted, by signal and channel
    unanswered      \* history: those of them whose reply was lost

routerVars == <<delivery, routing, claims, success, used, routed, deaths, copies, unanswered>>

Channel == Range(Senders)
Free == [signal |-> {}, left |-> {}, label |-> "free"]

Init ==
    /\ delivery \in {"primary_only", "all_enabled", "fallback_chain"}
    /\ routing = [r \in Router |-> Free]
    /\ claims = {} /\ success = {}
    /\ used \in [Channel -> 0..Limit]    \* other signals have been delivered
    /\ routed = 0 /\ deaths = 0
    /\ copies = [p \in Notice \X Channel |-> 0]
    /\ unanswered = [p \in Notice \X Channel |-> 0]

At(r, label) == routing[r].label = label
Sig(r) == CHOOSE s \in routing[r].signal : TRUE
Chan(r) == Senders[Min(routing[r].left)]
Goto(r, label) == routing' = [routing EXCEPT ![r].label = label]

\* The next channel of the list, or the end of the call.
Onwards(r) ==
    LET rest == routing[r].left \ {Min(routing[r].left)}
    IN  routing' = [routing EXCEPT ![r] =
            IF rest = {} THEN Free
            ELSE [signal |-> routing[r].signal, left |-> rest, label |-> "dedup"]]

\* _resolve_channels, for channels that have senders
Channels == IF delivery = "primary_only" THEN {{1}} ELSE (SUBSET DOMAIN Senders) \ {{}}

\* route
Route(r, s) ==
    /\ At(r, "free") /\ routed < MaxRouted
    /\ routed' = routed + 1
    /\ \E left \in Channels :
         routing' = [routing EXCEPT ![r] = [signal |-> {s}, left |-> left, label |-> "dedup"]]
    /\ UNCHANGED <<delivery, claims, success, used, deaths, copies, unanswered>>

\* A claim that is looked up and never set.
TryClaimUnset(r, key) ==
    /\ UNCHANGED claims
    /\ IF key \in claims THEN Onwards(r) ELSE Goto(r, "count")

\* _try_claim: SET NX
TryClaim(r, key) ==
    /\ claims' = claims \union {key}
    /\ IF key \in claims THEN Onwards(r) ELSE Goto(r, "count")

\* should_deliver: in a fallback chain the success mark is looked up first.
ShouldDeliver(r) ==
    /\ \/ /\ At(r, "dedup") /\ delivery = "fallback_chain"
          /\ IF Sig(r) \in success THEN Onwards(r) ELSE Goto(r, "claim")
          /\ UNCHANGED claims
       \/ /\ At(r, "claim")
          /\ TryClaim(r, <<Sig(r), Chan(r)>>)
       \/ /\ At(r, "dedup") /\ delivery # "fallback_chain"
          /\ TryClaim(r, IF delivery = "all_enabled" THEN <<Sig(r), Chan(r)>> ELSE <<Sig(r)>>)
    /\ UNCHANGED <<delivery, success, used, routed, deaths, copies, unanswered>>

\* DeliveryRateLimiter.allow, its first pipeline
BelowLimit(c) == used[c] < Limit

\* A signal that is refused here stays claimed.
CountTokens(r) ==
    /\ At(r, "count")
    /\ IF BelowLimit(Chan(r)) THEN Goto(r, "take") ELSE Onwards(r)
    /\ UNCHANGED <<delivery, claims, success, used, routed, deaths, copies, unanswered>>

\* DeliveryRateLimiter.allow, its second pipeline; the time is the member, so
\* an entry of the same instant may be overwritten.
TakeToken(r) ==
    /\ At(r, "take")
    /\ \E n \in {used[Chan(r)], used[Chan(r)] + 1} :
         /\ n > 0
         /\ used' = [used EXCEPT ![Chan(r)] = n]
    /\ Goto(r, "send")
    /\ UNCHANGED <<delivery, claims, success, routed, deaths, copies, unanswered>>

\* How often a sender posts one message.
Posts(c) == IF c \in Insistent THEN MaxPosts ELSE 1

\* sender.send_signal, and mark_failed, which nothing reads: the channel accepts the
\* message as often as it is posted, or less; the call is a success if the reply to
\* the last post says so.
Send(r) ==
    /\ At(r, "send")
    /\ LET p == <<Sig(r), Chan(r)>> IN
       \E taken \in 0..Posts(Chan(r)) :
         /\ copies' = [copies EXCEPT ![p] = @ + taken]
         /\ \/ /\ taken > 0
               /\ unanswered' = [unanswered EXCEPT ![p] = @ + taken - 1]
               /\ IF delivery = "fallback_chain" THEN Goto(r, "mark") ELSE Onwards(r)
            \/ unanswered' = [unanswered EXCEPT ![p] = @ + taken] /\ Onwards(r)
    /\ UNCHANGED <<delivery, claims, success, used, routed, deaths>>

\* The end of a chain that nobody is told of.
MarkNothing(r) ==
    /\ At(r, "mark")
    /\ routing' = [routing EXCEPT ![r] = Free]
    /\ UNCHANGED <<delivery, claims, success, used, routed, deaths, copies, unanswered>>

\* mark_success, and the end of the chain
MarkSuccess(r) ==
    /\ At(r, "mark")
    /\ success' = success \union {Sig(r)}
    /\ routing' = [routing EXCEPT ![r] = Free]
    /\ UNCHANGED <<delivery, claims, used, routed, deaths, copies, unanswered>>

Die(r) ==
    /\ ~At(r, "free") /\ deaths < MaxRouterDeaths
    /\ deaths' = deaths + 1
    /\ routing' = [routing EXCEPT ![r] = Free]
    /\ UNCHANGED <<delivery, claims, success, used, routed, copies, unanswered>>

RouterStep(r) == \/ \E s \in Notice : Route(r, s)
                 \/ ShouldDeliver(r) \/ CountTokens(r) \/ TakeToken(r)
                 \/ Send(r) \/ MarkSuccess(r) \/ Die(r)

Next == \E r \in Router : RouterStep(r)
Spec == Init /\ [][Next]_routerVars

----------------------------------------------------------------------------
(* Properties *)

\* However routers and calls overlap, a channel gets a signal once and the copies
\* whose reply was lost, no more in all than a sender posts; and a user who wants the
\* primary channel only gets nothing from the others.
OnePerChannel ==
    \A s \in Notice, c \in Channel :
        /\ copies[<<s, c>>] <= 1 + unanswered[<<s, c>>]
        /\ copies[<<s, c>>] <= Posts(c)
        /\ delivery = "primary_only" /\ c # Head(Senders) => copies[<<s, c>>] = 0

\* The channels whose sender knows that the signal arrived.
Answered(s) == {c \in Channel : copies[<<s, c>>] > unanswered[<<s, c>>]}

\* In a fallback chain a signal that arrived, as far as senders know, arrives again
\* only by a router that looked for the success mark before it was there, or
\* because a router died without it.
FallbackStops ==
    delivery = "fallback_chain" =>
        \A s \in Notice : Cardinality(Answered(s)) <= Cardinality(Router) + deaths
=============================================================================
