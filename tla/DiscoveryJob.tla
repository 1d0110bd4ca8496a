------------------------------ MODULE DiscoveryJob ------------------------------
(***************************************************************************)
(* The discovery pipeline (discovery/StrategyDiscoveryPipeline.kt), a Beam  *)
(* job on Flink that reads requests from Kafka, runs the genetic algorithm  *)
(* for each (RunGADiscoveryFn.kt) and writes its best strategies to Kafka   *)
(* (WriteDiscoveredStrategiesToKafkaFn.kt).  The source has neither a group *)
(* nor committed offsets: where it begins again is in Flink's checkpoints,  *)
(* and without one it begins at the end of the topic.  A new release is     *)
(* deployed without state (values.yaml upgradeMode).                        *)
(***************************************************************************)
EXTENDS Integers, Sequences, FiniteSets

CONSTANTS
    MaxRequests,    \* bound on requests
    TopN,           \* strategies a request asks for
    MaxRestarts     \* bound on failures and deployments

VARIABLES
    requestEnd,     \* the newest request in the topic
    reading,        \* the request the source reads next, or is being answered
    checkpoint,     \* the position of the last checkpoint, 0 if there is none
    sending,        \* the strategy of the current attempt to be sent next, 0 for none
    yields,          \* how many strategies each attempt at a request had to send
    sentTo,         \* the topic discovered-strategies: <<request, attempt, strategy>>
    unread,         \* history: requests that went by while nothing read them
    restarts        \* failures and deployments so far

vars == <<requestEnd, reading, checkpoint, sending, yields, sentTo, unread, restarts>>

DiscoveryRequest == 1..MaxRequests

Init ==
    /\ requestEnd = 0 /\ reading = 1 /\ checkpoint = 0 /\ sending = 0
    /\ yields = [r \in DiscoveryRequest |-> <<>>]
    /\ sentTo = {} /\ unread = {} /\ restarts = 0

PublishRequest ==
    /\ requestEnd < MaxRequests
    /\ requestEnd' = requestEnd + 1
    /\ UNCHANGED <<reading, checkpoint, sending, yields, sentTo, unread, restarts>>

\* A request that cannot be parsed, has no candles - a query that failed reads
\* the same -, or whose evolution fails yields nothing and is not tried again; a
\* genotype that cannot be converted is left out.
RunGA ==
    /\ sending = 0 /\ reading <= requestEnd
    /\ \E n \in 0..TopN :
        /\ yields' = [yields EXCEPT ![reading] = Append(@, n)]
        /\ IF n = 0 THEN reading' = reading + 1 /\ UNCHANGED sending
           ELSE sending' = 1 /\ UNCHANGED reading
    /\ UNCHANGED <<requestEnd, checkpoint, sentTo, unread, restarts>>

Attempt == Len(yields[reading])

\* The next strategy, or the next request.
Proceed ==
    IF sending = yields[reading][Attempt]
    THEN sending' = 0 /\ reading' = reading + 1
    ELSE sending' = sending + 1 /\ UNCHANGED reading

SendSwallowing ==
    /\ sending > 0
    /\ \/ sentTo' = sentTo \cup {<<reading, Attempt, sending>>}
       \/ UNCHANGED sentTo
    /\ Proceed
    /\ UNCHANGED <<requestEnd, checkpoint, yields, unread, restarts>>

\* The sink waits for the broker's answer, and what it raises fails the job.
Send ==
    /\ sending > 0
    /\ sentTo' = sentTo \cup {<<reading, Attempt, sending>>}
    /\ Proceed
    /\ UNCHANGED <<requestEnd, checkpoint, yields, unread, restarts>>

\* Between two requests.
TakeCheckpoint ==
    /\ sending = 0
    /\ checkpoint' = reading
    /\ UNCHANGED <<requestEnd, reading, sending, yields, sentTo, unread, restarts>>

BeginAt(position) ==
    /\ restarts < MaxRestarts
    /\ restarts' = restarts + 1
    /\ reading' = position
    /\ sending' = 0
    /\ unread' = unread \cup reading..(position - 1)
    /\ UNCHANGED <<requestEnd, yields>>

\* A send that fails may still have reached the topic.
Fail ==
    /\ BeginAt(IF checkpoint = 0 THEN requestEnd + 1 ELSE checkpoint)
    /\ \/ sending > 0 /\ sentTo' = sentTo \cup {<<reading, Attempt, sending>>}
       \/ UNCHANGED sentTo
    /\ UNCHANGED checkpoint

Deploy ==
    /\ BeginAt(requestEnd + 1)
    /\ checkpoint' = 0
    /\ UNCHANGED sentTo

Next == PublishRequest \/ RunGA \/ Send \/ TakeCheckpoint \/ Fail \/ Deploy

Spec == Init /\ [][Next]_vars

----------------------------------------------------------------------------
(* Properties *)

\* Every request the job has passed was answered in full by one of its attempts,
\* unless it came while the job began without a checkpoint.
PassedIsAnswered ==
    \A r \in 1..(reading - 1) :
        \/ r \in unread
        \/ \E a \in DOMAIN yields[r] : \A k \in 1..yields[r][a] : <<r, a, k>> \in sentTo

\* A request is evolved again, to other strategies, only after a failure.
EvolvedOncePerRun == \A r \in DiscoveryRequest : Len(yields[r]) <= restarts + 1
=============================================================================
