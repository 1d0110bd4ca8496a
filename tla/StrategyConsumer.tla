-------------------------- MODULE StrategyConsumer --------------------------
(***************************************************************************)
(* The strategy consumer: a cron job that polls discovered strategies from *)
(* Kafka (StrategyKafkaConsumer.consume_messages), writes them to Postgres *)
(* in batches, one transaction each (PostgresClient.insert_strategies),    *)
(* and leaves the offsets to Kafka's auto-commit, which happens in the     *)
(* polls after a batch and when the consumer is closed.                    *)
(*                                                                         *)
(* One partition.  Offsets count from 1 and stand for their messages;      *)
(* hashOf says which strategy a message is about, NoStrategy for bytes     *)
(* that cannot be parsed.  A group without a committed offset starts at    *)
(* the end of the topic (auto_offset_reset "latest").                      *)
(***************************************************************************)
EXTENDS Integers, FiniteSets, FiniteSetsExt

CONSTANTS
    MaxMsg,         \* bound: messages in the topic
    Hash,           \* strategy hashes
    NoStrategy,     \* an unparsable message
    BatchSize,      \* batch_size
    MaxPoll,        \* max_poll_records
    MaxFaults       \* bound: crashes, rebalances, failed commits and batches

ASSUME ConsumerConstants ==
    /\ {BatchSize, MaxPoll} \subseteq Nat \ {0}
    /\ {MaxMsg, MaxFaults} \subseteq Nat
    /\ NoStrategy \notin Hash

VARIABLES
    hashOf,     \* the strategy of each message
    end,        \* the newest message in the topic
    committed,  \* the group's committed offset, NoOffset before the first commit
    pc,         \* "down", "poll" or "process"
    position,   \* the next offset to poll
    next,       \* the next polled message to process
    rows,       \* table Strategies: hash -> the message its score comes from
    copies,     \* how many strategy_implementations rows a message gave
    faults,     \* crashes, rebalances, failed commits and batches so far
    stored,     \* history: messages whose batch was committed with them
    latest,     \* history: those of which this holds for the latest attempt
    attempted,  \* history: the newest message a batch was made of
    excused     \* history: messages of failed batches, or before a first offset

topicVars == <<hashOf, end>>
jobVars == <<pc, position, next>>
tableVars == <<rows, copies, stored, latest, attempted>>
readerVars == <<jobVars, excused>>
vars == <<topicVars, committed, readerVars, tableVars, faults>>

Msg == 1..MaxMsg
NoOffset == -1

Init ==
    /\ hashOf \in [Msg -> Hash \union {NoStrategy}]
    /\ end = 0
    /\ committed = NoOffset
    /\ pc = "down"
    /\ position = 1
    /\ next = 1
    /\ rows = [h \in Hash |-> 0]
    /\ copies = [m \in Msg |-> 0]
    /\ faults = 0
    /\ stored = {}
    /\ latest = {}
    /\ attempted = 0
    /\ excused = {}

----------------------------------------------------------------------------

Produce ==
    /\ end < MaxMsg
    /\ end' = end + 1
    /\ UNCHANGED <<hashOf, committed, readerVars, tableVars, faults>>

\* The committed message itself is read again.
ResumeAtCommitted == IF committed = NoOffset THEN end + 1 ELSE Max({1, committed})

\* Where a consumer that joins the group reads on.
Resume == IF committed = NoOffset THEN end + 1 ELSE committed + 1

\* The consumer gets the partition.
Join ==
    /\ position' = Resume
    /\ next' = position'
    /\ excused' = IF committed = NoOffset THEN excused \union 1..end ELSE excused

\* initialize: the job starts and joins the group.
Start ==
    /\ pc = "down"
    /\ pc' = "poll"
    /\ Join
    /\ UNCHANGED <<topicVars, committed, tableVars, faults>>

\* The commit covers the messages just polled.
PollCommitAhead ==
    /\ pc = "poll"
    /\ \E last \in position..Min({end, position + MaxPoll - 1}) : position' = last + 1
    /\ committed' \in {committed, position' - 1}
    /\ pc' = "process"
    /\ UNCHANGED <<topicVars, next, excused, tableVars, faults>>

\* poll returns messages.  If the commit interval is over, it first commits
\* what earlier polls returned.
Poll ==
    /\ pc = "poll"
    /\ \E last \in position..Min({end, position + MaxPoll - 1}) : position' = last + 1
    /\ committed' \in {committed, position - 1}
    /\ pc' = "process"
    /\ UNCHANGED <<topicVars, next, excused, tableVars, faults>>

\* Polls find nothing until the commit interval is over.
PollEmpty ==
    /\ pc = "poll"
    /\ position > end
    /\ committed' = position - 1
    /\ UNCHANGED <<topicVars, readerVars, tableVars, faults>>

Parsable(from, to) == {m \in from..to : hashOf[m] # NoStrategy}

\* The last message the next batch reaches: the batch is full, or everything
\* polled is in it.
BatchEnd ==
    Min({position - 1} \union
        {m \in next..(position - 1) : Cardinality(Parsable(next, m)) = BatchSize})

\* ON CONFLICT DO NOTHING: the first score stays.
UpsertFirst(done) ==
    rows' = [h \in Hash |->
               IF rows[h] # 0 THEN rows[h]
               ELSE Max({0} \union {m \in done : hashOf[m] = h})]

\* The upserts of a batch in order: the score of a hash is the last one.
Upsert(done) ==
    rows' = [h \in Hash |->
               IF \E m \in done : hashOf[m] = h
               THEN Max({m \in done : hashOf[m] = h})
               ELSE rows[h]]

\* What a transaction keeps of a batch.  A strategy that cannot be bound is
\* left out.  When the server refuses one statement, or the connection breaks,
\* nothing is kept, although the loop over the batch goes on: any part.
Outcomes(batch) == SUBSET batch

\* _process_strategies with insert_strategies: errors are logged and the loop
\* goes on in every case.  The second model of a strategy (spec and
\* implementation) is written in the same transaction.
ProcessBatch ==
    /\ pc = "process"
    /\ LET batch == Parsable(next, BatchEnd)
       IN  /\ \E done \in Outcomes(batch) :
                /\ Upsert(done)
                /\ copies' = [m \in Msg |-> IF m \in done THEN copies[m] + 1 ELSE copies[m]]
                /\ stored' = stored \union done
                /\ latest' = (latest \ batch) \union done
                /\ excused' = excused \union (batch \ done)
                /\ faults' = IF done = batch THEN faults ELSE faults + 1
           /\ attempted' = Max({attempted} \union batch)
    /\ next' = BatchEnd + 1
    /\ pc' = IF next' = position THEN "poll" ELSE "process"
    /\ UNCHANGED <<topicVars, committed, position>>

\* A commit that follows the messages polled, not those processed.
StopAnywhere ==
    /\ pc # "down"
    /\ \/ committed' = position - 1 /\ UNCHANGED faults
       \/ UNCHANGED committed /\ faults' = faults + 1
    /\ pc' = "down"
    /\ UNCHANGED <<topicVars, position, next, excused, tableVars>>

\* A signal, no messages for the idle timeout, or the time limit: the loop
\* ends at its top, and closing the consumer commits, if it can.
Stop ==
    /\ pc = "poll"
    /\ \/ committed' = position - 1 /\ UNCHANGED faults
       \/ UNCHANGED committed /\ faults' = faults + 1
    /\ pc' = "down"
    /\ UNCHANGED <<topicVars, position, next, excused, tableVars>>

\* The group takes the partition away from a slow consumer and gives it back:
\* it reads on from the committed offset.
Rebalance ==
    /\ pc = "poll"
    /\ faults' = faults + 1
    /\ Join
    /\ UNCHANGED <<topicVars, committed, pc, tableVars>>

\* The pod dies; an open transaction is rolled back.
Crash ==
    /\ pc # "down"
    /\ faults' = faults + 1
    /\ pc' = "down"
    /\ UNCHANGED <<topicVars, committed, position, next, excused, tableVars>>

ConsumerStep ==
    /\ Start \/ Poll \/ PollEmpty \/ ProcessBatch \/ Stop \/ Rebalance \/ Crash
    /\ faults' <= MaxFaults

Next == Produce \/ ConsumerStep

\* The cron job is started again and again, its loop goes on, and not every
\* job is stopped before it polls.
Spec == Init /\ [][Next]_vars /\ WF_vars(Produce) /\ WF_vars(ConsumerStep) /\ SF_vars(Poll)

----------------------------------------------------------------------------
(* Properties *)

\* Types of all variables.
TypeOK ==
    /\ hashOf \in [Msg -> Hash \union {NoStrategy}]
    /\ end \in 0..MaxMsg
    /\ committed \in {NoOffset} \union 0..end
    /\ pc \in {"down", "poll", "process"}
    /\ position \in 1..(end + 1) /\ next \in 1..position
    /\ rows \in [Hash -> 0..MaxMsg]
    /\ copies \in [Msg -> 0..(MaxFaults + 1)]
    /\ faults \in 0..MaxFaults
    /\ latest \subseteq stored /\ stored \subseteq Msg
    /\ attempted \in 0..MaxMsg
    /\ excused \subseteq Msg

\* What became of a message: its strategy is in the table, or its offset is
\* committed without it.
MsgFate == [m \in Msg |-> IF m \in stored THEN "done"
                          ELSE IF m <= committed THEN "given_up"
                          ELSE "pending"]

Promise == INSTANCE Settlement WITH Item <- Msg, fate <- MsgFate

\* The consumer is a stage that settles its messages: each is stored or given
\* up in the end, a stored one stays stored and one given up is not stored
\* later, however polls, commits, batches, rebalances and crashes interleave.
SettlesMessages == Promise!Spec

\* Crashes, rebalances and lost commits cost no message: one that is given up
\* could not be parsed, was in a batch that failed, or was in the topic before
\* a consumer joined a group without a committed offset.
GivenUpExplained ==
    \A m \in Msg :
        MsgFate[m] = "given_up" => m \in excused \/ hashOf[m] = NoStrategy

\* Redelivered messages are processed again, which the table of strategies
\* absorbs and the table of implementations does not: a message leaves a
\* further row there only after a fault.
CopiesExplained == \A m \in Msg : copies[m] <= 1 + faults

\* Once what was attempted before a crash has been replayed, the score of a
\* strategy is the one of its newest stored message, unless the replay of one
\* failed: replaying does not leave an older score behind.
NewestScore ==
    position > attempted /\ pc = "poll" =>
        \A h \in Hash :
            \/ rows[h] = Max({0} \union {m \in stored : hashOf[m] = h})
            \/ \E m \in stored \ latest : hashOf[m] = h

=============================================================================
