--------------------------- MODULE DeadLetterQueue ---------------------------
(***************************************************************************)
(* The Redis-backed dead letter queue for failed signal deliveries         *)
(* (services/shared/dead_letter_queue.py): a list of waiting entries and a *)
(* hash of entries in process.  deliver_signal enqueues, retry workers run *)
(* the loop of the class's docstring.  Every Redis command is one step, so *)
(* workers interleave and die between any two of them.                     *)
(*                                                                         *)
(* A dlq_id is made of the subscriber and a millisecond, so two failures   *)
(* of one subscriber can share it.  A dequeue_batch scan judges readiness  *)
(* by the clock at its start; the model lets one tick pass during a scan.  *)
(***************************************************************************)
EXTENDS Integers, Sequences, FiniteSets

CONSTANTS
    Entry,          \* failed deliveries
    Worker,         \* retry workers
    Id,             \* values of dlq_id
    None,           \* no id, no entry
    MaxRetries,     \* max_retries
    BaseDelay,      \* base_delay
    BatchSize,      \* batch_size
    DistinctIds,    \* are two entries ever given the same id?
    CrashPossible   \* can a worker die (or a Redis command raise)?

ASSUME QueueConstants ==
    /\ None \notin Entry \cup Id
    /\ None \notin [entry : Entry, retries : Nat, due : Int]
    /\ MaxRetries \in Nat
    /\ BaseDelay \in Nat
    /\ BatchSize \in Nat \ {0}
    /\ DistinctIds \in BOOLEAN
    /\ CrashPossible \in BOOLEAN

VARIABLES
    id,         \* the dlq_id of each entry, None before it is enqueued
    queue,      \* DLQ_KEY, the end that rpop takes from first
    processing, \* DLQ_PROCESSING_KEY: by id, the entry stored there or None
    pc,         \* "idle", "scan", "putback", "store", "work", "ack", "nack",
                \* "nackdel" or "requeue"
    lag,        \* ticks since dequeue_batch read the clock, 0 or 1
    checked,    \* entries this scan has looked at
    batch,      \* entries the scan returned and the worker has yet to try
    hand,       \* the entry the worker holds, or None
    attempts,   \* history: deliveries tried by workers, up to MaxRetries + 1
    since,      \* history: ticks since the last failure of the delivery
    settled     \* history: "no", "delivered" or "exhausted"

redisVars == <<queue, processing>>
workerVars == <<pc, lag, checked, batch, hand>>
historyVars == <<attempts, since, settled>>
vars == <<id, redisVars, workerVars, historyVars>>

\* 2 ** retry_count, as a function that the proofs can unfold.
Doubled[n \in Nat] == IF n = 0 THEN 1 ELSE 2 * Doubled[n - 1]

\* 30 s, and then base_delay * 2 ** retry_count.
Delay(retries) == BaseDelay * Doubled[retries]

MaxDelay == Delay(MaxRetries)

Init ==
    /\ id = [e \in Entry |-> None]
    /\ queue = << >>
    /\ processing = [i \in Id |-> None]
    /\ pc = [w \in Worker |-> "idle"]
    /\ lag = [w \in Worker |-> 0]
    /\ checked = [w \in Worker |-> 0]
    /\ batch = [w \in Worker |-> << >>]
    /\ hand = [w \in Worker |-> None]
    /\ attempts = [e \in Entry |-> 0]
    /\ since = [e \in Entry |-> 0]
    /\ settled = [e \in Entry |-> "no"]

Goto(w, label) == pc' = [pc EXCEPT ![w] = label]

Hold(w, x) == hand' = [hand EXCEPT ![w] = x]

----------------------------------------------------------------------------

\* enqueue: a failed delivery e enters the list under the id i.
EnqueueAs(e, i) ==
    /\ id[e] = None
    /\ id' = [id EXCEPT ![e] = i]
    /\ queue' = Append(queue, [entry |-> e, retries |-> 0, due |-> BaseDelay])
    /\ UNCHANGED <<processing, workerVars, historyVars>>

Enqueue(e) ==
    \E i \in Id :
        /\ DistinctIds => \A f \in Entry : id[f] # i
        /\ EnqueueAs(e, i)

(* dequeue_batch *)

StartScan(w) ==
    /\ pc[w] = "idle"
    /\ Goto(w, "scan")
    /\ checked' = [checked EXCEPT ![w] = 0]
    /\ lag' = [lag EXCEPT ![w] = 0]
    /\ UNCHANGED <<id, redisVars, batch, hand, historyVars>>

\* A scan that looks at the end of the list without removing the entry.
AfterPopPeek == queue

\* rpop removes the entry it returns.
AfterPop == Tail(queue)

ScanGoesOn(w) ==
    /\ Len(batch[w]) < BatchSize
    /\ checked[w] < 3 * BatchSize
    /\ queue # << >>

\* One more retry than configured.
ExhaustedLate(x) == x.retries > MaxRetries

\* The entry has used up its retries.
Exhausted(x) == x.retries >= MaxRetries

\* The rpop, and the decision on what it returned: not due yet, discarded, or
\* to be moved to the processing hash.
Pop(w) ==
    /\ pc[w] = "scan"
    /\ ScanGoesOn(w)
    /\ queue' = AfterPop
    /\ checked' = [checked EXCEPT ![w] = @ + 1]
    /\ LET x == Head(queue)
           ready == x.due + lag[w] <= 0
       IN
       IF ready /\ Exhausted(x)
         THEN /\ settled' = [settled EXCEPT ![x.entry] = "exhausted"]
              /\ UNCHANGED <<pc, hand>>
         ELSE /\ Goto(w, IF ready THEN "store" ELSE "putback")
              /\ Hold(w, x)
              /\ UNCHANGED settled
    /\ UNCHANGED <<id, processing, lag, batch, attempts, since>>

\* An entry that is not due goes back to the other end of the list.
PutBack(w) ==
    /\ pc[w] = "putback"
    /\ queue' = Append(queue, hand[w])
    /\ Hold(w, None)
    /\ Goto(w, "scan")
    /\ UNCHANGED <<id, processing, lag, checked, batch, historyVars>>

\* dequeue_batch that records first tries only.
StoreFirstTryOnly(w) ==
    /\ pc[w] = "store"
    /\ processing' = [processing EXCEPT ![id[hand[w].entry]] =
                        IF hand[w].retries = 0 THEN hand[w] ELSE @]
    /\ batch' = [batch EXCEPT ![w] = Append(@, hand[w])]
    /\ Hold(w, None)
    /\ Goto(w, "scan")
    /\ UNCHANGED <<id, queue, lag, checked, historyVars>>

\* An entry that is due moves to the processing hash.
Store(w) ==
    /\ pc[w] = "store"
    /\ processing' = [processing EXCEPT ![id[hand[w].entry]] = hand[w]]
    /\ batch' = [batch EXCEPT ![w] = Append(@, hand[w])]
    /\ Hold(w, None)
    /\ Goto(w, "scan")
    /\ UNCHANGED <<id, queue, lag, checked, historyVars>>

EndScan(w) ==
    /\ pc[w] = "scan"
    /\ ~ScanGoesOn(w)
    /\ Goto(w, "work")
    /\ UNCHANGED <<id, redisVars, lag, checked, batch, hand, historyVars>>

(* The worker's loop over the batch *)

\* try_deliver succeeds or fails.
Deliver(w) ==
    /\ pc[w] = "work"
    /\ batch[w] # << >>
    /\ LET x == Head(batch[w]) IN
       /\ Hold(w, x)
       /\ attempts' = [attempts EXCEPT ![x.entry] =
                         IF @ <= MaxRetries THEN @ + 1 ELSE @]
       /\ \/ /\ Goto(w, "ack")
             /\ settled' = [settled EXCEPT ![x.entry] = "delivered"]
             /\ UNCHANGED since
          \/ /\ Goto(w, "nack")
             /\ since' = [since EXCEPT ![x.entry] = 0]
             /\ UNCHANGED settled
    /\ batch' = [batch EXCEPT ![w] = Tail(@)]
    /\ UNCHANGED <<id, redisVars, lag, checked>>

EndWork(w) ==
    /\ pc[w] = "work"
    /\ batch[w] = << >>
    /\ Goto(w, "idle")
    /\ UNCHANGED <<id, redisVars, lag, checked, batch, hand, historyVars>>

HDel(i) == processing' = [processing EXCEPT ![i] = None]

Ack(w) ==
    /\ pc[w] = "ack"
    /\ HDel(id[hand[w].entry])
    /\ Hold(w, None)
    /\ Goto(w, "work")
    /\ UNCHANGED <<id, queue, lag, checked, batch, historyVars>>

\* nack, the hget: whatever is stored under the id.
NackGet(w) ==
    /\ pc[w] = "nack"
    /\ LET stored == processing[id[hand[w].entry]] IN
       IF stored = None
         THEN Goto(w, "work") /\ Hold(w, None)
         ELSE Goto(w, "nackdel") /\ Hold(w, stored)
    /\ UNCHANGED <<id, redisVars, lag, checked, batch, historyVars>>

\* A nack that forgets to count.
RetriedUncounted(x) == x

\* nack counts the retry.
Retried(x) == [x EXCEPT !.retries = @ + 1]

\* nack, the hdel, and the decision to discard or to requeue.
NackDel(w) ==
    /\ pc[w] = "nackdel"
    /\ HDel(id[hand[w].entry])
    /\ LET x == Retried(hand[w]) IN
       IF Exhausted(x)
         THEN /\ settled' = [settled EXCEPT ![x.entry] = "exhausted"]
              /\ Goto(w, "work")
              /\ Hold(w, None)
         ELSE /\ Goto(w, "requeue")
              /\ Hold(w, x)
              /\ UNCHANGED settled
    /\ UNCHANGED <<id, queue, lag, checked, batch, attempts, since>>

\* A requeue without backoff.
BackoffConstant(x) == [x EXCEPT !.due = BaseDelay]

\* The entry is due after an exponentially growing delay.
Backoff(x) == [x EXCEPT !.due = Delay(x.retries)]

\* nack, the lpush.
Requeue(w) ==
    /\ pc[w] = "requeue"
    /\ queue' = Append(queue, Backoff(hand[w]))
    /\ Hold(w, None)
    /\ Goto(w, "work")
    /\ UNCHANGED <<id, processing, lag, checked, batch, historyVars>>

\* The worker process dies, or a Redis error escapes, and it starts afresh.
Crash(w) ==
    /\ CrashPossible
    /\ pc[w] # "idle"
    /\ Goto(w, "idle")
    /\ Hold(w, None)
    /\ batch' = [batch EXCEPT ![w] = << >>]
    /\ UNCHANGED <<id, redisVars, lag, checked, historyVars>>

Scanning(w) == pc[w] \in {"scan", "putback", "store"}

Aged(x) == [x EXCEPT !.due = IF @ >= 0 THEN @ - 1 ELSE @]

\* Time passes, also for an entry on its way back to the list.
Tick ==
    /\ \A w \in Worker : Scanning(w) => lag[w] = 0
    /\ lag' = [w \in Worker |-> IF Scanning(w) THEN 1 ELSE lag[w]]
    /\ queue' = [k \in DOMAIN queue |-> Aged(queue[k])]
    /\ hand' = [w \in Worker |->
                  IF pc[w] = "putback" THEN Aged(hand[w]) ELSE hand[w]]
    /\ since' = [e \in Entry |->
                   IF id[e] # None /\ since[e] < MaxDelay
                     THEN since[e] + 1 ELSE since[e]]
    /\ UNCHANGED <<id, processing, pc, checked, batch, attempts, settled>>

Work(w) ==
    \/ StartScan(w) \/ Pop(w) \/ PutBack(w) \/ Store(w) \/ EndScan(w)
    \/ Deliver(w) \/ EndWork(w) \/ Ack(w)
    \/ NackGet(w) \/ NackDel(w) \/ Requeue(w)

Next ==
    \/ \E e \in Entry : Enqueue(e)
    \/ \E w \in Worker : Work(w) \/ Crash(w)
    \/ Tick

Spec == Init /\ [][Next]_vars

\* Workers keep running their loop, and time passes.
Fairness == WF_vars(Tick) /\ \A w \in Worker : WF_vars(Work(w))

FairSpec == Spec /\ Fairness

----------------------------------------------------------------------------
(* Properties *)

Stored == [entry : Entry, retries : 0..MaxRetries, due : (-1)..MaxDelay]

\* Types of all variables; no entry waits that has used up its retries.
TypeOK ==
    /\ id \in [Entry -> Id \cup {None}]
    /\ \A k \in DOMAIN queue :
         queue[k] \in Stored /\ (queue[k].retries < MaxRetries \/ MaxRetries = 0)
    /\ processing \in [Id -> Stored \cup {None}]
    /\ pc \in [Worker -> {"idle", "scan", "putback", "store", "work", "ack",
                          "nack", "nackdel", "requeue"}]
    /\ lag \in [Worker -> 0..1]
    /\ checked \in [Worker -> 0..(3 * BatchSize)]
    /\ \A w \in Worker :
         /\ \A k \in DOMAIN batch[w] : batch[w][k] \in Stored
         /\ Len(batch[w]) <= BatchSize
         /\ hand[w] \in Stored \cup {None}
         /\ pc[w] \in {"idle", "scan", "work"} <=> hand[w] = None
    /\ attempts \in [Entry -> 0..(MaxRetries + 1)]
    /\ since \in [Entry -> 0..MaxDelay]
    /\ settled \in [Entry -> {"no", "delivered", "exhausted"}]

\* Where an entry is waiting, being moved or being delivered.
Places(e) ==
    {<<"queue", k>> : k \in {j \in DOMAIN queue : queue[j].entry = e}}
      \cup {<<"hand", w>> : w \in {v \in Worker : hand[v] # None
                                              /\ hand[v].entry = e}}
      \cup UNION {{<<w, k>> : k \in {j \in DOMAIN batch[w] :
                                        batch[w][j].entry = e}} : w \in Worker}

\* "Items are moved to a processing set to prevent double-processing"
\* (dead_letter_queue.py line 78): an entry is in one place only, be it the
\* list or one worker, however workers interleave and die.
NoDoubleProcessing == \A e \in Entry : Cardinality(Places(e)) <= 1

\* An entry a worker is to try, or has tried and not yet settled, is on record
\* in the processing hash under its id: ack and nack find what they expect.
Tracked ==
    \A w \in Worker :
        /\ \A k \in DOMAIN batch[w] :
              processing[id[batch[w][k].entry]] = batch[w][k]
        /\ pc[w] \in {"ack", "nack", "nackdel"} =>
              processing[id[hand[w].entry]] = hand[w]

\* "Supports configurable max retries with exponential backoff" (line 4): the
\* n-th retry of an entry comes no sooner than base_delay * 2^(n-1) after the
\* failure before it, there are at most MaxRetries of them, and none once it was
\* delivered or given up.
ExponentialBackoff ==
    [][\A e \in Entry : attempts'[e] # attempts[e] =>
          /\ since[e] >= Delay(attempts[e])
          /\ attempts'[e] <= MaxRetries
          /\ settled[e] = "no"]_vars

\* What became of an entry.
Fate == [e \in Entry |-> IF settled[e] # "no" THEN "settled"
                         ELSE IF id[e] = None THEN "none"
                         ELSE "queued"]

Promise == INSTANCE RetryQueue WITH fate <- Fate

\* "dead letter queue for reliable delivery" (delivery.py lines 7 and 8): with
\* a worker that survives, an enqueued delivery is retried until it succeeds or
\* its retries are used up.
KeepsPromise == Promise!Spec

=============================================================================
