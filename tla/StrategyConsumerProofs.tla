------------------------ MODULE StrategyConsumerProofs ------------------------
(***************************************************************************)
(* Machine-checked proofs about StrategyConsumer, for every number of      *)
(* messages and faults, every set of strategies and all batch and poll     *)
(* sizes: the consumer implements the safety part of Settlement, and what  *)
(* is given up or written twice has a reason.                              *)
(***************************************************************************)
EXTENDS StrategyConsumer, WellFoundedInduction, TLAPS

(* Least and greatest elements, which BatchEnd, Poll and Upsert ask for *)

LEMMA HasLeast ==
    ASSUME NEW S \in SUBSET Nat, S # {}
    PROVE  \E x \in S : \A y \in S : x <= y
<1>1. PICK R : /\ \E x \in S : \A y \in S : ~(<<y, x>> \in R)
               /\ \A x \in Nat, y \in Nat : y < x => <<y, x>> \in R
  <2> DEFINE R == OpToRel(<, Nat)
  <2>1. \E x \in S : \A y \in S : ~(<<y, x>> \in R)
    BY NatLessThanWellFounded, WFMin
  <2>2. \A x \in Nat, y \in Nat : y < x => <<y, x>> \in R
    BY DEF OpToRel
  <2> HIDE DEF R
  <2> QED
    BY <2>1, <2>2
<1>2. PICK x \in S : \A y \in S : ~(<<y, x>> \in R)
  BY <1>1
<1>3. ASSUME NEW y \in S  PROVE x <= y
  <2>1. x \in Nat /\ y \in Nat
    OBVIOUS
  <2>2. ~(y < x)
    BY <1>1, <1>2, <2>1, Zenon
  <2> QED
    BY <2>1, <2>2
<1> QED
  BY <1>3

LEMMA LeastOf ==
    ASSUME NEW S \in SUBSET Nat, S # {}
    PROVE  Min(S) \in S /\ \A y \in S : Min(S) <= y
<1>1. \E x \in S : \A y \in S : x =< y
  BY HasLeast
<1> QED
  BY <1>1, Zenon DEF Min

LEMMA GreatestOf ==
    ASSUME NEW n \in Nat, NEW S \in SUBSET (0..n), S # {}
    PROVE  Max(S) \in S /\ \A y \in S : y <= Max(S)
<1> DEFINE T == {n - x : x \in S}
<1>1. T \in SUBSET Nat /\ T # {}
  <2>1. \A x \in S : n - x \in Nat
    OBVIOUS
  <2> QED
    BY <2>1, Zenon
<1>2. PICK t \in T : \A u \in T : t <= u
  BY <1>1, HasLeast
<1>3. PICK x \in S : t = n - x
  OBVIOUS
<1>4. \A y \in S : x >= y
  <2> TAKE y \in S
  <2>1. n - x <= n - y
    BY <1>2, <1>3
  <2> QED
    BY <2>1
<1>5. Max(S) \in S /\ \A y \in S : Max(S) >= y
  BY <1>4, Zenon DEF Max
<1> QED
  BY <1>5

(* The inductive invariant *)

\* The group never commits what it has not been through, and what was polled is
\* what lies between next and position.
Order ==
    /\ committed < next
    /\ pc = "poll" => next = position
    /\ pc = "process" => next < position

\* The consumer has passed no message without storing it, having an excuse, or
\* being unable to parse it.
PassedExplained ==
    \A m \in Msg : m < next => m \in stored \union excused \/ hashOf[m] = NoStrategy

\* A message that is still to come, or will come again, has no more copies than
\* there were faults; the commit says which ones come again after a stop.
CopiesBound ==
    \A m \in Msg :
        /\ copies[m] <= 1 + faults
        /\ pc # "down" /\ m >= next => copies[m] <= faults
        /\ pc = "down" /\ m > committed => copies[m] <= faults

IInv == TypeOK /\ Order /\ PassedExplained /\ CopiesBound

USE ConsumerConstants

LEMMA InitInv == Init => IInv
  BY DEF Init, IInv, TypeOK, Order, PassedExplained, CopiesBound, Msg, NoOffset

\* The batch reaches a message that was polled.
LEMMA BatchReaches ==
    ASSUME TypeOK, pc = "process", next < position
    PROVE  BatchEnd \in next..(position - 1)
<1> DEFINE S == {position - 1} \union
                  {m \in next..(position - 1) : Cardinality(Parsable(next, m)) = BatchSize}
<1>1. S \in SUBSET Nat /\ S # {} /\ S \subseteq next..(position - 1)
  BY DEF TypeOK
<1>2. Min(S) \in S
  BY <1>1, LeastOf
<1>3. Min(S) = BatchEnd
  BY DEF BatchEnd
<1> QED
  BY <1>1, <1>2, <1>3

\* Joining, a consumer reads on behind the committed offset, at a place it has
\* been to, or behind a topic whose messages are excused.
LEMMA JoinInv ==
    ASSUME IInv, Join, UNCHANGED <<topicVars, committed, tableVars>>,
           faults' \in 0..MaxFaults, faults <= faults',
           pc # "down" => faults' = faults + 1, pc' = "poll"
    PROVE  IInv'
<1> USE DEF IInv, TypeOK, Order, topicVars, tableVars, Join, Resume, Msg, NoOffset
<1>1. TypeOK'
  OBVIOUS
<1>2. Order'
  OBVIOUS
<1>3. PassedExplained'
  BY DEF PassedExplained
<1>4. CopiesBound'
  <2> SUFFICES ASSUME NEW m \in Msg
               PROVE  copies[m] <= 1 + faults' /\ (m >= next' => copies[m] <= faults')
    BY DEF CopiesBound
  <2>1. m \in Nat /\ copies[m] \in Nat /\ faults \in Nat /\ faults' \in Nat
    OBVIOUS
  <2>2. copies[m] <= 1 + faults /\ (pc = "down" /\ m > committed => copies[m] <= faults)
    BY DEF CopiesBound
  <2>3. CASE pc # "down"
    BY <2>1, <2>2, <2>3
  <2>4. CASE pc = "down"
    <3>1. m >= next' => m > committed
      BY <2>1
    <3> QED
      BY <2>1, <2>2, <2>4, <3>1
  <2> QED
    BY <2>3, <2>4
<1> QED
  BY <1>1, <1>2, <1>3, <1>4

LEMMA BatchInv ==
    ASSUME IInv, ProcessBatch, faults' <= MaxFaults
    PROVE  IInv'
<1> DEFINE batch == Parsable(next, BatchEnd)
<1>1. BatchEnd \in next..(position - 1)
  BY BatchReaches DEF IInv, Order, ProcessBatch
<1>2. PICK done \in SUBSET batch :
        /\ Upsert(done)
        /\ copies' = [m \in Msg |-> IF m \in done THEN copies[m] + 1 ELSE copies[m]]
        /\ stored' = stored \union done
        /\ latest' = (latest \ batch) \union done
        /\ excused' = excused \union (batch \ done)
        /\ faults' = IF done = batch THEN faults ELSE faults + 1
  BY DEF ProcessBatch, Outcomes
<1>3. batch \subseteq Msg /\ batch \subseteq next..BatchEnd
  BY <1>1 DEF Parsable, IInv, TypeOK, Msg
<1>4. /\ attempted' = Max({attempted} \union batch)
      /\ next' = BatchEnd + 1 /\ pc' = IF next' = position THEN "poll" ELSE "process"
      /\ UNCHANGED <<hashOf, end, committed, position>>
      /\ pc = "process"
  BY DEF ProcessBatch, topicVars
<1>5. \A m \in next..BatchEnd : m \notin batch => hashOf[m] = NoStrategy
  BY DEF Parsable
<1> HIDE DEF batch
<1>6. faults' \in 0..MaxFaults /\ faults <= faults'
  BY <1>2 DEF IInv, TypeOK
<1>7. CopiesBound'
  <2> SUFFICES ASSUME NEW m \in Msg
               PROVE  /\ copies'[m] <= 1 + faults'
                      /\ m >= next' => copies'[m] <= faults'
    BY <1>4 DEF CopiesBound
  <2>1. m \in Nat /\ copies[m] \in Nat /\ next \in Nat /\ faults \in Nat
    <3>1. TypeOK
      BY DEF IInv
    <3>2. copies[m] \in Nat
      BY <3>1 DEF TypeOK
    <3> QED
      BY <3>1, <3>2 DEF TypeOK, Msg
  <2>2. copies[m] <= 1 + faults /\ (m >= next => copies[m] <= faults)
    BY <1>4 DEF IInv, CopiesBound
  <2>3. CASE m \in done
    <3>1. m \in next..BatchEnd /\ copies'[m] = copies[m] + 1
      BY <1>2, <1>3, <2>3
    <3> QED
      BY <1>1, <1>4, <1>6, <2>1, <2>2, <3>1
  <2>4. CASE m \notin done
    <3>1. copies'[m] = copies[m]
      BY <1>2, <2>4
    <3> QED
      BY <1>1, <1>4, <1>6, <2>1, <2>2, <3>1
  <2> QED
    BY <2>3, <2>4
<1>8. PassedExplained'
  BY <1>1, <1>2, <1>3, <1>4, <1>5 DEF IInv, TypeOK, PassedExplained, Msg
<1>9. Order'
  BY <1>1, <1>4 DEF IInv, TypeOK, Order, NoOffset
<1>10. TypeOK'
  <2>1. attempted' \in 0..MaxMsg
    <3>1. {attempted} \union batch \in SUBSET (0..MaxMsg)
      BY <1>3 DEF IInv, TypeOK, Msg
    <3> QED
      BY <3>1, <1>4, GreatestOf
  <2>2. rows' \in [Hash -> 0..MaxMsg]
    <3>1. ASSUME NEW h \in Hash, \E m \in done : hashOf[m] = h
          PROVE  Max({m \in done : hashOf[m] = h}) \in 0..MaxMsg
      <4>1. {m \in done : hashOf[m] = h} \in SUBSET (0..MaxMsg)
        <5>1. done \subseteq 0..MaxMsg
          BY <1>3 DEF Msg
        <5> QED
          BY <5>1, Zenon
      <4>2. {m \in done : hashOf[m] = h} # {}
        BY <3>1
      <4> QED
        BY <4>1, <4>2, GreatestOf
    <3> QED
      BY <1>2, <3>1 DEF Upsert, IInv, TypeOK
  <2>3. copies' \in [Msg -> 0..(MaxFaults + 1)]
    BY <1>2, <1>6, <1>7 DEF IInv, TypeOK, CopiesBound
  <2> QED
    BY <1>1, <1>2, <1>3, <1>4, <1>6, <2>1, <2>2, <2>3 DEF IInv, TypeOK, Msg
<1> QED
  BY <1>7, <1>8, <1>9, <1>10 DEF IInv

LEMMA NextInv == IInv /\ [Next]_vars => IInv'
<1> SUFFICES ASSUME IInv, [Next]_vars  PROVE IInv'
  OBVIOUS
<1> USE DEF topicVars, jobVars, tableVars, readerVars
<1>1. CASE Produce
  BY <1>1 DEF Produce, IInv, TypeOK, Order, PassedExplained, CopiesBound, NoOffset, Msg
<1>2. CASE ConsumerStep
  <2>1. faults' <= MaxFaults
    BY <1>2 DEF ConsumerStep
  <2>2. CASE Start
    BY <2>2, JoinInv DEF Start, IInv, TypeOK
  <2>3. CASE Rebalance
    BY <2>1, <2>3, JoinInv DEF Rebalance, IInv, TypeOK
  <2>4. CASE Poll
    <3>1. PICK last \in position..Min({end, position + MaxPoll - 1}) : position' = last + 1
      BY <2>4 DEF Poll
    <3>2. last <= end
      <4>1. {end, position + MaxPoll - 1} \in SUBSET Nat
        BY DEF IInv, TypeOK
      <4>2. Min({end, position + MaxPoll - 1}) \in Nat /\ Min({end, position + MaxPoll - 1}) <= end
        BY <4>1, LeastOf
      <4> QED
        BY <3>1, <4>2 DEF IInv, TypeOK
    <3>3. TypeOK' /\ Order'
      BY <2>4, <3>1, <3>2 DEF Poll, IInv, TypeOK, Order, NoOffset, Msg
    <3>4. PassedExplained' /\ CopiesBound'
      BY <2>4 DEF Poll, IInv, PassedExplained, CopiesBound
    <3> QED
      BY <3>3, <3>4 DEF IInv
  <2>5. CASE PollEmpty
    BY <2>5 DEF PollEmpty, IInv, TypeOK, Order, PassedExplained, CopiesBound, NoOffset, Msg
  <2>6. CASE ProcessBatch
    BY <2>1, <2>6, BatchInv
  <2>7. CASE Stop
    <3>1. TypeOK' /\ Order'
      <4>1. faults' \in 0..MaxFaults /\ faults <= faults'
        BY <2>1, <2>7 DEF Stop, IInv, TypeOK
      <4>2. committed' \in {NoOffset} \union 0..end /\ committed' < next
        BY <2>7 DEF Stop, IInv, TypeOK, Order, NoOffset
      <4> QED
        BY <2>7, <4>1, <4>2 DEF Stop, IInv, TypeOK, Order
    <3>2. PassedExplained'
      BY <2>7 DEF Stop, IInv, PassedExplained
    <3>3. CopiesBound'
      <4> SUFFICES ASSUME NEW m \in Msg
                   PROVE  /\ copies[m] <= 1 + faults'
                          /\ m > committed' => copies[m] <= faults'
        BY <2>7 DEF Stop, CopiesBound
      <4>1. m \in Nat /\ copies[m] \in Nat /\ next \in Nat /\ faults \in Nat /\ next = position
        BY <2>7 DEF Stop, IInv, TypeOK, Order, Msg
      <4>2. copies[m] <= 1 + faults /\ (m >= next => copies[m] <= faults)
        BY <2>7 DEF Stop, IInv, CopiesBound
      <4> QED
        BY <2>7, <4>1, <4>2 DEF Stop
    <3> QED
      BY <3>1, <3>2, <3>3 DEF IInv
  <2>8. CASE Crash
    <3>1. TypeOK' /\ Order'
      BY <2>1, <2>8 DEF Crash, IInv, TypeOK, Order, NoOffset, Msg
    <3>2. PassedExplained'
      BY <2>8 DEF Crash, IInv, PassedExplained
    <3>3. CopiesBound'
      BY <2>8 DEF Crash, IInv, TypeOK, Order, CopiesBound, NoOffset, Msg
    <3> QED
      BY <3>1, <3>2, <3>3 DEF IInv
  <2> QED
    BY <1>2, <2>2, <2>3, <2>4, <2>5, <2>6, <2>7, <2>8 DEF ConsumerStep
<1>3. CASE UNCHANGED vars
  BY <1>3 DEF vars, IInv, TypeOK, Order, PassedExplained, CopiesBound
<1> QED
  BY <1>1, <1>2, <1>3 DEF Next

LEMMA Inductive == Spec => []IInv
  BY InitInv, NextInv, PTL DEF Spec

(***************************************************************************)
(* Type correctness: the group never commits beyond the topic, and no      *)
(* message has more copies than faults explain.                            *)
(***************************************************************************)
THEOREM TypeCorrect == Spec => []TypeOK
<1>1. IInv => TypeOK
  BY DEF IInv
<1> QED
  BY <1>1, Inductive, PTL

(***************************************************************************)
(* Whatever crashes, rebalances and commits do, a message that is given up *)
(* could not be parsed, was in a failed batch, or was in the topic before  *)
(* the group had an offset.                                                *)
(***************************************************************************)
THEOREM NothingLostSilently == Spec => []GivenUpExplained
<1>1. IInv => GivenUpExplained
  BY DEF IInv, TypeOK, Order, PassedExplained, GivenUpExplained, MsgFate, Msg, NoOffset
<1> QED
  BY <1>1, Inductive, PTL

(***************************************************************************)
(* Redelivery leaves no more rows of implementations than there were       *)
(* faults, beyond the first.                                               *)
(***************************************************************************)
THEOREM CopiesHaveFaults == Spec => []CopiesExplained
<1>1. IInv => CopiesExplained
  BY DEF IInv, CopiesBound, CopiesExplained
<1> QED
  BY <1>1, Inductive, PTL

(***************************************************************************)
(* The consumer implements Settlement, but for its liveness: every step    *)
(* settles messages or leaves their fates alone, and none is revised.      *)
(***************************************************************************)
THEOREM ImplementsSettlement == Spec => Promise!Init /\ [][Promise!Next]_MsgFate
<1>1. Init => Promise!Init
  BY DEF Init, Promise!Init, MsgFate, Msg, NoOffset
<1>2. ASSUME IInv, [Next]_vars  PROVE [Promise!Next]_MsgFate
  <2>1. MsgFate' \in [Msg -> Promise!Fate]
    BY DEF MsgFate, Promise!Fate
  <2>2. /\ stored \subseteq stored'
        /\ \A m \in Msg : m <= committed => m <= committed'
        /\ \A m \in Msg : m <= committed /\ m \in stored' => m \in stored
    <3> USE DEF topicVars, jobVars, tableVars, readerVars
    <3>1. CASE ProcessBatch
      <4>1. BatchEnd \in next..(position - 1)
        BY <1>2, <3>1, BatchReaches DEF IInv, Order, ProcessBatch
      <4>2. PICK done \in SUBSET Parsable(next, BatchEnd) : stored' = stored \union done
        BY <3>1 DEF ProcessBatch, Outcomes
      <4>3. \A m \in done : m \in Nat /\ next <= m
        BY <1>2, <4>1, <4>2 DEF Parsable, IInv, TypeOK
      <4> QED
        BY <1>2, <3>1, <4>2, <4>3 DEF ProcessBatch, IInv, TypeOK, Order, NoOffset, Msg
    <3>2. CASE ~ProcessBatch
      <4>1. stored' = stored
        BY <1>2, <3>2 DEF Next, ConsumerStep, Produce, Start, Poll, PollEmpty, Stop,
                          Rebalance, Crash, vars
      <4>2. committed' = committed \/ (committed' = position - 1 /\ pc = "poll")
        BY <1>2, <3>2 DEF Next, ConsumerStep, Produce, Start, Poll, PollEmpty, Stop,
                          Rebalance, Crash, vars
      <4> QED
        BY <1>2, <4>1, <4>2 DEF IInv, TypeOK, Order, NoOffset, Msg
    <3> QED
      BY <3>1, <3>2
  <2>3. \A m \in Msg : MsgFate[m] # "pending" => MsgFate'[m] = MsgFate[m]
    BY <2>2 DEF MsgFate
  <2> QED
    BY <2>1, <2>3 DEF Promise!Next, Promise!Settle
<1> QED
  BY <1>1, <1>2, Inductive, PTL DEF Spec

(* Scores *)

Of(h) == {m \in stored : hashOf[m] = h}

\* A row has the score of the newest stored message of its strategy, or a stored
\* one's last attempt failed, or a newer one is still to be replayed.
RowsNewest ==
    \A h \in Hash :
        \/ \E m \in Of(h) : m \notin latest
        \/ rows[h] \in {0} \union Of(h) /\ \A m \in Of(h) : m <= rows[h]
        \/ \E m \in Of(h) : m >= next

\* What is stored was attempted, and is read again only from an offset.
StoredBehind ==
    \A m \in stored : m <= attempted /\ (committed = NoOffset => m < next)

\* A batch that keeps a message of h brings its row to the newest one kept,
\* which only a message of the batch that failed or a later one can excel.
LEMMA BatchNewest ==
    ASSUME IInv, StoredBehind, RowsNewest, ProcessBatch
    PROVE  RowsNewest' /\ StoredBehind'
<1> DEFINE batch == Parsable(next, BatchEnd)
<1>1. BatchEnd \in next..(position - 1)
  BY BatchReaches DEF IInv, Order, ProcessBatch
<1>2. PICK done \in SUBSET batch :
        /\ Upsert(done)
        /\ stored' = stored \union done
        /\ latest' = (latest \ batch) \union done
  BY DEF ProcessBatch, Outcomes
<1>3. /\ attempted' = Max({attempted} \union batch)
      /\ next' = BatchEnd + 1
      /\ UNCHANGED <<hashOf, end, committed>>
  BY DEF ProcessBatch, topicVars
<1>4. /\ batch \subseteq Msg /\ batch \subseteq next..BatchEnd
      /\ \A m \in next..BatchEnd : hashOf[m] \in Hash => m \in batch
  BY <1>1 DEF Parsable, IInv, TypeOK, Msg
<1>5. /\ Msg \subseteq Nat /\ stored \subseteq Msg /\ next \in Nat /\ BatchEnd \in Nat
      /\ attempted \in 0..MaxMsg /\ next <= BatchEnd
  BY <1>1 DEF IInv, TypeOK, Msg
<1> HIDE DEF batch
<1>6. StoredBehind'
  <2>1. {attempted} \union batch \in SUBSET (0..MaxMsg) /\ {attempted} \union batch # {}
    BY <1>4, <1>5 DEF Msg
  <2>2. attempted' \in 0..MaxMsg /\ attempted <= attempted' /\ \A m \in batch : m <= attempted'
    BY <1>3, <2>1, GreatestOf
  <2> SUFFICES ASSUME NEW m \in stored'
               PROVE  m <= attempted' /\ (committed' = NoOffset => m < next')
    BY DEF StoredBehind
  <2>3. CASE m \in stored
    BY <1>3, <1>5, <2>2, <2>3 DEF StoredBehind
  <2>4. CASE m \in done
    BY <1>2, <1>3, <1>4, <1>5, <2>2, <2>4
  <2> QED
    BY <1>2, <2>3, <2>4
<1>7. RowsNewest'
  <2> SUFFICES ASSUME NEW h \in Hash
               PROVE  \/ \E m \in Of(h)' : m \notin latest'
                      \/ rows'[h] \in {0} \union Of(h)' /\ \A m \in Of(h)' : m <= rows'[h]
                      \/ \E m \in Of(h)' : m >= next'
    BY DEF RowsNewest
  <2>1. \A m : m \in Of(h)' <=> (m \in stored \/ m \in done) /\ hashOf[m] = h
    BY <1>2, <1>3 DEF Of
  <2>2. \A m \in Of(h)' : m \in Nat
    BY <1>2, <1>4, <1>5, <2>1
  <2>3. \A m \in Of(h)' : m >= next => m \in done \/ m \notin latest' \/ m >= next'
    BY <1>2, <1>3, <1>4, <1>5, <2>1, <2>2
  <2>4. CASE \E m \in done : hashOf[m] = h
    <3> DEFINE kept == {m \in done : hashOf[m] = h}
    <3>1. rows'[h] = Max(kept)
      BY <1>2, <2>4 DEF Upsert
    <3>2. kept \in SUBSET (0..MaxMsg)
      <4>1. done \subseteq 0..MaxMsg
        BY <1>4 DEF Msg
      <4> QED
        BY <4>1, Zenon
    <3>3. kept # {}
      BY <2>4
    <3>4. Max(kept) \in kept /\ \A m \in kept : m <= Max(kept)
      BY <3>2, <3>3, GreatestOf
    <3>5. rows'[h] \in done /\ rows'[h] \in Of(h)' /\ rows'[h] \in Nat /\ next <= rows'[h]
      BY <1>4, <1>5, <2>1, <2>2, <3>1, <3>4
    <3>6. \A m \in Of(h)' : m \in done => m <= rows'[h]
      BY <2>1, <3>1, <3>4
    <3>7. CASE \A m \in Of(h)' : m <= rows'[h]
      BY <3>5, <3>7
    <3>8. CASE \E m \in Of(h)' : ~(m <= rows'[h])
      <4>1. PICK m \in Of(h)' : ~(m <= rows'[h])
        BY <3>8
      <4>2. m \notin done /\ m >= next
        BY <1>5, <2>2, <3>5, <3>6, <4>1
      <4> QED
        BY <2>3, <4>2
    <3> QED
      BY <3>7, <3>8
  <2>5. CASE \A m \in done : hashOf[m] # h
    <3>1. rows'[h] = rows[h] /\ Of(h)' = Of(h)
      BY <1>2, <1>3, <2>5 DEF Upsert, Of
    <3>2. \A m \in Of(h) : m \notin latest => m \notin latest'
      BY <1>2, <2>5 DEF Of
    <3>3. \A m \in Of(h) : m >= next => m \notin latest' \/ m >= next'
      BY <2>1, <2>3, <2>5, <3>1
    <3> QED
      BY <3>1, <3>2, <3>3 DEF RowsNewest
  <2> QED
    BY <2>4, <2>5
<1> QED
  BY <1>6, <1>7

(***************************************************************************)
(* Replays absorb themselves: once everything attempted has been replayed, *)
(* a strategy has the score of its newest stored message, or the replay of *)
(* one has failed.                                                         *)
(***************************************************************************)
THEOREM ReplaysKeepNewest == Spec => []NewestScore
<1>1. Init => RowsNewest /\ StoredBehind
  BY DEF Init, RowsNewest, StoredBehind, Of
<1>2. ASSUME IInv, RowsNewest, StoredBehind, [Next]_vars
      PROVE  RowsNewest' /\ StoredBehind'
  <2>1. CASE ProcessBatch
    BY <1>2, <2>1, BatchNewest
  <2>2. CASE ~ProcessBatch
    <3>1. UNCHANGED <<hashOf, rows, stored, latest, attempted>>
      BY <1>2, <2>2 DEF Next, ConsumerStep, Produce, Start, Poll, PollEmpty, Stop, Rebalance,
                        Crash, vars, topicVars, tableVars
    <3>2. \/ next' = next /\ committed' = committed
          \/ next' = next /\ committed' = position - 1
          \/ next' = Resume /\ committed' = committed
      BY <1>2, <2>2 DEF Next, ConsumerStep, Produce, Start, Poll, PollEmpty, Stop, Rebalance,
                        Crash, Join, vars, readerVars, jobVars
    <3>3. /\ stored \subseteq Nat /\ position \in Nat \ {0} /\ next \in Nat /\ next' \in Nat
          /\ next' <= next \/ (committed = NoOffset /\ committed' = NoOffset)
          /\ committed = NoOffset => next <= next'
          /\ committed' = NoOffset => committed = NoOffset
      BY <1>2, <3>2 DEF IInv, TypeOK, Order, Resume, NoOffset, Msg
    <3>4. StoredBehind'
      BY <1>2, <3>1, <3>3 DEF StoredBehind
    <3>5. ASSUME NEW h \in Hash, \E m \in Of(h) : m >= next
          PROVE  \E m \in Of(h) : m >= next'
      BY <1>2, <3>3, <3>5 DEF StoredBehind, Of
    <3>6. RowsNewest'
      <4>1. \A h \in Hash : Of(h)' = Of(h)
        BY <3>1 DEF Of
      <4> SUFFICES ASSUME NEW h \in Hash
                   PROVE  \/ \E m \in Of(h) : m \notin latest
                          \/ rows[h] \in {0} \union Of(h) /\ \A m \in Of(h) : m <= rows[h]
                          \/ \E m \in Of(h) : m >= next'
        BY <3>1, <4>1 DEF RowsNewest
      <4> QED
        BY <1>2, <3>5 DEF RowsNewest
    <3> QED
      BY <3>4, <3>6
  <2> QED
    BY <2>1, <2>2
<1>3. IInv /\ RowsNewest /\ StoredBehind => NewestScore
  <2> SUFFICES ASSUME IInv, RowsNewest, StoredBehind, position > attempted, pc = "poll",
                      NEW h \in Hash, \A m \in Of(h) : m \in latest
               PROVE  rows[h] = Max({0} \union Of(h))
    BY DEF NewestScore, Of
  <2> DEFINE S == {0} \union Of(h)
  <2>1. S \in SUBSET (0..MaxMsg) /\ S # {}
    <3>1. \A m \in Of(h) : m \in 0..MaxMsg
      BY DEF IInv, TypeOK, Of, Msg
    <3> HIDE DEF Of
    <3> QED
      BY <3>1 DEF IInv, TypeOK
  <2>2. \A m \in Of(h) : ~(m >= next)
    BY DEF IInv, TypeOK, Order, StoredBehind, Of, Msg
  <2>3. rows[h] \in S /\ \A m \in Of(h) : m <= rows[h]
    BY <2>2 DEF RowsNewest
  <2>4. Max(S) \in S /\ \A y \in S : y <= Max(S)
    BY <2>1, GreatestOf
  <2> HIDE DEF S
  <2>5. rows[h] <= Max(S) /\ rows[h] \in 0..MaxMsg /\ Max(S) \in 0..MaxMsg
    BY <2>1, <2>3, <2>4
  <2>6. Max(S) <= rows[h]
    BY <2>3, <2>4, <2>5 DEF S
  <2> QED
    BY <2>5, <2>6 DEF S
<1> QED
  BY <1>1, <1>2, <1>3, Inductive, PTL DEF Spec

=============================================================================
