------------------------ MODULE DeadLetterQueueProofs ------------------------
(***************************************************************************)
(* Machine-checked proofs about DeadLetterQueue, for every number of       *)
(* entries and workers, every batch size, delay and retry limit: an entry  *)
(* is in one place only, on record while a worker tries it, and retried    *)
(* after delays that double, provided ids are not shared; and the queue    *)
(* implements the safety part of RetryQueue.                               *)
(***************************************************************************)
EXTENDS DeadLetterQueue, FiniteSetTheorems, WellFoundedInduction, TLAPS

(* Numbers: induction, and the powers of two *)

\* A set of natural numbers has a least one.
LEMMA LeastNumber ==
    ASSUME NEW S \in SUBSET Nat, S # {}
    PROVE  \E x \in S : \A n \in S : x <= n
<1> DEFINE Less == {ss \in Nat \X Nat : ss[1] < ss[2]}
<1>1. IsWellFoundedOn(Less, Nat)
  BY NatLessThanWellFounded DEF OpToRel
<1>2. \A x, y \in Nat : y < x => <<y, x>> \in Less
  OBVIOUS
<1> HIDE DEF Less
<1>3. PICK x \in S : \A y \in S : ~(<<y, x>> \in Less)
  BY <1>1, WFMin
<1>4. ASSUME NEW y \in S  PROVE x <= y
  <2>1. x \in Nat /\ y \in Nat /\ ~(y < x)
    BY <1>2, <1>3
  <2> QED
    BY <2>1
<1> QED
  BY <1>4

\* One by one.
LEMMA ByInduction ==
    ASSUME NEW S \in SUBSET Nat, 0 \in S, \A n \in S : n + 1 \in S
    PROVE  S = Nat
<1> SUFFICES ASSUME Nat \ S # {}  PROVE FALSE
  OBVIOUS
<1>1. PICK x \in Nat \ S : \A n \in Nat \ S : x <= n
  BY LeastNumber
<1>2. x # 0 /\ x - 1 \in Nat /\ ~(x <= x - 1)
  OBVIOUS
<1>3. x - 1 \in S
  BY <1>1, <1>2
<1> QED
  BY <1>2, <1>3



\* The beginning of the powers of two.
Doubles(f, n) == f \in [0..n -> Nat] /\ f[0] = 1 /\ \A k \in 1..n : f[k] = 2 * f[k - 1]

LEMMA DoublesExist == \A n \in Nat : \E f \in [0..n -> Nat] : Doubles(f, n)
<1> DEFINE S == {n \in Nat : \E f \in [0..n -> Nat] : Doubles(f, n)}
<1>1. 0 \in S
  <2> DEFINE f == [k \in 0..0 |-> 1]
  <2>1. f \in [0..0 -> Nat] /\ Doubles(f, 0)
    BY DEF Doubles
  <2> QED
    BY <2>1
<1>2. ASSUME NEW n \in S  PROVE n + 1 \in S
  <2>1. PICK f \in [0..n -> Nat] : Doubles(f, n)
    OBVIOUS
  <2> DEFINE g == [k \in 0..(n + 1) |-> IF k = n + 1 THEN 2 * f[n] ELSE f[k]]
  <2>2. g \in [0..(n + 1) -> Nat]
    OBVIOUS
  <2>3. ASSUME NEW k \in 1..(n + 1)  PROVE g[k] = 2 * g[k - 1]
    BY <2>1 DEF Doubles
  <2>4. g[0] = 1
    BY <2>1 DEF Doubles
  <2>5. Doubles(g, n + 1)
    BY <2>2, <2>3, <2>4 DEF Doubles
  <2> QED
    BY <2>2, <2>5
<1> HIDE DEF S
<1>3. S = Nat
  BY <1>1, <1>2, ByInduction DEF S
<1> QED
  BY <1>3 DEF S

LEMMA DoublesAgree ==
    ASSUME NEW n \in Nat, NEW f, Doubles(f, n), NEW m \in Nat, NEW g, Doubles(g, m), n <= m
    PROVE  \A k \in 0..n : f[k] = g[k]
<1> DEFINE S == {k \in Nat : k <= n => f[k] = g[k]}
<1>1. 0 \in S
  BY DEF Doubles
<1>2. ASSUME NEW k \in S  PROVE k + 1 \in S
  BY DEF Doubles
<1> HIDE DEF S
<1>3. S = Nat
  BY <1>1, <1>2, ByInduction DEF S
<1> QED
  BY <1>3 DEF S

LEMMA Doubling ==
    /\ Doubled \in [Nat -> Nat] /\ Doubled[0] = 1
    /\ \A n \in Nat : Doubled[n + 1] = 2 * Doubled[n]
<1> DEFINE first(n) == CHOOSE f \in [0..n -> Nat] : Doubles(f, n)
           power == [n \in Nat |-> first(n)[n]]
           Equation(f) == f = [n \in Nat |-> IF n = 0 THEN 1 ELSE 2 * f[n - 1]]
<1>1. \A n \in Nat : Doubles(first(n), n)
  BY DoublesExist
<1> HIDE DEF first
<1>2. ASSUME NEW n \in Nat  PROVE power[n] \in Nat
  BY <1>1 DEF Doubles
<1>3. power[0] = 1
  BY <1>1 DEF Doubles
<1>4. ASSUME NEW n \in Nat  PROVE power[n + 1] = 2 * power[n]
  <2>1. first(n + 1)[n] = first(n)[n]
    BY <1>1, DoublesAgree
  <2>2. first(n + 1)[n + 1] = 2 * first(n + 1)[n]
    BY <1>1 DEF Doubles
  <2> QED
    BY <2>1, <2>2
<1>5. Equation(power)
  <2>1. ASSUME NEW n \in Nat  PROVE power[n] = IF n = 0 THEN 1 ELSE 2 * power[n - 1]
    <3>1. CASE n = 0
      BY <1>3, <3>1
    <3>2. CASE n # 0
      <4>1. n - 1 \in Nat /\ n = (n - 1) + 1
        BY <3>2
      <4> QED
        BY <1>4, <3>2, <4>1
    <3> QED
      BY <3>1, <3>2
  <2> QED
    BY <2>1
<1> HIDE DEF power
<1>6. Equation(CHOOSE f : Equation(f))
  BY <1>5
<1>7. Doubled = CHOOSE f : Equation(f)
  BY DEF Doubled
<1> DEFINE d == Doubled
<1>8. d = [n \in Nat |-> IF n = 0 THEN 1 ELSE 2 * d[n - 1]]
  BY <1>6, <1>7
<1> HIDE DEF d
<1>9. d[0] = 1 /\ \A n \in Nat : d[n + 1] = 2 * d[n]
  BY <1>8
<1>10. \A n \in Nat : d[n] \in Nat
  <2> DEFINE S == {n \in Nat : d[n] \in Nat}
  <2>1. 0 \in S /\ \A n \in S : n + 1 \in S
    BY <1>9
  <2> HIDE DEF S
  <2>2. S = Nat
    BY <2>1, ByInduction DEF S
  <2> QED
    BY <2>2 DEF S
<1>11. d \in [Nat -> Nat]
  BY <1>8, <1>10
<1> QED
  BY <1>9, <1>11 DEF d

\* Powers of two grow.
LEMMA DoublingGrows ==
    \A n \in Nat : /\ Doubled[n] >= 1
                   /\ \A k \in 0..n : Doubled[k] <= Doubled[n]
<1> DEFINE d == Doubled
           S == {n \in Nat : d[n] >= 1 /\ \A k \in 0..n : d[k] <= d[n]}
<1>1. d \in [Nat -> Nat] /\ d[0] = 1 /\ \A n \in Nat : d[n + 1] = 2 * d[n]
  BY Doubling
<1> HIDE DEF d
<1>2. 0 \in S
  BY <1>1
<1>3. ASSUME NEW n \in S  PROVE n + 1 \in S
  <2>1. d[n + 1] = 2 * d[n] /\ d[n] \in Nat /\ d[n] >= 1
    BY <1>1
  <2>2. ASSUME NEW k \in 0..(n + 1)  PROVE d[k] <= d[n + 1]
    <3>1. CASE k = n + 1
      BY <2>1, <3>1
    <3>2. CASE k # n + 1
      <4>1. d[k] <= d[n] /\ d[k] \in Nat
        BY <1>1, <3>2
      <4> QED
        BY <2>1, <4>1
    <3> QED
      BY <3>1, <3>2
  <2> QED
    BY <2>1, <2>2
<1> HIDE DEF S
<1>4. S = Nat
  BY <1>2, <1>3, ByInduction DEF S
<1> QED
  BY <1>4 DEF S, d

\* Delays are numbers of ticks and do not shrink.
LEMMA Powers ==
    \A n \in Nat : Delay(n) \in Nat /\ \A k \in 0..n : Delay(k) <= Delay(n)
<1>1. ASSUME NEW n \in Nat  PROVE Delay(n) \in Nat
  BY Doubling, QueueConstants DEF Delay
<1>2. ASSUME NEW n \in Nat, NEW k \in 0..n  PROVE Delay(k) <= Delay(n)
  <2>1. Doubled[k] \in Nat /\ Doubled[n] \in Nat /\ Doubled[k] <= Doubled[n]
    BY Doubling, DoublingGrows
  <2>2. ASSUME NEW a \in Nat, NEW b \in Nat, a <= b  PROVE BaseDelay * a <= BaseDelay * b
    BY <2>2, QueueConstants
  <2> QED
    BY <2>1, <2>2 DEF Delay
<1> QED
  BY <1>1, <1>2

LEMMA FirstDelay == Delay(0) = BaseDelay /\ MaxDelay \in Nat
<1>1. MaxDelay \in Nat
  BY Powers, QueueConstants DEF MaxDelay
<1> QED
  BY <1>1, Doubling, QueueConstants DEF Delay

(* The types and what is known *)

Item == [entry : Entry, retries : Nat, due : Int]

Types ==
    /\ id \in [Entry -> Id \cup {None}]
    /\ queue \in Seq(Item)
    /\ processing \in [Id -> Item \cup {None}]
    /\ pc \in [Worker -> {"idle", "scan", "putback", "store", "work", "ack",
                          "nack", "nackdel", "requeue"}]
    /\ batch \in [Worker -> Seq(Item)]
    /\ hand \in [Worker -> Item \cup {None}]
    /\ \A w \in Worker : pc[w] \in {"idle", "scan", "work"} <=> hand[w] = None

\* Only entries that were enqueued are anywhere.
Known ==
    /\ \A k \in 1..Len(queue) : id[queue[k].entry] # None
    /\ \A w \in Worker : hand[w] # None => id[hand[w].entry] # None
    /\ \A w \in Worker : \A k \in 1..Len(batch[w]) : id[batch[w][k].entry] # None
    /\ \A i \in Id : processing[i] # None => id[processing[i].entry] # None

Inv == Types /\ Known

USE QueueConstants

LEMMA InitInv == Init => Inv
  BY DEF Init, Inv, Types, Known

(* What the operators do to the items of a sequence *)

LEMMA Appended ==
    ASSUME NEW q \in Seq(Item), NEW x \in Item
    PROVE  /\ Append(q, x) \in Seq(Item)
           /\ Len(Append(q, x)) = Len(q) + 1
           /\ \A k \in 1..Len(q) : Append(q, x)[k] = q[k]
           /\ Append(q, x)[Len(q) + 1] = x
  OBVIOUS

LEMMA Popped ==
    ASSUME NEW q \in Seq(Item), q # << >>
    PROVE  /\ Len(q) \in Nat \ {0}
           /\ Head(q) \in Item /\ Head(q) = q[1]
           /\ Tail(q) \in Seq(Item) /\ Len(Tail(q)) = Len(q) - 1
           /\ \A k \in 1..(Len(q) - 1) : Tail(q)[k] = q[k + 1]
  OBVIOUS

LEMMA Changed ==
    ASSUME NEW x \in Item
    PROVE  /\ x # None
           /\ Retried(x) \in Item /\ Retried(x).entry = x.entry
           /\ Backoff(x) \in Item /\ Backoff(x).entry = x.entry
           /\ Aged(x) \in Item /\ Aged(x).entry = x.entry
<1>1. Delay(x.retries) \in Int
  BY Powers DEF Item
<1>2. x # None
  BY DEF Item
<1>3. Retried(x) \in Item /\ Retried(x).entry = x.entry
  BY DEF Retried, Item
<1>4. Backoff(x) \in Item /\ Backoff(x).entry = x.entry
  BY <1>1 DEF Backoff, Item
<1>5. Aged(x) \in Item /\ Aged(x).entry = x.entry
  BY DEF Aged, Item
<1> QED
  BY <1>2, <1>3, <1>4, <1>5

LEMMA TickedQueue ==
    ASSUME NEW q \in Seq(Item)
    PROVE  LET p == [k \in DOMAIN q |-> Aged(q[k])]
           IN  p \in Seq(Item) /\ Len(p) = Len(q) /\ \A k \in 1..Len(q) : p[k].entry = q[k].entry
<1>1. \A k \in 1..Len(q) : Aged(q[k]) \in Item /\ Aged(q[k]).entry = q[k].entry
  BY Changed
<1> QED
  BY <1>1

LEMMA InvNext == Inv /\ [Next]_vars => Inv'
<1> SUFFICES ASSUME Inv, [Next]_vars  PROVE Inv'
  OBVIOUS
<1> USE DEF Inv, Types, Known, Goto, Hold, HDel, redisVars, workerVars, historyVars
<1>1. ASSUME NEW e \in Entry, NEW i \in Id, EnqueueAs(e, i)  PROVE Inv'
  <2>1. [entry |-> e, retries |-> 0, due |-> BaseDelay] \in Item
    BY DEF Item
  <2>2. Types'
    BY <1>1, <2>1, Appended DEF EnqueueAs
  <2>3. \A f \in Entry : id[f] # None => id'[f] # None
    BY <1>1 DEF EnqueueAs
  <2>4. \A x \in Item : x.entry \in Entry
    BY DEF Item
  <2>5. Known'
    <3>1. \A k \in 1..Len(queue') : id'[queue'[k].entry] # None
      BY <1>1, <2>1, <2>3, <2>4, Appended DEF EnqueueAs
    <3> QED
      BY <1>1, <2>3, <2>4, <3>1 DEF EnqueueAs
  <2> QED
    BY <2>2, <2>5
<1>2. ASSUME NEW w \in Worker, StartScan(w) \/ EndScan(w) \/ EndWork(w) \/ Crash(w)
      PROVE  Inv'
  <2>1. CASE StartScan(w)
    BY <2>1 DEF StartScan
  <2>2. CASE EndScan(w)
    BY <2>2 DEF EndScan
  <2>3. CASE EndWork(w)
    BY <2>3 DEF EndWork
  <2>4. CASE Crash(w)
    <3>1. << >> \in Seq(Item)
      OBVIOUS
    <3> QED
      BY <2>4, <3>1 DEF Crash
  <2> QED
    BY <1>2, <2>1, <2>2, <2>3, <2>4
<1>3. ASSUME NEW w \in Worker, Pop(w)  PROVE Inv'
  <2>1. queue # << >> /\ queue' = Tail(queue) /\ UNCHANGED <<id, processing, batch>>
    BY <1>3 DEF Pop, ScanGoesOn, AfterPop
  <2>2. \/ UNCHANGED <<pc, hand>>
        \/ /\ \E l \in {"store", "putback"} : pc' = [pc EXCEPT ![w] = l]
           /\ hand' = [hand EXCEPT ![w] = Head(queue)]
    BY <1>3 DEF Pop
  <2> DEFINE x == Head(queue)
  <2>a. /\ x \in Item /\ x # None /\ x = queue[1] /\ Len(queue) \in Nat \ {0}
        /\ queue' \in Seq(Item) /\ Len(queue') = Len(queue) - 1
        /\ \A k \in 1..(Len(queue) - 1) : queue'[k] = queue[k + 1]
    BY <2>1, Popped, Changed
  <2> HIDE DEF x
  <2>b. \/ UNCHANGED <<pc, hand>>
        \/ /\ \E l \in {"store", "putback"} : pc' = [pc EXCEPT ![w] = l]
           /\ hand' = [hand EXCEPT ![w] = x]
           /\ pc[w] = "scan"
    BY <1>3, <2>2 DEF x, Pop
  <2>3. Types'
    <3>1. CASE UNCHANGED <<pc, hand>>
      BY <2>1, <2>a, <3>1
    <3>2. CASE /\ \E l \in {"store", "putback"} : pc' = [pc EXCEPT ![w] = l]
               /\ hand' = [hand EXCEPT ![w] = x]
               /\ pc[w] = "scan"
      <4>1. PICK l \in {"store", "putback"} : pc' = [pc EXCEPT ![w] = l]
        BY <3>2
      <4> QED
        BY <2>1, <2>a, <3>2, <4>1
    <3> QED
      BY <2>b, <3>1, <3>2
  <2>4. Known'
    <3>1. ASSUME NEW k \in 1..Len(queue')  PROVE id[queue'[k].entry] # None
      <4>1. k \in 1..(Len(queue) - 1) /\ k + 1 \in 1..Len(queue)
        BY <2>a
      <4>2. id[queue[k + 1].entry] # None
        BY <4>1
      <4>3. queue'[k] = queue[k + 1]
        BY <2>a, <4>1
      <4> QED
        BY <4>2, <4>3
    <3>2. id[x.entry] # None
      BY <2>a
    <3>3. ASSUME NEW v \in Worker, hand'[v] # None  PROVE id[hand'[v].entry] # None
      <4>1. hand'[v] = hand[v] \/ hand'[v] = x
        BY <2>b
      <4> QED
        BY <3>2, <3>3, <4>1
    <3> QED
      BY <2>1, <3>1, <3>3
  <2> QED
    BY <2>3, <2>4
<1>4. ASSUME NEW w \in Worker, PutBack(w)  PROVE Inv'
  <2>1. hand[w] \in Item /\ hand[w] # None
    BY <1>4 DEF PutBack
  <2>2. /\ queue' \in Seq(Item) /\ Len(queue') = Len(queue) + 1
        /\ \A k \in 1..Len(queue) : queue'[k] = queue[k]
        /\ queue'[Len(queue) + 1] = hand[w]
    BY <1>4, <2>1, Appended DEF PutBack
  <2>3. ASSUME NEW k \in 1..Len(queue')  PROVE id[queue'[k].entry] # None
    <3>1. k \in 1..Len(queue) \/ k = Len(queue) + 1
      BY <2>2
    <3> QED
      BY <2>1, <2>2, <3>1
  <2> QED
    BY <1>4, <2>2, <2>3 DEF PutBack
<1>5. ASSUME NEW w \in Worker, Store(w)  PROVE Inv'
  <2>1. hand[w] \in Item /\ hand[w] # None /\ hand[w].entry \in Entry
    BY <1>5 DEF Store, Item
  <2>2. id[hand[w].entry] \in Id
    BY <2>1
  <2>3. Types'
    BY <1>5, <2>1, <2>2, Appended DEF Store
  <2>4. \A v \in Worker : \A k \in 1..Len(batch'[v]) : id[batch'[v][k].entry] # None
    BY <1>5, <2>1, Appended DEF Store
  <2> QED
    BY <1>5, <2>1, <2>2, <2>3, <2>4 DEF Store
<1>6. ASSUME NEW w \in Worker, Deliver(w)  PROVE Inv'
  <2>1. /\ batch[w] # << >> /\ UNCHANGED <<id, queue, processing>>
        /\ hand' = [hand EXCEPT ![w] = Head(batch[w])]
        /\ batch' = [batch EXCEPT ![w] = Tail(batch[w])]
        /\ \E l \in {"ack", "nack"} : pc' = [pc EXCEPT ![w] = l]
    BY <1>6 DEF Deliver
  <2>a. Head(batch[w]) \in Item /\ Head(batch[w]) # None /\ Tail(batch[w]) \in Seq(Item)
    BY <2>1, Popped, Changed
  <2>2. Types'
    BY <2>1, <2>a
  <2>3. \A v \in Worker : \A k \in 1..Len(batch'[v]) : id[batch'[v][k].entry] # None
    BY <2>1, Popped
  <2>4. id[Head(batch[w]).entry] # None
    BY <2>1, Popped
  <2> QED
    BY <2>1, <2>2, <2>3, <2>4
<1>7. ASSUME NEW w \in Worker, Ack(w)  PROVE Inv'
  BY <1>7 DEF Ack
<1>8. ASSUME NEW w \in Worker, NackGet(w)  PROVE Inv'
  <2>1. hand[w] \in Item /\ hand[w] # None
    BY <1>8 DEF NackGet
  <2>2. hand[w].entry \in Entry
    BY <2>1 DEF Item
  <2>3. id[hand[w].entry] \in Id
    BY <2>1, <2>2
  <2> DEFINE stored == processing[id[hand[w].entry]]
  <2>4. stored \in Item \cup {None} /\ (stored # None => id[stored.entry] # None)
    BY <2>3
  <2>5. /\ \/ stored = None /\ pc' = [pc EXCEPT ![w] = "work"] /\ hand' = [hand EXCEPT ![w] = None]
           \/ stored # None /\ pc' = [pc EXCEPT ![w] = "nackdel"] /\ hand' = [hand EXCEPT ![w] = stored]
        /\ UNCHANGED <<id, queue, processing, batch>>
    BY <1>8 DEF NackGet
  <2> HIDE DEF stored
  <2>6. CASE stored = None
    <3>1. /\ pc' = [pc EXCEPT ![w] = "work"] /\ hand' = [hand EXCEPT ![w] = None]
          /\ UNCHANGED <<id, queue, processing, batch>>
      BY <2>5, <2>6
    <3>2. Types'
      BY <3>1
    <3>3. Known'
      BY <3>1
    <3> QED
      BY <3>2, <3>3
  <2>7. CASE stored # None
    <3>1. /\ pc' = [pc EXCEPT ![w] = "nackdel"] /\ hand' = [hand EXCEPT ![w] = stored]
          /\ stored \in Item /\ id[stored.entry] # None
          /\ UNCHANGED <<id, queue, processing, batch>>
      BY <2>4, <2>5, <2>7
    <3>2. Types'
      BY <2>7, <3>1
    <3>3. Known'
      BY <3>1
    <3> QED
      BY <3>2, <3>3
  <2> QED
    BY <2>6, <2>7
<1>9. ASSUME NEW w \in Worker, NackDel(w)  PROVE Inv'
  <2>1. hand[w] \in Item /\ hand[w] # None
    BY <1>9 DEF NackDel
  <2>2. \/ pc' = [pc EXCEPT ![w] = "work"] /\ hand' = [hand EXCEPT ![w] = None]
        \/ /\ pc' = [pc EXCEPT ![w] = "requeue"]
           /\ hand' = [hand EXCEPT ![w] = Retried(hand[w])]
    BY <1>9 DEF NackDel
  <2>3. /\ UNCHANGED <<id, queue, batch>>
        /\ processing' = [processing EXCEPT ![id[hand[w].entry]] = None]
    BY <1>9 DEF NackDel
  <2>4. Retried(hand[w]) \in Item /\ Retried(hand[w]) # None
        /\ Retried(hand[w]).entry = hand[w].entry
    BY <2>1, Changed
  <2>5. processing' \in [Id -> Item \cup {None}]
        /\ \A i \in Id : processing'[i] # None => processing'[i] = processing[i]
    BY <2>3
  <2>6. id[Retried(hand[w]).entry] # None
    BY <2>1, <2>4
  <2>7. CASE pc' = [pc EXCEPT ![w] = "work"] /\ hand' = [hand EXCEPT ![w] = None]
    BY <2>3, <2>5, <2>7
  <2>8. CASE pc' = [pc EXCEPT ![w] = "requeue"] /\ hand' = [hand EXCEPT ![w] = Retried(hand[w])]
    BY <2>3, <2>4, <2>5, <2>6, <2>8, <2>1
  <2> QED
    BY <2>2, <2>7, <2>8
<1>10. ASSUME NEW w \in Worker, Requeue(w)  PROVE Inv'
  <2>1. hand[w] \in Item /\ hand[w] # None
    BY <1>10 DEF Requeue
  <2>2. Backoff(hand[w]) \in Item /\ Backoff(hand[w]).entry = hand[w].entry
    BY <2>1, Changed
  <2>3. /\ queue' = Append(queue, Backoff(hand[w]))
        /\ hand' = [hand EXCEPT ![w] = None] /\ pc' = [pc EXCEPT ![w] = "work"]
        /\ UNCHANGED <<id, processing, batch>>
    BY <1>10 DEF Requeue
  <2> HIDE DEF Item
  <2>4. /\ queue' \in Seq(Item) /\ Len(queue') = Len(queue) + 1
        /\ \A k \in 1..Len(queue) : queue'[k] = queue[k]
        /\ queue'[Len(queue) + 1].entry = hand[w].entry
    BY <2>2, <2>3, Appended
  <2>5. ASSUME NEW k \in 1..Len(queue')  PROVE id[queue'[k].entry] # None
    <3>1. k \in 1..Len(queue) \/ k = Len(queue) + 1
      BY <2>4
    <3> QED
      BY <2>1, <2>4, <3>1
  <2> QED
    BY <2>3, <2>4, <2>5
<1>11. CASE Tick
  <2>1. /\ queue' = [k \in DOMAIN queue |-> Aged(queue[k])]
        /\ hand' = [w \in Worker |-> IF pc[w] = "putback" THEN Aged(hand[w]) ELSE hand[w]]
        /\ UNCHANGED <<id, processing, pc, batch>>
    BY <1>11 DEF Tick
  <2>2. \A w \in Worker : \/ hand'[w] = hand[w]
                          \/ /\ hand'[w] \in Item /\ hand'[w] # None /\ hand[w] # None
                             /\ hand'[w].entry = hand[w].entry
    <3> TAKE w \in Worker
    <3>1. CASE pc[w] = "putback"
      <4>1. hand[w] \in Item /\ hand[w] # None
        BY <3>1
      <4>2. Aged(hand[w]) \in Item /\ Aged(hand[w]) # None /\ Aged(hand[w]).entry = hand[w].entry
        BY <4>1, Changed
      <4> QED
        BY <2>1, <3>1, <4>1, <4>2
    <3>2. CASE pc[w] # "putback"
      BY <2>1, <3>2
    <3> QED
      BY <3>1, <3>2
  <2>3. /\ queue' \in Seq(Item) /\ Len(queue') = Len(queue)
        /\ \A k \in 1..Len(queue) : queue'[k].entry = queue[k].entry
    BY <2>1, TickedQueue
  <2>4. \A k \in 1..Len(queue') : id'[queue'[k].entry] # None
    BY <2>1, <2>3
  <2>5. hand' \in [Worker -> Item \cup {None}]
    BY <2>1, <2>2
  <2>6. Types'
    BY <2>1, <2>2, <2>3, <2>5
  <2>7. \A w \in Worker : hand'[w] # None => id[hand'[w].entry] # None
    BY <2>2
  <2>8. Known'
    BY <2>1, <2>4, <2>7
  <2> QED
    BY <2>6, <2>8
<1>12. CASE UNCHANGED vars
  BY <1>12 DEF vars
<1> QED
  BY <1>1, <1>2, <1>3, <1>4, <1>5, <1>6, <1>7, <1>8, <1>9, <1>10, <1>11, <1>12
     DEF Next, Enqueue, Work

LEMMA Inductive == Spec => []Inv
  BY InitInv, InvNext, PTL DEF Spec

(***************************************************************************)
(* The queue implements RetryQueue, but for its liveness: no entry is      *)
(* settled before it was enqueued or enqueued again later, even if workers *)
(* die and ids collide.                                                    *)
(***************************************************************************)
THEOREM ImplementsRetryQueue == Spec => Promise!Init /\ [][Promise!Next]_Fate
<1>1. Init => Promise!Init
  BY DEF Init, Promise!Init, Fate
<1> DEFINE Settled == settled \in [Entry -> {"no", "delivered", "exhausted"}]
<1>2. ASSUME Inv, Settled, [Next]_vars  PROVE [Promise!Next]_Fate /\ Settled'
  <2>1. \A x \in Item : x.entry \in Entry
    BY DEF Item
  <2>2. ASSUME NEW e \in Entry, id[e] # None, id' = id, \A f \in Entry \ {e} : settled'[f] = settled[f],
               settled'[e] # "no"
        PROVE  [Promise!Next]_Fate
    <3>1. Fate' = [Fate EXCEPT ![e] = "settled"] /\ Fate[e] # "none"
      BY <2>2 DEF Fate
    <3>2. CASE Fate[e] = "queued"
      BY <3>1, <3>2 DEF Promise!Next, Promise!Settle
    <3>3. CASE Fate[e] = "settled"
      <4>1. Fate' = Fate
        BY <3>1, <3>3 DEF Fate
      <4> QED
        BY <4>1
    <3> QED
      BY <3>1, <3>2, <3>3 DEF Fate
  <2>3. ASSUME NEW e \in Entry, NEW i \in Id, EnqueueAs(e, i)  PROVE [Promise!Next]_Fate /\ Settled'
    <3>a. UNCHANGED settled
      BY <2>3 DEF EnqueueAs, historyVars
    <3>1. CASE settled[e] = "no"
      <4>1. Fate[e] = "none" /\ Fate' = [Fate EXCEPT ![e] = "queued"]
        BY <1>2, <2>3, <3>1 DEF EnqueueAs, Fate, historyVars, Inv, Types
      <4> QED
        BY <1>2, <3>a, <4>1 DEF Promise!Next, Promise!Enqueue
    <3>2. CASE settled[e] # "no"
      <4>1. Fate' = Fate
        BY <1>2, <2>3, <3>2 DEF EnqueueAs, Fate, historyVars, Inv, Types
      <4> QED
        BY <1>2, <3>a, <4>1
    <3> QED
      BY <3>1, <3>2
  <2>4. ASSUME NEW x \in Item, NEW r \in {"delivered", "exhausted"}, id' = id, id[x.entry] # None,
               settled' = [settled EXCEPT ![x.entry] = r]
        PROVE  [Promise!Next]_Fate /\ Settled'
    <3>1. x.entry \in Entry
      BY <2>1
    <3>2. \A f \in Entry \ {x.entry} : settled'[f] = settled[f]
      BY <2>4
    <3>3. settled'[x.entry] # "no"
      BY <1>2, <2>4, <3>1
    <3>4. Settled'
      BY <1>2, <2>4, <3>1
    <3> QED
      BY <2>2, <2>4, <3>1, <3>2, <3>3, <3>4
  <2>5. CASE UNCHANGED <<id, settled>>
    <3>1. Fate' = Fate
      BY <2>5 DEF Fate
    <3> QED
      BY <1>2, <2>5, <3>1
  <2>6. ASSUME NEW w \in Worker, Pop(w)  PROVE [Promise!Next]_Fate /\ Settled'
    <3>1. Head(queue) \in Item /\ id[Head(queue).entry] # None
      BY <1>2, <2>6, Popped DEF Pop, ScanGoesOn, Inv, Types, Known
    <3>2. \/ UNCHANGED <<id, settled>>
          \/ id' = id /\ settled' = [settled EXCEPT ![Head(queue).entry] = "exhausted"]
      BY <2>6 DEF Pop
    <3> QED
      BY <2>4, <2>5, <3>1, <3>2
  <2>7. ASSUME NEW w \in Worker, Deliver(w)  PROVE [Promise!Next]_Fate /\ Settled'
    <3>1. Head(batch[w]) \in Item /\ id[Head(batch[w]).entry] # None
      BY <1>2, <2>7, Popped DEF Deliver, Inv, Types, Known
    <3>2. \/ UNCHANGED <<id, settled>>
          \/ id' = id /\ settled' = [settled EXCEPT ![Head(batch[w]).entry] = "delivered"]
      BY <2>7 DEF Deliver
    <3> QED
      BY <2>4, <2>5, <3>1, <3>2
  <2>8. ASSUME NEW w \in Worker, NackDel(w)  PROVE [Promise!Next]_Fate /\ Settled'
    <3>1. hand[w] \in Item /\ id[hand[w].entry] # None
      <4>1. hand[w] # None
        BY <1>2, <2>8 DEF NackDel, Inv, Types
      <4> QED
        BY <1>2, <4>1 DEF Inv, Types, Known
    <3>2. Retried(hand[w]).entry = hand[w].entry
      BY <3>1, Changed
    <3>3. \/ UNCHANGED <<id, settled>>
          \/ id' = id /\ settled' = [settled EXCEPT ![hand[w].entry] = "exhausted"]
      BY <2>8, <3>2 DEF NackDel
    <3> QED
      BY <2>4, <2>5, <3>1, <3>3
  <2>9. ASSUME NEW w \in Worker,
               StartScan(w) \/ PutBack(w) \/ Store(w) \/ EndScan(w) \/ EndWork(w) \/ Ack(w)
                 \/ NackGet(w) \/ Requeue(w) \/ Crash(w)
        PROVE  UNCHANGED <<id, settled>>
    BY <2>9 DEF StartScan, PutBack, Store, EndScan, EndWork, Ack, NackGet, Requeue, Crash,
                historyVars
  <2>10. Tick \/ UNCHANGED vars => UNCHANGED <<id, settled>>
    BY DEF Tick, vars, historyVars
  <2> QED
    BY <1>2, <2>3, <2>5, <2>6, <2>7, <2>8, <2>9, <2>10 DEF Next, Enqueue, Work
<1>3. Init => Settled
  BY DEF Init
<1> QED
  BY <1>1, <1>2, <1>3, Inductive, PTL DEF Spec

(* One place for every entry *)

QueueOnce ==
    \A j, k \in 1..Len(queue) : queue[j].entry = queue[k].entry => j = k

HandOnce ==
    \A v, w \in Worker :
        hand[v] # None /\ hand[w] # None /\ hand[v].entry = hand[w].entry => v = w

BatchOnce ==
    \A v, w \in Worker : \A j \in 1..Len(batch[v]), k \in 1..Len(batch[w]) :
        batch[v][j].entry = batch[w][k].entry => v = w /\ j = k

QueueOrHand ==
    \A w \in Worker : \A k \in 1..Len(queue) :
        hand[w] # None => queue[k].entry # hand[w].entry

QueueOrBatch ==
    \A w \in Worker : \A k \in 1..Len(queue), j \in 1..Len(batch[w]) :
        queue[k].entry # batch[w][j].entry

HandOrBatch ==
    \A v, w \in Worker : \A j \in 1..Len(batch[w]) :
        hand[v] # None => hand[v].entry # batch[w][j].entry

Exclusive ==
    /\ QueueOnce /\ HandOnce /\ BatchOnce
    /\ QueueOrHand /\ QueueOrBatch /\ HandOrBatch

\* The moves an entry can make; each keeps it in one place.

LEMMA Stays ==
    ASSUME Inv, Exclusive, Inv',
           Len(queue') = Len(queue),
           \A k \in 1..Len(queue) : queue'[k].entry = queue[k].entry,
           \A w \in Worker : \/ hand'[w] = None
                             \/ hand[w] # None /\ hand'[w].entry = hand[w].entry,
           \A w \in Worker : batch'[w] \in {batch[w], << >>}
    PROVE  Exclusive'
<1> USE DEF Exclusive, QueueOnce, HandOnce, BatchOnce, QueueOrHand, QueueOrBatch, HandOrBatch
<1>1. \A w \in Worker : \A k \in 1..Len(batch'[w]) :
        k \in 1..Len(batch[w]) /\ batch'[w][k] = batch[w][k]
  OBVIOUS
<1>2. QueueOnce' /\ HandOnce' /\ QueueOrHand'
  OBVIOUS
<1>3. BatchOnce'
  <2> SUFFICES ASSUME NEW v \in Worker, NEW w \in Worker,
                      NEW j \in 1..Len(batch'[v]), NEW k \in 1..Len(batch'[w]),
                      batch'[v][j].entry = batch'[w][k].entry
               PROVE  v = w /\ j = k
    OBVIOUS
  <2>1. j \in 1..Len(batch[v]) /\ batch'[v][j] = batch[v][j]
    BY <1>1
  <2>2. k \in 1..Len(batch[w]) /\ batch'[w][k] = batch[w][k]
    BY <1>1
  <2>3. batch[v][j].entry = batch[w][k].entry
    BY <2>1, <2>2
  <2>4. BatchOnce
    OBVIOUS
  <2> QED
    BY ONLY <2>1, <2>2, <2>3, <2>4 DEF BatchOnce
<1>4. QueueOrBatch'
  BY <1>1
<1>5. HandOrBatch'
  BY <1>1
<1> QED
  BY <1>2, <1>3, <1>4, <1>5

LEMMA EntersQueue ==
    ASSUME Inv, Exclusive,
           NEW x \in Item, queue' = Append(queue, x),
           \A k \in 1..Len(queue) : queue[k].entry # x.entry,
           \A w \in Worker : \A k \in 1..Len(batch[w]) : batch[w][k].entry # x.entry,
           \A w \in Worker : \/ hand'[w] = None
                             \/ hand'[w] = hand[w] /\ hand[w].entry # x.entry,
           batch' = batch
    PROVE  Exclusive'
<1> USE DEF Exclusive, QueueOnce, HandOnce, BatchOnce, QueueOrHand, QueueOrBatch, HandOrBatch
<1>1. \A k \in 1..Len(queue') :
        \/ k \in 1..Len(queue) /\ queue'[k] = queue[k]
        \/ k = Len(queue) + 1 /\ queue'[k] = x
  BY Appended DEF Inv, Types
<1>2. HandOnce'
  OBVIOUS
<1>3. BatchOnce'
  OBVIOUS
<1>4. HandOrBatch'
  OBVIOUS
<1>5. QueueOnce'
  BY <1>1
<1>6. QueueOrHand'
  BY <1>1
<1>7. QueueOrBatch'
  BY <1>1
<1> QED
  BY <1>2, <1>3, <1>4, <1>5, <1>6, <1>7

LEMMA LeavesQueue ==
    ASSUME Inv, Exclusive, queue # << >>, queue' = Tail(queue), batch' = batch,
           NEW w \in Worker,
           \/ hand' = hand
           \/ hand[w] = None /\ hand' = [hand EXCEPT ![w] = Head(queue)]
    PROVE  Exclusive'
<1> USE DEF Exclusive, QueueOnce, HandOnce, BatchOnce, QueueOrHand, QueueOrBatch, HandOrBatch
<1>1. /\ 1 \in 1..Len(queue) /\ Head(queue) = queue[1]
      /\ \A k \in 1..Len(queue') : k + 1 \in 1..Len(queue) /\ queue'[k] = queue[k + 1] /\ k # 0
  BY Popped DEF Inv, Types
<1>2. \A v \in Worker : \/ hand'[v] = hand[v]
                        \/ v = w /\ hand[w] = None /\ hand'[v] = queue[1]
  BY <1>1 DEF Inv, Types
<1>3. BatchOnce'
  OBVIOUS
<1>4. QueueOnce'
  BY <1>1
<1>5. QueueOrBatch'
  BY <1>1
<1>6. HandOnce'
  <2> SUFFICES ASSUME NEW u \in Worker, NEW v \in Worker, hand'[u] # None, hand'[v] # None,
                      hand'[u].entry = hand'[v].entry
               PROVE  u = v
    OBVIOUS
  <2>1. CASE hand'[u] = hand[u] /\ hand'[v] = hand[v]
    BY <2>1
  <2>2. CASE hand'[u] # hand[u] \/ hand'[v] # hand[v]
    <3>1. \A x \in Worker : hand[x] # None => hand[x].entry # queue[1].entry
      BY <1>1
    <3> QED
      BY <1>2, <2>2, <3>1
  <2> QED
    BY <2>1, <2>2
<1>7. HandOrBatch'
  <2>1. \A v \in Worker : \A j \in 1..Len(batch[v]) : queue[1].entry # batch[v][j].entry
    BY <1>1
  <2>2. batch' = batch
    OBVIOUS
  <2> QED
    BY <1>2, <2>1, <2>2
<1>8. QueueOrHand'
  <2> SUFFICES ASSUME NEW v \in Worker, NEW k \in 1..Len(queue'), hand'[v] # None
               PROVE  queue'[k].entry # hand'[v].entry
    OBVIOUS
  <2>1. k + 1 \in 1..Len(queue) /\ queue'[k] = queue[k + 1] /\ k + 1 # 1
    BY <1>1
  <2>2. queue[k + 1].entry # queue[1].entry
    BY <1>1, <2>1
  <2> QED
    BY <1>2, <2>1, <2>2
<1> QED
  BY <1>3, <1>4, <1>5, <1>6, <1>7, <1>8

LEMMA HandToBatch ==
    ASSUME Inv, Exclusive, queue' = queue,
           NEW w \in Worker, hand[w] # None,
           hand' = [hand EXCEPT ![w] = None],
           batch' = [batch EXCEPT ![w] = Append(batch[w], hand[w])]
    PROVE  Exclusive'
<1> USE DEF Exclusive, QueueOnce, HandOnce, BatchOnce, QueueOrHand, QueueOrBatch, HandOrBatch
<1>1. \A v \in Worker : \A k \in 1..Len(batch'[v]) :
        \/ k \in 1..Len(batch[v]) /\ batch'[v][k] = batch[v][k]
        \/ v = w /\ k = Len(batch[w]) + 1 /\ batch'[v][k] = hand[w]
  BY Appended DEF Inv, Types
<1>2. \A v \in Worker : \/ hand'[v] = hand[v] /\ v # w
                        \/ hand'[v] = None
  BY DEF Inv, Types
<1>3. QueueOnce' /\ HandOnce' /\ QueueOrHand'
  BY <1>2
<1>4. BatchOnce'
  <2> SUFFICES ASSUME NEW u \in Worker, NEW v \in Worker,
                      NEW j \in 1..Len(batch'[u]), NEW k \in 1..Len(batch'[v]),
                      batch'[u][j].entry = batch'[v][k].entry
               PROVE  u = v /\ j = k
    OBVIOUS
  <2>1. \/ j \in 1..Len(batch[u]) /\ batch'[u][j] = batch[u][j]
        \/ u = w /\ j = Len(batch[w]) + 1 /\ batch'[u][j] = hand[w]
    BY <1>1
  <2>2. \/ k \in 1..Len(batch[v]) /\ batch'[v][k] = batch[v][k]
        \/ v = w /\ k = Len(batch[w]) + 1 /\ batch'[v][k] = hand[w]
    BY <1>1
  <2>3. /\ \A i \in 1..Len(batch[u]) : batch[u][i].entry # hand[w].entry
        /\ \A i \in 1..Len(batch[v]) : batch[v][i].entry # hand[w].entry
    OBVIOUS
  <2>4. BatchOnce
    OBVIOUS
  <2>5. CASE /\ j \in 1..Len(batch[u]) /\ batch'[u][j] = batch[u][j]
             /\ k \in 1..Len(batch[v]) /\ batch'[v][k] = batch[v][k]
    <3>1. batch[u][j].entry = batch[v][k].entry
      BY <2>5
    <3> QED
      BY ONLY <2>4, <2>5, <3>1 DEF BatchOnce
  <2>6. CASE u = w /\ j = Len(batch[w]) + 1 /\ v = w /\ k = Len(batch[w]) + 1
    BY <2>6
  <2> QED
    BY <2>1, <2>2, <2>3, <2>5, <2>6
<1>5. QueueOrBatch'
  BY <1>1
<1>6. HandOrBatch'
  BY <1>1, <1>2
<1> QED
  BY <1>3, <1>4, <1>5, <1>6

LEMMA BatchToHand ==
    ASSUME Inv, Exclusive, queue' = queue,
           NEW w \in Worker, hand[w] = None, batch[w] # << >>,
           hand' = [hand EXCEPT ![w] = Head(batch[w])],
           batch' = [batch EXCEPT ![w] = Tail(batch[w])]
    PROVE  Exclusive'
<1> USE DEF Exclusive, QueueOnce, HandOnce, BatchOnce, QueueOrHand, QueueOrBatch, HandOrBatch
<1>1. /\ 1 \in 1..Len(batch[w]) /\ Head(batch[w]) = batch[w][1]
      /\ \A v \in Worker : \A k \in 1..Len(batch'[v]) :
           \/ v # w /\ k \in 1..Len(batch[v]) /\ batch'[v][k] = batch[v][k]
           \/ v = w /\ k + 1 \in 1..Len(batch[w]) /\ k # 0 /\ batch'[v][k] = batch[w][k + 1]
  BY Popped DEF Inv, Types
<1>2. \A v \in Worker : \/ v # w /\ hand'[v] = hand[v]
                        \/ v = w /\ hand'[v] = batch[w][1]
  BY <1>1 DEF Inv, Types
<1>3. QueueOnce' /\ HandOnce' /\ QueueOrHand'
  BY <1>1, <1>2
<1>4. BatchOnce'
  <2> SUFFICES ASSUME NEW u \in Worker, NEW v \in Worker,
                      NEW j \in 1..Len(batch'[u]), NEW k \in 1..Len(batch'[v]),
                      batch'[u][j].entry = batch'[v][k].entry
               PROVE  u = v /\ j = k
    OBVIOUS
  <2> HIDE DEF Exclusive, QueueOnce, HandOnce, BatchOnce, QueueOrHand, QueueOrBatch, HandOrBatch
  <2>1. PICK i \in 1..Len(batch[u]) :
          batch'[u][j] = batch[u][i] /\ i = IF u = w THEN j + 1 ELSE j
    <3>1. \/ u # w /\ j \in 1..Len(batch[u]) /\ batch'[u][j] = batch[u][j]
          \/ u = w /\ j + 1 \in 1..Len(batch[w]) /\ batch'[u][j] = batch[w][j + 1]
      BY <1>1
    <3> QED
      BY <3>1
  <2>2. PICK l \in 1..Len(batch[v]) :
          batch'[v][k] = batch[v][l] /\ l = IF v = w THEN k + 1 ELSE k
    <3>1. \/ v # w /\ k \in 1..Len(batch[v]) /\ batch'[v][k] = batch[v][k]
          \/ v = w /\ k + 1 \in 1..Len(batch[w]) /\ batch'[v][k] = batch[w][k + 1]
      BY <1>1
    <3> QED
      BY <3>1
  <2>3. batch[u][i].entry = batch[v][l].entry
    BY <2>1, <2>2
  <2>4. BatchOnce
    BY DEF Exclusive
  <2>5. u = v /\ i = l
    BY ONLY <2>3, <2>4 DEF BatchOnce
  <2>6. j \in Int /\ k \in Int
    OBVIOUS
  <2> QED
    BY <2>1, <2>2, <2>5, <2>6
<1>5. QueueOrBatch'
  BY <1>1
<1>6. HandOrBatch'
  <2> SUFFICES ASSUME NEW u \in Worker, NEW v \in Worker, NEW j \in 1..Len(batch'[v]),
                      hand'[u] # None
               PROVE  hand'[u].entry # batch'[v][j].entry
    OBVIOUS
  <2>1. PICK i \in 1..Len(batch[v]) : batch'[v][j] = batch[v][i] /\ (v = w => i # 1)
    <3>1. \/ v # w /\ j \in 1..Len(batch[v]) /\ batch'[v][j] = batch[v][j]
          \/ v = w /\ j + 1 \in 1..Len(batch[w]) /\ j # 0 /\ batch'[v][j] = batch[w][j + 1]
      BY <1>1
    <3>2. v = w => j \in Nat
      BY <3>1
    <3> QED
      BY <3>1, <3>2
  <2>2. hand[u] # None => hand[u].entry # batch[v][i].entry
    BY <2>1
  <2>3. batch[w][1].entry # batch[v][i].entry
    <3>1. ~(w = v /\ 1 = i)
      BY <2>1
    <3>2. 1 \in 1..Len(batch[w])
      BY <1>1
    <3>3. batch[w][1].entry = batch[v][i].entry => w = v /\ 1 = i
      BY <3>2
    <3> QED
      BY <3>1, <3>3
  <2> QED
    BY <1>2, <2>1, <2>2, <2>3
<1> QED
  BY <1>3, <1>4, <1>5, <1>6

\* Without shared ids an id names one entry ...
IdsDistinct == \A e, f \in Entry : id[e] # None /\ id[e] = id[f] => e = f

\* ... and so what one worker stores or deletes is not another's.
OInv == Inv /\ Exclusive /\ IdsDistinct /\ Tracked

LEMMA ExclusiveNext ==
    ASSUME DistinctIds, OInv, [Next]_vars
    PROVE  Exclusive'
<1>1. Inv'
  BY InvNext DEF OInv
<1> USE <1>1 DEF OInv, Goto, Hold, HDel, redisVars, workerVars, historyVars
<1>2. ASSUME NEW e \in Entry, NEW i \in Id, EnqueueAs(e, i)  PROVE Exclusive'
  <2> DEFINE x == [entry |-> e, retries |-> 0, due |-> BaseDelay]
  <2>1. x \in Item /\ x.entry = e
    BY DEF Item
  <2>2. /\ id[e] = None /\ hand' = hand /\ batch' = batch
        /\ queue' = Append(queue, x)
    BY <1>2 DEF EnqueueAs
  <2> HIDE DEF OInv, x
  <2>3. \A k \in 1..Len(queue) : queue[k].entry # x.entry
    BY <2>1, <2>2 DEF OInv, Inv, Known
  <2>4. \A w \in Worker : \A k \in 1..Len(batch[w]) : batch[w][k].entry # x.entry
    BY <2>1, <2>2 DEF OInv, Inv, Known
  <2>5. \A w \in Worker : hand[w] # None => hand[w].entry # x.entry
    BY <2>1, <2>2 DEF OInv, Inv, Known
  <2>6. Inv /\ Exclusive
    BY DEF OInv
  <2> QED
    BY <2>1, <2>2, <2>3, <2>4, <2>5, <2>6, EntersQueue
<1>3. ASSUME NEW w \in Worker, Pop(w)  PROVE Exclusive'
  <2>1. hand[w] = None
    BY <1>3 DEF Pop, Inv, Types
  <2> QED
    BY <1>3, <2>1, LeavesQueue DEF Pop, ScanGoesOn, AfterPop
<1>4. ASSUME NEW w \in Worker, PutBack(w) \/ Requeue(w)  PROVE Exclusive'
  <2>1. hand[w] \in Item /\ hand[w] # None
    BY <1>4 DEF PutBack, Requeue, Inv, Types
  <2>2. Backoff(hand[w]) \in Item /\ Backoff(hand[w]).entry = hand[w].entry
    BY <2>1, Changed
  <2>3. PICK x \in Item : x.entry = hand[w].entry /\ queue' = Append(queue, x)
    BY <1>4, <2>1, <2>2 DEF PutBack, Requeue
  <2>4. hand' = [hand EXCEPT ![w] = None] /\ batch' = batch
    BY <1>4 DEF PutBack, Requeue
  <2>5. \A v \in Worker : \/ hand'[v] = None
                          \/ hand'[v] = hand[v] /\ hand[v].entry # x.entry
    BY <2>1, <2>3, <2>4 DEF Inv, Types, Exclusive, HandOnce
  <2> QED
    BY <2>1, <2>3, <2>4, <2>5, EntersQueue DEF Exclusive, QueueOrHand, HandOrBatch
<1>5. ASSUME NEW w \in Worker, Store(w)  PROVE Exclusive'
  <2>1. hand[w] # None
    BY <1>5 DEF Store, Inv, Types
  <2> QED
    BY <1>5, <2>1, HandToBatch DEF Store
<1>6. ASSUME NEW w \in Worker, Deliver(w)  PROVE Exclusive'
  <2>1. hand[w] = None
    BY <1>6 DEF Deliver, Inv, Types
  <2> QED
    BY <1>6, <2>1, BatchToHand DEF Deliver
<1>7. ASSUME NEW w \in Worker,
             StartScan(w) \/ EndScan(w) \/ EndWork(w) \/ Crash(w)
               \/ Ack(w) \/ NackGet(w) \/ NackDel(w)
      PROVE  Exclusive'
  <2>1. queue' = queue /\ \A v \in Worker : batch'[v] \in {batch[v], << >>}
    BY <1>7 DEF StartScan, EndScan, EndWork, Crash, Ack, NackGet, NackDel, Inv, Types
  <2>2. \A v \in Worker : \/ hand'[v] = None
                          \/ hand[v] # None /\ hand'[v].entry = hand[v].entry
    <3>1. CASE NackGet(w)
      <4>1. hand[w] # None /\ processing[id[hand[w].entry]] = hand[w]
        BY <3>1 DEF NackGet, Tracked, Inv, Types
      <4> QED
        BY <3>1, <4>1 DEF NackGet, Inv, Types
    <3>2. CASE NackDel(w)
      <4>1. hand[w] \in Item /\ hand[w] # None
        BY <3>2 DEF NackDel, Inv, Types
      <4>2. Retried(hand[w]).entry = hand[w].entry
        BY <4>1, Changed
      <4> QED
        BY <3>2, <4>1, <4>2 DEF NackDel, Inv, Types
    <3>3. CASE StartScan(w) \/ EndScan(w) \/ EndWork(w) \/ Crash(w) \/ Ack(w)
      BY <3>3 DEF StartScan, EndScan, EndWork, Crash, Ack, Inv, Types
    <3> QED
      BY <1>7, <3>1, <3>2, <3>3
  <2> QED
    BY <2>1, <2>2, Stays
<1>8. CASE Tick
  <2>1. /\ queue' = [k \in DOMAIN queue |-> Aged(queue[k])]
        /\ hand' = [w \in Worker |-> IF pc[w] = "putback" THEN Aged(hand[w]) ELSE hand[w]]
        /\ batch' = batch
    BY <1>8 DEF Tick
  <2>2. Len(queue') = Len(queue) /\ \A k \in 1..Len(queue) : queue'[k].entry = queue[k].entry
    <3>1. queue \in Seq(Item)
      BY DEF Inv, Types
    <3> QED
      BY ONLY <2>1, <3>1, TickedQueue
  <2>3. ASSUME NEW w \in Worker, hand'[w] # None
        PROVE  hand[w] # None /\ hand'[w].entry = hand[w].entry
    <3>1. CASE pc[w] = "putback"
      <4>1. hand[w] \in Item /\ hand[w] # None
        BY <3>1 DEF Inv, Types
      <4> QED
        BY <2>1, <3>1, <4>1, Changed
    <3>2. CASE pc[w] # "putback"
      BY <2>1, <2>3, <3>2
    <3> QED
      BY <3>1, <3>2
  <2> QED
    BY <2>1, <2>2, <2>3, Stays
<1>9. CASE UNCHANGED vars
  BY <1>9, Stays DEF vars
<1> QED
  BY <1>2, <1>3, <1>4, <1>5, <1>6, <1>7, <1>8, <1>9 DEF Next, Enqueue, Work

LEMMA IdsNext ==
    ASSUME DistinctIds, OInv, [Next]_vars
    PROVE  IdsDistinct'
<1>1. ASSUME NEW e \in Entry, NEW i \in Id, EnqueueAs(e, i), \A f \in Entry : id[f] # i
      PROVE  IdsDistinct'
  BY <1>1 DEF EnqueueAs, OInv, Inv, Types, IdsDistinct
<1>2. CASE id' = id
  BY <1>2 DEF OInv, IdsDistinct
<1>3. ASSUME NEW w \in Worker, Work(w) \/ Crash(w)  PROVE id' = id
  BY <1>3 DEF Work, StartScan, Pop, PutBack, Store, EndScan, Deliver, EndWork, Ack, NackGet,
              NackDel, Requeue, Crash
<1>4. Tick \/ UNCHANGED vars => id' = id
  BY DEF Tick, vars
<1> QED
  BY <1>1, <1>2, <1>3, <1>4 DEF Next, Enqueue

\* A worker's change under its own id leaves what others hold on record.
LEMMA OthersKept ==
    ASSUME OInv, NEW w \in Worker, hand[w] # None, NEW y,
           processing' = [processing EXCEPT ![id[hand[w].entry]] = y]
    PROVE  /\ \A v \in Worker : \A k \in 1..Len(batch[v]) :
                processing'[id[batch[v][k].entry]] = batch[v][k]
           /\ \A v \in Worker : v # w /\ pc[v] \in {"ack", "nack", "nackdel"} =>
                processing'[id[hand[v].entry]] = hand[v]
<1> USE DEF OInv, Inv, Types
<1>1. \A x \in Item : x.entry \in Entry
  BY DEF Item
<1>2. ASSUME NEW x \in Item, id[x.entry] # None, x.entry # hand[w].entry,
             processing[id[x.entry]] = x
      PROVE  processing'[id[x.entry]] = x
  <2>1. id[x.entry] # id[hand[w].entry]
    BY <1>1, <1>2 DEF IdsDistinct
  <2>2. id[x.entry] \in Id
    BY <1>1, <1>2
  <2> QED
    BY <1>2, <2>1, <2>2
<1>3. ASSUME NEW v \in Worker, NEW k \in 1..Len(batch[v])
      PROVE  processing'[id[batch[v][k].entry]] = batch[v][k]
  <2>1. batch[v][k] \in Item /\ id[batch[v][k].entry] # None
    BY DEF Known
  <2>2. batch[v][k].entry # hand[w].entry
    BY DEF Exclusive, HandOrBatch
  <2>3. processing[id[batch[v][k].entry]] = batch[v][k]
    BY DEF Tracked
  <2> QED
    BY <1>2, <2>1, <2>2, <2>3
<1>4. ASSUME NEW v \in Worker, v # w, pc[v] \in {"ack", "nack", "nackdel"}
      PROVE  processing'[id[hand[v].entry]] = hand[v]
  <2>1. hand[v] # None
    BY <1>4
  <2>2. hand[v] \in Item /\ id[hand[v].entry] # None
    BY <2>1 DEF Known
  <2>3. hand[v].entry # hand[w].entry
    BY <1>4, <2>1 DEF Exclusive, HandOnce
  <2>4. processing[id[hand[v].entry]] = hand[v]
    BY <1>4 DEF Tracked
  <2> QED
    BY <1>2, <2>2, <2>3, <2>4
<1> QED
  BY <1>3, <1>4

LEMMA TrackedNext ==
    ASSUME DistinctIds, OInv, [Next]_vars
    PROVE  Tracked'
<1> USE DEF OInv, Inv, Types, Goto, Hold, HDel, redisVars, workerVars, historyVars
<1>0. /\ \A v \in Worker : \A k \in 1..Len(batch[v]) :
           /\ processing[id[batch[v][k].entry]] = batch[v][k]
           /\ id[batch[v][k].entry] # None
      /\ \A v \in Worker : pc[v] \in {"ack", "nack", "nackdel"} =>
           processing[id[hand[v].entry]] = hand[v] /\ hand[v] # None
  BY DEF Tracked, Known
<1> SUFFICES ASSUME NEW v \in Worker
             PROVE  /\ \A k \in 1..Len(batch'[v]) :
                         processing'[id'[batch'[v][k].entry]] = batch'[v][k]
                    /\ pc'[v] \in {"ack", "nack", "nackdel"} =>
                         processing'[id'[hand'[v].entry]] = hand'[v]
  <2>1. Inv'
    BY InvNext
  <2>2. \A w \in Worker : DOMAIN batch'[w] = 1..Len(batch'[w])
    BY <2>1
  <2> HIDE DEF OInv, Inv, Types
  <2>3. ASSUME NEW w \in Worker, NEW k \in DOMAIN batch'[w]
        PROVE  processing'[id'[batch'[w][k].entry]] = batch'[w][k]
    BY <2>2
  <2>4. ASSUME NEW w \in Worker, pc'[w] \in {"ack", "nack", "nackdel"}
        PROVE  processing'[id'[hand'[w].entry]] = hand'[w]
    BY <2>4
  <2> QED
    BY <2>3, <2>4 DEF Tracked
<1> DEFINE Goal == /\ \A k \in 1..Len(batch'[v]) :
                         processing'[id'[batch'[v][k].entry]] = batch'[v][k]
                   /\ pc'[v] \in {"ack", "nack", "nackdel"} =>
                         processing'[id'[hand'[v].entry]] = hand'[v]
<1>1. ASSUME NEW e \in Entry, NEW i \in Id, EnqueueAs(e, i)  PROVE Goal
  <2>1. \A f : id[f] # None /\ f \in Entry => id'[f] = id[f]
    BY <1>1 DEF EnqueueAs
  <2>2. ASSUME NEW k \in 1..Len(batch[v])  PROVE batch[v][k].entry \in Entry
    <3>1. batch[v][k] \in Item
      OBVIOUS
    <3> QED
      BY <3>1 DEF Item
  <2>3. hand[v] # None => hand[v].entry \in Entry /\ id[hand[v].entry] # None
    BY DEF Item, Known
  <2> QED
    BY <1>0, <1>1, <2>1, <2>2, <2>3 DEF EnqueueAs
<1>2. ASSUME NEW w \in Worker,
             StartScan(w) \/ EndScan(w) \/ EndWork(w) \/ Crash(w) \/ PutBack(w) \/ Requeue(w)
               \/ Pop(w)
      PROVE  Goal
  <2>1. id' = id /\ processing' = processing /\ batch'[v] \in {batch[v], << >>}
    BY <1>2 DEF StartScan, EndScan, EndWork, Crash, PutBack, Requeue, Pop
  <2>2. pc'[v] \in {"ack", "nack", "nackdel"} => pc[v] = pc'[v] /\ hand'[v] = hand[v]
    BY <1>2 DEF StartScan, EndScan, EndWork, Crash, PutBack, Requeue, Pop
  <2> QED
    BY <1>0, <2>1, <2>2
<1>3. ASSUME NEW w \in Worker, Store(w)  PROVE Goal
  <2>1. hand[w] \in Item /\ hand[w] # None
    BY <1>3 DEF Store
  <2>2. hand[w].entry \in Entry /\ id[hand[w].entry] \in Id
    BY <2>1 DEF Item, Known
  <2>3. processing' = [processing EXCEPT ![id[hand[w].entry]] = hand[w]]
    BY <1>3 DEF Store
  <2>4. processing'[id[hand[w].entry]] = hand[w]
    BY <2>2, <2>3
  <2>5. /\ \A k \in 1..Len(batch[v]) : processing'[id[batch[v][k].entry]] = batch[v][k]
        /\ v # w /\ pc[v] \in {"ack", "nack", "nackdel"} => processing'[id[hand[v].entry]] = hand[v]
    <3> HIDE DEF OInv, Inv, Types
    <3> QED
      BY <2>1, <2>3, OthersKept
  <2>6. \A k \in 1..Len(batch'[v]) :
          \/ k \in 1..Len(batch[v]) /\ batch'[v][k] = batch[v][k]
          \/ batch'[v][k] = hand[w]
    BY <1>3, <2>1, Appended DEF Store
  <2>7. pc'[v] \in {"ack", "nack", "nackdel"} => v # w /\ pc[v] = pc'[v] /\ hand'[v] = hand[v]
    BY <1>3 DEF Store
  <2>8. pc'[v] \in {"ack", "nack", "nackdel"} => processing'[id[hand'[v].entry]] = hand'[v]
    BY <2>5, <2>7
  <2>9. id' = id
    BY <1>3 DEF Store
  <2> QED
    BY <2>4, <2>5, <2>6, <2>8, <2>9
<1>4. ASSUME NEW w \in Worker, Deliver(w)  PROVE Goal
  <2>1. /\ batch[w] # << >> /\ UNCHANGED <<id, processing>>
        /\ hand' = [hand EXCEPT ![w] = Head(batch[w])]
        /\ batch' = [batch EXCEPT ![w] = Tail(batch[w])]
        /\ \E l : pc' = [pc EXCEPT ![w] = l]
    BY <1>4 DEF Deliver
  <2>2. 1 \in 1..Len(batch[w]) /\ Head(batch[w]) = batch[w][1]
    BY <2>1, Popped
  <2>3. \A k \in 1..Len(batch'[v]) : \E j \in 1..Len(batch[v]) : batch'[v][k] = batch[v][j]
    <3>1. CASE v = w
      <4>1. batch'[v] = Tail(batch[v])
        BY <2>1, <3>1
      <4>2. \A k \in 1..Len(batch'[v]) : k + 1 \in 1..Len(batch[v]) /\ batch'[v][k] = batch[v][k + 1]
        BY <2>1, <3>1, <4>1, Popped
      <4> QED
        BY <4>2
    <3>2. CASE v # w
      BY <2>1, <3>2
    <3> QED
      BY <3>1, <3>2
  <2>4. \/ v = w /\ hand'[v] = batch[w][1]
        \/ hand'[v] = hand[v] /\ pc'[v] = pc[v]
    BY <2>1, <2>2
  <2>5. processing[id[batch[w][1].entry]] = batch[w][1]
    BY <1>0, <2>2
  <2>6. ASSUME NEW k \in 1..Len(batch'[v])
        PROVE  processing'[id'[batch'[v][k].entry]] = batch'[v][k]
    <3>1. PICK j \in 1..Len(batch[v]) : batch'[v][k] = batch[v][j]
      BY <2>3
    <3>2. processing[id[batch[v][j].entry]] = batch[v][j]
      BY <1>0
    <3> QED
      BY <2>1, <3>1, <3>2
  <2>7. pc'[v] \in {"ack", "nack", "nackdel"} => processing'[id'[hand'[v].entry]] = hand'[v]
    BY <1>0, <2>1, <2>4, <2>5
  <2> QED
    BY <2>6, <2>7
<1>5. ASSUME NEW w \in Worker, Ack(w) \/ NackDel(w)  PROVE Goal
  <2>1. hand[w] # None /\ processing' = [processing EXCEPT ![id[hand[w].entry]] = None]
    BY <1>5 DEF Ack, NackDel
  <2>2. id' = id /\ batch' = batch
    BY <1>5 DEF Ack, NackDel
  <2>3. pc'[v] \in {"ack", "nack", "nackdel"} => v # w /\ pc[v] = pc'[v] /\ hand'[v] = hand[v]
    BY <1>5 DEF Ack, NackDel
  <2>4. /\ \A k \in 1..Len(batch[v]) : processing'[id[batch[v][k].entry]] = batch[v][k]
        /\ v # w /\ pc[v] \in {"ack", "nack", "nackdel"} => processing'[id[hand[v].entry]] = hand[v]
    <3> HIDE DEF OInv, Inv, Types
    <3> QED
      BY <2>1, OthersKept
  <2> QED
    BY <2>2, <2>3, <2>4
<1>6. ASSUME NEW w \in Worker, NackGet(w)  PROVE Goal
  <2>1. processing[id[hand[w].entry]] = hand[w] /\ hand[w] # None
    BY <1>0, <1>6 DEF NackGet
  <2>2. UNCHANGED <<id, processing, batch>> /\ hand'[v] = hand[v] /\ hand[w] # None
    BY <1>6, <2>1 DEF NackGet
  <2>3. v = w \/ pc'[v] = pc[v]
    BY <1>6 DEF NackGet
  <2>4. pc[w] = "nack"
    BY <1>6 DEF NackGet
  <2> QED
    BY <1>0, <2>1, <2>2, <2>3, <2>4
<1>7. CASE Tick
  <2>1. UNCHANGED <<id, processing, batch, pc>>
    BY <1>7 DEF Tick
  <2>2. pc[v] # "putback" => hand'[v] = hand[v]
    BY <1>7 DEF Tick
  <2> QED
    BY <1>0, <2>1, <2>2
<1>8. CASE UNCHANGED vars
  BY <1>0, <1>8 DEF vars
<1> QED
  BY <1>1, <1>2, <1>3, <1>4, <1>5, <1>6, <1>7, <1>8 DEF Next, Enqueue, Work

LEMMA OrderlyInductive ==
    ASSUME DistinctIds
    PROVE  Spec => []OInv
<1>1. Init => OInv
  <2>1. Init => Exclusive /\ IdsDistinct /\ Tracked
    BY DEF Init, Exclusive, QueueOnce, HandOnce, BatchOnce, QueueOrHand, QueueOrBatch,
           HandOrBatch, IdsDistinct, Tracked
  <2> QED
    BY <2>1, InitInv DEF OInv
<1>2. OInv /\ [Next]_vars => OInv'
  BY InvNext, ExclusiveNext, IdsNext, TrackedNext DEF OInv
<1> QED
  BY <1>1, <1>2, PTL DEF Spec

(***************************************************************************)
(* What a worker is to try, or has tried and not settled, is on record     *)
(* under its id, for as many workers as one likes: ack and nack never miss *)
(* it, unless two entries share an id.                                     *)
(***************************************************************************)
THEOREM WorkIsTracked ==
    ASSUME DistinctIds
    PROVE  Spec => []Tracked
<1>1. OInv => Tracked
  BY DEF OInv
<1> QED
  BY <1>1, OrderlyInductive, PTL

(***************************************************************************)
(* An entry is in the list once, or with one worker once, however workers  *)
(* scan, retry and die.                                                    *)
(***************************************************************************)
THEOREM NoEntryTwice ==
    ASSUME DistinctIds
    PROVE  Spec => []NoDoubleProcessing
<1>1. ASSUME OInv, NEW e \in Entry  PROVE Cardinality(Places(e)) <= 1
  <2> DEFINE inQueue == {<<"queue", k>> : k \in {j \in DOMAIN queue : queue[j].entry = e}}
             inHand == {<<"hand", w>> : w \in {v \in Worker : hand[v] # None /\ hand[v].entry = e}}
             inBatch == UNION {{<<w, k>> : k \in {j \in DOMAIN batch[w] :
                                              batch[w][j].entry = e}} : w \in Worker}
  <2>1. Places(e) = inQueue \cup inHand \cup inBatch
    BY DEF Places
  <2>2. /\ DOMAIN queue = 1..Len(queue)
        /\ \A w \in Worker : DOMAIN batch[w] = 1..Len(batch[w])
    BY <1>1 DEF OInv, Inv, Types
  <2>3. \A p \in inQueue : \E k \in 1..Len(queue) : p = <<"queue", k>> /\ queue[k].entry = e
    BY <2>2
  <2>4. \A p \in inHand : \E w \in Worker :
          p = <<"hand", w>> /\ hand[w] # None /\ hand[w].entry = e
    OBVIOUS
  <2>5. \A p \in inBatch : \E w \in Worker : \E k \in 1..Len(batch[w]) :
          p = <<w, k>> /\ batch[w][k].entry = e
    BY <2>2
  <2> HIDE DEF inQueue, inHand, inBatch
  <2> USE <1>1 DEF OInv, Exclusive
  <2>6. \A p, q \in inQueue : p = q
    BY <2>3 DEF QueueOnce
  <2>7. \A p, q \in inHand : p = q
    BY <2>4 DEF HandOnce
  <2>8. \A p, q \in inBatch : p = q
    BY <2>5 DEF BatchOnce
  <2>9. inQueue = {} \/ inHand = {}
    BY <2>3, <2>4 DEF QueueOrHand
  <2>10. inQueue = {} \/ inBatch = {}
    BY <2>3, <2>5 DEF QueueOrBatch
  <2>11. inHand = {} \/ inBatch = {}
    BY <2>4, <2>5 DEF HandOrBatch
  <2>12. \A p, q \in Places(e) : p = q
    BY <2>1, <2>6, <2>7, <2>8, <2>9, <2>10, <2>11
  <2>13. Places(e) = {} \/ \E p : Places(e) = {p}
    BY <2>12
  <2> QED
    BY <2>13, FS_EmptySet, FS_Singleton
<1>2. OInv => NoDoubleProcessing
  BY <1>1 DEF NoDoubleProcessing
<1> QED
  BY <1>2, OrderlyInductive, PTL

(* Backoff: what is true of an entry where it is, given a = attempts, s = since and
   z = settled *)

\* In the list, or on its way back to it: once due, it has waited long enough.
Waits(x, a, s, z) ==
    /\ z[x.entry] = "no"
    /\ a[x.entry] = x.retries
    /\ x.retries <= MaxRetries
    /\ \/ s[x.entry] >= MaxDelay
       \/ s[x.entry] + x.due >= Delay(x.retries)

\* Taken for a delivery.
DueNow(x, a, s, z) ==
    /\ z[x.entry] = "no"
    /\ a[x.entry] = x.retries
    /\ x.retries < MaxRetries
    /\ s[x.entry] >= Delay(x.retries)

\* After a delivery that failed and before nack counts it.
Failed(x, a, z) ==
    /\ z[x.entry] = "no"
    /\ a[x.entry] = x.retries + 1
    /\ x.retries < MaxRetries

\* Counted, and to be put into the list again.
Again(x, a, z) ==
    /\ z[x.entry] = "no"
    /\ a[x.entry] = x.retries
    /\ x.retries < MaxRetries

HistoryTypes ==
    /\ lag \in [Worker -> 0..1]
    /\ attempts \in [Entry -> Nat]
    /\ since \in [Entry -> Nat]
    /\ settled \in [Entry -> {"no", "delivered", "exhausted"}]

Fresh == \A e \in Entry : id[e] = None => attempts[e] = 0 /\ settled[e] = "no"

QueueWaits == \A k \in 1..Len(queue) : Waits(queue[k], attempts, since, settled)

BatchDue ==
    \A w \in Worker : \A k \in 1..Len(batch[w]) :
        DueNow(batch[w][k], attempts, since, settled)

HandKnows(l, x, a, s, z) ==
    /\ l = "putback" => Waits(x, a, s, z)
    /\ l = "store" => DueNow(x, a, s, z)
    /\ l \in {"nack", "nackdel"} => Failed(x, a, z)
    /\ l = "requeue" => Again(x, a, z)

HandsKnow ==
    \A w \in Worker : HandKnows(pc[w], hand[w], attempts, since, settled)

BInv == OInv /\ HistoryTypes /\ Fresh /\ QueueWaits /\ BatchDue /\ HandsKnow

\* Nothing happens to an entry but to e.
OnlyTo(e) ==
    \A f \in Entry : f # e => /\ attempts'[f] = attempts[f]
                              /\ since'[f] = since[f]
                              /\ settled'[f] = settled[f]

LEMMA KeptAway ==
    ASSUME NEW e, OnlyTo(e), NEW x \in Item, x.entry # e
    PROVE  /\ Waits(x, attempts, since, settled) => Waits(x, attempts', since', settled')
           /\ DueNow(x, attempts, since, settled) => DueNow(x, attempts', since', settled')
           /\ \A l : HandKnows(l, x, attempts, since, settled) =>
                       HandKnows(l, x, attempts', since', settled')
<1>1. x.entry \in Entry
  BY DEF Item
<1>2. /\ attempts'[x.entry] = attempts[x.entry]
      /\ since'[x.entry] = since[x.entry]
      /\ settled'[x.entry] = settled[x.entry]
  BY <1>1 DEF OnlyTo
<1> QED
  BY <1>2 DEF Waits, DueNow, HandKnows, Failed, Again

\* The list after an entry x comes back to it, the histories being the same.
LEMMA QueueGrows ==
    ASSUME BInv, NEW x \in Item, Waits(x, attempts, since, settled),
           queue' = Append(queue, x), UNCHANGED historyVars
    PROVE  QueueWaits'
<1>1. /\ Len(queue') = Len(queue) + 1
      /\ \A k \in 1..Len(queue) : queue'[k] = queue[k]
      /\ queue'[Len(queue) + 1] = x
  BY Appended DEF BInv, OInv, Inv, Types
<1>2. ASSUME NEW k \in 1..Len(queue')
      PROVE  Waits(queue'[k], attempts', since', settled')
  <2>1. Len(queue) \in Nat
    BY DEF BInv, OInv, Inv, Types
  <2>2. k \in 1..Len(queue) \/ k = Len(queue) + 1
    BY <1>1, <2>1
  <2> QED
    BY <1>1, <2>2 DEF BInv, QueueWaits, historyVars
<1> QED
  BY <1>2 DEF QueueWaits

\* A step that changes neither histories nor list, and gives no worker new work.
LEMMA NothingNew ==
    ASSUME BInv, UNCHANGED <<id, historyVars>>, queue' = queue,
           \A v \in Worker : /\ batch'[v] \in {batch[v], << >>}
                             /\ \/ pc'[v] = pc[v] /\ hand'[v] = hand[v]
                                \/ pc'[v] \in {"idle", "scan", "work", "ack"}
    PROVE  Fresh' /\ QueueWaits' /\ BatchDue' /\ HandsKnow'
<1> USE DEF historyVars
<1>1. Fresh' /\ QueueWaits'
  BY DEF BInv, Fresh, QueueWaits
<1>2. BatchDue'
  BY DEF BInv, BatchDue
<1>3. HandsKnow'
  BY DEF BInv, HandsKnow, HandKnows
<1> QED
  BY <1>1, <1>2, <1>3

\* A tick brings an entry closer to being due as fast as it makes it older.
LEMMA Ages ==
    ASSUME BInv, Tick, NEW x \in Item, id[x.entry] # None
    PROVE  /\ Waits(x, attempts, since, settled) =>
                Waits(Aged(x), attempts', since', settled')
           /\ DueNow(x, attempts, since, settled) => DueNow(x, attempts', since', settled')
           /\ \A l : l # "putback" /\ HandKnows(l, x, attempts, since, settled) =>
                       HandKnows(l, x, attempts', since', settled')
<1> DEFINE e == x.entry
<1>1. e \in Entry /\ x.due \in Int /\ x.retries \in Nat
  BY DEF Item
<1>2. /\ attempts' = attempts /\ settled' = settled
      /\ since'[e] = IF since[e] < MaxDelay THEN since[e] + 1 ELSE since[e]
  BY <1>1 DEF Tick
<1>3. since[e] \in Nat /\ MaxDelay \in Nat /\ Delay(x.retries) \in Nat
  BY <1>1, FirstDelay, Powers DEF BInv, HistoryTypes
<1>4. /\ Aged(x).entry = e /\ Aged(x).retries = x.retries
      /\ Aged(x).due = IF x.due >= 0 THEN x.due - 1 ELSE x.due
  BY DEF Aged, Item
<1>5. since'[e] >= since[e] /\ since'[e] \in Nat
  BY <1>2, <1>3
<1>6. ASSUME Waits(x, attempts, since, settled)
      PROVE  since'[e] >= MaxDelay \/ since'[e] + Aged(x).due >= Delay(x.retries)
  <2>1. since[e] >= MaxDelay \/ since[e] + x.due >= Delay(x.retries)
    BY <1>6 DEF Waits
  <2> QED
    BY <1>1, <1>2, <1>3, <1>4, <2>1
<1>7. DueNow(x, attempts, since, settled) => DueNow(x, attempts', since', settled')
  BY <1>2, <1>3, <1>5 DEF DueNow
<1>8. Waits(x, attempts, since, settled) => Waits(Aged(x), attempts', since', settled')
  BY <1>2, <1>4, <1>6 DEF Waits
<1> QED
  BY <1>2, <1>7, <1>8 DEF HandKnows, Failed, Again

LEMMA BackoffNext ==
    ASSUME BInv, [Next]_vars
    PROVE  HistoryTypes' /\ Fresh' /\ QueueWaits' /\ BatchDue' /\ HandsKnow'
<1> DEFINE Goal == HistoryTypes' /\ Fresh' /\ QueueWaits' /\ BatchDue' /\ HandsKnow'
<1> USE DEF Goto, Hold, HDel, redisVars, workerVars
<1>a. /\ \A w \in Worker : hand[w] # None => hand[w] \in Item
      /\ \A w \in Worker : pc[w] \in {"idle", "scan", "work"} <=> hand[w] = None
      /\ queue \in Seq(Item) /\ batch \in [Worker -> Seq(Item)]
      /\ \A k \in 1..Len(queue) : queue[k] \in Item
      /\ \A w \in Worker : \A k \in 1..Len(batch[w]) : batch[w][k] \in Item
  BY DEF BInv, OInv, Inv, Types
<1>b. pc \in [Worker -> {"idle", "scan", "putback", "store", "work", "ack",
                         "nack", "nackdel", "requeue"}] /\ DOMAIN hand = Worker
  BY DEF BInv, OInv, Inv, Types
<1>c. \A x \in Item : x.entry \in Entry /\ x.retries \in Nat /\ x.due \in Int
  BY DEF Item
<1>1. ASSUME NEW e \in Entry, NEW i \in Id, EnqueueAs(e, i)  PROVE Goal
  <2> DEFINE x == [entry |-> e, retries |-> 0, due |-> BaseDelay]
  <2>1. x \in Item /\ x.entry = e /\ x.retries = 0 /\ x.due = BaseDelay
    BY DEF Item
  <2>2. queue' = Append(queue, x) /\ UNCHANGED historyVars
    BY <1>1 DEF EnqueueAs
  <2> HIDE DEF x
  <2>3. id[e] = None /\ since[e] \in Nat
    BY <1>1 DEF EnqueueAs, BInv, HistoryTypes
  <2>4. since[e] + BaseDelay >= Delay(0)
    BY <2>3, FirstDelay
  <2>5. Waits(x, attempts, since, settled)
    BY <2>1, <2>3, <2>4 DEF Waits, BInv, Fresh
  <2>6. QueueWaits'
    BY <2>1, <2>2, <2>5, QueueGrows
  <2>7. \A f \in Entry : id'[f] = None => id[f] = None
    BY <1>1 DEF EnqueueAs, BInv, OInv, Inv, Types
  <2>8. Fresh' /\ HistoryTypes'
    BY <1>1, <2>2, <2>7 DEF EnqueueAs, BInv, Fresh, HistoryTypes, historyVars
  <2>9. BatchDue' /\ HandsKnow'
    BY <1>1, <2>2 DEF EnqueueAs, BInv, BatchDue, HandsKnow, historyVars
  <2> QED
    BY <2>6, <2>8, <2>9
<1>2. ASSUME NEW w \in Worker,
             \/ StartScan(w) \/ EndScan(w) \/ EndWork(w) \/ Crash(w) \/ Ack(w)
      PROVE  Goal
  <2>1. /\ UNCHANGED <<id, historyVars>> /\ queue' = queue
        /\ \A v \in Worker : /\ batch'[v] \in {batch[v], << >>}
                             /\ \/ pc'[v] = pc[v] /\ hand'[v] = hand[v]
                                \/ pc'[v] \in {"idle", "scan", "work", "ack"}
    BY <1>2, <1>a, <1>b DEF StartScan, EndScan, EndWork, Crash, Ack
  <2>2. HistoryTypes'
    BY <1>2 DEF StartScan, EndScan, EndWork, Crash, Ack, BInv, HistoryTypes, historyVars
  <2> QED
    BY <2>1, <2>2, NothingNew
<1>3. ASSUME NEW w \in Worker, Pop(w)  PROVE Goal
  <2> DEFINE x == Head(queue)
  <2>1. /\ queue # << >> /\ queue' = Tail(queue)
        /\ UNCHANGED <<id, lag, batch, attempts, since>> /\ pc[w] = "scan"
    BY <1>3 DEF Pop, ScanGoesOn, AfterPop
  <2>2. /\ x \in Item /\ x = queue[1] /\ Len(queue) \in Nat \ {0}
        /\ Len(queue') = Len(queue) - 1
        /\ \A k \in 1..(Len(queue) - 1) : queue'[k] = queue[k + 1]
    BY <1>a, <2>1, Popped
  <2>3. Waits(x, attempts, since, settled)
    BY <2>2 DEF BInv, QueueWaits
  <2>4. \/ /\ settled' = [settled EXCEPT ![x.entry] = "exhausted"]
           /\ UNCHANGED <<pc, hand>>
        \/ /\ settled' = settled
           /\ hand' = [hand EXCEPT ![w] = x]
           /\ \/ pc' = [pc EXCEPT ![w] = "putback"]
              \/ /\ pc' = [pc EXCEPT ![w] = "store"]
                 /\ x.due + lag[w] <= 0 /\ ~Exhausted(x)
    BY <1>3 DEF Pop
  <2> HIDE DEF x
  <2>5. \A k \in 1..Len(queue') : k + 1 \in 1..Len(queue) /\ queue'[k] = queue[k + 1]
    BY <2>2
  <2>8. 1 \in 1..Len(queue)
    BY <2>2
  <2>6. CASE settled' = [settled EXCEPT ![x.entry] = "exhausted"] /\ UNCHANGED <<pc, hand>>
    <3>1. OnlyTo(x.entry)
      BY <1>c, <2>1, <2>2, <2>6 DEF OnlyTo, BInv, HistoryTypes
    <3>2. QueueWaits'
      <4> SUFFICES ASSUME NEW k \in 1..Len(queue')
                   PROVE  Waits(queue'[k], attempts', since', settled')
        BY DEF QueueWaits
      <4>1. k + 1 # 1 /\ 1 \in 1..Len(queue)
        BY <2>2
      <4>2. queue[k + 1] \in Item /\ queue[k + 1].entry # x.entry
        BY <1>a, <2>2, <2>5, <4>1 DEF BInv, OInv, Exclusive, QueueOnce
      <4>3. Waits(queue[k + 1], attempts, since, settled)
        BY <2>5 DEF BInv, QueueWaits
      <4> QED
        BY <2>5, <3>1, <4>2, <4>3, KeptAway
    <3>3. BatchDue'
      <4> SUFFICES ASSUME NEW v \in Worker, NEW k \in 1..Len(batch[v])
                   PROVE  DueNow(batch[v][k], attempts', since', settled')
        BY <2>1 DEF BatchDue
      <4>1. batch[v][k] \in Item /\ batch[v][k].entry # x.entry
        BY <1>a, <2>2, <2>8 DEF BInv, OInv, Exclusive, QueueOrBatch
      <4> QED
        BY <3>1, <4>1, KeptAway DEF BInv, BatchDue
    <3>4. HandsKnow'
      <4> SUFFICES ASSUME NEW v \in Worker
                   PROVE  HandKnows(pc[v], hand[v], attempts', since', settled')
        BY <2>6 DEF HandsKnow
      <4>1. CASE hand[v] = None
        BY <1>a, <4>1 DEF HandKnows
      <4>2. CASE hand[v] # None
        <5>1. hand[v] \in Item /\ hand[v].entry # x.entry
          BY <1>a, <2>2, <2>8, <4>2 DEF BInv, OInv, Exclusive, QueueOrHand
        <5> QED
          BY <3>1, <5>1, KeptAway DEF BInv, HandsKnow
      <4> QED
        BY <4>1, <4>2
    <3>5. id[x.entry] # None
      BY <2>2 DEF BInv, OInv, Inv, Known
    <3>6. HistoryTypes' /\ Fresh'
      BY <1>c, <2>1, <2>2, <2>6, <3>5 DEF BInv, HistoryTypes, Fresh
    <3> QED
      BY <3>2, <3>3, <3>4, <3>6
  <2>7. CASE /\ settled' = settled /\ hand' = [hand EXCEPT ![w] = x]
             /\ \/ pc' = [pc EXCEPT ![w] = "putback"]
                \/ /\ pc' = [pc EXCEPT ![w] = "store"]
                   /\ x.due + lag[w] <= 0 /\ ~Exhausted(x)
    <3>1. HistoryTypes' /\ Fresh' /\ BatchDue'
      BY <2>1, <2>7 DEF BInv, HistoryTypes, Fresh, BatchDue
    <3>2. QueueWaits'
      BY <2>1, <2>5, <2>7 DEF BInv, QueueWaits
    <3>3. pc'[w] = "store" => DueNow(x, attempts, since, settled)
      <4> SUFFICES ASSUME pc'[w] = "store"  PROVE DueNow(x, attempts, since, settled)
        OBVIOUS
      <4>1. x.due + lag[w] <= 0 /\ ~Exhausted(x)
        BY <1>b, <2>7
      <4>2. lag[w] \in Nat /\ x.due \in Int /\ x.retries \in Nat
        BY <1>c, <2>2 DEF BInv, HistoryTypes
      <4>3. x.retries < MaxRetries
        BY <4>1, <4>2, QueueConstants DEF Exhausted
      <4>4. /\ MaxDelay >= Delay(x.retries) /\ Delay(x.retries) \in Nat /\ MaxDelay \in Nat
            /\ since[x.entry] \in Nat
        BY <1>c, <2>2, <4>2, <4>3, Powers, QueueConstants DEF MaxDelay, BInv, HistoryTypes
      <4>5. since[x.entry] >= Delay(x.retries)
        BY <2>3, <4>1, <4>2, <4>4 DEF Waits
      <4> QED
        BY <2>3, <4>3, <4>5 DEF Waits, DueNow
    <3>4. ASSUME NEW v \in Worker
          PROVE  HandKnows(pc'[v], hand'[v], attempts', since', settled')
      <4>1. CASE v = w
        <5>1. hand'[v] = x /\ pc'[v] \in {"putback", "store"}
          BY <1>b, <2>7, <4>1
        <5> QED
          BY <2>1, <2>3, <2>7, <3>3, <4>1, <5>1 DEF HandKnows
      <4>2. CASE v # w
        <5>1. hand'[v] = hand[v] /\ pc'[v] = pc[v]
          BY <1>b, <2>7, <4>2
        <5> QED
          BY <2>1, <2>7, <5>1 DEF BInv, HandsKnow
      <4> QED
        BY <4>1, <4>2
    <3>5. HandsKnow'
      BY <3>4 DEF HandsKnow
    <3> QED
      BY <3>1, <3>2, <3>5
  <2> QED
    BY <2>4, <2>6, <2>7
<1>4. ASSUME NEW w \in Worker, PutBack(w) \/ Requeue(w)  PROVE Goal
  <2> DEFINE x == IF PutBack(w) THEN hand[w] ELSE Backoff(hand[w])
  <2>1. hand[w] \in Item /\ id[hand[w].entry] # None
    BY <1>4, <1>a DEF PutBack, Requeue, BInv, OInv, Inv, Known
  <2>2. /\ queue' = Append(queue, x) /\ UNCHANGED <<id, lag, batch, historyVars>>
        /\ hand' = [hand EXCEPT ![w] = None]
        /\ \/ pc' = [pc EXCEPT ![w] = "scan"]
           \/ pc' = [pc EXCEPT ![w] = "work"]
    BY <1>4 DEF PutBack, Requeue
  <2>3. x \in Item /\ Waits(x, attempts, since, settled)
    <3>1. CASE PutBack(w)
      <4>1. pc[w] = "putback"
        BY <3>1 DEF PutBack
      <4> QED
        BY <2>1, <3>1, <4>1 DEF BInv, HandsKnow, HandKnows
    <3>2. CASE ~PutBack(w)
      <4>1. pc[w] = "requeue"
        BY <1>4, <3>2 DEF Requeue
      <4>2. Again(hand[w], attempts, settled)
        BY <4>1 DEF BInv, HandsKnow, HandKnows
      <4>3. hand[w].entry \in Entry /\ hand[w].retries \in Nat
        BY <1>c, <2>1
      <4>4. since[hand[w].entry] \in Nat /\ Delay(hand[w].retries) \in Nat
        BY <4>3, Powers DEF BInv, HistoryTypes
      <4>5. x = Backoff(hand[w])
        BY <3>2
      <4>6. /\ x.entry = hand[w].entry /\ x.retries = hand[w].retries
            /\ x.due = Delay(hand[w].retries) /\ x \in Item
        BY <2>1, <4>4, <4>5 DEF Backoff, Item
      <4>7. hand[w].retries <= MaxRetries
        BY <4>2, <4>3, QueueConstants DEF Again
      <4>8. since[hand[w].entry] + Delay(hand[w].retries) >= Delay(hand[w].retries)
        BY <4>4
      <4> HIDE DEF x
      <4> QED
        BY <4>2, <4>6, <4>7, <4>8 DEF Again, Waits
    <3> QED
      BY <3>1, <3>2
  <2> HIDE DEF x
  <2>4. QueueWaits'
    BY <2>2, <2>3, QueueGrows
  <2>5. HistoryTypes' /\ Fresh' /\ BatchDue'
    BY <2>2 DEF BInv, HistoryTypes, Fresh, BatchDue, historyVars
  <2>6. ASSUME NEW v \in Worker
        PROVE  \/ pc'[v] = pc[v] /\ hand'[v] = hand[v]
               \/ pc'[v] \in {"scan", "work"}
    BY <1>b, <2>2
  <2>7. HandsKnow'
    BY <2>2, <2>6 DEF BInv, HandsKnow, HandKnows, historyVars
  <2> QED
    BY <2>4, <2>5, <2>7
<1>5. ASSUME NEW w \in Worker, Store(w)  PROVE Goal
  <2>1. hand[w] \in Item
    BY <1>5, <1>a DEF Store
  <2>2. /\ batch' = [batch EXCEPT ![w] = Append(@, hand[w])]
        /\ hand' = [hand EXCEPT ![w] = None]
        /\ pc' = [pc EXCEPT ![w] = "scan"] /\ pc[w] = "store"
        /\ UNCHANGED <<id, lag, queue, historyVars>>
    BY <1>5 DEF Store
  <2>3. DueNow(hand[w], attempts, since, settled)
    BY <2>2 DEF BInv, HandsKnow, HandKnows
  <2>4. ASSUME NEW v \in Worker, NEW k \in 1..Len(batch'[v])
        PROVE  DueNow(batch'[v][k], attempts', since', settled')
    <3>1. \/ k \in 1..Len(batch[v]) /\ batch'[v][k] = batch[v][k]
          \/ batch'[v][k] = hand[w]
      <4>1. CASE v = w
        <5>1. batch'[v] = Append(batch[v], hand[w]) /\ Len(batch[v]) \in Nat
          BY <1>a, <2>2, <4>1
        <5>2. k \in 1..Len(batch[v]) \/ k = Len(batch[v]) + 1
          BY <1>a, <2>1, <5>1, Appended
        <5> QED
          BY <1>a, <2>1, <5>1, <5>2, Appended
      <4>2. CASE v # w
        BY <1>a, <2>2, <4>2
      <4> QED
        BY <4>1, <4>2
    <3> QED
      BY <2>2, <2>3, <3>1 DEF BInv, BatchDue, historyVars
  <2>5. HistoryTypes' /\ Fresh' /\ QueueWaits' /\ BatchDue'
    BY <2>2, <2>4 DEF BInv, HistoryTypes, Fresh, QueueWaits, BatchDue, historyVars
  <2>6. ASSUME NEW v \in Worker
        PROVE  (pc'[v] = pc[v] /\ hand'[v] = hand[v]) \/ pc'[v] = "scan"
    BY <1>b, <2>2
  <2>7. HandsKnow'
    BY <2>2, <2>6 DEF BInv, HandsKnow, HandKnows, historyVars
  <2> QED
    BY <2>5, <2>7
<1>6. ASSUME NEW w \in Worker, Deliver(w)  PROVE Goal
  <2> DEFINE x == Head(batch[w])
  <2>1. /\ batch[w] # << >> /\ UNCHANGED <<id, lag, queue>>
        /\ hand' = [hand EXCEPT ![w] = x]
        /\ batch' = [batch EXCEPT ![w] = Tail(@)]
        /\ attempts' = [attempts EXCEPT ![x.entry] = IF @ <= MaxRetries THEN @ + 1 ELSE @]
        /\ \/ /\ pc' = [pc EXCEPT ![w] = "ack"]
              /\ settled' = [settled EXCEPT ![x.entry] = "delivered"]
              /\ since' = since
           \/ /\ pc' = [pc EXCEPT ![w] = "nack"]
              /\ since' = [since EXCEPT ![x.entry] = 0]
              /\ settled' = settled
    BY <1>6 DEF Deliver
  <2>2. /\ x \in Item /\ x = batch[w][1] /\ Len(batch[w]) \in Nat \ {0}
        /\ Len(Tail(batch[w])) = Len(batch[w]) - 1
        /\ \A k \in 1..(Len(batch[w]) - 1) : Tail(batch[w])[k] = batch[w][k + 1]
    BY <1>a, <2>1, Popped
  <2>3. 1 \in 1..Len(batch[w]) /\ DueNow(x, attempts, since, settled)
    BY <2>2 DEF BInv, BatchDue
  <2>4. x.entry \in Entry /\ id[x.entry] # None
    BY <1>c, <2>2, <2>3 DEF BInv, OInv, Inv, Known
  <2> HIDE DEF x
  <2>5. OnlyTo(x.entry)
    BY <2>1 DEF OnlyTo, BInv, HistoryTypes
  <2>6. HistoryTypes' /\ Fresh'
    <3>1. HistoryTypes'
      <4>1. attempts' \in [Entry -> Nat]
        BY <2>1, <2>4, QueueConstants DEF BInv, HistoryTypes
      <4>2. since' \in [Entry -> Nat]
        BY <2>1, <2>4 DEF BInv, HistoryTypes
      <4>3. settled' \in [Entry -> {"no", "delivered", "exhausted"}]
        BY <2>1, <2>4 DEF BInv, HistoryTypes
      <4> QED
        BY <2>1, <4>1, <4>2, <4>3 DEF BInv, HistoryTypes
    <3>2. Fresh'
      BY <2>1, <2>4, <2>5 DEF BInv, Fresh, OnlyTo
    <3> QED
      BY <3>1, <3>2
  <2>7. QueueWaits'
    <3> SUFFICES ASSUME NEW k \in 1..Len(queue)
                 PROVE  Waits(queue[k], attempts', since', settled')
      BY <2>1 DEF QueueWaits
    <3>1. queue[k] \in Item /\ queue[k].entry # x.entry
      BY <1>a, <2>2, <2>3 DEF BInv, OInv, Exclusive, QueueOrBatch
    <3> QED
      BY <2>5, <3>1, KeptAway DEF BInv, QueueWaits
  <2>8. BatchDue'
    <3> SUFFICES ASSUME NEW v \in Worker, NEW k \in 1..Len(batch'[v])
                 PROVE  DueNow(batch'[v][k], attempts', since', settled')
      BY DEF BatchDue
    <3>1. PICK j \in 1..Len(batch[v]) : batch'[v][k] = batch[v][j] /\ (v # w \/ j # 1)
      <4>1. CASE v = w
        <5>1. batch'[v] = Tail(batch[w])
          BY <1>a, <2>1, <4>1
        <5>2. k + 1 \in 1..Len(batch[w]) /\ k + 1 # 1
          BY <2>2, <5>1
        <5>3. batch'[v][k] = batch[w][k + 1]
          BY <2>2, <5>1
        <5> QED
          BY <4>1, <5>2, <5>3
      <4>2. CASE v # w
        BY <1>a, <2>1, <4>2
      <4> QED
        BY <4>1, <4>2
    <3>2. batch[v][j] \in Item /\ batch[v][j].entry # x.entry
      <4>1. BatchOnce
        BY DEF BInv, OInv, Exclusive
      <4>2. batch[v][j].entry = batch[w][1].entry => v = w /\ j = 1
        BY <2>3, <4>1 DEF BatchOnce
      <4> QED
        BY <1>a, <2>2, <3>1, <4>2
    <3>3. DueNow(batch[v][j], attempts, since, settled)
      BY DEF BInv, BatchDue
    <3> QED
      BY <2>5, <3>1, <3>2, <3>3, KeptAway
  <2>9. ASSUME NEW v \in Worker
        PROVE  HandKnows(pc'[v], hand'[v], attempts', since', settled')
    <3>1. CASE v = w
      <4>1. hand'[v] = x /\ pc'[v] \in {"ack", "nack"}
        BY <1>b, <2>1, <3>1
      <4>2. CASE pc'[v] = "ack"
        BY <4>2 DEF HandKnows
      <4>3. CASE pc'[v] = "nack"
        <5>1. settled' = settled
          BY <1>b, <2>1, <3>1, <4>3
        <5>2. attempts[x.entry] = x.retries /\ x.retries < MaxRetries /\ x.retries \in Nat
          BY <1>c, <2>2, <2>3 DEF DueNow
        <5>3. attempts'[x.entry] = x.retries + 1
          BY <2>1, <2>4, <5>2, QueueConstants DEF BInv, HistoryTypes
        <5>4. Failed(x, attempts', settled')
          BY <2>3, <5>1, <5>2, <5>3 DEF DueNow, Failed
        <5> QED
          BY <4>1, <4>3, <5>4 DEF HandKnows
      <4> QED
        BY <4>1, <4>2, <4>3
    <3>2. CASE v # w
      <4>1. hand'[v] = hand[v] /\ pc'[v] = pc[v]
        BY <1>b, <2>1, <3>2
      <4>2. CASE hand[v] = None
        BY <1>a, <4>1, <4>2 DEF HandKnows
      <4>3. CASE hand[v] # None
        <5>1. hand[v] \in Item /\ hand[v].entry # x.entry
          BY <1>a, <2>2, <2>3, <4>3 DEF BInv, OInv, Exclusive, HandOrBatch
        <5> QED
          BY <2>5, <4>1, <5>1, KeptAway DEF BInv, HandsKnow
      <4> QED
        BY <4>2, <4>3
    <3> QED
      BY <3>1, <3>2
  <2>10. HandsKnow'
    BY <2>9 DEF HandsKnow
  <2> QED
    BY <2>6, <2>7, <2>8, <2>10

<1>7. ASSUME NEW w \in Worker, NackGet(w)  PROVE Goal
  <2>1. processing[id[hand[w].entry]] = hand[w] /\ hand[w] # None
    BY <1>7, <1>a DEF NackGet, BInv, OInv, Tracked
  <2>2. /\ pc[w] = "nack" /\ pc' = [pc EXCEPT ![w] = "nackdel"]
        /\ UNCHANGED <<id, lag, queue, batch, historyVars>>
        /\ hand' = [hand EXCEPT ![w] = hand[w]]
    BY <1>7, <2>1 DEF NackGet
  <2>3. HistoryTypes' /\ Fresh' /\ QueueWaits' /\ BatchDue'
    BY <2>2 DEF BInv, HistoryTypes, Fresh, QueueWaits, BatchDue, historyVars
  <2>4. ASSUME NEW v \in Worker
        PROVE  /\ hand'[v] = hand[v]
               /\ \/ pc'[v] = pc[v]
                  \/ pc[v] = "nack" /\ pc'[v] = "nackdel"
    <3>1. hand'[v] = hand[v]
      BY <1>b, <2>2
    <3>2. v = w => pc[v] = "nack" /\ pc'[v] = "nackdel"
      BY <1>b, <2>2
    <3>3. v # w => pc'[v] = pc[v]
      BY <1>b, <2>2
    <3> QED
      BY <3>1, <3>2, <3>3
  <2>5. HandsKnow'
    BY <2>2, <2>4 DEF BInv, HandsKnow, HandKnows, historyVars
  <2> QED
    BY <2>3, <2>5
<1>8. ASSUME NEW w \in Worker, NackDel(w)  PROVE Goal
  <2> DEFINE x == Retried(hand[w])
  <2>1. pc[w] = "nackdel" /\ hand[w] \in Item /\ Failed(hand[w], attempts, settled)
    BY <1>8, <1>a DEF NackDel, BInv, HandsKnow, HandKnows
  <2>2. x \in Item /\ x.entry = hand[w].entry /\ x.retries = hand[w].retries + 1
    BY <2>1 DEF Retried, Item
  <2>3. /\ UNCHANGED <<id, queue, lag, batch, attempts, since>>
        /\ \/ /\ settled' = [settled EXCEPT ![x.entry] = "exhausted"]
              /\ pc' = [pc EXCEPT ![w] = "work"]
              /\ hand' = [hand EXCEPT ![w] = None]
           \/ /\ settled' = settled /\ ~Exhausted(x)
              /\ pc' = [pc EXCEPT ![w] = "requeue"]
              /\ hand' = [hand EXCEPT ![w] = x]
    BY <1>8 DEF NackDel
  <2> HIDE DEF x
  <2>4. id[x.entry] # None /\ x.entry \in Entry /\ hand[w] # None
    BY <1>a, <1>c, <2>1, <2>2 DEF BInv, OInv, Inv, Known
  <2>5. OnlyTo(x.entry)
    BY <2>3 DEF OnlyTo, BInv, HistoryTypes
  <2>6. HistoryTypes' /\ Fresh'
    <3>1. HistoryTypes'
      BY <2>3, <2>4 DEF BInv, HistoryTypes
    <3>2. Fresh'
      BY <2>3, <2>4, <2>5 DEF BInv, Fresh, OnlyTo
    <3> QED
      BY <3>1, <3>2
  <2>7. QueueWaits'
    <3> SUFFICES ASSUME NEW k \in 1..Len(queue)
                 PROVE  Waits(queue[k], attempts', since', settled')
      BY <2>3 DEF QueueWaits
    <3>1. queue[k] \in Item /\ queue[k].entry # x.entry
      BY <1>a, <2>2, <2>4 DEF BInv, OInv, Exclusive, QueueOrHand
    <3> QED
      BY <2>5, <3>1, KeptAway DEF BInv, QueueWaits
  <2>8. BatchDue'
    <3> SUFFICES ASSUME NEW v \in Worker, NEW k \in 1..Len(batch[v])
                 PROVE  DueNow(batch[v][k], attempts', since', settled')
      BY <2>3 DEF BatchDue
    <3>1. batch[v][k] \in Item /\ batch[v][k].entry # x.entry
      BY <1>a, <2>2, <2>4 DEF BInv, OInv, Exclusive, HandOrBatch
    <3> QED
      BY <2>5, <3>1, KeptAway DEF BInv, BatchDue
  <2>9. ASSUME NEW v \in Worker
        PROVE  HandKnows(pc'[v], hand'[v], attempts', since', settled')
    <3>1. CASE v = w
      <4>1. CASE pc'[v] = "work"
        BY <4>1 DEF HandKnows
      <4>2. CASE pc'[v] # "work"
        <5>1. /\ settled' = settled /\ ~Exhausted(x)
              /\ pc'[v] = "requeue" /\ hand'[v] = x
          BY <1>b, <2>3, <3>1, <4>2
        <5>2. x.retries < MaxRetries
          BY <1>c, <2>2, <5>1, QueueConstants DEF Exhausted
        <5> QED
          BY <2>1, <2>2, <2>3, <5>1, <5>2 DEF HandKnows, Failed, Again
      <4> QED
        BY <4>1, <4>2
    <3>2. CASE v # w
      <4>1. hand'[v] = hand[v] /\ pc'[v] = pc[v]
        BY <1>b, <2>3, <3>2
      <4>2. CASE hand[v] = None
        BY <1>a, <4>1, <4>2 DEF HandKnows
      <4>3. CASE hand[v] # None
        <5>1. hand[v] \in Item /\ hand[v].entry # x.entry
          BY <1>a, <2>2, <2>4, <3>2, <4>3 DEF BInv, OInv, Exclusive, HandOnce
        <5> QED
          BY <2>5, <4>1, <5>1, KeptAway DEF BInv, HandsKnow
      <4> QED
        BY <4>2, <4>3
    <3> QED
      BY <3>1, <3>2
  <2>10. HandsKnow'
    BY <2>9 DEF HandsKnow
  <2> QED
    BY <2>6, <2>7, <2>8, <2>10
<1>9. CASE Tick
  <2>1. /\ queue' = [k \in DOMAIN queue |-> Aged(queue[k])]
        /\ hand' = [w \in Worker |-> IF pc[w] = "putback" THEN Aged(hand[w]) ELSE hand[w]]
        /\ UNCHANGED <<id, pc, batch, attempts, settled>>
        /\ lag' = [w \in Worker |-> IF Scanning(w) THEN 1 ELSE lag[w]]
        /\ since' = [e \in Entry |-> IF id[e] # None /\ since[e] < MaxDelay
                                       THEN since[e] + 1 ELSE since[e]]
    BY <1>9 DEF Tick
  <2>2. HistoryTypes' /\ Fresh'
    BY <2>1 DEF BInv, HistoryTypes, Fresh
  <2>3. ASSUME NEW k \in 1..Len(queue')
        PROVE  Waits(queue'[k], attempts', since', settled')
    <3>1. k \in 1..Len(queue) /\ queue'[k] = Aged(queue[k])
      BY <1>a, <2>1
    <3>2. queue[k] \in Item /\ id[queue[k].entry] # None /\ Waits(queue[k], attempts, since, settled)
      BY <1>a, <3>1 DEF BInv, OInv, Inv, Known, QueueWaits
    <3> QED
      BY <1>9, <3>1, <3>2, Ages
  <2>4. ASSUME NEW v \in Worker, NEW k \in 1..Len(batch[v])
        PROVE  DueNow(batch[v][k], attempts', since', settled')
    <3>1. batch[v][k] \in Item /\ id[batch[v][k].entry] # None
      BY <1>a DEF BInv, OInv, Inv, Known
    <3>2. DueNow(batch[v][k], attempts, since, settled)
      BY DEF BInv, BatchDue
    <3> QED
      BY <1>9, <3>1, <3>2, Ages
  <2>5. ASSUME NEW v \in Worker
        PROVE  HandKnows(pc[v], hand'[v], attempts', since', settled')
    <3>1. CASE hand[v] = None
      BY <1>a, <3>1 DEF HandKnows
    <3>2. CASE hand[v] # None
      <4>1. hand[v] \in Item /\ id[hand[v].entry] # None
        BY <1>a, <3>2 DEF BInv, OInv, Inv, Known
      <4>2. HandKnows(pc[v], hand[v], attempts, since, settled)
        BY DEF BInv, HandsKnow
      <4>3. CASE pc[v] = "putback"
        <5>1. hand'[v] = Aged(hand[v])
          BY <2>1, <4>3
        <5>2. Waits(hand[v], attempts, since, settled)
          BY <4>2, <4>3 DEF HandKnows
        <5>3. Waits(hand'[v], attempts', since', settled')
          BY <1>9, <4>1, <5>1, <5>2, Ages
        <5> QED
          BY <4>3, <5>3 DEF HandKnows
      <4>4. CASE pc[v] # "putback"
        <5>1. hand'[v] = hand[v]
          BY <2>1, <4>4
        <5> QED
          BY <1>9, <4>1, <4>2, <4>4, <5>1, Ages
      <4> QED
        BY <4>3, <4>4
    <3> QED
      BY <3>1, <3>2
  <2> QED
    BY <2>1, <2>2, <2>3, <2>4, <2>5 DEF QueueWaits, BatchDue, HandsKnow
<1>10. CASE UNCHANGED vars
  BY <1>10 DEF vars, BInv, HistoryTypes, Fresh, QueueWaits, BatchDue, HandsKnow, historyVars
<1> QED
  BY <1>1, <1>2, <1>3, <1>4, <1>5, <1>6, <1>7, <1>8, <1>9, <1>10 DEF Next, Enqueue, Work

LEMMA BackoffInductive ==
    ASSUME DistinctIds
    PROVE  Spec => []BInv
<1>1. Init => HistoryTypes /\ Fresh /\ QueueWaits /\ BatchDue /\ HandsKnow
  BY DEF Init, HistoryTypes, Fresh, QueueWaits, BatchDue, HandsKnow, HandKnows
<1>2. OInv /\ OInv' /\ BInv /\ [Next]_vars => BInv'
  BY BackoffNext DEF BInv
<1>3. Init /\ OInv => BInv
  BY <1>1 DEF BInv
<1> QED
  BY <1>2, <1>3, OrderlyInductive, PTL DEF Spec

(***************************************************************************)
(* Every retry of every entry waits out its delay, which doubles with each *)
(* failure; there are no more than MaxRetries of them, and none after the  *)
(* delivery went through or was given up: whatever number of workers scan, *)
(* fail and die, unless two entries share an id.                           *)
(***************************************************************************)
THEOREM RetriesBackOff ==
    ASSUME DistinctIds
    PROVE  Spec => ExponentialBackoff
<1> DEFINE Patient == \A e \in Entry : attempts'[e] # attempts[e] =>
                        /\ since[e] >= Delay(attempts[e])
                        /\ attempts'[e] <= MaxRetries
                        /\ settled[e] = "no"
<1>1. ASSUME BInv, [Next]_vars, NEW e \in Entry, attempts'[e] # attempts[e]
      PROVE  /\ since[e] >= Delay(attempts[e])
             /\ attempts'[e] <= MaxRetries
             /\ settled[e] = "no"
  <2>1. PICK w \in Worker : Deliver(w)
    BY <1>1 DEF Next, Work, Enqueue, EnqueueAs, StartScan, Pop, PutBack, Store, EndScan,
                EndWork, Ack, NackGet, NackDel, Requeue, Crash, Tick, vars, historyVars
  <2> DEFINE x == Head(batch[w])
  <2>2. /\ batch[w] # << >>
        /\ attempts' = [attempts EXCEPT ![x.entry] = IF @ <= MaxRetries THEN @ + 1 ELSE @]
    BY <2>1 DEF Deliver
  <2>3. batch[w] \in Seq(Item)
    BY <1>1 DEF BInv, OInv, Inv, Types
  <2>4. x \in Item /\ x = batch[w][1] /\ 1 \in 1..Len(batch[w])
    BY <2>2, <2>3, Popped
  <2> HIDE DEF x
  <2>5. DueNow(x, attempts, since, settled) /\ x.retries \in Nat
    BY <1>1, <2>4 DEF BInv, BatchDue, Item
  <2>6. e = x.entry
    BY <1>1, <2>2 DEF BInv, HistoryTypes
  <2>7. attempts[e] = x.retries /\ x.retries < MaxRetries
    BY <2>5, <2>6 DEF DueNow
  <2>8. attempts'[e] = x.retries + 1
    BY <1>1, <2>2, <2>5, <2>6, <2>7, QueueConstants DEF BInv, HistoryTypes
  <2> QED
    BY <2>5, <2>6, <2>7, <2>8, QueueConstants DEF DueNow
<1>2. BInv /\ [Next]_vars => [Patient]_vars
  BY <1>1
<1> QED
  BY <1>2, BackoffInductive, PTL DEF Spec, ExponentialBackoff

=============================================================================
