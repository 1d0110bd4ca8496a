---------------------------- MODULE LedgersProofs ----------------------------
(***************************************************************************)
(* Machine-checked proofs about the services that keep records, in the     *)
(* context of Ledgers and for every value of the constants.  Each has an   *)
(* inductive invariant over its own variables; a step of Ledgers is a step *)
(* of one service or leaves its variables alone.                           *)
(***************************************************************************)
EXTENDS Ledgers, Sums, FiniteSetTheorems, SequenceTheorems, WellFoundedInduction, TLAPS

LEMMA LedgerTypes == SignalsPerDay \in Nat
  BY LedgerConstants

(***************************************************************************)
(* Sums                                                                    *)
(* Numbers are well founded, so a set of them that holds 0 and with every  *)
(* number the next one holds them all: the laws of Total, whose recursive  *)
(* function exists because the partial sums do.                            *)
(***************************************************************************)

LEMMA LeastNumber ==
    ASSUME NEW S \in SUBSET Nat, S # {}
    PROVE  \E x \in S : \A n \in S : x <= n
<1> DEFINE Less == {ss \in Nat \X Nat : ss[1] < ss[2]}
<1>1. IsWellFoundedOn(Less, Nat)
  BY NatLessThanWellFounded DEF OpToRel
<1>2. \A x, y \in Nat : y < x => <<y, x>> \in Less
  OBVIOUS
<1> HIDE DEF Less
<1>3. PICK x \in S : \A y \in S : ~(<<y, x>> \in Less)
  BY <1>1, WFMin
<1>4. ASSUME NEW y \in S  PROVE x <= y
  <2>1. x \in Nat /\ y \in Nat /\ ~(y < x)
    BY <1>2, <1>3
  <2> QED
    BY <2>1
<1> QED
  BY <1>4

\* One by one.
LEMMA ByInduction ==
    ASSUME NEW S \in SUBSET Nat, 0 \in S, \A n \in S : n + 1 \in S
    PROVE  S = Nat
<1> SUFFICES ASSUME Nat \ S # {}  PROVE FALSE
  OBVIOUS
<1>1. PICK x \in Nat \ S : \A n \in Nat \ S : x <= n
  BY LeastNumber
<1>2. x # 0 /\ x - 1 \in Nat /\ ~(x <= x - 1)
  OBVIOUS
<1>3. x - 1 \in S
  BY <1>1, <1>2
<1> QED
  BY <1>2, <1>3

(***************************************************************************)
(* Sums                                                                    *)
(***************************************************************************)

\* The beginning of the sums of f.
Partial(f, g, n) == g[0] = 0 /\ \A k \in 1..n : g[k] = g[k - 1] + f[k]

LEMMA PartialExists ==
    ASSUME NEW f
    PROVE  \A n \in Nat : \E g : Partial(f, g, n)
<1> DEFINE S == {n \in Nat : \E g : Partial(f, g, n)}
<1>1. 0 \in S
  <2> DEFINE g == [k \in {0} |-> 0]
  <2>1. Partial(f, g, 0)
    BY DEF Partial
  <2> QED
    BY <2>1
<1>2. ASSUME NEW n \in S  PROVE n + 1 \in S
  <2>1. PICK g : Partial(f, g, n)
    OBVIOUS
  <2> DEFINE h == [k \in 0..(n + 1) |-> IF k = n + 1 THEN g[n] + f[n + 1] ELSE g[k]]
  <2>2. ASSUME NEW k \in 1..(n + 1)  PROVE h[k] = h[k - 1] + f[k]
    <3>1. k - 1 \in 0..(n + 1) /\ k - 1 # n + 1 /\ h[k - 1] = g[k - 1]
      OBVIOUS
    <3>2. CASE k = n + 1
      BY <3>1, <3>2
    <3>3. CASE k # n + 1
      <4>1. k \in 1..n /\ h[k] = g[k]
        BY <3>3
      <4> QED
        BY <2>1, <3>1, <4>1 DEF Partial
    <3> QED
      BY <3>2, <3>3
  <2>3. h[0] = 0
    BY <2>1 DEF Partial
  <2> HIDE DEF h
  <2>4. Partial(f, h, n + 1)
    BY <2>2, <2>3 DEF Partial
  <2> QED
    BY <2>4
<1> HIDE DEF S
<1>3. S = Nat
  BY <1>1, <1>2, ByInduction DEF S
<1> QED
  BY <1>3 DEF S

LEMMA PartialsAgree ==
    ASSUME NEW f, NEW g, NEW h, NEW n \in Nat, NEW m \in Nat, n <= m, Partial(f, g, n),
           Partial(f, h, m)
    PROVE  g[n] = h[n]
<1> DEFINE S == {k \in Nat : k <= n => g[k] = h[k]}
<1>1. 0 \in S
  BY DEF Partial
<1>2. ASSUME NEW k \in S  PROVE k + 1 \in S
  <2> SUFFICES ASSUME k + 1 <= n  PROVE g[k + 1] = h[k + 1]
    OBVIOUS
  <2>1. k + 1 \in 1..n /\ k + 1 \in 1..m /\ (k + 1) - 1 = k /\ k <= n
    OBVIOUS
  <2>2. g[k + 1] = g[k] + f[k + 1] /\ h[k + 1] = h[k] + f[k + 1] /\ g[k] = h[k]
    BY <2>1 DEF Partial
  <2> QED
    BY <2>2
<1> HIDE DEF S
<1>3. S = Nat
  BY <1>1, <1>2, ByInduction DEF S
<1> QED
  BY <1>3 DEF S

\* The sum adds one value after the other.
LEMMA TotalUnfolds ==
    ASSUME NEW f
    PROVE  /\ Total(f, 0) = 0
           /\ \A n \in Nat : Total(f, n + 1) = Total(f, n) + f[n + 1]
<1> DEFINE first(n) == CHOOSE g : Partial(f, g, n)
           sums == [n \in Nat |-> first(n)[n]]
           Equation(g) == g = [k \in Nat |-> IF k = 0 THEN 0 ELSE g[k - 1] + f[k]]
<1>1. \A n \in Nat : Partial(f, first(n), n)
  BY PartialExists
<1> HIDE DEF first
<1>2. sums[0] = 0
  BY <1>1 DEF Partial
<1>3. ASSUME NEW n \in Nat  PROVE sums[n + 1] = sums[n] + f[n + 1]
  <2>1. first(n)[n] = first(n + 1)[n]
    <3>1. n <= n + 1 /\ n + 1 \in Nat /\ Partial(f, first(n), n) /\ Partial(f, first(n + 1), n + 1)
      BY <1>1
    <3> QED
      BY <3>1, PartialsAgree
  <2>2. first(n + 1)[n + 1] = first(n + 1)[n] + f[n + 1]
    BY <1>1 DEF Partial
  <2> QED
    BY <2>1, <2>2
<1>4. Equation(sums)
  <2>1. ASSUME NEW k \in Nat  PROVE sums[k] = IF k = 0 THEN 0 ELSE sums[k - 1] + f[k]
    <3>1. CASE k = 0
      BY <1>2, <3>1
    <3>2. CASE k # 0
      <4>1. k - 1 \in Nat /\ k = (k - 1) + 1
        BY <3>2
      <4> HIDE DEF sums
      <4>2. sums[(k - 1) + 1] = sums[k - 1] + f[(k - 1) + 1]
        BY <1>3, <4>1
      <4> QED
        BY <3>2, <4>1, <4>2
    <3> QED
      BY <3>1, <3>2
  <2> QED
    BY <2>1
<1> HIDE DEF sums
<1>5. Equation(CHOOSE g : Equation(g))
  BY <1>4
<1> DEFINE t == CHOOSE g : Equation(g)
<1>6. t = [k \in Nat |-> IF k = 0 THEN 0 ELSE t[k - 1] + f[k]]
  BY <1>5
<1>7. \A n : Total(f, n) = t[n]
  BY DEF Total
<1> HIDE DEF t
<1>8. t[0] = 0 /\ \A n \in Nat : t[n + 1] = t[n] + f[n + 1]
  BY <1>6
<1> QED
  BY <1>7, <1>8

LEMMA TotalIsInt ==
    ASSUME NEW f, NEW n \in Nat, \A k \in 1..n : f[k] \in Int
    PROVE  Total(f, n) \in Int
<1> DEFINE S == {k \in Nat : k <= n => Total(f, k) \in Int}
<1>1. 0 \in S
  BY TotalUnfolds
<1>2. ASSUME NEW k \in S  PROVE k + 1 \in S
  BY TotalUnfolds
<1> HIDE DEF S
<1>3. S = Nat
  BY <1>1, <1>2, ByInduction DEF S
<1> QED
  BY <1>3 DEF S

LEMMA TotalSame ==
    ASSUME NEW f, NEW g, NEW n \in Nat, \A k \in 1..n : f[k] = g[k]
    PROVE  Total(f, n) = Total(g, n)
<1> DEFINE S == {k \in Nat : k <= n => Total(f, k) = Total(g, k)}
<1>1. 0 \in S
  BY TotalUnfolds
<1>2. ASSUME NEW k \in S  PROVE k + 1 \in S
  BY TotalUnfolds
<1> HIDE DEF S
<1>3. S = Nat
  BY <1>1, <1>2, ByInduction DEF S
<1> QED
  BY <1>3 DEF S

\* Sums of one part and of the other.
LEMMA TotalConcat ==
    ASSUME NEW m \in Nat, NEW n \in Nat, NEW f \in [1..(m + n) -> Int]
    PROVE  Total(f, m + n) = Total(f, m) + Total([k \in 1..n |-> f[m + k]], n)
<1> DEFINE g == [k \in 1..n |-> f[m + k]]
           S == {k \in Nat : k <= n => /\ Total(f, m + k) = Total(f, m) + Total(g, k)
                                       /\ Total(g, k) \in Int}
<1>1. Total(f, m) \in Int
  BY TotalIsInt
<1>2. \A k \in 1..n : g[k] = f[m + k] /\ g[k] \in Int
  <2> TAKE k \in 1..n
  <2>1. m + k \in 1..(m + n)
    OBVIOUS
  <2>2. g[k] = f[m + k]
    OBVIOUS
  <2> QED
    BY <2>1, <2>2
<1> HIDE DEF g
<1>3. 0 \in S
  BY <1>1, TotalUnfolds
<1>4. ASSUME NEW k \in S  PROVE k + 1 \in S
  <2> SUFFICES ASSUME k + 1 <= n
               PROVE  /\ Total(f, m + (k + 1)) = Total(f, m) + Total(g, k + 1)
                      /\ Total(g, k + 1) \in Int
    OBVIOUS
  <2>1. Total(f, m + k) = Total(f, m) + Total(g, k) /\ Total(g, k) \in Int
    OBVIOUS
  <2>2. m + k \in Nat /\ m + (k + 1) = (m + k) + 1 /\ k + 1 \in 1..n
    OBVIOUS
  <2>3. Total(f, (m + k) + 1) = Total(f, m + k) + f[(m + k) + 1]
    BY <2>2, TotalUnfolds
  <2>4. Total(g, k + 1) = Total(g, k) + g[k + 1]
    BY TotalUnfolds
  <2>5. g[k + 1] = f[(m + k) + 1] /\ g[k + 1] \in Int
    BY <1>2, <2>2
  <2> QED
    BY <1>1, <2>1, <2>2, <2>3, <2>4, <2>5
<1> HIDE DEF S
<1>5. S = Nat
  BY <1>3, <1>4, ByInduction DEF S
<1> QED
  BY <1>5 DEF S, g

LEMMA TotalOfZeroes ==
    ASSUME NEW f, NEW n \in Nat, \A k \in 1..n : f[k] = 0
    PROVE  Total(f, n) = 0
<1> DEFINE S == {k \in Nat : k <= n => Total(f, k) = 0}
<1>1. 0 \in S
  BY TotalUnfolds
<1>2. ASSUME NEW k \in S  PROVE k + 1 \in S
  BY TotalUnfolds
<1> HIDE DEF S
<1>3. S = Nat
  BY <1>1, <1>2, ByInduction DEF S
<1> QED
  BY <1>3 DEF S

\* A combination of two sums.
LEMMA TotalLinear ==
    ASSUME NEW f, NEW g, NEW h, NEW n \in Nat, NEW a \in Int, NEW b \in Int,
           \A k \in 1..n : f[k] \in Int /\ g[k] \in Int /\ h[k] = a * f[k] + b * g[k]
    PROVE  Total(h, n) = a * Total(f, n) + b * Total(g, n)
<1> DEFINE S == {k \in Nat : k <= n => Total(h, k) = a * Total(f, k) + b * Total(g, k)}
<1>1. 0 \in S
  BY TotalUnfolds
<1>2. ASSUME NEW k \in S  PROVE k + 1 \in S
  <2> SUFFICES ASSUME k + 1 <= n
               PROVE  Total(h, k + 1) = a * Total(f, k + 1) + b * Total(g, k + 1)
    OBVIOUS
  <2>1. Total(f, k) \in Int /\ Total(g, k) \in Int /\ f[k + 1] \in Int /\ g[k + 1] \in Int
    BY TotalIsInt
  <2>2. Total(h, k) = a * Total(f, k) + b * Total(g, k)
    OBVIOUS
  <2>3. /\ Total(h, k + 1) = Total(h, k) + h[k + 1] /\ Total(f, k + 1) = Total(f, k) + f[k + 1]
        /\ Total(g, k + 1) = Total(g, k) + g[k + 1] /\ h[k + 1] = a * f[k + 1] + b * g[k + 1]
    BY TotalUnfolds
  <2>4. \A c, x, y \in Int : c * (x + y) = c * x + c * y /\ c * x \in Int
    OBVIOUS
  <2>5. /\ a * Total(f, k + 1) = a * Total(f, k) + a * f[k + 1]
        /\ b * Total(g, k + 1) = b * Total(g, k) + b * g[k + 1]
        /\ a * Total(f, k) \in Int /\ a * f[k + 1] \in Int
        /\ b * Total(g, k) \in Int /\ b * g[k + 1] \in Int
    BY <2>1, <2>3, <2>4
  <2> QED
    BY <2>2, <2>3, <2>5
<1> HIDE DEF S
<1>3. S = Nat
  BY <1>1, <1>2, ByInduction DEF S
<1> QED
  BY <1>3 DEF S

\* One value changes.
LEMMA TotalChange ==
    ASSUME NEW f, NEW g, NEW n \in Nat, NEW i \in 1..n, \A k \in 1..n : f[k] \in Int,
           g[i] \in Int, \A k \in 1..n : k # i => g[k] = f[k]
    PROVE  Total(g, n) = Total(f, n) - f[i] + g[i]
<1> DEFINE S == {k \in Nat : k <= n => Total(g, k) = IF k < i THEN Total(f, k)
                                                      ELSE Total(f, k) - f[i] + g[i]}
<1>1. 0 \in S
  BY TotalUnfolds
<1>2. ASSUME NEW k \in S  PROVE k + 1 \in S
  <2> SUFFICES ASSUME k + 1 <= n
               PROVE  Total(g, k + 1) = IF k + 1 < i THEN Total(f, k + 1)
                                        ELSE Total(f, k + 1) - f[i] + g[i]
    OBVIOUS
  <2>1. Total(f, k) \in Int /\ f[k + 1] \in Int /\ f[i] \in Int
    BY TotalIsInt
  <2>2. Total(g, k) = IF k < i THEN Total(f, k) ELSE Total(f, k) - f[i] + g[i]
    OBVIOUS
  <2>3. Total(g, k + 1) = Total(g, k) + g[k + 1] /\ Total(f, k + 1) = Total(f, k) + f[k + 1]
    BY TotalUnfolds
  <2>4. CASE k + 1 = i
    BY <2>1, <2>2, <2>3, <2>4
  <2>5. CASE k + 1 # i
    BY <2>1, <2>2, <2>3, <2>5
  <2> QED
    BY <2>4, <2>5
<1> HIDE DEF S
<1>3. S = Nat
  BY <1>1, <1>2, ByInduction DEF S
<1> QED
  BY <1>3 DEF S

(***************************************************************************)
(* Billing                                                                 *)
(***************************************************************************)

StripeEvent == [kind : {"checkout", "created", "updated", "payment_failed", "deleted"},
                status : Bills!Status]
WebhookCall == [label : {"idle", "customer", "insert", "apply", "record"}, event : Nat]

BillTypes ==
    /\ events \in Seq(StripeEvent)
    /\ customer \in {"none", "linked", "unlinked"}
    /\ sub \in Bills!Status \union {"none"}
    /\ recorded \subseteq 1..Len(events)
    /\ call \in [Handler -> WebhookCall]
    /\ writer \in 0..Len(events) /\ wrote \subseteq 1..Len(events)
    /\ missed \subseteq 1..Len(events) /\ outdated \subseteq 1..Len(events)
    /\ gate \subseteq Deliverer /\ usage \in Nat

Created(e) == events[e].kind = "created"
Seeks(e) == events[e].kind \in {"checkout", "created"}

\* The event has had its effect, or found no row.
Kept(e) ==
    /\ ~Seeks(e) => e \in wrote \union missed
    /\ Created(e) => e \in wrote /\ sub # "none"

\* A creation finds or makes its customer before it is applied, and every event is
\* applied before it is recorded.
CallSound(h) ==
    call[h].label # "idle" =>
        /\ call[h].event \in 1..Len(events)
        /\ call[h].label \in {"customer", "insert"} => Seeks(call[h].event)
        /\ call[h].label = "apply" /\ Created(call[h].event) => customer # "none"
        /\ call[h].label = "record" => Kept(call[h].event)

BillInv ==
    /\ BillTypes
    /\ writer > 0 => sub = events[writer].status
    /\ outdated \subseteq Bills!Settled /\ writer \notin outdated
    /\ sub # "none" => customer # "none"
    /\ answered \subseteq recorded
    /\ \A e \in recorded : Kept(e)
    /\ \A h \in Handler : CallSound(h)
    /\ usage + Cardinality(gate) <= SignalsPerDay + Cardinality(Deliverer) - 1

LEMMA BillSteps == [Next]_vars => Bills!Next \/ UNCHANGED billVars
  BY Zenon DEF Next, Only, vars

LEMMA BillsCardinality == \A S : Bills!Cardinality(S) = Cardinality(S)
  BY Zenon DEF Cardinality, Bills!Cardinality

LEMMA BillInit ==
    ASSUME IsFiniteSet(Deliverer), Deliverer # {}
    PROVE  Init => BillInv
<1> SUFFICES ASSUME Init  PROVE BillInv
  OBVIOUS
<1>1. Bills!Init
  BY Zenon DEF Init
<1>2. events = << >> /\ Len(events) = 0
  BY <1>1 DEF Bills!Init
<1>3. BillTypes
  <2>1. call \in [Handler -> WebhookCall]
    BY <1>1 DEF Bills!Init, Bills!Idle, WebhookCall
  <2>2. /\ events \in Seq(StripeEvent) /\ writer \in 0..Len(events)
        /\ wrote = {} /\ missed = {} /\ outdated = {}
    BY <1>1, <1>2 DEF Bills!Init
  <2> QED
    BY <1>1, <2>1, <2>2 DEF Bills!Init, BillTypes
<1>4. \A h \in Handler : CallSound(h)
  BY <1>1 DEF Bills!Init, Bills!Idle, CallSound
<1>5. usage + Cardinality(gate) <= SignalsPerDay + Cardinality(Deliverer) - 1
  <2>1. usage = 0 /\ gate = {} /\ Cardinality({}) = 0
    BY <1>1, FS_EmptySet DEF Bills!Init
  <2>2. Cardinality(Deliverer) \in Nat /\ Cardinality(Deliverer) # 0
    BY FS_CardinalityType, FS_EmptySet
  <2> QED
    BY <2>1, <2>2, LedgerTypes
<1>6. writer = 0 /\ outdated = {} /\ recorded = {} /\ answered = {} /\ sub = "none"
  BY <1>1 DEF Bills!Init
<1> QED
  BY <1>3, <1>4, <1>5, <1>6 DEF BillInv

\* A webhook call moves, and nothing it finds goes away.
LEMMA BillMove ==
    ASSUME BillInv, NEW h \in Handler, NEW r \in WebhookCall, call' = [call EXCEPT ![h] = r],
           r.event \in {0, call[h].event} \/ r.event \notin recorded,
           UNCHANGED <<events, gate, usage>>,
           customer' \in {"none", "linked", "unlinked"}, customer # "none" => customer' # "none",
           sub' \in Bills!Status \union {"none"}, sub # "none" => sub' # "none",
           recorded \subseteq recorded', recorded' \subseteq 1..Len(events),
           answered' \subseteq recorded',
           wrote \subseteq wrote', wrote' \subseteq 1..Len(events),
           missed \subseteq missed', missed' \subseteq 1..Len(events),
           writer' \in 0..Len(events), writer' > 0 => sub' = events[writer'].status,
           outdated' \subseteq Bills!Settled, writer' \notin outdated',
           sub' # "none" => customer' # "none",
           \A e \in recorded' : Kept(e)',
           CallSound(h)'
    PROVE  BillInv'
<1>1. outdated' \subseteq 1..Len(events)
  BY DEF Bills!Settled, BillInv, BillTypes
<1>2. BillTypes'
  BY <1>1 DEF BillInv, BillTypes
<1>3. ASSUME NEW i \in Handler, i # h  PROVE CallSound(i)'
  <2>1. call'[i] = call[i] /\ CallSound(i)
    BY <1>3 DEF BillInv, BillTypes
  <2> QED
    BY <2>1 DEF CallSound, Created, Seeks, Kept
<1>4. \A i \in Handler : CallSound(i)'
  BY <1>3
<1>5. ASSUME NEW d \in outdated'  PROVE d \in Bills!Settled'
  <2>1. d \in recorded /\ \A i \in Handler : call[i].event # d
    BY <1>5 DEF Bills!Settled
  <2>2. ASSUME NEW i \in Handler  PROVE call'[i].event # d
    <3>1. CASE i = h
      <4>1. call'[i] = r
        BY <3>1 DEF BillInv, BillTypes
      <4>2. d # 0
        BY <1>1, <1>5
      <4> QED
        BY <2>1, <4>1, <4>2
    <3>2. CASE i # h
      <4>1. call'[i] = call[i]
        BY <3>2 DEF BillInv, BillTypes
      <4> QED
        BY <2>1, <4>1
    <3> QED
      BY <3>1, <3>2
  <2> QED
    BY <2>1, <2>2 DEF Bills!Settled
<1>6. (writer > 0 => sub = events[writer].status)'
  OBVIOUS
<1> QED
  BY <1>2, <1>4, <1>5, <1>6 DEF BillInv

LEMMA BillEmit ==
    ASSUME BillInv, Bills!Emit
    PROVE  BillInv'
<1>1. UNCHANGED <<answered, customer, sub, recorded, call, writer, wrote, missed, outdated,
                  gate, usage>>
  BY Zenon DEF Bills!Emit, Bills!tables, Bills!gateVars, Bills!histories
<1>2. PICK e \in StripeEvent : events' = Append(events, e)
  <2>1. PICK kind \in {"checkout", "created", "updated", "payment_failed", "deleted"},
             s \in Bills!Status : events' = Append(events, [kind |-> kind, status |-> s])
    BY DEF Bills!Emit
  <2>2. [kind |-> kind, status |-> s] \in StripeEvent
    BY DEF StripeEvent
  <2> QED
    BY <2>1, <2>2
<1>3. /\ events \in Seq(StripeEvent) /\ events' \in Seq(StripeEvent)
      /\ Len(events) \in Nat /\ Len(events') = Len(events) + 1
      /\ \A k \in 1..Len(events) : events'[k] = events[k]
  BY <1>2, AppendProperties DEF BillInv, BillTypes
<1>4. 1..Len(events) \subseteq 1..Len(events') /\ 0..Len(events) \subseteq 0..Len(events')
  BY <1>3
<1>5. BillTypes'
  BY <1>1, <1>3, <1>4 DEF BillInv, BillTypes
<1>6. \A k \in 1..Len(events) : Kept(k)' = Kept(k) /\ Created(k)' = Created(k) /\ Seeks(k)' = Seeks(k)
  BY <1>1, <1>3 DEF Kept, Created, Seeks
<1>7. ASSUME NEW h \in Handler  PROVE CallSound(h)'
  BY <1>1, <1>4, <1>6 DEF BillInv, CallSound
<1>8. writer' > 0 => sub' = events'[writer'].status
  <2> SUFFICES ASSUME writer > 0  PROVE sub = events'[writer].status
    BY <1>1
  <2>1. writer \in 1..Len(events)
    BY <1>3 DEF BillInv, BillTypes
  <2> QED
    BY <1>3, <2>1 DEF BillInv
<1>9. \A k \in recorded' : Kept(k)'
  BY <1>1, <1>6 DEF BillInv, BillTypes
<1>10. outdated' \subseteq Bills!Settled' /\ writer' \notin outdated'
  BY <1>1 DEF BillInv, Bills!Settled
<1> QED
  BY <1>1, <1>5, <1>7, <1>8, <1>9, <1>10 DEF BillInv

LEMMA BillReceive ==
    ASSUME BillInv, NEW h \in Handler, NEW e \in DOMAIN events, Bills!Receive(h, e)
    PROVE  BillInv'
<1>1. UNCHANGED <<events, customer, sub, recorded, writer, wrote, missed, outdated, gate, usage>>
  BY Zenon DEF Bills!Receive, Bills!tables, Bills!gateVars, Bills!histories
<1>2. e \in 1..Len(events) /\ Len(events) \in Nat
  BY LenProperties DEF BillInv, BillTypes
<1>3. call[h] = Bills!Idle
  BY DEF Bills!Receive
<1>4. \A k : Kept(k)' = Kept(k) /\ Created(k)' = Created(k) /\ Seeks(k)' = Seeks(k)
  BY <1>1 DEF Kept, Created, Seeks
<1>5. CASE e \in recorded
  <2>1. answered' = answered \union {e} /\ call' = call
    BY <1>5 DEF Bills!Receive, Bills!Duplicate
  <2>2. \A i \in Handler : CallSound(i)'
    BY <1>1, <1>4, <2>1 DEF BillInv, CallSound
  <2>3. outdated' \subseteq Bills!Settled' /\ writer' \notin outdated'
    BY <1>1, <2>1 DEF BillInv, Bills!Settled
  <2>4. BillTypes'
    BY <1>1, <2>1 DEF BillInv, BillTypes
  <2> QED
    BY <1>1, <1>4, <1>5, <2>1, <2>2, <2>3, <2>4 DEF BillInv
<1>6. CASE e \notin recorded
  <2> DEFINE l == IF events[e].kind \in {"checkout", "created"} THEN "customer" ELSE "apply"
             r == [label |-> l, event |-> e]
  <2>1. call' = [call EXCEPT ![h] = r] /\ answered' = answered
    BY <1>6 DEF Bills!Receive, Bills!Duplicate
  <2>2. l \in {"customer", "apply"} /\ (Seeks(e) <=> l = "customer")
    BY DEF Seeks
  <2> HIDE DEF l
  <2>3. r \in WebhookCall /\ r.label = l /\ r.event = e
    BY <1>2, <2>2 DEF WebhookCall
  <2> HIDE DEF r
  <2>4. call'[h] = r
    BY <2>1 DEF BillInv, BillTypes
  <2>5. CallSound(h)'
    BY <1>1, <1>2, <2>2, <2>3, <2>4 DEF CallSound, Seeks, Created
  <2>6. \A k \in recorded' : Kept(k)'
    BY <1>1, <1>4 DEF BillInv
  <2> QED
    BY <1>1, <1>6, <2>1, <2>3, <2>5, <2>6, BillMove DEF BillInv, BillTypes
<1> QED
  BY <1>5, <1>6

\* A call goes on to another statement, with its event.
LEMMA BillGoto ==
    ASSUME BillInv, NEW h \in Handler,
           NEW label \in {"customer", "insert", "apply", "record"}, Bills!Goto(h, label)
    PROVE  \E r \in WebhookCall : /\ call' = [call EXCEPT ![h] = r] /\ call'[h] = r
                                  /\ r.label = label /\ r.event = call[h].event
<1> DEFINE r == [call[h] EXCEPT !.label = label]
<1>1. call[h] \in WebhookCall /\ call \in [Handler -> WebhookCall]
  BY DEF BillInv, BillTypes
<1>2. r \in WebhookCall /\ r.label = label /\ r.event = call[h].event
  BY <1>1 DEF WebhookCall
<1>3. call' = [call EXCEPT ![h] = r]
  BY DEF Bills!Goto
<1> HIDE DEF r
<1> QED
  BY <1>1, <1>2, <1>3

LEMMA BillLookUp ==
    ASSUME BillInv, NEW h \in Handler, Bills!LookUpCustomer(h)
    PROVE  BillInv'
<1>1. UNCHANGED <<events, answered, customer, sub, recorded, writer, wrote, missed, outdated,
                  gate, usage>>
  BY Zenon DEF Bills!LookUpCustomer, Bills!tables, Bills!gateVars, Bills!histories
<1>2. call[h].label = "customer"
  BY Zenon DEF Bills!LookUpCustomer
<1>3. PICK label \in {"insert", "apply", "record"} :
        /\ Bills!Goto(h, label)
        /\ label = "apply" => customer # "none"
        /\ label = "record" => ~Created(call[h].event)
  <2>1. CASE customer = "none"
    <3>1. Bills!Goto(h, "insert")
      BY <2>1 DEF Bills!LookUpCustomer
    <3> QED
      BY <3>1
  <2>2. CASE customer # "none" /\ Bills!Event(h).kind = "created"
    <3>1. Bills!Goto(h, "apply")
      BY <2>2 DEF Bills!LookUpCustomer
    <3> QED
      BY <2>2, <3>1
  <2>3. CASE customer # "none" /\ Bills!Event(h).kind # "created"
    <3>1. Bills!Goto(h, "record")
      BY <2>3 DEF Bills!LookUpCustomer
    <3> QED
      BY <2>3, <3>1 DEF Bills!Event, Created
  <2> QED
    BY <2>1, <2>2, <2>3
<1>4. PICK r \in WebhookCall : /\ call' = [call EXCEPT ![h] = r] /\ call'[h] = r
                               /\ r.label = label /\ r.event = call[h].event
  BY <1>3, BillGoto
<1>5. CallSound(h)
  BY DEF BillInv
<1>6. CallSound(h)'
  BY <1>1, <1>2, <1>3, <1>4, <1>5 DEF CallSound, Created, Seeks, Kept
<1>7. \A k \in recorded' : Kept(k)'
  BY <1>1 DEF BillInv, Kept, Created, Seeks
<1> QED
  BY <1>1, <1>4, <1>6, <1>7, BillMove DEF BillInv, BillTypes

\* An answer ends the call.
LEMMA BillAnswer ==
    ASSUME BillInv, NEW h \in Handler, NEW ok, Bills!Answer(h, ok),
           UNCHANGED <<events, customer, sub, writer, wrote, missed, outdated, gate, usage>>,
           recorded \subseteq recorded', recorded' \subseteq 1..Len(events),
           ok => call[h].event \in recorded',
           \A e \in recorded' : Kept(e)
    PROVE  BillInv'
<1>1. call' = [call EXCEPT ![h] = Bills!Idle]
  BY DEF Bills!Answer
<1>2. Bills!Idle \in WebhookCall /\ Bills!Idle.label = "idle" /\ Bills!Idle.event = 0
  BY DEF Bills!Idle, WebhookCall
<1>3. CallSound(h)'
  BY <1>1, <1>2 DEF CallSound, BillInv, BillTypes
<1>4. answered' \subseteq recorded'
  BY DEF Bills!Answer, BillInv
<1>5. \A k \in recorded' : Kept(k)'
  BY DEF Kept, Created, Seeks
<1> QED
  BY <1>1, <1>2, <1>3, <1>4, <1>5, BillMove DEF BillInv, BillTypes

LEMMA BillInsertCustomer ==
    ASSUME BillInv, NEW h \in Handler, Bills!InsertCustomer(h)
    PROVE  BillInv'
<1>1. UNCHANGED <<events, sub, recorded, writer, wrote, missed, outdated, gate, usage>>
  BY Zenon DEF Bills!InsertCustomer, Bills!gateVars, Bills!histories
<1>2. call[h].label = "insert" /\ CallSound(h)
  BY DEF Bills!InsertCustomer, BillInv
<1>3. CASE customer = "none"
  <2>1. /\ customer' \in {"linked", "unlinked"} /\ answered' = answered
        /\ Bills!Goto(h, IF Bills!Event(h).kind = "created" THEN "apply" ELSE "record")
    BY <1>3 DEF Bills!InsertCustomer
  <2>2. PICK label \in {"apply", "record"} :
          Bills!Goto(h, label) /\ (label = "record" => ~Created(call[h].event))
    BY <2>1 DEF Bills!Event, Created
  <2>3. PICK r \in WebhookCall : /\ call' = [call EXCEPT ![h] = r] /\ call'[h] = r
                                 /\ r.label = label /\ r.event = call[h].event
    BY <2>2, BillGoto
  <2>4. CallSound(h)'
    BY <1>1, <1>2, <2>1, <2>2, <2>3 DEF CallSound, Created, Seeks, Kept
  <2>5. \A k \in recorded' : Kept(k)'
    BY <1>1 DEF BillInv, Kept, Created, Seeks
  <2> QED
    BY <1>1, <2>1, <2>3, <2>4, <2>5, BillMove DEF BillInv, BillTypes
<1>4. CASE customer # "none"
  <2>1. Bills!Answer(h, FALSE) /\ customer' = customer
    BY <1>4 DEF Bills!InsertCustomer
  <2> QED
    BY <1>1, <2>1, BillAnswer DEF BillInv, BillTypes
<1> QED
  BY <1>3, <1>4

\* An event that finds a row writes it, and what was settled before is outdated by
\* a newer one; an event that finds none came before the creation was recorded.
LEMMA BillApply ==
    ASSUME BillInv, NEW h \in Handler, Bills!ApplyEvent(h)
    PROVE  BillInv'
<1>1. UNCHANGED <<events, answered, customer, recorded, gate, usage>>
  BY Zenon DEF Bills!ApplyEvent, Bills!gateVars
<1>2. call[h].label = "apply" /\ CallSound(h) /\ Len(events) \in Nat
  BY LenProperties DEF Bills!ApplyEvent, BillInv, BillTypes
<1>3. PICK e \in 1..Len(events) : e = call[h].event
  BY <1>2 DEF CallSound
<1>4. events[e].status \in Bills!Status /\ events[e].status # "none"
  <2>1. events[e] \in StripeEvent
    BY ElementOfSeq DEF BillInv, BillTypes
  <2> QED
    BY <2>1 DEF StripeEvent, Bills!Status
<1>5. PICK r \in WebhookCall : /\ call' = [call EXCEPT ![h] = r] /\ call'[h] = r
                               /\ r.label = "record" /\ r.event = call[h].event
  BY BillGoto DEF Bills!ApplyEvent
<1>6. /\ recorded \subseteq recorded' /\ recorded' \subseteq 1..Len(events)
      /\ answered' \subseteq recorded'
      /\ customer' \in {"none", "linked", "unlinked"} /\ (customer # "none" => customer' # "none")
  BY <1>1 DEF BillInv, BillTypes
<1>7. CASE Bills!FindsRow(e)
  <2>1. /\ sub' = events[e].status /\ writer' = e /\ wrote' = wrote \union {e}
        /\ outdated' = outdated \union {d \in Bills!Settled : d < e} /\ missed' = missed
    BY <1>3, <1>7 DEF Bills!ApplyEvent, Bills!WriteSubscription
  <2>2. sub # "none" \/ Created(e)
    BY <1>7 DEF Bills!FindsRow, Created
  <2>3. customer' # "none"
    BY <1>1, <1>2, <1>3, <2>2 DEF CallSound, BillInv
  <2>4. outdated' \subseteq Bills!Settled /\ writer' \notin outdated'
    <3>1. e \notin Bills!Settled
      BY <1>3 DEF Bills!Settled
    <3> QED
      BY <2>1, <3>1 DEF BillInv
  <2>5. Kept(e)'
    BY <1>4, <2>1 DEF Kept
  <2>6. CallSound(h)'
    BY <1>1, <1>3, <1>5, <2>5 DEF CallSound
  <2>7. \A k \in recorded' : Kept(k)'
    BY <1>1, <1>4, <2>1 DEF BillInv, Kept, Created, Seeks
  <2>8. /\ sub' \in Bills!Status \union {"none"} /\ sub' # "none"
        /\ writer' \in 0..Len(events) /\ sub' = events[writer'].status
        /\ wrote \subseteq wrote' /\ wrote' \subseteq 1..Len(events)
        /\ missed \subseteq missed' /\ missed' \subseteq 1..Len(events)
    BY <1>2, <1>4, <2>1 DEF BillInv, BillTypes
  <2> QED
    BY <1>1, <1>5, <1>6, <2>3, <2>4, <2>6, <2>7, <2>8, BillMove
<1>8. CASE ~Bills!FindsRow(e)
  <2>1. /\ sub' = sub /\ writer' = writer /\ wrote' = wrote /\ outdated' = outdated
        /\ missed' = IF Bills!NoCreation THEN missed \union {e} ELSE missed
    BY <1>3, <1>8 DEF Bills!ApplyEvent, Bills!WriteSubscription
  <2>2. ~Created(e) /\ sub = "none"
    BY <1>8 DEF Bills!FindsRow, Created
  <2>3. Bills!NoCreation
    BY <2>2 DEF Bills!NoCreation, BillInv, Kept, Created
  <2>4. e \in missed' /\ missed \subseteq missed' /\ missed' \subseteq 1..Len(events)
    BY <2>1, <2>3 DEF BillInv, BillTypes
  <2>5. Kept(e)'
    BY <1>1, <2>2, <2>4 DEF Kept, Created
  <2>6. CallSound(h)'
    BY <1>1, <1>3, <1>5, <2>5 DEF CallSound
  <2>7. \A k \in recorded' : Kept(k)'
    BY <1>1, <2>1, <2>4 DEF BillInv, Kept, Created, Seeks
  <2> QED
    BY <1>1, <1>5, <1>6, <2>1, <2>4, <2>6, <2>7, BillMove DEF BillInv, BillTypes
<1> QED
  BY <1>7, <1>8

LEMMA BillRecord ==
    ASSUME BillInv, NEW h \in Handler, Bills!RecordEvent(h)
    PROVE  BillInv'
<1>1. /\ call[h].label = "record" /\ recorded' = recorded \union {call[h].event}
      /\ UNCHANGED <<events, customer, sub, writer, wrote, missed, outdated, gate, usage>>
  BY Zenon DEF Bills!RecordEvent, Bills!gateVars, Bills!histories
<1>2. PICK ok \in BOOLEAN : Bills!Answer(h, ok)
  BY DEF Bills!RecordEvent
<1>3. CallSound(h)
  BY DEF BillInv
<1>4. recorded' \subseteq 1..Len(events)
  BY <1>1, <1>3 DEF CallSound, BillInv, BillTypes
<1>5. \A e \in recorded' : Kept(e)
  BY <1>1, <1>3 DEF CallSound, BillInv
<1> QED
  BY <1>1, <1>2, <1>4, <1>5, BillAnswer

LEMMA BillGate ==
    ASSUME IsFiniteSet(Deliverer), BillInv, NEW d \in Deliverer,
           Bills!AskGate(d) \/ Bills!CountDelivery(d)
    PROVE  BillInv'
<1>1. UNCHANGED <<events, answered, customer, sub, recorded, call, writer, wrote, missed, outdated>>
  BY Zenon DEF Bills!AskGate, Bills!CountDelivery, Bills!tables, Bills!histories
<1>2. gate \in SUBSET Deliverer /\ usage \in Nat
  BY DEF BillInv, BillTypes
<1>3. IsFiniteSet(gate) /\ Cardinality(gate) \in Nat /\ Cardinality(Deliverer) \in Nat
  BY <1>2, FS_Subset, FS_CardinalityType
<1>4. /\ gate' \in SUBSET Deliverer /\ usage' \in Nat
      /\ usage' + Cardinality(gate') <= SignalsPerDay + Cardinality(Deliverer) - 1
  <2>1. CASE UNCHANGED <<gate, usage>>
    BY <1>2, <2>1 DEF BillInv
  <2>2. CASE d \notin gate /\ gate' = gate \union {d} /\ usage' = usage /\ Bills!QuotaLeft
    <3>1. gate' \in SUBSET Deliverer
      BY <1>2, <2>2
    <3>2. Cardinality(gate') \in Nat /\ Cardinality(gate') <= Cardinality(Deliverer)
      BY <3>1, FS_Subset, FS_CardinalityType
    <3>3. usage < SignalsPerDay
      BY <2>2 DEF Bills!QuotaLeft
    <3> QED
      BY <1>2, <1>3, <2>2, <3>1, <3>2, <3>3, LedgerTypes
  <2>3. CASE d \in gate /\ gate' = gate \ {d} /\ usage' = usage + 1
    <3>1. Cardinality(gate') = Cardinality(gate) - 1
      BY <1>3, <2>3, FS_RemoveElement
    <3>2. usage + Cardinality(gate) <= SignalsPerDay + Cardinality(Deliverer) - 1
      BY DEF BillInv
    <3> QED
      BY <1>2, <1>3, <2>3, <3>1, <3>2, LedgerTypes
  <2>4. \/ UNCHANGED <<gate, usage>>
        \/ d \notin gate /\ gate' = gate \union {d} /\ usage' = usage /\ Bills!QuotaLeft
        \/ d \in gate /\ gate' = gate \ {d} /\ usage' = usage + 1
    BY Zenon DEF Bills!AskGate, Bills!CountDelivery
  <2> QED
    BY <2>1, <2>2, <2>3, <2>4
<1>5. BillTypes'
  BY <1>1, <1>4 DEF BillInv, BillTypes
<1>6. \A k : Kept(k)' = Kept(k) /\ Created(k)' = Created(k) /\ Seeks(k)' = Seeks(k)
  BY <1>1 DEF Kept, Created, Seeks
<1>7. \A h \in Handler : CallSound(h)'
  BY <1>1, <1>6 DEF BillInv, CallSound
<1>8. outdated' \subseteq Bills!Settled' /\ writer' \notin outdated'
  BY <1>1 DEF BillInv, Bills!Settled
<1> QED
  BY <1>1, <1>4, <1>5, <1>6, <1>7, <1>8 DEF BillInv

LEMMA BillNext ==
    ASSUME IsFiniteSet(Deliverer)
    PROVE  BillInv /\ [Next]_vars => BillInv'
<1> SUFFICES ASSUME BillInv, [Next]_vars  PROVE BillInv'
  OBVIOUS
<1>1. ASSUME NEW h \in Handler, Bills!FailCall(h)  PROVE BillInv'
  <2>1. Bills!Answer(h, FALSE)
        /\ UNCHANGED <<events, customer, sub, recorded, writer, wrote, missed, outdated, gate, usage>>
    BY <1>1, Zenon DEF Bills!FailCall, Bills!tables, Bills!gateVars, Bills!histories
  <2> QED
    BY <2>1, BillAnswer DEF BillInv, BillTypes
<1>2. CASE UNCHANGED billVars
  <2>1. UNCHANGED <<events, answered, customer, sub, recorded, call, writer, wrote, missed, outdated,
                    gate, usage>>
    BY <1>2 DEF billVars
  <2>2. \A k : Kept(k)' = Kept(k) /\ Created(k)' = Created(k) /\ Seeks(k)' = Seeks(k)
    BY <2>1 DEF Kept, Created, Seeks
  <2>3. \A h \in Handler : CallSound(h)'
    BY <2>1, <2>2 DEF BillInv, CallSound
  <2>4. outdated' \subseteq Bills!Settled' /\ writer' \notin outdated'
    BY <2>1 DEF BillInv, Bills!Settled
  <2>5. BillTypes'
    BY <2>1 DEF BillInv, BillTypes
  <2> QED
    BY <2>1, <2>2, <2>3, <2>4, <2>5 DEF BillInv
<1> QED
  BY <1>1, <1>2, BillSteps, BillEmit, BillReceive, BillLookUp, BillInsertCustomer, BillApply,
     BillRecord, BillGate DEF Bills!Next

(***************************************************************************)
(* However webhook calls repeat, overlap, fail and come out of order, the  *)
(* subscription has the status of the event that wrote it last, never of   *)
(* one that was settled when a newer one wrote it; an event that is        *)
(* recorded has written it or came before the creation was recorded; and   *)
(* the finitely many deliveries that overlap overrun the free quota by no  *)
(* more than all but one of them (billing/app.py, gating.py).              *)
(***************************************************************************)
THEOREM BillsStayTrue ==
    ASSUME IsFiniteSet(Deliverer), Deliverer # {}
    PROVE  Spec => []BillingKept
<1>1. ASSUME BillInv  PROVE BillingKept
  <2>1. Bills!StatusFollowsStripe
    BY <1>1 DEF BillInv, Bills!StatusFollowsStripe
  <2>2. Bills!AnsweredIsKept
    BY <1>1 DEF BillInv, Kept, Created, Seeks, Bills!AnsweredIsKept
  <2>3. usage <= SignalsPerDay + Cardinality(Deliverer) - 1
    <3>1. gate \in SUBSET Deliverer /\ usage \in Nat
      BY <1>1 DEF BillInv, BillTypes
    <3>2. Cardinality(gate) \in Nat /\ Cardinality(Deliverer) \in Nat
      BY <3>1, FS_Subset, FS_CardinalityType
    <3> QED
      BY <1>1, <3>1, <3>2, LedgerTypes DEF BillInv
  <2>4. Bills!QuotaOverrunBounded
    BY <2>3, BillsCardinality DEF Bills!QuotaOverrunBounded
  <2> QED
    BY <2>1, <2>2, <2>4 DEF BillingKept
<1>2. Init => BillInv
  BY BillInit
<1>3. BillInv /\ [Next]_vars => BillInv'
  BY BillNext
<1>4. BillInv => BillingKept
  BY <1>1
<1> QED
  BY <1>2, <1>3, <1>4, PTL DEF Spec

(***************************************************************************)
(* A chat's subscription                                                   *)
(***************************************************************************)

ChatTypes ==
    /\ commands \in Seq({"/subscribe", "/unsubscribe"})
    /\ confirmed \in Nat /\ offset \in Nat
    /\ batch \in Int \X Int
    /\ checked \in BOOLEAN /\ touched \in BOOLEAN
    /\ client \in [Client -> BOOLEAN]

\* The rows are as the command at this place left them, or as they were before
\* the first.
Obeys(place) ==
    IF place # 0 /\ commands[place] = "/subscribe" THEN \E row : activeRows = {row}
                                                   ELSE activeRows = {}

\* Where the bot stands: what it handles next has the number of its offset, or
\* follows what Telegram has dropped.
BotPlace ==
    /\ confirmed <= Len(commands) /\ batch[2] <= Len(commands)
    /\ offset = 0 => /\ ~checked
                     /\ batch[1] <= batch[2] => batch[1] = confirmed + 1
    /\ offset # 0 => /\ confirmed < offset /\ offset <= Len(commands) + 1
                     /\ ~checked /\ batch[1] <= batch[2] => batch[1] = offset
    /\ checked => /\ batch[1] <= batch[2] /\ batch[1] = offset - 1 /\ confirmed < batch[1]
                  /\ commands[batch[1]] = "/subscribe"

\* The rows obey the last command the bot handled, which is one that Telegram has
\* dropped last or keeps.
BotObeys ==
    /\ checked => activeRows = {}
    /\ offset # 0 /\ ~checked => Obeys(offset - 1)
    /\ \E place \in confirmed..Len(commands) : Obeys(place)

\* Rows, and who is about to insert one.
Inserters == {k \in Client : client[k]}
Rows == Cardinality(activeRows) + Cardinality(Inserters) + (IF checked THEN 1 ELSE 0)

ChatInv ==
    /\ ChatTypes /\ BotPlace
    /\ ~touched => BotObeys
    /\ IsFiniteSet(activeRows) /\ Rows <= 1 + Cardinality(Client)

LEMMA ChatSteps == [Next]_vars => Chat!Next \/ UNCHANGED chatVars
  BY Zenon DEF Next, Only, vars

LEMMA ChatCardinality == \A S : Chat!Cardinality(S) = Cardinality(S)
  BY Zenon DEF Cardinality, Chat!Cardinality

LEMMA ChatInit ==
    ASSUME IsFiniteSet(Client)
    PROVE  Init => ChatInv
<1> SUFFICES ASSUME Init  PROVE ChatInv
  OBVIOUS
<1>1. Chat!Init
  BY Zenon DEF Init
<1>2. /\ commands = <<>> /\ Len(commands) = 0 /\ confirmed = 0 /\ offset = 0
      /\ batch = <<1, 0>> /\ checked = FALSE /\ touched = FALSE
      /\ activeRows = {} /\ client = [k \in Client |-> FALSE]
  BY <1>1 DEF Chat!Init, Chat!Nothing
<1>3. ChatTypes /\ BotPlace
  <2>1. batch[1] = 1 /\ batch[2] = 0 /\ batch \in Int \X Int
    BY <1>2
  <2>2. commands \in Seq({"/subscribe", "/unsubscribe"})
    BY <1>2, EmptySeq
  <2>3. client \in [Client -> BOOLEAN]
    BY <1>2
  <2>4. ChatTypes
    BY <1>2, <2>1, <2>2, <2>3 DEF ChatTypes
  <2>5. BotPlace
    BY <1>2, <2>1 DEF BotPlace
  <2> QED
    BY <2>4, <2>5
<1>4. BotObeys
  <2>1. 0 \in confirmed..Len(commands) /\ Obeys(0)
    BY <1>2 DEF Obeys
  <2> QED
    BY <1>2, <2>1 DEF BotObeys
<1>5. IsFiniteSet(activeRows) /\ Rows <= 1 + Cardinality(Client)
  <2>1. Inserters = {}
    BY <1>2 DEF Inserters
  <2>2. Cardinality({}) = 0 /\ IsFiniteSet({}) /\ Cardinality(Client) \in Nat
    BY FS_EmptySet, FS_CardinalityType
  <2> QED
    BY <1>2, <2>1, <2>2 DEF Rows
<1> QED
  BY <1>3, <1>4, <1>5 DEF ChatInv

\* Commands, and where the bot stands among them.
LEMMA ChatFacts ==
    ASSUME ChatInv
    PROVE  /\ commands \in Seq({"/subscribe", "/unsubscribe"}) /\ Len(commands) \in Nat
           /\ confirmed \in Nat /\ offset \in Nat
           /\ batch[1] \in Int /\ batch[2] \in Int /\ batch = <<batch[1], batch[2]>>
           /\ checked \in BOOLEAN /\ touched \in BOOLEAN
           /\ client \in [Client -> BOOLEAN]
  BY LenProperties DEF ChatInv, ChatTypes

LEMMA ChatCounts ==
    ASSUME IsFiniteSet(Client), ChatInv
    PROVE  /\ IsFiniteSet(activeRows) /\ Cardinality(activeRows) \in Nat
           /\ IsFiniteSet(Inserters) /\ Cardinality(Inserters) \in Nat
           /\ Cardinality(Inserters) <= Cardinality(Client) /\ Cardinality(Client) \in Nat
<1>1. Inserters \in SUBSET Client
  BY DEF Inserters
<1> QED
  BY <1>1, FS_Subset, FS_CardinalityType DEF ChatInv

LEMMA ChatSend ==
    ASSUME ChatInv, Chat!Send
    PROVE  ChatInv'
<1>1. UNCHANGED <<confirmed, offset, batch, checked, activeRows, client, touched>>
  BY Zenon DEF Chat!Send
<1>2. PICK c \in {"/subscribe", "/unsubscribe"} : commands' = Append(commands, c)
  BY DEF Chat!Send
<1>3. /\ commands' \in Seq({"/subscribe", "/unsubscribe"})
      /\ Len(commands') = Len(commands) + 1 /\ Len(commands) \in Nat
      /\ \A k \in 1..Len(commands) : commands'[k] = commands[k]
  BY <1>2, ChatFacts, AppendProperties
<1>4. ChatTypes'
  BY <1>1, <1>3 DEF ChatInv, ChatTypes
<1>5. BotPlace'
  <2>1. checked => batch[1] \in 1..Len(commands)
    BY ChatFacts DEF ChatInv, BotPlace
  <2> QED
    BY <1>1, <1>3, <2>1, ChatFacts DEF ChatInv, BotPlace
<1>6. ASSUME ~touched  PROVE BotObeys'
  <2>1. ASSUME NEW p \in 0..Len(commands), Obeys(p)  PROVE Obeys(p)'
    <3>1. activeRows' = activeRows
      BY <1>1
    <3>2. CASE p = 0
      BY <2>1, <3>1, <3>2 DEF Obeys
    <3>3. CASE p \in 1..Len(commands)
      <4>1. commands'[p] = commands[p]
        BY <1>3, <3>3
      <4> QED
        BY <2>1, <3>1, <4>1 DEF Obeys
    <3> QED
      BY <1>3, <3>2, <3>3
  <2>2. PICK p \in confirmed..Len(commands) : Obeys(p)
    BY <1>6 DEF ChatInv, BotObeys
  <2>3. p \in 0..Len(commands) /\ p \in confirmed'..Len(commands')
    BY <1>1, <1>3, ChatFacts
  <2>4. Obeys(p)'
    BY <2>1, <2>2, <2>3
  <2>5. ASSUME offset # 0, ~checked  PROVE Obeys(offset - 1)'
    <3>1. offset - 1 \in 0..Len(commands) /\ Obeys(offset - 1)
      BY <1>6, <2>5, ChatFacts DEF ChatInv, BotPlace, BotObeys
    <3>2. PICK q : q = offset - 1
      OBVIOUS
    <3>3. Obeys(q)'
      BY <2>1, <3>1, <3>2
    <3> QED
      BY <3>2, <3>3, <1>1 DEF Obeys
  <2>6. (offset # 0 /\ ~checked => Obeys(offset - 1))'
    BY <1>1, <2>5 DEF Obeys
  <2>7. (\E place \in confirmed..Len(commands) : Obeys(place))'
    BY <2>3, <2>4
  <2>8. (checked => activeRows = {})'
    BY <1>1, <1>6 DEF ChatInv, BotObeys
  <2> QED
    BY <2>6, <2>7, <2>8 DEF BotObeys
<1>7. (IsFiniteSet(activeRows) /\ Rows <= 1 + Cardinality(Client))'
  BY <1>1 DEF ChatInv, Rows, Inserters
<1> QED
  BY <1>1, <1>4, <1>5, <1>6, <1>7 DEF ChatInv

\* A poll confirms what the bot has handled.
LEMMA ChatPoll ==
    ASSUME ChatInv, Chat!Poll
    PROVE  ChatInv'
<1>1. batch[1] > batch[2]
      /\ UNCHANGED <<commands, offset, checked, activeRows, client, touched>>
  BY Zenon DEF Chat!Poll
<1>2. \/ /\ confirmed' = IF offset = 0 THEN confirmed ELSE offset - 1
         /\ batch' = <<(IF offset = 0 THEN confirmed ELSE offset - 1) + 1, Len(commands)>> \/ batch' = batch
      \/ UNCHANGED <<confirmed, batch>>
  BY DEF Chat!Poll, Chat!Confirmed
<1>3. ~checked
  BY <1>1, ChatFacts DEF ChatInv, BotPlace
<1>4. PICK next \in Nat : /\ next = (IF offset = 0 THEN confirmed ELSE offset - 1)
                          /\ confirmed <= next /\ next <= Len(commands)
                          /\ offset # 0 => next < offset
  BY ChatFacts DEF ChatInv, BotPlace
<1>5. \/ confirmed' = next /\ (batch' = <<next + 1, Len(commands)>> \/ batch' = batch)
      \/ UNCHANGED <<confirmed, batch>>
  BY <1>2, <1>4
<1>6. ChatTypes'
  BY <1>1, <1>4, <1>5, ChatFacts DEF ChatInv, ChatTypes
<1>7. BotPlace'
  <2>1. CASE batch' = batch /\ confirmed' \in {next, confirmed}
    BY <1>1, <1>3, <1>4, <2>1, ChatFacts DEF ChatInv, BotPlace
  <2>2. CASE confirmed' = next /\ batch' = <<next + 1, Len(commands)>>
    <3>1. batch'[1] = next + 1 /\ batch'[2] = Len(commands)
      BY <2>2
    <3>2. offset # 0 => next + 1 = offset
      BY <1>4, ChatFacts
    <3> QED
      BY <1>1, <1>3, <1>4, <2>2, <3>1, <3>2, ChatFacts DEF ChatInv, BotPlace
  <2> QED
    BY <1>5, <2>1, <2>2
<1>8. ASSUME ~touched  PROVE BotObeys'
  <2>1. /\ offset # 0 => Obeys(offset - 1)
        /\ \E place \in confirmed..Len(commands) : Obeys(place)
    BY <1>3, <1>8 DEF ChatInv, BotObeys
  <2>2. confirmed' \in {next, confirmed}
    BY <1>5
  <2>3. \E place \in confirmed'..Len(commands) : Obeys(place)
    <3>1. CASE confirmed' = confirmed
      BY <2>1, <3>1
    <3>2. CASE offset # 0 /\ confirmed' = next
      <4>1. next \in confirmed'..Len(commands) /\ Obeys(next)
        BY <1>4, <2>1, <3>2, ChatFacts
      <4> QED
        BY <4>1
    <3> QED
      BY <1>4, <2>2, <3>1, <3>2
  <2> QED
    BY <1>1, <1>3, <2>1, <2>3 DEF BotObeys, Obeys
<1>9. (IsFiniteSet(activeRows) /\ Rows <= 1 + Cardinality(Client))'
  BY <1>1 DEF ChatInv, Rows, Inserters
<1> QED
  BY <1>1, <1>6, <1>7, <1>8, <1>9 DEF ChatInv

\* The bot is done with the command at the head of its batch.
LEMMA ChatHandled ==
    ASSUME ChatInv, NEW p \in 1..Len(commands), p = batch[1], p <= batch[2], confirmed < p,
           batch' = <<p + 1, batch[2]>>, offset' = p + 1, checked' = FALSE,
           UNCHANGED <<commands, confirmed, client, touched>>,
           ~touched => Obeys(p)',
           IsFiniteSet(activeRows'), Rows' <= 1 + Cardinality(Client)
    PROVE  ChatInv'
<1>1. batch'[1] = p + 1 /\ batch'[2] = batch[2] /\ batch' \in Int \X Int /\ p + 1 \in Nat
  BY ChatFacts
<1>2. ChatTypes'
  BY <1>1, ChatFacts DEF ChatInv, ChatTypes
<1>3. BotPlace'
  BY <1>1, ChatFacts DEF ChatInv, BotPlace
<1>4. ASSUME ~touched  PROVE BotObeys'
  <2>1. Obeys(p)' /\ offset' - 1 = p /\ p \in confirmed'..Len(commands')
    BY <1>4, ChatFacts
  <2>2. Obeys(offset - 1)'
    BY <2>1 DEF Obeys
  <2> QED
    BY <2>1, <2>2 DEF BotObeys
<1> QED
  BY <1>2, <1>3, <1>4 DEF ChatInv

\* What the bot handles next comes after what Telegram has dropped.
LEMMA ChatNextUpdate ==
    ASSUME ChatInv, batch[1] <= batch[2]
    PROVE  batch[1] \in 1..Len(commands) /\ confirmed < batch[1]
<1>1. confirmed < batch[1]
  BY ChatFacts DEF ChatInv, BotPlace
<1> QED
  BY <1>1, ChatFacts DEF ChatInv, BotPlace

LEMMA ChatHandleSubscribe ==
    ASSUME IsFiniteSet(Client), ChatInv, Chat!HandleSubscribe
    PROVE  ChatInv'
<1>1. /\ batch[1] <= batch[2] /\ commands[batch[1]] = "/subscribe" /\ ~checked
      /\ offset' = batch[1] + 1
      /\ UNCHANGED <<commands, confirmed, activeRows, client, touched>>
  BY Zenon DEF Chat!HandleSubscribe
<1>2. PICK p \in 1..Len(commands) : p = batch[1] /\ confirmed < p /\ p <= batch[2]
  BY <1>1, ChatNextUpdate
<1>3. CASE activeRows # {}
  <2>1. batch' = <<p + 1, batch[2]>> /\ checked' = FALSE
    BY <1>1, <1>2, <1>3, ChatFacts DEF Chat!HandleSubscribe, Chat!NextUpdate
  <2>2. ASSUME ~touched  PROVE Obeys(p)'
    <3>1. \E place \in confirmed..Len(commands) : Obeys(place)
      BY <2>2 DEF ChatInv, BotObeys
    <3>2. \E row : activeRows = {row}
      BY <1>3, <3>1 DEF Obeys
    <3> QED
      BY <1>1, <1>2, <3>2 DEF Obeys
  <2>3. IsFiniteSet(activeRows') /\ Rows' <= 1 + Cardinality(Client)
    BY <1>1, <2>1 DEF ChatInv, Rows, Inserters
  <2> QED
    BY <1>1, <1>2, <2>1, <2>2, <2>3, ChatHandled
<1>4. CASE activeRows = {}
  <2>1. batch' = batch /\ checked' = TRUE
    BY <1>4 DEF Chat!HandleSubscribe
  <2>2. ChatTypes'
    BY <1>1, <1>2, <2>1, ChatFacts DEF ChatInv, ChatTypes
  <2>3. BotPlace'
    BY <1>1, <1>2, <2>1, ChatFacts DEF ChatInv, BotPlace
  <2>4. ~touched => BotObeys'
    BY <1>1, <1>4, <2>1 DEF ChatInv, BotObeys, Obeys
  <2>5. IsFiniteSet(activeRows') /\ Rows' <= 1 + Cardinality(Client)
    <3>1. Inserters' = Inserters /\ Cardinality(activeRows') = 0 /\ IsFiniteSet(activeRows')
      BY <1>1, <1>4, FS_EmptySet DEF Inserters
    <3> QED
      BY <2>1, <3>1, ChatCounts DEF Rows
  <2> QED
    BY <1>1, <2>2, <2>3, <2>4, <2>5 DEF ChatInv
<1> QED
  BY <1>3, <1>4

\* One of those who are about to insert does: no more rows come of it than were
\* reckoned with.
LEMMA ChatInserted ==
    ASSUME IsFiniteSet(Client), ChatInv, NEW n, activeRows' = activeRows \union {n}
    PROVE  /\ IsFiniteSet(activeRows') /\ Cardinality(activeRows') \in Nat
           /\ Cardinality(activeRows') <= Cardinality(activeRows) + 1
<1>1. IsFiniteSet(activeRows) /\ Cardinality(activeRows) \in Nat
  BY ChatCounts
<1>2. CASE n \in activeRows
  <2>1. activeRows' = activeRows
    BY <1>2
  <2>2. IsFiniteSet(activeRows') /\ Cardinality(activeRows') = Cardinality(activeRows)
    BY <1>1, <2>1, Zenon
  <2> QED
    BY <1>1, <2>2
<1>3. CASE n \notin activeRows
  BY <1>1, <1>3, FS_AddElement
<1> QED
  BY <1>2, <1>3

LEMMA ChatHandleInsert ==
    ASSUME IsFiniteSet(Client), ChatInv, Chat!HandleInsert
    PROVE  ChatInv'
<1>1. /\ checked /\ checked' = FALSE /\ activeRows' = activeRows \union {nextRow}
      /\ batch' = <<batch[1] + 1, batch[2]>>
      /\ UNCHANGED <<commands, confirmed, offset, client, touched>>
  BY Zenon DEF Chat!HandleInsert, Chat!Insert, Chat!NextUpdate
<1>2. PICK p \in 1..Len(commands) : /\ p = batch[1] /\ confirmed < p /\ p <= batch[2]
                                    /\ offset' = p + 1 /\ commands[p] = "/subscribe"
  BY <1>1, ChatFacts, ChatNextUpdate DEF ChatInv, BotPlace
<1>3. ASSUME ~touched  PROVE Obeys(p)'
  <2>1. activeRows = {}
    BY <1>1, <1>3 DEF ChatInv, BotObeys
  <2>2. \E row : activeRows' = {row}
    <3>1. activeRows' = {nextRow}
      BY <1>1, <2>1
    <3> QED
      BY <3>1, Zenon
  <2>3. p # 0 /\ commands'[p] = "/subscribe"
    BY <1>1, <1>2
  <2> QED
    BY <2>2, <2>3 DEF Obeys
<1>4. IsFiniteSet(activeRows') /\ Rows' <= 1 + Cardinality(Client)
  <2>1. Inserters' = Inserters
    BY <1>1 DEF Inserters
  <2>2. /\ IsFiniteSet(activeRows') /\ Cardinality(activeRows') \in Nat
        /\ Cardinality(activeRows') <= Cardinality(activeRows) + 1
    BY <1>1, ChatInserted
  <2>3. Cardinality(activeRows) + Cardinality(Inserters) + 1 <= 1 + Cardinality(Client)
    BY <1>1 DEF ChatInv, Rows
  <2> QED
    BY <1>1, <2>1, <2>2, <2>3, ChatCounts DEF Rows
<1> QED
  BY <1>1, <1>2, <1>3, <1>4, ChatHandled

LEMMA ChatHandleUnsubscribe ==
    ASSUME IsFiniteSet(Client), ChatInv, Chat!HandleUnsubscribe
    PROVE  ChatInv'
<1>1. /\ batch[1] <= batch[2] /\ commands[batch[1]] = "/unsubscribe"
      /\ offset' = batch[1] + 1 /\ activeRows' = {} /\ batch' = <<batch[1] + 1, batch[2]>>
      /\ UNCHANGED <<commands, confirmed, checked, client, touched>>
  BY Zenon DEF Chat!HandleUnsubscribe, Chat!NextUpdate
<1>2. PICK p \in 1..Len(commands) : p = batch[1] /\ confirmed < p /\ p <= batch[2]
  BY <1>1, ChatNextUpdate
<1>3. checked' = FALSE
  BY <1>1, ChatFacts DEF ChatInv, BotPlace
<1>4. Obeys(p)'
  BY <1>1, <1>2 DEF Obeys
<1>5. IsFiniteSet(activeRows') /\ Rows' <= 1 + Cardinality(Client)
  <2>1. Inserters' = Inserters /\ Cardinality(activeRows') = 0 /\ IsFiniteSet(activeRows')
    BY <1>1, FS_EmptySet DEF Inserters
  <2> QED
    BY <1>3, <2>1, ChatCounts DEF Rows
<1> QED
  BY <1>1, <1>2, <1>3, <1>4, <1>5, ChatHandled

LEMMA ChatCrash ==
    ASSUME IsFiniteSet(Client), ChatInv, Chat!CrashBot
    PROVE  ChatInv'
<1>1. /\ offset' = 0 /\ batch' = <<1, 0>> /\ checked' = FALSE
      /\ UNCHANGED <<commands, confirmed, activeRows, client, touched>>
  BY Zenon DEF Chat!CrashBot, Chat!Nothing
<1>2. ChatTypes'
  <2>1. batch' \in Int \X Int
    BY <1>1
  <2> QED
    BY <1>1, <2>1 DEF ChatInv, ChatTypes
<1>3. BotPlace'
  BY <1>1, ChatFacts DEF ChatInv, BotPlace
<1>4. ~touched => BotObeys'
  BY <1>1 DEF ChatInv, BotObeys, Obeys
<1>5. IsFiniteSet(activeRows') /\ Rows' <= 1 + Cardinality(Client)
  <2>1. Inserters' = Inserters /\ Rows <= 1 + Cardinality(Client)
    BY <1>1 DEF Inserters, ChatInv
  <2> QED
    BY <1>1, <2>1, ChatCounts DEF Rows, ChatInv
<1> QED
  BY <1>1, <1>2, <1>3, <1>4, <1>5 DEF ChatInv

\* The API's callers, one of whom may see no row.
LEMMA ChatApi ==
    ASSUME IsFiniteSet(Client), ChatInv, NEW k \in Client, Chat!ApiCheck(k) \/ Chat!ApiInsert(k)
    PROVE  ChatInv'
<1>1. UNCHANGED <<commands, confirmed, offset, batch, checked>>
  BY Zenon DEF Chat!ApiCheck, Chat!ApiInsert
<1>2. \/ /\ activeRows = {} /\ UNCHANGED <<activeRows, touched>>
         /\ client' = [client EXCEPT ![k] = TRUE]
      \/ /\ client[k] /\ activeRows' = activeRows \union {nextRow}
         /\ client' = [client EXCEPT ![k] = FALSE] /\ touched' = TRUE
  BY Zenon DEF Chat!ApiCheck, Chat!ApiInsert, Chat!Insert
<1>3. client' \in [Client -> BOOLEAN] /\ touched' \in BOOLEAN
  BY <1>2, ChatFacts
<1>4. ChatTypes' /\ BotPlace'
  BY <1>1, <1>3 DEF ChatInv, ChatTypes, BotPlace
<1>5. ~touched' => BotObeys'
  BY <1>1, <1>2 DEF ChatInv, BotObeys, Obeys
<1>6. IsFiniteSet(activeRows') /\ Rows' <= 1 + Cardinality(Client)
  <2>1. CASE activeRows' = {} /\ client' = [client EXCEPT ![k] = TRUE]
    <3>1. Inserters' \in SUBSET Client
      BY DEF Inserters
    <3>2. Cardinality(Inserters') \in Nat /\ Cardinality(Inserters') <= Cardinality(Client)
      BY <3>1, FS_Subset, FS_CardinalityType
    <3>3. Cardinality(activeRows') = 0 /\ IsFiniteSet(activeRows')
      BY <2>1, FS_EmptySet
    <3> QED
      BY <3>2, <3>3, ChatCounts DEF Rows
  <2>2. CASE client[k] /\ activeRows' = activeRows \union {nextRow}
             /\ client' = [client EXCEPT ![k] = FALSE]
    <3>1. k \in Inserters /\ Inserters' = Inserters \ {k}
      BY <2>2, ChatFacts DEF Inserters
    <3>2. Cardinality(Inserters') = Cardinality(Inserters) - 1
      BY <3>1, ChatCounts, FS_RemoveElement
    <3>3. /\ IsFiniteSet(activeRows') /\ Cardinality(activeRows') \in Nat
          /\ Cardinality(activeRows') <= Cardinality(activeRows) + 1
      BY <2>2, ChatInserted
    <3>4. Rows <= 1 + Cardinality(Client)
      BY DEF ChatInv
    <3> QED
      BY <1>1, <3>2, <3>3, <3>4, ChatCounts DEF Rows
  <2> QED
    BY <1>2, <2>1, <2>2
<1> QED
  BY <1>4, <1>5, <1>6 DEF ChatInv

LEMMA ChatApiUnsubscribe ==
    ASSUME IsFiniteSet(Client), ChatInv, Chat!ApiUnsubscribe
    PROVE  ChatInv'
<1>1. touched' = TRUE /\ UNCHANGED <<commands, confirmed, offset, batch, checked, client>>
  BY Zenon DEF Chat!ApiUnsubscribe
<1>2. activeRows' \subseteq activeRows
  BY DEF Chat!ApiUnsubscribe
<1>3. IsFiniteSet(activeRows') /\ Cardinality(activeRows') \in Nat
      /\ Cardinality(activeRows') <= Cardinality(activeRows)
  BY <1>2, ChatCounts, FS_Subset, FS_CardinalityType
<1>4. ChatTypes' /\ BotPlace' /\ Inserters' = Inserters
  BY <1>1 DEF ChatInv, ChatTypes, BotPlace, Inserters
<1>5. Rows' <= 1 + Cardinality(Client)
  BY <1>1, <1>3, <1>4, ChatCounts DEF ChatInv, Rows
<1> QED
  BY <1>1, <1>3, <1>4, <1>5 DEF ChatInv

LEMMA ChatNext ==
    ASSUME IsFiniteSet(Client)
    PROVE  ChatInv /\ [Next]_vars => ChatInv'
<1>1. CASE UNCHANGED chatVars
  BY <1>1 DEF chatVars, ChatInv, ChatTypes, BotPlace, BotObeys, Obeys, Rows, Inserters
<1> QED
  BY <1>1, ChatSteps, ChatSend, ChatPoll, ChatHandleSubscribe, ChatHandleInsert,
     ChatHandleUnsubscribe, ChatCrash, ChatApi, ChatApiUnsubscribe DEF Chat!Next

\* What the chat commanded last is what it has, once the bot has caught up.
LEMMA ChatKept ==
    ASSUME IsFiniteSet(Client), ChatInv
    PROVE  Chat!LastCommandWins /\ Chat!DuplicatesBounded
<1>1. ASSUME Chat!Caught, ~touched  PROVE Obeys(Len(commands))
  <2>1. batch[1] > batch[2] /\ (offset = Len(commands) + 1 \/ confirmed = Len(commands))
    BY <1>1 DEF Chat!Caught
  <2>2. ~checked
    BY <2>1, ChatFacts DEF ChatInv, BotPlace
  <2>3. CASE offset = Len(commands) + 1
    <3>1. offset # 0 /\ offset - 1 = Len(commands)
      BY <2>3, ChatFacts
    <3> QED
      BY <1>1, <2>2, <3>1 DEF ChatInv, BotObeys
  <2>4. CASE confirmed = Len(commands)
    <3>1. PICK place \in confirmed..Len(commands) : Obeys(place)
      BY <1>1 DEF ChatInv, BotObeys
    <3>2. place = Len(commands)
      BY <2>4, ChatFacts
    <3> QED
      BY <3>1, <3>2
  <2> QED
    BY <2>1, <2>3, <2>4
<1>2. ASSUME Obeys(Len(commands))
      PROVE  Cardinality(activeRows) =
                 IF commands # <<>> /\ commands[Len(commands)] = "/subscribe" THEN 1 ELSE 0
  <2>1. commands # <<>> <=> Len(commands) # 0
    BY ChatFacts, EmptySeq
  <2>2. CASE commands # <<>> /\ commands[Len(commands)] = "/subscribe"
    <3>1. PICK row : activeRows = {row}
      BY <1>2, <2>1, <2>2 DEF Obeys
    <3> QED
      BY <2>2, <3>1, FS_Singleton
  <2>3. CASE ~(commands # <<>> /\ commands[Len(commands)] = "/subscribe")
    <3>1. activeRows = {}
      BY <1>2, <2>1, <2>3 DEF Obeys
    <3> QED
      BY <2>3, <3>1, FS_EmptySet
  <2> QED
    BY <2>2, <2>3
<1>3. Chat!LastCommandWins
  BY <1>1, <1>2, ChatCardinality DEF Chat!LastCommandWins
<1>4. Cardinality(activeRows) <= 1 + Cardinality(Client)
  BY ChatCounts DEF ChatInv, Rows
<1> QED
  BY <1>3, <1>4, ChatCardinality DEF Chat!DuplicatesBounded

(***************************************************************************)
(* Counts beside rows                                                      *)
(***************************************************************************)

LikeRow == [user : Visitor, number : Nat]

VisitKind == {"like", "subscribe", "unsubscribe", "rate"}

VisitPlace == {"row", "insert", "delete", "more", "less", "average"}

VisitRecord == [kind : VisitKind, user : Visitor, at : VisitPlace]
                   \cup [kind : VisitKind, user : Visitor, at : VisitPlace, row : LikeRow]

VisitTypes ==
    /\ visit \in [Visit -> {Community!NoVisit} \cup VisitRecord]
    /\ likes \subseteq LikeRow /\ nextLike \in Nat

\* A call with these is at this place.
Stands(call_, kind, place) == call_.kind = kind /\ call_.at = place

\* The calls that have changed the rows and not yet their count.
Owing(kind, place) == {v \in Visit : Stands(visit[v], kind, place)}

\* The count is that of the rows once the calls on their way to it have arrived.
LikeInv ==
    /\ IsFiniteSet(likes) /\ likeCount \in Nat
    /\ IsFiniteSet(Owing("like", "more")) /\ IsFiniteSet(Owing("like", "less"))
    /\ "likes" \notin bent =>
           likeCount + Cardinality(Owing("like", "more"))
               = Cardinality(likes) + Cardinality(Owing("like", "less"))

SubscriberInv ==
    /\ IsFiniteSet(subscribers) /\ subscriberCount \in Nat
    /\ IsFiniteSet(Owing("subscribe", "more")) /\ IsFiniteSet(Owing("unsubscribe", "less"))
    /\ "subscribers" \notin bent =>
           subscriberCount + Cardinality(Owing("subscribe", "more"))
               = Cardinality(subscribers) + Cardinality(Owing("unsubscribe", "less"))

\* The average is that of the ratings, or a call is about to work it out.
AverageInv ==
    "average" \notin bent => average = Community!Averaged
                             \/ \E v \in Visit : Stands(visit[v], "rate", "average")

CountersInv == VisitTypes /\ LikeInv /\ SubscriberInv /\ AverageInv

LEMMA CountersSteps == [Next]_vars => Community!Next \/ UNCHANGED communityVars
  BY Zenon DEF Next, Only, vars

LEMMA CommunityCardinality == \A S : Community!Cardinality(S) = Cardinality(S)
  BY Zenon DEF Cardinality, Community!Cardinality

LEMMA DecreasedByOne ==
    ASSUME NEW n \in Nat
    PROVE  Community!Decreased(n) = IF n = 0 THEN 0 ELSE n - 1
<1> DEFINE m == IF n = 0 THEN 0 ELSE n - 1
<1>1. m \in {n - 1, 0} /\ \A y \in {n - 1, 0} : m >= y
  OBVIOUS
<1>2. \A x \in {n - 1, 0} : (\A y \in {n - 1, 0} : x >= y) => x = m
  OBVIOUS
<1> HIDE DEF m
<1>3. (CHOOSE x \in {n - 1, 0} : \A y \in {n - 1, 0} : x >= y) = m
  BY <1>1, <1>2
<1> QED
  BY <1>3 DEF Community!Decreased, Community!Max, m

\* The sum over no ratings.
LEMMA NothingAveraged == ratings = {} => Community!Averaged = [sum |-> 0, count |-> 0]
<1> SUFFICES ASSUME ratings = {}  PROVE Community!Averaged = [sum |-> 0, count |-> 0]
  OBVIOUS
<1> DEFINE Any(s) == CHOOSE r \in s : TRUE
           Sums(f) == f = [s \in SUBSET {} |-> IF s = {} THEN 0 ELSE Any(s).score + f[s \ {Any(s)}]]
           sum == CHOOSE f : Sums(f)
<1>1. Sums([s \in SUBSET {} |-> 0])
  OBVIOUS
<1>2. Sums(sum)
  BY <1>1, Zenon
<1>3. sum[{}] = 0
  <2> HIDE DEF sum
  <2> QED
    BY <1>2
<1>4. Community!MapThenSumSet(LAMBDA r : r.score, ratings) = sum[{}]
  BY Zenon DEF Community!MapThenSumSet, Community!MapThenFoldSet
<1>5. Community!Cardinality(ratings) = 0
  BY CommunityCardinality, FS_EmptySet
<1> QED
  BY <1>3, <1>4, <1>5, Zenon DEF Community!Averaged

LEMMA CountersInit == Init => CountersInv
<1> SUFFICES ASSUME Init  PROVE CountersInv
  OBVIOUS
<1>1. Community!Init
  BY Zenon DEF Init
<1>2. /\ likes = {} /\ likeCount = 0 /\ nextLike = 1 /\ subscribers = {} /\ subscriberCount = 0
      /\ visit = [v \in Visit |-> Community!NoVisit]
  BY <1>1, Zenon DEF Community!Init
<1>3. VisitTypes
  BY <1>2 DEF VisitTypes
<1>4. \A kind \in VisitKind : \A place : Owing(kind, place) = {}
  BY <1>2 DEF Owing, Stands, Community!NoVisit, VisitKind
<1>5. IsFiniteSet({}) /\ Cardinality({}) = 0
  BY FS_EmptySet
<1>6. /\ Owing("like", "more") = {} /\ Owing("like", "less") = {}
      /\ Owing("subscribe", "more") = {} /\ Owing("unsubscribe", "less") = {}
  BY <1>4 DEF VisitKind
<1>7. LikeInv
  BY <1>2, <1>5, <1>6 DEF LikeInv
<1>8. SubscriberInv
  BY <1>2, <1>5, <1>6 DEF SubscriberInv
<1>9. average = Community!Averaged
  BY <1>1, NothingAveraged, Zenon DEF Community!Init
<1> QED
  BY <1>3, <1>7, <1>8, <1>9 DEF CountersInv, AverageInv

\* What a call that moves on adds to those who owe, and takes from them.
Owes(call_, kind, place) == IF Stands(call_, kind, place) THEN 1 ELSE 0

OwingMoved(v, c, kind, place) ==
    /\ IsFiniteSet(Owing(kind, place)')
    /\ Cardinality(Owing(kind, place)) \in Nat /\ Cardinality(Owing(kind, place)') \in Nat
    /\ Cardinality(Owing(kind, place)')
           = Cardinality(Owing(kind, place)) + Owes(c, kind, place) - Owes(visit[v], kind, place)

LEMMA OwingMoves ==
    ASSUME VisitTypes, NEW v \in Visit, NEW c, visit' = [visit EXCEPT ![v] = c],
           NEW kind, NEW place, IsFiniteSet(Owing(kind, place))
    PROVE  OwingMoved(v, c, kind, place)
<1> DEFINE old == Owing(kind, place)
           new == Owing(kind, place)'
<1>1. new = {w \in Visit : IF w = v THEN Stands(c, kind, place) ELSE Stands(visit[w], kind, place)}
  BY DEF Owing, Stands, VisitTypes
<1>2. old = {w \in Visit : Stands(visit[w], kind, place)} /\ IsFiniteSet(old)
  BY DEF Owing
<1> HIDE DEF old, new
<1>3. CASE Stands(c, kind, place) /\ ~Stands(visit[v], kind, place)
  <2>1. new = old \cup {v} /\ v \notin old
    BY <1>1, <1>2, <1>3
  <2>2. IsFiniteSet(new) /\ Cardinality(new) = Cardinality(old) + 1
    BY <1>2, <2>1, FS_AddElement
  <2> QED
    BY <1>2, <1>3, <2>2, FS_CardinalityType DEF OwingMoved, Owes, old, new
<1>4. CASE ~Stands(c, kind, place) /\ Stands(visit[v], kind, place)
  <2>1. new = old \ {v} /\ v \in old
    BY <1>1, <1>2, <1>4
  <2>2. IsFiniteSet(new) /\ Cardinality(new) = Cardinality(old) - 1
    BY <1>2, <2>1, FS_RemoveElement
  <2> QED
    BY <1>2, <1>4, <2>2, FS_CardinalityType DEF OwingMoved, Owes, old, new
<1>5. CASE Stands(c, kind, place) <=> Stands(visit[v], kind, place)
  <2>1. new = old
    BY <1>1, <1>2, <1>5
  <2> QED
    BY <1>2, <1>5, <2>1, FS_CardinalityType DEF OwingMoved, Owes, old, new
<1> QED
  BY <1>3, <1>4, <1>5

LEMMA LikesMove ==
    ASSUME CountersInv, NEW v \in Visit, NEW c, visit' = [visit EXCEPT ![v] = c],
           IsFiniteSet(likes'), likeCount' \in Nat,
           "likes" \notin bent' =>
               /\ "likes" \notin bent
               /\ likeCount' - likeCount + Owes(c, "like", "more") - Owes(visit[v], "like", "more")
                      = Cardinality(likes') - Cardinality(likes) + Owes(c, "like", "less")
                            - Owes(visit[v], "like", "less")
    PROVE  LikeInv'
<1>1. LikeInv /\ VisitTypes
  BY DEF CountersInv
<1>2. /\ IsFiniteSet(Owing("like", "more")')
      /\ Cardinality(Owing("like", "more")) \in Nat /\ Cardinality(Owing("like", "more")') \in Nat
      /\ Cardinality(Owing("like", "more")')
             = Cardinality(Owing("like", "more")) + Owes(c, "like", "more")
                   - Owes(visit[v], "like", "more")
  <2>1. IsFiniteSet(Owing("like", "more"))
    BY <1>1 DEF LikeInv
  <2>2. OwingMoved(v, c, "like", "more")
    BY <1>1, <2>1, OwingMoves
  <2> QED
    BY <2>2, Zenon DEF OwingMoved
<1>3. /\ IsFiniteSet(Owing("like", "less")')
      /\ Cardinality(Owing("like", "less")) \in Nat /\ Cardinality(Owing("like", "less")') \in Nat
      /\ Cardinality(Owing("like", "less")')
             = Cardinality(Owing("like", "less")) + Owes(c, "like", "less")
                   - Owes(visit[v], "like", "less")
  <2>1. IsFiniteSet(Owing("like", "less"))
    BY <1>1 DEF LikeInv
  <2>2. OwingMoved(v, c, "like", "less")
    BY <1>1, <2>1, OwingMoves
  <2> QED
    BY <2>2, Zenon DEF OwingMoved
<1>4. Cardinality(likes) \in Nat /\ Cardinality(likes') \in Nat /\ likeCount \in Nat
  BY <1>1, FS_CardinalityType DEF LikeInv
<1>5. /\ Owes(c, "like", "more") \in Nat /\ Owes(visit[v], "like", "more") \in Nat
      /\ Owes(c, "like", "less") \in Nat /\ Owes(visit[v], "like", "less") \in Nat
  BY DEF Owes
<1>6. ASSUME "likes" \notin bent'
      PROVE  likeCount' + Cardinality(Owing("like", "more")')
                 = Cardinality(likes') + Cardinality(Owing("like", "less")')
  <2>1. likeCount + Cardinality(Owing("like", "more"))
            = Cardinality(likes) + Cardinality(Owing("like", "less"))
    BY <1>1, <1>6 DEF LikeInv
  <2>2. likeCount' - likeCount + Owes(c, "like", "more") - Owes(visit[v], "like", "more")
            = Cardinality(likes') - Cardinality(likes) + Owes(c, "like", "less")
                  - Owes(visit[v], "like", "less")
    BY <1>6
  <2> DEFINE more == Cardinality(Owing("like", "more"))
             less == Cardinality(Owing("like", "less"))
             moreNext == Cardinality(Owing("like", "more")')
             lessNext == Cardinality(Owing("like", "less")')
             a == Owes(c, "like", "more")
             b == Owes(visit[v], "like", "more")
             d == Owes(c, "like", "less")
             e == Owes(visit[v], "like", "less")
             likeRows == Cardinality(likes)
             likeRowsNext == Cardinality(likes')
             n == likeCount
             nNext == likeCount'
  <2>3. /\ more \in Nat /\ less \in Nat /\ moreNext \in Nat /\ lessNext \in Nat
        /\ a \in Nat /\ b \in Nat /\ d \in Nat /\ e \in Nat
        /\ likeRows \in Nat /\ likeRowsNext \in Nat /\ n \in Nat /\ nNext \in Nat
    BY <1>2, <1>3, <1>4, <1>5
  <2>4. /\ moreNext = more + a - b /\ lessNext = less + d - e
        /\ n + more = likeRows + less /\ nNext - n + a - b = likeRowsNext - likeRows + d - e
    BY <1>2, <1>3, <2>1, <2>2
  <2> HIDE DEF more, less, moreNext, lessNext, a, b, d, e, likeRows, likeRowsNext, n, nNext
  <2>5. nNext + moreNext = likeRowsNext + lessNext
    BY <2>3, <2>4
  <2> QED
    BY <2>5 DEF nNext, moreNext, likeRowsNext, lessNext
<1> QED
  BY <1>2, <1>3, <1>6 DEF LikeInv

\* A call that touches no like, and neither comes to owe nor has owed a count.
LEMMA LikesRest ==
    ASSUME CountersInv, NEW v \in Visit, NEW c, visit' = [visit EXCEPT ![v] = c],
           UNCHANGED <<likes, likeCount>>,
           "likes" \notin bent' =>
               /\ "likes" \notin bent
               /\ ~Stands(c, "like", "more") /\ ~Stands(visit[v], "like", "more")
               /\ ~Stands(c, "like", "less") /\ ~Stands(visit[v], "like", "less")
    PROVE  LikeInv'
<1>1. /\ IsFiniteSet(likes') /\ likeCount' \in Nat /\ Cardinality(likes') = Cardinality(likes)
      /\ Cardinality(likes) \in Nat /\ likeCount' = likeCount
  BY FS_CardinalityType DEF CountersInv, LikeInv
<1>2. "likes" \notin bent' =>
          /\ Owes(c, "like", "more") = 0 /\ Owes(visit[v], "like", "more") = 0
          /\ Owes(c, "like", "less") = 0 /\ Owes(visit[v], "like", "less") = 0
  BY DEF Owes
<1>3. "likes" \notin bent' =>
          /\ "likes" \notin bent
          /\ likeCount' - likeCount + Owes(c, "like", "more") - Owes(visit[v], "like", "more")
                 = Cardinality(likes') - Cardinality(likes) + Owes(c, "like", "less")
                       - Owes(visit[v], "like", "less")
  BY <1>1, <1>2
<1> QED
  BY <1>1, <1>3, LikesMove

LEMMA SubscribersMove ==
    ASSUME CountersInv, NEW v \in Visit, NEW c, visit' = [visit EXCEPT ![v] = c],
           IsFiniteSet(subscribers'), subscriberCount' \in Nat,
           "subscribers" \notin bent' =>
               /\ "subscribers" \notin bent
               /\ subscriberCount' - subscriberCount
                      + Owes(c, "subscribe", "more") - Owes(visit[v], "subscribe", "more")
                      = Cardinality(subscribers') - Cardinality(subscribers)
                            + Owes(c, "unsubscribe", "less") - Owes(visit[v], "unsubscribe", "less")
    PROVE  SubscriberInv'
<1>1. SubscriberInv /\ VisitTypes
  BY DEF CountersInv
<1>2. /\ IsFiniteSet(Owing("subscribe", "more")')
      /\ Cardinality(Owing("subscribe", "more")) \in Nat
      /\ Cardinality(Owing("subscribe", "more")') \in Nat
      /\ Cardinality(Owing("subscribe", "more")')
             = Cardinality(Owing("subscribe", "more")) + Owes(c, "subscribe", "more")
                   - Owes(visit[v], "subscribe", "more")
  <2>1. IsFiniteSet(Owing("subscribe", "more"))
    BY <1>1 DEF SubscriberInv
  <2>2. OwingMoved(v, c, "subscribe", "more")
    BY <1>1, <2>1, OwingMoves
  <2> QED
    BY <2>2, Zenon DEF OwingMoved
<1>3. /\ IsFiniteSet(Owing("unsubscribe", "less")')
      /\ Cardinality(Owing("unsubscribe", "less")) \in Nat
      /\ Cardinality(Owing("unsubscribe", "less")') \in Nat
      /\ Cardinality(Owing("unsubscribe", "less")')
             = Cardinality(Owing("unsubscribe", "less")) + Owes(c, "unsubscribe", "less")
                   - Owes(visit[v], "unsubscribe", "less")
  <2>1. IsFiniteSet(Owing("unsubscribe", "less"))
    BY <1>1 DEF SubscriberInv
  <2>2. OwingMoved(v, c, "unsubscribe", "less")
    BY <1>1, <2>1, OwingMoves
  <2> QED
    BY <2>2, Zenon DEF OwingMoved
<1>4. /\ Cardinality(subscribers) \in Nat /\ Cardinality(subscribers') \in Nat
      /\ subscriberCount \in Nat
  BY <1>1, FS_CardinalityType DEF SubscriberInv
<1>5. \A r, kind, place : Owes(r, kind, place) \in Nat
  BY DEF Owes
<1> QED
  BY <1>1, <1>2, <1>3, <1>4, <1>5 DEF SubscriberInv

\* A call that touches no subscriber, and neither comes to owe nor has owed a count.
LEMMA SubscribersRest ==
    ASSUME CountersInv, NEW v \in Visit, NEW c, visit' = [visit EXCEPT ![v] = c],
           UNCHANGED <<subscribers, subscriberCount>>,
           "subscribers" \notin bent' =>
               /\ "subscribers" \notin bent
               /\ ~Stands(c, "subscribe", "more") /\ ~Stands(visit[v], "subscribe", "more")
               /\ ~Stands(c, "unsubscribe", "less") /\ ~Stands(visit[v], "unsubscribe", "less")
    PROVE  SubscriberInv'
<1>1. /\ IsFiniteSet(subscribers') /\ subscriberCount' \in Nat
      /\ Cardinality(subscribers') = Cardinality(subscribers)
      /\ Cardinality(subscribers) \in Nat /\ subscriberCount' = subscriberCount
  BY FS_CardinalityType DEF CountersInv, SubscriberInv
<1>2. "subscribers" \notin bent' =>
          /\ Owes(c, "subscribe", "more") = 0 /\ Owes(visit[v], "subscribe", "more") = 0
          /\ Owes(c, "unsubscribe", "less") = 0 /\ Owes(visit[v], "unsubscribe", "less") = 0
  BY DEF Owes
<1>3. "subscribers" \notin bent' =>
          /\ "subscribers" \notin bent
          /\ subscriberCount' - subscriberCount
                 + Owes(c, "subscribe", "more") - Owes(visit[v], "subscribe", "more")
                 = Cardinality(subscribers') - Cardinality(subscribers)
                       + Owes(c, "unsubscribe", "less") - Owes(visit[v], "unsubscribe", "less")
  BY <1>1, <1>2
<1> QED
  BY <1>1, <1>3, SubscribersMove

\* A call that was to work the average out goes on to do so, unless it is given up.
LEMMA AverageMoves ==
    ASSUME CountersInv, NEW v \in Visit, NEW c, visit' = [visit EXCEPT ![v] = c],
           UNCHANGED <<ratings, average>>,
           "average" \notin bent' =>
               /\ "average" \notin bent
               /\ ~Stands(visit[v], "rate", "average")
    PROVE  AverageInv'
<1>1. Community!Averaged' = Community!Averaged
  <2>1. ratings' = ratings
    OBVIOUS
  <2> QED
    BY <2>1, Zenon DEF Community!Averaged, Community!MapThenSumSet, Community!MapThenFoldSet,
       Community!Cardinality
<1>2. VisitTypes /\ AverageInv
  BY DEF CountersInv
<1>3. ASSUME NEW w \in Visit, Stands(visit[w], "rate", "average"), w # v
      PROVE  Stands(visit[w], "rate", "average")'
  BY <1>2, <1>3 DEF VisitTypes, Stands
<1> QED
  BY <1>1, <1>2, <1>3 DEF AverageInv

\* The places of a call tell what it owes.
LEMMA VisitFacts ==
    ASSUME VisitTypes, NEW v \in Visit, NEW kind \in VisitKind, visit[v].kind = kind
    PROVE  /\ visit[v] \in VisitRecord /\ visit[v].user \in Visitor
           /\ \A place \in VisitPlace :
                  /\ [visit[v] EXCEPT !.at = place] \in VisitRecord
                  /\ [visit[v] EXCEPT !.at = place].kind = kind
                  /\ [visit[v] EXCEPT !.at = place].at = place
<1>1. visit[v] \in VisitRecord
  BY DEF VisitTypes, Community!NoVisit, VisitKind
<1> QED
  BY <1>1 DEF VisitRecord

\* A call that ends owes nothing.
LEMMA NoVisitOwes ==
    \A kind \in VisitKind : \A place : ~Stands(Community!NoVisit, kind, place)
  BY DEF Community!NoVisit, VisitKind, Stands

LEMMA CountersBegin ==
    ASSUME CountersInv, NEW v \in Visit, Community!Begin(v)
    PROVE  CountersInv'
<1>1. PICK kind \in VisitKind, u \in Visitor :
          visit' = [visit EXCEPT ![v] = [kind |-> kind, user |-> u, at |-> "row"]]
  BY Zenon DEF Community!Begin, VisitKind
<1> DEFINE c == [kind |-> kind, user |-> u, at |-> "row"]
<1>2. /\ visit[v] = Community!NoVisit
      /\ UNCHANGED <<likes, likeCount, nextLike, subscribers, subscriberCount, ratings, average, bent>>
  BY Zenon DEF Community!Begin
<1>3. c \in VisitRecord /\ c.at = "row"
  BY DEF VisitRecord, VisitPlace
<1>4. \A k \in VisitKind, place \in {"more", "less", "average"} :
          ~Stands(c, k, place) /\ ~Stands(visit[v], k, place)
  BY <1>2, <1>3, NoVisitOwes DEF Stands
<1>5. visit' = [visit EXCEPT ![v] = c]
  BY <1>1
<1> HIDE DEF c
<1>6. VisitTypes'
  BY <1>2, <1>3, <1>5 DEF CountersInv, VisitTypes
<1>7. LikeInv'
  BY <1>2, <1>4, <1>5, LikesRest DEF VisitKind
<1>8. SubscriberInv'
  BY <1>2, <1>4, <1>5, SubscribersRest DEF VisitKind
<1>9. AverageInv'
  BY <1>2, <1>4, <1>5, AverageMoves DEF VisitKind
<1> QED
  BY <1>6, <1>7, <1>8, <1>9 DEF CountersInv

LEMMA CountersLookForLike ==
    ASSUME CountersInv, NEW v \in Visit, Community!LookForLike(v)
    PROVE  CountersInv'
<1> DEFINE own == {k \in likes : k.user = visit[v].user}
           c == IF own = {} THEN [visit[v] EXCEPT !.at = "insert"]
                ELSE [kind |-> "like", user |-> visit[v].user, at |-> "delete",
                      row |-> CHOOSE k \in own : TRUE]
<1>1. /\ visit[v].kind = "like" /\ visit[v].at = "row" /\ visit' = [visit EXCEPT ![v] = c]
      /\ UNCHANGED <<likes, likeCount, nextLike, subscribers, subscriberCount, ratings, average, bent>>
  BY Zenon DEF Community!LookForLike, Community!At
<1>2. VisitTypes
  BY DEF CountersInv
<1>3. c \in VisitRecord /\ c.at \in {"insert", "delete"}
  <2>1. CASE own = {}
    BY <1>1, <1>2, <2>1, VisitFacts DEF VisitKind, VisitPlace
  <2>2. CASE own # {}
    <3>1. (CHOOSE k \in own : TRUE) \in LikeRow
      BY <1>2, <2>2 DEF VisitTypes
    <3>2. visit[v].user \in Visitor
      BY <1>1, <1>2, VisitFacts DEF VisitKind
    <3> HIDE DEF own
    <3> QED
      BY <2>2, <3>1, <3>2 DEF VisitRecord, VisitKind, VisitPlace
  <2> QED
    BY <2>1, <2>2
<1> HIDE DEF own, c
<1>4. \A k \in VisitKind, place \in {"more", "less", "average"} :
          ~Stands(c, k, place) /\ ~Stands(visit[v], k, place)
  BY <1>1, <1>3 DEF Stands
<1>5. VisitTypes'
  BY <1>1, <1>2, <1>3 DEF VisitTypes
<1>6. LikeInv'
  BY <1>1, <1>4, LikesRest DEF VisitKind
<1>7. SubscriberInv'
  BY <1>1, <1>4, SubscribersRest DEF VisitKind
<1>8. AverageInv'
  BY <1>1, <1>4, AverageMoves DEF VisitKind
<1> QED
  BY <1>5, <1>6, <1>7, <1>8 DEF CountersInv

LEMMA CountersInsertLike ==
    ASSUME CountersInv, NEW v \in Visit, Community!InsertLike(v)
    PROVE  CountersInv'
<1>1. /\ visit[v].kind = "like" /\ visit[v].at = "insert"
      /\ UNCHANGED <<likeCount, subscribers, subscriberCount, ratings, average, bent>>
  BY Zenon DEF Community!InsertLike, Community!At
<1>2. VisitTypes /\ IsFiniteSet(likes) /\ Cardinality(likes) \in Nat /\ likeCount \in Nat
  BY FS_CardinalityType DEF CountersInv, LikeInv
<1>3. visit[v] \in VisitRecord /\ visit[v].user \in Visitor
  BY <1>1, <1>2, VisitFacts DEF VisitKind
<1>4. CASE /\ \A k \in likes : k.user # visit[v].user
           /\ likes' = likes \cup {[user |-> visit[v].user, number |-> nextLike]}
           /\ nextLike' = nextLike + 1
           /\ visit' = [visit EXCEPT ![v].at = "more"]
  <2> DEFINE c == [visit[v] EXCEPT !.at = "more"]
             row == [user |-> visit[v].user, number |-> nextLike]
  <2>1. c \in VisitRecord /\ c.kind = "like" /\ c.at = "more" /\ visit' = [visit EXCEPT ![v] = c]
    BY <1>1, <1>2, <1>4, VisitFacts DEF VisitKind, VisitPlace
  <2>2. row \in LikeRow /\ row \notin likes /\ likes' = likes \cup {row}
    BY <1>2, <1>3, <1>4 DEF LikeRow, VisitTypes
  <2> HIDE DEF c, row
  <2>3. /\ IsFiniteSet(likes') /\ Cardinality(likes') = Cardinality(likes) + 1
        /\ likeCount' \in Nat /\ likeCount' = likeCount
    BY <1>1, <1>2, <2>2, FS_AddElement
  <2>4. /\ Owes(c, "like", "more") = 1 /\ Owes(visit[v], "like", "more") = 0
        /\ Owes(c, "like", "less") = 0 /\ Owes(visit[v], "like", "less") = 0
    BY <1>1, <2>1 DEF Owes, Stands
  <2>5. likeCount' - likeCount + Owes(c, "like", "more") - Owes(visit[v], "like", "more")
            = Cardinality(likes') - Cardinality(likes) + Owes(c, "like", "less")
                  - Owes(visit[v], "like", "less")
    BY <1>2, <2>3, <2>4
  <2>6. LikeInv'
    BY <1>1, <2>1, <2>3, <2>5, LikesMove
  <2>7. \A place \in {"more", "less", "average"}, k \in {"subscribe", "unsubscribe", "rate"} :
            ~Stands(c, k, place) /\ ~Stands(visit[v], k, place)
    BY <1>1, <2>1 DEF Stands
  <2>8. SubscriberInv'
    BY <1>1, <2>1, <2>7, SubscribersRest
  <2>9. AverageInv'
    BY <1>1, <2>1, <2>7, AverageMoves
  <2>10. VisitTypes'
    BY <1>2, <1>4, <2>1, <2>2 DEF VisitTypes
  <2> QED
    BY <2>6, <2>8, <2>9, <2>10 DEF CountersInv
<1>5. CASE visit' = [visit EXCEPT ![v] = Community!NoVisit] /\ UNCHANGED <<likes, nextLike>>
  <2>1. \A k \in VisitKind, place \in {"more", "less", "average"} :
            ~Stands(Community!NoVisit, k, place) /\ ~Stands(visit[v], k, place)
    BY <1>1, NoVisitOwes DEF Stands
  <2>2. VisitTypes'
    BY <1>2, <1>5 DEF VisitTypes
  <2>3. LikeInv'
    BY <1>1, <1>5, <2>1, LikesRest DEF VisitKind
  <2>4. SubscriberInv'
    BY <1>1, <1>5, <2>1, SubscribersRest DEF VisitKind
  <2>5. AverageInv'
    BY <1>1, <1>5, <2>1, AverageMoves DEF VisitKind
  <2> QED
    BY <2>2, <2>3, <2>4, <2>5 DEF CountersInv
<1> QED
  BY <1>4, <1>5, Zenon DEF Community!InsertLike, Community!To, Community!End

\* Taking away a like that another call has taken leaves the count bent.
LEMMA CountersDeleteLike ==
    ASSUME CountersInv, NEW v \in Visit, Community!DeleteLike(v)
    PROVE  CountersInv'
<1>1. /\ visit[v].kind = "like" /\ visit[v].at = "delete"
      /\ likes' = likes \ {visit[v].row}
      /\ bent' = (IF visit[v].row \in likes THEN bent ELSE bent \cup {"likes"})
      /\ UNCHANGED <<likeCount, nextLike, subscribers, subscriberCount, ratings, average>>
      /\ visit' = [visit EXCEPT ![v].at = "less"]
  BY Zenon DEF Community!DeleteLike, Community!At, Community!To
<1>2. VisitTypes /\ IsFiniteSet(likes) /\ Cardinality(likes) \in Nat /\ likeCount \in Nat
  BY FS_CardinalityType DEF CountersInv, LikeInv
<1> DEFINE c == [visit[v] EXCEPT !.at = "less"]
<1>3. c \in VisitRecord /\ c.kind = "like" /\ c.at = "less" /\ visit' = [visit EXCEPT ![v] = c]
  BY <1>1, <1>2, VisitFacts DEF VisitKind, VisitPlace
<1> HIDE DEF c
<1>4. /\ Owes(c, "like", "more") = 0 /\ Owes(visit[v], "like", "more") = 0
      /\ Owes(c, "like", "less") = 1 /\ Owes(visit[v], "like", "less") = 0
  BY <1>1, <1>3 DEF Owes, Stands
<1>5. /\ IsFiniteSet(likes') /\ likeCount' \in Nat /\ likeCount' = likeCount
      /\ visit[v].row \in likes => Cardinality(likes') = Cardinality(likes) - 1
  BY <1>1, <1>2, FS_RemoveElement
<1>6. "likes" \notin bent' =>
          /\ "likes" \notin bent
          /\ likeCount' - likeCount + Owes(c, "like", "more") - Owes(visit[v], "like", "more")
                 = Cardinality(likes') - Cardinality(likes) + Owes(c, "like", "less")
                       - Owes(visit[v], "like", "less")
  <2> SUFFICES ASSUME "likes" \notin bent'
      PROVE  /\ "likes" \notin bent
             /\ likeCount' - likeCount + Owes(c, "like", "more") - Owes(visit[v], "like", "more")
                    = Cardinality(likes') - Cardinality(likes) + Owes(c, "like", "less")
                          - Owes(visit[v], "like", "less")
    OBVIOUS
  <2>1. visit[v].row \in likes /\ bent' = bent
    BY <1>1
  <2> QED
    BY <1>2, <1>4, <1>5, <2>1
<1>7. LikeInv'
  BY <1>3, <1>5, <1>6, LikesMove
<1>8. \A place \in {"more", "less", "average"}, k \in {"subscribe", "unsubscribe", "rate"} :
          ~Stands(c, k, place) /\ ~Stands(visit[v], k, place)
  BY <1>1, <1>3 DEF Stands
<1>9. /\ "subscribers" \notin bent' => "subscribers" \notin bent
      /\ "average" \notin bent' => "average" \notin bent
  BY <1>1
<1>10. SubscriberInv'
  BY <1>1, <1>3, <1>8, <1>9, SubscribersRest
<1>11. AverageInv'
  BY <1>1, <1>3, <1>8, <1>9, AverageMoves
<1>12. VisitTypes'
  BY <1>1, <1>2, <1>3 DEF VisitTypes
<1> QED
  BY <1>7, <1>10, <1>11, <1>12 DEF CountersInv

LEMMA CountersCountLike ==
    ASSUME CountersInv, NEW v \in Visit, Community!CountLike(v)
    PROVE  CountersInv'
<1>1. /\ UNCHANGED <<likes, nextLike, subscribers, subscriberCount, ratings, average>>
      /\ visit' = [visit EXCEPT ![v] = Community!NoVisit]
  BY Zenon DEF Community!CountLike, Community!End
<1>2. \/ /\ visit[v].kind = "like" /\ visit[v].at = "more"
         /\ likeCount' = likeCount + 1 /\ UNCHANGED bent
      \/ /\ visit[v].kind = "like" /\ visit[v].at = "less"
         /\ likeCount' = Community!Decreased(likeCount)
         /\ bent' = (IF likeCount = 0 THEN bent \cup {"likes"} ELSE bent)
  BY Zenon DEF Community!CountLike, Community!At
<1>3. VisitTypes /\ IsFiniteSet(likes) /\ Cardinality(likes) \in Nat /\ likeCount \in Nat
  BY FS_CardinalityType DEF CountersInv, LikeInv
<1>4. /\ \A k \in VisitKind, place \in {"more", "less", "average"} :
             ~Stands(Community!NoVisit, k, place)
      /\ Owes(Community!NoVisit, "like", "more") = 0 /\ Owes(Community!NoVisit, "like", "less") = 0
  BY NoVisitOwes DEF Owes, VisitKind
<1>5. likes' = likes /\ IsFiniteSet(likes') /\ Cardinality(likes') = Cardinality(likes)
  <2>1. likes' = likes
    BY <1>1
  <2> QED
    BY <1>3, <2>1, Zenon
<1>6. LikeInv'
  <2>1. CASE visit[v].at = "more" /\ likeCount' = likeCount + 1 /\ UNCHANGED bent
    <3>1. Owes(visit[v], "like", "more") = 1 /\ Owes(visit[v], "like", "less") = 0
      BY <1>2, <2>1 DEF Owes, Stands
    <3>2. likeCount' - likeCount + Owes(Community!NoVisit, "like", "more")
                  - Owes(visit[v], "like", "more")
              = Cardinality(likes') - Cardinality(likes) + Owes(Community!NoVisit, "like", "less")
                    - Owes(visit[v], "like", "less")
      BY <1>3, <1>4, <1>5, <2>1, <3>1
    <3>3. likeCount' \in Nat
      BY <1>3, <2>1
    <3> QED
      BY <1>1, <1>5, <2>1, <3>2, <3>3, LikesMove
  <2>2. CASE /\ visit[v].at = "less" /\ likeCount' = Community!Decreased(likeCount)
             /\ bent' = (IF likeCount = 0 THEN bent \cup {"likes"} ELSE bent)
    <3>1. Owes(visit[v], "like", "more") = 0 /\ Owes(visit[v], "like", "less") = 1
      BY <1>2, <2>2 DEF Owes, Stands
    <3>2. likeCount' \in Nat /\ (likeCount # 0 => likeCount' = likeCount - 1)
      BY <1>3, <2>2, DecreasedByOne
    <3>3. "likes" \notin bent' => "likes" \notin bent /\ likeCount # 0
      BY <2>2
    <3>4. "likes" \notin bent' =>
              /\ "likes" \notin bent
              /\ likeCount' - likeCount + Owes(Community!NoVisit, "like", "more")
                     - Owes(visit[v], "like", "more")
                     = Cardinality(likes') - Cardinality(likes)
                           + Owes(Community!NoVisit, "like", "less")
                           - Owes(visit[v], "like", "less")
      BY <1>3, <1>4, <1>5, <3>1, <3>2, <3>3
    <3>5. likeCount' \in Nat
      BY <1>3, <2>2, DecreasedByOne
    <3> QED
      BY <1>1, <1>5, <3>4, <3>5, LikesMove
  <2> QED
    BY <1>2, <2>1, <2>2
<1>7. \A k \in {"subscribe", "unsubscribe", "rate"}, place \in {"more", "less", "average"} :
          ~Stands(visit[v], k, place)
  BY <1>2 DEF Stands
<1>8. /\ "subscribers" \notin bent' => "subscribers" \notin bent
      /\ "average" \notin bent' => "average" \notin bent
  BY <1>2
<1>9. SubscriberInv'
  BY <1>1, <1>4, <1>7, <1>8, SubscribersRest DEF VisitKind
<1>10. AverageInv'
  BY <1>1, <1>7, <1>8, AverageMoves
<1>11. VisitTypes'
  BY <1>1, <1>3 DEF VisitTypes
<1> QED
  BY <1>6, <1>9, <1>10, <1>11 DEF CountersInv

LEMMA CountersSubscription ==
    ASSUME CountersInv, NEW v \in Visit, Community!Subscribe(v) \/ Community!Unsubscribe(v)
    PROVE  CountersInv'
<1>1. UNCHANGED <<likes, likeCount, nextLike, subscriberCount, ratings, average, bent>>
  BY Zenon DEF Community!Subscribe, Community!Unsubscribe
<1>2. VisitTypes
  BY DEF CountersInv
<1>3. /\ IsFiniteSet(subscribers) /\ Cardinality(subscribers) \in Nat /\ subscriberCount \in Nat
      /\ subscriberCount' \in Nat /\ subscriberCount' = subscriberCount
  BY <1>1, FS_CardinalityType DEF CountersInv, SubscriberInv
<1>4. visit[v].at = "row" /\ visit[v].kind \in {"subscribe", "unsubscribe"}
  BY Zenon DEF Community!Subscribe, Community!Unsubscribe, Community!At
<1>5. \A k \in VisitKind, place \in {"more", "less", "average"} : ~Stands(visit[v], k, place)
  BY <1>4 DEF Stands
<1>6. \/ visit' = [visit EXCEPT ![v] = Community!NoVisit] /\ UNCHANGED subscribers
      \/ /\ visit[v].kind = "subscribe" /\ visit[v].user \notin subscribers
         /\ visit' = [visit EXCEPT ![v].at = "more"]
         /\ subscribers' = subscribers \cup {visit[v].user}
      \/ /\ visit[v].kind = "unsubscribe" /\ visit[v].user \in subscribers
         /\ visit' = [visit EXCEPT ![v].at = "less"]
         /\ subscribers' = subscribers \ {visit[v].user}
  BY Zenon DEF Community!Subscribe, Community!Unsubscribe, Community!At, Community!To, Community!End
<1>7. CASE visit' = [visit EXCEPT ![v] = Community!NoVisit] /\ UNCHANGED subscribers
  <2>1. \A k \in VisitKind, place \in {"more", "less", "average"} :
            ~Stands(Community!NoVisit, k, place)
    BY NoVisitOwes
  <2>2. VisitTypes'
    BY <1>1, <1>2, <1>7 DEF VisitTypes
  <2>3. LikeInv'
    BY <1>1, <1>5, <1>7, <2>1, LikesRest DEF VisitKind
  <2>4. SubscriberInv'
    BY <1>1, <1>5, <1>7, <2>1, SubscribersRest DEF VisitKind
  <2>5. AverageInv'
    BY <1>1, <1>5, <1>7, AverageMoves DEF VisitKind
  <2> QED
    BY <2>2, <2>3, <2>4, <2>5 DEF CountersInv
<1>8. CASE visit[v].kind = "subscribe" /\ subscribers' = subscribers \cup {visit[v].user}
           /\ visit[v].user \notin subscribers /\ visit' = [visit EXCEPT ![v].at = "more"]
  <2> DEFINE c == [visit[v] EXCEPT !.at = "more"]
  <2>1. c \in VisitRecord /\ c.kind = "subscribe" /\ c.at = "more" /\ visit' = [visit EXCEPT ![v] = c]
    BY <1>2, <1>8, VisitFacts DEF VisitKind, VisitPlace
  <2> HIDE DEF c
  <2>2. IsFiniteSet(subscribers') /\ Cardinality(subscribers') = Cardinality(subscribers) + 1
    BY <1>3, <1>8, FS_AddElement
  <2>3. /\ Owes(c, "subscribe", "more") = 1 /\ Owes(visit[v], "subscribe", "more") = 0
        /\ Owes(c, "unsubscribe", "less") = 0 /\ Owes(visit[v], "unsubscribe", "less") = 0
    BY <1>4, <2>1 DEF Owes, Stands
  <2>4. subscriberCount' - subscriberCount
              + Owes(c, "subscribe", "more") - Owes(visit[v], "subscribe", "more")
            = Cardinality(subscribers') - Cardinality(subscribers)
                  + Owes(c, "unsubscribe", "less") - Owes(visit[v], "unsubscribe", "less")
    BY <1>3, <2>2, <2>3
  <2>5. SubscriberInv'
    BY <1>1, <1>3, <2>1, <2>2, <2>4, SubscribersMove
  <2>6. \A k \in {"like", "rate"}, place \in {"more", "less", "average"} : ~Stands(c, k, place)
    BY <2>1 DEF Stands
  <2>7. LikeInv'
    BY <1>1, <1>5, <2>1, <2>6, LikesRest DEF VisitKind
  <2>8. AverageInv'
    BY <1>1, <1>5, <2>1, AverageMoves DEF VisitKind
  <2>9. VisitTypes'
    BY <1>1, <1>2, <2>1 DEF VisitTypes
  <2> QED
    BY <2>5, <2>7, <2>8, <2>9 DEF CountersInv
<1>9. CASE visit[v].kind = "unsubscribe" /\ subscribers' = subscribers \ {visit[v].user}
           /\ visit[v].user \in subscribers /\ visit' = [visit EXCEPT ![v].at = "less"]
  <2> DEFINE c == [visit[v] EXCEPT !.at = "less"]
  <2>1. c \in VisitRecord /\ c.kind = "unsubscribe" /\ c.at = "less" /\ visit' = [visit EXCEPT ![v] = c]
    BY <1>2, <1>9, VisitFacts DEF VisitKind, VisitPlace
  <2> HIDE DEF c
  <2>2. IsFiniteSet(subscribers') /\ Cardinality(subscribers') = Cardinality(subscribers) - 1
    BY <1>3, <1>9, FS_RemoveElement
  <2>3. /\ Owes(c, "subscribe", "more") = 0 /\ Owes(visit[v], "subscribe", "more") = 0
        /\ Owes(c, "unsubscribe", "less") = 1 /\ Owes(visit[v], "unsubscribe", "less") = 0
    BY <1>4, <2>1 DEF Owes, Stands
  <2>4. subscriberCount' - subscriberCount
              + Owes(c, "subscribe", "more") - Owes(visit[v], "subscribe", "more")
            = Cardinality(subscribers') - Cardinality(subscribers)
                  + Owes(c, "unsubscribe", "less") - Owes(visit[v], "unsubscribe", "less")
    BY <1>3, <2>2, <2>3
  <2>5. SubscriberInv'
    BY <1>1, <1>3, <2>1, <2>2, <2>4, SubscribersMove
  <2>6. \A k \in {"like", "rate"}, place \in {"more", "less", "average"} : ~Stands(c, k, place)
    BY <2>1 DEF Stands
  <2>7. LikeInv'
    BY <1>1, <1>5, <2>1, <2>6, LikesRest DEF VisitKind
  <2>8. AverageInv'
    BY <1>1, <1>5, <2>1, AverageMoves DEF VisitKind
  <2>9. VisitTypes'
    BY <1>1, <1>2, <2>1 DEF VisitTypes
  <2> QED
    BY <2>5, <2>7, <2>8, <2>9 DEF CountersInv
<1> QED
  BY <1>6, <1>7, <1>8, <1>9

LEMMA CountersCountSubscriber ==
    ASSUME CountersInv, NEW v \in Visit, Community!CountSubscriber(v)
    PROVE  CountersInv'
<1>1. /\ UNCHANGED <<likes, likeCount, nextLike, subscribers, ratings, average>>
      /\ visit' = [visit EXCEPT ![v] = Community!NoVisit]
  BY Zenon DEF Community!CountSubscriber, Community!End
<1>2. \/ /\ visit[v].kind = "subscribe" /\ visit[v].at = "more"
         /\ subscriberCount' = subscriberCount + 1 /\ UNCHANGED bent
      \/ /\ visit[v].kind = "unsubscribe" /\ visit[v].at = "less"
         /\ subscriberCount' = Community!Decreased(subscriberCount)
         /\ bent' = (IF subscriberCount = 0 THEN bent \cup {"subscribers"} ELSE bent)
  BY Zenon DEF Community!CountSubscriber, Community!At
<1>3. /\ VisitTypes /\ IsFiniteSet(subscribers) /\ Cardinality(subscribers) \in Nat
      /\ subscriberCount \in Nat
  BY FS_CardinalityType DEF CountersInv, SubscriberInv
<1>4. /\ \A k \in VisitKind, place \in {"more", "less", "average"} :
             ~Stands(Community!NoVisit, k, place)
      /\ Owes(Community!NoVisit, "subscribe", "more") = 0
      /\ Owes(Community!NoVisit, "unsubscribe", "less") = 0
  BY NoVisitOwes DEF Owes, VisitKind
<1>5. IsFiniteSet(subscribers') /\ Cardinality(subscribers') = Cardinality(subscribers)
  <2>1. subscribers' = subscribers
    BY <1>1
  <2> QED
    BY <1>3, <2>1, Zenon
<1>6. SubscriberInv'
  <2>1. CASE /\ visit[v].kind = "subscribe" /\ visit[v].at = "more"
             /\ subscriberCount' = subscriberCount + 1 /\ UNCHANGED bent
    <3>1. Owes(visit[v], "subscribe", "more") = 1 /\ Owes(visit[v], "unsubscribe", "less") = 0
      BY <2>1 DEF Owes, Stands
    <3>2. subscriberCount' - subscriberCount + Owes(Community!NoVisit, "subscribe", "more")
                  - Owes(visit[v], "subscribe", "more")
              = Cardinality(subscribers') - Cardinality(subscribers)
                    + Owes(Community!NoVisit, "unsubscribe", "less")
                    - Owes(visit[v], "unsubscribe", "less")
      BY <1>3, <1>4, <1>5, <2>1, <3>1
    <3>3. subscriberCount' \in Nat
      BY <1>3, <2>1
    <3> QED
      BY <1>1, <1>5, <2>1, <3>2, <3>3, SubscribersMove
  <2>2. CASE /\ visit[v].kind = "unsubscribe" /\ visit[v].at = "less"
             /\ subscriberCount' = Community!Decreased(subscriberCount)
             /\ bent' = (IF subscriberCount = 0 THEN bent \cup {"subscribers"} ELSE bent)
    <3>1. Owes(visit[v], "subscribe", "more") = 0 /\ Owes(visit[v], "unsubscribe", "less") = 1
      BY <2>2 DEF Owes, Stands
    <3>2. /\ subscriberCount' \in Nat
          /\ subscriberCount # 0 => subscriberCount' = subscriberCount - 1
      BY <1>3, <2>2, DecreasedByOne
    <3>3. "subscribers" \notin bent' => "subscribers" \notin bent /\ subscriberCount # 0
      BY <2>2
    <3>4. "subscribers" \notin bent' =>
              /\ "subscribers" \notin bent
              /\ subscriberCount' - subscriberCount + Owes(Community!NoVisit, "subscribe", "more")
                     - Owes(visit[v], "subscribe", "more")
                     = Cardinality(subscribers') - Cardinality(subscribers)
                           + Owes(Community!NoVisit, "unsubscribe", "less")
                           - Owes(visit[v], "unsubscribe", "less")
      BY <1>3, <1>4, <1>5, <3>1, <3>2, <3>3
    <3> QED
      BY <1>1, <1>5, <3>2, <3>4, SubscribersMove
  <2> QED
    BY <1>2, <2>1, <2>2
<1>7. \A k \in {"like", "rate"}, place \in {"more", "less", "average"} :
          ~Stands(visit[v], k, place)
  BY <1>2 DEF Stands
<1>8. /\ "likes" \notin bent' => "likes" \notin bent
      /\ "average" \notin bent' => "average" \notin bent
  BY <1>2
<1>9. LikeInv'
  BY <1>1, <1>4, <1>7, <1>8, LikesRest DEF VisitKind
<1>10. AverageInv'
  BY <1>1, <1>7, <1>8, AverageMoves
<1>11. VisitTypes'
  BY <1>1, <1>3 DEF VisitTypes
<1> QED
  BY <1>6, <1>9, <1>10, <1>11 DEF CountersInv

LEMMA CountersRate ==
    ASSUME CountersInv, NEW v \in Visit, Community!Rate(v)
    PROVE  CountersInv'
<1>1. /\ visit[v].kind = "rate" /\ visit[v].at = "row" /\ visit' = [visit EXCEPT ![v].at = "average"]
      /\ bent' = bent \ {"average"}
      /\ UNCHANGED <<likes, likeCount, nextLike, subscribers, subscriberCount>>
  BY Zenon DEF Community!Rate, Community!At, Community!To
<1>2. VisitTypes
  BY DEF CountersInv
<1> DEFINE c == [visit[v] EXCEPT !.at = "average"]
<1>3. c \in VisitRecord /\ c.kind = "rate" /\ c.at = "average" /\ visit' = [visit EXCEPT ![v] = c]
  BY <1>1, <1>2, VisitFacts DEF VisitKind, VisitPlace
<1> HIDE DEF c
<1>4. \A k \in VisitKind, place \in {"more", "less"} :
          ~Stands(c, k, place) /\ ~Stands(visit[v], k, place)
  BY <1>1, <1>3 DEF Stands
<1>5. /\ "likes" \notin bent' => "likes" \notin bent
      /\ "subscribers" \notin bent' => "subscribers" \notin bent
  BY <1>1
<1>6. LikeInv'
  BY <1>1, <1>3, <1>4, <1>5, LikesRest DEF VisitKind
<1>7. SubscriberInv'
  BY <1>1, <1>3, <1>4, <1>5, SubscribersRest DEF VisitKind
<1>8. Stands(visit[v], "rate", "average")'
  BY <1>2, <1>3 DEF VisitTypes, Stands
<1>9. AverageInv'
  BY <1>8 DEF AverageInv
<1>10. VisitTypes'
  BY <1>1, <1>2, <1>3 DEF VisitTypes
<1> QED
  BY <1>6, <1>7, <1>9, <1>10 DEF CountersInv

LEMMA CountersAverage ==
    ASSUME CountersInv, NEW v \in Visit, Community!AverageRatings(v)
    PROVE  CountersInv'
<1>1. /\ visit[v].kind = "rate" /\ visit[v].at = "average"
      /\ visit' = [visit EXCEPT ![v] = Community!NoVisit] /\ average' = Community!Averaged
      /\ UNCHANGED <<likes, likeCount, nextLike, subscribers, subscriberCount, ratings, bent>>
  BY Zenon DEF Community!AverageRatings, Community!At, Community!End
<1>2. VisitTypes
  BY DEF CountersInv
<1>3. \A k \in VisitKind, place \in {"more", "less"} :
          ~Stands(Community!NoVisit, k, place) /\ ~Stands(visit[v], k, place)
  BY <1>1, NoVisitOwes DEF Stands
<1>4. LikeInv'
  BY <1>1, <1>3, LikesRest DEF VisitKind
<1>5. SubscriberInv'
  BY <1>1, <1>3, SubscribersRest DEF VisitKind
<1>6. AverageInv'
  <2>1. ratings' = ratings
    BY <1>1
  <2>2. Community!Averaged' = Community!Averaged
    BY <2>1, Zenon DEF Community!Averaged, Community!MapThenSumSet, Community!MapThenFoldSet,
       Community!Cardinality
  <2> QED
    BY <1>1, <2>2 DEF AverageInv
<1>7. VisitTypes'
  BY <1>1, <1>2 DEF VisitTypes
<1> QED
  BY <1>4, <1>5, <1>6, <1>7 DEF CountersInv

\* A call that ends between a row and its count leaves the count bent.
LEMMA CountersAbort ==
    ASSUME CountersInv, NEW v \in Visit, Community!Abort(v)
    PROVE  CountersInv'
<1> DEFINE cut == CASE visit[v].at \in {"more", "less"} ->
                           IF visit[v].kind = "like" THEN {"likes"} ELSE {"subscribers"}
                    [] visit[v].at = "average" -> {"average"}
                    [] OTHER -> {}
<1>1. /\ visit' = [visit EXCEPT ![v] = Community!NoVisit] /\ bent' = bent \cup cut
      /\ UNCHANGED <<likes, likeCount, nextLike, subscribers, subscriberCount, ratings, average>>
  BY Zenon DEF Community!Abort, Community!End
<1>2. VisitTypes
  BY DEF CountersInv
<1>3. \A k \in VisitKind, place \in {"more", "less", "average"} :
          ~Stands(Community!NoVisit, k, place)
  BY NoVisitOwes
<1>4. /\ Stands(visit[v], "like", "more") \/ Stands(visit[v], "like", "less") => "likes" \in cut
      /\ Stands(visit[v], "subscribe", "more") \/ Stands(visit[v], "unsubscribe", "less")
             => "subscribers" \in cut
      /\ Stands(visit[v], "rate", "average") => "average" \in cut
  BY DEF Stands
<1> HIDE DEF cut
<1>5. LikeInv'
  BY <1>1, <1>3, <1>4, LikesRest DEF VisitKind
<1>6. SubscriberInv'
  BY <1>1, <1>3, <1>4, SubscribersRest DEF VisitKind
<1>7. AverageInv'
  BY <1>1, <1>4, AverageMoves
<1>8. VisitTypes'
  BY <1>1, <1>2 DEF VisitTypes
<1> QED
  BY <1>5, <1>6, <1>7, <1>8 DEF CountersInv

LEMMA CountersNext == CountersInv /\ [Next]_vars => CountersInv'
<1> SUFFICES ASSUME CountersInv, Community!Next \/ UNCHANGED communityVars  PROVE CountersInv'
  BY CountersSteps
<1>1. CASE UNCHANGED communityVars
  <2>1. UNCHANGED <<likes, likeCount, nextLike, subscribers, subscriberCount, ratings, average,
                    visit, bent>>
    BY <1>1 DEF communityVars
  <2>2. Community!Averaged' = Community!Averaged
    <3>1. ratings' = ratings
      BY <2>1
    <3> QED
      BY <3>1, Zenon DEF Community!Averaged, Community!MapThenSumSet, Community!MapThenFoldSet,
         Community!Cardinality
  <2>3. VisitTypes' /\ Owing("like", "more")' = Owing("like", "more")
        /\ Owing("like", "less")' = Owing("like", "less")
        /\ Owing("subscribe", "more")' = Owing("subscribe", "more")
        /\ Owing("unsubscribe", "less")' = Owing("unsubscribe", "less")
    BY <2>1 DEF CountersInv, VisitTypes, Owing, Stands
  <2>4. LikeInv' /\ SubscriberInv'
    BY <2>1, <2>3 DEF CountersInv, LikeInv, SubscriberInv
  <2>5. AverageInv'
    BY <2>1, <2>2 DEF CountersInv, AverageInv, Stands
  <2> QED
    BY <2>3, <2>4, <2>5 DEF CountersInv
<1>2. CASE Community!Next
  BY <1>2, CountersBegin, CountersLookForLike, CountersInsertLike, CountersDeleteLike,
     CountersCountLike, CountersSubscription, CountersCountSubscriber, CountersRate,
     CountersAverage, CountersAbort DEF Community!Next
<1> QED
  BY <1>1, <1>2

\* At rest nobody owes a count.
LEMMA CountersKept == CountersInv => Community!CountsMatchRows
<1> SUFFICES ASSUME CountersInv, Community!AtRest
             PROVE  /\ "likes" \in bent \/ likeCount = Community!Cardinality(likes)
                    /\ "subscribers" \in bent \/ subscriberCount = Community!Cardinality(subscribers)
                    /\ "average" \in bent \/ average = Community!Averaged
  BY Zenon DEF Community!CountsMatchRows
<1>1. \A v \in Visit : visit[v] = Community!NoVisit
  BY Zenon DEF Community!AtRest
<1>2. \A v \in Visit, k \in VisitKind, place \in VisitPlace : ~Stands(visit[v], k, place)
  BY <1>1, NoVisitOwes
<1>3. /\ Owing("like", "more") = {} /\ Owing("like", "less") = {}
      /\ Owing("subscribe", "more") = {} /\ Owing("unsubscribe", "less") = {}
  BY <1>2 DEF Owing, VisitKind, VisitPlace
<1>4. /\ Cardinality({}) = 0 /\ Cardinality(likes) \in Nat /\ Cardinality(subscribers) \in Nat
      /\ likeCount \in Nat /\ subscriberCount \in Nat
  BY FS_EmptySet, FS_CardinalityType DEF CountersInv, LikeInv, SubscriberInv
<1>5. "likes" \in bent \/ likeCount = Cardinality(likes)
  BY <1>3, <1>4 DEF CountersInv, LikeInv
<1>6. "subscribers" \in bent \/ subscriberCount = Cardinality(subscribers)
  BY <1>3, <1>4 DEF CountersInv, SubscriberInv
<1>7. "average" \in bent \/ average = Community!Averaged
  BY <1>2 DEF CountersInv, AverageInv, VisitKind, VisitPlace
<1> QED
  BY <1>5, <1>6, <1>7, CommunityCardinality

(***************************************************************************)
(* Whoever likes, subscribes, rates or gives up halfway, the counts are    *)
(* those of the rows once nobody is under way, but for the causes named;   *)
(* and once the bot has caught up its chat has what it commanded last,     *)
(* however often the bot died, and never more rows than there are bot and  *)
(* callers at once.                                                        *)
(***************************************************************************)
THEOREM CommunityStaysTrue ==
    ASSUME IsFiniteSet(Client)
    PROVE  Spec => []CommunityKept
<1> DEFINE Inv == CountersInv /\ ChatInv
<1>1. Inv => CommunityKept
  BY CountersKept, ChatKept DEF CommunityKept
<1>2. Init => Inv
  BY CountersInit, ChatInit
<1>3. Inv /\ [Next]_vars => Inv'
  BY CountersNext, ChatNext
<1> QED
  BY <1>1, <1>2, <1>3, PTL DEF Spec

(***************************************************************************)
(* The discovery job                                                       *)
(***************************************************************************)

LEMMA DiscoverySteps == [Next]_vars => Discovery!Next \/ UNCHANGED discoveryVars
  BY Zenon DEF Next, Only, vars

LEMMA DiscoveryConstants == MaxRequests \in Nat /\ TopN \in Nat
  BY LedgerConstants

DiscoveryTypes ==
    /\ requestEnd \in Nat /\ requestEnd <= MaxRequests
    /\ reading \in Nat /\ 1 <= reading /\ reading <= requestEnd + 1
    /\ checkpoint \in Nat /\ checkpoint <= reading
    /\ sending \in Nat /\ restarts \in Nat
    /\ yields \in [1..MaxRequests -> Seq(0..TopN)]

\* What was passed has an attempt that is in the topic to its end, or went by.
Passed(r) ==
    \/ r \in unread
    \/ \E a \in DOMAIN yields[r] : \A k \in 1..yields[r][a] : <<r, a, k>> \in sentTo

\* An attempt under way is the last one, and what it sent so far is in the topic.
AttemptUnderWay ==
    sending > 0 =>
        /\ reading <= requestEnd
        /\ Len(yields[reading]) > 0
        /\ sending <= yields[reading][Len(yields[reading])]
        /\ \A k \in 1..(sending - 1) : <<reading, Len(yields[reading]), k>> \in sentTo

\* A request has at most one attempt for each time the job began, and one that
\* is not passed or being answered has none for this time.
AttemptsBounded ==
    \A r \in 1..MaxRequests :
        /\ Len(yields[r]) <= restarts + 1
        /\ r > reading \/ (r = reading /\ sending = 0) => Len(yields[r]) <= restarts

DiscoveryInv ==
    /\ DiscoveryTypes
    /\ \A r \in 1..(reading - 1) : Passed(r)
    /\ AttemptUnderWay
    /\ AttemptsBounded

LEMMA DiscoveryInit == Init => DiscoveryInv
<1> SUFFICES ASSUME Init  PROVE DiscoveryInv
  OBVIOUS
<1>1. /\ requestEnd = 0 /\ reading = 1 /\ checkpoint = 0 /\ sending = 0 /\ restarts = 0
      /\ yields = [r \in 1..MaxRequests |-> <<>>]
  BY Zenon DEF Init, Discovery!Init, Discovery!DiscoveryRequest
<1>2. \A r \in 1..MaxRequests : yields[r] = <<>>
  BY <1>1
<1>3. DiscoveryTypes
  BY <1>1, DiscoveryConstants DEF DiscoveryTypes
<1> QED
  BY <1>1, <1>2, <1>3 DEF DiscoveryInv, AttemptUnderWay, AttemptsBounded

LEMMA DiscoveryRunGA ==
    ASSUME DiscoveryInv, Discovery!RunGA
    PROVE  DiscoveryInv'
<1>1. PICK n \in 0..TopN :
        /\ sending = 0 /\ reading <= requestEnd
        /\ yields' = [yields EXCEPT ![reading] = Append(@, n)]
        /\ IF n = 0 THEN reading' = reading + 1 /\ UNCHANGED sending
           ELSE sending' = 1 /\ UNCHANGED reading
        /\ UNCHANGED <<requestEnd, checkpoint, sentTo, unread, restarts>>
  BY Zenon DEF Discovery!RunGA
<1>2. DiscoveryTypes /\ reading \in 1..MaxRequests
  BY <1>1, DiscoveryConstants DEF DiscoveryInv, DiscoveryTypes
<1>3. /\ yields[reading] \in Seq(0..TopN) /\ yields'[reading] = Append(yields[reading], n)
      /\ \A r \in (1..MaxRequests) \ {reading} : yields'[r] = yields[r]
      /\ yields' \in [1..MaxRequests -> Seq(0..TopN)]
  BY <1>1, <1>2 DEF DiscoveryTypes
<1>4. /\ Len(yields'[reading]) = Len(yields[reading]) + 1
      /\ Len(yields[reading]) \in Nat
      /\ yields'[reading][Len(yields[reading]) + 1] = n
      /\ DOMAIN yields'[reading] = 1..(Len(yields[reading]) + 1)
  BY <1>3
<1>5. DiscoveryTypes'
  BY <1>1, <1>2, <1>3 DEF DiscoveryTypes
<1>6. ASSUME NEW r \in 1..(reading' - 1)
      PROVE  Passed(r)'
  <2>1. CASE r < reading
    <3>1. Passed(r) /\ yields'[r] = yields[r]
      <4>1. r \in 1..(reading - 1) /\ r \in (1..MaxRequests) \ {reading}
        BY <1>1, <1>2, <2>1, DiscoveryConstants DEF DiscoveryTypes
      <4> QED
        BY <1>3, <4>1 DEF DiscoveryInv
    <3> QED
      BY <1>1, <3>1 DEF Passed
  <2>2. CASE r = reading /\ n = 0
    BY <1>4, <2>2 DEF Passed
  <2> QED
    BY <1>1, <1>2, <2>1, <2>2
<1>7. AttemptUnderWay'
  BY <1>1, <1>2, <1>4 DEF AttemptUnderWay, DiscoveryTypes
<1>8. AttemptsBounded'
  <2> SUFFICES ASSUME NEW r \in 1..MaxRequests
               PROVE  /\ Len(yields'[r]) <= restarts + 1
                      /\ r > reading' \/ (r = reading' /\ sending' = 0) => Len(yields'[r]) <= restarts
    BY <1>1 DEF AttemptsBounded
  <2>1. CASE r = reading
    BY <1>1, <1>2, <1>4, <2>1 DEF DiscoveryInv, AttemptsBounded, DiscoveryTypes
  <2>2. CASE r # reading
    BY <1>1, <1>2, <1>3, <2>2 DEF DiscoveryInv, AttemptsBounded, DiscoveryTypes
  <2> QED
    BY <2>1, <2>2
<1> QED
  BY <1>5, <1>6, <1>7, <1>8 DEF DiscoveryInv

LEMMA DiscoverySend ==
    ASSUME DiscoveryInv, Discovery!Send
    PROVE  DiscoveryInv'
<1> DEFINE a == Len(yields[reading])
<1>1. /\ sending > 0
      /\ sentTo' = sentTo \cup {<<reading, a, sending>>}
      /\ IF sending = yields[reading][a]
         THEN sending' = 0 /\ reading' = reading + 1
         ELSE sending' = sending + 1 /\ UNCHANGED reading
      /\ UNCHANGED <<requestEnd, checkpoint, yields, unread, restarts>>
  BY Zenon DEF Discovery!Send, Discovery!Proceed, Discovery!Attempt
<1>2. /\ DiscoveryTypes /\ reading \in 1..MaxRequests /\ a \in Nat \ {0} /\ a \in DOMAIN yields[reading]
      /\ yields[reading][a] \in Nat /\ sending <= yields[reading][a]
      /\ reading <= requestEnd
      /\ \A k \in 1..(sending - 1) : <<reading, a, k>> \in sentTo
  <2>1. DiscoveryTypes /\ AttemptUnderWay
    BY DEF DiscoveryInv
  <2>2. reading \in 1..MaxRequests /\ yields[reading] \in Seq(0..TopN)
    BY <1>1, <2>1, DiscoveryConstants DEF DiscoveryTypes, AttemptUnderWay
  <2> QED
    BY <1>1, <2>1, <2>2, DiscoveryConstants DEF AttemptUnderWay
<1>3. \A k \in 1..sending : <<reading, a, k>> \in sentTo'
  BY <1>1, <1>2 DEF DiscoveryTypes
<1> HIDE DEF a
<1>4. DiscoveryTypes'
  BY <1>1, <1>2 DEF DiscoveryTypes
<1>5. ASSUME NEW r \in 1..(reading' - 1)
      PROVE  Passed(r)'
  <2>1. CASE r < reading
    <3>1. Passed(r)
      BY <1>2, <2>1 DEF DiscoveryInv, DiscoveryTypes
    <3> QED
      BY <1>1, <3>1 DEF Passed
  <2>2. CASE r = reading /\ sending = yields[reading][a]
    BY <1>1, <1>2, <1>3, <2>2 DEF Passed
  <2> QED
    BY <1>1, <1>2, <2>1, <2>2 DEF DiscoveryTypes
<1>6. AttemptUnderWay'
  BY <1>1, <1>2, <1>3 DEF AttemptUnderWay, DiscoveryTypes, a
<1>7. AttemptsBounded'
  BY <1>1, <1>2 DEF DiscoveryInv, AttemptsBounded, DiscoveryTypes
<1> QED
  BY <1>4, <1>5, <1>6, <1>7 DEF DiscoveryInv

\* What the job goes past when it begins again went by unread.
LEMMA DiscoveryBegins ==
    ASSUME DiscoveryInv, NEW position \in 1..(requestEnd + 1), Discovery!BeginAt(position),
           checkpoint' \in Nat, checkpoint' <= position, sentTo \subseteq sentTo'
    PROVE  DiscoveryInv'
<1>1. /\ restarts' = restarts + 1 /\ reading' = position /\ sending' = 0
      /\ unread' = unread \cup reading..(position - 1)
      /\ UNCHANGED <<requestEnd, yields>>
  BY Zenon DEF Discovery!BeginAt
<1>2. DiscoveryTypes
  BY DEF DiscoveryInv
<1>3. DiscoveryTypes'
  BY <1>1, <1>2 DEF DiscoveryTypes
<1>4. ASSUME NEW r \in 1..(reading' - 1)
      PROVE  Passed(r)'
  <2>1. CASE r < reading
    <3>1. Passed(r)
      BY <1>1, <1>2, <2>1 DEF DiscoveryInv, DiscoveryTypes
    <3> QED
      BY <1>1, <3>1 DEF Passed
  <2>2. CASE r >= reading
    <3>1. r \in reading..(position - 1)
      BY <1>1, <1>2, <2>2 DEF DiscoveryTypes
    <3> QED
      BY <1>1, <3>1 DEF Passed
  <2> QED
    BY <1>1, <1>2, <2>1, <2>2 DEF DiscoveryTypes
<1>5. AttemptUnderWay'
  BY <1>1 DEF AttemptUnderWay
<1>6. AttemptsBounded'
  <2>1. \A r \in 1..MaxRequests : Len(yields[r]) \in Nat /\ Len(yields[r]) <= restarts + 1
    BY <1>2 DEF DiscoveryInv, AttemptsBounded, DiscoveryTypes
  <2> QED
    BY <1>1, <1>2, <2>1 DEF AttemptsBounded, DiscoveryTypes
<1> QED
  BY <1>3, <1>4, <1>5, <1>6 DEF DiscoveryInv

LEMMA DiscoveryNext == DiscoveryInv /\ [Next]_vars => DiscoveryInv'
<1> SUFFICES ASSUME DiscoveryInv, Discovery!Next \/ UNCHANGED discoveryVars  PROVE DiscoveryInv'
  BY DiscoverySteps
<1> USE DEF DiscoveryInv
<1>1. CASE UNCHANGED discoveryVars
  BY <1>1 DEF discoveryVars, DiscoveryTypes, Passed, AttemptUnderWay, AttemptsBounded
<1>2. CASE Discovery!PublishRequest
  <2>1. requestEnd' = requestEnd + 1 /\ requestEnd < MaxRequests
        /\ UNCHANGED <<reading, checkpoint, sending, yields, sentTo, unread, restarts>>
    BY <1>2, Zenon DEF Discovery!PublishRequest
  <2>2. DiscoveryTypes'
    BY <2>1, DiscoveryConstants DEF DiscoveryTypes
  <2> QED
    BY <2>1, <2>2 DEF DiscoveryTypes, Passed, AttemptUnderWay, AttemptsBounded
<1>3. CASE Discovery!TakeCheckpoint
  <2>1. checkpoint' = reading
        /\ UNCHANGED <<requestEnd, reading, sending, yields, sentTo, unread, restarts>>
    BY <1>3, Zenon DEF Discovery!TakeCheckpoint
  <2> QED
    BY <2>1 DEF DiscoveryTypes, Passed, AttemptUnderWay, AttemptsBounded
<1>4. CASE Discovery!Fail
  <2> DEFINE position == IF checkpoint = 0 THEN requestEnd + 1 ELSE checkpoint
  <2>1. Discovery!BeginAt(position) /\ checkpoint' = checkpoint /\ sentTo \subseteq sentTo'
    BY <1>4 DEF Discovery!Fail
  <2>2. position \in 1..(requestEnd + 1) /\ checkpoint' \in Nat /\ checkpoint' <= position
    BY <2>1 DEF DiscoveryTypes
  <2> QED
    BY <2>1, <2>2, DiscoveryBegins
<1>5. CASE Discovery!Deploy
  <2>1. Discovery!BeginAt(requestEnd + 1) /\ checkpoint' = 0 /\ sentTo' = sentTo
    BY <1>5, Zenon DEF Discovery!Deploy
  <2>2. requestEnd + 1 \in 1..(requestEnd + 1) /\ checkpoint' \in Nat /\ checkpoint' <= requestEnd + 1
    BY <2>1 DEF DiscoveryTypes
  <2> QED
    BY <2>1, <2>2, DiscoveryBegins
<1> QED
  BY <1>1, <1>2, <1>3, <1>4, <1>5, DiscoveryRunGA, DiscoverySend DEF Discovery!Next

(***************************************************************************)
(* Every request the discovery job has passed was answered in full by one  *)
(* of its attempts, unless it came while the job began without a           *)
(* checkpoint, and it is evolved again only after a failure: the half of   *)
(* PipelineWhole that is about the job.                                    *)
(***************************************************************************)
THEOREM DiscoveryAnswers ==
    Spec => [](Runs("discovery") => Discovery!PassedIsAnswered /\ Discovery!EvolvedOncePerRun)
<1>1. DiscoveryInv => Discovery!PassedIsAnswered /\ Discovery!EvolvedOncePerRun
  BY DEF DiscoveryInv, Passed, AttemptsBounded, Discovery!PassedIsAnswered,
     Discovery!EvolvedOncePerRun, Discovery!DiscoveryRequest
<1> QED
  BY <1>1, DiscoveryInit, DiscoveryNext, PTL DEF Spec

(***************************************************************************)
(* Candles                                                                 *)
(***************************************************************************)

LEMMA CandleConstants ==
    Duration \subseteq Nat \ {0} /\ TradeTime \subseteq Nat /\ TradePrice \subseteq Nat
  BY LedgerConstants

LEMMA CandlesTotal == \A f, n : Candles!Total(f, n) = Total(f, n)
  BY Zenon DEF Total, Candles!Total

\* Products.
LEMMA TimesGrow ==
    ASSUME NEW a \in Int, NEW b \in Int, NEW d \in Nat, a <= b
    PROVE  a * d \in Int /\ b * d \in Int /\ a * d <= b * d
<1>1. (b - a) * d >= 0 /\ a * d \in Int /\ b * d \in Int
  OBVIOUS
<1>2. (b - a) * d = b * d - a * d
  OBVIOUS
<1> QED
  BY <1>1, <1>2

\* The start of an interval is a multiple of its duration, at most that much
\* before any time of the interval.
LEMMA AlignIs ==
    ASSUME NEW time \in Nat, NEW d \in Nat \ {0}
    PROVE  \E q \in Nat : /\ Candles!Align(time, d) = q * d /\ q * d \in Nat
                          /\ q * d <= time /\ time < q * d + d
<1> DEFINE q == time \div d
<1>1. q \in Nat
  OBVIOUS
<1>2. time = d * q + (time % d) /\ time % d \in 0..(d - 1)
  OBVIOUS
<1>3. Candles!Align(time, d) = q * d
  BY DEF Candles!Align
<1>4. q * d = d * q /\ q * d \in Nat
  BY <1>1
<1> HIDE DEF q
<1> QED
  BY <1>1, <1>2, <1>3, <1>4

LEMMA MultiplesApart ==
    ASSUME NEW p \in Nat, NEW q \in Nat, NEW d \in Nat \ {0}, p * d < q * d
    PROVE  p + 1 <= q /\ p * d + d <= q * d
<1>1. ~(q <= p)
  <2> SUFFICES ASSUME q <= p  PROVE FALSE
    OBVIOUS
  <2> QED
    BY TimesGrow
<1>2. p + 1 <= q
  BY <1>1
<1>3. (p + 1) * d <= q * d
  BY <1>2, TimesGrow
<1>4. (p + 1) * d = p * d + d
  OBVIOUS
<1> QED
  BY <1>2, <1>3, <1>4

LEMMA AlignOf ==
    ASSUME NEW time \in Nat, NEW d \in Nat \ {0}, NEW q \in Nat, q * d <= time, time < q * d + d
    PROVE  Candles!Align(time, d) = q * d
<1>1. PICK p \in Nat : /\ Candles!Align(time, d) = p * d /\ p * d \in Nat
                       /\ p * d <= time /\ time < p * d + d
  BY AlignIs
<1>2. ~(p * d < q * d)
  BY <1>1, MultiplesApart
<1>3. ~(q * d < p * d)
  BY <1>1, MultiplesApart
<1>4. q * d \in Nat
  OBVIOUS
<1> QED
  BY <1>1, <1>2, <1>3, <1>4

LEMMA AlignGrows ==
    ASSUME NEW s \in Nat, NEW time \in Nat, NEW d \in Nat \ {0}, s <= time
    PROVE  Candles!Align(s, d) <= Candles!Align(time, d)
<1>1. PICK p \in Nat : /\ Candles!Align(s, d) = p * d /\ p * d \in Nat
                       /\ p * d <= s /\ s < p * d + d
  BY AlignIs
<1>2. PICK q \in Nat : /\ Candles!Align(time, d) = q * d /\ q * d \in Nat
                       /\ q * d <= time /\ time < q * d + d
  BY AlignIs
<1>3. ~(q * d < p * d)
  BY <1>1, <1>2, MultiplesApart
<1> QED
  BY <1>1, <1>2, <1>3

\* The interval of a coarser timeframe is that of the finer interval's start.
LEMMA AlignNested ==
    ASSUME NEW time \in Nat, NEW fine \in Nat \ {0}, NEW coarse \in Nat \ {0}, coarse % fine = 0
    PROVE  Candles!Align(Candles!Align(time, fine), coarse) = Candles!Align(time, coarse)
<1>1. PICK p \in Nat : /\ Candles!Align(time, fine) = p * fine /\ p * fine \in Nat
                       /\ p * fine <= time /\ time < p * fine + fine
  BY AlignIs
<1>2. PICK q \in Nat : /\ Candles!Align(time, coarse) = q * coarse /\ q * coarse \in Nat
                       /\ q * coarse <= time /\ time < q * coarse + coarse
  BY AlignIs
<1> DEFINE m == coarse \div fine
<1>3. m \in Nat /\ coarse = fine * m
  <2>1. m \in Nat /\ coarse = fine * m + (coarse % fine)
    OBVIOUS
  <2> QED
    BY <2>1
<1> HIDE DEF m
<1>4. q * coarse = (q * m) * fine /\ q * m \in Nat
  BY <1>3
<1>5. ~(p * fine < q * coarse)
  <2> SUFFICES ASSUME p * fine < (q * m) * fine  PROVE FALSE
    BY <1>4
  <2>1. p * fine + fine <= (q * m) * fine
    BY <1>4, MultiplesApart
  <2> QED
    BY <1>1, <1>2, <1>4, <2>1
<1>6. q * coarse <= p * fine /\ p * fine < q * coarse + coarse
  BY <1>1, <1>2, <1>5
<1> QED
  BY <1>1, <1>2, <1>6, AlignOf

\* One sequence after another.
LEMMA Joined ==
    ASSUME NEW X, NEW s \in Seq(X), NEW r \in Seq(X)
    PROVE  /\ s \o r \in Seq(X) /\ Len(s \o r) = Len(s) + Len(r)
           /\ \A i \in 1..Len(s) : (s \o r)[i] = s[i]
           /\ \A i \in 1..Len(r) : (s \o r)[Len(s) + i] = r[i]
           /\ \A i \in (Len(s) + 1)..(Len(s) + Len(r)) : (s \o r)[i] = r[i - Len(s)]
  BY ConcatProperties

Candle == [start : Nat, open : Nat, high : Nat, low : Nat, close : Nat, volume : Nat]

LEMMA CandlesExtremes ==
    ASSUME NEW a \in Nat, NEW b \in Nat
    PROVE  /\ Candles!Max({a, b}) \in {a, b} /\ Candles!Max({a, b}) >= a /\ Candles!Max({a, b}) >= b
           /\ Candles!Min({a, b}) \in {a, b} /\ Candles!Min({a, b}) <= a /\ Candles!Min({a, b}) <= b
<1>1. \E x \in {a, b} : \A y \in {a, b} : x >= y
  <2>1. CASE a >= b
    BY <2>1
  <2>2. CASE ~(a >= b)
    BY <2>2
  <2> QED
    BY <2>1, <2>2
<1>2. \E x \in {a, b} : \A y \in {a, b} : x <= y
  <2>1. CASE a <= b
    BY <2>1
  <2>2. CASE ~(a <= b)
    BY <2>2
  <2> QED
    BY <2>1, <2>2
<1>3. Candles!Max({a, b}) \in {a, b} /\ \A y \in {a, b} : Candles!Max({a, b}) >= y
  BY <1>1 DEF Candles!Max
<1>4. Candles!Min({a, b}) \in {a, b} /\ \A y \in {a, b} : Candles!Min({a, b}) <= y
  BY <1>2 DEF Candles!Min
<1> QED
  BY <1>3, <1>4

\* A candle takes up a price.
LEMMA CandleUpdated ==
    ASSUME NEW candle \in Candle, NEW price \in Nat
    PROVE  /\ Candles!Updated(candle, price) \in Candle
           /\ Candles!Updated(candle, price).start = candle.start
           /\ Candles!Updated(candle, price).open = candle.open
           /\ Candles!Updated(candle, price).high = Candles!Max({candle.high, price})
           /\ Candles!Updated(candle, price).low = Candles!Min({candle.low, price})
           /\ Candles!Updated(candle, price).close = price
           /\ Candles!Updated(candle, price).volume = candle.volume + 1
<1>1. Candles!Max({candle.high, price}) \in Nat /\ Candles!Min({candle.low, price}) \in Nat
  <2>1. candle.high \in Nat /\ candle.low \in Nat
    BY DEF Candle
  <2> QED
    BY <2>1, CandlesExtremes
<1> DEFINE hi == Candles!Max({candle.high, price})
           lo == Candles!Min({candle.low, price})
<1>2. Candles!Updated(candle, price) =
        [candle EXCEPT !.high = hi, !.low = lo, !.close = price, !.volume = candle.volume + 1]
  BY DEF Candles!Updated
<1>3. hi \in Nat /\ lo \in Nat
  BY <1>1
<1> HIDE DEF hi, lo
<1>4. Candles!Updated(candle, price) \in Candle
  <2> DEFINE c1 == [candle EXCEPT !.high = hi]
             c2 == [c1 EXCEPT !.low = lo]
             c3 == [c2 EXCEPT !.close = price]
             c4 == [c3 EXCEPT !.volume = candle.volume + 1]
  <2>1. c1 \in Candle
    BY <1>3 DEF Candle
  <2>2. c2 \in Candle
    <3> HIDE DEF c1
    <3> QED
      BY <1>3, <2>1 DEF Candle
  <2>3. c3 \in Candle
    <3> HIDE DEF c2
    <3> QED
      BY <2>2 DEF Candle
  <2>4. c4 \in Candle
    <3> HIDE DEF c3
    <3> QED
      BY <2>3 DEF Candle
  <2>5. Candles!Updated(candle, price) = c4
    BY <1>2
  <2> QED
    BY <2>4, <2>5
<1>5. /\ Candles!Updated(candle, price).start = candle.start
      /\ Candles!Updated(candle, price).open = candle.open
      /\ Candles!Updated(candle, price).high = hi
      /\ Candles!Updated(candle, price).low = lo
      /\ Candles!Updated(candle, price).close = price
      /\ Candles!Updated(candle, price).volume = candle.volume + 1
  BY <1>2 DEF Candle
<1> QED
  BY <1>4, <1>5 DEF hi, lo

LEMMA CandleOpened ==
    ASSUME NEW time \in Nat, NEW price \in Nat, NEW d \in Nat \ {0}
    PROVE  Candles!Opened(time, price, d) \in Candle
<1>1. Candles!Align(time, d) \in Nat
  BY AlignIs
<1> QED
  BY <1>1 DEF Candles!Opened, Candle

\* A candle that is emitted is followed by flat ones up to the next interval.
LEMMA GapsFilled ==
    ASSUME NEW candle \in Candle, NEW start \in Nat, NEW d \in Nat \ {0}
    PROVE  LET W == Candles!WithGaps(candle, start, d)
           IN  /\ W \in Seq(Candle) /\ Len(W) >= 1 /\ W[1] = candle
               /\ \A k \in 2..Len(W) : W[k] = Candles!Flat(candle.start + (k - 1) * d, candle.close)
<1> DEFINE W == Candles!WithGaps(candle, start, d)
           gaps == IF start > candle.start THEN (start - candle.start) \div d - 1 ELSE 0
           flats == [k \in 1..gaps |-> Candles!Flat(candle.start + k * d, candle.close)]
<1>1. W = <<candle>> \o flats
  BY DEF Candles!WithGaps
<1>2. candle.start \in Nat /\ candle.close \in Nat
  BY DEF Candle
<1>3. gaps \in Int
  BY <1>2
<1> HIDE DEF gaps
<1>4. \A k \in Nat : candle.start + k * d \in Nat
  BY <1>2
<1>5. \A k \in 1..gaps : Candles!Flat(candle.start + k * d, candle.close) \in Candle
  BY <1>2, <1>3, <1>4 DEF Candles!Flat, Candle
<1> DEFINE n == IF gaps >= 0 THEN gaps ELSE 0
<1>6. n \in Nat /\ 1..gaps = 1..n
  BY <1>3
<1> HIDE DEF n
<1>7. flats \in [1..n -> Candle] /\ \A k \in 1..n : flats[k] = Candles!Flat(candle.start + k * d, candle.close)
  BY <1>5, <1>6
<1>8. flats \in Seq(Candle) /\ Len(flats) = n
  <2> HIDE DEF flats
  <2>1. flats \in Seq(Candle)
    BY <1>6, <1>7
  <2> QED
    BY <1>6, <1>7, <2>1, LenProperties
<1> HIDE DEF flats
<1>9. <<candle>> \in Seq(Candle) /\ Len(<<candle>>) = 1 /\ <<candle>>[1] = candle
  OBVIOUS
<1>10. /\ W \in Seq(Candle) /\ Len(W) = 1 + n /\ W[1] = candle
       /\ \A i \in 1..n : W[1 + i] = flats[i]
  BY <1>1, <1>8, <1>9, Joined
<1> HIDE DEF W
<1>11. ASSUME NEW k \in 2..Len(W)
       PROVE  W[k] = Candles!Flat(candle.start + (k - 1) * d, candle.close)
  <2>1. k - 1 \in 1..n /\ 1 + (k - 1) = k
    BY <1>6, <1>10
  <2> QED
    BY <1>7, <1>10, <2>1
<1>12. Len(W) >= 1
  BY <1>6, <1>10
<1> QED
  BY <1>10, <1>11, <1>12 DEF W

\* They reach it.
LEMMA GapsReach ==
    ASSUME NEW candle \in Candle, NEW d \in Nat \ {0}, NEW p \in Nat, NEW q \in Nat,
           candle.start = p * d, p < q
    PROVE  LET W == Candles!WithGaps(candle, q * d, d)
           IN  candle.start + Len(W) * d = q * d
<1> DEFINE W == Candles!WithGaps(candle, q * d, d)
           gaps == IF q * d > candle.start THEN (q * d - candle.start) \div d - 1 ELSE 0
           flats == [k \in 1..gaps |-> Candles!Flat(candle.start + k * d, candle.close)]
<1>1. W = <<candle>> \o flats
  BY DEF Candles!WithGaps
<1>2. p + 1 <= q /\ p * d \in Int /\ q * d \in Int /\ (p + 1) * d <= q * d /\ (p + 1) * d = p * d + d
  BY TimesGrow
<1>3. q * d - candle.start = (q - p) * d
  BY <1>2
<1>4. ((q - p) * d) \div d = q - p
  <2> DEFINE m == q - p
  <2>1. m \in Nat
    BY <1>2
  <2> HIDE DEF m
  <2>2. (m * d) \div d = m
    <3>1. PICK r \in Nat : /\ Candles!Align(m * d, d) = r * d /\ r = (m * d) \div d
      BY <2>1 DEF Candles!Align
    <3>2. m * d \in Nat
      BY <2>1
    <3>3. Candles!Align(m * d, d) = m * d
      BY <2>1, <3>2, AlignOf
    <3>4. ~(r * d < m * d) /\ ~(m * d < r * d)
      BY <3>1, <3>2, <3>3
    <3>5. r = m
      <4>1. CASE r < m
        <5>1. (r + 1) * d <= m * d /\ (r + 1) * d = r * d + d /\ r * d \in Int
          BY <2>1, <4>1, TimesGrow
        <5> QED
          BY <3>1, <3>2, <3>3, <5>1
      <4>2. CASE m < r
        <5>1. (m + 1) * d <= r * d /\ (m + 1) * d = m * d + d /\ m * d \in Int
          BY <2>1, <4>2, TimesGrow
        <5> QED
          BY <3>1, <3>2, <3>3, <5>1
      <4> QED
        BY <2>1, <4>1, <4>2
    <3> QED
      BY <3>1, <3>5
  <2> QED
    BY <2>2 DEF m
<1>5. gaps = q - p - 1
  BY <1>2, <1>3, <1>4
<1> HIDE DEF gaps
<1>6. gaps \in Nat
  BY <1>2, <1>5
<1>7. candle.start \in Nat /\ candle.close \in Nat /\ \A k \in Nat : candle.start + k * d \in Nat
  BY DEF Candle
<1>8. flats \in [1..gaps -> Candle]
  BY <1>7 DEF Candles!Flat, Candle
<1> HIDE DEF flats
<1>9. flats \in Seq(Candle) /\ Len(flats) = gaps
  <2>1. flats \in Seq(Candle)
    BY <1>6, <1>8
  <2> QED
    BY <1>6, <1>8, <2>1, LenProperties
<1>10. <<candle>> \in Seq(Candle) /\ Len(<<candle>>) = 1
  OBVIOUS
<1>11. Len(W) = 1 + gaps
  BY <1>1, <1>9, <1>10, Joined
<1> HIDE DEF W
<1>12. Len(W) = q - p
  BY <1>5, <1>11
<1>13. Len(W) * d = q * d - candle.start
  BY <1>3, <1>12
<1> QED
  BY <1>2, <1>13 DEF W

CandleTypes ==
    /\ making \in [Duration -> Seq(Candle)] /\ \A d \in Duration : Len(making[d]) <= 1
    /\ stored \in [Duration -> Seq(Candle)]
    /\ latest \in Nat /\ tradesIn \in Nat /\ orderly \in BOOLEAN

\* What a trade does to a timeframe: it begins the first candle, or goes into the
\* candle in the making, or ends it and begins another.
Begins(d, time, price) ==
    /\ making[d] = << >>
    /\ stored'[d] = stored[d] /\ making'[d] = <<Candles!Opened(time, price, d)>>

Continues(d, time, price) ==
    /\ making[d] # << >> /\ making[d][1].start = Candles!Align(time, d)
    /\ stored'[d] = stored[d] /\ making'[d] = <<Candles!Updated(making[d][1], price)>>

TurnsOver(d, time, price) ==
    /\ making[d] # << >> /\ making[d][1].start # Candles!Align(time, d)
    /\ stored'[d] = stored[d] \o Candles!WithGaps(making[d][1], Candles!Align(time, d), d)
    /\ making'[d] = <<Candles!Opened(time, price, d)>>

LEMMA CandleSteps == [Next]_vars => Candles!Next \/ UNCHANGED candleVars
  BY Zenon DEF Next, Only, vars

LEMMA TradeSteps ==
    ASSUME CandleTypes, Candles!OnTrade
    PROVE  \E time \in Nat, price \in Nat :
             /\ tradesIn' = tradesIn + 1
             /\ orderly' = (orderly /\ time >= latest)
             /\ latest' = Candles!Max({latest, time})
             /\ making' \in [Duration -> Seq(Candle)] /\ stored' \in [Duration -> Seq(Candle)]
             /\ \A d \in Duration : \/ Begins(d, time, price)
                                    \/ Continues(d, time, price)
                                    \/ TurnsOver(d, time, price)
<1> USE CandleConstants
<1>1. PICK time \in TradeTime, price \in TradePrice :
        /\ tradesIn' = tradesIn + 1
        /\ making' = [d \in Duration |->
               <<IF Candles!Same(d, time) THEN Candles!Updated(making[d][1], price)
                 ELSE Candles!Opened(time, price, d)>>]
        /\ stored' = [d \in Duration |->
               IF making[d] = <<>> \/ Candles!Same(d, time) THEN stored[d]
               ELSE stored[d] \o Candles!WithGaps(making[d][1], Candles!Align(time, d), d)]
        /\ orderly' = (orderly /\ time >= latest)
        /\ latest' = Candles!Max({latest, time})
  BY Zenon DEF Candles!OnTrade
<1>2. time \in Nat /\ price \in Nat
  OBVIOUS
<1>3. ASSUME NEW d \in Duration
      PROVE  /\ Begins(d, time, price) \/ Continues(d, time, price) \/ TurnsOver(d, time, price)
             /\ making'[d] \in Seq(Candle) /\ stored'[d] \in Seq(Candle)
  <2>1. /\ d \in Nat \ {0} /\ making[d] \in Seq(Candle) /\ stored[d] \in Seq(Candle)
        /\ Candles!Align(time, d) \in Nat
    BY <1>2, AlignIs DEF CandleTypes
  <2>2. /\ making'[d] = <<IF Candles!Same(d, time) THEN Candles!Updated(making[d][1], price)
                          ELSE Candles!Opened(time, price, d)>>
        /\ stored'[d] = IF making[d] = <<>> \/ Candles!Same(d, time) THEN stored[d]
                        ELSE stored[d] \o Candles!WithGaps(making[d][1], Candles!Align(time, d), d)
    BY <1>1, Zenon
  <2>3. Candles!Opened(time, price, d) \in Candle
    BY <1>2, <2>1, CandleOpened
  <2>4. CASE making[d] = << >>
    <3>1. ~Candles!Same(d, time)
      BY <2>4 DEF Candles!Same
    <3> QED
      BY <2>1, <2>2, <2>3, <2>4, <3>1 DEF Begins
  <2>5. CASE making[d] # << >>
    <3>1. making[d][1] \in Candle
      BY <2>1, <2>5
    <3>2. CASE making[d][1].start = Candles!Align(time, d)
      <4>1. Candles!Same(d, time)
        BY <2>5, <3>2 DEF Candles!Same
      <4>2. Candles!Updated(making[d][1], price) \in Candle
        BY <1>2, <3>1, CandleUpdated
      <4> QED
        BY <2>1, <2>2, <2>5, <3>2, <4>1, <4>2 DEF Continues
    <3>3. CASE making[d][1].start # Candles!Align(time, d)
      <4>1. ~Candles!Same(d, time)
        BY <3>3 DEF Candles!Same
      <4>2. Candles!WithGaps(making[d][1], Candles!Align(time, d), d) \in Seq(Candle)
        BY <2>1, <3>1, GapsFilled
      <4>3. stored'[d] = stored[d] \o Candles!WithGaps(making[d][1], Candles!Align(time, d), d)
            /\ making'[d] = <<Candles!Opened(time, price, d)>>
        BY <2>2, <2>5, <4>1
      <4>4. stored'[d] \in Seq(Candle)
        BY <2>1, <4>2, <4>3, Joined
      <4>5. making'[d] \in Seq(Candle)
        BY <2>3, <4>3
      <4> QED
        BY <2>5, <3>3, <4>3, <4>4, <4>5 DEF TurnsOver
    <3> QED
      BY <3>2, <3>3
  <2> QED
    BY <2>4, <2>5
<1>4. making' \in [Duration -> Seq(Candle)] /\ stored' \in [Duration -> Seq(Candle)]
  <2>1. making' = [d \in Duration |-> making'[d]] /\ stored' = [d \in Duration |-> stored'[d]]
    BY <1>1, Zenon
  <2> QED
    BY <1>3, <2>1
<1> QED
  BY <1>1, <1>2, <1>3, <1>4

Volume(candles) == Total([k \in DOMAIN candles |-> candles[k].volume], Len(candles))

LEMMA VolumeJoined ==
    ASSUME NEW s \in Seq(Candle), NEW r \in Seq(Candle)
    PROVE  Volume(s \o r) = Volume(s) + Volume(r) /\ Volume(s) \in Int /\ Volume(r) \in Int
<1> DEFINE m == Len(s)
           n == Len(r)
           f == [k \in DOMAIN (s \o r) |-> (s \o r)[k].volume]
           g == [k \in DOMAIN s |-> s[k].volume]
           h == [k \in DOMAIN r |-> r[k].volume]
<1>1. /\ m \in Nat /\ n \in Nat /\ Len(s \o r) = m + n
      /\ DOMAIN (s \o r) = 1..(m + n) /\ DOMAIN s = 1..m /\ DOMAIN r = 1..n
      /\ s \o r \in Seq(Candle)
      /\ \A k \in 1..m : (s \o r)[k] = s[k]
      /\ \A k \in 1..n : (s \o r)[m + k] = r[k]
  BY Joined
<1>2. \A u \in Seq(Candle) : \A k \in 1..Len(u) : u[k].volume \in Int
  <2>1. \A candle \in Candle : candle.volume \in Int
    BY DEF Candle
  <2> QED
    BY <2>1, ElementOfSeq
<1>3. f \in [1..(m + n) -> Int] /\ g \in [1..m -> Int] /\ h \in [1..n -> Int]
  BY <1>1, <1>2
<1>4. \A k \in 1..m : f[k] = g[k]
  BY <1>1
<1>5. h = [k \in 1..n |-> f[m + k]]
  BY <1>1
<1> HIDE DEF f, g, h, m, n
<1>6. Total(f, m + n) = Total(f, m) + Total([k \in 1..n |-> f[m + k]], n)
  BY <1>1, <1>3, TotalConcat
<1>7. Total(f, m) = Total(g, m)
  BY <1>1, <1>4, TotalSame
<1>8. Total(g, m) \in Int /\ Total(h, n) \in Int
  BY <1>1, <1>3, TotalIsInt
<1>9. Total(f, m + n) = Total(g, m) + Total(h, n)
  BY <1>5, <1>6, <1>7
<1>10. Volume(s) = Total(g, m) /\ Volume(r) = Total(h, n)
  BY DEF Volume, g, h, m, n
<1>11. Volume(s \o r) = Total(f, m + n)
  BY <1>1 DEF Volume, f
<1> QED
  BY <1>8, <1>9, <1>10, <1>11

LEMMA VolumeOne ==
    /\ Volume(<< >>) = 0
    /\ \A candle \in Candle : Volume(<<candle>>) = candle.volume
<1>1. Volume(<< >>) = 0
  <2>1. Len(<< >>) = 0
    OBVIOUS
  <2> QED
    BY <2>1, TotalUnfolds DEF Volume
<1>2. ASSUME NEW candle \in Candle  PROVE Volume(<<candle>>) = candle.volume
  <2> DEFINE f == [k \in DOMAIN <<candle>> |-> <<candle>>[k].volume]
  <2>1. f[1] = candle.volume /\ candle.volume \in Nat /\ Len(<<candle>>) = 1
    BY DEF Candle
  <2> HIDE DEF f
  <2>2. Total(f, 0 + 1) = Total(f, 0) + f[0 + 1] /\ Total(f, 0) = 0
    BY TotalUnfolds
  <2>3. Total(f, 1) = candle.volume
    BY <2>1, <2>2
  <2> QED
    BY <2>1, <2>3 DEF Volume, f
<1> QED
  BY <1>1, <1>2

\* Flat candles have no volume.
LEMMA VolumeGaps ==
    ASSUME NEW candle \in Candle, NEW start \in Nat, NEW d \in Nat \ {0}
    PROVE  Volume(Candles!WithGaps(candle, start, d)) = candle.volume
<1> DEFINE W == Candles!WithGaps(candle, start, d)
           f == [k \in DOMAIN W |-> W[k].volume]
           g == [k \in DOMAIN W |-> 0]
<1>1. /\ W \in Seq(Candle) /\ Len(W) >= 1 /\ W[1] = candle
      /\ \A k \in 2..Len(W) : W[k] = Candles!Flat(candle.start + (k - 1) * d, candle.close)
  BY GapsFilled
<1> HIDE DEF W
<1>2. Len(W) \in Nat /\ DOMAIN W = 1..Len(W) /\ 1 \in 1..Len(W) /\ candle.volume \in Nat
  BY <1>1 DEF Candle
<1>3. f[1] = candle.volume /\ \A k \in 1..Len(W) : k # 1 => f[k] = 0
  <2>1. ASSUME NEW k \in 2..Len(W)  PROVE W[k].volume = 0
    <3>1. W[k] = Candles!Flat(candle.start + (k - 1) * d, candle.close)
      BY <1>1
    <3> QED
      BY <3>1 DEF Candles!Flat
  <2> QED
    BY <1>1, <1>2, <2>1
<1>4. \A k \in 1..Len(W) : g[k] = 0
  BY <1>2
<1> HIDE DEF f, g
<1>5. Total(f, Len(W)) = Total(g, Len(W)) - g[1] + f[1]
  BY <1>2, <1>3, <1>4, TotalChange
<1>6. Total(g, Len(W)) = 0
  BY <1>2, <1>4, TotalOfZeroes
<1>7. Total(f, Len(W)) = candle.volume
  BY <1>2, <1>3, <1>4, <1>5, <1>6
<1> QED
  BY <1>7 DEF Volume, f, W

\* No trade is lost or counted twice.
CandleVolume == CandleTypes /\ \A d \in Duration : Volume(stored[d]) + Volume(making[d]) = tradesIn

LEMMA CandlesInit ==
    ASSUME Candles!Init
    PROVE  /\ CandleTypes /\ orderly = TRUE /\ tradesIn = 0 /\ latest = 0
           /\ \A d \in Duration : stored[d] = << >> /\ making[d] = << >>
<1>1. /\ making = [d \in Duration |-> << >>] /\ stored = [d \in Duration |-> << >>]
      /\ latest = 0 /\ tradesIn = 0 /\ orderly = TRUE
  BY DEF Candles!Init
<1>2. << >> \in Seq(Candle) /\ Len(<< >>) = 0
  OBVIOUS
<1> QED
  BY <1>1, <1>2 DEF CandleTypes

LEMMA CandleVolumeInit == Candles!Init => CandleVolume
<1> SUFFICES ASSUME Candles!Init  PROVE CandleVolume
  OBVIOUS
<1>1. /\ CandleTypes /\ tradesIn = 0 /\ \A d \in Duration : stored[d] = << >> /\ making[d] = << >>
  BY CandlesInit
<1>2. \A d \in Duration : Volume(stored[d]) = 0 /\ Volume(making[d]) = 0
  BY <1>1, VolumeOne
<1> QED
  BY <1>1, <1>2 DEF CandleVolume

LEMMA SomethingThere ==
    ASSUME NEW X, NEW s \in Seq(X), s # << >>
    PROVE  Len(s) \in Nat /\ Len(s) >= 1
<1>1. Len(s) \in Nat \ {0}
  BY EmptySeq, Zenon
<1> QED
  BY <1>1

LEMMA OneThing ==
    ASSUME NEW X, NEW s \in Seq(X), s # << >>, Len(s) <= 1
    PROVE  s[1] \in X /\ s = <<s[1]>> /\ Len(s) = 1
<1>1. Len(s) \in Nat /\ Len(s) >= 1
  BY SomethingThere
<1>2. Len(s) = 1
  <2> DEFINE n == Len(s)
  <2>1. n \in Nat /\ n >= 1 /\ n <= 1
    BY <1>1
  <2> HIDE DEF n
  <2>2. n = 1
    BY <2>1
  <2> QED
    BY <2>2 DEF n
<1> QED
  BY <1>2

\* A candle in the making.
LEMMA InTheMaking ==
    ASSUME CandleTypes, NEW d \in Duration, making[d] # << >>
    PROVE  making[d][1] \in Candle /\ making[d] = <<making[d][1]>> /\ Len(making[d]) = 1
<1>1. making[d] \in Seq(Candle) /\ Len(making[d]) <= 1
  BY DEF CandleTypes
<1> QED
  BY <1>1, OneThing

LEMMA CandleTypesTrade ==
    ASSUME CandleTypes, Candles!OnTrade
    PROVE  CandleTypes'
<1>1. PICK time \in Nat, price \in Nat :
             /\ tradesIn' = tradesIn + 1
             /\ orderly' = (orderly /\ time >= latest)
             /\ latest' = Candles!Max({latest, time})
             /\ making' \in [Duration -> Seq(Candle)] /\ stored' \in [Duration -> Seq(Candle)]
             /\ \A d \in Duration : \/ Begins(d, time, price)
                                    \/ Continues(d, time, price)
                                    \/ TurnsOver(d, time, price)
  BY TradeSteps
<1>2. \A d \in Duration : Len(making'[d]) <= 1
  <2> SUFFICES ASSUME NEW d \in Duration  PROVE Len(making'[d]) <= 1
    OBVIOUS
  <2>1. \/ making'[d] = <<Candles!Opened(time, price, d)>>
        \/ making'[d] = <<Candles!Updated(making[d][1], price)>>
    BY <1>1, Zenon DEF Begins, Continues, TurnsOver
  <2>2. \A x : Len(<<x>>) <= 1
    OBVIOUS
  <2> QED
    BY <2>1, <2>2
<1>3. tradesIn' \in Nat /\ orderly' \in BOOLEAN /\ latest' \in Nat
  <2>1. tradesIn \in Nat /\ orderly \in BOOLEAN /\ latest \in Nat
    BY DEF CandleTypes
  <2>2. Candles!Max({latest, time}) \in {latest, time}
    BY <2>1, CandlesExtremes
  <2> QED
    BY <1>1, <2>1, <2>2
<1> QED
  BY <1>1, <1>2, <1>3 DEF CandleTypes

LEMMA CandleTypesFlush ==
    ASSUME CandleTypes, Candles!Flush
    PROVE  /\ CandleTypes' /\ orderly' = FALSE /\ tradesIn' = tradesIn
           /\ \A d \in Duration : stored'[d] = stored[d] \o making[d] /\ making'[d] = << >>
<1>1. /\ stored' = [d \in Duration |-> stored[d] \o making[d]]
      /\ making' = [d \in Duration |-> << >>]
      /\ orderly' = FALSE /\ latest' = latest /\ tradesIn' = tradesIn
  BY DEF Candles!Flush
<1>2. \A d \in Duration : stored'[d] = stored[d] \o making[d] /\ making'[d] = << >>
  BY <1>1
<1>3. \A d \in Duration : stored[d] \o making[d] \in Seq(Candle)
  BY Joined DEF CandleTypes
<1>4. << >> \in Seq(Candle) /\ Len(<< >>) = 0
  OBVIOUS
<1>5. stored' \in [Duration -> Seq(Candle)] /\ making' \in [Duration -> Seq(Candle)]
  BY <1>1, <1>3, <1>4
<1>6. CandleTypes'
  <2>1. \A d \in Duration : Len(making'[d]) <= 1
    <3> SUFFICES ASSUME NEW d \in Duration  PROVE Len(making'[d]) <= 1
      OBVIOUS
    <3>1. Len(making'[d]) = 0
      BY <1>2, <1>4, Zenon
    <3> QED
      BY <3>1
  <2>2. latest' \in Nat /\ tradesIn' \in Nat /\ orderly' \in BOOLEAN
    BY <1>1 DEF CandleTypes
  <2> QED
    BY <1>5, <2>1, <2>2 DEF CandleTypes
<1> QED
  BY <1>1, <1>2, <1>6

LEMMA CandleVolumeNext ==
    ASSUME CandleVolume, Candles!Next
    PROVE  CandleVolume'
<1>1. CandleTypes /\ \A d \in Duration : Volume(stored[d]) + Volume(making[d]) = tradesIn
  BY DEF CandleVolume
<1>2. ASSUME NEW d \in Duration
      PROVE  /\ d \in Nat \ {0} /\ stored[d] \in Seq(Candle) /\ making[d] \in Seq(Candle)
             /\ Volume(stored[d]) \in Int /\ Volume(making[d]) \in Int /\ tradesIn \in Nat
  <2>1. d \in Nat \ {0} /\ stored[d] \in Seq(Candle) /\ making[d] \in Seq(Candle) /\ tradesIn \in Nat
    BY <1>1, CandleConstants DEF CandleTypes
  <2> QED
    BY <2>1, VolumeJoined
<1>3. CASE Candles!OnTrade
  <2>1. PICK time \in Nat, price \in Nat :
             /\ tradesIn' = tradesIn + 1
             /\ \A d \in Duration : \/ Begins(d, time, price)
                                    \/ Continues(d, time, price)
                                    \/ TurnsOver(d, time, price)
    <3>1. PICK time \in Nat, price \in Nat :
             /\ tradesIn' = tradesIn + 1
             /\ orderly' = (orderly /\ time >= latest)
             /\ latest' = Candles!Max({latest, time})
             /\ making' \in [Duration -> Seq(Candle)] /\ stored' \in [Duration -> Seq(Candle)]
             /\ \A d \in Duration : \/ Begins(d, time, price)
                                    \/ Continues(d, time, price)
                                    \/ TurnsOver(d, time, price)
      BY <1>1, <1>3, TradeSteps
    <3> QED
      BY <3>1
  <2>2. ASSUME NEW d \in Duration
        PROVE  Volume(stored'[d]) + Volume(making'[d]) = tradesIn'
    <3>1. /\ Candles!Opened(time, price, d) \in Candle
          /\ Candles!Opened(time, price, d).volume = 1
      <4>1. Candles!Opened(time, price, d) \in Candle
        BY <1>2, CandleOpened
      <4> QED
        BY <4>1 DEF Candles!Opened
    <3>2. Volume(<<Candles!Opened(time, price, d)>>) = 1
      BY <3>1, VolumeOne
    <3>3. CASE Begins(d, time, price)
      <4>1. Volume(making[d]) = 0
        BY <3>3, VolumeOne DEF Begins
      <4>2. Volume(stored'[d]) = Volume(stored[d]) /\ Volume(making'[d]) = 1
        BY <3>2, <3>3 DEF Begins
      <4> QED
        BY <1>1, <1>2, <2>1, <4>1, <4>2
    <3>4. ASSUME making[d] # << >>
          PROVE  making[d][1] \in Candle /\ Volume(making[d]) = making[d][1].volume
      <4>1. making[d][1] \in Candle /\ making[d] = <<making[d][1]>>
        BY <1>1, <3>4, InTheMaking
      <4>2. Volume(<<making[d][1]>>) = making[d][1].volume
        BY <4>1, VolumeOne
      <4> QED
        BY <4>1, <4>2
    <3>5. CASE Continues(d, time, price)
      <4>1. making[d][1] \in Candle /\ Volume(making[d]) = making[d][1].volume
        BY <3>4, <3>5 DEF Continues
      <4>2. /\ Candles!Updated(making[d][1], price) \in Candle
            /\ Candles!Updated(making[d][1], price).volume = making[d][1].volume + 1
        BY <4>1, CandleUpdated
      <4>3. Volume(<<Candles!Updated(making[d][1], price)>>) = making[d][1].volume + 1
        BY <4>2, VolumeOne
      <4>4. Volume(stored'[d]) = Volume(stored[d]) /\ Volume(making'[d]) = Volume(making[d]) + 1
        BY <3>5, <4>1, <4>3 DEF Continues
      <4> QED
        BY <1>1, <1>2, <2>1, <4>4
    <3>6. CASE TurnsOver(d, time, price)
      <4> DEFINE W == Candles!WithGaps(making[d][1], Candles!Align(time, d), d)
      <4>1. making[d][1] \in Candle /\ Volume(making[d]) = making[d][1].volume
        BY <3>4, <3>6 DEF TurnsOver
      <4>2. Candles!Align(time, d) \in Nat
        BY <1>2, AlignIs
      <4>3. W \in Seq(Candle)
        BY <1>2, <4>1, <4>2, GapsFilled
      <4>4. Volume(W) = making[d][1].volume
        BY <1>2, <4>1, <4>2, VolumeGaps
      <4>5. stored'[d] = stored[d] \o W /\ making'[d] = <<Candles!Opened(time, price, d)>>
        BY <3>6 DEF TurnsOver
      <4> HIDE DEF W
      <4>6. Volume(stored'[d]) = Volume(stored[d]) + Volume(W) /\ Volume(making'[d]) = 1
        BY <1>2, <3>2, <4>3, <4>5, VolumeJoined
      <4> QED
        BY <1>1, <1>2, <2>1, <4>1, <4>4, <4>6
    <3> QED
      BY <2>1, <3>3, <3>5, <3>6
  <2>3. CandleTypes'
    BY <1>1, <1>3, CandleTypesTrade
  <2> QED
    BY <2>2, <2>3 DEF CandleVolume
<1>4. CASE Candles!Flush
  <2>1. /\ CandleTypes' /\ tradesIn' = tradesIn
        /\ \A d \in Duration : stored'[d] = stored[d] \o making[d] /\ making'[d] = << >>
    BY <1>1, <1>4, CandleTypesFlush
  <2>2. ASSUME NEW d \in Duration
        PROVE  Volume(stored'[d]) + Volume(making'[d]) = tradesIn'
    <3>1. Volume(stored'[d]) = Volume(stored[d]) + Volume(making[d]) /\ Volume(making'[d]) = 0
      BY <1>2, <2>1, VolumeJoined, VolumeOne
    <3> QED
      BY <1>1, <1>2, <2>1, <3>1
  <2> QED
    BY <2>1, <2>2 DEF CandleVolume
<1> QED
  BY <1>3, <1>4 DEF Candles!Next

LEMMA CandleVolumeKept == CandleVolume => Candles!VolumeKept
<1> SUFFICES ASSUME CandleVolume, NEW d \in Duration
             PROVE  Candles!Total([k \in DOMAIN Candles!All(d) |-> Candles!All(d)[k].volume],
                                  Len(Candles!All(d))) = tradesIn
  BY Zenon DEF Candles!VolumeKept
<1> DEFINE both == stored[d] \o making[d]
<1>1. Candles!All(d) = both
  BY DEF Candles!All
<1>2. Volume(both) = Volume(stored[d]) + Volume(making[d])
  BY VolumeJoined DEF CandleVolume, CandleTypes
<1>3. Volume(both) = tradesIn
  BY <1>2 DEF CandleVolume
<1> HIDE DEF both
<1> QED
  BY <1>1, <1>3, CandlesTotal, Zenon DEF Volume

\* Each candle begins where the one before ends, and the last one ends at a given time.
Chain(s, end, d) ==
    \A k \in 1..Len(s) : s[k].start + d = IF k = Len(s) THEN end ELSE s[k + 1].start

\* While trades come in order: every timeframe has a candle in the making, or none has;
\* it is the newest trade's, something was traded in it, and the stored ones lead up to it.
InOrder(d) ==
    /\ making[d][1].start = Candles!Align(latest, d)
    /\ making[d][1].volume >= 1
    /\ Chain(stored[d], Candles!Align(latest, d), d)
    /\ \A k \in 1..Len(stored[d]) : stored[d][k].start < Candles!Align(latest, d)

CandleOrder ==
    /\ \A d \in Duration : making[d] = << >> => stored[d] = << >>
    /\ \A d, e \in Duration : making[d] = << >> => making[e] = << >>
    /\ \A d \in Duration : making[d] # << >> => InOrder(d)

LEMMA Lasts ==
    ASSUME NEW X, NEW s \in Seq(X), NEW x \in X
    PROVE  /\ s \o <<x>> \in Seq(X) /\ Len(s \o <<x>>) = Len(s) + 1 /\ Len(s) \in Nat
           /\ \A k \in 1..Len(s) : (s \o <<x>>)[k] = s[k]
           /\ (s \o <<x>>)[Len(s) + 1] = x
           /\ \A k \in 1..(Len(s) + 1) : k \in 1..Len(s) \/ k = Len(s) + 1
  OBVIOUS

LEMMA ChainJoined ==
    ASSUME NEW s \in Seq(Candle), NEW r \in Seq(Candle), NEW d, NEW end, Len(r) >= 1,
           Chain(s, r[1].start, d), Chain(r, end, d)
    PROVE  Chain(s \o r, end, d)
<1> DEFINE m == Len(s)
           n == Len(r)
           t == s \o r
<1>1. /\ Len(t) = m + n /\ m \in Nat /\ n \in Nat /\ n >= 1
      /\ \A k \in 1..m : t[k] = s[k]
      /\ \A k \in 1..n : t[m + k] = r[k]
  BY Joined
<1>2. /\ \A k \in 1..m : s[k].start + d = IF k = m THEN r[1].start ELSE s[k + 1].start
      /\ \A k \in 1..n : r[k].start + d = IF k = n THEN end ELSE r[k + 1].start
  BY DEF Chain
<1> HIDE DEF m, n, t
<1>3. ASSUME NEW k \in 1..(m + n)
      PROVE  t[k].start + d = IF k = m + n THEN end ELSE t[k + 1].start
  <2>1. CASE k \in 1..(m - 1)
    <3>1. k \in 1..m /\ k + 1 \in 1..m /\ k # m /\ k # m + n
      BY <1>1, <2>1
    <3>2. t[k] = s[k] /\ t[k + 1] = s[k + 1]
      BY <1>1, <3>1
    <3> QED
      BY <1>2, <3>1, <3>2
  <2>2. CASE k = m
    <3>1. m \in 1..m /\ 1 \in 1..n /\ k # m + n /\ k + 1 = m + 1
      BY <1>1, <2>2
    <3>2. t[k] = s[k] /\ t[k + 1] = r[1]
      BY <1>1, <2>2, <3>1
    <3> QED
      BY <1>2, <2>2, <3>1, <3>2
  <2>3. CASE k \in (m + 1)..(m + n)
    <3> DEFINE i == k - m
    <3>1. i \in 1..n /\ k = m + i /\ (k = m + n <=> i = n)
      BY <1>1, <2>3
    <3>2. t[k] = r[i]
      BY <1>1, <3>1
    <3>3. CASE i = n
      BY <1>2, <3>1, <3>2, <3>3
    <3>4. CASE i # n
      <4>1. i + 1 \in 1..n /\ k + 1 = m + (i + 1)
        BY <1>1, <3>1, <3>4
      <4>2. t[k + 1] = r[i + 1]
        BY <1>1, <4>1
      <4> QED
        BY <1>2, <3>1, <3>2, <3>4, <4>2
    <3> QED
      BY <3>3, <3>4
  <2> QED
    BY <1>1, <2>1, <2>2, <2>3
<1>4. \A k \in 1..Len(t) : t[k].start + d = IF k = Len(t) THEN end ELSE t[k + 1].start
  BY <1>1, <1>3
<1> QED
  BY <1>4 DEF Chain, t

LEMMA ChainOne ==
    ASSUME NEW candle, NEW d, NEW end, candle.start + d = end
    PROVE  Chain(<<candle>>, end, d)
  BY DEF Chain

\* A candle that is emitted and the flat ones after it lead up to the next interval.
LEMMA ChainGaps ==
    ASSUME NEW candle \in Candle, NEW d \in Nat \ {0}, NEW p \in Nat, NEW q \in Nat,
           candle.start = p * d, p < q
    PROVE  LET W == Candles!WithGaps(candle, q * d, d)
           IN  Chain(W, q * d, d) /\ \A k \in 1..Len(W) : W[k].start < q * d
<1> DEFINE W == Candles!WithGaps(candle, q * d, d)
<1>1. q * d \in Nat /\ candle.start \in Nat /\ candle.close \in Nat
  BY DEF Candle
<1>2. /\ W \in Seq(Candle) /\ Len(W) >= 1 /\ W[1] = candle
      /\ \A k \in 2..Len(W) : W[k] = Candles!Flat(candle.start + (k - 1) * d, candle.close)
  BY <1>1, GapsFilled
<1>3. candle.start + Len(W) * d = q * d
  BY GapsReach
<1> HIDE DEF W
<1> DEFINE n == Len(W)
<1>4. n \in Nat /\ n >= 1
  BY <1>2
<1>5. \A k \in 1..n : W[k].start = candle.start + (k - 1) * d
  <2> SUFFICES ASSUME NEW k \in 1..n  PROVE W[k].start = candle.start + (k - 1) * d
    OBVIOUS
  <2>1. CASE k = 1
    <3>1. (1 - 1) * d = 0
      OBVIOUS
    <3>2. W[1].start = candle.start + (1 - 1) * d
      BY <1>1, <1>2, <3>1
    <3> QED
      BY <2>1, <3>2
  <2>2. CASE k \in 2..n
    <3>1. W[k] = Candles!Flat(candle.start + (k - 1) * d, candle.close)
      BY <1>2, <2>2
    <3>2. \A a, b : Candles!Flat(a, b).start = a
      BY DEF Candles!Flat
    <3> QED
      BY <3>1, <3>2, Zenon
  <2> QED
    BY <1>4, <2>1, <2>2
<1>6. candle.start + n * d = q * d
  BY <1>3
<1> HIDE DEF n
<1>7. \A k \in 1..n : /\ (k - 1) * d + d = k * d /\ (k - 1) * d \in Int /\ k * d \in Int
                      /\ k * d <= n * d /\ n * d \in Int
  <2> SUFFICES ASSUME NEW k \in 1..n
               PROVE  /\ (k - 1) * d + d = k * d /\ (k - 1) * d \in Int /\ k * d \in Int
                      /\ k * d <= n * d /\ n * d \in Int
    OBVIOUS
  <2>1. k * d \in Int /\ n * d \in Int /\ k * d <= n * d
    BY <1>4, TimesGrow
  <2> QED
    BY <2>1
<1>8. \A k \in 1..n : W[k].start + d = candle.start + k * d /\ W[k].start < q * d
  BY <1>1, <1>5, <1>6, <1>7
<1>9. ASSUME NEW k \in 1..n
      PROVE  W[k].start + d = IF k = n THEN q * d ELSE W[k + 1].start
  <2>1. CASE k = n
    BY <1>6, <1>8, <2>1
  <2>2. CASE k # n
    <3>1. k + 1 \in 1..n /\ (k + 1) - 1 = k
      BY <1>4, <2>2
    <3>2. W[k + 1].start = candle.start + k * d
      BY <1>5, <3>1
    <3> QED
      BY <1>8, <2>2, <3>2
  <2> QED
    BY <2>1, <2>2
<1> QED
  BY <1>8, <1>9 DEF Chain, W, n

\* A trade that is not late moves the newest interval on, or not at all.
Moved(s, time, d) ==
    \E p, q \in Nat : /\ Candles!Align(s, d) = p * d /\ Candles!Align(time, d) = q * d
                      /\ p < q /\ p * d < q * d /\ p * d \in Nat /\ q * d \in Nat

LEMMA NewestMoves ==
    ASSUME NEW s \in Nat, NEW time \in Nat, NEW d \in Nat \ {0}, s <= time,
           Candles!Align(s, d) # Candles!Align(time, d)
    PROVE  Moved(s, time, d)
<1>1. PICK p \in Nat : Candles!Align(s, d) = p * d /\ p * d \in Nat
  BY AlignIs
<1>2. PICK q \in Nat : Candles!Align(time, d) = q * d /\ q * d \in Nat
  BY AlignIs
<1>3. p * d <= q * d /\ p * d # q * d
  BY <1>1, <1>2, AlignGrows
<1>4. ~(q <= p)
  <2> SUFFICES ASSUME q <= p  PROVE FALSE
    OBVIOUS
  <2>1. q * d <= p * d
    BY TimesGrow
  <2> QED
    BY <1>1, <1>2, <1>3, <2>1
<1>5. p < q /\ p * d < q * d
  BY <1>1, <1>2, <1>3, <1>4
<1> QED
  BY <1>1, <1>2, <1>5 DEF Moved

LEMMA CandleOrderInit == Candles!Init => CandleOrder
<1> SUFFICES ASSUME Candles!Init  PROVE CandleOrder
  OBVIOUS
<1>1. \A d \in Duration : stored[d] = << >> /\ making[d] = << >>
  BY CandlesInit
<1> QED
  BY <1>1, Zenon DEF CandleOrder

\* A trade that is not late, seen from one timeframe.
LEMMA OrderOfOne ==
    ASSUME CandleTypes, CandleOrder, NEW d \in Duration, NEW time \in Nat, NEW price \in Nat,
           time >= latest, latest' = time,
           Begins(d, time, price) \/ Continues(d, time, price) \/ TurnsOver(d, time, price)
    PROVE  InOrder(d)' /\ making'[d] # << >>
<1>1. /\ d \in Nat \ {0} /\ latest \in Nat
      /\ making[d] \in Seq(Candle) /\ stored[d] \in Seq(Candle)
      /\ Candles!Align(time, d) \in Nat /\ Candles!Align(latest, d) \in Nat
  BY CandleConstants, AlignIs DEF CandleTypes
<1>2. /\ Candles!Opened(time, price, d).start = Candles!Align(time, d)
      /\ Candles!Opened(time, price, d).volume = 1
  BY DEF Candles!Opened
<1>3. /\ InOrder(d)' <=>
           /\ making'[d][1].start = Candles!Align(time, d)
           /\ making'[d][1].volume >= 1
           /\ Chain(stored'[d], Candles!Align(time, d), d)
           /\ \A k \in 1..Len(stored'[d]) : stored'[d][k].start < Candles!Align(time, d)
  BY DEF InOrder, Chain, Candles!Align
<1>4. CASE Begins(d, time, price)
  <2>1. stored'[d] = << >> /\ making'[d] = <<Candles!Opened(time, price, d)>>
    BY <1>4, Zenon DEF Begins, CandleOrder
  <2>2. \A k : k \notin 1..Len(<< >>)
    OBVIOUS
  <2>3. Chain(stored'[d], Candles!Align(time, d), d)
        /\ \A k \in 1..Len(stored'[d]) : stored'[d][k].start < Candles!Align(time, d)
    BY <2>1, <2>2, Zenon DEF Chain
  <2>4. making'[d][1] = Candles!Opened(time, price, d) /\ making'[d] # << >>
    BY <2>1
  <2> QED
    BY <1>2, <1>3, <2>3, <2>4
<1>5. ASSUME making[d] # << >>
      PROVE  InOrder(d) /\ making[d][1] \in Candle
  BY <1>5, InTheMaking, Zenon DEF CandleOrder
<1>6. CASE Continues(d, time, price)
  <2>1. /\ InOrder(d) /\ making[d][1] \in Candle /\ making[d][1].start = Candles!Align(time, d)
        /\ stored'[d] = stored[d] /\ making'[d] = <<Candles!Updated(making[d][1], price)>>
    BY <1>5, <1>6, Zenon DEF Continues
  <2>2. /\ Candles!Updated(making[d][1], price).start = Candles!Align(time, d)
        /\ Candles!Updated(making[d][1], price).volume = making[d][1].volume + 1
    BY <2>1, CandleUpdated
  <2>3. making[d][1].volume >= 1 /\ making[d][1].volume \in Nat
    BY <2>1 DEF InOrder, Candle
  <2>4. Candles!Align(latest, d) = Candles!Align(time, d)
    BY <2>1 DEF InOrder
  <2>5. /\ Chain(stored'[d], Candles!Align(time, d), d)
        /\ \A k \in 1..Len(stored'[d]) : stored'[d][k].start < Candles!Align(time, d)
    BY <2>1, <2>4 DEF InOrder
  <2>6. making'[d][1] = Candles!Updated(making[d][1], price) /\ making'[d] # << >>
    BY <2>1
  <2>7. making'[d][1].volume >= 1
    BY <2>2, <2>3, <2>6
  <2> QED
    BY <1>3, <2>2, <2>5, <2>6, <2>7
<1>7. CASE TurnsOver(d, time, price)
  <2>1. /\ InOrder(d) /\ making[d][1] \in Candle /\ making[d][1].start # Candles!Align(time, d)
        /\ stored'[d] = stored[d] \o Candles!WithGaps(making[d][1], Candles!Align(time, d), d)
        /\ making'[d] = <<Candles!Opened(time, price, d)>>
    BY <1>5, <1>7, Zenon DEF TurnsOver
  <2>2. making[d][1].start = Candles!Align(latest, d)
    BY <2>1 DEF InOrder
  <2>3. PICK p, q \in Nat : /\ Candles!Align(latest, d) = p * d /\ Candles!Align(time, d) = q * d
                            /\ p < q /\ p * d < q * d /\ p * d \in Nat /\ q * d \in Nat
    <3>1. latest \in Nat /\ time \in Nat /\ d \in Nat \ {0} /\ latest <= time
      BY <1>1
    <3>2. Candles!Align(latest, d) # Candles!Align(time, d)
      BY <2>1, <2>2, Zenon
    <3>3. Moved(latest, time, d)
      BY <3>1, <3>2, NewestMoves
    <3> QED
      BY <3>3, Zenon DEF Moved
  <2> DEFINE W == Candles!WithGaps(making[d][1], q * d, d)
  <2>4. Chain(W, q * d, d) /\ \A k \in 1..Len(W) : W[k].start < q * d
    <3> DEFINE candle == making[d][1]
    <3>1. candle \in Candle /\ candle.start = p * d /\ d \in Nat \ {0} /\ p < q
      BY <1>1, <2>1, <2>2, <2>3
    <3> HIDE DEF candle
    <3>2. LET V == Candles!WithGaps(candle, q * d, d)
          IN  Chain(V, q * d, d) /\ \A k \in 1..Len(V) : V[k].start < q * d
      BY <3>1, ChainGaps
    <3> QED
      BY <3>2, Zenon DEF candle
  <2>5. W \in Seq(Candle) /\ Len(W) >= 1 /\ W[1] = making[d][1]
    <3> DEFINE candle == making[d][1]
    <3>1. candle \in Candle /\ q * d \in Nat /\ d \in Nat \ {0}
      BY <1>1, <2>1, <2>3
    <3> HIDE DEF candle
    <3>2. LET V == Candles!WithGaps(candle, q * d, d)
          IN  V \in Seq(Candle) /\ Len(V) >= 1 /\ V[1] = candle
      BY <3>1, GapsFilled
    <3> QED
      BY <3>2, Zenon DEF candle
  <2>6. stored'[d] = stored[d] \o W
    BY <2>1, <2>3
  <2> HIDE DEF W
  <2>7. Chain(stored[d], W[1].start, d)
    BY <2>1, <2>2, <2>5 DEF InOrder
  <2>8. Chain(stored'[d], q * d, d)
    BY <1>1, <2>4, <2>5, <2>6, <2>7, ChainJoined
  <2>9. \A k \in 1..Len(stored[d]) : stored[d][k].start < q * d
    <3> SUFFICES ASSUME NEW k \in 1..Len(stored[d])  PROVE stored[d][k].start < q * d
      OBVIOUS
    <3>1. stored[d][k] \in Candle /\ stored[d][k].start < p * d
      BY <1>1, <2>1, <2>3, ElementOfSeq DEF InOrder
    <3>2. stored[d][k].start \in Nat
      BY <3>1 DEF Candle
    <3> QED
      BY <2>3, <3>1, <3>2
  <2>10. \A k \in 1..Len(stored'[d]) : stored'[d][k].start < q * d
    <3> SUFFICES ASSUME NEW k \in 1..Len(stored'[d])  PROVE stored'[d][k].start < q * d
      OBVIOUS
    <3> DEFINE m == Len(stored[d])
               n == Len(W)
    <3>1. /\ Len(stored'[d]) = m + n /\ m \in Nat /\ n \in Nat
          /\ \A i \in 1..m : stored'[d][i] = stored[d][i]
          /\ \A i \in (m + 1)..(m + n) : stored'[d][i] = W[i - m]
      <4> DEFINE s == stored[d]
      <4>1. s \in Seq(Candle) /\ W \in Seq(Candle) /\ stored'[d] = s \o W
        BY <1>1, <2>5, <2>6
      <4> HIDE DEF s
      <4>2. /\ Len(s \o W) = Len(s) + Len(W) /\ Len(s) \in Nat /\ Len(W) \in Nat
            /\ \A i \in 1..Len(s) : (s \o W)[i] = s[i]
            /\ \A i \in (Len(s) + 1)..(Len(s) + Len(W)) : (s \o W)[i] = W[i - Len(s)]
        BY <4>1, Joined
      <4> QED
        BY <4>1, <4>2, Zenon DEF s
    <3>2. CASE k \in 1..m
      BY <2>9, <3>1, <3>2
    <3>3. CASE k \in (m + 1)..(m + n)
      <4>1. k - m \in 1..n
        BY <3>1, <3>3
      <4> QED
        BY <2>4, <3>1, <3>3, <4>1
    <3> QED
      BY <3>1, <3>2, <3>3
  <2>11. making'[d][1] = Candles!Opened(time, price, d) /\ making'[d] # << >>
    BY <2>1
  <2> QED
    BY <1>2, <1>3, <2>3, <2>8, <2>10, <2>11
<1> QED
  BY <1>4, <1>6, <1>7

LEMMA CandleOrderTrade ==
    ASSUME CandleTypes, orderly => CandleOrder, Candles!OnTrade
    PROVE  orderly' => CandleOrder'
<1> SUFFICES ASSUME orderly'  PROVE CandleOrder'
  OBVIOUS
<1>1. PICK time \in Nat, price \in Nat :
             /\ tradesIn' = tradesIn + 1
             /\ orderly' = (orderly /\ time >= latest)
             /\ latest' = Candles!Max({latest, time})
             /\ making' \in [Duration -> Seq(Candle)] /\ stored' \in [Duration -> Seq(Candle)]
             /\ \A d \in Duration : \/ Begins(d, time, price)
                                    \/ Continues(d, time, price)
                                    \/ TurnsOver(d, time, price)
  BY TradeSteps
<1>2. latest \in Nat
  BY DEF CandleTypes
<1>3. CandleOrder /\ time >= latest
  BY <1>1
<1>4. latest' = time
  <2>1. Candles!Max({latest, time}) \in {latest, time} /\ Candles!Max({latest, time}) >= time
    BY <1>2, CandlesExtremes
  <2> QED
    BY <1>1, <1>2, <1>3, <2>1
<1>5. \A d \in Duration : InOrder(d)' /\ making'[d] # << >>
  <2> SUFFICES ASSUME NEW d \in Duration  PROVE InOrder(d)' /\ making'[d] # << >>
    OBVIOUS
  <2>1. Begins(d, time, price) \/ Continues(d, time, price) \/ TurnsOver(d, time, price)
    BY <1>1
  <2> QED
    BY <1>3, <1>4, <2>1, OrderOfOne
<1> QED
  BY <1>5, Zenon DEF CandleOrder

LEMMA CandleOrderKept ==
    ASSUME CandleTypes, orderly => CandleOrder
    PROVE  Candles!Contiguous
<1> SUFFICES ASSUME orderly, NEW d \in Duration, NEW k \in 2..Len(Candles!All(d))
             PROVE  Candles!All(d)[k].start = Candles!All(d)[k - 1].start + d
  BY Zenon DEF Candles!Contiguous
<1> DEFINE both == stored[d] \o making[d]
<1>1. Candles!All(d) = both
  BY DEF Candles!All
<1>2. /\ d \in Nat \ {0} /\ making[d] \in Seq(Candle) /\ stored[d] \in Seq(Candle)
      /\ CandleOrder
  BY CandleConstants DEF CandleTypes
<1>3. both \in Seq(Candle) /\ Len(both) \in Nat
  <2>1. both \in Seq(Candle)
    BY <1>2, Joined
  <2> HIDE DEF both
  <2> QED
    BY <2>1
<1>4. making[d] # << >>
  <2> SUFFICES ASSUME making[d] = << >>  PROVE FALSE
    OBVIOUS
  <2>1. stored[d] = << >> /\ making[d] = << >>
    BY <1>2, Zenon DEF CandleOrder
  <2>2. << >> \o << >> = << >> /\ Len(<< >>) = 0
    OBVIOUS
  <2>3. Len(Candles!All(d)) = 0
    BY <1>1, <2>1, <2>2, Zenon
  <2> QED
    BY <2>3
<1>5. /\ making[d][1] \in Candle /\ making[d] = <<making[d][1]>> /\ Len(making[d]) = 1
      /\ InOrder(d)
  BY <1>2, <1>4, InTheMaking, Zenon DEF CandleOrder
<1> DEFINE end == making[d][1].start + d
<1>6. Chain(making[d], end, d)
  BY <1>5, ChainOne, Zenon
<1>7. Chain(stored[d], making[d][1].start, d)
  BY <1>5 DEF InOrder
<1> HIDE DEF end
<1>8. Chain(both, end, d)
  BY <1>2, <1>5, <1>6, <1>7, ChainJoined
<1> HIDE DEF both
<1> DEFINE i == k - 1
<1>9. k \in 2..Len(both) /\ i \in 1..Len(both) /\ i + 1 = k /\ i # Len(both)
  BY <1>1, <1>3
<1> HIDE DEF i
<1>10. both[i].start + d = both[k].start
  BY <1>8, <1>9 DEF Chain
<1>11. Candles!All(d)[k].start = Candles!All(d)[i].start + d
  BY <1>1, <1>10
<1> QED
  BY <1>11 DEF i

\* What the finer candles within an interval come to: the positions of those in which
\* anything was traded, and what was traded in them.
Inside(start, coarse, s) ==
    {k \in 1..Len(s) : Candles!Align(s[k].start, coarse) = start /\ s[k].volume > 0}

Amounts(start, coarse, s) ==
    [k \in 1..Len(s) |-> IF k \in Inside(start, coarse, s) THEN s[k].volume ELSE 0]

Made(candle, coarse, s) ==
    LET T == Inside(candle.start, coarse, s)
    IN  /\ candle.volume = Total(Amounts(candle.start, coarse, s), Len(s))
        /\ T = {} => candle = Candles!Flat(candle.start, candle.close)
        /\ T # {} =>
             /\ \E k \in T : candle.open = s[k].open /\ \A j \in T : k <= j
             /\ \E k \in T : candle.close = s[k].close /\ \A j \in T : j <= k
             /\ \E k \in T : candle.high = s[k].high
             /\ \A k \in T : s[k].high <= candle.high
             /\ \E k \in T : candle.low = s[k].low
             /\ \A k \in T : candle.low <= s[k].low

LEMMA SeqOfCandles ==
    ASSUME NEW s \in Seq(Candle)
    PROVE  /\ Len(s) \in Nat
           /\ \A k \in 1..Len(s) :
                /\ s[k] \in Candle
                /\ s[k].start \in Nat /\ s[k].open \in Nat /\ s[k].high \in Nat
                /\ s[k].low \in Nat /\ s[k].close \in Nat /\ s[k].volume \in Nat
<1>1. \A k \in 1..Len(s) : s[k] \in Candle
  BY ElementOfSeq
<1>2. \A c \in Candle : /\ c.start \in Nat /\ c.open \in Nat /\ c.high \in Nat
                        /\ c.low \in Nat /\ c.close \in Nat /\ c.volume \in Nat
  BY DEF Candle
<1> QED
  BY <1>1, <1>2

LEMMA AmountsAre ==
    ASSUME NEW s \in Seq(Candle), NEW start, NEW coarse
    PROVE  /\ Amounts(start, coarse, s) \in [1..Len(s) -> Int]
           /\ \A k \in 1..Len(s) : Amounts(start, coarse, s)[k] =
                  IF k \in Inside(start, coarse, s) THEN s[k].volume ELSE 0
<1>1. \A k \in 1..Len(s) : s[k].volume \in Int
  BY SeqOfCandles
<1> QED
  BY <1>1 DEF Amounts

\* t begins with s, and nothing was traded in the interval in the rest of it.
Beyond(s, t, start, coarse) ==
    /\ s \in Seq(Candle) /\ t \in Seq(Candle) /\ Len(s) <= Len(t)
    /\ \A k \in 1..Len(s) : t[k] = s[k]
    /\ \A k \in (Len(s) + 1)..Len(t) : k \notin Inside(start, coarse, t)

LEMMA SameInside ==
    ASSUME NEW s, NEW t, NEW start, NEW coarse, Beyond(s, t, start, coarse)
    PROVE  Inside(start, coarse, t) = Inside(start, coarse, s)
<1> DEFINE m == Len(s)
           n == Len(t)
<1>1. m \in Nat /\ n \in Nat /\ m <= n
  BY DEF Beyond
<1>2. \A k \in 1..m : t[k] = s[k]
  BY DEF Beyond
<1>3. \A k \in (m + 1)..n : k \notin Inside(start, coarse, t)
  BY DEF Beyond
<1>4. \A k : /\ k \in Inside(start, coarse, t) <=>
                  k \in 1..n /\ Candles!Align(t[k].start, coarse) = start /\ t[k].volume > 0
             /\ k \in Inside(start, coarse, s) <=>
                  k \in 1..m /\ Candles!Align(s[k].start, coarse) = start /\ s[k].volume > 0
  BY DEF Inside
<1> HIDE DEF m, n
<1>5. \A k : k \in 1..n <=> k \in 1..m \/ k \in (m + 1)..n
  BY <1>1
<1>6. ASSUME NEW k  PROVE k \in Inside(start, coarse, t) <=> k \in Inside(start, coarse, s)
  <2>1. CASE k \in 1..m
    BY <1>2, <1>4, <1>5, <2>1, Zenon
  <2>2. CASE k \in (m + 1)..n
    <3>1. k \notin 1..m
      BY <1>1, <2>2
    <3> QED
      BY <1>3, <1>4, <2>2, <3>1, Zenon
  <2>3. CASE k \notin 1..n
    BY <1>4, <1>5, <2>3, Zenon
  <2> QED
    BY <1>5, <2>1, <2>2, <2>3, Zenon
<1> QED
  BY <1>6, Zenon

LEMMA SameAmounts ==
    ASSUME NEW s, NEW t, NEW start, NEW coarse, Beyond(s, t, start, coarse)
    PROVE  Total(Amounts(start, coarse, t), Len(t)) = Total(Amounts(start, coarse, s), Len(s))
<1> DEFINE m == Len(s)
           n == Len(t) - Len(s)
           f == Amounts(start, coarse, t)
           g == Amounts(start, coarse, s)
           h == [k \in 1..n |-> f[m + k]]
<1>1. /\ m \in Nat /\ n \in Nat /\ Len(t) = m + n
      /\ s \in Seq(Candle) /\ t \in Seq(Candle)
      /\ \A k \in 1..m : t[k] = s[k]
      /\ \A k \in (m + 1)..(m + n) : k \notin Inside(start, coarse, t)
  BY DEF Beyond
<1>2. Inside(start, coarse, t) = Inside(start, coarse, s)
  BY SameInside
<1>3. f \in [1..Len(t) -> Int] /\ g \in [1..m -> Int]
  BY <1>1, AmountsAre
<1>4. /\ \A k \in 1..Len(t) : f[k] = IF k \in Inside(start, coarse, t) THEN t[k].volume ELSE 0
      /\ \A k \in 1..m : g[k] = IF k \in Inside(start, coarse, s) THEN s[k].volume ELSE 0
  BY <1>1, AmountsAre
<1> HIDE DEF m, n, f, g
<1>5. \A k \in 1..m : f[k] = g[k]
  <2> SUFFICES ASSUME NEW k \in 1..m  PROVE f[k] = g[k]
    OBVIOUS
  <2>1. k \in 1..Len(t)
    BY <1>1
  <2> QED
    BY <1>1, <1>2, <1>4, <2>1, Zenon
<1>6. \A k \in 1..n : h[k] = 0
  <2> SUFFICES ASSUME NEW k \in 1..n  PROVE f[m + k] = 0
    OBVIOUS
  <2>1. m + k \in (m + 1)..(m + n) /\ m + k \in 1..Len(t)
    BY <1>1
  <2> QED
    BY <1>1, <1>4, <2>1
<1>7. f \in [1..(m + n) -> Int]
  BY <1>1, <1>3
<1>8. Total(f, m + n) = Total(f, m) + Total(h, n)
  BY <1>1, <1>7, TotalConcat
<1> HIDE DEF h
<1>9. Total(h, n) = 0
  BY <1>1, <1>6, TotalOfZeroes
<1>10. Total(f, m) = Total(g, m) /\ Total(g, m) \in Int
  BY <1>1, <1>3, <1>5, TotalSame, TotalIsInt
<1>11. Total(f, m + n) = Total(g, m)
  BY <1>8, <1>9, <1>10
<1> QED
  BY <1>1, <1>11 DEF f, g, m

\* Candles of other intervals, and flat ones, change nothing.
LEMMA MadeBeyond ==
    ASSUME NEW candle, NEW coarse, NEW s, NEW t,
           Made(candle, coarse, s), Beyond(s, t, candle.start, coarse)
    PROVE  Made(candle, coarse, t)
<1> DEFINE T == Inside(candle.start, coarse, t)
<1>1. T = Inside(candle.start, coarse, s)
  BY SameInside
<1>2. Total(Amounts(candle.start, coarse, t), Len(t)) = Total(Amounts(candle.start, coarse, s), Len(s))
  BY SameAmounts
<1>3. /\ candle.volume = Total(Amounts(candle.start, coarse, s), Len(s))
      /\ T = {} => candle = Candles!Flat(candle.start, candle.close)
      /\ T # {} =>
             /\ \E k \in T : candle.open = s[k].open /\ \A j \in T : k <= j
             /\ \E k \in T : candle.close = s[k].close /\ \A j \in T : j <= k
             /\ \E k \in T : candle.high = s[k].high
             /\ \A k \in T : s[k].high <= candle.high
             /\ \E k \in T : candle.low = s[k].low
             /\ \A k \in T : candle.low <= s[k].low
  BY <1>1, Zenon DEF Made
<1>4. \A k \in T : t[k] = s[k]
  <2>1. \A k \in T : k \in 1..Len(s)
    BY <1>1 DEF Inside
  <2> QED
    BY <2>1, Zenon DEF Beyond
<1> HIDE DEF T
<1>5. T # {} =>
             /\ \E k \in T : candle.open = t[k].open /\ \A j \in T : k <= j
             /\ \E k \in T : candle.close = t[k].close /\ \A j \in T : j <= k
             /\ \E k \in T : candle.high = t[k].high
             /\ \A k \in T : t[k].high <= candle.high
             /\ \E k \in T : candle.low = t[k].low
             /\ \A k \in T : candle.low <= t[k].low
  BY <1>3, <1>4, Zenon
<1> QED
  BY <1>2, <1>3, <1>5, Zenon DEF Made, T

LEMMA ExtremeIs ==
    ASSUME NEW a \in Nat, NEW b \in Nat
    PROVE  /\ Candles!Max({a, b}) = IF a >= b THEN a ELSE b
           /\ Candles!Min({a, b}) = IF a <= b THEN a ELSE b
<1> DEFINE x == Candles!Max({a, b})
           y == Candles!Min({a, b})
<1>1. /\ x \in {a, b} /\ x >= a /\ x >= b
      /\ y \in {a, b} /\ y <= a /\ y <= b
  BY CandlesExtremes
<1> HIDE DEF x, y
<1>2. x = (IF a >= b THEN a ELSE b) /\ y = (IF a <= b THEN a ELSE b)
  BY <1>1
<1> QED
  BY <1>2 DEF x, y

LEMMA UpdatedIs ==
    ASSUME NEW c \in Candle, NEW price \in Nat
    PROVE  LET c2 == Candles!Updated(c, price)
           IN  /\ c2 \in Candle /\ c2.start = c.start /\ c2.open = c.open
               /\ c2.high = (IF c.high >= price THEN c.high ELSE price)
               /\ c2.low = (IF c.low <= price THEN c.low ELSE price)
               /\ c2.close = price /\ c2.volume = c.volume + 1
<1>1. c.high \in Nat /\ c.low \in Nat
  BY DEF Candle
<1>2. Candles!Max({c.high, price}) = IF c.high >= price THEN c.high ELSE price
  BY <1>1, ExtremeIs
<1>3. Candles!Min({c.low, price}) = IF c.low <= price THEN c.low ELSE price
  BY <1>1, ExtremeIs
<1> QED
  BY <1>2, <1>3, CandleUpdated, Zenon

\* A price that goes into the newest finer candle and into the candle it lies in.
LEMMA MadeUpdated ==
    ASSUME NEW c \in Candle, NEW s \in Seq(Candle), NEW m \in Candle, NEW coarse, NEW price \in Nat,
           m.volume >= 1, Candles!Align(m.start, coarse) = c.start,
           Made(c, coarse, s \o <<m>>)
    PROVE  Made(Candles!Updated(c, price), coarse, s \o <<Candles!Updated(m, price)>>)
<1> DEFINE m2 == Candles!Updated(m, price)
           c2 == Candles!Updated(c, price)
           t == s \o <<m>>
           u == s \o <<m2>>
           n == Len(s) + 1
           T == Inside(c.start, coarse, t)
<1>1. /\ c.start \in Nat /\ c.high \in Nat /\ c.low \in Nat /\ c.volume \in Nat
      /\ m.start \in Nat /\ m.high \in Nat /\ m.low \in Nat /\ m.volume \in Nat
  BY DEF Candle
<1>2. /\ m2 \in Candle /\ m2.start = m.start /\ m2.open = m.open
      /\ m2.high = (IF m.high >= price THEN m.high ELSE price)
      /\ m2.low = (IF m.low <= price THEN m.low ELSE price)
      /\ m2.close = price /\ m2.volume = m.volume + 1
  BY UpdatedIs, Zenon
<1>3. /\ c2 \in Candle /\ c2.start = c.start /\ c2.open = c.open
      /\ c2.high = (IF c.high >= price THEN c.high ELSE price)
      /\ c2.low = (IF c.low <= price THEN c.low ELSE price)
      /\ c2.close = price /\ c2.volume = c.volume + 1
  BY UpdatedIs, Zenon
<1> HIDE DEF m2, c2
<1>4. /\ t \in Seq(Candle) /\ Len(t) = n /\ t[n] = m
      /\ u \in Seq(Candle) /\ Len(u) = n /\ u[n] = m2
      /\ Len(s) \in Nat
      /\ \A k \in 1..Len(s) : t[k] = s[k] /\ u[k] = s[k]
      /\ \A k \in 1..n : k \in 1..Len(s) \/ k = n
  BY <1>2, Lasts
<1> HIDE DEF t, u
<1>5. /\ n \in Nat /\ n \in 1..n
      /\ \A k \in 1..n : k <= n /\ (k # n => t[k] = u[k])
  BY <1>4
<1> HIDE DEF n
<1>6. \A k \in 1..n : /\ t[k].start = u[k].start /\ t[k].open = u[k].open
                      /\ t[k].volume > 0 <=> u[k].volume > 0
  BY <1>1, <1>2, <1>4, <1>5
<1>7. T = Inside(c2.start, coarse, u)
  <2>1. \A k \in 1..n : (Candles!Align(t[k].start, coarse) = c.start /\ t[k].volume > 0)
                            <=> (Candles!Align(u[k].start, coarse) = c.start /\ u[k].volume > 0)
    BY <1>6, Zenon
  <2>2. T = {k \in 1..n : Candles!Align(t[k].start, coarse) = c.start /\ t[k].volume > 0}
    BY <1>4, Zenon DEF Inside
  <2>3. Inside(c2.start, coarse, u)
          = {k \in 1..n : Candles!Align(u[k].start, coarse) = c.start /\ u[k].volume > 0}
    BY <1>3, <1>4, Zenon DEF Inside
  <2> HIDE DEF T
  <2> QED
    BY <2>1, <2>2, <2>3, Zenon
<1>8. n \in T
  BY <1>1, <1>4, <1>5 DEF Inside
<1>9. T \subseteq 1..n
  BY <1>4 DEF Inside
<1>10. /\ c.volume = Total(Amounts(c.start, coarse, t), n)
       /\ \E k \in T : c.open = t[k].open /\ \A j \in T : k <= j
       /\ \E k \in T : c.high = t[k].high
       /\ \A k \in T : t[k].high <= c.high
       /\ \E k \in T : c.low = t[k].low
       /\ \A k \in T : c.low <= t[k].low
  BY <1>4, <1>8, Zenon DEF Made, t
<1>11. c2.volume = Total(Amounts(c2.start, coarse, u), n)
  <2> DEFINE f == Amounts(c.start, coarse, t)
             g == Amounts(c2.start, coarse, u)
  <2>1. /\ f \in [1..n -> Int] /\ g \in [1..n -> Int]
        /\ \A k \in 1..n : /\ f[k] = IF k \in T THEN t[k].volume ELSE 0
                           /\ g[k] = IF k \in T THEN u[k].volume ELSE 0
    BY <1>4, <1>7, AmountsAre
  <2> HIDE DEF f, g, T
  <2>2. \A k \in 1..n : k # n => g[k] = f[k]
    BY <1>5, <2>1
  <2>3. f[n] = m.volume /\ g[n] = m.volume + 1
    BY <1>2, <1>4, <1>5, <1>8, <2>1
  <2>4. (\A k \in 1..n : f[k] \in Int) /\ g[n] \in Int /\ Total(f, n) \in Int
    BY <1>1, <1>5, <2>1, <2>3, TotalIsInt
  <2>5. Total(g, n) = Total(f, n) - f[n] + g[n]
    BY <1>5, <2>2, <2>4, TotalChange
  <2>6. Total(g, n) = Total(f, n) + 1
    BY <1>1, <2>3, <2>4, <2>5
  <2>7. c.volume = Total(f, n)
    BY <1>10 DEF f
  <2> QED
    BY <1>3, <2>6, <2>7 DEF g
<1> HIDE DEF T
<1>12. \E k \in T : c2.open = u[k].open /\ \A j \in T : k <= j
  BY <1>3, <1>6, <1>9, <1>10, Zenon
<1>13. \E k \in T : c2.close = u[k].close /\ \A j \in T : j <= k
  BY <1>2, <1>3, <1>4, <1>5, <1>8, <1>9, Zenon
<1>14. \A k \in T : /\ t[k] \in Candle /\ t[k].high \in Nat /\ t[k].low \in Nat
                    /\ k \in 1..n /\ (k # n => t[k] = u[k])
  BY <1>4, <1>5, <1>9, SeqOfCandles
<1>15. /\ \E k \in T : c2.high = u[k].high
       /\ \A k \in T : u[k].high <= c2.high
  <2>1. t[n].high = m.high /\ m.high <= c.high
    BY <1>4, <1>8, <1>10
  <2>2. ASSUME NEW k \in T  PROVE u[k].high <= c2.high
    <3>1. CASE k = n
      BY <1>1, <1>2, <1>3, <1>4, <2>1, <3>1
    <3>2. CASE k # n
      <4>1. u[k].high = t[k].high /\ t[k].high <= c.high /\ t[k].high \in Nat
        BY <1>10, <1>14, <3>2
      <4> QED
        BY <1>1, <1>3, <4>1
    <3> QED
      BY <3>1, <3>2
  <2>3. CASE price >= c.high
    <3>1. u[n].high = price /\ c2.high = price
      BY <1>1, <1>2, <1>3, <1>4, <2>1, <2>3
    <3> QED
      BY <1>8, <2>2, <3>1
  <2>4. CASE ~(price >= c.high)
    <3>1. c2.high = c.high
      BY <1>1, <1>3, <2>4
    <3>2. PICK k \in T : c.high = t[k].high
      BY <1>10
    <3>3. CASE k = n
      <4>1. m.high = c.high
        BY <1>4, <3>2, <3>3
      <4>2. u[n].high = c.high
        BY <1>1, <1>2, <1>4, <2>4, <4>1
      <4> QED
        BY <1>8, <2>2, <3>1, <4>2
    <3>4. CASE k # n
      <4>1. u[k].high = c.high
        BY <1>14, <3>2, <3>4
      <4> QED
        BY <2>2, <3>1, <4>1
    <3> QED
      BY <3>3, <3>4
  <2> QED
    BY <2>3, <2>4
<1>16. /\ \E k \in T : c2.low = u[k].low
       /\ \A k \in T : c2.low <= u[k].low
  <2>1. t[n].low = m.low /\ c.low <= m.low
    BY <1>4, <1>8, <1>10
  <2>2. ASSUME NEW k \in T  PROVE c2.low <= u[k].low
    <3>1. CASE k = n
      BY <1>1, <1>2, <1>3, <1>4, <2>1, <3>1
    <3>2. CASE k # n
      <4>1. u[k].low = t[k].low /\ c.low <= t[k].low /\ t[k].low \in Nat
        BY <1>10, <1>14, <3>2
      <4> QED
        BY <1>1, <1>3, <4>1
    <3> QED
      BY <3>1, <3>2
  <2>3. CASE price <= c.low
    <3>1. u[n].low = price /\ c2.low = price
      BY <1>1, <1>2, <1>3, <1>4, <2>1, <2>3
    <3> QED
      BY <1>8, <2>2, <3>1
  <2>4. CASE ~(price <= c.low)
    <3>1. c2.low = c.low
      BY <1>1, <1>3, <2>4
    <3>2. PICK k \in T : c.low = t[k].low
      BY <1>10
    <3>3. CASE k = n
      <4>1. m.low = c.low
        BY <1>4, <3>2, <3>3
      <4>2. u[n].low = c.low
        BY <1>1, <1>2, <1>4, <2>4, <4>1
      <4> QED
        BY <1>8, <2>2, <3>1, <4>2
    <3>4. CASE k # n
      <4>1. u[k].low = c.low
        BY <1>14, <3>2, <3>4
      <4> QED
        BY <2>2, <3>1, <4>1
    <3> QED
      BY <3>3, <3>4
  <2> QED
    BY <2>3, <2>4
<1>17. T # {}
  BY <1>8
<1>18. Made(c2, coarse, u)
  BY <1>4, <1>7, <1>11, <1>12, <1>13, <1>15, <1>16, <1>17, Zenon DEF Made
<1> QED
  BY <1>18 DEF c2, m2, u

\* A finer candle of one trade comes after the others.
OneMore(s, o, start, coarse) ==
    LET u == s \o <<o>>
        n == Len(s) + 1
    IN  /\ u \in Seq(Candle) /\ Len(u) = n /\ n \in Nat /\ u[n] = o
        /\ \A k \in 1..Len(s) : u[k] = s[k] /\ k < n
        /\ Inside(start, coarse, u) = Inside(start, coarse, s) \cup {n}
        /\ Inside(start, coarse, s) \subseteq 1..Len(s)
        /\ Total(Amounts(start, coarse, u), n) = Total(Amounts(start, coarse, s), Len(s)) + 1

LEMMA OneMoreInside ==
    ASSUME NEW s \in Seq(Candle), NEW o \in Candle, NEW coarse, NEW start, o.volume = 1,
           Candles!Align(o.start, coarse) = start
    PROVE  OneMore(s, o, start, coarse)
<1> DEFINE m == Len(s)
           n == m + 1
           u == s \o <<o>>
           S == Inside(start, coarse, s)
           U == Inside(start, coarse, u)
           f == Amounts(start, coarse, s)
           g == Amounts(start, coarse, u)
<1>1. /\ u \in Seq(Candle) /\ Len(u) = n /\ m \in Nat /\ u[n] = o
      /\ \A k \in 1..m : u[k] = s[k]
      /\ \A k \in 1..n : k \in 1..m \/ k = n
  BY Lasts
<1>2. /\ n \in Nat /\ n \in 1..n /\ n \notin 1..m
      /\ \A k \in 1..m : k \in 1..n /\ k < n
  BY <1>1
<1> HIDE DEF u
<1>3. /\ f \in [1..m -> Int] /\ g \in [1..n -> Int]
      /\ \A k \in 1..m : f[k] = IF k \in S THEN s[k].volume ELSE 0
      /\ \A k \in 1..n : g[k] = IF k \in U THEN u[k].volume ELSE 0
  BY <1>1, AmountsAre
<1>4. U = S \cup {n} /\ S \subseteq 1..m
  <2>1. S = {k \in 1..m : Candles!Align(s[k].start, coarse) = start /\ s[k].volume > 0}
    BY DEF Inside
  <2>2. U = {k \in 1..n : Candles!Align(u[k].start, coarse) = start /\ u[k].volume > 0}
    BY <1>1, Zenon DEF Inside
  <2>3. Candles!Align(u[n].start, coarse) = start /\ u[n].volume > 0
    BY <1>1
  <2> HIDE DEF S, U, m, n
  <2> QED
    BY <1>1, <1>2, <2>1, <2>2, <2>3, Zenon
<1> HIDE DEF m, f, g, S, U
<1>5. \A k \in 1..m : g[k] = f[k]
  <2> SUFFICES ASSUME NEW k \in 1..m  PROVE g[k] = f[k]
    OBVIOUS
  <2>1. k \in 1..n /\ u[k] = s[k] /\ k # n
    BY <1>1, <1>2
  <2>2. k \in U <=> k \in S
    BY <1>4, <2>1
  <2> QED
    BY <1>3, <2>1, <2>2, Zenon
<1>6. g[n] = 1
  BY <1>1, <1>2, <1>3, <1>4
<1>7. Total(g, m + 1) = Total(g, m) + g[m + 1]
  BY <1>1, TotalUnfolds
<1>8. Total(g, m) = Total(f, m) /\ Total(f, m) \in Int
  BY <1>1, <1>3, <1>5, TotalSame, TotalIsInt
<1>9. Total(g, n) = Total(f, m) + 1
  BY <1>6, <1>7, <1>8
<1> QED
  BY <1>1, <1>2, <1>4, <1>9, Zenon DEF OneMore, m, f, g, S, U, u

OneTrade(o, price) ==
    /\ o \in Candle /\ o.volume = 1
    /\ o.open = price /\ o.high = price /\ o.low = price /\ o.close = price

LEMMA MadeAppended ==
    ASSUME NEW c \in Candle, NEW s \in Seq(Candle), NEW o, NEW coarse, NEW price \in Nat,
           OneTrade(o, price), Candles!Align(o.start, coarse) = c.start,
           Inside(c.start, coarse, s) # {}, Made(c, coarse, s)
    PROVE  Made(Candles!Updated(c, price), coarse, s \o <<o>>)
<1> DEFINE c2 == Candles!Updated(c, price)
           u == s \o <<o>>
           n == Len(s) + 1
           S == Inside(c.start, coarse, s)
           U == Inside(c.start, coarse, u)
<1>1. /\ c.start \in Nat /\ c.high \in Nat /\ c.low \in Nat /\ c.volume \in Nat
  BY DEF Candle
<1>2. /\ o \in Candle /\ o.volume = 1
      /\ o.open = price /\ o.high = price /\ o.low = price /\ o.close = price
  BY DEF OneTrade
<1>3. /\ c2 \in Candle /\ c2.start = c.start /\ c2.open = c.open
      /\ c2.high = (IF c.high >= price THEN c.high ELSE price)
      /\ c2.low = (IF c.low <= price THEN c.low ELSE price)
      /\ c2.close = price /\ c2.volume = c.volume + 1
  BY UpdatedIs, Zenon
<1> HIDE DEF c2
<1>4. /\ u \in Seq(Candle) /\ Len(u) = n /\ n \in Nat /\ u[n] = o
      /\ \A k \in 1..Len(s) : u[k] = s[k] /\ k < n
      /\ U = S \cup {n} /\ S \subseteq 1..Len(s)
      /\ Total(Amounts(c.start, coarse, u), n) = Total(Amounts(c.start, coarse, s), Len(s)) + 1
  <2>1. OneMore(s, o, c.start, coarse)
    BY <1>2, OneMoreInside
  <2> QED
    BY <2>1, Zenon DEF OneMore
<1>5. /\ S # {} /\ c.volume = Total(Amounts(c.start, coarse, s), Len(s))
      /\ \E k \in S : c.open = s[k].open /\ \A j \in S : k <= j
      /\ \E k \in S : c.high = s[k].high
      /\ \A k \in S : s[k].high <= c.high
      /\ \E k \in S : c.low = s[k].low
      /\ \A k \in S : c.low <= s[k].low
  BY Zenon DEF Made
<1> HIDE DEF u, S, U
<1>6. \A k \in S : u[k] = s[k] /\ k <= n /\ k \in U
  BY <1>4
<1>7. n \in U /\ n <= n /\ \A j \in U : j <= n /\ (j \in S \/ j = n)
  BY <1>4
<1>8. c2.volume = Total(Amounts(c2.start, coarse, u), n)
  BY <1>3, <1>4, <1>5
<1>9. \E k \in U : c2.open = u[k].open /\ \A j \in U : k <= j
  <2>1. PICK k \in S : c.open = s[k].open /\ \A j \in S : k <= j
    BY <1>5
  <2>2. \A j \in U : k <= j
    BY <1>6, <1>7, <2>1, Zenon
  <2> QED
    BY <1>3, <1>6, <2>1, <2>2, Zenon
<1>10. \E k \in U : c2.close = u[k].close /\ \A j \in U : j <= k
  BY <1>2, <1>3, <1>4, <1>7, Zenon
<1>11. \A k \in S : s[k].high \in Nat /\ s[k].low \in Nat
  BY <1>4, SeqOfCandles
<1>12. \A k \in U : u[k].high <= c2.high
  <2> SUFFICES ASSUME NEW k \in U  PROVE u[k].high <= c2.high
    OBVIOUS
  <2>1. CASE k = n
    BY <1>1, <1>2, <1>3, <1>4, <2>1
  <2>2. CASE k \in S
    <3>1. u[k].high = s[k].high /\ s[k].high <= c.high /\ s[k].high \in Nat
      BY <1>5, <1>6, <1>11, <2>2
    <3> QED
      BY <1>1, <1>3, <3>1
  <2> QED
    BY <1>7, <2>1, <2>2
<1>13. \A k \in U : c2.low <= u[k].low
  <2> SUFFICES ASSUME NEW k \in U  PROVE c2.low <= u[k].low
    OBVIOUS
  <2>1. CASE k = n
    BY <1>1, <1>2, <1>3, <1>4, <2>1
  <2>2. CASE k \in S
    <3>1. u[k].low = s[k].low /\ c.low <= s[k].low /\ s[k].low \in Nat
      BY <1>5, <1>6, <1>11, <2>2
    <3> QED
      BY <1>1, <1>3, <3>1
  <2> QED
    BY <1>7, <2>1, <2>2
<1>14. \E k \in U : c2.high = u[k].high
  <2>1. CASE c.high >= price
    <3>1. c2.high = c.high
      BY <1>3, <2>1
    <3> QED
      BY <1>5, <1>6, <3>1, Zenon
  <2>2. CASE ~(c.high >= price)
    <3>1. c2.high = price /\ u[n].high = price
      BY <1>2, <1>3, <1>4, <2>2
    <3> QED
      BY <1>7, <3>1, Zenon
  <2> QED
    BY <2>1, <2>2
<1>15. \E k \in U : c2.low = u[k].low
  <2>1. CASE c.low <= price
    <3>1. c2.low = c.low
      BY <1>3, <2>1
    <3> QED
      BY <1>5, <1>6, <3>1, Zenon
  <2>2. CASE ~(c.low <= price)
    <3>1. c2.low = price /\ u[n].low = price
      BY <1>2, <1>3, <1>4, <2>2
    <3> QED
      BY <1>7, <3>1, Zenon
  <2> QED
    BY <2>1, <2>2
<1>16. U # {} /\ U = Inside(c2.start, coarse, u)
  BY <1>3, <1>7 DEF U
<1>17. Made(c2, coarse, u)
  BY <1>4, <1>8, <1>9, <1>10, <1>12, <1>13, <1>14, <1>15, <1>16, Zenon DEF Made
<1> QED
  BY <1>17 DEF c2, u

LEMMA MadeOpened ==
    ASSUME NEW x, NEW s \in Seq(Candle), NEW o, NEW coarse, NEW price \in Nat,
           OneTrade(o, price), OneTrade(x, price), Candles!Align(o.start, coarse) = x.start,
           Inside(x.start, coarse, s) = {}
    PROVE  Made(x, coarse, s \o <<o>>)
<1> DEFINE u == s \o <<o>>
           n == Len(s) + 1
           U == Inside(x.start, coarse, u)
           f == Amounts(x.start, coarse, s)
<1>1. /\ o \in Candle /\ o.volume = 1
      /\ o.open = price /\ o.high = price /\ o.low = price /\ o.close = price
      /\ x \in Candle /\ x.volume = 1
      /\ x.open = price /\ x.high = price /\ x.low = price /\ x.close = price
  BY DEF OneTrade
<1>2. /\ u \in Seq(Candle) /\ Len(u) = n /\ n \in Nat /\ u[n] = o
      /\ U = {} \cup {n}
      /\ Total(Amounts(x.start, coarse, u), n) = Total(f, Len(s)) + 1
  <2>1. OneMore(s, o, x.start, coarse)
    BY <1>1, OneMoreInside
  <2> QED
    BY <2>1, Zenon DEF OneMore
<1>3. Total(f, Len(s)) = 0
  <2>1. Len(s) \in Nat /\ \A k \in 1..Len(s) : f[k] = 0
    BY AmountsAre
  <2> HIDE DEF f
  <2> QED
    BY <2>1, TotalOfZeroes
<1> HIDE DEF u, U, f
<1>4. x.volume = Total(Amounts(x.start, coarse, u), n)
  BY <1>1, <1>2, <1>3
<1>5. n \in U /\ \A k \in U : k = n /\ n <= k /\ k <= n
  BY <1>2
<1>6. /\ \E k \in U : x.open = u[k].open /\ \A j \in U : k <= j
      /\ \E k \in U : x.close = u[k].close /\ \A j \in U : j <= k
      /\ \E k \in U : x.high = u[k].high
      /\ \E k \in U : x.low = u[k].low
  BY <1>1, <1>2, <1>5, Zenon
<1>7. \A k \in U : u[k].high <= x.high /\ x.low <= u[k].low
  BY <1>1, <1>2, <1>5
<1>8. Made(x, coarse, u)
  BY <1>2, <1>4, <1>5, <1>6, <1>7, Zenon DEF Made, U
<1> QED
  BY <1>8 DEF u

\* A flat candle of an interval in which nothing was traded.
LEMMA MadeFlat ==
    ASSUME NEW x, NEW s \in Seq(Candle), NEW coarse, x = Candles!Flat(x.start, x.close),
           Inside(x.start, coarse, s) = {}
    PROVE  Made(x, coarse, s)
<1> DEFINE f == Amounts(x.start, coarse, s)
<1>1. Len(s) \in Nat /\ \A k \in 1..Len(s) : f[k] = 0
  BY AmountsAre
<1> HIDE DEF f
<1>2. Total(f, Len(s)) = 0
  BY <1>1, TotalOfZeroes
<1>3. \A a, b : Candles!Flat(a, b).volume = 0
  BY DEF Candles!Flat
<1>4. x.volume = 0
  BY <1>3, Zenon
<1> QED
  BY <1>2, <1>4, Zenon DEF Made, f

LEMMA GreatestIs ==
    ASSUME NEW S \in SUBSET Nat, NEW x \in S, \A y \in S : y <= x
    PROVE  Candles!Max(S) = x
<1>1. x \in Nat /\ \A y \in S : y \in Nat /\ x >= y
  OBVIOUS
<1>2. Candles!Max(S) \in S /\ \A y \in S : Candles!Max(S) >= y
  <2>1. \E z \in S : \A y \in S : z >= y
    BY <1>1
  <2> QED
    BY <2>1, Zenon DEF Candles!Max
<1> DEFINE y == Candles!Max(S)
<1>3. y \in Nat /\ y >= x /\ x >= y
  BY <1>1, <1>2
<1> HIDE DEF y
<1>4. y = x
  BY <1>1, <1>3
<1> QED
  BY <1>4 DEF y

LEMMA LeastIs ==
    ASSUME NEW S \in SUBSET Nat, NEW x \in S, \A y \in S : x <= y
    PROVE  Candles!Min(S) = x
<1>1. x \in Nat /\ \A y \in S : y \in Nat /\ x <= y
  OBVIOUS
<1>2. Candles!Min(S) \in S /\ \A y \in S : Candles!Min(S) <= y
  <2>1. \E z \in S : \A y \in S : z <= y
    BY <1>1
  <2> QED
    BY <2>1, Zenon DEF Candles!Min
<1> DEFINE y == Candles!Min(S)
<1>3. y \in Nat /\ y <= x /\ x <= y
  BY <1>1, <1>2
<1> HIDE DEF y
<1>4. y = x
  BY <1>1, <1>3
<1> QED
  BY <1>4 DEF y

\* It is what the property says of it.
LEMMA MadeAgrees ==
    ASSUME NEW c \in Candle, NEW coarse, NEW s \in Seq(Candle), Made(c, coarse, s)
    PROVE  Candles!Agrees(c, coarse, s)
<1> DEFINE T == Inside(c.start, coarse, s)
<1>1. DOMAIN s = 1..Len(s) /\ \A k \in 1..Len(s) : s[k].high \in Nat /\ s[k].low \in Nat
  BY SeqOfCandles
<1>2. T = Candles!TradedIn(c, coarse, s)
  BY <1>1, Zenon DEF Inside, Candles!TradedIn
<1>3. T \subseteq 1..Len(s) /\ Len(s) \in Nat
  BY DEF Inside
<1>4. c.volume = Candles!Total([k \in DOMAIN s |-> IF k \in T THEN s[k].volume ELSE 0], Len(s))
  BY <1>1, CandlesTotal, Zenon DEF Made, Amounts
<1>5. /\ T = {} => c = Candles!Flat(c.start, c.close)
      /\ T # {} =>
             /\ \E k \in T : c.open = s[k].open /\ \A j \in T : k <= j
             /\ \E k \in T : c.close = s[k].close /\ \A j \in T : j <= k
             /\ \E k \in T : c.high = s[k].high
             /\ \A k \in T : s[k].high <= c.high
             /\ \E k \in T : c.low = s[k].low
             /\ \A k \in T : c.low <= s[k].low
  BY Zenon DEF Made
<1> HIDE DEF T
<1>6. ASSUME T # {}
      PROVE  /\ c.open = s[Candles!Min(T)].open
             /\ c.close = s[Candles!Max(T)].close
             /\ c.high = Candles!Max({s[k].high : k \in T})
             /\ c.low = Candles!Min({s[k].low : k \in T})
  <2>1. PICK k \in T : c.open = s[k].open /\ \A j \in T : k <= j
    BY <1>5, <1>6
  <2>2. Candles!Min(T) = k
    BY <1>3, <2>1 DEF Candles!Min
  <2>3. PICK l \in T : c.close = s[l].close /\ \A j \in T : j <= l
    BY <1>5, <1>6
  <2>4. Candles!Max(T) = l
    BY <1>3, <2>3 DEF Candles!Max
  <2>5. c.high = Candles!Max({s[i].high : i \in T})
    <3> DEFINE H == {s[i].high : i \in T}
    <3>1. H \subseteq Nat /\ c.high \in H /\ \A y \in H : y <= c.high
      BY <1>1, <1>3, <1>5, <1>6
    <3> HIDE DEF H
    <3>2. Candles!Max(H) = c.high
      BY <3>1, GreatestIs
    <3> QED
      BY <3>2 DEF H
  <2>6. c.low = Candles!Min({s[i].low : i \in T})
    <3> DEFINE H == {s[i].low : i \in T}
    <3>1. H \subseteq Nat /\ c.low \in H /\ \A y \in H : c.low <= y
      BY <1>1, <1>3, <1>5, <1>6
    <3> HIDE DEF H
    <3>2. Candles!Min(H) = c.low
      BY <3>1, LeastIs
    <3> QED
      BY <3>2 DEF H
  <2> QED
    BY <2>1, <2>2, <2>3, <2>4, <2>5, <2>6
<1> QED
  BY <1>2, <1>4, <1>5, <1>6, Zenon DEF Candles!Agrees

LEMMA BeyondOne ==
    ASSUME NEW s \in Seq(Candle), NEW m \in Candle, NEW start, NEW coarse,
           Candles!Align(m.start, coarse) # start
    PROVE  Beyond(s, s \o <<m>>, start, coarse)
<1> DEFINE t == s \o <<m>>
<1>1. /\ t \in Seq(Candle) /\ Len(t) = Len(s) + 1 /\ Len(s) \in Nat
      /\ \A k \in 1..Len(s) : t[k] = s[k]
      /\ t[Len(s) + 1] = m
  BY Lasts
<1> HIDE DEF t
<1>2. Len(t) \notin Inside(start, coarse, t)
  BY <1>1 DEF Inside
<1>3. \A k \in (Len(s) + 1)..Len(t) : k = Len(t)
  BY <1>1
<1>4. Len(s) <= Len(t)
  BY <1>1
<1>5. Beyond(s, t, start, coarse)
  BY <1>1, <1>2, <1>3, <1>4, Zenon DEF Beyond
<1> QED
  BY <1>5 DEF t

LEMMA BeyondFlats ==
    ASSUME NEW s \in Seq(Candle), NEW m \in Candle, NEW end \in Nat, NEW d \in Nat \ {0},
           NEW start, NEW coarse
    PROVE  Beyond(s \o <<m>>, s \o Candles!WithGaps(m, end, d), start, coarse)
<1> DEFINE W == Candles!WithGaps(m, end, d)
           t == s \o <<m>>
           u == s \o W
           l == Len(s)
           n == Len(W)
<1>1. /\ W \in Seq(Candle) /\ n >= 1 /\ W[1] = m
      /\ \A k \in 2..n : W[k] = Candles!Flat(m.start + (k - 1) * d, m.close)
  BY GapsFilled
<1> HIDE DEF W
<1>2. /\ t \in Seq(Candle) /\ Len(t) = l + 1 /\ l \in Nat
      /\ \A k \in 1..l : t[k] = s[k]
      /\ t[l + 1] = m
      /\ \A k \in 1..(l + 1) : k \in 1..l \/ k = l + 1
  BY Lasts
<1>3. /\ u \in Seq(Candle) /\ Len(u) = l + n /\ n \in Nat
      /\ \A k \in 1..l : u[k] = s[k]
      /\ \A k \in (l + 1)..(l + n) : u[k] = W[k - l]
  BY <1>1, Joined
<1> HIDE DEF t, u, l, n
<1>4. l + 1 \in (l + 1)..(l + n) /\ (l + 1) - l = 1 /\ l + 1 <= l + n
  BY <1>1, <1>2, <1>3
<1>5. u[l + 1] = m
  BY <1>1, <1>3, <1>4, Zenon
<1>6. \A k \in 1..Len(t) : u[k] = t[k]
  BY <1>2, <1>3, <1>5, Zenon
<1>7. \A a, b : Candles!Flat(a, b).volume = 0
  BY DEF Candles!Flat
<1>8. ASSUME NEW k \in (Len(t) + 1)..Len(u)  PROVE k \notin Inside(start, coarse, u)
  <2>1. k \in (l + 1)..(l + n) /\ k - l \in 2..n
    BY <1>2, <1>3, <1>8
  <2>2. u[k].volume = 0
    <3>1. u[k] = W[k - l]
      BY <1>3, <2>1
    <3>2. W[k - l] = Candles!Flat(m.start + ((k - l) - 1) * d, m.close)
      BY <1>1, <2>1
    <3> QED
      BY <1>7, <3>1, <3>2, Zenon
  <2> QED
    BY <2>2 DEF Inside
<1>9. Len(t) <= Len(u)
  BY <1>2, <1>3, <1>4
<1>10. Beyond(t, u, start, coarse)
  BY <1>2, <1>3, <1>6, <1>8, <1>9, Zenon DEF Beyond
<1> QED
  BY <1>10 DEF t, u, W

Agreement(fine, coarse) ==
    /\ \A k \in 1..Len(stored[coarse]) : Made(stored[coarse][k], coarse, stored[fine])
    /\ making[coarse] # << >> => Made(making[coarse][1], coarse, stored[fine] \o making[fine])

Nested(fine, coarse) ==
    fine \in Duration /\ coarse \in Duration /\ fine < coarse /\ coarse % fine = 0

\* While trades come in order: the candles of a finer timeframe, and the candle in the making
\* of a coarser one.
Finer(fine, coarse, m, c, s) ==
    /\ m \in Candle /\ c \in Candle /\ s \in Seq(Candle)
    /\ making[fine] = <<m>> /\ making[coarse] = <<c>> /\ s = stored[fine]
    /\ m.volume >= 1 /\ c.start = Candles!Align(latest, coarse)
    /\ m.start = Candles!Align(latest, fine)
    /\ Candles!Align(m.start, coarse) = c.start
    /\ \A k \in 1..Len(s \o <<m>>) : Candles!Align((s \o <<m>>)[k].start, coarse) <= c.start

LEMMA FinerThere ==
    ASSUME CandleTypes, CandleOrder, NEW fine, NEW coarse, Nested(fine, coarse),
           making[fine] # << >> \/ making[coarse] # << >>
    PROVE  Finer(fine, coarse, making[fine][1], making[coarse][1], stored[fine])
<1>1. /\ fine \in Duration /\ coarse \in Duration
      /\ fine \in Nat \ {0} /\ coarse \in Nat \ {0} /\ coarse % fine = 0 /\ latest \in Nat
      /\ stored[fine] \in Seq(Candle)
  BY CandleConstants DEF Nested, CandleTypes
<1>2. /\ making[fine] # << >> /\ making[coarse] # << >>
      /\ InOrder(fine) /\ InOrder(coarse)
  BY <1>1, Zenon DEF CandleOrder
<1> DEFINE m == making[fine][1]
           c == making[coarse][1]
           s == stored[fine]
           t == s \o <<m>>
<1>3. m \in Candle /\ c \in Candle /\ making[fine] = <<m>> /\ making[coarse] = <<c>>
  BY <1>1, <1>2, InTheMaking
<1>4. /\ m.volume >= 1 /\ m.start = Candles!Align(latest, fine)
      /\ c.start = Candles!Align(latest, coarse)
      /\ \A k \in 1..Len(s) : s[k].start < Candles!Align(latest, fine)
  BY <1>2, Zenon DEF InOrder
<1>5. Candles!Align(m.start, coarse) = c.start
  BY <1>1, <1>4, AlignNested
<1>6. s \in Seq(Candle)
  BY <1>1
<1> HIDE DEF m, c, s
<1>7. /\ Len(t) = Len(s) + 1 /\ Len(s) \in Nat
      /\ \A k \in 1..Len(s) : t[k] = s[k]
      /\ t[Len(s) + 1] = m
      /\ \A k \in 1..(Len(s) + 1) : k \in 1..Len(s) \/ k = Len(s) + 1
  BY <1>3, <1>6, Lasts
<1>8. m.start \in Nat /\ c.start \in Nat
  BY <1>3 DEF Candle
<1>9. ASSUME NEW k \in 1..Len(t)  PROVE Candles!Align(t[k].start, coarse) <= c.start
  <2>1. CASE k \in 1..Len(s)
    <3>1. s[k].start \in Nat /\ s[k].start < m.start
      BY <1>4, <1>6, <2>1, SeqOfCandles
    <3>2. s[k].start <= m.start
      BY <1>8, <3>1
    <3>3. Candles!Align(s[k].start, coarse) <= Candles!Align(m.start, coarse)
      BY <1>1, <1>8, <3>1, <3>2, AlignGrows
    <3> QED
      BY <1>5, <1>7, <2>1, <3>3
  <2>2. CASE k = Len(s) + 1
    BY <1>5, <1>7, <1>8, <2>2
  <2> QED
    BY <1>7, <2>1, <2>2
<1> QED
  BY <1>1, <1>3, <1>4, <1>5, <1>6, <1>9, Zenon DEF Finer, m, c, s

\* Nothing was traded after the interval of the candle in the making, nor in the flat ones.
LEMMA NoneAfter ==
    ASSUME NEW fine, NEW coarse, NEW m, NEW c, NEW s, Finer(fine, coarse, m, c, s),
           NEW start \in Nat, c.start < start, NEW end \in Nat, NEW d \in Nat \ {0}
    PROVE  Inside(start, coarse, s \o Candles!WithGaps(m, end, d)) = {}
<1> DEFINE t == s \o <<m>>
           u == s \o Candles!WithGaps(m, end, d)
<1>1. /\ m \in Candle /\ c \in Candle /\ s \in Seq(Candle)
      /\ \A k \in 1..Len(t) : Candles!Align(t[k].start, coarse) <= c.start
  BY Zenon DEF Finer
<1>2. c.start \in Nat
  BY <1>1 DEF Candle
<1>3. Beyond(t, u, start, coarse)
  BY <1>1, BeyondFlats
<1> HIDE DEF t, u
<1>4. Inside(start, coarse, u) = Inside(start, coarse, t)
  BY <1>3, SameInside
<1>5. ~(start <= c.start)
  BY <1>2
<1>6. \A k \in 1..Len(t) : Candles!Align(t[k].start, coarse) # start
  BY <1>1, <1>5, Zenon
<1>7. Inside(start, coarse, t) = {}
  BY <1>6, Zenon DEF Inside
<1> QED
  BY <1>4, <1>7 DEF u

\* The stored candles of the coarser timeframe are complete.
LEMMA StoredComplete ==
    ASSUME CandleTypes, CandleOrder, NEW fine, NEW coarse, Nested(fine, coarse),
           NEW m, NEW c, NEW s, Finer(fine, coarse, m, c, s), Agreement(fine, coarse),
           NEW k \in 1..Len(stored[coarse]), NEW end \in Nat
    PROVE  Made(stored[coarse][k], coarse, s \o Candles!WithGaps(m, end, fine))
<1> DEFINE x == stored[coarse][k]
           t == s \o <<m>>
           u == s \o Candles!WithGaps(m, end, fine)
<1>1. /\ fine \in Duration /\ coarse \in Duration /\ fine \in Nat \ {0}
      /\ stored[coarse] \in Seq(Candle)
  BY CandleConstants DEF Nested, CandleTypes
<1>2. /\ m \in Candle /\ c \in Candle /\ s \in Seq(Candle) /\ s = stored[fine]
      /\ making[coarse] = <<c>> /\ Candles!Align(m.start, coarse) = c.start
      /\ c.start = Candles!Align(latest, coarse)
  BY Zenon DEF Finer
<1>3. Made(x, coarse, s)
  BY <1>2, Zenon DEF Agreement
<1>4. Candles!Align(m.start, coarse) # x.start
  <2>1. making[coarse] # << >>
    BY <1>2
  <2>2. x.start < Candles!Align(latest, coarse)
    BY <1>1, <2>1, Zenon DEF CandleOrder, InOrder
  <2>3. x.start \in Nat
    BY <1>1, SeqOfCandles
  <2> HIDE DEF x
  <2> QED
    BY <1>2, <2>2, <2>3
<1>5. Beyond(s, t, x.start, coarse)
  BY <1>2, <1>4, BeyondOne
<1>6. Beyond(t, u, x.start, coarse)
  BY <1>1, <1>2, BeyondFlats
<1> HIDE DEF x, t, u
<1>7. Made(x, coarse, t)
  BY <1>3, <1>5, MadeBeyond
<1>8. Made(x, coarse, u)
  BY <1>6, <1>7, MadeBeyond
<1> QED
  BY <1>8 DEF x, u

\* The candle in the making too, once the finer one is emitted.
LEMMA MakingComplete ==
    ASSUME NEW fine \in Nat \ {0}, NEW coarse, NEW m, NEW c, NEW s, Finer(fine, coarse, m, c, s),
           Agreement(fine, coarse), NEW end \in Nat
    PROVE  /\ Made(c, coarse, s \o Candles!WithGaps(m, end, fine))
           /\ Inside(c.start, coarse, s \o Candles!WithGaps(m, end, fine)) # {}
<1> DEFINE t == s \o <<m>>
           u == s \o Candles!WithGaps(m, end, fine)
<1>1. /\ m \in Candle /\ s \in Seq(Candle) /\ s = stored[fine] /\ making[fine] = <<m>>
      /\ making[coarse] = <<c>> /\ Candles!Align(m.start, coarse) = c.start /\ m.volume >= 1
  BY Zenon DEF Finer
<1>2. making[coarse] # << >> /\ making[coarse][1] = c
  BY <1>1
<1>3. Made(c, coarse, t)
  BY <1>1, <1>2, Zenon DEF Agreement
<1>4. Beyond(t, u, c.start, coarse)
  BY <1>1, BeyondFlats
<1>5. /\ Len(t) = Len(s) + 1 /\ Len(s) \in Nat /\ t[Len(s) + 1] = m
  BY <1>1, Lasts
<1> HIDE DEF t, u
<1>6. Made(c, coarse, u) /\ Inside(c.start, coarse, u) = Inside(c.start, coarse, t)
  BY <1>3, <1>4, MadeBeyond, SameInside
<1>7. m.volume \in Nat
  BY <1>1 DEF Candle
<1>8. Len(s) + 1 \in Inside(c.start, coarse, t)
  BY <1>1, <1>5, <1>7 DEF Inside
<1> QED
  BY <1>6, <1>8 DEF u

LEMMA OpenedIs ==
    ASSUME NEW time \in Nat, NEW price \in Nat, NEW d \in Nat \ {0}
    PROVE  /\ OneTrade(Candles!Opened(time, price, d), price)
           /\ Candles!Opened(time, price, d).start = Candles!Align(time, d)
<1>1. Candles!Opened(time, price, d) \in Candle
  BY CandleOpened
<1> QED
  BY <1>1 DEF Candles!Opened, OneTrade

\* A trade that is not late, seen from two timeframes.
LEMMA AgreementOfTwo ==
    ASSUME CandleTypes, CandleOrder, NEW fine, NEW coarse, Nested(fine, coarse),
           Agreement(fine, coarse), NEW time \in Nat, NEW price \in Nat, time >= latest,
           \A d \in Duration : \/ Begins(d, time, price)
                               \/ Continues(d, time, price)
                               \/ TurnsOver(d, time, price)
    PROVE  Agreement(fine, coarse)'
<1> DEFINE of == Candles!Opened(time, price, fine)
           oc == Candles!Opened(time, price, coarse)
           m == making[fine][1]
           c == making[coarse][1]
           s == stored[fine]
           end == Candles!Align(time, fine)
           u == s \o Candles!WithGaps(m, end, fine)
<1>1. /\ fine \in Duration /\ coarse \in Duration /\ latest \in Nat
      /\ fine \in Nat \ {0} /\ coarse \in Nat \ {0} /\ coarse % fine = 0
      /\ stored[fine] \in Seq(Candle) /\ stored[coarse] \in Seq(Candle)
      /\ end \in Nat /\ Candles!Align(time, coarse) \in Nat
  BY CandleConstants, AlignIs DEF Nested, CandleTypes
<1>2. /\ OneTrade(of, price) /\ OneTrade(oc, price)
      /\ of.start = end /\ oc.start = Candles!Align(time, coarse)
  BY <1>1, OpenedIs
<1>3. Candles!Align(of.start, coarse) = oc.start
  BY <1>1, <1>2, AlignNested
<1>4. Agreement(fine, coarse)' <=>
        /\ \A k \in 1..Len(stored'[coarse]) : Made(stored'[coarse][k], coarse, stored'[fine])
        /\ making'[coarse] # << >>
             => Made(making'[coarse][1], coarse, stored'[fine] \o making'[fine])
  BY DEF Agreement, Made, Inside, Amounts, Candles!Align, Candles!Flat, Total
<1> HIDE DEF of, oc
<1>5. CASE Begins(fine, time, price)
  <2>1. making[fine] = << >> /\ stored'[fine] = stored[fine] /\ making'[fine] = <<of>>
    BY <1>5, Zenon DEF Begins, of
  <2>2. making[coarse] = << >> /\ stored[fine] = << >> /\ stored[coarse] = << >>
    BY <1>1, <2>1, Zenon DEF CandleOrder
  <2>3. stored'[coarse] = << >> /\ making'[coarse] = <<oc>>
    <3>1. Begins(coarse, time, price)
      BY <1>1, <2>2, Zenon DEF Continues, TurnsOver
    <3> QED
      BY <2>2, <3>1, Zenon DEF Begins, oc
  <2>4. << >> \in Seq(Candle) /\ \A k : k \notin 1..Len(<< >>)
    OBVIOUS
  <2>5. Inside(oc.start, coarse, << >>) = {}
    BY <2>4, Zenon DEF Inside
  <2>6. Made(oc, coarse, << >> \o <<of>>)
    BY <1>2, <1>3, <2>4, <2>5, MadeOpened
  <2>7. making'[coarse][1] = oc
    BY <2>3
  <2> QED
    BY <1>4, <2>1, <2>2, <2>3, <2>4, <2>6, <2>7, Zenon
<1>6. ASSUME making[fine] # << >> \/ making[coarse] # << >>
      PROVE  Finer(fine, coarse, m, c, s)
  BY <1>6, FinerThere
<1>7. ASSUME Finer(fine, coarse, m, c, s)
      PROVE  /\ m \in Candle /\ c \in Candle /\ s \in Seq(Candle)
             /\ making[fine] = <<m>> /\ making[coarse] = <<c>> /\ m.volume >= 1
             /\ making[fine] # << >> /\ making[coarse] # << >>
             /\ c.start = Candles!Align(latest, coarse)
             /\ Candles!Align(m.start, coarse) = c.start
  <2>1. /\ m \in Candle /\ c \in Candle /\ s \in Seq(Candle)
        /\ making[fine] = <<m>> /\ making[coarse] = <<c>> /\ m.volume >= 1
        /\ c.start = Candles!Align(latest, coarse)
        /\ Candles!Align(m.start, coarse) = c.start
    BY <1>7, Zenon DEF Finer
  <2>2. \A x : <<x>> # << >>
    OBVIOUS
  <2> QED
    BY <2>1, <2>2, Zenon
<1> HIDE DEF m, c, u, end
<1>8. CASE Continues(fine, time, price)
  <2>1. /\ m.start = end /\ stored'[fine] = s /\ making[fine] # << >>
        /\ making'[fine] = <<Candles!Updated(m, price)>>
    BY <1>8, Zenon DEF Continues, m, end
  <2>2. /\ Finer(fine, coarse, m, c, s)
        /\ m \in Candle /\ c \in Candle /\ s \in Seq(Candle)
        /\ making[fine] = <<m>> /\ making[coarse] = <<c>> /\ m.volume >= 1
        /\ making[coarse] # << >>
        /\ Candles!Align(m.start, coarse) = c.start
    BY <1>6, <1>7, <2>1
  <2>3. c.start = Candles!Align(time, coarse)
    BY <1>2, <1>3, <2>1, <2>2, Zenon
  <2>4. Continues(coarse, time, price)
    <3>1. ~Begins(coarse, time, price)
      BY <2>2, Zenon DEF Begins
    <3>2. ~TurnsOver(coarse, time, price)
      BY <2>3, Zenon DEF TurnsOver, c
    <3> QED
      BY <1>1, <3>1, <3>2
  <2>5. stored'[coarse] = stored[coarse] /\ making'[coarse] = <<Candles!Updated(c, price)>>
    BY <2>4, Zenon DEF Continues, c
  <2>6. Made(c, coarse, s \o <<m>>)
    BY <2>2, Zenon DEF Agreement, c
  <2>7. Made(Candles!Updated(c, price), coarse, s \o <<Candles!Updated(m, price)>>)
    BY <2>2, <2>6, MadeUpdated
  <2>8. making'[coarse][1] = Candles!Updated(c, price)
    BY <2>5
  <2>9. \A k \in 1..Len(stored'[coarse]) : Made(stored'[coarse][k], coarse, stored'[fine])
    BY <2>1, <2>5, Zenon DEF Agreement
  <2> QED
    BY <1>4, <2>1, <2>7, <2>8, <2>9, Zenon
<1>9. CASE TurnsOver(fine, time, price)
  <2>1. /\ stored'[fine] = u /\ making[fine] # << >> /\ making'[fine] = <<of>>
    BY <1>9, Zenon DEF TurnsOver, m, end, u, of
  <2>2. /\ Finer(fine, coarse, m, c, s)
        /\ m \in Candle /\ c \in Candle /\ s \in Seq(Candle)
        /\ making[fine] = <<m>> /\ making[coarse] = <<c>>
        /\ making[coarse] # << >>
        /\ c.start = Candles!Align(latest, coarse)
    BY <1>6, <1>7, <2>1
  <2>3. Candles!WithGaps(m, end, fine) \in Seq(Candle)
    BY <1>1, <2>2, GapsFilled
  <2>4. u \in Seq(Candle)
    BY <2>2, <2>3, Joined DEF u
  <2>5. Made(c, coarse, u) /\ Inside(c.start, coarse, u) # {}
    BY <1>1, <2>2, MakingComplete DEF u
  <2>6. \A k \in 1..Len(stored[coarse]) : Made(stored[coarse][k], coarse, u)
    BY <1>1, <2>2, StoredComplete DEF u
  <2>7. CASE Continues(coarse, time, price)
    <3>1. /\ c.start = Candles!Align(time, coarse) /\ stored'[coarse] = stored[coarse]
          /\ making'[coarse] = <<Candles!Updated(c, price)>>
      BY <2>7, Zenon DEF Continues, c
    <3>2. Candles!Align(of.start, coarse) = c.start
      BY <1>2, <1>3, <3>1
    <3>3. Made(Candles!Updated(c, price), coarse, u \o <<of>>)
      BY <1>2, <2>2, <2>4, <2>5, <3>2, MadeAppended
    <3>4. making'[coarse][1] = Candles!Updated(c, price)
      BY <3>1
    <3> QED
      BY <1>4, <2>1, <2>6, <3>1, <3>3, <3>4, Zenon
  <2>8. CASE TurnsOver(coarse, time, price)
    <3> DEFINE W == Candles!WithGaps(c, Candles!Align(time, coarse), coarse)
    <3>1. /\ c.start # Candles!Align(time, coarse) /\ stored'[coarse] = stored[coarse] \o W
          /\ making'[coarse] = <<oc>>
      BY <2>8, Zenon DEF TurnsOver, c, oc
    <3>2. /\ W \in Seq(Candle) /\ Len(W) >= 1 /\ W[1] = c
          /\ \A k \in 2..Len(W) : W[k] = Candles!Flat(c.start + (k - 1) * coarse, c.close)
      BY <1>1, <2>2, GapsFilled
    <3> HIDE DEF W
    <3>3. c.start \in Nat /\ c.close \in Nat
      BY <2>2 DEF Candle
    <3>4. \A start \in Nat : c.start < start => Inside(start, coarse, u) = {}
      BY <1>1, <2>2, NoneAfter DEF u
    <3>5. oc.start \in Nat /\ c.start < oc.start
      <4>1. Candles!Align(latest, coarse) <= Candles!Align(time, coarse)
        BY <1>1, AlignGrows
      <4> QED
        BY <1>1, <1>2, <2>2, <3>1, <3>3, <4>1
    <3>6. Made(oc, coarse, u \o <<of>>)
      BY <1>2, <1>3, <2>4, <3>4, <3>5, MadeOpened
    <3>7. ASSUME NEW k \in 1..Len(W)  PROVE Made(W[k], coarse, u)
      <4>1. CASE k = 1
        BY <2>5, <3>2, <4>1
      <4>2. CASE k # 1
        <5> DEFINE a == c.start + (k - 1) * coarse
        <5>1. k \in 2..Len(W) /\ k - 1 \in Nat /\ 1 <= k - 1
          BY <3>2, <4>2
        <5>2. 1 * coarse <= (k - 1) * coarse /\ 1 * coarse = coarse /\ (k - 1) * coarse \in Int
          <6> DEFINE b == k - 1
          <6>1. b \in Int /\ 1 <= b /\ coarse \in Nat
            BY <1>1, <5>1
          <6> HIDE DEF b
          <6>2. 1 * coarse <= b * coarse /\ b * coarse \in Int
            BY <6>1, TimesGrow
          <6>3. 1 * coarse = coarse
            BY <6>1
          <6> QED
            BY <6>2, <6>3 DEF b
        <5>3. a \in Nat /\ c.start < a
          <6> DEFINE b == (k - 1) * coarse
          <6>1. b \in Int /\ coarse <= b /\ a = c.start + b
            BY <5>2
          <6>2. coarse \in Nat \ {0}
            BY <1>1
          <6> HIDE DEF b, a
          <6> QED
            BY <3>3, <6>1, <6>2
        <5>4. W[k] = Candles!Flat(a, c.close)
          BY <3>2, <5>1
        <5> HIDE DEF a
        <5>5. W[k].start = a /\ W[k].close = c.close
          BY <5>4 DEF Candles!Flat
        <5>6. Inside(W[k].start, coarse, u) = {}
          BY <3>4, <5>3, <5>5
        <5>7. W[k] = Candles!Flat(W[k].start, W[k].close)
          BY <5>4, <5>5
        <5> QED
          BY <2>4, <5>6, <5>7, MadeFlat
      <4> QED
        BY <4>1, <4>2
    <3>8. ASSUME NEW k \in 1..Len(stored'[coarse])  PROVE Made(stored'[coarse][k], coarse, u)
      <4> DEFINE l == Len(stored[coarse])
                 n == Len(W)
      <4>1. /\ Len(stored'[coarse]) = l + n /\ l \in Nat /\ n \in Nat
            /\ \A i \in 1..l : stored'[coarse][i] = stored[coarse][i]
            /\ \A i \in (l + 1)..(l + n) : stored'[coarse][i] = W[i - l]
        <5> DEFINE r == stored[coarse]
        <5>1. r \in Seq(Candle) /\ W \in Seq(Candle) /\ stored'[coarse] = r \o W
          BY <1>1, <3>1, <3>2
        <5> HIDE DEF r
        <5>2. /\ Len(r \o W) = Len(r) + Len(W) /\ Len(r) \in Nat /\ Len(W) \in Nat
              /\ \A i \in 1..Len(r) : (r \o W)[i] = r[i]
              /\ \A i \in (Len(r) + 1)..(Len(r) + Len(W)) : (r \o W)[i] = W[i - Len(r)]
          BY <5>1, Joined
        <5> QED
          BY <5>1, <5>2, Zenon DEF r
      <4>2. CASE k \in 1..l
        BY <2>6, <4>1, <4>2, Zenon
      <4>3. CASE k \in (l + 1)..(l + n)
        <5>1. k - l \in 1..n
          BY <4>1, <4>3
        <5> QED
          BY <3>7, <4>1, <4>3, <5>1, Zenon
      <4> QED
        BY <4>1, <4>2, <4>3
    <3>9. making'[coarse][1] = oc
      BY <3>1
    <3> QED
      BY <1>4, <2>1, <3>1, <3>6, <3>8, <3>9, Zenon
  <2>9. ~Begins(coarse, time, price)
    BY <2>2, Zenon DEF Begins
  <2> QED
    BY <1>1, <2>7, <2>8, <2>9
<1> QED
  BY <1>1, <1>5, <1>8, <1>9

CandleAgreement ==
    \A fine, coarse \in Duration : (fine < coarse /\ coarse % fine = 0) => Agreement(fine, coarse)

LEMMA CandleAgreementInit == Candles!Init => CandleAgreement
<1> SUFFICES ASSUME Candles!Init, NEW fine \in Duration, NEW coarse \in Duration
             PROVE  Agreement(fine, coarse)
  BY Zenon DEF CandleAgreement
<1>1. stored[coarse] = << >> /\ making[coarse] = << >>
  BY CandlesInit
<1>2. \A k : k \notin 1..Len(<< >>)
  OBVIOUS
<1> QED
  BY <1>1, <1>2, Zenon DEF Agreement

LEMMA CandleAgreementTrade ==
    ASSUME CandleTypes, orderly => CandleOrder /\ CandleAgreement, Candles!OnTrade
    PROVE  orderly' => CandleAgreement'
<1>1. PICK time \in Nat, price \in Nat :
             /\ tradesIn' = tradesIn + 1
             /\ orderly' = (orderly /\ time >= latest)
             /\ latest' = Candles!Max({latest, time})
             /\ making' \in [Duration -> Seq(Candle)] /\ stored' \in [Duration -> Seq(Candle)]
             /\ \A d \in Duration : \/ Begins(d, time, price)
                                    \/ Continues(d, time, price)
                                    \/ TurnsOver(d, time, price)
  BY TradeSteps
<1> SUFFICES ASSUME orderly', NEW fine \in Duration, NEW coarse \in Duration,
                    fine < coarse, coarse % fine = 0
             PROVE  Agreement(fine, coarse)'
  BY Zenon DEF CandleAgreement
<1>2. /\ CandleOrder /\ Agreement(fine, coarse) /\ time >= latest
      /\ \A d \in Duration : \/ Begins(d, time, price)
                             \/ Continues(d, time, price)
                             \/ TurnsOver(d, time, price)
  BY <1>1, Zenon DEF CandleAgreement
<1>3. Nested(fine, coarse)
  BY DEF Nested
<1> QED
  BY <1>2, <1>3, AgreementOfTwo

LEMMA CandleAgreementKept ==
    ASSUME CandleTypes, orderly => CandleAgreement
    PROVE  Candles!TimeframesAgree
<1> SUFFICES ASSUME orderly, NEW fine \in Duration, NEW coarse \in Duration,
                    fine < coarse, coarse % fine = 0,
                    NEW candle \in Candles!Range(stored[coarse])
             PROVE  Candles!Agrees(candle, coarse, stored[fine])
  BY Zenon DEF Candles!TimeframesAgree
<1>1. stored[fine] \in Seq(Candle) /\ stored[coarse] \in Seq(Candle)
  BY DEF CandleTypes
<1>2. PICK k \in 1..Len(stored[coarse]) : candle = stored[coarse][k]
  BY <1>1 DEF Candles!Range
<1>3. candle \in Candle
  BY <1>1, <1>2, SeqOfCandles
<1>4. Made(candle, coarse, stored[fine])
  BY <1>2, Zenon DEF CandleAgreement, Agreement
<1> QED
  BY <1>1, <1>3, <1>4, MadeAgrees

CandleInv == CandleVolume /\ (orderly => CandleOrder /\ CandleAgreement)

LEMMA CandleInit == Candles!Init => CandleInv
  BY CandleVolumeInit, CandleOrderInit, CandleAgreementInit DEF CandleInv

LEMMA CandleNext == CandleInv /\ [Next]_vars => CandleInv'
<1> SUFFICES ASSUME CandleInv, [Next]_vars  PROVE CandleInv'
  OBVIOUS
<1>1. CandleVolume /\ CandleTypes /\ (orderly => CandleOrder /\ CandleAgreement)
  BY DEF CandleInv, CandleVolume
<1>2. CASE Candles!OnTrade
  <2>1. CandleVolume'
    BY <1>1, <1>2, CandleVolumeNext DEF Candles!Next
  <2>2. orderly' => CandleOrder'
    BY <1>1, <1>2, CandleOrderTrade
  <2>3. orderly' => CandleAgreement'
    BY <1>1, <1>2, CandleAgreementTrade
  <2> QED
    BY <2>1, <2>2, <2>3 DEF CandleInv
<1>3. CASE Candles!Flush
  <2>1. CandleVolume'
    BY <1>1, <1>3, CandleVolumeNext DEF Candles!Next
  <2>2. orderly' = FALSE
    BY <1>1, <1>3, CandleTypesFlush
  <2> QED
    BY <2>1, <2>2 DEF CandleInv
<1>4. CASE UNCHANGED candleVars
  <2>1. CandleVolume' <=> CandleVolume
    BY <1>4 DEF candleVars, CandleVolume, CandleTypes, Volume, Total
  <2>2. CandleOrder' <=> CandleOrder
    BY <1>4 DEF candleVars, CandleOrder, InOrder, Chain, Candles!Align
  <2>3. CandleAgreement' <=> CandleAgreement
    BY <1>4 DEF candleVars, CandleAgreement, Agreement, Made, Inside, Amounts, Candles!Align,
                Candles!Flat, Total
  <2>4. orderly' = orderly
    BY <1>4 DEF candleVars
  <2> QED
    BY <1>1, <2>1, <2>2, <2>3, <2>4 DEF CandleInv
<1> QED
  BY <1>2, <1>3, <1>4, CandleSteps DEF Candles!Next

LEMMA CandlesKept ==
    CandleInv => Candles!VolumeKept /\ Candles!Contiguous /\ Candles!TimeframesAgree
<1> SUFFICES ASSUME CandleInv
             PROVE  Candles!VolumeKept /\ Candles!Contiguous /\ Candles!TimeframesAgree
  OBVIOUS
<1>1. /\ CandleVolume /\ CandleTypes
      /\ orderly => CandleOrder
      /\ orderly => CandleAgreement
  BY DEF CandleInv, CandleVolume
<1> QED
  BY <1>1, CandleVolumeKept, CandleOrderKept, CandleAgreementKept

(***************************************************************************)
(* Whatever trades come, late ones included, and whenever the candles are  *)
(* flushed, no trade is lost or counted twice; and while the trades come   *)
(* in order the candles of a timeframe follow each other without a hole    *)
(* and a stored candle is what the finer candles within it come to         *)
(* (CandleAggregator.java: the gap filling and the aggregation): the half  *)
(* of PipelineWhole that is about candles.                                 *)
(***************************************************************************)
THEOREM CandlesWhole ==
    Spec => [](Runs("candles") =>
                   Candles!VolumeKept /\ Candles!Contiguous /\ Candles!TimeframesAgree)
<1>1. Init => CandleInv
  BY CandleInit, Zenon DEF Init
<1> QED
  BY <1>1, CandleNext, CandlesKept, PTL DEF Spec

(***************************************************************************)
(* Both together: the property that the run checks of the pipeline.        *)
(***************************************************************************)
THEOREM PipelineStaysWhole == Spec => []PipelineWhole
<1>1. /\ (Runs("candles") =>
             Candles!VolumeKept /\ Candles!Contiguous /\ Candles!TimeframesAgree)
      /\ (Runs("discovery") => Discovery!PassedIsAnswered /\ Discovery!EvolvedOncePerRun)
      => PipelineWhole
  BY Zenon DEF PipelineWhole
<1> QED
  BY <1>1, CandlesWhole, DiscoveryAnswers, PTL

(***************************************************************************)
(* The strategy execution engine                                           *)
(***************************************************************************)

ExecutionContext ==
    [config : Execution!Config, status : {"RUNNING", "STOPPED", "ERROR"}, entry : Nat,
     realized : Int, price : Nat]

ExecutionTypes ==
    /\ context \in Seq(ExecutionContext)
    /\ follower \in [holds : Int, made : Int]
    /\ feeding # Execution!Idle => /\ feeding.context \in 1..Len(context)
                                   /\ feeding.price \in ClosingPrice

\* What a context has made so far, less what its open position cost.
Owed == [k \in 1..Len(context) |-> context[k].realized - context[k].entry]
LongIn == {k \in 1..Len(context) : context[k].entry # 0}

\* No position lies at or beyond its limits at the last price its context has seen.
WithinLimits(c) ==
    c.entry # 0 => /\ 100 * c.price > c.entry * (100 - StopLossPct)
                   /\ 100 * c.price < c.entry * (100 + TakeProfitPct)

ExecutionInv ==
    /\ ExecutionTypes
    /\ follower.holds = Cardinality(LongIn)
    /\ follower.made = Total(Owed, Len(context))

ExecutionLimits == \A k \in 1..Len(context) : WithinLimits(context[k])

LEMMA ExecutionSteps == [Next]_vars => Execution!Next \/ UNCHANGED executionVars
  BY Zenon DEF Next, Only, vars

LEMMA ExecutionLibrary ==
    /\ \A S : Execution!Cardinality(S) = Cardinality(S)
    /\ \A f, n : Execution!Total(f, n) = Total(f, n)
  BY Zenon DEF Cardinality, Execution!Cardinality, Total, Execution!Total

LEMMA ExecutionConstants ==
    /\ ClosingPrice \subseteq Nat \ {0}
    /\ StopLossPct \in Nat /\ StopLossPct <= 100 /\ TakeProfitPct \in Nat
  BY LedgerConstants

LEMMA LongIsFinite ==
    ASSUME ExecutionTypes
    PROVE  IsFiniteSet(LongIn) /\ Cardinality(LongIn) \in Nat
<1>0. Len(context) \in Int /\ 1 \in Int
  BY DEF ExecutionTypes
<1>1. IsFiniteSet(1..Len(context)) /\ LongIn \in SUBSET (1..Len(context))
  BY <1>0, FS_Interval, Zenon DEF LongIn
<1> QED
  BY <1>1, FS_Subset, FS_CardinalityType

LEMMA OwedIsInt ==
    ASSUME ExecutionTypes
    PROVE  /\ Len(context) \in Nat /\ Total(Owed, Len(context)) \in Int
           /\ \A k \in 1..Len(context) : Owed[k] = context[k].realized - context[k].entry /\ Owed[k] \in Int
<1>1. /\ Len(context) \in Nat
      /\ \A k \in 1..Len(context) : Owed[k] = context[k].realized - context[k].entry /\ Owed[k] \in Int
  <2>1. Len(context) \in Nat /\ \A k \in 1..Len(context) : context[k] \in ExecutionContext
    BY DEF ExecutionTypes
  <2>2. \A c \in ExecutionContext : c.realized - c.entry \in Int
    BY DEF ExecutionContext
  <2> QED
    BY <2>1, <2>2 DEF Owed
<1> QED
  BY <1>1, TotalIsInt

LEMMA ExecutionInit == Execution!Init => ExecutionInv /\ ExecutionLimits
<1> SUFFICES ASSUME Execution!Init  PROVE ExecutionInv /\ ExecutionLimits
  OBVIOUS
<1>1. /\ context = << >> /\ Len(context) = 0 /\ feeding = Execution!Idle
      /\ follower = [holds |-> 0, made |-> 0]
  BY DEF Execution!Init
<1>2. LongIn = {}
  BY <1>1 DEF LongIn
<1>3. Total(Owed, Len(context)) = 0
  BY <1>1, TotalUnfolds
<1> QED
  BY <1>1, <1>2, <1>3, FS_EmptySet DEF ExecutionInv, ExecutionTypes, ExecutionLimits

\* A context is replaced by another one.
LEMMA ContextReplaced ==
    ASSUME ExecutionTypes, NEW k \in 1..Len(context), NEW c \in ExecutionContext,
           context' = [context EXCEPT ![k] = c]
    PROVE  /\ Len(context') = Len(context) /\ context' \in Seq(ExecutionContext)
           /\ \A j \in 1..Len(context) : context'[j] = IF j = k THEN c ELSE context[j]
           /\ LongIn' = IF c.entry # 0 THEN LongIn \cup {k} ELSE LongIn \ {k}
           /\ Total(Owed', Len(context')) = Total(Owed, Len(context)) - Owed[k] + (c.realized - c.entry)
<1>1. /\ Len(context') = Len(context) /\ context' \in Seq(ExecutionContext)
      /\ \A j \in 1..Len(context) : context'[j] = IF j = k THEN c ELSE context[j]
  BY DEF ExecutionTypes
<1>2. LongIn' = IF c.entry # 0 THEN LongIn \cup {k} ELSE LongIn \ {k}
  BY <1>1 DEF LongIn
<1>3. \A j \in 1..Len(context) : Owed'[j] = IF j = k THEN c.realized - c.entry ELSE Owed[j]
  BY <1>1 DEF Owed
<1>4. c.realized - c.entry \in Int
  BY DEF ExecutionContext
<1>5. Total(Owed', Len(context)) = Total(Owed, Len(context)) - Owed[k] + (c.realized - c.entry)
  <2> DEFINE f == Owed
             g == Owed'
  <2>1. /\ Len(context) \in Nat /\ \A j \in 1..Len(context) : f[j] \in Int
        /\ g[k] = c.realized - c.entry /\ g[k] \in Int
        /\ \A j \in 1..Len(context) : j # k => g[j] = f[j]
    BY <1>3, <1>4, OwedIsInt
  <2> HIDE DEF f, g
  <2>2. Total(g, Len(context)) = Total(f, Len(context)) - f[k] + g[k]
    BY <2>1, TotalChange
  <2> QED
    BY <2>1, <2>2 DEF f, g
<1> QED
  BY <1>1, <1>2, <1>5

LEMMA ExecutionStart ==
    ASSUME ExecutionInv, NEW t, Execution!Start(t)
    PROVE  ExecutionInv' /\ (ExecutionLimits => ExecutionLimits')
<1>1. PICK config \in Execution!Config :
        context' = Append(context, [config |-> config, status |-> "RUNNING", entry |-> Execution!Flat,
                                    realized |-> 0, price |-> 0])
  BY DEF Execution!Start
<1> DEFINE c == [config |-> config, status |-> "RUNNING", entry |-> Execution!Flat,
                 realized |-> 0, price |-> 0]
           n == Len(context)
<1>2. c \in ExecutionContext /\ c.entry = 0 /\ c.realized = 0
  BY DEF ExecutionContext, Execution!Flat
<1>3. ExecutionTypes /\ feeding' = feeding /\ follower' = follower
  BY DEF ExecutionInv, Execution!Start
<1> HIDE DEF c
<1>4. /\ n \in Nat /\ Len(context') = n + 1 /\ context' \in Seq(ExecutionContext)
      /\ \A k \in 1..n : context'[k] = context[k]
      /\ context'[n + 1] = c
  BY <1>1, <1>2, <1>3 DEF ExecutionTypes, c
<1>5. ExecutionTypes'
  BY <1>3, <1>4 DEF ExecutionTypes
<1>6. LongIn' = LongIn
  BY <1>2, <1>4 DEF LongIn
<1>7. Total(Owed', Len(context')) = Total(Owed, Len(context))
  <2> DEFINE f == Owed
             g == Owed'
  <2>1. g[n + 1] = 0 /\ \A k \in 1..n : g[k] = f[k]
    BY <1>2, <1>4 DEF Owed
  <2>2. Total(f, n) \in Int
    BY <1>3, OwedIsInt
  <2> HIDE DEF f, g
  <2>3. Total(g, n + 1) = Total(g, n) + g[n + 1]
    BY <1>4, TotalUnfolds
  <2>4. Total(g, n) = Total(f, n)
    BY <1>4, <2>1, TotalSame
  <2>5. Total(g, n + 1) = Total(f, n)
    BY <2>1, <2>2, <2>3, <2>4
  <2> QED
    BY <1>4, <2>5 DEF f, g
<1>8. ExecutionLimits => ExecutionLimits'
  BY <1>2, <1>4 DEF ExecutionLimits, WithinLimits
<1> QED
  BY <1>3, <1>5, <1>6, <1>7, <1>8 DEF ExecutionInv

LEMMA ExecutionStop ==
    ASSUME ExecutionInv, Execution!Stop
    PROVE  ExecutionInv' /\ (ExecutionLimits => ExecutionLimits')
<1> DEFINE k == Len(context)
           c == [context[k] EXCEPT !.status = "STOPPED"]
<1>1. /\ context' = [context EXCEPT ![k] = c]
      /\ feeding' = feeding /\ follower' = follower /\ k > 0
  BY DEF Execution!Stop, Execution!Current
<1>2. ExecutionTypes /\ k \in 1..Len(context) /\ context[k] \in ExecutionContext
  BY <1>1 DEF ExecutionInv, ExecutionTypes
<1>3. /\ c \in ExecutionContext /\ c.entry = context[k].entry /\ c.realized = context[k].realized
      /\ c.price = context[k].price
  BY <1>2 DEF ExecutionContext
<1> HIDE DEF k, c
<1>4. /\ Len(context') = Len(context) /\ context' \in Seq(ExecutionContext)
      /\ \A j \in 1..Len(context) : context'[j] = IF j = k THEN c ELSE context[j]
      /\ LongIn' = IF c.entry # 0 THEN LongIn \cup {k} ELSE LongIn \ {k}
      /\ Total(Owed', Len(context')) = Total(Owed, Len(context)) - Owed[k] + (c.realized - c.entry)
  BY <1>1, <1>2, <1>3, ContextReplaced
<1>5. LongIn' = LongIn
  BY <1>2, <1>3, <1>4 DEF LongIn
<1>6. Total(Owed', Len(context')) = Total(Owed, Len(context))
  BY <1>2, <1>3, <1>4, OwedIsInt
<1>7. ExecutionLimits => ExecutionLimits'
  BY <1>2, <1>3, <1>4 DEF ExecutionLimits, WithinLimits
<1> QED
  BY <1>1, <1>2, <1>4, <1>5, <1>6, <1>7 DEF ExecutionInv, ExecutionTypes

\* What a candle does to the context it works on.
LEMMA EvaluateCases ==
    ASSUME ExecutionTypes, Execution!Evaluate, NEW k, NEW c, NEW price,
           k = feeding.context, price = feeding.price, c = [context[k] EXCEPT !.price = price]
    PROVE  /\ feeding # Execution!Idle /\ feeding' = Execution!Idle
           /\ \/ /\ c.entry # 0
                 /\ context' = [context EXCEPT ![k] = Execution!Exit(c, price)]
                 /\ Execution!Follow(-1, price)
              \/ /\ c.entry = 0
                 /\ context' = [context EXCEPT ![k] = [c EXCEPT !.entry = price]]
                 /\ Execution!Follow(1, price)
              \/ /\ ~Execution!AtLimit(c.entry, price)
                 /\ \/ context' = [context EXCEPT ![k] = [c EXCEPT !.status = "ERROR"]]
                    \/ context' = [context EXCEPT ![k] = c]
                 /\ follower' = follower
<1>1. Execution!AtLimit(c.entry, price) => c.entry # 0
  BY DEF Execution!AtLimit, Execution!Flat
<1> QED
  BY <1>1 DEF Execution!Evaluate, Execution!Flat

LEMMA ExecutionEvaluate ==
    ASSUME ExecutionInv, Execution!Evaluate
    PROVE  /\ ExecutionInv'
           /\ (StopLossPct >= 1 /\ TakeProfitPct >= 1 /\ ExecutionLimits) => ExecutionLimits'
<1> DEFINE k == feeding.context
           price == feeding.price
           c == [context[k] EXCEPT !.price = price]
<1>1. /\ feeding # Execution!Idle /\ feeding' = Execution!Idle
      /\ \/ /\ c.entry # 0
            /\ context' = [context EXCEPT ![k] = Execution!Exit(c, price)]
            /\ Execution!Follow(-1, price)
         \/ /\ c.entry = 0
            /\ context' = [context EXCEPT ![k] = [c EXCEPT !.entry = price]]
            /\ Execution!Follow(1, price)
         \/ /\ ~Execution!AtLimit(c.entry, price)
            /\ \/ context' = [context EXCEPT ![k] = [c EXCEPT !.status = "ERROR"]]
               \/ context' = [context EXCEPT ![k] = c]
            /\ follower' = follower
  BY EvaluateCases, Zenon DEF ExecutionInv
<1>2. ExecutionTypes /\ k \in 1..Len(context) /\ context[k] \in ExecutionContext
  BY <1>1 DEF ExecutionInv, ExecutionTypes
<1>3. price \in ClosingPrice /\ price \in Nat /\ price > 0
  BY <1>1, <1>2, ExecutionConstants DEF ExecutionTypes
<1>4. /\ c \in ExecutionContext /\ c.entry = context[k].entry /\ c.realized = context[k].realized
      /\ c.price = price
  BY <1>2, <1>3 DEF ExecutionContext
<1>5. /\ Owed[k] = c.realized - c.entry /\ Owed[k] \in Int /\ Total(Owed, Len(context)) \in Int
      /\ c.realized \in Int /\ c.entry \in Nat
  BY <1>2, <1>4, OwedIsInt DEF ExecutionContext
<1>6. k \in LongIn <=> c.entry # 0
  BY <1>2, <1>4 DEF LongIn
<1>7. IsFiniteSet(LongIn) /\ Cardinality(LongIn) \in Nat
  BY <1>2, LongIsFinite
<1>8. /\ Cardinality(LongIn \cup {k}) = IF k \in LongIn THEN Cardinality(LongIn) ELSE Cardinality(LongIn) + 1
      /\ Cardinality(LongIn \ {k}) = IF k \in LongIn THEN Cardinality(LongIn) - 1 ELSE Cardinality(LongIn)
  BY <1>7, FS_AddElement, FS_RemoveElement
<1> HIDE DEF k, price, c
<1>9. ASSUME NEW d \in ExecutionContext, context' = [context EXCEPT ![k] = d],
             follower' \in [holds : Int, made : Int],
             follower'.holds = Cardinality(IF d.entry # 0 THEN LongIn \cup {k} ELSE LongIn \ {k}),
             follower'.made = follower.made - Owed[k] + (d.realized - d.entry)
      PROVE  /\ ExecutionInv'
             /\ WithinLimits(d) /\ ExecutionLimits => ExecutionLimits'
  <2>1. /\ Len(context') = Len(context) /\ context' \in Seq(ExecutionContext)
        /\ \A j \in 1..Len(context) : context'[j] = IF j = k THEN d ELSE context[j]
        /\ LongIn' = IF d.entry # 0 THEN LongIn \cup {k} ELSE LongIn \ {k}
        /\ Total(Owed', Len(context')) = Total(Owed, Len(context)) - Owed[k] + (d.realized - d.entry)
    BY <1>2, <1>9, ContextReplaced
  <2>2. follower'.holds = Cardinality(LongIn')
    BY <1>9, <2>1, Zenon
  <2>3. follower'.made = Total(Owed', Len(context'))
    <3>1. follower.made = Total(Owed, Len(context))
      BY DEF ExecutionInv
    <3> QED
      BY <1>9, <2>1, <3>1, Zenon
  <2>4. ExecutionTypes'
    BY <1>1, <1>9, <2>1 DEF ExecutionTypes
  <2>5. WithinLimits(d) /\ ExecutionLimits => ExecutionLimits'
    BY <2>1 DEF ExecutionLimits, WithinLimits
  <2> QED
    BY <2>2, <2>3, <2>4, <2>5 DEF ExecutionInv
<1>10. follower \in [holds : Int, made : Int] /\ follower.holds = Cardinality(LongIn)
  BY DEF ExecutionInv, ExecutionTypes
<1>11. CASE /\ c.entry # 0
            /\ context' = [context EXCEPT ![k] = Execution!Exit(c, price)]
            /\ Execution!Follow(-1, price)
  <2> DEFINE d == Execution!Exit(c, price)
  <2>1. d \in ExecutionContext /\ d.entry = 0 /\ d.realized = c.realized + price - c.entry
    <3>1. c.realized + price - c.entry \in Int
      BY <1>3, <1>5
    <3>2. d = [[c EXCEPT !.realized = c.realized + price - c.entry] EXCEPT !.entry = 0]
      BY <1>4 DEF Execution!Exit, Execution!Flat, ExecutionContext
    <3> HIDE DEF d
    <3>3. \A x \in Int : [[c EXCEPT !.realized = x] EXCEPT !.entry = 0] \in ExecutionContext
                       /\ [[c EXCEPT !.realized = x] EXCEPT !.entry = 0].entry = 0
                       /\ [[c EXCEPT !.realized = x] EXCEPT !.entry = 0].realized = x
      BY <1>4 DEF ExecutionContext
    <3> QED
      BY <3>1, <3>2, <3>3
  <2>2. /\ follower' = [holds |-> follower.holds + -1, made |-> follower.made - (-1) * price]
        /\ follower.holds \in Int /\ follower.made \in Int
    BY <1>10, <1>11 DEF Execution!Follow
  <2>3. /\ follower' \in [holds : Int, made : Int] /\ follower'.holds = follower.holds - 1
        /\ follower'.made = follower.made + price
    BY <1>3, <2>2
  <2> HIDE DEF d
  <2>4. follower'.holds = Cardinality(IF d.entry # 0 THEN LongIn \cup {k} ELSE LongIn \ {k})
    BY <1>6, <1>8, <1>10, <1>11, <2>1, <2>3
  <2>5. follower'.made = follower.made - Owed[k] + (d.realized - d.entry)
    <3>1. /\ d.entry = 0 /\ d.realized = c.realized + price - c.entry
          /\ follower'.made = follower.made + price /\ follower.made \in Int
      BY <1>10, <2>1, <2>3
    <3> QED
      BY <1>3, <1>5, <3>1
  <2>6. WithinLimits(d)
    BY <2>1 DEF WithinLimits
  <2>7. context' = [context EXCEPT ![k] = d]
    BY <1>11 DEF d
  <2> QED
    BY <1>9, <2>1, <2>3, <2>4, <2>5, <2>6, <2>7
<1>12. CASE /\ c.entry = 0
            /\ context' = [context EXCEPT ![k] = [c EXCEPT !.entry = price]]
            /\ Execution!Follow(1, price)
  <2> DEFINE d == [c EXCEPT !.entry = price]
  <2>1. d \in ExecutionContext /\ d.entry = price /\ d.realized = c.realized /\ d.price = price
    BY <1>3, <1>4 DEF ExecutionContext
  <2>2. /\ follower' = [holds |-> follower.holds + 1, made |-> follower.made - 1 * price]
        /\ follower.holds \in Int /\ follower.made \in Int
    BY <1>10, <1>12 DEF Execution!Follow
  <2>3. /\ follower' \in [holds : Int, made : Int] /\ follower'.holds = follower.holds + 1
        /\ follower'.made = follower.made - price
    BY <1>3, <2>2
  <2> HIDE DEF d
  <2>4. follower'.holds = Cardinality(IF d.entry # 0 THEN LongIn \cup {k} ELSE LongIn \ {k})
    BY <1>3, <1>6, <1>8, <1>10, <1>12, <2>1, <2>3
  <2>5. follower'.made = follower.made - Owed[k] + (d.realized - d.entry)
    BY <1>3, <1>5, <1>12, <2>1, <2>2, <2>3
  <2>6. StopLossPct >= 1 /\ TakeProfitPct >= 1 => WithinLimits(d)
    <3> SUFFICES ASSUME StopLossPct >= 1, TakeProfitPct >= 1  PROVE WithinLimits(d)
      OBVIOUS
    <3>1. \A p, s, t \in Nat : p > 0 /\ s >= 1 /\ t >= 1 =>
             100 * p > p * (100 - s) /\ 100 * p < p * (100 + t)
      <4> TAKE p, s, t \in Nat
      <4> HAVE p > 0 /\ s >= 1 /\ t >= 1
      <4>1. p * (100 - s) = 100 * p - p * s /\ p * (100 + t) = 100 * p + p * t
        OBVIOUS
      <4>2. \A x, y \in Nat : x > 0 /\ y >= 1 => x * y > 0
        OBVIOUS
      <4>3. p * s > 0 /\ p * t > 0
        BY <4>2
      <4>4. p * s \in Int /\ p * t \in Int /\ 100 * p \in Int
        OBVIOUS
      <4> QED
        BY <4>1, <4>3, <4>4
    <3> QED
      BY <1>3, <2>1, <3>1, ExecutionConstants DEF WithinLimits
  <2>7. context' = [context EXCEPT ![k] = d]
    BY <1>12 DEF d
  <2> QED
    BY <1>9, <2>1, <2>3, <2>4, <2>5, <2>6, <2>7
<1>13. CASE /\ ~Execution!AtLimit(c.entry, price)
            /\ \/ context' = [context EXCEPT ![k] = [c EXCEPT !.status = "ERROR"]]
               \/ context' = [context EXCEPT ![k] = c]
            /\ follower' = follower
  <2>1. PICK d \in {c, [c EXCEPT !.status = "ERROR"]} : context' = [context EXCEPT ![k] = d]
    BY <1>13, Zenon
  <2>2. d \in ExecutionContext /\ d.entry = c.entry /\ d.realized = c.realized /\ d.price = price
    BY <1>3, <1>4 DEF ExecutionContext
  <2>3. follower'.holds = Cardinality(IF d.entry # 0 THEN LongIn \cup {k} ELSE LongIn \ {k})
    BY <1>6, <1>8, <1>10, <1>13, <2>2
  <2>4. follower'.made = follower.made - Owed[k] + (d.realized - d.entry)
    BY <1>5, <1>10, <1>13, <2>2
  <2>5. WithinLimits(d)
    <3>1. c.entry # 0 => ~(100 * price <= c.entry * (100 - StopLossPct))
                         /\ ~(100 * price >= c.entry * (100 + TakeProfitPct))
      BY <1>13 DEF Execution!AtLimit, Execution!Flat
    <3>2. /\ 100 * price \in Int /\ c.entry * (100 - StopLossPct) \in Int
          /\ c.entry * (100 + TakeProfitPct) \in Int
      BY <1>3, <1>5, ExecutionConstants
    <3>3. \A x, y \in Int : (~(x <= y) => x > y) /\ (~(x >= y) => x < y)
      OBVIOUS
    <3> QED
      BY <2>2, <3>1, <3>2, <3>3 DEF WithinLimits
  <2> QED
    BY <1>9, <1>10, <1>13, <2>1, <2>2, <2>3, <2>4, <2>5
<1> QED
  BY <1>1, <1>11, <1>12, <1>13 DEF k, price, c

LEMMA ExecutionNext ==
    ASSUME ExecutionInv, [Next]_vars
    PROVE  /\ ExecutionInv'
           /\ (StopLossPct >= 1 /\ TakeProfitPct >= 1 /\ ExecutionLimits) => ExecutionLimits'
<1>1. CASE \E t \in Thread : Execution!CheckStart(t)
  BY <1>1 DEF Execution!CheckStart, ExecutionInv, ExecutionTypes, ExecutionLimits, LongIn, Owed,
              WithinLimits
<1>2. CASE \E t \in Thread : Execution!Start(t)
  BY <1>2, ExecutionStart
<1>3. CASE Execution!Stop
  BY <1>3, ExecutionStop
<1>4. CASE Execution!TakeCandle
  <2>1. /\ context' = context /\ follower' = follower /\ Len(context) > 0
        /\ \E price \in ClosingPrice : feeding' = [context |-> Len(context), price |-> price]
    BY <1>4 DEF Execution!TakeCandle, Execution!Current
  <2>2. ExecutionTypes'
    BY <2>1 DEF ExecutionInv, ExecutionTypes
  <2> QED
    BY <2>1, <2>2 DEF ExecutionInv, ExecutionLimits, LongIn, Owed, WithinLimits
<1>5. CASE Execution!Evaluate
  BY <1>5, ExecutionEvaluate
<1>6. CASE UNCHANGED executionVars
  BY <1>6 DEF executionVars, ExecutionInv, ExecutionTypes, ExecutionLimits, LongIn, Owed,
              WithinLimits
<1> QED
  BY <1>1, <1>2, <1>3, <1>4, <1>5, <1>6, ExecutionSteps DEF Execution!Next

LEMMA ExecutionBooks == ExecutionInv => Execution!FollowerBooks
<1> SUFFICES ASSUME ExecutionInv  PROVE Execution!FollowerBooks
  OBVIOUS
<1>1. DOMAIN context = 1..Len(context)
  BY DEF ExecutionInv, ExecutionTypes
<1>2. Execution!Long = LongIn
  BY <1>1, Zenon DEF Execution!Long, LongIn, Execution!Flat
<1>3. Owed = [k \in DOMAIN context |-> context[k].realized - context[k].entry]
  BY <1>1, Zenon DEF Owed
<1> QED
  BY <1>2, <1>3, ExecutionLibrary, Zenon DEF ExecutionInv, Execution!FollowerBooks

LEMMA ExecutionLimited == ExecutionTypes /\ ExecutionLimits => Execution!LimitsHeld
  BY DEF ExecutionTypes, ExecutionLimits, WithinLimits, Execution!LimitsHeld, Execution!Long,
         Execution!Current, Execution!Flat

(***************************************************************************)
(* Paper trading                                                           *)
(***************************************************************************)

PaperTrade ==
    [session : Session \cup {NoSession}, side : {"BUY", "SELL"}, quantity : 1..MaxTradeSize,
     status : {"OPEN", "CLOSED"}]

PaperTypes ==
    /\ trade \in Seq(PaperTrade)
    /\ balance \in [Session -> Int]
    /\ at \in [HttpRequest -> {"idle", "create", "begin", "write", "close"}]
    /\ order \in [HttpRequest -> Paper!Order \cup {Paper!NoOrder}]
    /\ \A r \in HttpRequest : at[r] \in {"begin", "write"} => order[r] \in Paper!Order

\* What each trade took from the balance of a session.
Charged(s) == [k \in 1..Len(trade) |-> IF trade[k].session = s THEN Paper!Cost(trade[k]) ELSE 0]

PaperInv ==
    /\ PaperTypes
    /\ \A s \in Session : balance[s] = StartBalance - Total(Charged(s), Len(trade))

\* Purchases of a session which have passed the test of the balance and are not charged yet.
Buyers(s) == {r \in HttpRequest : /\ at[r] \in {"begin", "write"}
                                  /\ order[r].session = s /\ order[r].side = "BUY"}

Lowest == -(Cardinality(HttpRequest) - 1) * MaxTradeSize
Floor(n) == Lowest + n * MaxTradeSize

\* The balance covers what each of them may cost, or the newest's test covers the
\* newest's own cost.
CoversBuyers(s) ==
    \/ balance[s] >= Floor(Cardinality(Buyers(s)))
    \/ \E r \in Buyers(s) : balance[s] - order[r].quantity >= Floor(Cardinality(Buyers(s)) - 1)

PaperCovered == \A s \in Session : CoversBuyers(s)

LEMMA PaperSteps == [Next]_vars => Paper!Next \/ UNCHANGED paperVars
  BY Zenon DEF Next, Only, vars

LEMMA PaperLibrary ==
    /\ \A S : Paper!Cardinality(S) = Cardinality(S)
    /\ \A f, n : Paper!Total(f, n) = Total(f, n)
  BY Zenon DEF Cardinality, Paper!Cardinality, Total, Paper!Total

LEMMA PaperConstants ==
    StartBalance \in Nat /\ MaxTradeSize \in Nat /\ MaxTradeSize >= 1 /\ NoSession \notin Session
  BY LedgerConstants

LEMMA PaperOrder ==
    ASSUME NEW o \in Paper!Order
    PROVE  /\ o.session \in Session \cup {NoSession} /\ o.side \in {"BUY", "SELL"}
           /\ o.quantity \in 1..MaxTradeSize /\ o.quantity \in Nat /\ o.quantity <= MaxTradeSize
           /\ Paper!Cost(o) \in Int
           /\ o.side = "BUY" => Paper!Cost(o) = o.quantity
           /\ o.side # "BUY" => Paper!Cost(o) <= 0
<1>1. /\ o.session \in Session \cup {NoSession} /\ o.side \in {"BUY", "SELL"}
      /\ o.quantity \in 1..MaxTradeSize
  BY DEF Paper!Order
<1>2. o.quantity \in Nat /\ o.quantity <= MaxTradeSize
  BY <1>1, PaperConstants
<1> QED
  BY <1>1, <1>2 DEF Paper!Cost

LEMMA ChargedIsInt ==
    ASSUME PaperTypes, NEW s
    PROVE  /\ Len(trade) \in Nat /\ Total(Charged(s), Len(trade)) \in Int
           /\ \A k \in 1..Len(trade) : Charged(s)[k] \in Int
<1>1. Len(trade) \in Nat /\ \A k \in 1..Len(trade) : trade[k] \in PaperTrade
  BY DEF PaperTypes
<1>2. \A t \in PaperTrade : Paper!Cost(t) \in Int
  BY PaperConstants DEF PaperTrade, Paper!Cost
<1>3. \A k \in 1..Len(trade) : Charged(s)[k] \in Int
  BY <1>1, <1>2 DEF Charged
<1> QED
  BY <1>1, <1>3, TotalIsInt

LEMMA FloorFalls ==
    ASSUME IsFiniteSet(HttpRequest)
    PROVE  /\ Cardinality(HttpRequest) \in Nat
           /\ \A n \in Int : Floor(n) \in Int /\ Floor(n - 1) = Floor(n) - MaxTradeSize
           /\ \A n \in Nat : n <= Cardinality(HttpRequest) - 1 => Floor(n) <= 0
<1> DEFINE N == Cardinality(HttpRequest)
           m == MaxTradeSize
<1>1. N \in Nat /\ m \in Nat
  BY FS_CardinalityType, PaperConstants
<1> HIDE DEF N, m
<1>2. \A n \in Int : n * m \in Int /\ (n - 1) * m = n * m - m
  BY <1>1
<1>3. \A n \in Int : -(N - 1) * m + n * m = (n - (N - 1)) * m
  BY <1>1
<1>4. \A x \in Nat : x * m >= 0 /\ (-x) * m = -(x * m)
  BY <1>1
<1>5. ASSUME NEW n \in Nat, n <= N - 1  PROVE -(N - 1) * m + n * m <= 0
  <2>1. (N - 1) - n \in Nat /\ n - (N - 1) = -((N - 1) - n)
    BY <1>1, <1>5
  <2> QED
    BY <1>1, <1>3, <1>4, <2>1
<1>6. -(N - 1) * m \in Int
  BY <1>1
<1> QED
  BY <1>1, <1>2, <1>5, <1>6 DEF Floor, Lowest, N, m

LEMMA BuyersCounted ==
    ASSUME IsFiniteSet(HttpRequest), NEW s
    PROVE  /\ IsFiniteSet(Buyers(s)) /\ Cardinality(Buyers(s)) \in Nat
           /\ \A r \in HttpRequest \ Buyers(s) : Cardinality(Buyers(s)) <= Cardinality(HttpRequest) - 1
<1>1. Buyers(s) \in SUBSET HttpRequest
  BY DEF Buyers
<1>2. IsFiniteSet(Buyers(s)) /\ Cardinality(Buyers(s)) \in Nat
  BY <1>1, FS_Subset, FS_CardinalityType
<1>3. ASSUME NEW r \in HttpRequest \ Buyers(s)
      PROVE  Cardinality(Buyers(s)) <= Cardinality(HttpRequest) - 1
  <2>1. IsFiniteSet(HttpRequest \ {r}) /\ Cardinality(HttpRequest \ {r}) = Cardinality(HttpRequest) - 1
    BY FS_RemoveElement
  <2>2. Buyers(s) \in SUBSET (HttpRequest \ {r})
    BY <1>1
  <2> QED
    BY <2>1, <2>2, FS_Subset
<1> QED
  BY <1>2, <1>3

LEMMA PaperInit ==
    ASSUME Paper!Init
    PROVE  PaperInv /\ (IsFiniteSet(HttpRequest) /\ HttpRequest # {} => PaperCovered)
<1>1. /\ trade = << >> /\ Len(trade) = 0 /\ balance = [s \in Session |-> StartBalance]
      /\ at = [r \in HttpRequest |-> "idle"] /\ order = [r \in HttpRequest |-> Paper!NoOrder]
  BY DEF Paper!Init
<1>2. PaperTypes
  BY <1>1, PaperConstants DEF PaperTypes
<1>3. \A s \in Session : balance[s] = StartBalance - Total(Charged(s), Len(trade))
  BY <1>1, PaperConstants, TotalUnfolds
<1>4. ASSUME IsFiniteSet(HttpRequest), HttpRequest # {}, NEW s \in Session  PROVE CoversBuyers(s)
  <2>1. Buyers(s) = {}
    BY <1>1 DEF Buyers
  <2>2. Cardinality(HttpRequest) \in Nat /\ Cardinality(HttpRequest) # 0
    BY <1>4, FS_EmptySet, FS_CardinalityType
  <2>3. Floor(0) <= 0 /\ Floor(0) \in Int
    BY <1>4, <2>2, FloorFalls
  <2>4. StartBalance >= Floor(Cardinality(Buyers(s)))
    BY <2>1, <2>3, FS_EmptySet, PaperConstants
  <2> QED
    BY <1>1, <2>4 DEF CoversBuyers
<1> QED
  BY <1>2, <1>3, <1>4 DEF PaperInv, PaperCovered

\* Steps that leave balances and trades as they are.
LEMMA BalancesRest ==
    ASSUME PaperInv, PaperTypes', balance' = balance, Len(trade') = Len(trade),
           \A k \in 1..Len(trade) : /\ trade'[k].session = trade[k].session
                                    /\ trade'[k].side = trade[k].side
                                    /\ trade'[k].quantity = trade[k].quantity
    PROVE  PaperInv'
<1>1. ASSUME NEW s \in Session
      PROVE  balance'[s] = StartBalance - Total(Charged(s)', Len(trade'))
  <2>1. \A k \in 1..Len(trade) : Charged(s)'[k] = Charged(s)[k]
    BY DEF Charged, Paper!Cost
  <2>2. Len(trade) \in Nat
    BY DEF PaperInv, PaperTypes
  <2> DEFINE f == Charged(s)
             g == Charged(s)'
  <2>3. \A k \in 1..Len(trade) : f[k] = g[k]
    BY <2>1
  <2> HIDE DEF f, g
  <2>4. Total(f, Len(trade)) = Total(g, Len(trade))
    BY <2>2, <2>3, TotalSame
  <2>5. balance[s] = StartBalance - Total(f, Len(trade))
    BY DEF PaperInv, f
  <2> QED
    BY <2>4, <2>5 DEF g
<1> QED
  BY <1>1 DEF PaperInv

\* Steps that leave the purchases of a session where they are, and charge it nothing.
LEMMA CoverRests ==
    ASSUME IsFiniteSet(HttpRequest), PaperTypes, NEW s, CoversBuyers(s), balance[s] \in Int,
           balance'[s] \in Int, balance'[s] >= balance[s], Buyers(s)' = Buyers(s),
           \A r \in Buyers(s) : order'[r] = order[r]
    PROVE  CoversBuyers(s)'
<1>1. /\ Floor(Cardinality(Buyers(s))) \in Int /\ Floor(Cardinality(Buyers(s)) - 1) \in Int
      /\ \A r \in Buyers(s) : order[r].quantity \in Int
  <2>1. Cardinality(Buyers(s)) \in Int /\ Cardinality(Buyers(s)) - 1 \in Int
    BY BuyersCounted
  <2>2. \A r \in Buyers(s) : order[r] \in Paper!Order
    BY DEF Buyers, PaperTypes
  <2>3. \A o \in Paper!Order : o.quantity \in Int
    BY PaperOrder
  <2> QED
    BY <2>1, <2>2, <2>3, FloorFalls
<1>2. \A n : Floor(n)' = Floor(n)
  BY DEF Floor, Lowest
<1>3. CASE balance[s] >= Floor(Cardinality(Buyers(s)))
  <2>1. balance'[s] >= Floor(Cardinality(Buyers(s)))
    BY <1>1, <1>3
  <2> QED
    BY <2>1, Zenon DEF CoversBuyers, Floor, Lowest
<1>4. CASE \E r \in Buyers(s) : balance[s] - order[r].quantity >= Floor(Cardinality(Buyers(s)) - 1)
  <2>1. PICK r \in Buyers(s) : balance[s] - order[r].quantity >= Floor(Cardinality(Buyers(s)) - 1)
    BY <1>4
  <2>2. balance'[s] - order'[r].quantity >= Floor(Cardinality(Buyers(s)) - 1)
    BY <1>1, <2>1
  <2> QED
    BY <2>1, <2>2, Zenon DEF CoversBuyers, Floor, Lowest
<1> QED
  BY <1>3, <1>4 DEF CoversBuyers

LEMMA PaperRests ==
    ASSUME PaperInv, PaperTypes', balance' = balance, Len(trade') = Len(trade),
           \A k \in 1..Len(trade) : /\ trade'[k].session = trade[k].session
                                    /\ trade'[k].side = trade[k].side
                                    /\ trade'[k].quantity = trade[k].quantity,
           \A s \in Session : Buyers(s)' = Buyers(s),
           \A s \in Session : \A r \in Buyers(s) : order'[r] = order[r]
    PROVE  PaperInv' /\ (IsFiniteSet(HttpRequest) /\ PaperCovered => PaperCovered')
<1>1. PaperInv'
  BY BalancesRest
<1>2. ASSUME IsFiniteSet(HttpRequest), PaperCovered, NEW s \in Session  PROVE CoversBuyers(s)'
  <2>1. CoversBuyers(s) /\ PaperTypes
    BY <1>2 DEF PaperCovered, PaperInv
  <2>2. /\ balance[s] \in Int /\ balance'[s] = balance[s] /\ balance'[s] \in Int
        /\ balance'[s] >= balance[s]
    BY <2>1 DEF PaperTypes
  <2> QED
    BY <1>2, <2>1, <2>2, CoverRests
<1> QED
  BY <1>1, <1>2 DEF PaperCovered

\* A request that is not about to trade moves to another such place.
LEMMA PaperWaits ==
    ASSUME PaperInv, NEW r \in HttpRequest, NEW label \in {"idle", "create", "close"},
           at[r] \in {"idle", "create", "close"}, at' = [at EXCEPT ![r] = label],
           order' \in {order, [order EXCEPT ![r] = Paper!NoOrder]}, balance' = balance,
           trade' \in Seq(PaperTrade), Len(trade') = Len(trade),
           \A k \in 1..Len(trade) : /\ trade'[k].session = trade[k].session
                                    /\ trade'[k].side = trade[k].side
                                    /\ trade'[k].quantity = trade[k].quantity
    PROVE  PaperInv' /\ (IsFiniteSet(HttpRequest) /\ PaperCovered => PaperCovered')
<1>1. PaperTypes
  BY DEF PaperInv
<1>2. /\ at' \in [HttpRequest -> {"idle", "create", "begin", "write", "close"}]
      /\ at'[r] = label /\ \A q \in HttpRequest : q # r => at'[q] = at[q]
  BY <1>1 DEF PaperTypes
<1>3. /\ order' \in [HttpRequest -> Paper!Order \cup {Paper!NoOrder}]
      /\ \A q \in HttpRequest : q # r => order'[q] = order[q]
  BY <1>1 DEF PaperTypes
<1>4. PaperTypes'
  BY <1>1, <1>2, <1>3 DEF PaperTypes
<1>5. \A s : Buyers(s)' = Buyers(s) /\ r \notin Buyers(s)
  BY <1>2, <1>3 DEF Buyers
<1>6. \A s : \A q \in Buyers(s) : order'[q] = order[q]
  BY <1>3, <1>5 DEF Buyers
<1> QED
  BY <1>4, <1>5, <1>6, PaperRests

LEMMA PaperBegin ==
    ASSUME PaperInv, NEW r \in HttpRequest, Paper!Begin(r)
    PROVE  PaperInv' /\ (IsFiniteSet(HttpRequest) /\ PaperCovered => PaperCovered')
<1>1. /\ PaperTypes /\ at[r] = "begin" /\ at' = [at EXCEPT ![r] = "write"] /\ order' = order
      /\ balance' = balance /\ trade' = trade
  BY DEF PaperInv, Paper!Begin, Paper!Goto
<1>2. /\ at' \in [HttpRequest -> {"idle", "create", "begin", "write", "close"}]
      /\ at'[r] = "write" /\ \A q \in HttpRequest : q # r => at'[q] = at[q]
  BY <1>1 DEF PaperTypes
<1>3. PaperTypes'
  BY <1>1, <1>2 DEF PaperTypes
<1>4. \A s : Buyers(s)' = Buyers(s)
  BY <1>1, <1>2 DEF Buyers
<1> QED
  BY <1>1, <1>3, <1>4, PaperRests

LEMMA PaperPlace ==
    ASSUME PaperInv, NEW r \in HttpRequest, Paper!Place(r)
    PROVE  PaperInv' /\ (IsFiniteSet(HttpRequest) /\ PaperCovered => PaperCovered')
<1>1. PICK o \in Paper!Order : Paper!Enough(o) /\ order' = [order EXCEPT ![r] = o]
  BY DEF Paper!Place
<1>2. /\ PaperTypes /\ at[r] = "idle" /\ at' = [at EXCEPT ![r] = "begin"]
      /\ balance' = balance /\ trade' = trade
  BY DEF PaperInv, Paper!Place, Paper!Goto, Paper!tradeVars
<1>3. /\ at' \in [HttpRequest -> {"idle", "create", "begin", "write", "close"}]
      /\ at'[r] = "begin" /\ \A q \in HttpRequest : q # r => at'[q] = at[q]
      /\ order' \in [HttpRequest -> Paper!Order \cup {Paper!NoOrder}]
      /\ order'[r] = o /\ \A q \in HttpRequest : q # r => order'[q] = order[q]
  BY <1>1, <1>2 DEF PaperTypes
<1>4. PaperTypes'
  BY <1>2, <1>3 DEF PaperTypes
<1>5. PaperInv'
  BY <1>2, <1>4, BalancesRest
<1>6. ASSUME NEW s
      PROVE  /\ r \notin Buyers(s)
             /\ Buyers(s)' = IF o.session = s /\ o.side = "BUY" THEN Buyers(s) \cup {r} ELSE Buyers(s)
             /\ \A q \in Buyers(s) : order'[q] = order[q]
  BY <1>2, <1>3 DEF Buyers
<1>7. ASSUME IsFiniteSet(HttpRequest), PaperCovered, NEW s \in Session  PROVE CoversBuyers(s)'
  <2>1. balance[s] \in Int /\ balance'[s] = balance[s]
    BY <1>2 DEF PaperTypes
  <2>2. CASE o.session = s /\ o.side = "BUY"
    <3> DEFINE p == Cardinality(Buyers(s))
    <3>1. p \in Nat /\ p <= Cardinality(HttpRequest) - 1 /\ IsFiniteSet(Buyers(s))
      BY <1>6, <1>7, BuyersCounted
    <3>2. Cardinality(Buyers(s)') = p + 1 /\ r \in Buyers(s)'
      BY <1>6, <2>2, <3>1, FS_AddElement
    <3> HIDE DEF p
    <3>3. Floor(p) <= 0 /\ Floor(p) \in Int /\ (p + 1) - 1 = p
      BY <1>7, <3>1, FloorFalls
    <3>4. o.quantity <= balance[s] /\ o.quantity \in Nat
      BY <1>1, <2>2, PaperOrder, PaperConstants DEF Paper!Enough
    <3>5. balance'[s] - order'[r].quantity >= Floor(Cardinality(Buyers(s)') - 1)
      BY <1>3, <2>1, <3>2, <3>3, <3>4
    <3> QED
      BY <3>2, <3>5, Zenon DEF CoversBuyers, Floor, Lowest
  <2>3. CASE ~(o.session = s /\ o.side = "BUY")
    <3>1. Buyers(s)' = Buyers(s) /\ \A q \in Buyers(s) : order'[q] = order[q]
      BY <1>6, <2>3
    <3>2. CoversBuyers(s) /\ balance'[s] \in Int /\ balance'[s] >= balance[s]
      BY <1>7, <2>1 DEF PaperCovered
    <3> QED
      BY <1>2, <1>7, <2>1, <3>1, <3>2, CoverRests
  <2> QED
    BY <2>2, <2>3
<1> QED
  BY <1>5, <1>7 DEF PaperCovered

\* A trade is charged to its session and added to the trades.
LEMMA PaperCharged ==
    ASSUME PaperInv, PaperTypes', NEW o \in Paper!Order, Paper!Charge(o),
           trade' = Append(trade, [session |-> o.session, side |-> o.side,
                                   quantity |-> o.quantity, status |-> "OPEN"])
    PROVE  PaperInv'
<1> DEFINE n == Len(trade)
<1>1. PaperTypes /\ n \in Nat
  BY DEF PaperInv, PaperTypes
<1>2. /\ Len(trade') = n + 1 /\ \A k \in 1..n : trade'[k] = trade[k]
      /\ trade'[n + 1].session = o.session /\ trade'[n + 1].side = o.side
      /\ trade'[n + 1].quantity = o.quantity
  BY <1>1 DEF PaperTypes
<1>3. Paper!Cost(trade'[n + 1]) = Paper!Cost(o) /\ Paper!Cost(o) \in Int
  BY <1>2, PaperOrder DEF Paper!Cost
<1>4. ASSUME NEW s \in Session
      PROVE  balance'[s] = StartBalance - Total(Charged(s)', Len(trade'))
  <2> DEFINE f == Charged(s)
             g == Charged(s)'
             c == IF o.session = s THEN Paper!Cost(o) ELSE 0
  <2>1. \A k \in 1..(n + 1) : g[k] = IF trade'[k].session = s THEN Paper!Cost(trade'[k]) ELSE 0
    BY <1>2 DEF Charged, Paper!Cost
  <2>2. \A k \in 1..n : k \in 1..(n + 1)
    BY <1>1
  <2>3. \A k \in 1..n : g[k] = f[k]
    BY <1>2, <2>1, <2>2 DEF Charged
  <2>4. g[n + 1] = c
    BY <1>1, <1>2, <1>3, <2>1
  <2>5. Total(f, n) \in Int /\ balance[s] = StartBalance - Total(f, n) /\ balance[s] \in Int
    BY <1>1, ChargedIsInt DEF PaperInv, PaperTypes
  <2>6. c \in Int
    BY <1>3
  <2>7. balance'[s] = balance[s] - c
    BY <1>1, <2>5, PaperConstants DEF PaperTypes, Paper!Charge
  <2> HIDE DEF f, g, c
  <2>8. Total(g, n + 1) = Total(g, n) + g[n + 1] /\ Total(g, n) = Total(f, n)
    BY <1>1, <2>3, TotalUnfolds, TotalSame
  <2>9. balance'[s] = StartBalance - Total(g, n + 1)
    BY <2>4, <2>5, <2>6, <2>7, <2>8, PaperConstants
  <2> QED
    BY <1>2, <2>9 DEF g
<1> QED
  BY <1>4 DEF PaperInv

LEMMA PaperWrite ==
    ASSUME PaperInv, NEW r \in HttpRequest, Paper!Write(r)
    PROVE  PaperInv' /\ (IsFiniteSet(HttpRequest) /\ PaperCovered => PaperCovered')
<1> DEFINE o == order[r]
<1>1. /\ PaperTypes /\ at[r] = "write" /\ o \in Paper!Order
      /\ at' = [at EXCEPT ![r] = "idle"] /\ order' = [order EXCEPT ![r] = Paper!NoOrder]
  BY DEF PaperInv, PaperTypes, Paper!Write, Paper!Answer, Paper!Goto
<1>2. \/ balance' = balance /\ trade' = trade
      \/ /\ Paper!Charge(o)
         /\ trade' = Append(trade, [session |-> o.session, side |-> o.side,
                                    quantity |-> o.quantity, status |-> "OPEN"])
  BY DEF Paper!Write
<1> HIDE DEF o
<1>3. /\ at' \in [HttpRequest -> {"idle", "create", "begin", "write", "close"}]
      /\ at'[r] = "idle" /\ \A q \in HttpRequest : q # r => at'[q] = at[q]
      /\ order' \in [HttpRequest -> Paper!Order \cup {Paper!NoOrder}]
      /\ \A q \in HttpRequest : q # r => order'[q] = order[q]
  BY <1>1 DEF PaperTypes
<1>4. /\ o.session \in Session \cup {NoSession} /\ o.side \in {"BUY", "SELL"}
      /\ o.quantity \in 1..MaxTradeSize /\ o.quantity \in Nat /\ o.quantity <= MaxTradeSize
      /\ Paper!Cost(o) \in Int
      /\ o.side = "BUY" => Paper!Cost(o) = o.quantity
      /\ o.side # "BUY" => Paper!Cost(o) <= 0
  BY <1>1, PaperOrder
<1>5. balance' \in [Session -> Int]
  BY <1>1, <1>2, <1>4 DEF PaperTypes, Paper!Charge
<1>6. trade' \in Seq(PaperTrade)
  <2>1. [session |-> o.session, side |-> o.side, quantity |-> o.quantity, status |-> "OPEN"] \in PaperTrade
    BY <1>4 DEF PaperTrade
  <2> QED
    BY <1>1, <1>2, <2>1 DEF PaperTypes
<1>7. PaperTypes'
  <2>1. \A q \in HttpRequest : at'[q] \in {"begin", "write"} => order'[q] \in Paper!Order
    BY <1>1, <1>3 DEF PaperTypes
  <2> QED
    BY <1>3, <1>5, <1>6, <2>1 DEF PaperTypes
<1>8. PaperInv'
  <2>1. CASE balance' = balance /\ trade' = trade
    BY <1>7, <2>1, BalancesRest
  <2>2. CASE /\ Paper!Charge(o)
             /\ trade' = Append(trade, [session |-> o.session, side |-> o.side,
                                        quantity |-> o.quantity, status |-> "OPEN"])
    BY <1>1, <1>7, <2>2, PaperCharged
  <2> QED
    BY <1>2, <2>1, <2>2
<1>9. ASSUME NEW s
      PROVE  /\ Buyers(s)' = Buyers(s) \ {r}
             /\ r \in Buyers(s) <=> o.session = s /\ o.side = "BUY"
             /\ \A q \in Buyers(s) : q # r => order'[q] = order[q]
  BY <1>1, <1>3 DEF Buyers, o
<1>10. ASSUME NEW s \in Session
       PROVE  /\ balance[s] \in Int /\ balance'[s] \in Int
              /\ r \in Buyers(s) => balance'[s] >= balance[s] - o.quantity
              /\ r \notin Buyers(s) => balance'[s] >= balance[s]
  <2>1. balance[s] \in Int /\ balance'[s] \in Int
    BY <1>1, <1>5 DEF PaperTypes
  <2>2. CASE balance' = balance
    BY <1>4, <2>1, <2>2
  <2>3. CASE Paper!Charge(o)
    <3>1. balance'[s] = IF o.session = s THEN balance[s] - Paper!Cost(o) ELSE balance[s]
      BY <1>1, <2>3, PaperConstants DEF PaperTypes, Paper!Charge
    <3> QED
      BY <1>4, <1>9, <2>1, <3>1
  <2> QED
    BY <1>2, <2>1, <2>2, <2>3
<1>11. ASSUME IsFiniteSet(HttpRequest), PaperCovered, NEW s \in Session  PROVE CoversBuyers(s)'
  <2>1. CoversBuyers(s)
    BY <1>11 DEF PaperCovered
  <2>2. CASE r \notin Buyers(s)
    <3>1. Buyers(s)' = Buyers(s) /\ \A q \in Buyers(s) : order'[q] = order[q]
      BY <1>9, <2>2
    <3>2. balance[s] \in Int /\ balance'[s] \in Int /\ balance'[s] >= balance[s]
      BY <1>10, <2>2
    <3> QED
      BY <1>1, <1>11, <2>1, <3>1, <3>2, CoverRests
  <2>3. CASE r \in Buyers(s)
    <3> DEFINE p == Cardinality(Buyers(s))
    <3>1. p \in Nat /\ IsFiniteSet(Buyers(s))
      BY <1>11, BuyersCounted
    <3>2. Cardinality(Buyers(s)') = p - 1
      BY <1>9, <2>3, <3>1, FS_RemoveElement
    <3>3. \A q \in Buyers(s) : order[q].quantity \in Nat
      BY <1>1, PaperOrder DEF Buyers, PaperTypes
    <3>4. CoversBuyers(s) <=> \/ balance[s] >= Floor(p)
                              \/ \E q \in Buyers(s) : balance[s] - order[q].quantity >= Floor(p - 1)
      BY Zenon DEF CoversBuyers
    <3> HIDE DEF p
    <3>5. /\ Floor(p) \in Int /\ Floor(p - 1) = Floor(p) - MaxTradeSize
          /\ Floor((p - 1) - 1) = Floor(p - 1) - MaxTradeSize
      BY <1>11, <3>1, FloorFalls
    <3>6. balance'[s] >= balance[s] - o.quantity /\ balance[s] \in Int /\ balance'[s] \in Int
      BY <1>10, <2>3
    <3>7. \/ balance'[s] >= Floor(p - 1)
          \/ \E q \in Buyers(s) \ {r} : balance'[s] - order[q].quantity >= Floor((p - 1) - 1)
      <4>1. CASE balance[s] >= Floor(p)
        BY <1>4, <3>5, <3>6, <4>1, PaperConstants
      <4>2. ASSUME NEW q \in Buyers(s), balance[s] - order[q].quantity >= Floor(p - 1)
            PROVE  \/ balance'[s] >= Floor(p - 1)
                   \/ q # r /\ balance'[s] - order[q].quantity >= Floor((p - 1) - 1)
        <5>1. order[q].quantity \in Nat /\ (q = r => order[q].quantity = o.quantity)
          BY <3>3 DEF o
        <5> QED
          BY <1>4, <3>5, <3>6, <4>2, <5>1, PaperConstants
      <4> QED
        BY <2>1, <3>4, <4>1, <4>2
    <3>8. \/ balance'[s] >= Floor(Cardinality(Buyers(s)'))
          \/ \E q \in Buyers(s)' : balance'[s] - order'[q].quantity >= Floor(Cardinality(Buyers(s)') - 1)
      BY <1>9, <3>2, <3>7
    <3> QED
      BY <3>8, Zenon DEF CoversBuyers, Floor, Lowest
  <2> QED
    BY <2>2, <2>3
<1> QED
  BY <1>8, <1>11 DEF PaperCovered

LEMMA PaperNext ==
    ASSUME PaperInv, [Next]_vars
    PROVE  PaperInv' /\ (IsFiniteSet(HttpRequest) /\ PaperCovered => PaperCovered')
<1>0. PaperTypes /\ Len(trade) \in Nat
  BY DEF PaperInv, PaperTypes
<1>1. ASSUME NEW r \in HttpRequest, Paper!LookForSession(r)
      PROVE  PaperInv' /\ (IsFiniteSet(HttpRequest) /\ PaperCovered => PaperCovered')
  <2>1. /\ at[r] = "idle" /\ at' = [at EXCEPT ![r] = "create"] /\ order' = order
        /\ balance' = balance /\ trade' = trade
    BY <1>1 DEF Paper!LookForSession, Paper!Goto, Paper!tradeVars
  <2> QED
    BY <1>0, <2>1, PaperWaits DEF PaperTypes
<1>2. ASSUME NEW r \in HttpRequest, Paper!CreateSession(r)
      PROVE  PaperInv' /\ (IsFiniteSet(HttpRequest) /\ PaperCovered => PaperCovered')
  <2>1. /\ at[r] = "create" /\ at' = [at EXCEPT ![r] = "idle"]
        /\ order' = [order EXCEPT ![r] = Paper!NoOrder]
        /\ balance' = balance /\ trade' = trade
    BY <1>2 DEF Paper!CreateSession, Paper!Answer, Paper!Goto
  <2> QED
    BY <1>0, <2>1, PaperWaits DEF PaperTypes
<1>3. ASSUME NEW r \in HttpRequest, Paper!FindOpen(r)
      PROVE  PaperInv' /\ (IsFiniteSet(HttpRequest) /\ PaperCovered => PaperCovered')
  <2>1. /\ at[r] = "idle" /\ at' = [at EXCEPT ![r] = "close"] /\ order' = order
        /\ balance' = balance /\ trade' = trade
    BY <1>3 DEF Paper!FindOpen, Paper!Goto, Paper!tradeVars
  <2> QED
    BY <1>0, <2>1, PaperWaits DEF PaperTypes
<1>4. ASSUME NEW r \in HttpRequest, Paper!Close(r)
      PROVE  PaperInv' /\ (IsFiniteSet(HttpRequest) /\ PaperCovered => PaperCovered')
  <2> DEFINE i == seen[r]
  <2>1. /\ at[r] = "close" /\ at' = [at EXCEPT ![r] = "idle"]
        /\ order' = [order EXCEPT ![r] = Paper!NoOrder] /\ balance' = balance
        /\ trade' = [trade EXCEPT ![i] = [trade[i] EXCEPT !.status = "CLOSED"]]
    BY <1>4 DEF Paper!Close, Paper!Answer, Paper!Goto
  <2> HIDE DEF i
  <2>2. \A k \in 1..Len(trade) : trade[k] \in PaperTrade
    BY <1>0 DEF PaperTypes
  <2>3. \A t \in PaperTrade :
           /\ [t EXCEPT !.status = "CLOSED"] \in PaperTrade
           /\ [t EXCEPT !.status = "CLOSED"].session = t.session
           /\ [t EXCEPT !.status = "CLOSED"].side = t.side
           /\ [t EXCEPT !.status = "CLOSED"].quantity = t.quantity
    BY DEF PaperTrade
  <2>4. /\ Len(trade') = Len(trade) /\ trade' \in Seq(PaperTrade)
        /\ \A k \in 1..Len(trade) :
             trade'[k] = IF k = i THEN [trade[k] EXCEPT !.status = "CLOSED"] ELSE trade[k]
    <3> DEFINE t == [trade[i] EXCEPT !.status = "CLOSED"]
    <3>1. trade \in Seq(PaperTrade) /\ trade' = [trade EXCEPT ![i] = t]
      BY <1>0, <2>1 DEF PaperTypes
    <3>2. i \in 1..Len(trade) => t \in PaperTrade
      BY <2>2, <2>3
    <3> HIDE DEF t
    <3>3. CASE i \in 1..Len(trade)
      BY <3>1, <3>2, <3>3 DEF t
    <3>4. CASE i \notin 1..Len(trade)
      <4>1. trade' = trade
        BY <3>1, <3>4
      <4> QED
        BY <3>1, <3>4, <4>1
    <3> QED
      BY <3>3, <3>4
  <2>5. \A k \in 1..Len(trade) : /\ trade'[k].session = trade[k].session
                                 /\ trade'[k].side = trade[k].side
                                 /\ trade'[k].quantity = trade[k].quantity
    BY <2>2, <2>3, <2>4
  <2> QED
    BY <2>1, <2>4, <2>5, PaperWaits
<1>5. ASSUME NEW s \in Session, Paper!StopSession(s)
      PROVE  PaperInv' /\ (IsFiniteSet(HttpRequest) /\ PaperCovered => PaperCovered')
  <2>1. at' = at /\ order' = order /\ balance' = balance /\ trade' = trade
    BY <1>5 DEF Paper!StopSession
  <2>2. PaperTypes'
    BY <1>0, <2>1 DEF PaperTypes
  <2>3. \A x : Buyers(x)' = Buyers(x)
    BY <2>1 DEF Buyers
  <2> QED
    BY <2>1, <2>2, <2>3, PaperRests
<1>6. CASE UNCHANGED paperVars
  <2>1. at' = at /\ order' = order /\ balance' = balance /\ trade' = trade
    BY <1>6 DEF paperVars
  <2>2. PaperTypes'
    BY <1>0, <2>1 DEF PaperTypes
  <2>3. \A x : Buyers(x)' = Buyers(x)
    BY <2>1 DEF Buyers
  <2> QED
    BY <2>1, <2>2, <2>3, PaperRests
<1> QED
  BY <1>1, <1>2, <1>3, <1>4, <1>5, <1>6, PaperPlace, PaperBegin, PaperWrite, PaperSteps
  DEF Paper!Next, Paper!RequestStep

LEMMA PaperBooks == PaperInv => Paper!BalanceMatchesTrades
<1> SUFFICES ASSUME PaperInv, NEW s \in Session
             PROVE  balance[s] = StartBalance
                       - Paper!Total([k \in DOMAIN trade |->
                                        IF trade[k].session = s THEN Paper!Cost(trade[k]) ELSE 0],
                                     Len(trade))
  BY Zenon DEF Paper!BalanceMatchesTrades
<1>1. DOMAIN trade = 1..Len(trade)
  BY DEF PaperInv, PaperTypes
<1>2. Charged(s) = [k \in DOMAIN trade |-> IF trade[k].session = s THEN Paper!Cost(trade[k]) ELSE 0]
  BY <1>1, Zenon DEF Charged
<1> QED
  BY <1>2, PaperLibrary, Zenon DEF PaperInv

LEMMA PaperOverdraft ==
    IsFiniteSet(HttpRequest) /\ PaperInv /\ PaperCovered => Paper!OverdraftBounded
<1> SUFFICES ASSUME IsFiniteSet(HttpRequest), PaperInv, PaperCovered, NEW s \in Session
             PROVE  balance[s] >= Lowest
  BY PaperLibrary, Zenon DEF Paper!OverdraftBounded, Lowest
<1> DEFINE p == Cardinality(Buyers(s))
<1>1. p \in Nat /\ PaperTypes /\ balance[s] \in Int
  BY BuyersCounted DEF PaperInv, PaperTypes
<1>2. \/ balance[s] >= Floor(p)
      \/ \E q \in Buyers(s) : balance[s] - order[q].quantity >= Floor(p - 1)
  BY Zenon DEF PaperCovered, CoversBuyers
<1>3. \A q \in Buyers(s) : order[q].quantity \in Nat /\ p >= 1
  <2>1. \A q \in Buyers(s) : order[q].quantity \in Nat
    BY <1>1, PaperOrder DEF Buyers, PaperTypes
  <2>2. Buyers(s) # {} => p # 0
    BY BuyersCounted, FS_EmptySet
  <2> QED
    BY <1>1, <2>1, <2>2
<1> HIDE DEF p
<1>4. \A n \in Nat : Floor(n) \in Int /\ Lowest \in Int /\ Floor(n) >= Lowest
  <2>1. \A n \in Nat : n * MaxTradeSize \in Nat
    BY PaperConstants
  <2>2. Floor(0) \in Int /\ Floor(0) = Lowest + 0 * MaxTradeSize /\ 0 * MaxTradeSize = 0
    BY FloorFalls, PaperConstants DEF Floor
  <2>3. Lowest \in Int
    BY FS_CardinalityType, PaperConstants DEF Lowest
  <2> QED
    BY <2>1, <2>3 DEF Floor
<1>5. p >= 1 => p - 1 \in Nat
  BY <1>1
<1>6. CASE balance[s] >= Floor(p)
  BY <1>1, <1>4, <1>6
<1>7. CASE \E q \in Buyers(s) : balance[s] - order[q].quantity >= Floor(p - 1)
  <2>1. PICK q \in Buyers(s) : balance[s] - order[q].quantity >= Floor(p - 1)
    BY <1>7
  <2>2. /\ order[q].quantity \in Nat /\ Floor(p - 1) \in Int /\ Floor(p - 1) >= Lowest
        /\ Lowest \in Int
    BY <1>3, <1>4, <1>5
  <2> QED
    BY <1>1, <2>1, <2>2
<1> QED
  BY <1>2, <1>6, <1>7

(***************************************************************************)
(* The order simulator                                                     *)
(***************************************************************************)

LEMMA SimulatorSteps == [Next]_vars => Simulator!Next \/ UNCHANGED simulatorVars
  BY Zenon DEF Next, Only, vars

LEMMA SimulatorLibrary == \A f, n : Simulator!Total(f, n) = Total(f, n)
  BY Zenon DEF Total, Simulator!Total

LEMMA SimulatorConstants ==
    /\ MaxQuantity \in Nat /\ InitialBalance \in Nat /\ Slippage \in Nat
    /\ MakerFee \in Nat /\ TakerFee \in Nat /\ MarketPrice \subseteq Nat \ {0}
  BY LedgerConstants

Fill == [size : Nat, price : Int, fee : Nat]
SimulatedOrder ==
    [request : Simulator!Request, status : {"OPEN", "PARTIALLY_FILLED"} \cup Simulator!Terminal,
     filled : Nat, fills : Seq(Fill)]

\* Size, price and fee of each fill of an order, and their sums.
SizesOf(o) == [k \in 1..Len(o.fills) |-> o.fills[k].size]
PricesOf(o) == [k \in 1..Len(o.fills) |-> Simulator!Value(o.fills[k].size, o.fills[k].price)]
FeesOf(o) == [k \in 1..Len(o.fills) |-> o.fills[k].fee]
Size(o) == Total(SizesOf(o), Len(o.fills))
Paid(o) == Total(PricesOf(o), Len(o.fills))
Fees(o) == Total(FeesOf(o), Len(o.fills))

\* What an order took from the cash and added to the position.
Spent(b) == [i \in 1..Len(b) |-> Simulator!Signed(b[i], Paid(b[i])) + Fees(b[i])]
Received(b) == [i \in 1..Len(b) |-> Simulator!Signed(b[i], Size(b[i]))]

OrderKept(o) ==
    /\ o \in SimulatedOrder
    /\ o.filled = Size(o) /\ o.filled <= o.request.quantity
    /\ (o.status = "FILLED") <=> (o.filled = o.request.quantity)

Deposit == 1000 * InitialBalance

AccountKept(b, c, h) ==
    /\ b \in Seq(SimulatedOrder) /\ \A i \in 1..Len(b) : OrderKept(b[i])
    /\ c \in Int /\ c = Deposit - Total(Spent(b), Len(b))
    /\ h \in Int /\ h = Total(Received(b), Len(b)) /\ h >= 0

SimulatorInv == AccountKept(book, cash, held)

\* Fees of no more than the whole, and slippage below every price.
ModestFees == MakerFee <= 1000 /\ TakerFee <= 1000
ModestCosts == ModestFees /\ \A p \in MarketPrice : Slippage <= p

LEMMA OrderSums ==
    ASSUME NEW o \in SimulatedOrder
    PROVE  /\ Size(o) \in Int /\ Paid(o) \in Int /\ Fees(o) \in Int
           /\ \A n \in Int : Simulator!Signed(o, n) \in Int
           /\ Simulator!Signed(o, Paid(o)) + Fees(o) \in Int
           /\ Simulator!Signed(o, Size(o)) \in Int
<1>1. Len(o.fills) \in Nat /\ \A k \in 1..Len(o.fills) : o.fills[k] \in Fill
  BY DEF SimulatedOrder
<1>2. \A f \in Fill : f.size \in Int /\ Simulator!Value(f.size, f.price) \in Int /\ f.fee \in Int
  BY DEF Fill, Simulator!Value
<1>3. \A k \in 1..Len(o.fills) : /\ SizesOf(o)[k] \in Int /\ PricesOf(o)[k] \in Int
                                 /\ FeesOf(o)[k] \in Int
  BY <1>1, <1>2 DEF SizesOf, PricesOf, FeesOf
<1>4. Size(o) \in Int
  BY <1>1, <1>3, TotalIsInt DEF Size
<1>5. Paid(o) \in Int
  BY <1>1, <1>3, TotalIsInt DEF Paid
<1>6. Fees(o) \in Int
  BY <1>1, <1>3, TotalIsInt DEF Fees
<1> QED
  BY <1>4, <1>5, <1>6 DEF Simulator!Signed

\* One value more.
LEMMA OneMoreSummed ==
    ASSUME NEW g, NEW h, NEW n \in Nat, \A k \in 1..n : g[k] = h[k]
    PROVE  Total(g, n + 1) = Total(h, n) + g[n + 1]
<1>1. Total(g, n) = Total(h, n)
  BY TotalSame
<1>2. Total(g, n + 1) = Total(g, n) + g[n + 1]
  BY TotalUnfolds
<1> QED
  BY <1>1, <1>2

\* One fill more.
LEMMA FillAdded ==
    ASSUME NEW o \in SimulatedOrder, NEW f \in Fill, NEW u \in SimulatedOrder,
           u.fills = Append(o.fills, f)
    PROVE  /\ Size(u) = Size(o) + f.size
           /\ Paid(u) = Paid(o) + Simulator!Value(f.size, f.price)
           /\ Fees(u) = Fees(o) + f.fee
<1> DEFINE n == Len(o.fills)
<1>1. o.fills \in Seq(Fill)
  BY DEF SimulatedOrder
<1>2. /\ n \in Nat /\ Len(u.fills) = n + 1 /\ u.fills[n + 1] = f
      /\ \A k \in 1..n : u.fills[k] = o.fills[k]
  BY <1>1
<1>3. /\ \A k \in 1..n : k \in 1..(n + 1)
      /\ n + 1 \in 1..(n + 1)
  BY <1>2
<1> HIDE DEF n
<1>4. /\ \A k \in 1..n : SizesOf(u)[k] = SizesOf(o)[k] /\ PricesOf(u)[k] = PricesOf(o)[k]
                         /\ FeesOf(u)[k] = FeesOf(o)[k]
      /\ SizesOf(u)[n + 1] = f.size /\ PricesOf(u)[n + 1] = Simulator!Value(f.size, f.price)
      /\ FeesOf(u)[n + 1] = f.fee
  BY <1>2, <1>3 DEF SizesOf, PricesOf, FeesOf, n
<1>5. n \in Nat
  BY <1>2
<1>6. Total(SizesOf(u), n + 1) = Total(SizesOf(o), n) + SizesOf(u)[n + 1]
  <2>1. \A k \in 1..n : SizesOf(u)[k] = SizesOf(o)[k]
    BY <1>4
  <2> QED
    BY <1>5, <2>1, OneMoreSummed
<1>7. Total(PricesOf(u), n + 1) = Total(PricesOf(o), n) + PricesOf(u)[n + 1]
  <2>1. \A k \in 1..n : PricesOf(u)[k] = PricesOf(o)[k]
    BY <1>4
  <2> DEFINE g == PricesOf(u)
             h == PricesOf(o)
  <2> HIDE DEF g, h
  <2>2. Total(g, n + 1) = Total(h, n) + g[n + 1]
    BY <1>5, <2>1, OneMoreSummed DEF g, h
  <2> QED
    BY <2>2 DEF g, h
<1>8. Total(FeesOf(u), n + 1) = Total(FeesOf(o), n) + FeesOf(u)[n + 1]
  <2>1. \A k \in 1..n : FeesOf(u)[k] = FeesOf(o)[k]
    BY <1>4
  <2> QED
    BY <1>5, <2>1, OneMoreSummed
<1> QED
  BY <1>2, <1>4, <1>6, <1>7, <1>8 DEF Size, Paid, Fees, n

\* An order changes.
LEMMA OrderReplaced ==
    ASSUME NEW b \in Seq(SimulatedOrder), NEW i \in 1..Len(b), NEW u \in SimulatedOrder
    PROVE  LET w == [b EXCEPT ![i] = u]
           IN  /\ w \in Seq(SimulatedOrder) /\ Len(w) = Len(b)
               /\ \A k \in 1..Len(b) : w[k] = IF k = i THEN u ELSE b[k]
               /\ Total(Spent(b), Len(b)) \in Int /\ Total(Received(b), Len(b)) \in Int
               /\ Total(Spent(w), Len(w)) = Total(Spent(b), Len(b))
                     - (Simulator!Signed(b[i], Paid(b[i])) + Fees(b[i]))
                     + (Simulator!Signed(u, Paid(u)) + Fees(u))
               /\ Total(Received(w), Len(w)) = Total(Received(b), Len(b))
                     - Simulator!Signed(b[i], Size(b[i])) + Simulator!Signed(u, Size(u))
<1> DEFINE w == [b EXCEPT ![i] = u]
           n == Len(b)
<1>1. /\ w \in Seq(SimulatedOrder) /\ Len(w) = n /\ n \in Nat
      /\ \A k \in 1..n : w[k] = (IF k = i THEN u ELSE b[k]) /\ b[k] \in SimulatedOrder
  OBVIOUS
<1> HIDE DEF w, n
<1>2. /\ \A k \in 1..n : /\ Spent(b)[k] = Simulator!Signed(b[k], Paid(b[k])) + Fees(b[k])
                         /\ Received(b)[k] = Simulator!Signed(b[k], Size(b[k]))
      /\ \A k \in 1..n : /\ Spent(w)[k] = Simulator!Signed(w[k], Paid(w[k])) + Fees(w[k])
                         /\ Received(w)[k] = Simulator!Signed(w[k], Size(w[k]))
  BY <1>1, Zenon DEF Spent, Received, n
<1>3. \A k \in 1..n : Spent(b)[k] \in Int /\ Received(b)[k] \in Int
  BY <1>1, <1>2, OrderSums
<1>4. i \in 1..n
  BY DEF n
<1>5. /\ w[i] = u /\ Spent(w)[i] \in Int /\ Received(w)[i] \in Int
  BY <1>1, <1>2, <1>4, OrderSums
<1>6. \A k \in 1..n : k # i => Spent(w)[k] = Spent(b)[k] /\ Received(w)[k] = Received(b)[k]
  BY <1>1, <1>2
<1>7. Total(Spent(b), n) \in Int /\ Total(Received(b), n) \in Int
  BY <1>1, <1>3, TotalIsInt
<1>8. Total(Spent(w), n) = Total(Spent(b), n) - Spent(b)[i] + Spent(w)[i]
  BY <1>1, <1>3, <1>4, <1>5, <1>6, TotalChange
<1>9. Total(Received(w), n) = Total(Received(b), n) - Received(b)[i] + Received(w)[i]
  BY <1>1, <1>3, <1>4, <1>5, <1>6, TotalChange
<1> QED
  BY <1>1, <1>2, <1>4, <1>5, <1>7, <1>8, <1>9, Zenon DEF w, n

\* An order's status changes, to one that does not pretend anything about its fills.
LEMMA StatusChanged ==
    ASSUME NEW b, NEW c, NEW h, AccountKept(b, c, h), NEW i \in 1..Len(b),
           NEW status \in Simulator!Terminal \ {"FILLED"}, b[i].status # "FILLED"
    PROVE  AccountKept([b EXCEPT ![i] = [b[i] EXCEPT !.status = status]], c, h)
<1> DEFINE u == [b[i] EXCEPT !.status = status]
<1>1. b \in Seq(SimulatedOrder) /\ b[i] \in SimulatedOrder /\ OrderKept(b[i])
  BY DEF AccountKept, OrderKept
<1>2. status \in {"OPEN", "PARTIALLY_FILLED"} \cup Simulator!Terminal /\ status # "FILLED"
  OBVIOUS
<1>3. /\ u \in SimulatedOrder /\ u.status = status /\ u.fills = b[i].fills
      /\ u.filled = b[i].filled /\ u.request = b[i].request
  BY <1>1, <1>2 DEF SimulatedOrder
<1> HIDE DEF u
<1>4. Size(u) = Size(b[i]) /\ Paid(u) = Paid(b[i]) /\ Fees(u) = Fees(b[i])
  <2>1. SizesOf(u) = SizesOf(b[i]) /\ PricesOf(u) = PricesOf(b[i]) /\ FeesOf(u) = FeesOf(b[i])
    BY <1>3 DEF SizesOf, PricesOf, FeesOf
  <2> QED
    BY <1>3, <2>1, Zenon DEF Size, Paid, Fees
<1>5. \A n : Simulator!Signed(u, n) = Simulator!Signed(b[i], n)
  BY <1>3, Zenon DEF Simulator!Signed
<1>6. OrderKept(u)
  BY <1>1, <1>2, <1>3, <1>4 DEF OrderKept
<1> DEFINE w == [b EXCEPT ![i] = u]
<1>7. /\ w \in Seq(SimulatedOrder) /\ Len(w) = Len(b)
      /\ \A k \in 1..Len(b) : w[k] = IF k = i THEN u ELSE b[k]
      /\ Total(Spent(b), Len(b)) \in Int /\ Total(Received(b), Len(b)) \in Int
      /\ Total(Spent(w), Len(w)) = Total(Spent(b), Len(b))
            - (Simulator!Signed(b[i], Paid(b[i])) + Fees(b[i]))
            + (Simulator!Signed(u, Paid(u)) + Fees(u))
      /\ Total(Received(w), Len(w)) = Total(Received(b), Len(b))
            - Simulator!Signed(b[i], Size(b[i])) + Simulator!Signed(u, Size(u))
  BY <1>1, <1>3, OrderReplaced
<1> HIDE DEF w
<1>8. /\ Simulator!Signed(b[i], Paid(b[i])) + Fees(b[i]) \in Int
      /\ Simulator!Signed(b[i], Size(b[i])) \in Int
  BY <1>1, OrderSums
<1>9. /\ Simulator!Signed(u, Paid(u)) + Fees(u) = Simulator!Signed(b[i], Paid(b[i])) + Fees(b[i])
      /\ Simulator!Signed(u, Size(u)) = Simulator!Signed(b[i], Size(b[i]))
  BY <1>4, <1>5, Zenon
<1>10. /\ Total(Spent(w), Len(w)) = Total(Spent(b), Len(b))
       /\ Total(Received(w), Len(w)) = Total(Received(b), Len(b))
  BY <1>7, <1>8, <1>9
<1>11. AccountKept(w, c, h)
  BY <1>6, <1>7, <1>10 DEF AccountKept
<1> QED
  BY <1>11 DEF w, u

\* What TryFill does to the account: nothing, or a fill that is covered.
FilledBy(a, r, i, size, price, fee) ==
    LET o == a.book[i]
        u == [o EXCEPT !.filled = @ + size,
                       !.fills = Append(@, [size |-> size, price |-> price, fee |-> fee]),
                       !.status = IF o.filled + size = o.request.quantity
                                  THEN "FILLED" ELSE "PARTIALLY_FILLED"]
    IN  /\ r.book = [a.book EXCEPT ![i] = u]
        /\ o.request.side = "BUY" => /\ r.cash = a.cash - Simulator!Value(size, price) - fee
                                     /\ r.held = a.held + size
                                     /\ a.cash >= Simulator!Value(size, price) + fee
        /\ o.request.side # "BUY" => /\ r.cash = a.cash + Simulator!Value(size, price) - fee
                                     /\ r.held = a.held - size
                                     /\ a.held >= size

AccountRecord == [book : Seq(SimulatedOrder), cash : Int, held : Int]
IsAccount(r) == r = [book |-> r.book, cash |-> r.cash, held |-> r.held]

CoveredFill(a, r, i, size, price, fee) ==
    /\ a.book[i].status \in {"OPEN", "PARTIALLY_FILLED"}
    /\ size >= 1 /\ size <= a.book[i].request.quantity - a.book[i].filled
    /\ IsAccount(r) /\ FilledBy(a, r, i, size, price, fee)

LEMMA SmallerOf ==
    ASSUME NEW x \in Int, NEW y \in Int
    PROVE  Simulator!Min({x, y}) = IF x <= y THEN x ELSE y
<1> DEFINE m == IF x <= y THEN x ELSE y
           P(z) == \A v \in {x, y} : z <= v
<1>1. m \in {x, y} /\ P(m) /\ \A z \in {x, y} : P(z) => z = m
  OBVIOUS
<1>2. Simulator!Min({x, y}) = CHOOSE z \in {x, y} : P(z)
  BY DEF Simulator!Min
<1> HIDE DEF m, P
<1> QED
  BY <1>1, <1>2 DEF m

LEMMA FeeIs ==
    ASSUME NEW q \in Simulator!Request, NEW size \in Nat, NEW price \in Int
    PROVE  /\ Simulator!Fee(q, size, price) \in Nat /\ Simulator!Value(size, price) \in Int
           /\ (ModestFees /\ price >= 0) =>
                 Simulator!Fee(q, size, price) <= Simulator!Value(size, price)
<1> DEFINE m == Simulator!Magnitude(size * price)
           k == IF q.kind = "LIMIT" THEN MakerFee ELSE TakerFee
<1>1. size * price \in Int /\ (price >= 0 => size * price >= 0)
  OBVIOUS
<1>2. m \in Nat /\ (price >= 0 => m = size * price)
  BY <1>1 DEF Simulator!Magnitude
<1>3. k \in Nat /\ (ModestFees => k <= 1000)
  BY SimulatorConstants DEF ModestFees
<1>4. Simulator!Fee(q, size, price) = m * k
  BY DEF Simulator!Fee
<1> HIDE DEF m, k
<1>5. \A x, y \in Nat : x * y \in Nat /\ (y <= 1000 => x * y <= 1000 * x)
  <2> TAKE x, y \in Nat
  <2>1. x * y \in Nat
    OBVIOUS
  <2>2. ASSUME y <= 1000  PROVE x * y <= 1000 * x
    <3>1. 1000 - y \in Nat
      BY <2>2
    <3>2. x * (1000 - y) >= 0 /\ x * (1000 - y) = 1000 * x - x * y
      BY <3>1
    <3> QED
      BY <2>1, <3>2
  <2> QED
    BY <2>1, <2>2
<1>6. Simulator!Value(size, price) = 1000 * (size * price) /\ Simulator!Value(size, price) \in Int
  BY DEF Simulator!Value
<1> QED
  BY <1>2, <1>3, <1>4, <1>5, <1>6

LEMMA TryFillCases ==
    ASSUME NEW a \in AccountRecord, NEW i \in 1..Len(a.book), OrderKept(a.book[i]),
           NEW bid \in MarketPrice, NEW ask \in MarketPrice, NEW depth \in Nat,
           NEW r, r = Simulator!TryFill(a, i, bid, ask, depth)
    PROVE  \/ r = a
           \/ \E size \in Nat, price \in Int, fee \in Nat :
                /\ CoveredFill(a, r, i, size, price, fee)
                /\ ModestCosts => fee <= Simulator!Value(size, price)
<1> DEFINE o == a.book[i]
           q == o.request
           size == Simulator!Min({Simulator!Remaining(o), depth})
           price == Simulator!FillPrice(q, bid, ask)
           fee == Simulator!Fee(q, size, price)
           sign == IF q.side = "BUY" THEN 1 ELSE -1
           goes == /\ o.status \in {"OPEN", "PARTIALLY_FILLED"}
                   /\ Simulator!ShouldFill(q, bid, ask)
                   /\ size > 0
                   /\ Simulator!Covered(q, size, price, a)
           u == [o EXCEPT !.filled = @ + size,
                          !.fills = Append(@, [size |-> size, price |-> price, fee |-> fee]),
                          !.status = IF o.filled + size = q.quantity
                                     THEN "FILLED" ELSE "PARTIALLY_FILLED"]
           filled == [book |-> [a.book EXCEPT ![i] = u],
                      cash |-> a.cash - sign * Simulator!Value(size, price) - fee,
                      held |-> a.held + sign * size]
<1>1. r = IF goes THEN filled ELSE a
  BY Zenon DEF Simulator!TryFill
<1> HIDE DEF o, q, size, price, fee, sign, goes, u, filled
<1> SUFFICES ASSUME goes, r = filled
             PROVE  \E s \in Nat, p \in Int, f \in Nat :
                      /\ CoveredFill(a, r, i, s, p, f)
                      /\ ModestCosts => f <= Simulator!Value(s, p)
  BY <1>1
<1>2. o \in SimulatedOrder /\ o.filled <= q.quantity /\ a.cash \in Int /\ a.held \in Int
  BY DEF OrderKept, AccountRecord, o, q
<1>3. /\ q \in Simulator!Request /\ o.filled \in Nat /\ q.side \in {"BUY", "SELL"}
      /\ q.quantity \in 1..MaxQuantity
  <2>1. q \in Simulator!Request /\ o.filled \in Nat
    BY <1>2 DEF SimulatedOrder, q
  <2> QED
    BY <2>1 DEF Simulator!Request
<1>4. q.quantity \in Nat
  <2>1. \A n \in 1..MaxQuantity : n \in Nat
    BY SimulatorConstants
  <2> QED
    BY <1>3, <2>1, Zenon
<1>5. q.quantity - o.filled \in Int /\ depth \in Int
  BY <1>3, <1>4
<1>6. size = IF q.quantity - o.filled <= depth THEN q.quantity - o.filled ELSE depth
  <2>1. size = Simulator!Min({q.quantity - o.filled, depth})
    BY Zenon DEF size, q, Simulator!Remaining
  <2> QED
    BY <1>5, <2>1, SmallerOf
<1>7. /\ size > 0 /\ o.status \in {"OPEN", "PARTIALLY_FILLED"}
      /\ Simulator!Covered(q, size, price, a)
  BY Zenon DEF goes
<1>8. price = IF q.side = "BUY" THEN ask + Slippage ELSE bid - Slippage
  BY Zenon DEF Simulator!FillPrice, price
<1>9. /\ q.side = "BUY" => a.cash >= Simulator!Value(size, price) + fee
      /\ q.side # "BUY" => a.held >= size
  BY <1>7, Zenon DEF Simulator!Covered, fee
<1>10. /\ r.book = [a.book EXCEPT ![i] = u]
       /\ r.cash = a.cash - sign * Simulator!Value(size, price) - fee
       /\ r.held = a.held + sign * size
       /\ IsAccount(r)
  BY DEF filled, IsAccount
<1>11. size \in Nat /\ size >= 1 /\ size <= q.quantity - o.filled
  BY <1>3, <1>4, <1>5, <1>6, <1>7
<1>12. /\ price \in Int
       /\ ModestCosts => price >= 0
  <2>1. bid \in Nat /\ ask \in Nat /\ Slippage \in Nat /\ (ModestCosts => Slippage <= bid)
    BY SimulatorConstants DEF ModestCosts
  <2> QED
    BY <1>8, <2>1
<1>13. fee \in Nat /\ Simulator!Value(size, price) \in Int /\ (ModestCosts => fee <= Simulator!Value(size, price))
  <2>1. /\ fee \in Nat /\ Simulator!Value(size, price) \in Int
        /\ (ModestFees /\ price >= 0) => fee <= Simulator!Value(size, price)
    BY <1>3, <1>11, <1>12, FeeIs, Zenon DEF fee
  <2> QED
    BY <1>12, <2>1 DEF ModestCosts
<1>14. q.side = "BUY" => /\ r.cash = a.cash - Simulator!Value(size, price) - fee
                         /\ r.held = a.held + size
  <2> SUFFICES ASSUME q.side = "BUY"
               PROVE  r.cash = a.cash - Simulator!Value(size, price) - fee /\ r.held = a.held + size
    OBVIOUS
  <2>1. sign = 1
    BY DEF sign
  <2> DEFINE x == Simulator!Value(size, price)
  <2>2. r.cash = a.cash - 1 * x - fee /\ r.held = a.held + 1 * size /\ x \in Int
    BY <1>10, <1>13, <2>1, Zenon
  <2> HIDE DEF x
  <2>3. r.cash = a.cash - x - fee /\ r.held = a.held + size
    BY <1>11, <2>2
  <2> QED
    BY <2>3 DEF x
<1>15. q.side # "BUY" => /\ r.cash = a.cash + Simulator!Value(size, price) - fee
                         /\ r.held = a.held - size
  <2> SUFFICES ASSUME q.side # "BUY"
               PROVE  r.cash = a.cash + Simulator!Value(size, price) - fee /\ r.held = a.held - size
    OBVIOUS
  <2>1. sign = -1
    BY DEF sign
  <2> DEFINE x == Simulator!Value(size, price)
  <2>2. r.cash = a.cash - (-1) * x - fee /\ r.held = a.held + (-1) * size /\ x \in Int
    BY <1>10, <1>13, <2>1, Zenon
  <2> HIDE DEF x
  <2>3. /\ \A c, y, f \in Int : c - (-1) * y - f = c + y - f
        /\ \A c, y \in Int : c + (-1) * y = c - y
    OBVIOUS
  <2>4. a.cash \in Int /\ a.held \in Int /\ size \in Int /\ fee \in Int
    BY <1>2, <1>11, <1>13
  <2>5. r.cash = a.cash + x - fee
    BY <2>2, <2>3, <2>4, Zenon
  <2>6. r.held = a.held - size
    BY <2>2, <2>3, <2>4, Zenon
  <2> QED
    BY <2>5, <2>6 DEF x
<1>16. FilledBy(a, r, i, size, price, fee)
  BY <1>9, <1>10, <1>14, <1>15, Zenon DEF FilledBy, o, q, u
<1>17. /\ a.book[i].status \in {"OPEN", "PARTIALLY_FILLED"}
       /\ size <= a.book[i].request.quantity - a.book[i].filled
  BY <1>7, <1>11, Zenon DEF o, q
<1>18. CoveredFill(a, r, i, size, price, fee)
  BY <1>10, <1>11, <1>16, <1>17, Zenon DEF CoveredFill
<1> QED
  BY <1>11, <1>12, <1>13, <1>18

\* An account whose books are as good as those of the one before it.
FollowsFrom(a, r, modest) ==
    /\ r \in AccountRecord /\ AccountKept(r.book, r.cash, r.held) /\ Len(r.book) = Len(a.book)
    /\ modest /\ a.cash >= 0 => r.cash >= 0

\* A fill keeps the account's books, and does not overdraw it if its costs are modest.
LEMMA FillKept ==
    ASSUME NEW a \in AccountRecord, AccountKept(a.book, a.cash, a.held), NEW i \in 1..Len(a.book),
           NEW size \in Nat, NEW price \in Int, NEW fee \in Nat,
           NEW r, CoveredFill(a, r, i, size, price, fee)
    PROVE  FollowsFrom(a, r, fee <= Simulator!Value(size, price))
<1> DEFINE o == a.book[i]
           f == [size |-> size, price |-> price, fee |-> fee]
           u == [o EXCEPT !.filled = @ + size, !.fills = Append(@, f),
                          !.status = IF o.filled + size = o.request.quantity
                                     THEN "FILLED" ELSE "PARTIALLY_FILLED"]
           v == Simulator!Value(size, price)
<1>1. /\ r.book = [a.book EXCEPT ![i] = u]
      /\ o.request.side = "BUY" => /\ r.cash = a.cash - v - fee /\ r.held = a.held + size
                                   /\ a.cash >= v + fee
      /\ o.request.side # "BUY" => /\ r.cash = a.cash + v - fee /\ r.held = a.held - size
                                   /\ a.held >= size
  BY Zenon DEF FilledBy, CoveredFill
<1>2. f \in Fill /\ f.size = size /\ f.price = price /\ f.fee = fee
  BY DEF Fill
<1>3. /\ a.book \in Seq(SimulatedOrder) /\ o \in SimulatedOrder /\ OrderKept(o)
      /\ a.cash \in Int /\ a.held \in Int /\ a.held >= 0
      /\ a.cash = Deposit - Total(Spent(a.book), Len(a.book))
      /\ a.held = Total(Received(a.book), Len(a.book))
      /\ \A k \in 1..Len(a.book) : OrderKept(a.book[k])
  BY DEF AccountKept, AccountRecord
<1>4. v \in Int
  BY DEF Simulator!Value
<1> HIDE DEF o, f, v
<1>5. /\ u \in SimulatedOrder /\ u.request = o.request /\ u.filled = o.filled + size
      /\ u.fills = Append(o.fills, f)
      /\ u.status = IF o.filled + size = o.request.quantity THEN "FILLED" ELSE "PARTIALLY_FILLED"
  <2> DEFINE x == o.filled + size
             y == Append(o.fills, f)
             z == IF o.filled + size = o.request.quantity THEN "FILLED" ELSE "PARTIALLY_FILLED"
  <2>1. /\ x \in Nat /\ y \in Seq(Fill)
        /\ z \in {"OPEN", "PARTIALLY_FILLED"} \cup Simulator!Terminal
    <3>1. o.filled \in Nat /\ o.fills \in Seq(Fill)
      BY <1>3 DEF SimulatedOrder
    <3> QED
      BY <1>2, <3>1 DEF Simulator!Terminal
  <2>2. u = [o EXCEPT !.filled = x, !.fills = y, !.status = z]
    OBVIOUS
  <2> HIDE DEF x, y, z, u
  <2>3. /\ u \in SimulatedOrder /\ u.request = o.request /\ u.filled = x /\ u.fills = y
        /\ u.status = z
    BY <1>3, <2>1, <2>2 DEF SimulatedOrder
  <2> QED
    BY <2>3 DEF x, y, z
<1> HIDE DEF u
<1>6. Size(u) = Size(o) + size /\ Paid(u) = Paid(o) + v /\ Fees(u) = Fees(o) + fee
  <2>1. /\ Size(u) = Size(o) + f.size
        /\ Paid(u) = Paid(o) + Simulator!Value(f.size, f.price)
        /\ Fees(u) = Fees(o) + f.fee
    BY <1>2, <1>3, <1>5, FillAdded
  <2> QED
    BY <1>2, <2>1, Zenon DEF v
<1>7. o.filled \in Nat /\ o.request.quantity \in Nat
  <2>1. o.filled \in Nat /\ o.request \in Simulator!Request
    BY <1>3 DEF SimulatedOrder
  <2>2. o.request.quantity \in 1..MaxQuantity
    BY <2>1 DEF Simulator!Request
  <2> QED
    BY <2>1, <2>2, SimulatorConstants
<1>8. OrderKept(u)
  <2>1. size <= o.request.quantity - o.filled
    BY DEF o, CoveredFill
  <2>2. u.filled = Size(u) /\ u.filled <= u.request.quantity
    BY <1>3, <1>5, <1>6, <1>7, <2>1 DEF OrderKept
  <2>3. (u.status = "FILLED") <=> (u.filled = u.request.quantity)
    BY <1>5
  <2> QED
    BY <1>5, <2>2, <2>3 DEF OrderKept
<1> DEFINE b == a.book
           w == [b EXCEPT ![i] = u]
<1>9. /\ w \in Seq(SimulatedOrder) /\ Len(w) = Len(b)
      /\ \A k \in 1..Len(b) : w[k] = IF k = i THEN u ELSE b[k]
      /\ Total(Spent(b), Len(b)) \in Int /\ Total(Received(b), Len(b)) \in Int
      /\ Total(Spent(w), Len(w)) = Total(Spent(b), Len(b))
            - (Simulator!Signed(o, Paid(o)) + Fees(o))
            + (Simulator!Signed(u, Paid(u)) + Fees(u))
      /\ Total(Received(w), Len(w)) = Total(Received(b), Len(b))
            - Simulator!Signed(o, Size(o)) + Simulator!Signed(u, Size(u))
  <2>1. b \in Seq(SimulatedOrder) /\ i \in 1..Len(b) /\ o = b[i]
    BY <1>3 DEF o
  <2> HIDE DEF b
  <2> QED
    BY <1>5, <2>1, OrderReplaced
<1>10. r.book = w
  BY <1>1
<1> HIDE DEF w
<1>11. Size(o) \in Int /\ Paid(o) \in Int /\ Fees(o) \in Int
  BY <1>3, OrderSums
<1>12. /\ Simulator!Signed(o, Size(o)) = IF o.request.side = "BUY" THEN Size(o) ELSE -Size(o)
       /\ Simulator!Signed(o, Paid(o)) = IF o.request.side = "BUY" THEN Paid(o) ELSE -Paid(o)
       /\ Simulator!Signed(u, Size(u)) = IF o.request.side = "BUY" THEN Size(u) ELSE -Size(u)
       /\ Simulator!Signed(u, Paid(u)) = IF o.request.side = "BUY" THEN Paid(u) ELSE -Paid(u)
  BY <1>5, Zenon DEF Simulator!Signed
<1> DEFINE spent == Total(Spent(a.book), Len(a.book))
           received == Total(Received(a.book), Len(a.book))
<1>13. spent \in Int /\ received \in Int
  BY <1>9
<1>14. /\ a.cash = Deposit - spent /\ a.held = received
       /\ Deposit \in Int
  BY <1>3, SimulatorConstants DEF Deposit
<1>15. /\ Total(Spent(w), Len(w)) = spent - (Simulator!Signed(o, Paid(o)) + Fees(o))
                                          + (Simulator!Signed(u, Paid(u)) + Fees(u))
       /\ Total(Received(w), Len(w)) = received - Simulator!Signed(o, Size(o)) + Simulator!Signed(u, Size(u))
  BY <1>9, Zenon
<1> HIDE DEF spent, received
<1>16. \A k \in 1..Len(w) : OrderKept(w[k])
  BY <1>3, <1>8, <1>9
<1>18. r = [book |-> r.book, cash |-> r.cash, held |-> r.held]
  BY DEF IsAccount, CoveredFill
<1>17. fee \in Int /\ size \in Int
  OBVIOUS
<1>19. CASE o.request.side = "BUY"
  <2>1. Total(Spent(w), Len(w)) = spent + v + fee /\ Total(Received(w), Len(w)) = received + size
    <3>1. /\ Total(Spent(w), Len(w)) = spent - (Paid(o) + Fees(o)) + ((Paid(o) + v) + (Fees(o) + fee))
          /\ Total(Received(w), Len(w)) = received - Size(o) + (Size(o) + size)
      BY <1>6, <1>12, <1>15, <1>19, Zenon
    <3>2. spent - (Paid(o) + Fees(o)) + ((Paid(o) + v) + (Fees(o) + fee)) = spent + v + fee
      BY <1>4, <1>11, <1>13, <1>17
    <3>3. received - Size(o) + (Size(o) + size) = received + size
      BY <1>11, <1>13, <1>17
    <3> QED
      BY <3>1, <3>2, <3>3, Zenon
  <2>2. r.cash = a.cash - v - fee /\ r.held = a.held + size /\ a.cash >= v + fee
    BY <1>1, <1>19
  <2>3. /\ r.cash \in Int /\ r.cash = Deposit - Total(Spent(w), Len(w)) /\ r.cash >= 0
    BY <1>3, <1>4, <1>13, <1>14, <2>1, <2>2
  <2>4. r.held \in Int /\ r.held = Total(Received(w), Len(w)) /\ r.held >= 0
    BY <1>3, <1>13, <1>14, <2>1, <2>2
  <2>5. AccountKept(w, r.cash, r.held)
    BY <1>9, <1>16, <2>3, <2>4, Zenon DEF AccountKept
  <2> QED
    <3>1. r \in AccountRecord
      BY <1>9, <1>10, <1>18, <2>3, <2>4 DEF AccountRecord
    <3> QED
      BY <1>9, <1>10, <2>3, <2>5, <3>1 DEF FollowsFrom
<1>20. CASE o.request.side # "BUY"
  <2>1. Total(Spent(w), Len(w)) = spent - v + fee /\ Total(Received(w), Len(w)) = received - size
    <3>1. /\ Total(Spent(w), Len(w)) = spent - (-Paid(o) + Fees(o)) + (-(Paid(o) + v) + (Fees(o) + fee))
          /\ Total(Received(w), Len(w)) = received - (-Size(o)) + (-(Size(o) + size))
      BY <1>6, <1>12, <1>15, <1>20, Zenon
    <3>2. spent - (-Paid(o) + Fees(o)) + (-(Paid(o) + v) + (Fees(o) + fee)) = spent - v + fee
      BY <1>4, <1>11, <1>13, <1>17
    <3>3. received - (-Size(o)) + (-(Size(o) + size)) = received - size
      BY <1>11, <1>13, <1>17
    <3> QED
      BY <3>1, <3>2, <3>3, Zenon
  <2>2. r.cash = a.cash + v - fee /\ r.held = a.held - size /\ a.held >= size
    BY <1>1, <1>20
  <2>3. /\ r.cash \in Int /\ r.cash = Deposit - Total(Spent(w), Len(w))
        /\ a.cash >= 0 /\ fee <= v => r.cash >= 0
    BY <1>3, <1>4, <1>13, <1>14, <2>1, <2>2
  <2>4. r.held \in Int /\ r.held = Total(Received(w), Len(w)) /\ r.held >= 0
    BY <1>3, <1>13, <1>14, <2>1, <2>2
  <2>5. AccountKept(w, r.cash, r.held)
    BY <1>9, <1>16, <2>3, <2>4, Zenon DEF AccountKept
  <2> QED
    <3>1. r \in AccountRecord
      BY <1>9, <1>10, <1>18, <2>3, <2>4 DEF AccountRecord
    <3> QED
      BY <1>9, <1>10, <2>3, <2>5, <3>1 DEF FollowsFrom, v
<1> QED
  BY <1>19, <1>20

LEMMA VisitKept ==
    ASSUME NEW a \in AccountRecord, AccountKept(a.book, a.cash, a.held), NEW i \in 1..Len(a.book),
           NEW bid \in MarketPrice, NEW ask \in MarketPrice, NEW depth \in Nat, NEW late,
           NEW r, r = Simulator!VisitOrder(a, i, bid, ask, depth, late)
    PROVE  FollowsFrom(a, r, ModestCosts)
<1>1. /\ OrderKept(a.book[i]) /\ a.book \in Seq(SimulatedOrder) /\ a.book[i] \in SimulatedOrder
  BY DEF AccountKept, OrderKept
<1>2. CASE i \in late /\ a.book[i].status \in {"OPEN", "PARTIALLY_FILLED"}
  <2> DEFINE b == [a.book EXCEPT ![i] = [a.book[i] EXCEPT !.status = "EXPIRED"]]
  <2>1. r = [a EXCEPT !.book = b]
    BY <1>2 DEF Simulator!VisitOrder
  <2>2. AccountKept(b, a.cash, a.held)
    BY <1>2, StatusChanged DEF Simulator!Terminal
  <2>3. Len(b) = Len(a.book)
    BY <1>1
  <2> HIDE DEF b
  <2>4. r.book = b /\ r.cash = a.cash /\ r.held = a.held /\ r \in AccountRecord
    BY <2>1, <2>2 DEF AccountRecord, AccountKept
  <2> QED
    BY <2>2, <2>3, <2>4 DEF FollowsFrom
<1>3. CASE ~(i \in late /\ a.book[i].status \in {"OPEN", "PARTIALLY_FILLED"})
  <2>1. r = Simulator!TryFill(a, i, bid, ask, depth)
    BY <1>3, Zenon DEF Simulator!VisitOrder
  <2>2. CASE r = a
    BY <2>2 DEF FollowsFrom
  <2>3. CASE \E size \in Nat, price \in Int, fee \in Nat :
               /\ CoveredFill(a, r, i, size, price, fee)
               /\ ModestCosts => fee <= Simulator!Value(size, price)
    <3>1. PICK size \in Nat, price \in Int, fee \in Nat :
                /\ CoveredFill(a, r, i, size, price, fee)
                /\ ModestCosts => fee <= Simulator!Value(size, price)
      BY <2>3
    <3>2. /\ a \in AccountRecord /\ AccountKept(a.book, a.cash, a.held) /\ i \in 1..Len(a.book)
          /\ size \in Nat /\ price \in Int /\ fee \in Nat /\ CoveredFill(a, r, i, size, price, fee)
      BY <3>1
    <3>3. FollowsFrom(a, r, fee <= Simulator!Value(size, price))
      BY <3>2, FillKept, Zenon
    <3> QED
      BY <3>1, <3>3 DEF FollowsFrom
  <2> QED
    BY <1>1, <2>1, <2>2, <2>3, TryFillCases
<1> QED
  BY <1>2, <1>3

\* The account before a tick.
Account == [book |-> book, cash |-> cash, held |-> held]

\* Accounts that follow from each other by visits.
Visited(g, bid, ask, depth, late, n) ==
    g[0] = Account /\ \A k \in 1..n : g[k] = Simulator!VisitOrder(g[k - 1], k, bid, ask, depth, late)

LEMMA VisitsExist ==
    ASSUME NEW bid, NEW ask, NEW depth, NEW late
    PROVE  \A n \in Nat : \E g : Visited(g, bid, ask, depth, late, n)
<1> DEFINE S == {n \in Nat : \E g : Visited(g, bid, ask, depth, late, n)}
<1>1. 0 \in S
  <2> DEFINE g == [k \in {0} |-> Account]
  <2>1. Visited(g, bid, ask, depth, late, 0)
    BY DEF Visited
  <2> QED
    BY <2>1
<1>2. ASSUME NEW n \in S  PROVE n + 1 \in S
  <2>1. PICK g : Visited(g, bid, ask, depth, late, n)
    OBVIOUS
  <2> DEFINE x == Simulator!VisitOrder(g[n], n + 1, bid, ask, depth, late)
  <2> HIDE DEF x
  <2> DEFINE h == [k \in 0..(n + 1) |-> IF k = n + 1 THEN x ELSE g[k]]
  <2>2. ASSUME NEW k \in 1..(n + 1)
        PROVE  h[k] = Simulator!VisitOrder(h[k - 1], k, bid, ask, depth, late)
    <3>1. k - 1 \in 0..(n + 1) /\ k - 1 # n + 1 /\ h[k - 1] = g[k - 1]
      OBVIOUS
    <3>2. CASE k = n + 1
      <4>1. h[k] = x /\ k - 1 = n
        BY <3>2
      <4> HIDE DEF h
      <4> QED
        BY <3>1, <3>2, <4>1 DEF x
    <3>3. CASE k # n + 1
      <4>1. k \in 1..n /\ h[k] = g[k]
        BY <3>3
      <4> HIDE DEF h
      <4> QED
        BY <2>1, <3>1, <4>1 DEF Visited
    <3> QED
      BY <3>2, <3>3
  <2>3. h[0] = Account
    BY <2>1 DEF Visited
  <2> HIDE DEF h
  <2>4. Visited(h, bid, ask, depth, late, n + 1)
    BY <2>2, <2>3 DEF Visited
  <2> QED
    BY <2>4
<1> HIDE DEF S
<1>3. S = Nat
  BY <1>1, <1>2, ByInduction DEF S
<1> QED
  BY <1>3 DEF S

LEMMA VisitsAgree ==
    ASSUME NEW bid, NEW ask, NEW depth, NEW late, NEW g, NEW h, NEW n \in Nat, NEW m \in Nat,
           n <= m, Visited(g, bid, ask, depth, late, n), Visited(h, bid, ask, depth, late, m)
    PROVE  g[n] = h[n]
<1> DEFINE S == {k \in Nat : k <= n => g[k] = h[k]}
<1>1. 0 \in S
  BY DEF Visited
<1>2. ASSUME NEW k \in S  PROVE k + 1 \in S
  <2> SUFFICES ASSUME k + 1 <= n  PROVE g[k + 1] = h[k + 1]
    OBVIOUS
  <2>1. k + 1 \in 1..n /\ k + 1 \in 1..m /\ (k + 1) - 1 = k /\ k <= n
    OBVIOUS
  <2>2. /\ g[k + 1] = Simulator!VisitOrder(g[(k + 1) - 1], k + 1, bid, ask, depth, late)
        /\ h[k + 1] = Simulator!VisitOrder(h[(k + 1) - 1], k + 1, bid, ask, depth, late)
    BY <2>1 DEF Visited
  <2>3. g[k] = h[k]
    BY <2>1
  <2> QED
    BY <2>1, <2>2, <2>3
<1> HIDE DEF S
<1>3. S = Nat
  BY <1>1, <1>2, ByInduction DEF S
<1> QED
  BY <1>3 DEF S

\* What the visit to the order after the first n makes of an account.
NextAccount(a, n, bid, ask, depth, late) == Simulator!VisitOrder(a, n + 1, bid, ask, depth, late)

\* A tick visits one order after the other.
LEMMA AfterUnfolds ==
    ASSUME NEW bid, NEW ask, NEW depth, NEW late
    PROVE  /\ Simulator!After(bid, ask, depth, late, 0) = Account
           /\ \A n \in Nat : Simulator!After(bid, ask, depth, late, n + 1) =
                 NextAccount(Simulator!After(bid, ask, depth, late, n), n, bid, ask, depth, late)
<1> DEFINE first(n) == CHOOSE g : Visited(g, bid, ask, depth, late, n)
           all == [n \in Nat |-> first(n)[n]]
           Equation(g) == g = [k \in Nat |-> IF k = 0 THEN [book |-> book, cash |-> cash, held |-> held]
                                             ELSE Simulator!VisitOrder(g[k - 1], k, bid, ask, depth, late)]
<1>1. \A n \in Nat : Visited(first(n), bid, ask, depth, late, n)
  BY VisitsExist
<1> HIDE DEF first
<1>2. all[0] = Account
  BY <1>1 DEF Visited
<1>3. ASSUME NEW n \in Nat
      PROVE  all[n + 1] = Simulator!VisitOrder(all[n], n + 1, bid, ask, depth, late)
  <2>1. first(n)[n] = first(n + 1)[n]
    <3> DEFINE g == first(n)
               h == first(n + 1)
    <3>1. /\ n <= n + 1 /\ n + 1 \in Nat /\ Visited(g, bid, ask, depth, late, n)
          /\ Visited(h, bid, ask, depth, late, n + 1)
      BY <1>1
    <3> HIDE DEF g, h
    <3>2. g[n] = h[n]
      BY <3>1, VisitsAgree
    <3> QED
      BY <3>2 DEF g, h
  <2>2. first(n + 1)[n + 1] = Simulator!VisitOrder(first(n + 1)[n], n + 1, bid, ask, depth, late)
    <3>1. n + 1 \in 1..(n + 1) /\ (n + 1) - 1 = n /\ Visited(first(n + 1), bid, ask, depth, late, n + 1)
      BY <1>1
    <3>2. first(n + 1)[n + 1] = Simulator!VisitOrder(first(n + 1)[(n + 1) - 1], n + 1, bid, ask, depth, late)
      BY <3>1, Zenon DEF Visited
    <3> QED
      BY <3>1, <3>2
  <2>3. all[n] = first(n)[n] /\ all[n + 1] = first(n + 1)[n + 1]
    OBVIOUS
  <2> HIDE DEF all
  <2> QED
    BY <2>1, <2>2, <2>3
<1>4. Equation(all)
  <2>1. ASSUME NEW k \in Nat
        PROVE  all[k] = IF k = 0 THEN [book |-> book, cash |-> cash, held |-> held]
                        ELSE Simulator!VisitOrder(all[k - 1], k, bid, ask, depth, late)
    <3>1. CASE k = 0
      BY <1>2, <3>1 DEF Account
    <3>2. CASE k # 0
      <4>1. k - 1 \in Nat /\ k = (k - 1) + 1
        BY <3>2
      <4> HIDE DEF all
      <4>2. all[(k - 1) + 1] = Simulator!VisitOrder(all[k - 1], (k - 1) + 1, bid, ask, depth, late)
        BY <1>3, <4>1
      <4> QED
        BY <3>2, <4>1, <4>2
    <3> QED
      BY <3>1, <3>2
  <2> QED
    BY <2>1
<1> HIDE DEF all
<1>5. Equation(CHOOSE g : Equation(g))
  BY <1>4
<1> DEFINE t == CHOOSE g : Equation(g)
<1>6. t = [k \in Nat |-> IF k = 0 THEN [book |-> book, cash |-> cash, held |-> held]
                         ELSE Simulator!VisitOrder(t[k - 1], k, bid, ask, depth, late)]
  BY <1>5
<1>7. \A n : Simulator!After(bid, ask, depth, late, n) = t[n]
  BY DEF Simulator!After
<1> HIDE DEF t
<1>8. t[0] = Account
  BY <1>6 DEF Account
<1>9. \A n \in Nat : t[n + 1] = Simulator!VisitOrder(t[n], n + 1, bid, ask, depth, late)
  <2> TAKE n \in Nat
  <2>1. n + 1 \in Nat /\ n + 1 # 0 /\ (n + 1) - 1 = n
    OBVIOUS
  <2>2. t[n + 1] = IF n + 1 = 0 THEN [book |-> book, cash |-> cash, held |-> held]
                   ELSE Simulator!VisitOrder(t[(n + 1) - 1], n + 1, bid, ask, depth, late)
    BY <1>6, <2>1, Zenon
  <2> QED
    BY <2>1, <2>2
<1>10. \A n \in Nat : t[n + 1] = NextAccount(t[n], n, bid, ask, depth, late)
  BY <1>9, Zenon DEF NextAccount
<1> QED
  BY <1>7, <1>8, <1>10

LEMMA TickKept ==
    ASSUME AccountKept(book, cash, held), NEW bid \in MarketPrice, NEW ask \in MarketPrice,
           NEW depth \in Nat, NEW late
    PROVE  FollowsFrom(Account, Simulator!After(bid, ask, depth, late, Len(book)), ModestCosts)
<1> DEFINE reached(n) == Simulator!After(bid, ask, depth, late, n)
           S == {n \in Nat : n <= Len(book) => FollowsFrom(Account, reached(n), ModestCosts)}
<1>1. /\ Account.book = book /\ Account.cash = cash /\ Account.held = held
      /\ Account \in AccountRecord
  BY DEF Account, AccountRecord, AccountKept
<1>2. reached(0) = Account
  BY AfterUnfolds
<1>3. \A n \in Nat : reached(n + 1) = Simulator!VisitOrder(reached(n), n + 1, bid, ask, depth, late)
  <2> TAKE n \in Nat
  <2>1. reached(n + 1) = NextAccount(reached(n), n, bid, ask, depth, late)
    BY AfterUnfolds
  <2> QED
    BY <2>1, Zenon DEF NextAccount
<1>4. Len(book) \in Nat
  BY DEF AccountKept
<1> HIDE DEF reached
<1>5. 0 \in S
  BY <1>1, <1>2 DEF FollowsFrom
<1>6. ASSUME NEW n \in S  PROVE n + 1 \in S
  <2> SUFFICES ASSUME n + 1 <= Len(book)
               PROVE  FollowsFrom(Account, reached(n + 1), ModestCosts)
    OBVIOUS
  <2> DEFINE a == reached(n)
             r == reached(n + 1)
  <2>1. /\ a \in AccountRecord /\ AccountKept(a.book, a.cash, a.held) /\ Len(a.book) = Len(book)
        /\ ModestCosts /\ cash >= 0 => a.cash >= 0
    BY <1>1, <1>4 DEF FollowsFrom
  <2>2. n + 1 \in 1..Len(a.book)
    BY <1>4, <2>1
  <2>3. r = Simulator!VisitOrder(a, n + 1, bid, ask, depth, late)
    BY <1>3
  <2> HIDE DEF a, r
  <2>4. FollowsFrom(a, r, ModestCosts)
    BY <2>1, <2>2, <2>3, VisitKept, Zenon
  <2>5. FollowsFrom(Account, r, ModestCosts)
    BY <1>1, <2>1, <2>4 DEF FollowsFrom
  <2> QED
    BY <2>5 DEF r
<1> HIDE DEF S
<1>7. S = Nat
  BY <1>5, <1>6, ByInduction DEF S
<1>8. FollowsFrom(Account, reached(Len(book)), ModestCosts)
  BY <1>4, <1>7 DEF S
<1> QED
  BY <1>8 DEF reached

\* An order that has no fills yet.
LEMMA OrderPlaced ==
    ASSUME AccountKept(book, cash, held), NEW q \in Simulator!Request,
           NEW o, o = [request |-> q, status |-> "OPEN", filled |-> 0, fills |-> << >>]
    PROVE  AccountKept(Append(book, o), cash, held)
<1> DEFINE n == Len(book)
           b == Append(book, o)
<1>1. o \in SimulatedOrder /\ o.fills = << >> /\ Len(o.fills) = 0 /\ o.filled = 0
  BY DEF SimulatedOrder
<1>2. Size(o) = 0 /\ Paid(o) = 0 /\ Fees(o) = 0
  BY <1>1, TotalUnfolds, Zenon DEF Size, Paid, Fees
<1>3. q.quantity \in Nat /\ q.quantity >= 1
  <2>1. \A x \in 1..MaxQuantity : x \in Nat /\ x >= 1
    BY SimulatorConstants
  <2>2. q.quantity \in 1..MaxQuantity
    BY DEF Simulator!Request
  <2> QED
    BY <2>1, <2>2
<1>4. OrderKept(o)
  <2>1. o.request = q /\ o.status = "OPEN"
    OBVIOUS
  <2> QED
    BY <1>1, <1>2, <1>3, <2>1 DEF OrderKept
<1>5. /\ book \in Seq(SimulatedOrder) /\ n \in Nat /\ \A k \in 1..n : OrderKept(book[k])
      /\ cash \in Int /\ cash = Deposit - Total(Spent(book), n)
      /\ held \in Int /\ held = Total(Received(book), n) /\ held >= 0
  BY DEF AccountKept
<1>6. /\ b \in Seq(SimulatedOrder) /\ Len(b) = n + 1 /\ b[n + 1] = o
      /\ \A k \in 1..n : b[k] = book[k]
  BY <1>1, <1>5
<1>7. \A k \in 1..Len(b) : k = n + 1 \/ k \in 1..n
  BY <1>5, <1>6
<1>8. n + 1 \in 1..Len(b) /\ \A k \in 1..n : k \in 1..Len(b)
  BY <1>5, <1>6
<1> HIDE DEF n, b
<1>9. \A k \in 1..Len(b) : OrderKept(b[k])
  BY <1>4, <1>5, <1>6, <1>7
<1>10. \A k \in 1..n : Spent(b)[k] = Spent(book)[k] /\ Received(b)[k] = Received(book)[k]
  BY <1>6, <1>8, Zenon DEF Spent, Received, n
<1>11. Spent(b)[n + 1] = 0 /\ Received(b)[n + 1] = 0
  <2>1. /\ Spent(b)[n + 1] = Simulator!Signed(o, 0) + 0
        /\ Received(b)[n + 1] = Simulator!Signed(o, 0)
    BY <1>2, <1>6, <1>8, Zenon DEF Spent, Received
  <2>2. Simulator!Signed(o, 0) = 0
    <3> DEFINE z == 0
    <3>1. z \in Int /\ z <= 0 /\ z >= 0
      OBVIOUS
    <3> HIDE DEF z
    <3>2. -z = z
      BY <3>1
    <3>3. Simulator!Signed(o, z) = z
      BY <3>2, Zenon DEF Simulator!Signed
    <3> QED
      BY <3>3 DEF z
  <2> QED
    BY <2>1, <2>2
<1>12. Total(Spent(b), n + 1) = Total(Spent(book), n) + Spent(b)[n + 1]
  <2>1. \A k \in 1..n : Spent(b)[k] = Spent(book)[k]
    BY <1>10
  <2> QED
    BY <1>5, <2>1, OneMoreSummed
<1>13. Total(Received(b), n + 1) = Total(Received(book), n) + Received(b)[n + 1]
  <2>1. \A k \in 1..n : Received(b)[k] = Received(book)[k]
    BY <1>10
  <2> QED
    BY <1>5, <2>1, OneMoreSummed
<1>14. Total(Spent(book), n) \in Int /\ Total(Received(book), n) \in Int
  <2>1. \A k \in 1..n : Spent(book)[k] \in Int /\ Received(book)[k] \in Int
    <3> TAKE k \in 1..n
    <3>1. book[k] \in SimulatedOrder
      BY <1>5 DEF OrderKept
    <3>2. /\ Simulator!Signed(book[k], Paid(book[k])) + Fees(book[k]) \in Int
          /\ Simulator!Signed(book[k], Size(book[k])) \in Int
      BY <3>1, OrderSums
    <3>3. /\ Spent(book)[k] = Simulator!Signed(book[k], Paid(book[k])) + Fees(book[k])
          /\ Received(book)[k] = Simulator!Signed(book[k], Size(book[k]))
      BY Zenon DEF Spent, Received, n
    <3> QED
      BY <3>2, <3>3
  <2> QED
    BY <1>5, <2>1, TotalIsInt
<1>15. Total(Spent(b), Len(b)) = Total(Spent(book), n) /\ Total(Received(b), Len(b)) = Total(Received(book), n)
  BY <1>6, <1>11, <1>12, <1>13, <1>14
<1>16. AccountKept(b, cash, held)
  BY <1>5, <1>6, <1>9, <1>15, Zenon DEF AccountKept
<1> QED
  BY <1>16 DEF b

SimulatorKept == SimulatorInv /\ (ModestCosts => cash >= 0)

LEMMA SimulatorInit == Init => SimulatorKept
<1> SUFFICES ASSUME book = << >>, cash = Deposit, held = 0  PROVE SimulatorKept
  BY DEF Init, Simulator!Init, Deposit
<1>1. Len(book) = 0 /\ book \in Seq(SimulatedOrder) /\ 1..Len(book) = {}
  OBVIOUS
<1>2. Total(Spent(book), Len(book)) = 0 /\ Total(Received(book), Len(book)) = 0
  BY <1>1, TotalUnfolds, Zenon
<1>3. Deposit \in Int /\ Deposit >= 0
  BY SimulatorConstants DEF Deposit
<1> QED
  BY <1>1, <1>2, <1>3 DEF SimulatorKept, SimulatorInv, AccountKept

LEMMA SimulatorNext == SimulatorKept /\ [Next]_vars => SimulatorKept'
<1> SUFFICES ASSUME SimulatorKept, [Next]_vars  PROVE SimulatorKept'
  OBVIOUS
<1>1. AccountKept(book, cash, held) /\ (ModestCosts => cash >= 0)
  BY DEF SimulatorKept, SimulatorInv
<1>2. CASE UNCHANGED simulatorVars
  BY <1>1, <1>2 DEF simulatorVars, SimulatorKept, SimulatorInv
<1>3. ASSUME NEW q \in Simulator!Request, Simulator!PlaceOrder(q)  PROVE SimulatorKept'
  <2> DEFINE o == [request |-> q, status |-> "OPEN", filled |-> 0, fills |-> << >>]
  <2>1. book' = Append(book, o) /\ cash' = cash /\ held' = held
    BY <1>3 DEF Simulator!PlaceOrder
  <2>2. AccountKept(Append(book, o), cash, held)
    BY <1>1, OrderPlaced
  <2> HIDE DEF o
  <2> QED
    BY <1>1, <2>1, <2>2 DEF SimulatorKept, SimulatorInv
<1>4. ASSUME NEW i \in DOMAIN book, Simulator!CancelOrder(i)  PROVE SimulatorKept'
  <2> DEFINE b == [book EXCEPT ![i] = [book[i] EXCEPT !.status = "CANCELLED"]]
  <2>1. /\ book' = b /\ cash' = cash /\ held' = held
        /\ book[i].status \notin Simulator!Terminal
    BY <1>4 DEF Simulator!CancelOrder
  <2>2. i \in 1..Len(book)
    BY <1>1 DEF AccountKept
  <2>3. AccountKept(b, cash, held)
    <3>1. /\ "CANCELLED" \in Simulator!Terminal \ {"FILLED"} /\ book[i].status # "FILLED"
      BY <2>1 DEF Simulator!Terminal
    <3> QED
      BY <1>1, <2>2, <3>1, StatusChanged
  <2> HIDE DEF b
  <2> QED
    BY <1>1, <2>1, <2>3 DEF SimulatorKept, SimulatorInv
<1>5. ASSUME NEW bid \in MarketPrice, NEW ask \in MarketPrice, NEW depth \in 1..MaxQuantity,
             NEW late, Simulator!Tick(bid, ask, depth, late)
      PROVE  SimulatorKept'
  <2> DEFINE a == Simulator!After(bid, ask, depth, late, Len(book))
  <2>1. book' = a.book /\ cash' = a.cash /\ held' = a.held
    BY <1>5, Zenon DEF Simulator!Tick
  <2>2. depth \in Nat
    BY SimulatorConstants
  <2>3. FollowsFrom(Account, a, ModestCosts)
    BY <1>1, <2>2, TickKept
  <2> HIDE DEF a
  <2>4. AccountKept(a.book, a.cash, a.held) /\ (ModestCosts /\ Account.cash >= 0 => a.cash >= 0)
    BY <2>3 DEF FollowsFrom
  <2>5. Account.cash = cash
    BY DEF Account
  <2>6. ModestCosts' = ModestCosts
    BY DEF ModestCosts, ModestFees
  <2> QED
    BY <1>1, <2>1, <2>4, <2>5, <2>6 DEF SimulatorKept, SimulatorInv
<1>6. CASE Simulator!Next
  BY <1>3, <1>4, <1>5, <1>6, Zenon DEF Simulator!Next
<1> QED
  BY <1>2, <1>6, SimulatorSteps

LEMMA SimulatorBooks ==
    SimulatorKept => Simulator!FillsAccountForAll /\ held >= 0 /\ (ModestCosts => Simulator!NeverOverdrawn)
<1> SUFFICES ASSUME SimulatorKept
             PROVE  Simulator!FillsAccountForAll /\ held >= 0 /\ (ModestCosts => Simulator!NeverOverdrawn)
  OBVIOUS
<1>1. AccountKept(book, cash, held) /\ (ModestCosts => cash >= 0)
  BY DEF SimulatorKept, SimulatorInv
<1>2. /\ held >= 0 /\ book \in Seq(SimulatedOrder) /\ DOMAIN book = 1..Len(book)
      /\ cash = Deposit - Total(Spent(book), Len(book))
      /\ held = Total(Received(book), Len(book))
      /\ \A k \in 1..Len(book) : OrderKept(book[k]) /\ book[k] \in SimulatedOrder
  BY <1>1 DEF AccountKept, OrderKept
<1>3. ASSUME NEW o \in SimulatedOrder
      PROVE  Simulator!Filled(o) = Size(o) /\ Simulator!Paid(o) = Paid(o) /\ Simulator!Fees(o) = Fees(o)
  <2>1. DOMAIN o.fills = 1..Len(o.fills)
    BY DEF SimulatedOrder
  <2>2. Simulator!Filled(o) = Size(o)
    BY <2>1, SimulatorLibrary, Zenon DEF Simulator!Filled, Size, SizesOf
  <2>3. Simulator!Paid(o) = Paid(o)
    BY <2>1, SimulatorLibrary, Zenon DEF Simulator!Paid, Paid, PricesOf
  <2>4. Simulator!Fees(o) = Fees(o)
    BY <2>1, SimulatorLibrary, Zenon DEF Simulator!Fees, Fees, FeesOf
  <2> QED
    BY <2>2, <2>3, <2>4
<1> DEFINE spent == [i \in 1..Len(book) |->
                       Simulator!Signed(book[i], Simulator!Paid(book[i])) + Simulator!Fees(book[i])]
           received == [i \in 1..Len(book) |-> Simulator!Signed(book[i], Simulator!Filled(book[i]))]
<1>4. spent = Spent(book) /\ received = Received(book)
  <2>1. \A i \in 1..Len(book) : /\ Simulator!Filled(book[i]) = Size(book[i])
                                /\ Simulator!Paid(book[i]) = Paid(book[i])
                                /\ Simulator!Fees(book[i]) = Fees(book[i])
    BY <1>2, <1>3
  <2>2. \A i \in 1..Len(book) : /\ Simulator!Signed(book[i], Simulator!Paid(book[i])) + Simulator!Fees(book[i])
                                     = Simulator!Signed(book[i], Paid(book[i])) + Fees(book[i])
                                /\ Simulator!Signed(book[i], Simulator!Filled(book[i]))
                                     = Simulator!Signed(book[i], Size(book[i]))
    BY <2>1, Zenon
  <2> QED
    BY <2>2 DEF Spent, Received
<1>5. /\ cash = Deposit - Simulator!Total([i \in DOMAIN book |->
             Simulator!Signed(book[i], Simulator!Paid(book[i])) + Simulator!Fees(book[i])], Len(book))
      /\ held = Simulator!Total([i \in DOMAIN book |->
             Simulator!Signed(book[i], Simulator!Filled(book[i]))], Len(book))
  <2>1. cash = Deposit - Simulator!Total(spent, Len(book)) /\ held = Simulator!Total(received, Len(book))
    BY <1>2, <1>4, SimulatorLibrary, Zenon
  <2> QED
    BY <1>2, <2>1, Zenon
<1>6. ASSUME NEW i \in DOMAIN book
      PROVE  /\ book[i].filled = Simulator!Filled(book[i])
             /\ book[i].filled <= book[i].request.quantity
             /\ (book[i].status = "FILLED") = (book[i].filled = book[i].request.quantity)
  <2>1. OrderKept(book[i]) /\ Simulator!Filled(book[i]) = Size(book[i])
    BY <1>2, <1>3
  <2> QED
    BY <2>1 DEF OrderKept
<1>7. Simulator!FillsAccountForAll
  BY <1>5, <1>6 DEF Simulator!FillsAccountForAll, Deposit
<1> QED
  BY <1>1, <1>2, <1>7 DEF Simulator!NeverOverdrawn

(***************************************************************************)
(* The profit and loss engine                                              *)
(***************************************************************************)

LEMMA BasisSteps == [Next]_vars => Basis!Next \/ UNCHANGED basisVars
  BY Zenon DEF Next, Only, vars

LEMMA BasisLibrary == \A f, n : Basis!Total(f, n) = Total(f, n)
  BY Zenon DEF Total, Basis!Total

LEMMA BasisConstants == MaxSize \in Nat /\ LotPrice \subseteq Nat
  BY LedgerConstants

\* A sum of numbers that are not negative, and of smaller ones.
LEMMA TotalNotNegative ==
    ASSUME NEW f, NEW n \in Nat, \A k \in 1..n : f[k] \in Nat
    PROVE  Total(f, n) \in Nat
<1> DEFINE S == {k \in Nat : k <= n => Total(f, k) \in Nat}
<1>1. 0 \in S
  BY TotalUnfolds
<1>2. ASSUME NEW k \in S  PROVE k + 1 \in S
  <2> SUFFICES ASSUME k + 1 <= n  PROVE Total(f, k + 1) \in Nat
    OBVIOUS
  <2>1. k \in Nat /\ Total(f, k) \in Nat /\ f[k + 1] \in Nat
    OBVIOUS
  <2>2. Total(f, k + 1) = Total(f, k) + f[k + 1]
    BY <2>1, TotalUnfolds
  <2> QED
    BY <2>1, <2>2
<1> HIDE DEF S
<1>3. S = Nat
  BY <1>1, <1>2, ByInduction DEF S
<1> QED
  BY <1>3 DEF S

LEMMA TotalGrows ==
    ASSUME NEW f, NEW g, NEW n \in Nat,
           \A k \in 1..n : f[k] \in Int /\ g[k] \in Int /\ f[k] <= g[k]
    PROVE  Total(f, n) \in Int /\ Total(g, n) \in Int /\ Total(f, n) <= Total(g, n)
<1> DEFINE S == {k \in Nat : k <= n => /\ Total(f, k) \in Int /\ Total(g, k) \in Int
                                       /\ Total(f, k) <= Total(g, k)}
<1>1. 0 \in S
  BY TotalUnfolds
<1>2. ASSUME NEW k \in S  PROVE k + 1 \in S
  <2> SUFFICES ASSUME k + 1 <= n
               PROVE  /\ Total(f, k + 1) \in Int /\ Total(g, k + 1) \in Int
                      /\ Total(f, k + 1) <= Total(g, k + 1)
    OBVIOUS
  <2>1. /\ k \in Nat /\ Total(f, k) \in Int /\ Total(g, k) \in Int /\ Total(f, k) <= Total(g, k)
        /\ f[k + 1] \in Int /\ g[k + 1] \in Int /\ f[k + 1] <= g[k + 1]
    OBVIOUS
  <2>2. Total(f, k + 1) = Total(f, k) + f[k + 1]
    BY <2>1, TotalUnfolds
  <2>3. Total(g, k + 1) = Total(g, k) + g[k + 1]
    BY <2>1, TotalUnfolds
  <2> QED
    BY <2>1, <2>2, <2>3
<1> HIDE DEF S
<1>3. S = Nat
  BY <1>1, <1>2, ByInduction DEF S
<1> QED
  BY <1>3 DEF S

(***************************************************************************)
(* A sale takes the lots in an order: the younger first, of two of one age *)
(* the one bought first.  What a lot gives is what those ahead of it leave *)
(* to be asked for.                                                        *)
(***************************************************************************)

Precedes(t, i, k) == t[i] > t[k] \/ (t[i] = t[k] /\ i < k)
AheadOf(t, w, n, k) == [i \in 1..n |-> IF Precedes(t, i, k) THEN w[i] ELSE 0]
PartOf(x, room) == IF room <= 0 THEN 0 ELSE IF x <= room THEN x ELSE room
Within(f, D, n) == [k \in 1..n |-> IF k \in D THEN f[k] ELSE 0]

\* What those ahead come to is within what all come to.
LEMMA PartIs ==
    ASSUME NEW x \in Nat, NEW room \in Int
    PROVE  PartOf(x, room) \in Nat /\ PartOf(x, room) <= x
  BY DEF PartOf

\* The last of some lots in the order of a sale.
LEMMA LastInOrder ==
    ASSUME NEW n \in Nat, NEW t, \A k \in 1..n : t[k] \in Nat,
           NEW D \in SUBSET (1..n), D # {}
    PROVE  \E last \in D : \A k \in D : k # last => Precedes(t, k, last)
<1> DEFINE ages == {t[k] : k \in D}
<1>1. ages \in SUBSET Nat /\ ages # {}
  OBVIOUS
<1>2. PICK age \in ages : \A x \in ages : age <= x
  BY <1>1, LeastNumber
<1>3. PICK one \in D : t[one] = age
  BY <1>2
<1> DEFINE places == {n - k : k \in {d \in D : t[d] = age}}
<1>4. places \in SUBSET Nat /\ places # {}
  BY <1>3
<1>5. PICK place \in places : \A x \in places : place <= x
  BY <1>4, LeastNumber
<1>6. PICK last \in D : t[last] = age /\ place = n - last
  BY <1>5
<1>7. ASSUME NEW k \in D, k # last  PROVE Precedes(t, k, last)
  <2>1. t[k] \in ages /\ t[k] \in Nat /\ age \in Nat /\ k \in Int /\ last \in Int
    BY <1>1
  <2>2. age <= t[k]
    BY <1>2, <2>1
  <2>3. CASE t[k] = age
    <3>1. n - k \in places
      BY <2>3
    <3>2. n - last <= n - k
      BY <1>5, <1>6, <3>1
    <3>3. k < last
      BY <1>7, <2>1, <3>2
    <3> QED
      BY <1>6, <2>3, <3>3 DEF Precedes
  <2>4. CASE t[k] # age
    BY <1>6, <2>1, <2>2, <2>4 DEF Precedes
  <2> QED
    BY <2>3, <2>4
<1> QED
  BY <1>7

\* A set of lots which, with one of them, has all that are ahead of it.
Leading(t, n, D) ==
    D \in SUBSET (1..n) /\ \A k \in D : \A i \in 1..n : Precedes(t, i, k) => i \in D

\* What the lots give, each as much as those ahead of it leave to be asked for.
Shares(g, t, w, n, size) ==
    \A k \in 1..n : g[k] = PartOf(w[k], size - Total(AheadOf(t, w, n, k), n))

\* One lot more.
LEMMA WithinGrows ==
    ASSUME NEW n \in Nat, NEW f, \A k \in 1..n : f[k] \in Nat,
           NEW D \in SUBSET (1..n), NEW last \in D
    PROVE  /\ Total(Within(f, D \ {last}, n), n) \in Int
           /\ Total(Within(f, D, n), n) = Total(Within(f, D \ {last}, n), n) + f[last]
<1> DEFINE before == Within(f, D \ {last}, n)
           after == Within(f, D, n)
<1>1. /\ last \in 1..n
      /\ \A k \in 1..n : before[k] \in Int /\ (k # last => after[k] = before[k])
      /\ after[last] = f[last] /\ after[last] \in Int /\ before[last] = 0
  BY DEF Within
<1> HIDE DEF before, after
<1>2. Total(before, n) \in Int
  BY <1>1, TotalIsInt
<1>3. Total(after, n) = Total(before, n) - before[last] + after[last]
  BY <1>1, TotalChange
<1>4. Total(after, n) = Total(before, n) + f[last]
  BY <1>1, <1>2, <1>3
<1> QED
  BY <1>2, <1>4 DEF before, after

LEMMA PartsAdd ==
    ASSUME NEW size \in Nat, NEW has \in Nat, NEW one \in Nat
    PROVE  (IF size <= has THEN size ELSE has) + PartOf(one, size - has) =
              IF size <= has + one THEN size ELSE has + one
  BY DEF PartOf

\* Together the lots give what is asked for, if they have it.
LEMMA LotsGiveAll ==
    ASSUME NEW n \in Nat, NEW w, NEW t, NEW g, NEW size \in Nat,
           \A k \in 1..n : w[k] \in Nat /\ t[k] \in Nat /\ g[k] \in Nat,
           Shares(g, t, w, n, size)
    PROVE  \A D : Leading(t, n, D) =>
              /\ Total(Within(w, D, n), n) \in Nat
              /\ Total(Within(g, D, n), n) =
                    IF size <= Total(Within(w, D, n), n) THEN size ELSE Total(Within(w, D, n), n)
<1> DEFINE has(D) == Total(Within(w, D, n), n)
           gives(D) == Total(Within(g, D, n), n)
           Holds(D) == has(D) \in Nat /\ gives(D) = IF size <= has(D) THEN size ELSE has(D)
           S == {m \in Nat : \A D : Leading(t, n, D) /\ Cardinality(D) = m => Holds(D)}
<1>1. ASSUME NEW D \in SUBSET (1..n)
      PROVE  /\ IsFiniteSet(D) /\ Cardinality(D) \in Nat
             /\ Cardinality(D) = 0 => D = {}
             /\ \A k \in D : D \ {k} \in SUBSET (1..n) /\ Cardinality(D \ {k}) = Cardinality(D) - 1
  <2>1. IsFiniteSet(1..n)
    BY FS_Interval
  <2>2. IsFiniteSet(D)
    BY <2>1, FS_Subset
  <2> QED
    BY <2>2, FS_CardinalityType, FS_EmptySet, FS_RemoveElement
<1>2. ASSUME NEW D  PROVE has(D) \in Nat
  <2>1. \A k \in 1..n : Within(w, D, n)[k] \in Nat
    BY DEF Within
  <2> QED
    BY <2>1, TotalNotNegative
<1>3. \A k \in 1..n : AheadOf(t, w, n, k) = Within(w, {i \in 1..n : Precedes(t, i, k)}, n)
  BY DEF AheadOf, Within
<1>4. \A k \in 1..n : g[k] \in Nat
  OBVIOUS
<1>5. 0 \in S
  <2> SUFFICES ASSUME NEW D, Leading(t, n, D), Cardinality(D) = 0  PROVE Holds(D)
    OBVIOUS
  <2>1. D = {}
    BY <1>1 DEF Leading
  <2>2. \A k \in 1..n : Within(w, D, n)[k] = 0 /\ Within(g, D, n)[k] = 0
    BY <2>1 DEF Within
  <2>3. has(D) = 0 /\ gives(D) = 0
    BY <2>2, TotalOfZeroes
  <2> QED
    BY <2>3
<1>6. ASSUME NEW m \in S  PROVE m + 1 \in S
  <2> SUFFICES ASSUME NEW D, Leading(t, n, D), Cardinality(D) = m + 1  PROVE Holds(D)
    OBVIOUS
  <2>1. D \in SUBSET (1..n) /\ D # {}
    <3>1. D \in SUBSET (1..n)
      BY DEF Leading
    <3>2. m + 1 # 0
      OBVIOUS
    <3> QED
      BY <3>1, <3>2, FS_EmptySet
  <2>2. PICK last \in D : \A k \in D : k # last => Precedes(t, k, last)
    BY <2>1, LastInOrder
  <2> DEFINE E == D \ {last}
  <2>3. last \in 1..n /\ t[last] \in Nat /\ w[last] \in Nat
    BY <2>1
  <2>4. \A k \in D : k \in 1..n /\ t[k] \in Nat
    BY <2>1
  <2>5. ~ Precedes(t, last, last)
    BY <2>3 DEF Precedes
  <2>6. \A k \in E : ~ Precedes(t, last, k)
    <3> TAKE k \in E
    <3>1. k \in D /\ k # last /\ k \in Int /\ last \in Int /\ t[k] \in Nat
      BY <2>1, <2>3, <2>4
    <3>2. Precedes(t, k, last)
      BY <2>2, <3>1
    <3> QED
      BY <2>3, <3>1, <3>2 DEF Precedes
  <2>7. Leading(t, n, E)
    BY <2>1, <2>6 DEF Leading
  <2>8. Cardinality(E) = m
    <3>1. Cardinality(E) = Cardinality(D) - 1
      BY <1>1, <2>1
    <3> QED
      BY <3>1
  <2>9. Holds(E)
    BY <2>7, <2>8
  <2>10. {i \in 1..n : Precedes(t, i, last)} = E
    BY <2>1, <2>2, <2>3, <2>5 DEF Leading
  <2>11. g[last] = PartOf(w[last], size - has(E))
    BY <1>3, <2>3, <2>10, Zenon DEF Shares
  <2>12. g[last] \in Nat
    BY <1>4, <2>3
  <2>13. has(D) = has(E) + w[last]
    BY <2>1, WithinGrows, Zenon
  <2>14. gives(D) = gives(E) + g[last]
    BY <2>1, WithinGrows, Zenon
  <2> HIDE DEF has, gives, E
  <2>15. has(E) \in Nat /\ gives(E) = IF size <= has(E) THEN size ELSE has(E)
    BY <2>9
  <2>16. gives(D) = IF size <= has(D) THEN size ELSE has(D)
    <3>1. (IF size <= has(E) THEN size ELSE has(E)) + PartOf(w[last], size - has(E)) =
             IF size <= has(E) + w[last] THEN size ELSE has(E) + w[last]
      BY <2>3, <2>15, PartsAdd
    <3> QED
      BY <2>11, <2>13, <2>14, <2>15, <3>1, Zenon
  <2>17. has(D) \in Nat
    BY <2>3, <2>13, <2>15
  <2> QED
    BY <2>16, <2>17
<1> HIDE DEF S
<1>7. S = Nat
  BY <1>5, <1>6, ByInduction DEF S
<1>8. ASSUME NEW D, Leading(t, n, D)  PROVE Holds(D)
  <2>1. Cardinality(D) \in S
    BY <1>1, <1>7, <1>8 DEF Leading
  <2> QED
    BY <1>8, <2>1 DEF S
<1> QED
  BY <1>8

\* Together they give what is asked for, for they have it.
LEMMA LotsCoverSale ==
    ASSUME NEW n \in Nat, NEW w, NEW t, NEW g, NEW size \in Nat,
           \A k \in 1..n : w[k] \in Nat /\ t[k] \in Nat /\ g[k] \in Nat,
           Shares(g, t, w, n, size),
           size <= Total(w, n)
    PROVE  Total(g, n) = size
<1>1. Leading(t, n, 1..n)
  BY DEF Leading
<1>2. \A k \in 1..n : Within(w, 1..n, n)[k] = w[k] /\ Within(g, 1..n, n)[k] = g[k]
  BY DEF Within
<1>3. Total(Within(w, 1..n, n), n) = Total(w, n)
  BY <1>2, TotalSame
<1>4. Total(Within(g, 1..n, n), n) = Total(g, n)
  BY <1>2, TotalSame
<1>5. Total(Within(g, 1..n, n), n) =
        IF size <= Total(Within(w, 1..n, n), n) THEN size ELSE Total(Within(w, 1..n, n), n)
  <2>1. \A D : Leading(t, n, D) => Total(Within(g, D, n), n) =
                   IF size <= Total(Within(w, D, n), n) THEN size ELSE Total(Within(w, D, n), n)
    BY LotsGiveAll
  <2> QED
    BY <1>1, <2>1, Zenon
<1> QED
  BY <1>3, <1>4, <1>5, Zenon

Counted(n, w, t, g) == \A k \in 1..n : w[k] \in Nat /\ t[k] \in Nat /\ g[k] \in Nat

\* A lot that gives something leaves nothing in those ahead of it.
LEMMA OthersGiveAll ==
    ASSUME NEW n \in Nat, NEW w, NEW t, NEW g, NEW size \in Nat,
           Counted(n, w, t, g),
           Shares(g, t, w, n, size),
           NEW i \in 1..n, NEW k \in 1..n, Precedes(t, i, k), g[k] # 0
    PROVE  g[i] = w[i]
<1>0. \A j \in 1..n : w[j] \in Nat /\ t[j] \in Nat /\ g[j] \in Nat
  BY Zenon DEF Counted
<1> DEFINE f == AheadOf(t, w, n, i)
           h == [j \in 1..n |-> IF j = i THEN w[i] ELSE AheadOf(t, w, n, i)[j]]
           l == AheadOf(t, w, n, k)
<1>1. /\ \A j \in 1..n : f[j] \in Nat /\ l[j] \in Nat /\ h[j] \in Nat
      /\ f[i] = 0 /\ h[i] = w[i] /\ \A j \in 1..n : j # i => h[j] = f[j]
      /\ w[i] \in Nat /\ w[k] \in Nat
  BY <1>0 DEF AheadOf, Precedes
<1>2. ASSUME NEW j \in 1..n  PROVE h[j] <= l[j]
  <2>1. t[i] \in Nat /\ t[j] \in Nat /\ t[k] \in Nat
    BY <1>0
  <2>2. CASE j = i
    <3>1. l[j] = w[j]
      BY <2>2 DEF AheadOf
    <3> QED
      BY <1>1, <2>2, <3>1
  <2>3. CASE j # i /\ Precedes(t, j, i)
    <3>1. Precedes(t, j, k)
      BY <2>1, <2>3 DEF Precedes
    <3>2. l[j] = w[j] /\ f[j] = w[j]
      BY <2>3, <3>1 DEF AheadOf
    <3> QED
      BY <1>1, <2>3, <3>2
  <2>4. CASE j # i /\ ~ Precedes(t, j, i)
    <3>1. f[j] = 0
      BY <2>4 DEF AheadOf
    <3> QED
      BY <1>1, <2>4, <3>1
  <2> QED
    BY <2>2, <2>3, <2>4
<1> HIDE DEF f, h, l
<1>3. Total(h, n) = Total(f, n) - f[i] + h[i] /\ Total(f, n) \in Nat
  <2>1. /\ \A j \in 1..n : f[j] \in Int
        /\ h[i] \in Int /\ \A j \in 1..n : j # i => h[j] = f[j]
    BY <1>1
  <2>2. Total(h, n) = Total(f, n) - f[i] + h[i]
    BY <2>1, TotalChange
  <2> QED
    BY <1>1, <2>2, TotalNotNegative
<1>4. Total(h, n) <= Total(l, n) /\ Total(l, n) \in Int
  <2>1. \A j \in 1..n : h[j] \in Int /\ l[j] \in Int /\ h[j] <= l[j]
    <3> TAKE j \in 1..n
    <3>1. h[j] \in Nat /\ l[j] \in Nat
      BY <1>1
    <3>2. h[j] <= l[j]
      BY <1>2
    <3> QED
      BY <3>1, <3>2
  <2> QED
    BY <2>1, TotalGrows
<1>5. g[k] = PartOf(w[k], size - Total(l, n)) /\ g[i] = PartOf(w[i], size - Total(f, n))
  BY Zenon DEF l, f, Shares
<1>6. size - Total(l, n) > 0
  BY <1>1, <1>4, <1>5 DEF PartOf
<1> QED
  BY <1>1, <1>3, <1>4, <1>5, <1>6 DEF PartOf

LotRecord == [price : Nat, size : Nat, time : Nat]
CostsOf(l, w) == [k \in 1..Len(l) |-> w[k] * l[k].price]
OpenCost == Total(CostsOf(lots, left), Len(lots))

BasisTypes ==
    /\ method \in {"fifo", "lifo", "average"}
    /\ lots \in Seq(LotRecord) /\ left \in Seq(Nat) /\ Len(left) = Len(lots)
    /\ unit \in Nat /\ unit >= 1 /\ flow \in Int
    /\ realized \in [num : Int, den : Nat] /\ realized.den >= 1
    /\ method # "average" => unit = 1 /\ realized.den = 1

BasisCash == realized.num * unit = (flow * unit + OpenCost) * realized.den

BasisOldest ==
    method = "fifo" => \A i, k \in 1..Len(lots) : i < k /\ left[k] < lots[k].size => left[i] = 0

BasisInv == BasisTypes /\ BasisCash /\ BasisOldest

LEMMA BiggerPart ==
    ASSUME NEW x \in Nat, NEW y \in Int
    PROVE  Basis!Max({0, Basis!Min({x, y})}) = PartOf(x, y)
<1> DEFINE m == IF x <= y THEN x ELSE y
           P(z) == \A v \in {x, y} : z <= v
           b == IF m <= 0 THEN 0 ELSE m
           Q(z) == \A v \in {0, m} : z >= v
<1>1. m \in {x, y} /\ P(m) /\ \A z \in {x, y} : P(z) => z = m
  OBVIOUS
<1>2. Basis!Min({x, y}) = CHOOSE z \in {x, y} : P(z)
  BY DEF Basis!Min
<1>3. b \in {0, m} /\ Q(b) /\ \A z \in {0, m} : Q(z) => z = b
  OBVIOUS
<1>4. Basis!Max({0, m}) = CHOOSE z \in {0, m} : Q(z)
  BY DEF Basis!Max
<1>5. b = PartOf(x, y)
  BY DEF PartOf
<1> HIDE DEF m, P, b, Q
<1>6. Basis!Min({x, y}) = m
  BY <1>1, <1>2
<1>7. Basis!Max({0, m}) = b
  BY <1>3, <1>4
<1> QED
  BY <1>5, <1>6, <1>7

\* What the types say of one lot.
LEMMA BasisLots ==
    ASSUME BasisTypes
    PROVE  /\ Len(lots) \in Nat /\ DOMAIN lots = 1..Len(lots) /\ Len(left) = Len(lots)
           /\ \A k \in 1..Len(lots) : /\ left[k] \in Nat /\ lots[k].price \in Nat
                                      /\ lots[k].size \in Nat /\ lots[k].time \in Nat
           /\ OpenCost \in Nat /\ Total(left, Len(lots)) \in Nat
           /\ \A k \in 1..Len(lots) : CostsOf(lots, left)[k] = left[k] * lots[k].price
<1>1. lots \in Seq(LotRecord) /\ left \in Seq(Nat) /\ Len(left) = Len(lots)
  BY DEF BasisTypes
<1>2. Len(lots) \in Nat /\ DOMAIN lots = 1..Len(lots)
  BY <1>1
<1>3. \A k \in 1..Len(lots) : left[k] \in Nat /\ lots[k] \in LotRecord
  BY <1>1
<1>4. \A r \in LotRecord : r.price \in Nat /\ r.size \in Nat /\ r.time \in Nat
  BY DEF LotRecord
<1>5. \A k \in 1..Len(lots) : CostsOf(lots, left)[k] = left[k] * lots[k].price
  BY DEF CostsOf
<1>6. \A x, y \in Nat : x * y \in Nat
  OBVIOUS
<1>7. \A k \in 1..Len(lots) : CostsOf(lots, left)[k] \in Nat
  BY <1>3, <1>4, <1>5, <1>6
<1>8. OpenCost \in Nat
  BY <1>2, <1>7, TotalNotNegative DEF OpenCost
<1>9. Total(left, Len(lots)) \in Nat
  BY <1>2, <1>3, TotalNotNegative
<1> QED
  BY <1>1, <1>2, <1>3, <1>4, <1>5, <1>8, <1>9

LEMMA BasisTotals ==
    ASSUME BasisTypes
    PROVE  Basis!TotalSize = Total(left, Len(lots)) /\ Basis!TotalCost = OpenCost
<1>1. DOMAIN lots = 1..Len(lots)
  BY BasisLots
<1>2. Basis!TotalSize = Total(left, Len(lots))
  BY BasisLibrary, Zenon DEF Basis!TotalSize
<1>3. Basis!TotalCost = OpenCost
  BY <1>1, BasisLibrary, Zenon DEF Basis!TotalCost, OpenCost, CostsOf
<1> QED
  BY <1>2, <1>3

\* How old a lot is in the order of a sale.
Ages == [k \in 1..Len(lots) |-> IF method = "fifo" THEN 0 ELSE lots[k].time]
Gifts(size) == [k \in 1..Len(lots) |-> Basis!Given(size, k)]

\* What the lots give to a sale.
LEMMA GivenIs ==
    ASSUME BasisTypes, NEW size \in Nat
    PROVE  /\ \A k \in 1..Len(lots) : /\ left[k] \in Nat /\ Ages[k] \in Nat
                                      /\ Gifts(size)[k] \in Nat /\ Gifts(size)[k] <= left[k]
                                      /\ Gifts(size)[k] = Basis!Given(size, k)
           /\ Shares(Gifts(size), Ages, left, Len(lots), size)
<1> DEFINE n == Len(lots)
<1>1. n \in Nat /\ DOMAIN lots = 1..n /\ \A k \in 1..n : left[k] \in Nat /\ lots[k].time \in Nat
  BY BasisLots
<1>2. \A k \in 1..n : Ages[k] \in Nat /\ Ages[k] = IF method = "fifo" THEN 0 ELSE lots[k].time
  BY <1>1 DEF Ages
<1>3. \A k \in 1..n : Gifts(size)[k] = Basis!Given(size, k)
  BY DEF Gifts
<1>4. ASSUME NEW i \in 1..n, NEW k \in 1..n
      PROVE  Basis!Before(i, k) <=> Precedes(Ages, i, k)
  <2>1. CASE method = "fifo"
    <3>1. Ages[i] = 0 /\ Ages[k] = 0
      BY <1>2, <2>1
    <3> QED
      BY <2>1, <3>1 DEF Basis!Before, Precedes
  <2>2. CASE method # "fifo"
    <3>1. Ages[i] = lots[i].time /\ Ages[k] = lots[k].time
      BY <1>2, <2>2
    <3> QED
      BY <2>2, <3>1, Zenon DEF Basis!Before, Precedes
  <2> QED
    BY <2>1, <2>2
<1>5. ASSUME NEW k \in 1..n
      PROVE  /\ Basis!Given(size, k) = PartOf(left[k], size - Total(AheadOf(Ages, left, n, k), n))
             /\ Basis!Given(size, k) \in Nat /\ Basis!Given(size, k) <= left[k]
  <2> DEFINE ahead == [i \in DOMAIN lots |-> IF Basis!Before(i, k) THEN left[i] ELSE 0]
             room == size - Total(AheadOf(Ages, left, n, k), n)
  <2>1. ahead = AheadOf(Ages, left, n, k)
    <3>1. \A i \in 1..n : (IF Basis!Before(i, k) THEN left[i] ELSE 0)
                           = (IF Precedes(Ages, i, k) THEN left[i] ELSE 0)
      BY <1>4, Zenon
    <3> HIDE DEF n
    <3> QED
      BY <1>1, <3>1 DEF AheadOf
  <2>2. Basis!Given(size, k) = Basis!Max({0, Basis!Min({left[k], size - Basis!Total(ahead, Len(lots))})})
    BY Zenon DEF Basis!Given
  <2>3. Basis!Given(size, k) = Basis!Max({0, Basis!Min({left[k], room})})
    BY <2>1, <2>2, BasisLibrary, Zenon
  <2>4. Total(AheadOf(Ages, left, n, k), n) \in Nat
    <3>1. \A i \in 1..n : AheadOf(Ages, left, n, k)[i] \in Nat
      BY <1>1 DEF AheadOf
    <3> HIDE DEF n
    <3> QED
      BY <1>1, <3>1, TotalNotNegative
  <2>5. room \in Int /\ left[k] \in Nat
    BY <1>1, <2>4
  <2> HIDE DEF ahead, room
  <2>6. Basis!Given(size, k) = PartOf(left[k], room)
    BY <2>3, <2>5, BiggerPart, Zenon
  <2>7. Basis!Given(size, k) \in Nat /\ Basis!Given(size, k) <= left[k]
    BY <2>5, <2>6, PartIs
  <2> QED
    BY <2>6, <2>7, Zenon DEF room
<1>6. Shares(Gifts(size), Ages, left, n, size)
  BY <1>3, <1>5, Zenon DEF Shares
<1> QED
  BY <1>1, <1>2, <1>3, <1>5, <1>6, Zenon

\* A sale that takes g from what the lots have, w, at the prices p: what the lots
\* cost before and after it, and what it gains.
SaleOf(n, w, p, g, price, c, d, gain) ==
    \A k \in 1..n : /\ w[k] \in Nat /\ p[k] \in Nat /\ g[k] \in Nat
                    /\ c[k] = w[k] * p[k] /\ d[k] = (w[k] - g[k]) * p[k]
                    /\ gain[k] = (price - p[k]) * g[k]
SaleAddsUp(n, g, price, c, d, gain) ==
    /\ Total(c, n) \in Int /\ Total(gain, n) \in Int /\ Total(g, n) \in Int
    /\ Total(d, n) = Total(c, n) + Total(gain, n) - price * Total(g, n)

LEMMA CostOfSale ==
    ASSUME NEW n \in Nat, NEW w, NEW p, NEW g, NEW price \in Nat,
           NEW c, NEW d, NEW gain, SaleOf(n, w, p, g, price, c, d, gain)
    PROVE  SaleAddsUp(n, g, price, c, d, gain)
<1>0. \A k \in 1..n : /\ w[k] \in Nat /\ p[k] \in Nat /\ g[k] \in Nat
                      /\ c[k] = w[k] * p[k] /\ d[k] = (w[k] - g[k]) * p[k]
                      /\ gain[k] = (price - p[k]) * g[k]
  BY Zenon DEF SaleOf
<1> DEFINE Adds(k) == /\ Total(c, k) \in Int /\ Total(gain, k) \in Int /\ Total(g, k) \in Int
                      /\ Total(d, k) = Total(c, k) + Total(gain, k) - price * Total(g, k)
           S == {k \in Nat : k <= n => Adds(k)}
<1>1. \A x, y, z \in Nat : /\ x * y \in Int /\ (price - y) * z \in Int
                           /\ (x - z) * y = x * y + (price - y) * z - price * z
  OBVIOUS
<1>2. \A k \in 1..n : /\ c[k] \in Int /\ gain[k] \in Int /\ g[k] \in Int
                      /\ d[k] = c[k] + gain[k] - price * g[k]
  BY <1>0, <1>1
<1>3. \A x, y \in Int : price * (x + y) = price * x + price * y /\ price * x \in Int
  OBVIOUS
<1>4. 0 \in S
  <2>1. price * 0 = 0
    OBVIOUS
  <2> QED
    BY <2>1, TotalUnfolds
<1>5. ASSUME NEW k \in S  PROVE k + 1 \in S
  <2> SUFFICES ASSUME k + 1 <= n  PROVE Adds(k + 1)
    OBVIOUS
  <2>1. /\ k \in Nat /\ k + 1 \in 1..n
        /\ Total(c, k) \in Int /\ Total(gain, k) \in Int /\ Total(g, k) \in Int
        /\ Total(d, k) = Total(c, k) + Total(gain, k) - price * Total(g, k)
    OBVIOUS
  <2>2. /\ Total(c, k + 1) = Total(c, k) + c[k + 1] /\ Total(d, k + 1) = Total(d, k) + d[k + 1]
        /\ Total(gain, k + 1) = Total(gain, k) + gain[k + 1] /\ Total(g, k + 1) = Total(g, k) + g[k + 1]
    BY <2>1, TotalUnfolds
  <2>3. /\ c[k + 1] \in Int /\ gain[k + 1] \in Int /\ g[k + 1] \in Int
        /\ d[k + 1] = c[k + 1] + gain[k + 1] - price * g[k + 1]
    BY <1>2, <2>1
  <2>4. /\ price * Total(g, k + 1) = price * Total(g, k) + price * g[k + 1]
        /\ price * Total(g, k) \in Int /\ price * g[k + 1] \in Int
    BY <1>3, <2>1, <2>2, <2>3
  <2> QED
    BY <2>1, <2>2, <2>3, <2>4
<1> HIDE DEF S
<1>6. S = Nat
  BY <1>4, <1>5, ByInduction DEF S
<1> QED
  BY <1>6 DEF S, SaleAddsUp

LEMMA BasisInit == Init => BasisInv
<1> SUFFICES ASSUME Basis!Init  PROVE BasisInv
  BY DEF Init
<1>1. /\ method \in {"fifo", "lifo", "average"} /\ lots = << >> /\ left = << >> /\ unit = 1
      /\ realized = [num |-> 0, den |-> 1] /\ flow = 0
  BY DEF Basis!Init
<1>2. BasisTypes
  BY <1>1 DEF BasisTypes
<1>3. OpenCost = 0
  <2>1. Len(lots) = 0
    BY <1>1
  <2> QED
    BY <2>1, TotalUnfolds, Zenon DEF OpenCost
<1>4. BasisCash
  BY <1>1, <1>3 DEF BasisCash
<1>5. BasisOldest
  BY <1>1 DEF BasisOldest
<1> QED
  BY <1>2, <1>4, <1>5 DEF BasisInv

\* A purchase opens a lot.
LEMMA BasisBuys ==
    ASSUME BasisInv, NEW price \in LotPrice, NEW size \in 1..MaxSize, Basis!AddBuy(price, size),
           UNCHANGED method
    PROVE  BasisInv'
<1> DEFINE n == Len(lots)
<1>1. BasisTypes /\ BasisCash /\ BasisOldest /\ price \in Nat /\ size \in Nat
  BY BasisConstants DEF BasisInv
<1>2. /\ n \in Nat /\ Len(left) = n
      /\ \A k \in 1..n : left[k] \in Nat /\ lots[k].price \in Nat /\ lots[k].time \in Nat
      /\ OpenCost \in Nat /\ \A k \in 1..n : CostsOf(lots, left)[k] = left[k] * lots[k].price
  BY <1>1, BasisLots
<1>3. PICK pause \in {0, 1} :
        lots' = Append(lots, [price |-> price, size |-> size,
                              time |-> pause + (IF lots = << >> THEN 0 ELSE lots[n].time)])
  BY DEF Basis!AddBuy
<1>4. /\ left' = Append(left, size * unit) /\ flow' = flow - price * size
      /\ unit' = unit /\ realized' = realized /\ method' = method
  BY DEF Basis!AddBuy
<1> DEFINE time == pause + (IF lots = << >> THEN 0 ELSE lots[n].time)
           lot == [price |-> price, size |-> size, time |-> time]
<1>5. time \in Nat
  <2>1. CASE lots = << >>
    BY <2>1
  <2>2. CASE lots # << >>
    <3>1. n \in 1..n
      BY <1>1, <2>2 DEF BasisTypes
    <3>2. lots[n].time \in Nat
      BY <1>2, <3>1
    <3> QED
      BY <2>2, <3>2
  <2> QED
    BY <2>1, <2>2
<1>6. lots \in Seq(LotRecord) /\ left \in Seq(Nat) /\ unit \in Nat /\ unit >= 1 /\ flow \in Int
  BY <1>1 DEF BasisTypes
<1> HIDE DEF time
<1>7. lot \in LotRecord /\ lot.price = price /\ lot.size = size
  BY <1>1, <1>5 DEF LotRecord
<1>8. lots' = Append(lots, lot)
  BY <1>3 DEF time
<1> HIDE DEF lot
<1>9. size * unit \in Nat
  BY <1>1, <1>6
<1>10. /\ lots' \in Seq(LotRecord) /\ Len(lots') = n + 1 /\ lots'[n + 1] = lot
       /\ \A k \in 1..n : lots'[k] = lots[k]
  BY <1>6, <1>7, <1>8
<1>11. /\ left' \in Seq(Nat) /\ Len(left') = n + 1 /\ left'[n + 1] = size * unit
       /\ \A k \in 1..n : left'[k] = left[k]
  <2> DEFINE given == size * unit
  <2>1. given \in Nat /\ left' = Append(left, given)
    BY <1>4, <1>9
  <2> HIDE DEF given
  <2>2. /\ left' \in Seq(Nat) /\ Len(left') = n + 1 /\ left'[n + 1] = given
        /\ \A k \in 1..n : left'[k] = left[k]
    BY <1>2, <1>6, <2>1
  <2> QED
    BY <2>2 DEF given
<1>12. BasisTypes'
  <2>1. flow' \in Int
    <3>1. price * size \in Int
      BY <1>1
    <3> QED
      BY <1>4, <1>6, <3>1
  <2>2. Len(left') = Len(lots')
    BY <1>10, <1>11
  <2> QED
    BY <1>1, <1>4, <1>10, <1>11, <2>1, <2>2 DEF BasisTypes
<1>13. OpenCost' = OpenCost + (size * unit) * price
  <2> DEFINE g == CostsOf(lots, left)'
             h == CostsOf(lots, left)
  <2>1. g = [k \in 1..(n + 1) |-> left'[k] * lots'[k].price]
    BY <1>10 DEF CostsOf
  <2>2. /\ n + 1 \in 1..(n + 1) /\ \A k \in 1..n : k \in 1..(n + 1)
    BY <1>2
  <2>3. \A k \in 1..n : g[k] = h[k]
    <3>1. \A k \in 1..n : g[k] = left'[k] * lots'[k].price
      BY <2>1, <2>2
    <3> HIDE DEF n, g
    <3> QED
      BY <1>2, <1>10, <1>11, <3>1, Zenon
  <2>4. g[n + 1] = (size * unit) * price
    <3>1. g[n + 1] = left'[n + 1] * lots'[n + 1].price
      BY <2>1, <2>2
    <3> HIDE DEF n, g
    <3> QED
      BY <1>7, <1>10, <1>11, <3>1, Zenon
  <2> HIDE DEF g, h
  <2>5. Total(g, n + 1) = Total(h, n) + g[n + 1]
    BY <1>2, <2>3, OneMoreSummed
  <2>6. OpenCost' = Total(g, n + 1) /\ OpenCost = Total(h, n)
    BY <1>10, Zenon DEF OpenCost, g, h
  <2> QED
    BY <2>4, <2>5, <2>6, Zenon
<1>14. BasisCash'
  <2> DEFINE num == realized.num
             den == realized.den
             cost == OpenCost
  <2>1. num \in Int /\ den \in Int
    BY <1>1 DEF BasisTypes
  <2>2. num * unit = (flow * unit + cost) * den
    BY <1>1 DEF BasisCash
  <2>3. \A u, f, c, p, s \in Int : (f - p * s) * u + (c + (s * u) * p) = f * u + c
    OBVIOUS
  <2>4. unit \in Int /\ flow \in Int /\ cost \in Int /\ price \in Int /\ size \in Int
    BY <1>1, <1>2, <1>6
  <2> HIDE DEF num, den, cost
  <2>5. (flow - price * size) * unit + (cost + (size * unit) * price) = flow * unit + cost
    BY <2>3, <2>4
  <2>6. num * unit = ((flow - price * size) * unit + (cost + (size * unit) * price)) * den
    BY <2>2, <2>5, Zenon
  <2>7. OpenCost' = cost + (size * unit) * price /\ realized'.num = num /\ realized'.den = den
    BY <1>4, <1>13, Zenon DEF cost, num, den
  <2> QED
    BY <1>4, <2>6, <2>7, Zenon DEF BasisCash
<1>15. BasisOldest'
  <2> SUFFICES ASSUME method = "fifo", NEW i \in 1..(n + 1), NEW k \in 1..(n + 1), i < k,
                      left'[k] < lots'[k].size
               PROVE  left'[i] = 0
    BY <1>4, <1>10 DEF BasisOldest
  <2>1. i \in 1..n
    BY <1>2
  <2>2. unit = 1
    BY <1>1 DEF BasisTypes
  <2>3. k \in 1..n
    <3>1. k # n + 1
      <4>1. left'[n + 1] = size /\ lots'[n + 1].size = size
        BY <1>1, <1>7, <1>10, <1>11, <2>2
      <4> QED
        BY <1>1, <4>1
    <3> QED
      BY <1>2, <3>1
  <2>4. left'[k] = left[k] /\ left'[i] = left[i] /\ lots'[k] = lots[k]
    BY <1>10, <1>11, <2>1, <2>3
  <2> QED
    BY <1>1, <2>1, <2>3, <2>4 DEF BasisOldest
<1> QED
  BY <1>12, <1>14, <1>15 DEF BasisInv

\* A sequence by its values.
LEMMA MadeSequence ==
    ASSUME NEW n \in Nat, NEW f, f = [k \in 1..n |-> f[k]], \A k \in 1..n : f[k] \in Nat
    PROVE  f \in Seq(Nat) /\ Len(f) = n
<1>1. f \in [1..n -> Nat]
  BY Zenon
<1> QED
  BY <1>1

\* A multiple of a sum.
LEMMA TotalScaled ==
    ASSUME NEW f, NEW h, NEW n \in Nat, NEW a \in Int,
           \A k \in 1..n : f[k] \in Int /\ h[k] = a * f[k]
    PROVE  Total(h, n) = a * Total(f, n)
<1> DEFINE S == {k \in Nat : k <= n => Total(f, k) \in Int /\ Total(h, k) = a * Total(f, k)}
<1>1. 0 \in S
  <2>1. a * 0 = 0
    OBVIOUS
  <2> QED
    BY <2>1, TotalUnfolds
<1>2. ASSUME NEW k \in S  PROVE k + 1 \in S
  <2> SUFFICES ASSUME k + 1 <= n
               PROVE  Total(f, k + 1) \in Int /\ Total(h, k + 1) = a * Total(f, k + 1)
    OBVIOUS
  <2>1. /\ k \in Nat /\ Total(f, k) \in Int /\ Total(h, k) = a * Total(f, k)
        /\ f[k + 1] \in Int /\ h[k + 1] = a * f[k + 1]
    OBVIOUS
  <2>2. /\ Total(h, k + 1) = Total(h, k) + h[k + 1] /\ Total(f, k + 1) = Total(f, k) + f[k + 1]
    BY <2>1, TotalUnfolds
  <2>3. \A x, y \in Int : a * (x + y) = a * x + a * y
    OBVIOUS
  <2> QED
    BY <2>1, <2>2, <2>3
<1> HIDE DEF S
<1>3. S = Nat
  BY <1>1, <1>2, ByInduction DEF S
<1> QED
  BY <1>3 DEF S

\* A sale under fifo and lifo.
LEMMA BasisMatches ==
    ASSUME BasisInv, NEW price \in LotPrice, NEW size \in 1..MaxSize, method # "average",
           size * unit <= Basis!TotalSize, Basis!SellMatched(price, size),
           flow' = flow + price * size, UNCHANGED <<lots, method>>
    PROVE  BasisInv'
<1> DEFINE n == Len(lots)
           g == Gifts(size)
           gain == [k \in 1..n |-> (price - lots[k].price) * Basis!Given(size, k)]
           p == [k \in 1..n |-> lots[k].price]
           c == CostsOf(lots, left)
           d == CostsOf(lots, left)'
<1>1. BasisTypes /\ BasisCash /\ BasisOldest /\ price \in Nat /\ size \in Nat
  BY BasisConstants DEF BasisInv
<1>2. /\ n \in Nat /\ DOMAIN lots = 1..n /\ Len(left) = n
      /\ \A k \in 1..n : left[k] \in Nat /\ lots[k].price \in Nat /\ lots[k].size \in Nat
      /\ OpenCost \in Nat
  BY <1>1, BasisLots
<1>3. /\ \A k \in 1..n : /\ Ages[k] \in Nat /\ g[k] \in Nat /\ g[k] <= left[k]
                         /\ g[k] = Basis!Given(size, k)
      /\ Shares(g, Ages, left, n, size)
  BY <1>1, GivenIs, Zenon
<1>4. /\ left' = [k \in 1..n |-> left[k] - Basis!Given(size, k)]
      /\ realized' = [realized EXCEPT !.num = realized.num + Basis!Total(gain, n)]
      /\ unit' = unit /\ lots' = lots /\ method' = method
  BY <1>2, Zenon DEF Basis!SellMatched
<1>5. unit = 1 /\ realized.den = 1 /\ realized.num \in Int /\ flow \in Int
      /\ realized = [num |-> realized.num, den |-> realized.den]
  BY <1>1 DEF BasisTypes
<1>6. size <= Total(left, n)
  BY <1>1, <1>5, BasisTotals
<1> HIDE DEF g, n
<1>7. \A k \in 1..n : left'[k] = left[k] - g[k] /\ left'[k] \in Nat
  BY <1>2, <1>3, <1>4
<1>8. left' \in Seq(Nat) /\ Len(left') = n
  <2> DEFINE f == left'
  <2>1. f = [k \in 1..n |-> f[k]]
    BY <1>4
  <2>2. \A k \in 1..n : f[k] \in Nat
    BY <1>7
  <2> HIDE DEF f
  <2>3. f \in Seq(Nat) /\ Len(f) = n
    BY <1>2, <2>1, <2>2, MadeSequence
  <2> QED
    BY <2>3 DEF f
<1>9. Total(g, n) = size
  BY <1>1, <1>2, <1>3, <1>6, LotsCoverSale
<1>10. /\ \A k \in 1..n : gain[k] = (price - p[k]) * g[k] /\ p[k] = lots[k].price
  BY <1>3
<1>11. /\ \A k \in 1..n : c[k] = left[k] * p[k] /\ d[k] = (left[k] - g[k]) * p[k]
  <2>1. lots' = lots /\ n = Len(lots)
    BY <1>4 DEF n
  <2>2. \A k \in 1..n : c[k] = left[k] * lots[k].price /\ d[k] = left'[k] * lots[k].price
    BY <2>1 DEF CostsOf
  <2> HIDE DEF c, d, p
  <2> QED
    BY <1>7, <1>10, <2>2, Zenon
<1> HIDE DEF gain, p, c, d
<1>12. /\ Total(c, n) \in Int /\ Total(gain, n) \in Int
       /\ Total(d, n) = Total(c, n) + Total(gain, n) - price * size
  <2>1. \A k \in 1..n : left[k] \in Nat /\ p[k] \in Nat /\ g[k] \in Nat
    BY <1>2, <1>3, <1>10
  <2>2. SaleOf(n, left, p, g, price, c, d, gain)
    BY <1>10, <1>11, <2>1, Zenon DEF SaleOf
  <2>3. SaleAddsUp(n, g, price, c, d, gain)
    BY <1>1, <1>2, <2>2, CostOfSale, Zenon
  <2>4. /\ Total(c, n) \in Int /\ Total(gain, n) \in Int /\ Total(g, n) \in Int
        /\ Total(d, n) = Total(c, n) + Total(gain, n) - price * Total(g, n)
    BY <2>3, Zenon DEF SaleAddsUp
  <2> QED
    BY <1>9, <2>4
<1>13. Basis!Total(gain, n) = Total(gain, n)
  BY BasisLibrary
<1>14. /\ realized'.num = realized.num + Total(gain, n) /\ realized'.den = 1
       /\ realized' \in [num : Int, den : Nat]
  <2> DEFINE x == realized.num + Total(gain, n)
  <2>1. x \in Int /\ realized' = [realized EXCEPT !.num = x]
    BY <1>4, <1>5, <1>12, <1>13
  <2> HIDE DEF x
  <2>2. realized' = [num |-> x, den |-> 1]
    BY <1>5, <2>1
  <2>3. realized'.num = x /\ realized'.den = 1
    <3>1. \A y : y = [num |-> x, den |-> 1] => y.num = x /\ y.den = 1
      OBVIOUS
    <3> QED
      BY <2>2, <3>1, Zenon
  <2>4. realized' \in [num : Int, den : Nat]
    <3>1. \A y, z : z \in Int /\ y = [num |-> z, den |-> 1] => y \in [num : Int, den : Nat]
      OBVIOUS
    <3> QED
      BY <2>1, <2>2, <3>1, Zenon
  <2> QED
    BY <2>3, <2>4 DEF x
<1>15. price * size \in Int
  BY <1>1
<1>16. BasisTypes'
  <2>1. flow' \in Int
    BY <1>5, <1>15
  <2>2. lots' \in Seq(LotRecord) /\ Len(left') = Len(lots')
    BY <1>1, <1>4, <1>8 DEF BasisTypes, n
  <2> QED
    BY <1>1, <1>4, <1>5, <1>8, <1>14, <2>1, <2>2 DEF BasisTypes
<1>17. BasisCash'
  <2>1. OpenCost = Total(c, n) /\ OpenCost' = Total(d, n)
    BY <1>4, Zenon DEF OpenCost, c, d, n
  <2>2. realized.num = flow + OpenCost
    BY <1>1, <1>2, <1>5 DEF BasisCash
  <2>3. realized'.num = flow' + OpenCost'
    BY <1>2, <1>5, <1>12, <1>14, <1>15, <2>1, <2>2
  <2>4. flow' \in Int /\ OpenCost' \in Int
    BY <1>5, <1>12, <1>15, <2>1
  <2> QED
    BY <1>4, <1>5, <1>14, <2>3, <2>4 DEF BasisCash
<1>18. BasisOldest'
  <2> SUFFICES ASSUME method = "fifo", NEW i \in 1..n, NEW k \in 1..n, i < k,
                      left'[k] < lots[k].size
               PROVE  left'[i] = 0
    BY <1>4 DEF BasisOldest, n
  <2>1. left'[i] = left[i] - g[i] /\ left'[k] = left[k] - g[k]
    BY <1>7
  <2>2. CASE g[k] # 0
    <3>1. Ages[i] = 0 /\ Ages[k] = 0
      BY DEF Ages, n
    <3>2. Precedes(Ages, i, k)
      BY <3>1 DEF Precedes
    <3>3. g[i] = left[i]
      <4>1. Counted(n, left, Ages, g)
        BY <1>2, <1>3 DEF Counted
      <4> QED
        BY <1>1, <1>2, <1>3, <2>2, <3>2, <4>1, OthersGiveAll
    <3> QED
      BY <1>2, <2>1, <3>3
  <2>3. CASE g[k] = 0
    <3>1. left[k] < lots[k].size
      BY <1>2, <2>1, <2>3
    <3>2. left[i] = 0
      BY <1>1, <3>1 DEF BasisOldest, n
    <3>3. g[i] \in Nat /\ g[i] <= left[i]
      BY <1>3
    <3> QED
      BY <2>1, <3>2, <3>3
  <2> QED
    BY <2>2, <2>3
<1> QED
  BY <1>16, <1>17, <1>18 DEF BasisInv

\* The profit of a sale at average cost, in numbers.
LEMMA AverageInNumbers ==
    ASSUME NEW N \in Int, NEW u \in Int, NEW F \in Int, NEW C \in Int, NEW D \in Int,
           NEW T \in Int, NEW p \in Int, NEW q \in Int, N * u = (F * u + C) * D
    PROVE  (N * T + ((p * T - C) * q) * D) * (u * T)
              = ((F + p * q) * (u * T) + (T - q * u) * C) * (D * T)
<1> DEFINE x == ((p * T - C) * q) * D
           y == F * u + C
<1>1. x \in Int /\ y \in Int /\ u * T \in Int /\ D * T \in Int /\ N * T \in Int
  OBVIOUS
<1>2. (N * T + x) * (u * T) = (N * u) * (T * T) + x * (u * T)
  BY <1>1
<1>3. (F + p * q) * (u * T) + (T - q * u) * C = y * T + (p * T - C) * (q * u)
  OBVIOUS
<1>4. (y * T + (p * T - C) * (q * u)) * (D * T) = (y * D) * (T * T) + x * (u * T)
  OBVIOUS
<1>5. N * u = y * D
  OBVIOUS
<1> HIDE DEF x, y
<1> QED
  BY <1>2, <1>3, <1>4, <1>5, Zenon DEF x

\* A sale at average cost.
LEMMA BasisAverages ==
    ASSUME BasisInv, NEW price \in LotPrice, NEW size \in 1..MaxSize, method = "average",
           size * unit <= Basis!TotalSize, Basis!SellAverage(price, size),
           flow' = flow + price * size, UNCHANGED <<lots, method>>
    PROVE  BasisInv'
<1> DEFINE n == Len(lots)
           T == Total(left, n)
           stays == T - size * unit
           c == CostsOf(lots, left)
           d == CostsOf(lots, left)'
<1>1. BasisTypes /\ BasisCash /\ BasisOldest /\ price \in Nat /\ size \in Nat /\ size >= 1
  BY BasisConstants DEF BasisInv
<1>2. /\ n \in Nat /\ DOMAIN lots = 1..n /\ Len(left) = n
      /\ \A k \in 1..n : left[k] \in Nat /\ lots[k].price \in Nat
      /\ OpenCost \in Nat /\ T \in Nat
      /\ \A k \in 1..n : c[k] = left[k] * lots[k].price
  BY <1>1, BasisLots
<1>3. Basis!TotalSize = T /\ Basis!TotalCost = OpenCost
  BY <1>1, BasisTotals
<1>4. /\ unit \in Nat /\ unit >= 1 /\ flow \in Int
      /\ realized.num \in Int /\ realized.den \in Nat /\ realized.den >= 1
  BY <1>1 DEF BasisTypes
<1>5. size * unit \in Nat /\ size * unit >= 1
  <2>1. \A x, y \in Nat : x >= 1 /\ y >= 1 => x * y \in Nat /\ x * y >= 1
    OBVIOUS
  <2> QED
    BY <1>1, <1>4, <2>1
<1>6. T >= 1 /\ stays \in Nat
  BY <1>2, <1>3, <1>5
<1>7. /\ left' = [k \in 1..n |-> left[k] * stays]
      /\ unit' = unit * T
      /\ realized' = [num |-> realized.num * T + (price * T - OpenCost) * size * realized.den,
                      den |-> realized.den * T]
      /\ lots' = lots /\ method' = method
  BY <1>2, <1>3, Zenon DEF Basis!SellAverage
<1> HIDE DEF n, T, stays
<1>8. \A x, y \in Nat : x * y \in Nat /\ (x >= 1 /\ y >= 1 => x * y >= 1)
  OBVIOUS
<1>9. \A k \in 1..n : left'[k] = left[k] * stays /\ left'[k] \in Nat
  BY <1>2, <1>6, <1>7, <1>8
<1>10. left' \in Seq(Nat) /\ Len(left') = n
  <2> DEFINE f == left'
  <2>1. f = [k \in 1..n |-> f[k]]
    BY <1>7
  <2>2. \A k \in 1..n : f[k] \in Nat
    BY <1>9
  <2> HIDE DEF f
  <2>3. f \in Seq(Nat) /\ Len(f) = n
    BY <1>2, <2>1, <2>2, MadeSequence
  <2> QED
    BY <2>3 DEF f
<1>11. unit' \in Nat /\ unit' >= 1 /\ realized.den * T \in Nat /\ realized.den * T >= 1
  BY <1>2, <1>4, <1>6, <1>7, <1>8
<1>12. realized.num * T + (price * T - OpenCost) * size * realized.den \in Int
  <2>1. \A x, y \in Int : x * y \in Int /\ x - y \in Int /\ x + y \in Int
    OBVIOUS
  <2>2. /\ realized.num \in Int /\ price \in Int /\ T \in Int /\ OpenCost \in Int /\ size \in Int
        /\ realized.den \in Int
    BY <1>1, <1>2, <1>4
  <2> QED
    BY <2>1, <2>2, Zenon
<1>13. /\ realized'.num = realized.num * T + ((price * T - OpenCost) * size) * realized.den
       /\ realized'.den = realized.den * T /\ realized' \in [num : Int, den : Nat]
  BY <1>7, <1>11, <1>12
<1>14. BasisTypes'
  <2>1. flow' \in Int
    <3>1. price * size \in Int
      BY <1>1
    <3> QED
      BY <1>4, <3>1
  <2>2. lots' \in Seq(LotRecord) /\ Len(left') = Len(lots')
    BY <1>1, <1>7, <1>10 DEF BasisTypes, n
  <2>3. realized'.den >= 1 /\ method' = "average"
    BY <1>7, <1>11, <1>13
  <2> QED
    BY <1>10, <1>11, <1>13, <2>1, <2>2, <2>3 DEF BasisTypes
<1>15. OpenCost' = stays * OpenCost
  <2>1. \A k \in 1..n : d[k] = left'[k] * lots[k].price
    BY <1>7 DEF CostsOf, n
  <2>2. \A x, y, z \in Nat : (x * z) * y = z * (x * y) /\ x * y \in Int
    OBVIOUS
  <2>3. \A k \in 1..n : c[k] \in Int /\ d[k] = stays * c[k]
    <3> HIDE DEF c, d
    <3> TAKE k \in 1..n
    <3>1. /\ left[k] \in Nat /\ lots[k].price \in Nat /\ c[k] = left[k] * lots[k].price
          /\ d[k] = (left[k] * stays) * lots[k].price
      BY <1>2, <1>9, <2>1, Zenon
    <3> QED
      BY <1>6, <2>2, <3>1
  <2> HIDE DEF c, d
  <2>4. Total(d, n) = stays * Total(c, n)
    <3>1. stays \in Int
      BY <1>6
    <3> QED
      BY <1>2, <2>3, <3>1, TotalScaled
  <2>5. OpenCost = Total(c, n) /\ OpenCost' = Total(d, n)
    BY <1>7, Zenon DEF OpenCost, c, d, n
  <2> QED
    BY <2>4, <2>5, Zenon
<1>16. BasisCash'
  <2> DEFINE num == realized.num
             den == realized.den
             cost == OpenCost
  <2>1. num * unit = (flow * unit + cost) * den
    BY <1>1 DEF BasisCash
  <2>2. /\ num \in Int /\ den \in Int /\ cost \in Int /\ unit \in Int /\ flow \in Int /\ T \in Int
        /\ price \in Int /\ size \in Int
    BY <1>1, <1>2, <1>4
  <2>3. /\ realized'.num = num * T + ((price * T - cost) * size) * den
        /\ realized'.den = den * T /\ OpenCost' = (T - size * unit) * cost
    BY <1>13, <1>15, Zenon DEF stays
  <2> HIDE DEF num, den, cost
  <2>4. (num * T + ((price * T - cost) * size) * den) * (unit * T)
           = ((flow + price * size) * (unit * T) + (T - size * unit) * cost) * (den * T)
    BY <2>1, <2>2, AverageInNumbers
  <2> QED
    BY <1>7, <2>3, <2>4, Zenon DEF BasisCash
<1>17. BasisOldest'
  BY <1>7 DEF BasisOldest
<1> QED
  BY <1>14, <1>16, <1>17 DEF BasisInv

LEMMA BasisNext == BasisInv /\ [Next]_vars => BasisInv'
<1> SUFFICES ASSUME BasisInv, [Next]_vars  PROVE BasisInv'
  OBVIOUS
<1>1. CASE UNCHANGED basisVars
  <2>1. OpenCost' = OpenCost
    BY <1>1 DEF OpenCost, CostsOf, basisVars
  <2> QED
    BY <1>1, <2>1 DEF BasisInv, BasisTypes, BasisCash, BasisOldest, basisVars
<1>2. CASE Basis!Next
  <2>1. method' = method
    BY <1>2, Zenon DEF Basis!Next
  <2>2. PICK price \in LotPrice, size \in 1..MaxSize :
          Basis!AddBuy(price, size) \/ Basis!AddSell(price, size)
    BY <1>2, Zenon DEF Basis!Next
  <2>3. CASE Basis!AddBuy(price, size)
    BY <2>1, <2>3, BasisBuys
  <2>4. CASE Basis!AddSell(price, size)
    <3>1. /\ size * unit <= Basis!TotalSize /\ flow' = flow + price * size /\ lots' = lots
          /\ method = "average" => Basis!SellAverage(price, size)
          /\ method # "average" => Basis!SellMatched(price, size)
      BY <2>4, Zenon DEF Basis!AddSell
    <3>2. CASE method = "average"
      BY <2>1, <3>1, <3>2, BasisAverages
    <3>3. CASE method # "average"
      BY <2>1, <3>1, <3>3, BasisMatches
    <3> QED
      BY <3>2, <3>3
  <2> QED
    BY <2>2, <2>3, <2>4
<1> QED
  BY <1>1, <1>2, BasisSteps

LEMMA BasisBooks == BasisInv => Basis!ProfitIsCashFlow /\ Basis!OldestFirst
<1> SUFFICES ASSUME BasisInv  PROVE Basis!ProfitIsCashFlow /\ Basis!OldestFirst
  OBVIOUS
<1>1. Basis!TotalCost = OpenCost /\ DOMAIN lots = 1..Len(lots)
  BY BasisTotals, BasisLots DEF BasisInv
<1>2. Basis!ProfitIsCashFlow
  BY <1>1, Zenon DEF Basis!ProfitIsCashFlow, BasisInv, BasisCash
<1>3. Basis!OldestFirst
  BY <1>1, Zenon DEF Basis!OldestFirst, BasisInv, BasisOldest
<1> QED
  BY <1>2, <1>3

(***************************************************************************)
(* The books of all four                                                   *)
(***************************************************************************)

BooksInv ==
    /\ PaperInv /\ PaperCovered
    /\ SimulatorKept
    /\ BasisInv
    /\ ExecutionInv /\ ExecutionLimits

LEMMA BooksInit ==
    ASSUME IsFiniteSet(HttpRequest), HttpRequest # {}, Init
    PROVE  BooksInv
<1>1. Paper!Init /\ Execution!Init
  BY Zenon DEF Init
<1>2. PaperInv /\ PaperCovered
  BY <1>1, PaperInit, Zenon
<1>3. SimulatorKept /\ BasisInv
  BY SimulatorInit, BasisInit, Zenon
<1>4. ExecutionInv /\ ExecutionLimits
  BY <1>1, ExecutionInit, Zenon
<1> QED
  BY <1>2, <1>3, <1>4, Zenon DEF BooksInv

LEMMA BooksNext ==
    ASSUME IsFiniteSet(HttpRequest), StopLossPct >= 1, TakeProfitPct >= 1, BooksInv, [Next]_vars
    PROVE  BooksInv'
<1>1. /\ PaperInv /\ PaperCovered /\ SimulatorKept /\ BasisInv /\ ExecutionInv /\ ExecutionLimits
  BY Zenon DEF BooksInv
<1>2. PaperInv' /\ PaperCovered'
  BY <1>1, PaperNext, Zenon
<1>3. SimulatorKept' /\ BasisInv'
  BY <1>1, SimulatorNext, BasisNext, Zenon
<1>4. ExecutionInv' /\ ExecutionLimits'
  BY <1>1, ExecutionNext, Zenon
<1> QED
  BY <1>2, <1>3, <1>4, Zenon DEF BooksInv

LEMMA BooksKept ==
    ASSUME IsFiniteSet(HttpRequest), ModestCosts, BooksInv
    PROVE  BooksBalance
<1>1. /\ PaperInv /\ PaperCovered /\ SimulatorKept /\ BasisInv /\ ExecutionInv /\ ExecutionLimits
  BY Zenon DEF BooksInv
<1>2. Paper!BalanceMatchesTrades /\ Paper!OverdraftBounded
  BY <1>1, PaperBooks, PaperOverdraft, Zenon
<1>3. Simulator!FillsAccountForAll /\ Simulator!NeverOverdrawn
  BY <1>1, SimulatorBooks, Zenon
<1>4. Basis!ProfitIsCashFlow /\ Basis!OldestFirst
  BY <1>1, BasisBooks, Zenon
<1>5. Execution!FollowerBooks /\ Execution!LimitsHeld
  <2>1. ExecutionTypes
    BY <1>1, Zenon DEF ExecutionInv
  <2> QED
    BY <1>1, <2>1, ExecutionBooks, ExecutionLimited, Zenon
<1> QED
  BY <1>2, <1>3, <1>4, <1>5, Zenon DEF BooksBalance

(***************************************************************************)
(* Whatever requests overlap and fail, whatever orders are filled, refused *)
(* or expire in one tick, whatever is sold against which lots, and however *)
(* the threads of a strategy interleave, the books balance.  The overdraft *)
(* of the paper account is bounded by the number of requests, so there are *)
(* finitely many; a simulated account is not overdrawn if no fee exceeds   *)
(* what is traded and slippage no price; and the limits of a position are  *)
(* not zero, which would close it where it opened                          *)
(* (paper_trading/postgres_client.py, order_simulator/simulator.py,        *)
(* pnl_engine/pnl_engine.py, strategy_execution_engine/engine.py).         *)
(***************************************************************************)
THEOREM BooksStayBalanced ==
    ASSUME IsFiniteSet(HttpRequest), HttpRequest # {}, StopLossPct >= 1, TakeProfitPct >= 1,
           ModestCosts
    PROVE  Spec => []BooksBalance
<1>1. Init => BooksInv
  BY BooksInit
<1>2. BooksInv /\ [Next]_vars => BooksInv'
  BY BooksNext
<1>3. BooksInv => BooksBalance
  BY BooksKept
<1> QED
  BY <1>1, <1>2, <1>3, PTL DEF Spec
=============================================================================
