-------------------------- MODULE RunnerCycleProofs --------------------------
(***************************************************************************)
(* Machine-checked proofs about RunnerCycle, for every interval, threshold *)
(* and number of symbols: the kill switch stops cycles in time, and the    *)
(* runner does not lock itself out by its own breaker.                     *)
(***************************************************************************)
EXTENDS RunnerCycle, TLAPS

(* The kill switch *)

Booleans == key \in BOOLEAN /\ cache \in BOOLEAN /\ got \in BOOLEAN /\ blind \in BOOLEAN

KillTypes ==
    /\ Booleans
    /\ pc \in {"sleep", "reading", "assign", "gate", "cycle"}
    /\ sinceCheck \in 0..CheckInterval
    /\ killed \in 0..CheckInterval
    /\ dash \in {"idle", "activating", "deactivating"}

\* Every "not active" somebody still holds is young enough: it was true when
\* it was read or written, and the key has been set for no longer than that.
FreshAnswers ==
    /\ ~key => killed = 0
    /\ dash = "deactivating" => killed = 0
    /\ pc = "assign" /\ ~got => killed = 0
    /\ pc \in {"sleep", "gate", "cycle"} /\ ~cache => blind \/ killed <= sinceCheck
    /\ pc = "gate" => blind \/ killed < CheckInterval

KillInv == KillTypes /\ FreshAnswers

USE RunnerConstants, BreakerConstants

LEMMA KillInit == Init => KillInv
<1>1. Init => Booleans
  BY Zenon DEF Init, Booleans
<1>2. Init => KillTypes
  BY <1>1 DEF Init, KillTypes
<1>3. Init => FreshAnswers
  BY DEF Init, FreshAnswers
<1> QED
  BY <1>2, <1>3 DEF KillInv

LEMMA KillNext == CheckInterval > 0 /\ KillInv /\ [Next]_vars => KillInv'
<1> SUFFICES ASSUME CheckInterval > 0, KillInv, [Next]_vars  PROVE KillInv'
  OBVIOUS
<1> USE DEF KillInv, KillTypes, Booleans, FreshAnswers, loopVars, gateVars, killVars, EndOfCycle, 
           Answer
<1>1. CASE BeginCycle
  BY <1>1 DEF BeginCycle
<1>2. CASE ReadKey
  BY <1>2 DEF ReadKey
<1>3. CASE StoreAnswer
  <2>1. Booleans' /\ UNCHANGED <<key, sinceCheck, killed, dash, blind>> /\ pc = "assign"
    BY <1>3, Zenon DEF StoreAnswer
  <2>2. CASE got
    <3>1. cache' /\ pc' = "sleep"
      BY <1>3, <2>2, Zenon DEF StoreAnswer
    <3> HIDE DEF Booleans
    <3> QED
      BY <2>1, <3>1
  <2>3. CASE ~got
    <3>1. pc' = "gate"
      BY <1>3, <2>3, Zenon DEF StoreAnswer
    <3> HIDE DEF Booleans
    <3> QED
      BY <2>1, <2>3, <3>1
  <2> QED
    BY <2>2, <2>3
<1>4. CASE Gate
  BY <1>4 DEF Gate
<1>5. CASE ProcessSymbol
  BY <1>5 DEF ProcessSymbol
<1>6. CASE FinishCycle
  BY <1>6 DEF FinishCycle
<1>7. ASSUME NEW value \in BOOLEAN, DashboardWritesKey(value)  PROVE KillInv'
  BY <1>7 DEF DashboardWritesKey, SetKey
<1>8. CASE DashboardWritesCache
  BY <1>8 DEF DashboardWritesCache
<1>9. ASSUME NEW value \in BOOLEAN, OtherWritesKey(value)  PROVE KillInv'
  BY <1>9 DEF OtherWritesKey, SetKey
<1>10. CASE DashboardReadsBreaker
  BY <1>10 DEF DashboardReadsBreaker
<1>11. CASE Tick
  BY <1>11 DEF Tick, Saturate
<1>12. CASE UNCHANGED vars
  BY <1>12 DEF vars
<1> QED
  BY <1>1, <1>2, <1>3, <1>4, <1>5, <1>6, <1>7, <1>8, <1>9, <1>10, <1>11, <1>12
     DEF Next, Runner, Environment

(***************************************************************************)
(* However the runner, the dashboard and other services interleave on the  *)
(* key and on the cached answer, no cycle starts once the key has been set *)
(* for the check interval, unless the last read of it failed.              *)
(***************************************************************************)
THEOREM KillSwitchStopsCycles ==
    ASSUME CheckInterval > 0
    PROVE  Spec => KillSwitchHonoured
<1>1. KillInv /\ [Next]_vars => KillInv'
  BY KillNext
<1>2. KillInv /\ [Next]_vars => [CycleStarts => killed < CheckInterval \/ blind]_vars
  BY DEF KillInv, FreshAnswers, CycleStarts
<1> QED
  BY KillInit, <1>1, <1>2, PTL DEF Spec, KillSwitchHonoured

(* The breaker *)

Wedged(b) == b.state = "half_open" /\ ~Allowed(b)

\* A cycle that has processed a symbol has reported to the breaker.
WedgeInv ==
    /\ breaker \in BreakerType
    /\ left \in 0..NumSymbols
    /\ Wedged(breaker) => pc = "cycle" \/ ShouldSkip(latencies)
    /\ pc = "cycle" /\ left < NumSymbols => ~Wedged(breaker)

USE DEF BreakerType, BreakerState, Saturate, Breaker, AfterFailure

\* Looking at a breaker, or letting time pass, never uses up its probes, and
\* any report moves a half-open breaker on.
LEMMA NoWedgeByLooking ==
    ASSUME NEW b \in BreakerType
    PROVE  /\ EvaluateState(b) \in BreakerType
           /\ Wedged(EvaluateState(b)) => Wedged(b)
           /\ Age(b) \in BreakerType
           /\ Wedged(Age(b)) => Wedged(b)
  BY DEF EvaluateState, Age, Wedged, Allowed

LEMMA NoWedgeByReport ==
    ASSUME NEW b \in BreakerType, NEW c \in FetchReport(b)
    PROVE  c \in BreakerType /\ ~Wedged(c)
  BY DEF FetchReport, RecordSuccess, RecordFailure, Wedged

LEMMA RequestTyped ==
    ASSUME NEW b \in BreakerType
    PROVE  /\ AllowRequest(b) \in BreakerType
           /\ ~Allowed(b) /\ Wedged(AllowRequest(b)) => Wedged(b)
  BY DEF AllowRequest, Allowed, EvaluateState, Wedged

LEMMA WedgeNext == WedgeInv /\ [Next]_vars => WedgeInv'
<1> SUFFICES ASSUME WedgeInv, [Next]_vars  PROVE WedgeInv'
  OBVIOUS
<1> USE DEF WedgeInv, loopVars, gateVars, killVars, EndOfCycle, 
           Answer
<1>1. CASE BeginCycle
  BY <1>1 DEF BeginCycle
<1>2. CASE ReadKey
  BY <1>2 DEF ReadKey
<1>3. CASE StoreAnswer
  BY <1>3 DEF StoreAnswer
<1>4. CASE Gate
  <2> HIDE DEF BreakerType, Breaker
  <2>1. CASE cooldown > 0 /\ UNCHANGED <<breaker, latencies>> /\ EndOfCycle
    BY <1>4, <2>1 DEF Gate
  <2>2. CASE breaker' = AllowRequest(breaker) /\ latencies' = latencies
    BY <1>4, <2>2, RequestTyped DEF Gate
  <2> QED
    BY <1>4, <2>1, <2>2 DEF Gate
<1>5. CASE ProcessSymbol
  <2> HIDE DEF BreakerType, Breaker
  <2> QED
    BY <1>5, NoWedgeByReport DEF ProcessSymbol
<1>6. CASE FinishCycle
  BY <1>6 DEF FinishCycle
<1>7. ASSUME NEW value \in BOOLEAN, DashboardWritesKey(value) \/ OtherWritesKey(value)
      PROVE  WedgeInv'
  BY <1>7 DEF DashboardWritesKey, OtherWritesKey
<1>8. CASE DashboardWritesCache
  BY <1>8 DEF DashboardWritesCache
<1>9. CASE DashboardReadsBreaker
  <2> HIDE DEF BreakerType, Breaker
  <2> QED
    BY <1>9, NoWedgeByLooking DEF DashboardReadsBreaker
<1>10. CASE Tick
  <2> HIDE DEF BreakerType, Breaker
  <2> QED
    BY <1>10, NoWedgeByLooking DEF Tick
<1>11. CASE UNCHANGED vars
  BY <1>11 DEF vars
<1> QED
  BY <1>1, <1>2, <1>3, <1>4, <1>5, <1>6, <1>7, <1>8, <1>9, <1>10, <1>11
     DEF Next, Runner, Environment

(***************************************************************************)
(* While a half-open breaker refuses cycles, the cycle it admitted is      *)
(* running, unless the adaptive scheduler ended that one before it fetched *)
(* anything: the runner does not wait for a probe that nobody makes.       *)
(***************************************************************************)
THEOREM RunnerDoesNotWedge == Spec => []BreakerNotWedged
<1>1. Init => WedgeInv
  BY DEF Init, WedgeInv, NewBreaker, Wedged
<1>2. WedgeInv => BreakerNotWedged
  BY DEF WedgeInv, BreakerNotWedged, Wedged
<1> QED
  BY <1>1, <1>2, WedgeNext, PTL DEF Spec

=============================================================================
