--------------------------- MODULE RunLockProofs ---------------------------
(***************************************************************************)
(* Machine-checked proofs about RunLock, for every set of instances and    *)
(* symbols and every value of the time constants.                          *)
(***************************************************************************)
EXTENDS RunLock, TLAPS

\* Between the GET and the end of check_and_recover the instance knows an owner.
OwnerRead ==
    \A j \in Instance : pc[j] \in {"probe", "recover"} => seen[j] \in Instance

\* A verdict in flight is on record: whoever is about to run the recovery
\* script has judged the owner it read.
VerdictRecorded ==
    \A j \in Instance : pc[j] = "recover" => seen[j] \in doubted

\* A running heartbeat thread that has not lost too many beats in a row keeps
\* its key alive at least until the next beat is due; before it runs, no beat
\* counts as landed.
BeatsKeepAlive ==
    \A i \in Instance :
        /\ hbThread[i] = "off" => missed[i] = MissBound
        /\ (hbThread[i] = "on"
              /\ (missed[i] + 1) * HeartbeatInterval < HeartbeatTTL)
              => hb[i] >= HeartbeatTTL
                            - (missed[i] + 1) * HeartbeatInterval + wait[i]

\* The inductive invariant behind the theorems of this module.
IInv == TypeOK /\ OwnerRead /\ VerdictRecorded /\ LeaseHeld /\ BeatsKeepAlive

USE DEF PC

\* Multiplication by a successor, which the arithmetic of the beat counter
\* needs as a fact of its own.
LEMMA NextMultiple ==
    ASSUME NEW m \in Nat, NEW d \in Nat
    PROVE  /\ (m + 1) * d \in Nat
           /\ (m + 2) * d = (m + 1) * d + d
OBVIOUS

\* So many beats were lost that the heartbeat key cannot be relied upon.
LEMMA MissBoundIsLost == (MissBound + 1) * HeartbeatInterval >= HeartbeatTTL
<1>1. /\ HeartbeatTTL \in Nat
      /\ HeartbeatInterval \in Nat
      /\ HeartbeatInterval >= 1
  BY LockConstants
<1>2. \A a, d \in Nat : d >= 1 => (a + 1) * d >= a
  OBVIOUS
<1> QED
  BY <1>1, <1>2 DEF MissBound

LEMMA InitInv == Init => IInv
  BY LockConstants
     DEF Init, IInv, TypeOK, OwnerRead, VerdictRecorded, LeaseHeld,
         BeatsKeepAlive, MissBound

\* Steps of the lock protocol leave the heartbeats alone.
LEMMA BeatsFrame ==
    ASSUME BeatsKeepAlive, UNCHANGED <<hb, hbThread, wait, missed>>
    PROVE  BeatsKeepAlive'
  BY DEF BeatsKeepAlive

\* Steps of the heartbeats leave the lock protocol alone.
LEMMA LockFrame ==
    ASSUME OwnerRead, VerdictRecorded, LeaseHeld,
           UNCHANGED <<owner, ttl, pc, work, seen, lease, doubted>>
    PROVE  OwnerRead' /\ VerdictRecorded' /\ LeaseHeld'
  BY DEF OwnerRead, VerdictRecorded, LeaseHeld, Overrun

LEMMA StartInv ==
    ASSUME IInv, NEW i \in Instance, StartHeartbeat(i)  PROVE IInv'
<1> USE DEF IInv, StartHeartbeat, redisVars
<1>1. TypeOK'
  BY LockConstants DEF TypeOK
<1>2. OwnerRead' /\ VerdictRecorded' /\ LeaseHeld'
  BY LockFrame
<1>3. BeatsKeepAlive'
  BY MissBoundIsLost, LockConstants DEF BeatsKeepAlive, TypeOK, MissBound
<1> QED
  BY <1>1, <1>2, <1>3

LEMMA BeatInv ==
    ASSUME IInv, NEW i \in Instance, Beat(i)  PROVE IInv'
<1> USE DEF IInv, Beat
<1>1. TypeOK'
  BY LockConstants DEF TypeOK, BeatTTL, AtMost, MissBound
<1>2. OwnerRead' /\ VerdictRecorded' /\ LeaseHeld'
  BY LockFrame
<1>3. BeatsKeepAlive'
  <2> SUFFICES ASSUME NEW k \in Instance
               PROVE  /\ hbThread'[k] = "off" => missed'[k] = MissBound
                      /\ (hbThread'[k] = "on"
                           /\ (missed'[k] + 1) * HeartbeatInterval
                                < HeartbeatTTL)
                         => hb'[k] >= HeartbeatTTL
                              - (missed'[k] + 1) * HeartbeatInterval + wait'[k]
    BY DEF BeatsKeepAlive
  <2>1. CASE k # i
    BY <2>1 DEF BeatsKeepAlive, TypeOK
  <2>2. CASE k = i /\ hb' = [hb EXCEPT ![i] = BeatTTL(i)]
                   /\ missed' = [missed EXCEPT ![i] = 0]
    BY <2>2, LockConstants DEF TypeOK, BeatTTL
  <2>3. CASE k = i /\ hb' = hb
                   /\ missed' = [missed EXCEPT ![i] = AtMost(@ + 1, MissBound)]
    <3>1. CASE missed[i] + 1 <= MissBound
      <4>1. missed'[i] = missed[i] + 1 /\ wait'[i] = HeartbeatInterval
            /\ wait[i] = 0 /\ missed[i] \in Nat /\ HeartbeatInterval \in Nat
            /\ HeartbeatTTL \in Nat /\ hb[i] \in Nat
        BY <2>3, <3>1, LockConstants DEF AtMost, TypeOK, MissBound
      <4>2. /\ (missed[i] + 1) * HeartbeatInterval \in Nat
            /\ (missed'[i] + 1) * HeartbeatInterval
                 = (missed[i] + 1) * HeartbeatInterval + HeartbeatInterval
        <5>1. missed'[i] + 1 = missed[i] + 2
          BY <4>1
        <5> QED
          BY <4>1, <5>1, NextMultiple
      <4>3. (missed[i] + 1) * HeartbeatInterval < HeartbeatTTL
              => hb[i] >= HeartbeatTTL - (missed[i] + 1) * HeartbeatInterval
        BY <4>1, <4>2 DEF BeatsKeepAlive
      <4>4. hbThread'[i] = "on"
        OBVIOUS
      <4> HIDE DEF IInv, Beat
      <4> QED
        BY <2>3, <4>1, <4>2, <4>3, <4>4
    <3>2. CASE ~(missed[i] + 1 <= MissBound)
      <4>1. missed'[i] = MissBound /\ hbThread'[i] = "on"
        BY <2>3, <3>2, LockConstants DEF AtMost, TypeOK, MissBound
      <4> QED
        BY <4>1, <2>3, MissBoundIsLost, LockConstants DEF MissBound
    <3> QED
      BY <3>1, <3>2
  <2> QED
    BY <2>1, <2>2, <2>3
<1> QED
  BY <1>1, <1>2, <1>3

LEMMA StopInv ==
    ASSUME IInv, NEW i \in Instance, StopHeartbeat(i)  PROVE IInv'
<1> USE DEF IInv, StopHeartbeat, EndThread
<1>1. TypeOK'
  BY LockConstants DEF TypeOK, MissBound
<1>2. OwnerRead' /\ VerdictRecorded' /\ LeaseHeld'
  BY LockFrame
<1>3. BeatsKeepAlive'
  BY DEF BeatsKeepAlive, TypeOK
<1> QED
  BY <1>1, <1>2, <1>3

LEMMA AcquireInv ==
    ASSUME IInv, NEW i \in Instance, NEW s \in Symbol, Acquire(i, s)
    PROVE  IInv'
<1> USE DEF IInv, Acquire, SetLock, Enter, Condemned, Goto
<1>1. TypeOK'
  BY LockConstants DEF TypeOK
<1>2. OwnerRead' /\ VerdictRecorded'
  BY DEF OwnerRead, VerdictRecorded, TypeOK
<1>3. LeaseHeld'
  BY LockConstants DEF LeaseHeld, Overrun, TypeOK
<1>4. BeatsKeepAlive'
  BY BeatsFrame
<1> QED
  BY <1>1, <1>2, <1>3, <1>4

LEMMA LookupInv ==
    ASSUME IInv, NEW i \in Instance, Lookup(i)  PROVE IInv'
<1> USE DEF IInv, Lookup, Goto, redisVars
<1>1. TypeOK'
  BY LockConstants DEF TypeOK
<1>2. OwnerRead' /\ VerdictRecorded'
  BY DEF OwnerRead, VerdictRecorded, TypeOK
<1>3. LeaseHeld'
  BY DEF LeaseHeld, Overrun, TypeOK
<1>4. BeatsKeepAlive'
  BY BeatsFrame
<1> QED
  BY <1>1, <1>2, <1>3, <1>4

LEMMA ProbeInv ==
    ASSUME IInv, NEW i \in Instance, Probe(i)  PROVE IInv'
<1> USE DEF IInv, Probe, Goto, Forget, redisVars
<1>1. TypeOK'
  BY LockConstants DEF TypeOK, OwnerRead
<1>2. OwnerRead' /\ VerdictRecorded'
  BY DEF OwnerRead, VerdictRecorded, TypeOK
<1>3. LeaseHeld'
  BY DEF LeaseHeld, Overrun, TypeOK
<1>4. BeatsKeepAlive'
  BY BeatsFrame
<1> QED
  BY <1>1, <1>2, <1>3, <1>4

\* The heart of the argument: the script deletes only the lock of an owner on
\* record as doubted, so no undoubted holder loses its lock.
LEMMA RecoverInv ==
    ASSUME IInv, NEW i \in Instance, Recover(i)  PROVE IInv'
<1> USE DEF IInv, Recover, SetLock, Enter, Condemned, Goto, Forget
<1>1. TypeOK'
  BY LockConstants DEF TypeOK
<1>2. OwnerRead' /\ VerdictRecorded'
  BY DEF OwnerRead, VerdictRecorded, TypeOK
<1>3. LeaseHeld'
  <2>1. seen[i] \in doubted
    BY DEF VerdictRecorded
  <2>2. ASSUME NEW k \in Instance, pc[k] = "processing", ~Overrun(k),
               k \notin doubted, Stealable(i, work[i])
        PROVE  work[k] # work[i]
    BY <2>1, <2>2, LockConstants DEF Stealable, LeaseHeld
  <2> QED
    BY <2>2, LockConstants DEF LeaseHeld, Overrun, TypeOK
<1>4. BeatsKeepAlive'
  BY BeatsFrame
<1> QED
  BY <1>1, <1>2, <1>3, <1>4

LEMMA ReleaseInv ==
    ASSUME IInv, NEW i \in Instance, Release(i)  PROVE IInv'
<1> USE DEF IInv, Release, DelIfOwner, Goto
<1>1. TypeOK'
  BY LockConstants DEF TypeOK
<1>2. OwnerRead' /\ VerdictRecorded'
  BY DEF OwnerRead, VerdictRecorded, TypeOK
<1>3. LeaseHeld'
  BY DEF LeaseHeld, Overrun, TypeOK
<1>4. BeatsKeepAlive'
  BY BeatsFrame
<1> QED
  BY <1>1, <1>2, <1>3, <1>4

LEMMA CrashInv ==
    ASSUME IInv, NEW i \in Instance, Crash(i)  PROVE IInv'
<1> USE DEF IInv, Crash, Goto, Forget, EndThread, redisVars
<1>1. TypeOK'
  BY LockConstants DEF TypeOK, MissBound
<1>2. OwnerRead' /\ VerdictRecorded'
  BY DEF OwnerRead, VerdictRecorded, TypeOK
<1>3. LeaseHeld'
  BY DEF LeaseHeld, Overrun, TypeOK
<1>4. BeatsKeepAlive'
  BY DEF BeatsKeepAlive, TypeOK
<1> QED
  BY <1>1, <1>2, <1>3, <1>4

\* Lock key and lease count down together, and so do heartbeat key and the
\* thread's wait, which Tick never lets pass zero.
LEMMA TickInv ==
    ASSUME IInv, Tick  PROVE IInv'
<1> USE DEF IInv, Tick, Remaining, Dec
<1>1. TypeOK'
  BY LockConstants DEF TypeOK
<1>2. OwnerRead' /\ VerdictRecorded'
  BY DEF OwnerRead, VerdictRecorded, TypeOK
<1>3. LeaseHeld'
  BY LockConstants DEF LeaseHeld, Overrun, TypeOK
<1>4. BeatsKeepAlive'
  <2> SUFFICES ASSUME NEW k \in Instance
               PROVE  /\ hbThread'[k] = "off" => missed'[k] = MissBound
                      /\ (hbThread'[k] = "on"
                           /\ (missed'[k] + 1) * HeartbeatInterval
                                < HeartbeatTTL)
                         => hb'[k] >= HeartbeatTTL
                              - (missed'[k] + 1) * HeartbeatInterval + wait'[k]
    BY DEF BeatsKeepAlive
  <2>1. /\ missed[k] \in Nat /\ HeartbeatInterval \in Nat
        /\ HeartbeatTTL \in Nat /\ hb[k] \in Nat /\ wait[k] \in Nat
    BY LockConstants DEF TypeOK, MissBound
  <2>2. (missed[k] + 1) * HeartbeatInterval \in Nat
    BY <2>1, NextMultiple
  <2>3. /\ hb'[k] = IF hb[k] > 0 THEN hb[k] - 1 ELSE 0
        /\ wait'[k] = IF wait[k] > 0 THEN wait[k] - 1 ELSE 0
        /\ missed'[k] = missed[k] /\ hbThread'[k] = hbThread[k]
        /\ hbThread[k] = "on" => wait[k] > 0
    BY DEF TypeOK
  <2>4. /\ hbThread[k] = "off" => missed[k] = MissBound
        /\ (hbThread[k] = "on"
             /\ (missed[k] + 1) * HeartbeatInterval < HeartbeatTTL)
           => hb[k] >= HeartbeatTTL
                - (missed[k] + 1) * HeartbeatInterval + wait[k]
    BY DEF BeatsKeepAlive
  <2> HIDE DEF IInv, Tick
  <2> QED
    BY <2>1, <2>2, <2>3, <2>4
<1> QED
  BY <1>1, <1>2, <1>3, <1>4

LEMMA NextInv == IInv /\ [Next]_vars => IInv'
<1> SUFFICES ASSUME IInv, [Next]_vars  PROVE IInv'
  OBVIOUS
<1>1. CASE Tick
  BY <1>1, TickInv
<1>2. ASSUME NEW i \in Instance, InstanceStep(i)  PROVE IInv'
  BY <1>2, StartInv, BeatInv, StopInv, AcquireInv, LookupInv, ProbeInv,
     RecoverInv, ReleaseInv, CrashInv DEF InstanceStep
<1>3. CASE UNCHANGED vars
  <2>1. TypeOK'
    BY <1>3 DEF IInv, TypeOK, vars
  <2>2. OwnerRead' /\ VerdictRecorded' /\ LeaseHeld'
    BY <1>3, LockFrame DEF IInv, vars
  <2>3. BeatsKeepAlive'
    BY <1>3, BeatsFrame DEF IInv, vars
  <2> QED
    BY <2>1, <2>2, <2>3 DEF IInv
<1> QED
  BY <1>1, <1>2, <1>3 DEF Next

LEMMA Inductive == Spec => []IInv
  BY InitInv, NextInv, PTL DEF Spec

(***************************************************************************)
(* Type correctness of the run lock: keys hold instance ids, and countdowns*)
(* stay within the TTL that started them.                                  *)
(***************************************************************************)
THEOREM TypeCorrect == Spec => []TypeOK
<1>1. IInv => TypeOK
  BY DEF IInv
<1> QED
  BY <1>1, Inductive, PTL

(***************************************************************************)
(* Redis agrees with an undoubted holder that is within its lease: neither *)
(* a release, nor a recovery, nor an expiry takes its lock from it.        *)
(***************************************************************************)
THEOREM HolderOwnsLock == Spec => []LeaseHeld
<1>1. IInv => LeaseHeld
  BY DEF IInv
<1> QED
  BY <1>1, Inductive, PTL

(***************************************************************************)
(* The guarantee of the run lock: a symbol is processed by two instances   *)
(* at once only if one of them outlived its TTL or was judged stale.       *)
(***************************************************************************)
THEOREM LockGuarantee == Spec => []MutexUnlessStale
<1>1. IInv => MutexUnlessStale
  BY DEF IInv, LeaseHeld, MutexUnlessStale, Processing, Overrun
<1> QED
  BY <1>1, Inductive, PTL

(***************************************************************************)
(* A peer whose heartbeat thread runs and loses few beats is judged stale  *)
(* by nobody, unless clock skew makes its lock look too old.               *)
(***************************************************************************)
THEOREM VerdictsJustified == Spec => DoubtOnlyTheSilent
<1>1. ASSUME IInv, [Next]_vars, NEW j \in Instance,
             pc[j] # "recover", pc'[j] = "recover"
      PROVE  Suspicious(seen'[j])
  <2>1. Lookup(j) \/ Probe(j)
    <3>1. PICK i \in Instance : InstanceStep(i)
      BY <1>1 DEF Next, Tick, vars
    <3>2. pc \in [Instance -> PC]
      BY <1>1 DEF IInv, TypeOK
    <3> QED
      BY <1>1, <3>1, <3>2
         DEF InstanceStep, StartHeartbeat, Beat, StopHeartbeat, Acquire, Enter,
             Lookup, Probe, Recover, Release, Crash, Goto
  <2>2. CASE Lookup(j)
    <3>1. /\ seen'[j] = owner[work[j]]
          /\ \E skew \in 0..MaxSkew :
                LockAge(work[j], skew) > StaleThreshold
      BY <2>2, <1>1 DEF Lookup, Goto, IInv, TypeOK
    <3>2. work[j] \in Symbol /\ ttl[work[j]] \in Nat
      BY <1>1, LockConstants DEF IInv, TypeOK
    <3>3. LockAge(work[j], MaxSkew) > StaleThreshold
      BY <3>1, <3>2, LockConstants DEF LockAge
    <3> QED
      BY <3>1, <3>2, <3>3 DEF Suspicious
  <2>3. CASE Probe(j)
    <3> DEFINE i == seen[j]
    <3>1. seen'[j] = i /\ hb[i] = 0 /\ pc[j] = "probe"
      BY <2>3, <1>1 DEF Probe, Goto, IInv, TypeOK
    <3>2. i \in Instance
      BY <3>1, <1>1 DEF IInv, OwnerRead
    <3> HIDE DEF i
    <3>3. missed[i] \in Nat /\ wait[i] \in Nat /\ HeartbeatTTL \in Nat
          /\ HeartbeatInterval \in Nat
      BY <3>2, <1>1, LockConstants DEF IInv, TypeOK, MissBound
    <3>4. (missed[i] + 1) * HeartbeatInterval \in Nat
      BY <3>3, NextMultiple
    <3>5. (hbThread[i] = "on"
             /\ (missed[i] + 1) * HeartbeatInterval < HeartbeatTTL)
            => hb[i] >= HeartbeatTTL
                 - (missed[i] + 1) * HeartbeatInterval + wait[i]
      BY <3>2, <1>1 DEF IInv, BeatsKeepAlive
    <3> QED
      BY <3>1, <3>3, <3>4, <3>5 DEF Suspicious
  <2> QED
    BY <2>1, <2>2, <2>3
<1>2. IInv /\ [Next]_vars
        => [\A j \in Instance :
               (pc[j] # "recover" /\ pc'[j] = "recover")
                   => Suspicious(seen'[j])]_vars
  BY <1>1
<1> QED
  BY <1>2, Inductive, PTL DEF Spec, DoubtOnlyTheSilent

=============================================================================
