------------------------------ MODULE RunLock ------------------------------
(***************************************************************************)
(* The distributed per-symbol run lock of the autonomous signal pipeline,  *)
(* services/autonomous_runner/run_lock.py: RunLock (SET NX EX and a Lua    *)
(* release), HeartbeatManager (a key refreshed by a daemon thread),        *)
(* StaleLockRecovery (GET, age, EXISTS of the owner's heartbeat, a Lua     *)
(* delete-and-acquire) and the LockManager that combines them, driven by   *)
(* the lock section of SignalCoordinator.process_all_symbols.              *)
(*                                                                         *)
(* Every Redis round trip is one step, so the steps of two instances       *)
(* interleave exactly where the code releases control to the network.      *)
(* A round trip may also raise, either before Redis executed the command   *)
(* or after it (the reply is lost): the code treats both alike.            *)
(*                                                                         *)
(* Time is a global Tick; Redis TTLs are countdowns.  An instance_id is    *)
(* a fresh uuid per process, so a crashed instance never comes back.       *)
(***************************************************************************)
EXTENDS Integers

CONSTANTS
    Instance,           \* runner processes, by instance_id
    Symbol,             \* trading symbols
    NoOwner,            \* "the lock key does not exist"
    LockTTL,            \* LOCK_TTL
    StaleThreshold,     \* LOCK_STALE_THRESHOLD
    HeartbeatTTL,       \* HEARTBEAT_TTL
    HeartbeatInterval,  \* HEARTBEAT_INTERVAL
    MaxSkew,            \* how far one host's clock may be ahead of another's
    HeartbeatStarted    \* does the embedding program call start_heartbeat?

ASSUME LockConstants ==
    /\ NoOwner \notin Instance
    /\ LockTTL \in Nat \ {0}
    /\ StaleThreshold \in Nat
    /\ HeartbeatTTL \in Nat \ {0}
    /\ HeartbeatInterval \in Nat \ {0}
    /\ MaxSkew \in Nat
    /\ HeartbeatStarted \in BOOLEAN

VARIABLES
    owner,      \* Redis: instance_id stored under signal:lock:{symbol}
    ttl,        \* Redis: seconds until that key expires, 0 when absent
    hb,         \* Redis: seconds until runner:heartbeat:{instance} expires
    hbThread,   \* the heartbeat thread: "off", "on" or "stopped"
    wait,       \* what is left of _stop_event.wait(HEARTBEAT_INTERVAL)
    pc,         \* where the instance is in its acquire/process/release cycle
    work,       \* the symbol it is working on
    seen,       \* the owner it read in check_and_recover
    lease,      \* history: ticks left of the lock it took (0 = overrun)
    missed,     \* history: heartbeat writes lost since the last good one
    doubted     \* history: instances judged stale, until they lock anew

redisVars == <<owner, ttl, hb>>
vars == <<owner, ttl, hb, hbThread, wait, pc, work, seen, lease, missed,
          doubted>>

PC == {"idle", "lookup", "probe", "recover", "processing", "down"}

\* Lost beats are counted up to this bound, which stands for "any number"; an
\* instance none of whose beats landed yet starts there.
MissBound == HeartbeatTTL

AtMost(a, b) == IF a <= b THEN a ELSE b

Processing(i, s) == pc[i] = "processing" /\ work[i] = s

Init ==
    /\ owner = [s \in Symbol |-> NoOwner]
    /\ ttl = [s \in Symbol |-> 0]
    /\ hb = [i \in Instance |-> 0]
    /\ hbThread = [i \in Instance |-> "off"]
    /\ wait = [i \in Instance |-> 0]
    /\ pc = [i \in Instance |-> "idle"]
    /\ work \in [Instance -> Symbol]
    /\ seen = [i \in Instance |-> NoOwner]
    /\ lease = [i \in Instance |-> 0]
    /\ missed = [i \in Instance |-> MissBound]
    /\ doubted = {}

----------------------------------------------------------------------------
(* HeartbeatManager *)

\* start(): the thread is created and writes its first beat at once.
StartHeartbeat(i) ==
    /\ HeartbeatStarted
    /\ hbThread[i] = "off"
    /\ pc[i] = "idle"
    /\ hbThread' = [hbThread EXCEPT ![i] = "on"]
    /\ wait' = [wait EXCEPT ![i] = 0]
    /\ UNCHANGED <<redisVars, pc, work, seen, lease, missed, doubted>>

\* A beat that set(key, payload, ex=HEARTBEAT_INTERVAL) would write.
BeatShortTTL(i) == HeartbeatInterval

\* The time to live that one beat gives the heartbeat key.
BeatTTL(i) == HeartbeatTTL

\* One turn of _heartbeat_loop: the SET lands or raises (and is logged), then
\* the thread waits.  A thread that is scheduled too late is a lost beat.
Beat(i) ==
    /\ hbThread[i] = "on"
    /\ wait[i] = 0
    /\ wait' = [wait EXCEPT ![i] = HeartbeatInterval]
    /\ \/ /\ hb' = [hb EXCEPT ![i] = BeatTTL(i)]
          /\ missed' = [missed EXCEPT ![i] = 0]
       \/ /\ missed' = [missed EXCEPT ![i] = AtMost(@ + 1, MissBound)]
          /\ hb' = hb
    /\ UNCHANGED <<owner, ttl, hbThread, pc, work, seen, lease, doubted>>

\* The thread is gone, with its timer and its count of lost beats.
EndThread(i) ==
    /\ hbThread' = [hbThread EXCEPT ![i] = "stopped"]
    /\ wait' = [wait EXCEPT ![i] = 0]
    /\ missed' = [missed EXCEPT ![i] = MissBound]

\* stop(): set the event, join for at most 5 seconds, delete the key.  The
\* delete may raise; when the join timed out the last write lands after it.
StopHeartbeat(i) ==
    /\ hbThread[i] = "on"
    /\ pc[i] = "idle"
    /\ EndThread(i)
    /\ \E left \in {0, hb[i], HeartbeatTTL} : hb' = [hb EXCEPT ![i] = left]
    /\ UNCHANGED <<owner, ttl, pc, work, seen, lease, doubted>>

----------------------------------------------------------------------------
(* RunLock.acquire, RunLock.release and StaleLockRecovery.check_and_recover *)

\* SET key value NX EX LOCK_TTL as Redis executes it on a key that is free.
SetLock(i, s) ==
    /\ owner' = [owner EXCEPT ![s] = i]
    /\ ttl' = [ttl EXCEPT ![s] = LockTTL]

\* A peer that judged i stale has yet to run the recovery script.
Condemned(i) ==
    \E j \in Instance \ {i} : pc[j] = "recover" /\ seen[j] = i

\* The caller got the lock and enters _process_symbol.  Old verdicts on it are
\* void, except one that a peer is about to execute.
Enter(i) ==
    /\ pc' = [pc EXCEPT ![i] = "processing"]
    /\ lease' = [lease EXCEPT ![i] = LockTTL]
    /\ doubted' = IF Condemned(i) THEN doubted ELSE doubted \ {i}

\* The instance goes on without (or after) the lock.
Goto(i, label) ==
    /\ pc' = [pc EXCEPT ![i] = label]
    /\ lease' = [lease EXCEPT ![i] = 0]

\* check_and_recover returns and its local variables are gone.
Forget(i) == seen' = [seen EXCEPT ![i] = NoOwner]

\* LockManager.acquire, first half: SET NX.  It succeeds; it succeeds but the
\* reply is lost; it is refused because the key exists, or raises.
Acquire(i, s) ==
    /\ pc[i] = "idle"
    /\ work' = [work EXCEPT ![i] = s]
    /\ \/ owner[s] = NoOwner /\ SetLock(i, s) /\ Enter(i)
       \/ /\ \/ owner[s] = NoOwner /\ SetLock(i, s)
             \/ UNCHANGED <<owner, ttl>>
          /\ Goto(i, "lookup")
          /\ UNCHANGED doubted
    /\ UNCHANGED <<hb, hbThread, wait, seen, missed>>

\* time.time() - acquired_at, as a host whose clock is `skew` ahead sees it.
LockAge(s, skew) == (LockTTL - ttl[s]) + skew

\* check_and_recover, the GET: without an answer or a lock there is nothing to
\* recover; an old lock is condemned at once, otherwise the heartbeat decides.
Lookup(i) ==
    /\ pc[i] = "lookup"
    /\ \/ Goto(i, "idle") /\ UNCHANGED <<seen, doubted>>
       \/ /\ owner[work[i]] # NoOwner
          /\ seen' = [seen EXCEPT ![i] = owner[work[i]]]
          /\ \E skew \in 0..MaxSkew :
                IF LockAge(work[i], skew) > StaleThreshold
                  THEN /\ Goto(i, "recover")
                       /\ doubted' = doubted \cup {owner[work[i]]}
                  ELSE Goto(i, "probe") /\ UNCHANGED doubted
    /\ UNCHANGED <<redisVars, hbThread, wait, work, missed>>

\* check_and_recover, EXISTS runner:heartbeat:{owner}: a missing heartbeat
\* condemns the lock; a present one, or an exception, leaves it alone.
Probe(i) ==
    /\ pc[i] = "probe"
    /\ \/ Goto(i, "idle") /\ Forget(i) /\ UNCHANGED doubted
       \/ /\ hb[seen[i]] = 0
          /\ Goto(i, "recover")
          /\ doubted' = doubted \cup {seen[i]}
          /\ UNCHANGED seen
    /\ UNCHANGED <<redisVars, hbThread, wait, work, missed>>

\* The recovery script without its ownership test: whatever lock is there is
\* deleted.
StealableBlindly(i, s) == TRUE

\* RECOVER_LOCK_SCRIPT: after the conditional DEL the SET NX finds the key
\* free when it was free or still held by the owner that was condemned.
Stealable(i, s) == owner[s] \in {NoOwner, seen[i]}

\* check_and_recover, the EVAL: it acquires; acquires but the reply is lost;
\* or is refused because the lock changed hands, or raises.
Recover(i) ==
    /\ pc[i] = "recover"
    /\ \/ Stealable(i, work[i]) /\ SetLock(i, work[i]) /\ Enter(i)
       \/ /\ \/ Stealable(i, work[i]) /\ SetLock(i, work[i])
             \/ UNCHANGED <<owner, ttl>>
          /\ Goto(i, "idle")
          /\ UNCHANGED doubted
    /\ Forget(i)
    /\ UNCHANGED <<hb, hbThread, wait, work, missed>>

\* A release that is a plain DEL.
DelBlindly(i, s) ==
    /\ owner' = [owner EXCEPT ![s] = NoOwner]
    /\ ttl' = [ttl EXCEPT ![s] = 0]

\* RELEASE_LOCK_SCRIPT: DEL only if this instance is the recorded owner.
DelIfOwner(i, s) ==
    IF owner[s] = i
      THEN /\ owner' = [owner EXCEPT ![s] = NoOwner]
           /\ ttl' = [ttl EXCEPT ![s] = 0]
      ELSE UNCHANGED <<owner, ttl>>

\* _process_symbol returned or raised; the finally clause runs the release
\* script, whose result and exceptions are ignored.
Release(i) ==
    /\ pc[i] = "processing"
    /\ DelIfOwner(i, work[i]) \/ UNCHANGED <<owner, ttl>>
    /\ Goto(i, "idle")
    /\ UNCHANGED <<hb, hbThread, wait, work, seen, missed, doubted>>

----------------------------------------------------------------------------
(* The environment *)

\* The process dies, and its daemon heartbeat thread with it.
Crash(i) ==
    /\ pc[i] # "down"
    /\ Goto(i, "down")
    /\ Forget(i)
    /\ EndThread(i)
    /\ UNCHANGED <<redisVars, work, doubted>>

Dec(n) == IF n > 0 THEN n - 1 ELSE 0

\* A lock key that was set without EX.
NoExpiry(s) == ttl[s]

\* A lock key was set with EX LOCK_TTL: Redis counts it down ...
Remaining(s) == Dec(ttl[s])

\* One second passes.  A heartbeat thread whose wait is over runs first.
Tick ==
    /\ \A i \in Instance : hbThread[i] = "on" => wait[i] > 0
    /\ ttl' = [s \in Symbol |-> Remaining(s)]
    /\ owner' = [s \in Symbol |->
                   IF Remaining(s) = 0 THEN NoOwner ELSE owner[s]]
    /\ hb' = [i \in Instance |-> Dec(hb[i])]
    /\ wait' = [i \in Instance |-> Dec(wait[i])]
    /\ lease' = [i \in Instance |-> Dec(lease[i])]
    /\ UNCHANGED <<hbThread, pc, work, seen, missed, doubted>>

InstanceStep(i) ==
    \/ StartHeartbeat(i)
    \/ Beat(i)
    \/ StopHeartbeat(i)
    \/ \E s \in Symbol : Acquire(i, s)
    \/ Lookup(i)
    \/ Probe(i)
    \/ Recover(i)
    \/ Release(i)
    \/ Crash(i)

Next == Tick \/ \E i \in Instance : InstanceStep(i)

Spec == Init /\ [][Next]_vars

\* Time passes, and a heartbeat thread that has to write is scheduled.
Fairness == WF_vars(Tick) /\ \A i \in Instance : WF_vars(Beat(i))

FairSpec == Spec /\ Fairness

----------------------------------------------------------------------------
(* Properties *)

\* Types of all variables; a free lock has no time to live and conversely.
TypeOK ==
    /\ owner \in [Symbol -> Instance \cup {NoOwner}]
    /\ ttl \in [Symbol -> 0..LockTTL]
    /\ \A s \in Symbol : (owner[s] = NoOwner) <=> (ttl[s] = 0)
    /\ hb \in [Instance -> 0..HeartbeatTTL]
    /\ hbThread \in [Instance -> {"off", "on", "stopped"}]
    /\ wait \in [Instance -> 0..HeartbeatInterval]
    /\ pc \in [Instance -> PC]
    /\ work \in [Instance -> Symbol]
    /\ seen \in [Instance -> Instance \cup {NoOwner}]
    /\ lease \in [Instance -> 0..LockTTL]
    /\ missed \in [Instance -> 0..MissBound]
    /\ doubted \subseteq Instance

\* The instance is past the TTL of the lock it took, which nothing renews.
Overrun(i) == lease[i] = 0

\* What the lock really guarantees: two instances process the same symbol only
\* when one of them outlived its lock's TTL or, since it took the lock or shortly
\* before, was judged stale by a peer.  This is run_lock.py's purpose (line 3) with its two escape hatches named.
MutexUnlessStale ==
    \A i, j \in Instance : \A s \in Symbol :
        (i # j /\ Processing(i, s) /\ Processing(j, s))
            => \E k \in {i, j} : Overrun(k) \/ k \in doubted

\* The lock is as its holder believes: while an instance is inside its lease
\* and nobody judged it stale, Redis names it as the owner and its key lives
\* exactly as long as the lease.  Inductive, and it implies MutexUnlessStale.
LeaseHeld ==
    \A i \in Instance :
        (pc[i] = "processing" /\ ~Overrun(i) /\ i \notin doubted)
            => owner[work[i]] = i /\ ttl[work[i]] = lease[i]

\* Two instances process the same symbol only if one outlived its TTL: the
\* module comment "Prevents multiple instances from processing the same
\* symbol concurrently", with only the TTL granted as an excuse.
MutexWithinLease ==
    \A i, j \in Instance : \A s \in Symbol :
        (i # j /\ Processing(i, s) /\ Processing(j, s))
            => Overrun(i) \/ Overrun(j)

\* Good reasons to judge an instance stale: its heartbeat thread is not running,
\* no beat of it landed yet, it lost so many beats in a row that the key expired
\* (HEARTBEAT_TTL against HEARTBEAT_INTERVAL: one lost beat is survived), or it
\* holds a lock so old that a skewed clock can see LOCK_STALE_THRESHOLD passed.
Suspicious(i) ==
    \/ hbThread[i] # "on"
    \/ (missed[i] + 1) * HeartbeatInterval >= HeartbeatTTL
    \/ \E s \in Symbol :
          owner[s] = i /\ LockAge(s, MaxSkew) > StaleThreshold

\* check_and_recover sets out to take a lock only from an owner there is a good
\* reason to judge stale, although owner and heartbeat are read one after the
\* other while the owner goes on.
DoubtOnlyTheSilent ==
    [][\A j \in Instance :
          (pc[j] # "recover" /\ pc'[j] = "recover")
              => Suspicious(seen'[j])]_vars

\* The lock of a crashed instance does not block its symbol for ever: the TTL
\* removes it even if no peer ever tries to recover it.
CrashedLockFreed ==
    \A i \in Instance : \A s \in Symbol :
        (pc[i] = "down" /\ owner[s] = i) ~> (owner[s] # i)

=============================================================================
