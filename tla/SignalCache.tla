------------------------------ MODULE SignalCache ------------------------------
(***************************************************************************)
(* What the signal coordinator is told when it asks an MCP server through  *)
(* its cache: autonomous_runner/signal_cache.py and _call_mcp_cached of     *)
(* coordinator.py, for one key of a data type that has a longer time to    *)
(* live when degraded.                                                     *)
(*                                                                         *)
(* Runner instances share the entry in Redis, and each has a clock and an  *)
(* entry in memory of its own.  A value is known by the second at which    *)
(* its call returned; that mcp_client.py returns a failed HTTP call as a   *)
(* value, {"error": ...}, makes it one more value here and leaves the      *)
(* retries of retry.py to the answers it cannot read, which it does not    *)
(* retry.                                                                  *)
(***************************************************************************)
EXTENDS Integers

CONSTANTS
    Instance,      \* runner instances
    TTL,           \* the time to live of the data type, market_price_ttl
    DegradedTTL,   \* its degraded one, degraded_price_ttl
    MaxSkew,       \* bound: how far a clock is ahead
    MaxStall,      \* bound: seconds a put waits for Redis
    MaxClock       \* bound: seconds

VARIABLES
    clock,    \* seconds that have passed
    skew,     \* skew[i]: how far the clock of i is ahead
    redis,    \* the entry in Redis, if any: its value, the writer's time and its expiry
    local,    \* local[i]: the entry of _local of i, if any
    caller,   \* caller[i]: where the call of i stands, with the value it caches
    answer    \* answer[i]: what the last call was answered, and its age then

cacheVars == <<clock, skew, redis, local, caller, answer>>

At(place) == [at |-> place, made |-> 0]

Init ==
    /\ clock = 0
    /\ skew \in [Instance -> 0..MaxSkew]
    /\ redis = {}
    /\ local = [i \in Instance |-> {}]
    /\ caller = [i \in Instance |-> At("idle")]
    /\ answer = [i \in Instance |-> [kind |-> "none", age |-> 0]]

\* time.time() of an instance.
Time(i) == clock + skew[i]

\* The first part of get: the entry Redis has, and young enough by the clock of i.
InRedis(i, ttl) == {e \in redis : clock < e.expires /\ Time(i) - e.cachedAt < ttl}

\* The second part: the entry in memory, which carries its expiry.
InMemory(i) == {e \in local[i] : Time(i) < e.expires}

Answer(i, kind, age) ==
    /\ answer' = [answer EXCEPT ![i] = [kind |-> kind, age |-> age]]
    /\ caller' = [caller EXCEPT ![i] = At("idle")]

\* get, of which a failure of Redis is but a miss; Else is what follows one.
Get(i, ttl, kind, Else) ==
    /\ \E found \in {InRedis(i, ttl), {}} :
          IF found # {}
          THEN /\ \E e \in found : Answer(i, kind, clock - e.made)
               /\ UNCHANGED local
          ELSE /\ local' = [local EXCEPT ![i] = InMemory(i)]
               /\ IF InMemory(i) # {}
                  THEN \E e \in InMemory(i) : Answer(i, kind, clock - e.made)
                  ELSE Else
    /\ UNCHANGED <<clock, skew, redis>>

\* The cache is asked first.
Ask(i) ==
    /\ caller[i].at = "idle"
    /\ Get(i, TTL, "cached",
           /\ caller' = [caller EXCEPT ![i] = At("calling")]
           /\ answer' = [answer EXCEPT ![i] = [kind |-> "none", age |-> 0]])

\* The call returns something to keep.
Return(i) ==
    /\ caller[i].at = "calling"
    /\ caller' = [caller EXCEPT ![i] = [at |-> "putting", made |-> clock]]
    /\ UNCHANGED <<clock, skew, redis, local, answer>>

\* It returns null, which is not kept.
ReturnNothing(i) ==
    /\ caller[i].at = "calling"
    /\ Answer(i, "nothing", 0)
    /\ UNCHANGED <<clock, skew, redis, local>>

\* It raises, and the cache is asked for what it has for degraded times.
Raise(i) ==
    /\ caller[i].at = "calling"
    /\ Get(i, DegradedTTL, "degraded", Answer(i, "raised", 0))

\* The entry outlives its normal time, for the sake of degraded calls.
PutRedisForDegraded(i) ==
    LET made == caller[i].made
    IN  /\ caller[i].at = "putting"
        /\ redis' = {[made |-> made, cachedAt |-> made + skew[i], expires |-> clock + DegradedTTL]}
        /\ caller' = [caller EXCEPT ![i].at = "keeping"]
        /\ UNCHANGED <<clock, skew, local, answer>>

\* put, first part: Redis takes the entry, with the writer's time of the call
\* of put and the normal time to live, or fails.
PutRedis(i) ==
    LET made == caller[i].made
    IN  /\ caller[i].at = "putting"
        /\ \/ redis' = {[made |-> made, cachedAt |-> made + skew[i], expires |-> clock + TTL]}
           \/ UNCHANGED redis
        /\ caller' = [caller EXCEPT ![i].at = "keeping"]
        /\ UNCHANGED <<clock, skew, local, answer>>

\* put, second part: the entry in memory.  The caller has its value.
PutLocal(i) ==
    /\ caller[i].at = "keeping"
    /\ local' = [local EXCEPT ![i] = {[made |-> caller[i].made, expires |-> Time(i) + TTL]}]
    /\ Answer(i, "fetched", 0)
    /\ UNCHANGED <<clock, skew, redis>>

\* Time passes, but a Redis command does not stall for longer than MaxStall.
Tick ==
    /\ clock < MaxClock
    /\ \A i \in Instance :
          caller[i].at \in {"putting", "keeping"} => clock - caller[i].made < MaxStall
    /\ clock' = clock + 1
    /\ UNCHANGED <<skew, redis, local, caller, answer>>

Next ==
    \/ Tick
    \/ \E i \in Instance :
          Ask(i) \/ Return(i) \/ ReturnNothing(i) \/ Raise(i) \/ PutRedis(i) \/ PutLocal(i)

Spec == Init /\ [][Next]_cacheVars

----------------------------------------------------------------------------
(* Properties *)

\* Whichever tier answers, whoever wrote the entry and by whichever clock, and
\* also when the call failed and the cache is asked with the degraded time to
\* live: what the coordinator fuses is no older than the normal time to live,
\* beyond what the put itself took (signal_cache.py get and put).  That includes
\* degraded times because put ignores them; see DegradedOutlasts.
AnswersFresh ==
    \A i \in Instance :
        answer[i].kind \in {"cached", "degraded"} => answer[i].age < TTL + MaxStall

\* "If True, use longer degraded-mode TTLs" (signal_cache.py line 80), "falls
\* back to degraded-TTL cached data" (coordinator.py line 201): while a call is
\* out, a degraded get would find what was cached within the degraded time to
\* live.  The code does not do this: put lets an entry expire at the normal time
\* in both tiers, so that a call which is made because there was no entry finds
\* none either when it fails.
DegradedOutlasts ==
    \A i \in Instance :
        caller[i].at = "calling" /\ (\E e \in redis : clock - e.made < DegradedTTL)
            => InRedis(i, DegradedTTL) \union InMemory(i) # {}
===============================================================================
