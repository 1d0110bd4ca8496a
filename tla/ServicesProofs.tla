---------------------------- MODULE ServicesProofs ----------------------------
(***************************************************************************)
(* Machine-checked proofs about the services that stand for themselves, in *)
(* the context of Services and for every value of the constants.  Each has *)
(* an inductive invariant over its own variables; a step of Services is a  *)
(* step of one service or leaves its variables alone.                      *)
(***************************************************************************)
EXTENDS Services, FiniteSetTheorems, SequenceTheorems, WellFoundedInduction, TLAPS

LEMMA ServiceTypes ==
    /\ TTL \in Nat /\ MaxStall \in Nat /\ MaxSkew \in Nat /\ MaxConnections \in Nat
    /\ MaxPerRun \in Nat /\ Percentage \in Nat /\ Elsewhere \in Nat
  BY ServiceConstants

(***************************************************************************)
(* The signal cache                                                        *)
(***************************************************************************)

LEMMA CacheSteps == [Next]_vars => Cache!Next \/ UNCHANGED cacheVars
  BY Zenon DEF Next, Only, vars

CacheKind == {"none", "cached", "degraded", "fetched", "nothing", "raised"}

\* An entry and the time it may be used until.
CacheTypes ==
    /\ clock \in Nat
    /\ skew \in [Instance -> Nat]
    /\ redis \subseteq [made : Nat, cachedAt : Nat, expires : Nat]
    /\ local \in [Instance -> SUBSET [made : Nat, expires : Nat]]
    /\ caller \in [Instance -> [at : {"idle", "calling", "putting", "keeping"}, made : Nat]]
    /\ answer \in [Instance -> [kind : CacheKind, age : Int]]

\* A value is put no later than MaxStall after the call, and an entry expires a
\* normal time to live after that, by the clock that will be asked.
CacheTimes ==
    /\ \A e \in redis : e.expires <= e.made + MaxStall + TTL
    /\ \A i \in Instance : \A e \in local[i] : e.expires <= e.made + MaxStall + TTL + skew[i]
    /\ \A i \in Instance :
          caller[i].at \in {"putting", "keeping"} => clock <= caller[i].made + MaxStall

CacheInv == CacheTypes /\ CacheTimes /\ Cache!AnswersFresh

LEMMA CacheInit == Init => CacheInv
<1> SUFFICES ASSUME Init  PROVE CacheInv
  OBVIOUS
<1> USE ServiceTypes DEF Cache!Init, Cache!At, CacheKind
<1>1. Cache!Init
  BY Zenon DEF Init
<1>2. CacheTypes
  <2>1. clock \in Nat /\ skew \in [Instance -> Nat]
    BY <1>1
  <2>2. redis = {} /\ local = [i \in Instance |-> {}]
    BY <1>1
  <2>3. /\ caller \in [Instance -> [at : {"idle", "calling", "putting", "keeping"}, made : Nat]]
        /\ answer \in [Instance -> [kind : CacheKind, age : Int]]
    BY <1>1
  <2> QED
    BY <2>1, <2>2, <2>3 DEF CacheTypes
<1>3. CacheTimes
  BY <1>1 DEF CacheTimes
<1>4. Cache!AnswersFresh
  BY <1>1 DEF Cache!AnswersFresh
<1> QED
  BY <1>2, <1>3, <1>4 DEF CacheInv

\* Both tiers answer with what has not expired.
LEMMA CacheAnswer ==
    ASSUME CacheInv, NEW i \in Instance, NEW ttl, NEW kind \in CacheKind,
           NEW e \in Cache!InRedis(i, ttl) \union Cache!InMemory(i)
    PROVE  clock - e.made \in Int /\ clock - e.made < TTL + MaxStall
<1> USE ServiceTypes
<1>1. clock \in Nat /\ skew[i] \in Nat
  BY DEF CacheInv, CacheTypes
<1>2. CASE e \in Cache!InRedis(i, ttl)
  <2>1. e.made \in Nat /\ e.expires \in Nat /\ clock < e.expires /\ e.expires <= e.made + MaxStall + TTL
    BY <1>2 DEF Cache!InRedis, CacheInv, CacheTypes, CacheTimes
  <2> QED
    BY <1>1, <2>1
<1>3. CASE e \in Cache!InMemory(i)
  <2>1. /\ e.made \in Nat /\ e.expires \in Nat /\ clock + skew[i] < e.expires
        /\ e.expires <= e.made + MaxStall + TTL + skew[i]
    BY <1>3 DEF Cache!InMemory, Cache!Time, CacheInv, CacheTypes, CacheTimes
  <2> QED
    BY <1>1, <2>1
<1> QED
  BY <1>2, <1>3

\* An answer that frees the caller.
LEMMA CacheAnswered ==
    ASSUME CacheInv, NEW i \in Instance, NEW kind \in CacheKind, NEW age \in Int,
           age < TTL + MaxStall \/ kind \notin {"cached", "degraded"},
           Cache!Answer(i, kind, age), UNCHANGED <<clock, skew, redis>>,
           local' \in [Instance -> SUBSET [made : Nat, expires : Nat]],
           \A j \in Instance : \A e \in local'[j] : e.expires <= e.made + MaxStall + TTL + skew[j]
    PROVE  CacheInv'
<1> USE DEF CacheInv, Cache!Answer, Cache!At
<1>1. CacheTypes'
  BY DEF CacheTypes
<1>2. CacheTimes'
  BY DEF CacheTypes, CacheTimes
<1>3. Cache!AnswersFresh'
  BY DEF CacheTypes, Cache!AnswersFresh
<1> QED
  BY <1>1, <1>2, <1>3

\* Asking both tiers, with an answer or what follows a miss.
LEMMA CacheGet ==
    ASSUME CacheInv, NEW i \in Instance, NEW ttl, NEW kind \in CacheKind,
           NEW hit \in {Cache!InRedis(i, ttl), {}},
           UNCHANGED <<clock, skew, redis>>,
           IF hit # {}
           THEN (\E e \in hit : Cache!Answer(i, kind, clock - e.made)) /\ UNCHANGED local
           ELSE /\ local' = [local EXCEPT ![i] = Cache!InMemory(i)]
                /\ \E e \in Cache!InMemory(i) : Cache!Answer(i, kind, clock - e.made)
    PROVE  CacheInv'
<1>1. PICK e \in Cache!InRedis(i, ttl) \union Cache!InMemory(i) :
        Cache!Answer(i, kind, clock - e.made)
  OBVIOUS
<1>2. clock - e.made \in Int /\ clock - e.made < TTL + MaxStall
  BY <1>1, CacheAnswer
<1>3. /\ local' \in [Instance -> SUBSET [made : Nat, expires : Nat]]
      /\ \A j \in Instance : local'[j] \subseteq local[j]
  <2>1. local \in [Instance -> SUBSET [made : Nat, expires : Nat]]
    BY DEF CacheInv, CacheTypes
  <2>2. Cache!InMemory(i) \subseteq local[i]
    BY DEF Cache!InMemory
  <2>3. local' = local \/ local' = [local EXCEPT ![i] = Cache!InMemory(i)]
    OBVIOUS
  <2>4. Cache!InMemory(i) \in SUBSET [made : Nat, expires : Nat]
    BY <2>1, <2>2
  <2> QED
    BY <2>1, <2>2, <2>3, <2>4
<1>4. \A j \in Instance : \A x \in local'[j] : x.expires <= x.made + MaxStall + TTL + skew[j]
  BY <1>3 DEF CacheInv, CacheTimes
<1> QED
  BY <1>1, <1>2, <1>3, <1>4, CacheAnswered

\* A miss leaves memory with what had not expired, that is, nothing.
LEMMA CacheMiss ==
    ASSUME CacheInv, NEW i \in Instance, UNCHANGED <<clock, skew, redis>>,
           local' = [local EXCEPT ![i] = Cache!InMemory(i)]
    PROVE  /\ local' \in [Instance -> SUBSET [made : Nat, expires : Nat]]
           /\ \A j \in Instance : \A x \in local'[j] : x.expires <= x.made + MaxStall + TTL + skew[j]
<1>1. /\ local' \in [Instance -> SUBSET [made : Nat, expires : Nat]]
      /\ \A j \in Instance : local'[j] \subseteq local[j]
  <2>1. local \in [Instance -> SUBSET [made : Nat, expires : Nat]]
    BY DEF CacheInv, CacheTypes
  <2>2. Cache!InMemory(i) \subseteq local[i]
    BY DEF Cache!InMemory
  <2>3. Cache!InMemory(i) \in SUBSET [made : Nat, expires : Nat]
    BY <2>1, <2>2
  <2> QED
    BY <2>1, <2>2, <2>3
<1> QED
  BY <1>1 DEF CacheInv, CacheTimes

LEMMA CacheNext == CacheInv /\ [Next]_vars => CacheInv'
<1> SUFFICES ASSUME CacheInv, [Next]_vars  PROVE CacheInv'
  OBVIOUS
<1> USE ServiceTypes DEF CacheKind
<1>1. CASE Cache!Tick
  <2>1. /\ clock' = clock + 1 /\ UNCHANGED <<skew, redis, local, caller, answer>>
        /\ \A i \in Instance :
              caller[i].at \in {"putting", "keeping"} => clock - caller[i].made < MaxStall
    BY <1>1 DEF Cache!Tick
  <2>2. CacheTypes'
    BY <2>1 DEF CacheInv, CacheTypes
  <2>3. CacheTimes'
    <3>1. ASSUME NEW i \in Instance, caller[i].at \in {"putting", "keeping"}
          PROVE  clock + 1 <= caller[i].made + MaxStall
      <4>1. clock \in Nat /\ caller[i].made \in Nat /\ clock - caller[i].made < MaxStall
        BY <2>1, <3>1 DEF CacheInv, CacheTypes
      <4> QED
        BY <4>1
    <3> QED
      BY <2>1, <3>1 DEF CacheInv, CacheTimes
  <2>4. Cache!AnswersFresh'
    BY <2>1 DEF CacheInv, Cache!AnswersFresh
  <2> QED
    BY <2>2, <2>3, <2>4 DEF CacheInv
<1>2. ASSUME NEW i \in Instance, Cache!Ask(i)  PROVE CacheInv'
  <2>1. PICK hit \in {Cache!InRedis(i, TTL), {}} :
          IF hit # {}
          THEN /\ \E e \in hit : Cache!Answer(i, "cached", clock - e.made)
               /\ UNCHANGED local
          ELSE /\ local' = [local EXCEPT ![i] = Cache!InMemory(i)]
               /\ IF Cache!InMemory(i) # {}
                  THEN \E e \in Cache!InMemory(i) : Cache!Answer(i, "cached", clock - e.made)
                  ELSE /\ caller' = [caller EXCEPT ![i] = Cache!At("calling")]
                       /\ answer' = [answer EXCEPT ![i] = [kind |-> "none", age |-> 0]]
    BY <1>2 DEF Cache!Ask, Cache!Get
  <2>2. UNCHANGED <<clock, skew, redis>>
    BY <1>2 DEF Cache!Ask, Cache!Get
  <2>3. CASE hit # {} \/ Cache!InMemory(i) # {}
    BY <2>1, <2>2, <2>3, CacheGet
  <2>4. CASE hit = {} /\ Cache!InMemory(i) = {}
    <3>1. /\ caller' = [caller EXCEPT ![i] = [at |-> "calling", made |-> 0]]
          /\ answer' = [answer EXCEPT ![i] = [kind |-> "none", age |-> 0]]
          /\ local' = [local EXCEPT ![i] = Cache!InMemory(i)]
      BY <2>1, <2>4 DEF Cache!At
    <3>2. /\ local' \in [Instance -> SUBSET [made : Nat, expires : Nat]]
          /\ \A j \in Instance : \A x \in local'[j] : x.expires <= x.made + MaxStall + TTL + skew[j]
      BY <2>2, <3>1, CacheMiss
    <3>3. CacheTypes'
      BY <2>2, <3>1, <3>2 DEF CacheInv, CacheTypes
    <3>4. CacheTimes'
      BY <2>2, <3>1, <3>2 DEF CacheInv, CacheTypes, CacheTimes
    <3>5. Cache!AnswersFresh'
      BY <3>1 DEF CacheInv, CacheTypes, Cache!AnswersFresh
    <3> QED
      BY <3>3, <3>4, <3>5 DEF CacheInv
  <2> QED
    BY <2>3, <2>4
<1>3. ASSUME NEW i \in Instance, Cache!Return(i)  PROVE CacheInv'
  <2>1. /\ caller' = [caller EXCEPT ![i] = [at |-> "putting", made |-> clock]]
        /\ UNCHANGED <<clock, skew, redis, local, answer>>
    BY <1>3 DEF Cache!Return
  <2>2. CacheTypes'
    BY <2>1 DEF CacheInv, CacheTypes
  <2>3. CacheTimes'
    BY <2>1 DEF CacheInv, CacheTypes, CacheTimes
  <2>4. Cache!AnswersFresh'
    BY <2>1 DEF CacheInv, Cache!AnswersFresh
  <2> QED
    BY <2>2, <2>3, <2>4 DEF CacheInv
<1>4. ASSUME NEW i \in Instance, Cache!ReturnNothing(i)  PROVE CacheInv'
  <2>1. Cache!Answer(i, "nothing", 0) /\ UNCHANGED <<clock, skew, redis, local>>
    BY <1>4 DEF Cache!ReturnNothing
  <2>2. /\ local' \in [Instance -> SUBSET [made : Nat, expires : Nat]]
        /\ \A j \in Instance : \A x \in local'[j] : x.expires <= x.made + MaxStall + TTL + skew[j]
    BY <2>1 DEF CacheInv, CacheTypes, CacheTimes
  <2> QED
    BY <2>1, <2>2, CacheAnswered
<1>5. ASSUME NEW i \in Instance, Cache!Raise(i)  PROVE CacheInv'
  <2>1. PICK hit \in {Cache!InRedis(i, DegradedTTL), {}} :
          IF hit # {}
          THEN /\ \E e \in hit : Cache!Answer(i, "degraded", clock - e.made)
               /\ UNCHANGED local
          ELSE /\ local' = [local EXCEPT ![i] = Cache!InMemory(i)]
               /\ IF Cache!InMemory(i) # {}
                  THEN \E e \in Cache!InMemory(i) : Cache!Answer(i, "degraded", clock - e.made)
                  ELSE Cache!Answer(i, "raised", 0)
    BY <1>5 DEF Cache!Raise, Cache!Get
  <2>2. UNCHANGED <<clock, skew, redis>>
    BY <1>5 DEF Cache!Raise, Cache!Get
  <2>3. CASE hit # {} \/ Cache!InMemory(i) # {}
    BY <2>1, <2>2, <2>3, CacheGet
  <2>4. CASE hit = {} /\ Cache!InMemory(i) = {}
    <3>1. Cache!Answer(i, "raised", 0) /\ local' = [local EXCEPT ![i] = Cache!InMemory(i)]
      BY <2>1, <2>4
    <3>2. /\ local' \in [Instance -> SUBSET [made : Nat, expires : Nat]]
          /\ \A j \in Instance : \A x \in local'[j] : x.expires <= x.made + MaxStall + TTL + skew[j]
      BY <2>2, <3>1, CacheMiss
    <3> QED
      BY <2>2, <3>1, <3>2, CacheAnswered
  <2> QED
    BY <2>3, <2>4
<1>6. ASSUME NEW i \in Instance, Cache!PutRedis(i)  PROVE CacheInv'
  <2> DEFINE entry == [made |-> caller[i].made, cachedAt |-> caller[i].made + skew[i],
                       expires |-> clock + TTL]
  <2>1. /\ redis' = {entry} \/ redis' = redis
        /\ caller[i].at = "putting"
        /\ caller' = [caller EXCEPT ![i].at = "keeping"]
        /\ UNCHANGED <<clock, skew, local, answer>>
    BY <1>6 DEF Cache!PutRedis
  <2>2. caller[i].made \in Nat /\ clock \in Nat /\ skew[i] \in Nat /\ clock <= caller[i].made + MaxStall
    BY <2>1 DEF CacheInv, CacheTypes, CacheTimes
  <2>3. /\ entry \in [made : Nat, cachedAt : Nat, expires : Nat]
        /\ entry.expires <= entry.made + MaxStall + TTL
    BY <2>2
  <2> HIDE DEF entry
  <2>4. CacheTypes'
    BY <2>1, <2>3 DEF CacheInv, CacheTypes
  <2>5. CacheTimes'
    <3>1. \A j \in Instance : caller'[j].made = caller[j].made /\ (caller'[j].at = caller[j].at \/ j = i)
      BY <2>1 DEF CacheInv, CacheTypes
    <3> QED
      BY <2>1, <2>2, <2>3, <3>1 DEF CacheInv, CacheTimes
  <2>6. Cache!AnswersFresh'
    BY <2>1 DEF CacheInv, Cache!AnswersFresh
  <2> QED
    BY <2>4, <2>5, <2>6 DEF CacheInv
<1>7. ASSUME NEW i \in Instance, Cache!PutLocal(i)  PROVE CacheInv'
  <2> DEFINE entry == [made |-> caller[i].made, expires |-> clock + skew[i] + TTL]
  <2>1. /\ caller[i].at = "keeping" /\ Cache!Answer(i, "fetched", 0)
        /\ local' = [local EXCEPT ![i] = {entry}]
        /\ UNCHANGED <<clock, skew, redis>>
    BY <1>7 DEF Cache!PutLocal, Cache!Time
  <2>2. caller[i].made \in Nat /\ clock \in Nat /\ skew[i] \in Nat /\ clock <= caller[i].made + MaxStall
    BY <2>1 DEF CacheInv, CacheTypes, CacheTimes
  <2>3. /\ entry \in [made : Nat, expires : Nat]
        /\ entry.expires <= entry.made + MaxStall + TTL + skew[i]
    BY <2>2
  <2> HIDE DEF entry
  <2>4. /\ local' \in [Instance -> SUBSET [made : Nat, expires : Nat]]
        /\ \A j \in Instance : \A x \in local'[j] : x.expires <= x.made + MaxStall + TTL + skew[j]
    BY <2>1, <2>3 DEF CacheInv, CacheTypes, CacheTimes
  <2> QED
    BY <2>1, <2>4, CacheAnswered
<1>8. CASE UNCHANGED cacheVars
  BY <1>8 DEF cacheVars, CacheInv, CacheTypes, CacheTimes, Cache!AnswersFresh
<1> QED
  BY <1>1, <1>2, <1>3, <1>4, <1>5, <1>6, <1>7, <1>8, CacheSteps DEF Cache!Next

(***************************************************************************)
(* Whichever tier answers, and in degraded times, what the coordinator is  *)
(* told is no older than the normal time to live and the time a put took,  *)
(* however many instances share the entry and however their clocks differ. *)
(***************************************************************************)
THEOREM CacheIsFresh == Spec => []AnswersFresh
<1>1. CacheInv => AnswersFresh
  BY DEF CacheInv, AnswersFresh
<1> QED
  BY <1>1, CacheInit, CacheNext, PTL DEF Spec

(***************************************************************************)
(* The agents' orchestration                                               *)
(***************************************************************************)

LEMMA AgentSteps == [Next]_vars => Agents!Next \/ UNCHANGED agentVars
  BY Zenon DEF Next, Only, vars

AgentRecord == [phase : [Strategy -> {"none", "discovery", "validation", "promotion"}],
                promotions : [Strategy -> Int],
                retirements : [Strategy -> Int]]

\* What PromotedAreWatched says of one state.
Watched(s) ==
    \A n \in Strategy \ relisted :
        s.promotions[n] - s.retirements[n] = IF s.phase[n] = "promotion" THEN 1 ELSE 0

\* What a cycle found or passed is not promoted yet, but for what the model
\* listed again.
Unpromoted(names) == \A n \in names \ relisted : state.phase[n] # "promotion"

AgentInv ==
    /\ state \in AgentRecord /\ file \in AgentRecord
    /\ found \subseteq Strategy /\ passed \subseteq Strategy
    /\ Watched(state) /\ Watched(file)
    /\ step = "validation" => Unpromoted(found)
    /\ step = "promotion" => Unpromoted(passed)

LEMMA AgentInit == Init => AgentInv
<1> SUFFICES ASSUME Init  PROVE AgentInv
  OBVIOUS
<1>1. Agents!Init
  BY Zenon DEF Init
<1>2. state \in AgentRecord /\ file = state /\ found = {} /\ passed = {} /\ step = "idle"
  BY <1>1 DEF Agents!Init, AgentRecord
<1>3. Watched(state)
  BY <1>1 DEF Agents!Init, Watched
<1>4. Watched(file)
  BY <1>2, <1>3 DEF Watched
<1> QED
  BY <1>2, <1>3, <1>4 DEF AgentInv

\* A phase that is given to names not promoted, and is not promotion, changes no
\* account.
LEMMA AgentRelabel ==
    ASSUME AgentInv, NEW names \in SUBSET Strategy, NEW next \in {"discovery", "validation"},
           relisted \subseteq relisted',
           \A n \in names \ relisted' : state.phase[n] # "promotion",
           state' = [state EXCEPT !.phase = Agents!SetPhase(names, next)]
    PROVE  /\ state' \in AgentRecord /\ Watched(state)'
           /\ \A n \in names : state'.phase[n] = next
<1>1. /\ state'.phase = Agents!SetPhase(names, next)
      /\ state'.promotions = state.promotions /\ state'.retirements = state.retirements
      /\ state' \in AgentRecord
  BY DEF AgentInv, AgentRecord, Agents!SetPhase
<1>2. ASSUME NEW n \in Strategy \ relisted'
      PROVE  state'.promotions[n] - state'.retirements[n] = IF state'.phase[n] = "promotion" THEN 1 ELSE 0
  <2>1. state'.phase[n] = IF n \in names THEN next ELSE state.phase[n]
    BY <1>1 DEF Agents!SetPhase
  <2>2. state.promotions[n] - state.retirements[n] = IF state.phase[n] = "promotion" THEN 1 ELSE 0
    BY <1>2 DEF AgentInv, Watched
  <2>3. n \in names => state.phase[n] # "promotion"
    BY <1>2
  <2> QED
    BY <1>1, <2>1, <2>2, <2>3
<1>3. \A n \in names : state'.phase[n] = next
  BY <1>1 DEF Agents!SetPhase
<1> QED
  BY <1>1, <1>2, <1>3 DEF Watched

\* The account of names relisted since need not be kept.
LEMMA AgentFile ==
    ASSUME AgentInv, relisted \subseteq relisted', file' = file
    PROVE  file' \in AgentRecord /\ Watched(file)'
  BY DEF AgentInv, Watched

LEMMA AgentNext == AgentInv /\ [Next]_vars => AgentInv'
<1> SUFFICES ASSUME AgentInv, [Next]_vars  PROVE AgentInv'
  OBVIOUS
<1>1. CASE Agents!StartCycle
  BY <1>1 DEF Agents!StartCycle, AgentInv, Watched, Unpromoted
<1>2. CASE Agents!Discover
  <2>0. step' = "validation" /\ UNCHANGED <<file, passed>>
    BY <1>2 DEF Agents!Discover
  <2>1. CASE found' = {} /\ UNCHANGED <<state, relisted>>
    BY <2>0, <2>1 DEF AgentInv, Watched, Unpromoted
  <2>2. CASE ~(found' = {} /\ UNCHANGED <<state, relisted>>)
    <3>1. /\ found' \in SUBSET Strategy
          /\ state' = [state EXCEPT !.phase = Agents!SetPhase(found', "discovery")]
          /\ relisted' = relisted \union (found' \intersect Agents!Candidates)
      BY <1>2, <2>2 DEF Agents!Discover, Agents!Discovered
    <3>2. \A n \in found' \ relisted' : state.phase[n] # "promotion"
      BY <3>1 DEF Agents!Candidates
    <3>3. /\ state' \in AgentRecord /\ Watched(state)'
          /\ \A n \in found' : state'.phase[n] = "discovery"
      BY <3>1, <3>2, AgentRelabel
    <3>4. file' \in AgentRecord /\ Watched(file)'
      BY <2>0, <3>1, AgentFile
    <3> QED
      BY <2>0, <3>1, <3>3, <3>4 DEF AgentInv, Unpromoted
  <2> QED
    BY <2>1, <2>2
<1>3. CASE Agents!Validate
  <2>0. step = "validation" /\ step' = "promotion" /\ UNCHANGED <<file, found, relisted>>
    BY <1>3 DEF Agents!Validate
  <2>1. CASE passed' = {} /\ UNCHANGED state
    BY <2>0, <2>1 DEF AgentInv, Watched, Unpromoted
  <2>2. CASE ~(passed' = {} /\ UNCHANGED state)
    <3>1. passed' \in SUBSET found /\ state' = [state EXCEPT !.phase = Agents!SetPhase(passed', "validation")]
      BY <1>3, <2>2 DEF Agents!Validate
    <3>2. passed' \in SUBSET Strategy /\ \A n \in passed' \ relisted' : state.phase[n] # "promotion"
      BY <2>0, <3>1 DEF AgentInv, Unpromoted
    <3>3. /\ state' \in AgentRecord /\ Watched(state)'
          /\ \A n \in passed' : state'.phase[n] = "validation"
      BY <2>0, <3>1, <3>2, AgentRelabel
    <3>4. file' \in AgentRecord /\ Watched(file)'
      BY <2>0, AgentFile
    <3> QED
      BY <2>0, <3>2, <3>3, <3>4 DEF AgentInv, Unpromoted
  <2> QED
    BY <2>1, <2>2
<1>4. CASE Agents!Promote
  <2>0. step = "promotion" /\ step' = "monitoring" /\ UNCHANGED <<file, found, passed, relisted>>
    BY <1>4 DEF Agents!Promote
  <2>1. CASE UNCHANGED state
    BY <2>0, <2>1 DEF AgentInv, Watched
  <2>2. CASE ~UNCHANGED state
    <3>1. PICK best \in SUBSET passed :
            state' = [state EXCEPT
                   !.phase = Agents!SetPhase(best, "promotion"),
                   !.promotions = [n \in Strategy |-> @[n] + IF n \in best THEN 1 ELSE 0]]
      BY <1>4, <2>2 DEF Agents!Promote, Agents!Winners
    <3>2. state' = [phase |-> Agents!SetPhase(best, "promotion"),
                    promotions |-> [n \in Strategy |-> state.promotions[n] + IF n \in best THEN 1 ELSE 0],
                    retirements |-> state.retirements]
      BY <3>1 DEF AgentInv, AgentRecord
    <3>3. state' \in AgentRecord
      BY <3>2 DEF AgentInv, AgentRecord, Agents!SetPhase
    <3>4. ASSUME NEW n \in Strategy \ relisted'
          PROVE  state'.promotions[n] - state'.retirements[n] =
                     IF state'.phase[n] = "promotion" THEN 1 ELSE 0
      <4>1. /\ state'.phase[n] = IF n \in best THEN "promotion" ELSE state.phase[n]
            /\ state'.promotions[n] = state.promotions[n] + IF n \in best THEN 1 ELSE 0
            /\ state'.retirements[n] = state.retirements[n]
        BY <3>2 DEF Agents!SetPhase
      <4>2. state.promotions[n] \in Int /\ state.retirements[n] \in Int
        BY DEF AgentInv, AgentRecord
      <4>3. /\ state.promotions[n] - state.retirements[n] = IF state.phase[n] = "promotion" THEN 1 ELSE 0
            /\ n \in best => state.phase[n] # "promotion"
        BY <2>0, <3>1, <3>4 DEF AgentInv, Watched, Unpromoted
      <4> QED
        BY <4>1, <4>2, <4>3
    <3>5. file' \in AgentRecord /\ Watched(file)'
      BY <2>0, AgentFile
    <3> QED
      BY <2>0, <3>3, <3>4, <3>5 DEF AgentInv, Watched
  <2> QED
    BY <2>1, <2>2
<1>5. CASE Agents!Monitor
  <2>0. step' = "save" /\ UNCHANGED <<file, found, passed, relisted>>
    BY <1>5 DEF Agents!Monitor
  <2>1. CASE UNCHANGED state
    BY <2>0, <2>1 DEF AgentInv, Watched
  <2>2. CASE ~UNCHANGED state
    <3>1. PICK bad \in SUBSET {n \in Strategy : state.phase[n] = "promotion"} :
            state' = [state EXCEPT
                   !.phase = Agents!SetPhase(bad, "none"),
                   !.retirements = [n \in Strategy |-> @[n] + IF n \in bad THEN 1 ELSE 0]]
      BY <1>5, <2>2 DEF Agents!Monitor
    <3>2. state' = [phase |-> Agents!SetPhase(bad, "none"),
                    promotions |-> state.promotions,
                    retirements |-> [n \in Strategy |-> state.retirements[n] + IF n \in bad THEN 1 ELSE 0]]
      BY <3>1 DEF AgentInv, AgentRecord
    <3>3. state' \in AgentRecord
      BY <3>2 DEF AgentInv, AgentRecord, Agents!SetPhase
    <3>4. ASSUME NEW n \in Strategy \ relisted'
          PROVE  state'.promotions[n] - state'.retirements[n] =
                     IF state'.phase[n] = "promotion" THEN 1 ELSE 0
      <4>1. /\ state'.phase[n] = IF n \in bad THEN "none" ELSE state.phase[n]
            /\ state'.retirements[n] = state.retirements[n] + IF n \in bad THEN 1 ELSE 0
            /\ state'.promotions[n] = state.promotions[n]
        BY <3>2 DEF Agents!SetPhase
      <4>2. state.promotions[n] \in Int /\ state.retirements[n] \in Int
        BY DEF AgentInv, AgentRecord
      <4>3. /\ state.promotions[n] - state.retirements[n] = IF state.phase[n] = "promotion" THEN 1 ELSE 0
            /\ n \in bad => state.phase[n] = "promotion"
        BY <2>0, <3>1, <3>4 DEF AgentInv, Watched
      <4> QED
        BY <4>1, <4>2, <4>3
    <3>5. file' \in AgentRecord /\ Watched(file)'
      BY <2>0, AgentFile
    <3> QED
      BY <2>0, <3>3, <3>4, <3>5 DEF AgentInv, Watched
  <2> QED
    BY <2>1, <2>2
<1>6. CASE Agents!Save
  BY <1>6 DEF Agents!Save, AgentInv, Watched
<1>7. CASE Agents!CrashAgent
  BY <1>7 DEF Agents!CrashAgent, AgentInv, Watched
<1>8. CASE UNCHANGED agentVars
  BY <1>8 DEF agentVars, AgentInv, Watched, Unpromoted
<1> QED
  BY <1>1, <1>2, <1>3, <1>4, <1>5, <1>6, <1>7, <1>8, AgentSteps DEF Agents!Next

(***************************************************************************)
(* The histories and the candidates agree in memory and on disk, wherever  *)
(* a cycle fails and the process dies: what was promoted once more than it *)
(* was retired is watched, unless the model listed it again.               *)
(***************************************************************************)
THEOREM PromotedStayWatched == Spec => []PromotedAreWatched
<1>1. AgentInv => PromotedAreWatched
  BY DEF AgentInv, Watched, PromotedAreWatched, Agents!PromotedAreWatched
<1> QED
  BY <1>1, AgentInit, AgentNext, PTL DEF Spec

(***************************************************************************)
(* The model router                                                        *)
(***************************************************************************)

LEMMA ModelSteps == [Next]_vars => Models!Next \/ UNCHANGED modelVars
  BY Zenon DEF Next, Only, vars

Breaker == [label : {"closed", "open", "half_open"}, failures : Nat, half : Nat]
RouterCall == [label : {"none", "calling", "fallback", "failed"},
               model : SUBSET Models!Model, tried : SUBSET Models!Model, attempt : Nat]

Calling(c, m) == calls[c].label = "calling" /\ calls[c].model = {m}

\* The slot of a half-open breaker is taken by whoever was let through, who is
\* still calling the model.
ProbeHeld(m) ==
    breakers[m].label = "half_open" =>
        /\ probes[m] <= 1 /\ probes[m] <= breakers[m].half
        /\ probes[m] = 1 => \E c \in Call : Calling(c, m)

ChainTried(c) == calls[c].label = "failed" => Models!Model \ Premium \subseteq calls[c].tried

ModelInv ==
    /\ breakers \in [Models!Model -> Breaker]
    /\ calls \in [Call -> RouterCall]
    /\ probes \in [Models!Model -> Nat]
    /\ \A m \in Models!Model : ProbeHeld(m)
    /\ \A c \in Call : ChainTried(c)

LEMMA ModelInit == Init => ModelInv
<1> SUFFICES ASSUME Init  PROVE ModelInv
  OBVIOUS
<1>1. Models!Init
  BY Zenon DEF Init
<1> QED
  BY <1>1 DEF Models!Init, Models!NoCall, ModelInv, Breaker, RouterCall, ProbeHeld, ChainTried

\* One call moves and one model's breaker changes, to a state in which the slot
\* is held as it should be; who was calling the model goes on, unless it is
\* neither half-open now.
LEMMA ModelMove ==
    ASSUME ModelInv, NEW c \in Call, NEW m \in Models!Model,
           NEW b \in Breaker, NEW then \in RouterCall, NEW n \in Nat,
           breakers' = [breakers EXCEPT ![m] = b],
           calls' = [calls EXCEPT ![c] = then],
           probes' = [probes EXCEPT ![m] = n],
           \A k \in Models!Model \ {m} : ~Calling(c, k),
           b.label = "half_open" =>
               /\ n <= 1 /\ n <= b.half
               /\ n = 1 => \/ then.label = "calling" /\ then.model = {m}
                           \/ \E d \in Call \ {c} : Calling(d, m),
           then.label # "failed"
    PROVE  ModelInv'
<1>1. /\ breakers' \in [Models!Model -> Breaker]
      /\ calls' \in [Call -> RouterCall]
      /\ probes' \in [Models!Model -> Nat]
  BY DEF ModelInv
<1>2. ASSUME NEW k \in Models!Model  PROVE ProbeHeld(k)'
  <2>1. CASE k = m
    <3>1. breakers'[m] = b /\ probes'[m] = n /\ calls'[c] = then
          /\ \A d \in Call \ {c} : calls'[d] = calls[d]
      BY DEF ModelInv
    <3> QED
      BY <2>1, <3>1 DEF ProbeHeld, Calling
  <2>2. CASE k # m
    <3>1. breakers'[k] = breakers[k] /\ probes'[k] = probes[k]
          /\ \A d \in Call \ {c} : calls'[d] = calls[d]
      BY <2>2 DEF ModelInv
    <3>2. ProbeHeld(k) /\ ~Calling(c, k)
      BY <2>2 DEF ModelInv
    <3> QED
      BY <3>1, <3>2 DEF ProbeHeld, Calling
  <2> QED
    BY <2>1, <2>2
<1>3. \A d \in Call : ChainTried(d)'
  BY DEF ModelInv, ChainTried
<1> QED
  BY <1>1, <1>2, <1>3 DEF ModelInv

\* What a caller finds when it asks the breaker of m: a breaker that was open
\* may have become half-open, with no probes yet.
LEMMA ModelAsked ==
    ASSUME ModelInv, NEW m \in Models!Model, NEW b \in Models!Evaluated(breakers[m]),
           NEW since, since = IF breakers[m].label = "open" THEN 0 ELSE probes[m]
    PROVE  /\ b \in Breaker /\ since \in Nat
           /\ b.label = "half_open" =>
                 /\ since <= 1 /\ since <= b.half
                 /\ since = 1 => \E d \in Call : Calling(d, m)
           /\ Models!Admitted(b) \in Breaker /\ Models!Admitted(b).label = b.label
           /\ b.label = "half_open" => Models!Admitted(b).half = b.half + 1
<1>1. breakers[m] \in Breaker /\ probes[m] \in Nat /\ ProbeHeld(m)
  BY DEF ModelInv
<1>2. b = breakers[m] \/ (breakers[m].label = "open" /\ b = [breakers[m] EXCEPT !.label = "half_open", !.half = 0])
  BY DEF Models!Evaluated
<1>3. CASE b = breakers[m]
  BY <1>1, <1>3 DEF Breaker, ProbeHeld, Models!Admitted
<1>4. CASE breakers[m].label = "open" /\ b = [breakers[m] EXCEPT !.label = "half_open", !.half = 0]
  <2>1. b \in Breaker /\ b.label = "half_open" /\ b.half = 0 /\ since = 0
    BY <1>1, <1>4 DEF Breaker
  <2> QED
    BY <2>1 DEF Breaker, Models!Admitted
<1> QED
  BY <1>2, <1>3, <1>4

LEMMA ModelRequest ==
    ASSUME ModelInv, NEW c \in Call, NEW m \in Models!Model, Models!Request(c, m)
    PROVE  ModelInv'
<1>1. PICK b \in Models!Evaluated(breakers[m]) :
        LET since == IF breakers[m].label = "open" THEN 0 ELSE probes[m]
        IN IF Models!Allows(b)
              THEN /\ breakers' = [breakers EXCEPT ![m] = Models!Admitted(b)]
                   /\ calls' = [calls EXCEPT ![c] =
                        [label |-> "calling", model |-> {m}, tried |-> {m}, attempt |-> 1]]
                   /\ Models!Probed(m, b, since + 1)
              ELSE /\ breakers' = [breakers EXCEPT ![m] = b]
                   /\ calls' = [calls EXCEPT ![c] =
                        [label |-> "fallback", model |-> {}, tried |-> {m}, attempt |-> 0]]
                   /\ Models!Probed(m, b, since)
  BY DEF Models!Request
<1> DEFINE since == IF breakers[m].label = "open" THEN 0 ELSE probes[m]
<1>2. calls[c].label = "none"
  BY DEF Models!Request
<1>3. /\ b \in Breaker /\ since \in Nat
      /\ b.label = "half_open" =>
            /\ since <= 1 /\ since <= b.half
            /\ since = 1 => \E d \in Call : Calling(d, m)
      /\ Models!Admitted(b) \in Breaker /\ Models!Admitted(b).label = b.label
      /\ b.label = "half_open" => Models!Admitted(b).half = b.half + 1
  BY ModelAsked
<1>4. \A k \in Models!Model : ~Calling(c, k)
  BY <1>2 DEF Calling
<1> HIDE DEF since
<1>5. CASE Models!Allows(b)
  <2> DEFINE then == [label |-> "calling", model |-> {m}, tried |-> {m}, attempt |-> 1]
             n == IF b.label = "half_open" THEN since + 1 ELSE 0
  <2>1. /\ breakers' = [breakers EXCEPT ![m] = Models!Admitted(b)]
        /\ calls' = [calls EXCEPT ![c] = then]
        /\ probes' = [probes EXCEPT ![m] = n]
    BY <1>1, <1>5 DEF Models!Probed, since
  <2>2. b.label = "half_open" => b.half < 1
    BY <1>5 DEF Models!Allows
  <2>3. n \in Nat /\ (b.label = "half_open" => n <= 1 /\ n <= b.half + 1)
    BY <1>3, <2>2 DEF Breaker
  <2>4. then \in RouterCall /\ then.label = "calling" /\ then.model = {m}
    BY DEF RouterCall
  <2> HIDE DEF then, n
  <2> QED
    BY <1>3, <1>4, <2>1, <2>3, <2>4, ModelMove
<1>6. CASE ~Models!Allows(b)
  <2> DEFINE then == [label |-> "fallback", model |-> {}, tried |-> {m}, attempt |-> 0]
             n == IF b.label = "half_open" THEN since ELSE 0
  <2>1. /\ breakers' = [breakers EXCEPT ![m] = b]
        /\ calls' = [calls EXCEPT ![c] = then]
        /\ probes' = [probes EXCEPT ![m] = n]
    BY <1>1, <1>6 DEF Models!Probed, since
  <2>2. n \in Nat /\ (b.label = "half_open" =>
            n <= 1 /\ n <= b.half /\ (n = 1 => \E d \in Call \ {c} : Calling(d, m)))
    BY <1>3, <1>4
  <2>3. then \in RouterCall /\ then.label # "failed"
    BY DEF RouterCall
  <2> HIDE DEF then, n
  <2> QED
    BY <1>3, <1>4, <2>1, <2>2, <2>3, ModelMove
<1> QED
  BY <1>5, <1>6

\* Asked twice, a half-open breaker refuses the second time.
LEMMA ModelTry ==
    ASSUME ModelInv, NEW c \in Call, NEW m \in Models!Model, calls[c].label = "fallback",
           Models!Try(c, m)
    PROVE  ModelInv'
<1>1. PICK b \in Models!Evaluated(breakers[m]) :
        LET since == IF breakers[m].label = "open" THEN 0 ELSE probes[m]
            again == Models!Admitted(b)
        IN IF Models!Allows(b) /\ Models!Allows(again)
             THEN /\ breakers' = [breakers EXCEPT ![m] = Models!Admitted(again)]
                  /\ calls' = [calls EXCEPT ![c] =
                       [calls[c] EXCEPT !.label = "calling", !.model = {m},
                                        !.tried = @ \union {m}, !.attempt = 1]]
                  /\ Models!Probed(m, b, since + 1)
             ELSE /\ breakers' = [breakers EXCEPT ![m] = IF Models!Allows(b) THEN again ELSE b]
                  /\ calls' = [calls EXCEPT ![c].tried = @ \union {m}]
                  /\ Models!Probed(m, b, since)
  BY DEF Models!Try
<1> DEFINE since == IF breakers[m].label = "open" THEN 0 ELSE probes[m]
           again == Models!Admitted(b)
<1>2. /\ b \in Breaker /\ since \in Nat
      /\ b.label = "half_open" =>
            /\ since <= 1 /\ since <= b.half
            /\ since = 1 => \E d \in Call : Calling(d, m)
      /\ again \in Breaker /\ again.label = b.label
      /\ b.label = "half_open" => again.half = b.half + 1
  BY ModelAsked
<1>3. \A k \in Models!Model : ~Calling(c, k)
  BY DEF Calling
<1>4. calls[c] \in RouterCall
  BY DEF ModelInv
<1> HIDE DEF since
<1>5. CASE Models!Allows(b) /\ Models!Allows(again)
  <2> DEFINE then == [calls[c] EXCEPT !.label = "calling", !.model = {m},
                                      !.tried = @ \union {m}, !.attempt = 1]
  <2>1. b.label = "closed"
    BY <1>2, <1>5 DEF Models!Allows, Breaker
  <2>2. Models!Admitted(again) = again
    BY <1>2, <2>1 DEF Models!Admitted
  <2>3. breakers' = [breakers EXCEPT ![m] = again]
    BY <1>1, <1>5, <2>2
  <2>6. calls' = [calls EXCEPT ![c] = then]
    BY <1>1, <1>5
  <2>7. probes' = [probes EXCEPT ![m] = 0]
    BY <1>1, <1>5, <2>1 DEF Models!Probed
  <2>4. then \in RouterCall /\ then.label = "calling"
    BY <1>4 DEF RouterCall
  <2>5. again.label = "closed" /\ again \in Breaker
    BY <1>2, <2>1
  <2> HIDE DEF then, again
  <2> QED
    BY <1>3, <2>3, <2>4, <2>5, <2>6, <2>7, ModelMove
<1>6. CASE ~(Models!Allows(b) /\ Models!Allows(again))
  <2> DEFINE then == [calls[c] EXCEPT !.tried = @ \union {m}]
             n == IF b.label = "half_open" THEN since ELSE 0
             next == IF Models!Allows(b) THEN again ELSE b
  <2>1. /\ breakers' = [breakers EXCEPT ![m] = next]
        /\ calls' = [calls EXCEPT ![c] = then]
        /\ probes' = [probes EXCEPT ![m] = n]
    BY <1>1, <1>6 DEF Models!Probed, since
  <2>2. /\ next \in Breaker /\ next.label = b.label
        /\ b.label = "half_open" => next.half \in Nat /\ b.half <= next.half
    BY <1>2 DEF Breaker
  <2>3. n \in Nat /\ (b.label = "half_open" =>
            n <= 1 /\ n <= next.half /\ (n = 1 => \E d \in Call \ {c} : Calling(d, m)))
    <3>1. b.half \in Nat
      BY <1>2 DEF Breaker
    <3> HIDE DEF next
    <3> QED
      BY <1>2, <1>3, <2>2, <3>1
  <2>4. then \in RouterCall /\ then.label = "fallback"
    BY <1>4 DEF RouterCall
  <2> HIDE DEF then, n, next
  <2> QED
    BY <1>3, <2>1, <2>2, <2>3, <2>4, ModelMove
<1> QED
  BY <1>5, <1>6

LEMMA ModelFailed ==
    ASSUME NEW b \in Breaker
    PROVE  Models!Failed(b) \in Breaker /\ Models!Failed(b).label # "half_open"
<1>1. Models!Failed(b).failures = b.failures + 1 /\ Models!Failed(b).half = b.half
      /\ Models!Failed(b).label \in {b.label, "open"}
  BY DEF Breaker, Models!Failed
<1>2. Models!Failed(b).label # "half_open"
  BY DEF Breaker, Models!Failed
<1>3. Models!Failed(b) \in [label : {"closed", "open", "half_open"}, failures : Nat, half : Nat]
  <2> DEFINE f == b.failures + 1
             l == IF b.label = "half_open" \/ (b.label = "closed" /\ f >= Threshold)
                  THEN "open" ELSE b.label
  <2>1. Models!Failed(b) = [b EXCEPT !.failures = f, !.label = l]
    BY DEF Models!Failed
  <2>2. f \in Nat /\ l \in {"closed", "open", "half_open"} /\ b.half \in Nat
    BY DEF Breaker
  <2> HIDE DEF f, l
  <2> QED
    BY <2>1, <2>2 DEF Breaker
<1> QED
  BY <1>2, <1>3 DEF Breaker

LEMMA ModelNext == ModelInv /\ [Next]_vars => ModelInv'
<1> SUFFICES ASSUME ModelInv, [Next]_vars  PROVE ModelInv'
  OBVIOUS
<1>1. ASSUME NEW c \in Call, NEW m \in Models!Model, Models!Answer(c, m)  PROVE ModelInv'
  <2> DEFINE b == Models!Succeeded(breakers[m])
  <2>1. /\ calls[c].label = "calling" /\ calls[c].model = {m}
        /\ breakers' = [breakers EXCEPT ![m] = b]
        /\ calls' = [calls EXCEPT ![c] = Models!NoCall] /\ probes' = probes
    BY <1>1 DEF Models!Answer
  <2>2. breakers[m] \in Breaker /\ probes[m] \in Nat /\ probes' = [probes EXCEPT ![m] = probes[m]]
    BY <2>1 DEF ModelInv
  <2>3. b \in Breaker /\ b.label # "half_open"
    BY <2>2 DEF Breaker, Models!Succeeded
  <2>4. Models!NoCall \in RouterCall /\ Models!NoCall.label = "none"
    BY DEF Models!NoCall, RouterCall
  <2>5. \A k \in Models!Model \ {m} : ~Calling(c, k)
    BY <2>1 DEF Calling
  <2> HIDE DEF b
  <2> QED
    BY <2>1, <2>2, <2>3, <2>4, <2>5, ModelMove
<1>2. ASSUME NEW c \in Call, NEW m \in Models!Model, Models!Raise(c, m)  PROVE ModelInv'
  <2> DEFINE b == Models!Failed(breakers[m])
             then == calls'[c]
  <2>1. /\ calls[c].label = "calling" /\ calls[c].model = {m}
        /\ breakers' = [breakers EXCEPT ![m] = b]
        /\ calls' = [calls EXCEPT ![c] =
              IF calls[c].attempt < MaxAttempts
                THEN [calls[c] EXCEPT !.attempt = @ + 1]
                ELSE [calls[c] EXCEPT !.label = "fallback", !.model = {}]]
        /\ probes' = probes
    BY <1>2 DEF Models!Raise
  <2>2. breakers[m] \in Breaker /\ probes[m] \in Nat /\ probes' = [probes EXCEPT ![m] = probes[m]]
    BY <2>1 DEF ModelInv
  <2>3. b \in Breaker /\ b.label # "half_open"
    BY <2>2, ModelFailed
  <2>4. then \in RouterCall /\ then.label # "failed" /\ calls' = [calls EXCEPT ![c] = then]
    <3>1. calls[c] \in RouterCall /\ calls \in [Call -> RouterCall]
      BY DEF ModelInv
    <3>2. \/ then = [calls[c] EXCEPT !.attempt = @ + 1]
          \/ then = [calls[c] EXCEPT !.label = "fallback", !.model = {}]
      BY <2>1, <3>1
    <3>3. calls' = [calls EXCEPT ![c] = then]
      BY <2>1, <3>1
    <3> HIDE DEF then
    <3>4. CASE then = [calls[c] EXCEPT !.attempt = @ + 1]
      <4>1. PICK n \in Nat : n = calls[c].attempt + 1
        BY <3>1 DEF RouterCall
      <4>2. then = [calls[c] EXCEPT !.attempt = n]
        BY <3>4, <4>1
      <4> QED
        BY <2>1, <3>1, <3>3, <4>2 DEF RouterCall
    <3>5. CASE then = [calls[c] EXCEPT !.label = "fallback", !.model = {}]
      BY <3>1, <3>3, <3>5 DEF RouterCall
    <3> QED
      BY <3>2, <3>3, <3>4, <3>5
  <2>5. \A k \in Models!Model \ {m} : ~Calling(c, k)
    BY <2>1 DEF Calling
  <2> HIDE DEF b, then
  <2> QED
    BY <2>1, <2>2, <2>3, <2>4, <2>5, ModelMove
<1>3. ASSUME NEW c \in Call, Models!Fallback(c)  PROVE ModelInv'
  <2>1. PICK k \in DOMAIN Fallbacks : calls[c].label = "fallback" /\ Models!Try(c, Fallbacks[k])
    BY <1>3 DEF Models!Fallback, Models!Untried
  <2>2. Fallbacks[k] \in Models!Model
    BY DEF Models!Model, Models!Range
  <2> QED
    BY <2>1, <2>2, ModelTry
<1>4. ASSUME NEW c \in Call, Models!GiveUp(c) \/ Models!Forget(c)  PROVE ModelInv'
  <2>1. /\ UNCHANGED <<breakers, probes>> /\ calls[c].label \in {"fallback", "failed"}
        /\ \/ calls' = [calls EXCEPT ![c] = [@ EXCEPT !.label = "failed"]] /\ Models!Untried(c) = {}
           \/ calls' = [calls EXCEPT ![c] = Models!NoCall]
    BY <1>4 DEF Models!GiveUp, Models!Forget
  <2>2. calls' \in [Call -> RouterCall]
    BY <2>1 DEF ModelInv, RouterCall, Models!NoCall
  <2>3. \A m \in Models!Model : ProbeHeld(m)'
    <3>1. \A d \in Call, m \in Models!Model : Calling(d, m) => Calling(d, m)'
      BY <2>1 DEF Calling, ModelInv
    <3> QED
      BY <2>1, <3>1 DEF ModelInv, ProbeHeld
  <2>4. ASSUME NEW d \in Call  PROVE ChainTried(d)'
    <3>1. CASE calls'[d] = calls[d]
      BY <3>1 DEF ModelInv, ChainTried
    <3>2. CASE d = c /\ calls' = [calls EXCEPT ![c] = Models!NoCall]
      BY <3>2 DEF ModelInv, ChainTried, Models!NoCall
    <3>3. CASE d = c /\ calls' = [calls EXCEPT ![c] = [@ EXCEPT !.label = "failed"]]
               /\ Models!Untried(c) = {}
      <4>1. calls'[c].tried = calls[c].tried
        BY <3>3 DEF ModelInv, RouterCall
      <4>2. \A k \in DOMAIN Fallbacks : Fallbacks[k] \in calls[c].tried
        BY <3>3 DEF Models!Untried
      <4> QED
        BY <3>3, <4>1, <4>2 DEF ChainTried, Models!Model, Models!Range
    <3> QED
      BY <2>1, <3>1, <3>2, <3>3 DEF ModelInv
  <2> QED
    BY <2>1, <2>2, <2>3, <2>4 DEF ModelInv
<1>5. CASE UNCHANGED modelVars
  BY <1>5 DEF modelVars, ModelInv, ProbeHeld, ChainTried, Calling
<1> QED
  BY <1>1, <1>2, <1>3, <1>4, <1>5, ModelRequest, ModelSteps DEF Models!Next

(***************************************************************************)
(* A half-open model gets one call at a time, which is under way until the *)
(* breaker leaves that state, however requests interleave; and a request   *)
(* fails only after every model of the chain was tried or refused it.      *)
(***************************************************************************)
THEOREM OneProbeWholeChain == Spec => []ProbesAndChain
<1>1. ModelInv => ProbesAndChain
  BY DEF ModelInv, ProbeHeld, ChainTried, Calling, ProbesAndChain, Models!ProbesAndChain
<1> QED
  BY <1>1, ModelInit, ModelNext, PTL DEF Spec

(***************************************************************************)
(* The agent gateway's streams                                             *)
(***************************************************************************)

LEMMA GatewaySteps == [Next]_vars => Gateway!Next \/ UNCHANGED gatewayVars
  BY Zenon DEF Next, Only, vars

Shown == [number : Nat, event : Nat]

\* What a connection was given, the number it has reached, what waits for it and
\* the events published so far: numbers grow up to the one reached, events come
\* in order, and what waits is newer than what was given.
Ordered(log, reached, waiting, top) ==
    /\ log \in Seq(Shown) /\ waiting \in Seq(Nat)
    /\ reached \in Nat /\ top \in Nat
    /\ \A k \in 1..Len(log) : 0 < log[k].number /\ log[k].number <= reached
    /\ \A j, k \in 1..Len(log) :
           j < k => /\ log[j].number < log[k].number
                    /\ log[k].event # 0 => log[j].event < log[k].event
    /\ \A j, k \in 1..Len(waiting) : j < k => waiting[j] < waiting[k]
    /\ \A k \in 1..Len(waiting) : 0 < waiting[k] /\ waiting[k] <= top
    /\ \A j \in 1..Len(log) : log[j].event <= top
    /\ \A j \in 1..Len(log), k \in 1..Len(waiting) : log[j].event < waiting[k]

LEMMA OrderedTypes ==
    ASSUME NEW s, NEW n, NEW w, NEW p, Ordered(s, n, w, p)
    PROVE  /\ n \in Nat /\ p \in Nat /\ Len(s) \in Nat /\ Len(w) \in Nat
           /\ \A k \in 1..Len(s) : /\ s[k].number \in Nat /\ 0 < s[k].number /\ s[k].number <= n
                                    /\ s[k].event \in Nat /\ s[k].event <= p
           /\ \A k \in 1..Len(w) : w[k] \in Nat /\ 0 < w[k] /\ w[k] <= p
<1>1. n \in Nat /\ p \in Nat /\ s \in Seq(Shown) /\ w \in Seq(Nat)
  BY DEF Ordered
<1>2. ASSUME NEW k \in 1..Len(s)  PROVE s[k].number \in Nat /\ s[k].event \in Nat
  <2>1. s[k] \in Shown
    BY <1>1, ElementOfSeq
  <2> QED
    BY <2>1 DEF Shown
<1>3. \A k \in 1..Len(w) : w[k] \in Nat
  BY <1>1
<1> QED
  BY <1>1, <1>2, <1>3 DEF Ordered

\* The next number with a heartbeat.
LEMMA GivenBeat ==
    ASSUME NEW s, NEW n, NEW w, NEW p, Ordered(s, n, w, p)
    PROVE  Ordered(Append(s, [number |-> n + 1, event |-> 0]), n + 1, w, p)
<1> DEFINE e == [number |-> n + 1, event |-> 0]
           t == Append(s, e)
<1>1. e \in Shown /\ s \in Seq(Shown) /\ e.number = n + 1 /\ e.event = 0 /\ n + 1 \in Nat
  BY DEF Ordered, Shown
<1> HIDE DEF e
<1>2. /\ t \in Seq(Shown) /\ Len(t) = Len(s) + 1 /\ Len(s) \in Nat
      /\ \A k \in 1..Len(s) : t[k] = s[k] /\ s[k] \in Shown
      /\ t[Len(s) + 1] = e
  BY <1>1, AppendProperties
<1>3. \A k \in 1..Len(t) : k \in 1..Len(s) \/ k = Len(s) + 1
  BY <1>2
<1> HIDE DEF t
<1>4. /\ n \in Nat /\ p \in Nat
      /\ \A k \in 1..Len(s) : /\ s[k].number \in Nat /\ 0 < s[k].number /\ s[k].number <= n
                               /\ s[k].event \in Nat /\ s[k].event <= p
      /\ \A k \in 1..Len(w) : w[k] \in Nat /\ 0 < w[k] /\ w[k] <= p
  BY OrderedTypes
<1>5. \A k \in 1..Len(t) : 0 < t[k].number /\ t[k].number <= n + 1
  BY <1>1, <1>2, <1>3, <1>4
<1>6. ASSUME NEW j \in 1..Len(t), NEW k \in 1..Len(t), j < k
      PROVE  /\ t[j].number < t[k].number
             /\ t[k].event # 0 => t[j].event < t[k].event
  <2>1. j \in 1..Len(s)
    BY <1>2, <1>6
  <2> QED
    <3>1. CASE k = Len(s) + 1
      BY <1>1, <1>2, <1>4, <2>1, <3>1
    <3>2. CASE k \in 1..Len(s)
      BY <1>2, <1>6, <2>1, <3>2 DEF Ordered
    <3> QED
      BY <1>3, <3>1, <3>2
<1>7. ASSUME NEW j \in 1..Len(t)  PROVE t[j].event <= p /\ \A k \in 1..Len(w) : t[j].event < w[k]
  <2>1. CASE j \in 1..Len(s)
    BY <1>2, <1>4, <2>1 DEF Ordered
  <2>2. CASE j = Len(s) + 1
    BY <1>1, <1>2, <1>4, <2>2
  <2> QED
    BY <1>3, <2>1, <2>2
<1>8. Ordered(t, n + 1, w, p)
  BY <1>1, <1>2, <1>5, <1>6, <1>7 DEF Ordered
<1> QED
  BY <1>8 DEF t, e

\* The next number with the event that waits first.
LEMMA GivenEvent ==
    ASSUME NEW s, NEW n, NEW w, NEW p, Ordered(s, n, w, p), w # <<>>
    PROVE  Ordered(Append(s, [number |-> n + 1, event |-> Head(w)]), n + 1, Tail(w), p)
<1> DEFINE e == [number |-> n + 1, event |-> Head(w)]
           t == Append(s, e)
           v == Tail(w)
<1>1. /\ w \in Seq(Nat) /\ Len(w) \in Nat /\ Len(w) >= 1 /\ Head(w) = w[1] /\ Head(w) \in Nat
      /\ v \in Seq(Nat) /\ Len(v) = Len(w) - 1
      /\ \A k \in 1..Len(v) : v[k] = w[k + 1]
  BY HeadTailProperties, EmptySeq DEF Ordered
<1>2. e \in Shown /\ s \in Seq(Shown) /\ e.number = n + 1 /\ e.event = w[1] /\ n + 1 \in Nat
  BY <1>1 DEF Ordered, Shown
<1> HIDE DEF e, v
<1>3. /\ t \in Seq(Shown) /\ Len(t) = Len(s) + 1 /\ Len(s) \in Nat
      /\ \A k \in 1..Len(s) : t[k] = s[k] /\ s[k] \in Shown
      /\ t[Len(s) + 1] = e
  BY <1>2, AppendProperties
<1>4. \A k \in 1..Len(t) : k \in 1..Len(s) \/ k = Len(s) + 1
  BY <1>3
<1> HIDE DEF t
<1>5. /\ n \in Nat /\ p \in Nat
      /\ \A k \in 1..Len(s) : /\ s[k].number \in Nat /\ 0 < s[k].number /\ s[k].number <= n
                               /\ s[k].event \in Nat /\ s[k].event <= p
      /\ \A k \in 1..Len(w) : w[k] \in Nat /\ 0 < w[k] /\ w[k] <= p
  BY OrderedTypes
<1>6. \A k \in 1..Len(t) : 0 < t[k].number /\ t[k].number <= n + 1
  BY <1>2, <1>3, <1>4, <1>5
<1>7. ASSUME NEW j \in 1..Len(t), NEW k \in 1..Len(t), j < k
      PROVE  /\ t[j].number < t[k].number
             /\ t[k].event # 0 => t[j].event < t[k].event
  <2>1. j \in 1..Len(s)
    BY <1>3, <1>7
  <2>2. 1 \in 1..Len(w)
    BY <1>1
  <2> QED
    <3>1. CASE k = Len(s) + 1
      <4>1. s[j].event < w[1]
        BY <2>1, <2>2 DEF Ordered
      <4> QED
        BY <1>2, <1>3, <1>5, <2>1, <3>1, <4>1
    <3>2. CASE k \in 1..Len(s)
      BY <1>3, <1>7, <2>1, <3>2 DEF Ordered
    <3> QED
      BY <1>4, <3>1, <3>2
<1>8. \A k \in 1..Len(v) : /\ k + 1 \in 1..Len(w) /\ 1 \in 1..Len(w) /\ 1 < k + 1
                            /\ v[k] = w[k + 1] /\ v[k] \in Nat
  <2> SUFFICES ASSUME NEW k \in 1..Len(v)
               PROVE  /\ k + 1 \in 1..Len(w) /\ 1 \in 1..Len(w) /\ 1 < k + 1
                      /\ v[k] = w[k + 1] /\ v[k] \in Nat
    OBVIOUS
  <2>1. k + 1 \in 1..Len(w) /\ 1 \in 1..Len(w) /\ 1 < k + 1
    BY <1>1
  <2>2. v[k] = w[k + 1]
    BY <1>1
  <2>3. w[k + 1] \in Nat
    BY <1>5, <2>1
  <2> QED
    BY <2>1, <2>2, <2>3
<1>9. \A j, k \in 1..Len(v) : j < k => v[j] < v[k]
  <2> SUFFICES ASSUME NEW j \in 1..Len(v), NEW k \in 1..Len(v), j < k  PROVE v[j] < v[k]
    OBVIOUS
  <2>1. j + 1 < k + 1
    OBVIOUS
  <2> QED
    BY <1>8, <2>1 DEF Ordered
<1>10. \A k \in 1..Len(v) : 0 < v[k] /\ v[k] <= p
  BY <1>8 DEF Ordered
<1>11. ASSUME NEW j \in 1..Len(t)  PROVE t[j].event <= p /\ \A k \in 1..Len(v) : t[j].event < v[k]
  <2>1. CASE j \in 1..Len(s)
    <3>1. t[j].event = s[j].event
      BY <1>3, <2>1
    <3> QED
      BY <1>5, <1>8, <2>1, <3>1 DEF Ordered
  <2>2. CASE j = Len(s) + 1
    <3>1. t[j].event = w[1] /\ 1 \in 1..Len(w)
      BY <1>1, <1>2, <1>3, <2>2
    <3> QED
      BY <1>8, <3>1 DEF Ordered
  <2> QED
    BY <1>4, <2>1, <2>2
<1>12. Ordered(t, n + 1, v, p)
  BY <1>1, <1>2, <1>3, <1>6, <1>7, <1>9, <1>10, <1>11 DEF Ordered
<1> QED
  BY <1>12 DEF t, e, v

\* The event that waits first is passed over.
LEMMA PassedOver ==
    ASSUME NEW s, NEW n, NEW w, NEW p, Ordered(s, n, w, p), w # <<>>
    PROVE  Ordered(s, n, Tail(w), p)
<1> DEFINE v == Tail(w)
<1>1. /\ w \in Seq(Nat) /\ Len(w) \in Nat
      /\ v \in Seq(Nat) /\ Len(v) = Len(w) - 1
      /\ \A k \in 1..Len(v) : v[k] = w[k + 1]
  BY HeadTailProperties DEF Ordered
<1> HIDE DEF v
<1>2. \A k \in 1..Len(v) : k + 1 \in 1..Len(w) /\ v[k] = w[k + 1]
  BY <1>1
<1>3. \A j, k \in 1..Len(v) : j < k => v[j] < v[k]
  <2> SUFFICES ASSUME NEW j \in 1..Len(v), NEW k \in 1..Len(v), j < k  PROVE v[j] < v[k]
    OBVIOUS
  <2>1. j + 1 < k + 1
    OBVIOUS
  <2> QED
    BY <1>2, <2>1 DEF Ordered
<1>4. /\ \A k \in 1..Len(v) : 0 < v[k] /\ v[k] <= p
      /\ \A j \in 1..Len(s), k \in 1..Len(v) : s[j].event < v[k]
  BY <1>2 DEF Ordered
<1>5. Ordered(s, n, v, p)
  BY <1>1, <1>3, <1>4 DEF Ordered
<1> QED
  BY <1>5 DEF v

LEMMA NumberGoesOn ==
    ASSUME NEW s, NEW n, NEW w, NEW p, Ordered(s, n, w, p)
    PROVE  Ordered(s, n + 1, w, p)
<1>1. n + 1 \in Nat
  BY DEF Ordered
<1>2. \A k \in 1..Len(s) : 0 < s[k].number /\ s[k].number <= n + 1
  <2> SUFFICES ASSUME NEW k \in 1..Len(s)  PROVE 0 < s[k].number /\ s[k].number <= n + 1
    OBVIOUS
  <2>1. s[k] \in Shown /\ s[k].number <= n /\ 0 < s[k].number /\ n \in Nat
    BY DEF Ordered
  <2>2. s[k].number \in Nat
    BY <2>1 DEF Shown
  <2> QED
    BY <2>1, <2>2
<1> QED
  BY <1>1, <1>2 DEF Ordered

\* An event is published, to a connection that has subscribed or has not.
LEMMA EventPublished ==
    ASSUME NEW s, NEW n, NEW w, NEW p, Ordered(s, n, w, p)
    PROVE  Ordered(s, n, w, p + 1) /\ Ordered(s, n, Append(w, p + 1), p + 1)
<1> DEFINE v == Append(w, p + 1)
<1>1. p \in Nat /\ p + 1 \in Nat /\ s \in Seq(Shown) /\ w \in Seq(Nat)
  BY DEF Ordered
<1>2. /\ v \in Seq(Nat) /\ Len(v) = Len(w) + 1 /\ Len(w) \in Nat
      /\ \A k \in 1..Len(w) : v[k] = w[k] /\ w[k] \in Nat
      /\ v[Len(w) + 1] = p + 1
  BY <1>1, AppendProperties
<1>3. \A k \in 1..Len(v) : k \in 1..Len(w) \/ k = Len(w) + 1
  BY <1>2
<1> HIDE DEF v
<1>4. \A j \in 1..Len(s) : s[j].event \in Nat /\ s[j].event <= p + 1 /\ s[j].event < p + 1
  <2> SUFFICES ASSUME NEW j \in 1..Len(s)
               PROVE  s[j].event \in Nat /\ s[j].event <= p + 1 /\ s[j].event < p + 1
    OBVIOUS
  <2>1. s[j].event \in Nat /\ s[j].event <= p
    BY OrderedTypes
  <2> QED
    BY <1>1, <2>1
<1>5. \A k \in 1..Len(w) : w[k] \in Nat /\ 0 < w[k] /\ w[k] <= p + 1 /\ w[k] < p + 1
  <2> SUFFICES ASSUME NEW k \in 1..Len(w)  PROVE w[k] \in Nat /\ 0 < w[k] /\ w[k] <= p + 1 /\ w[k] < p + 1
    OBVIOUS
  <2>1. w[k] \in Nat /\ 0 < w[k] /\ w[k] <= p
    BY OrderedTypes
  <2> QED
    BY <1>1, <2>1
<1>6. Ordered(s, n, w, p + 1)
  BY <1>1, <1>4, <1>5 DEF Ordered
<1>7. ASSUME NEW j \in 1..Len(v), NEW k \in 1..Len(v), j < k  PROVE v[j] < v[k]
  <2>1. j \in 1..Len(w)
    BY <1>2, <1>7
  <2> QED
    <3>1. CASE k = Len(w) + 1
      BY <1>2, <1>5, <2>1, <3>1
    <3>2. CASE k \in 1..Len(w)
      BY <1>2, <1>7, <2>1, <3>2 DEF Ordered
    <3> QED
      BY <1>3, <3>1, <3>2
<1>8. \A k \in 1..Len(v) : 0 < v[k] /\ v[k] <= p + 1
  <2> SUFFICES ASSUME NEW k \in 1..Len(v)  PROVE 0 < v[k] /\ v[k] <= p + 1
    OBVIOUS
  <2>1. CASE k \in 1..Len(w)
    <3>1. v[k] = w[k]
      BY <1>2, <2>1
    <3>2. 0 < w[k] /\ w[k] <= p + 1
      BY <1>5, <2>1
    <3> QED
      BY <3>1, <3>2
  <2>2. CASE k = Len(w) + 1
    <3>1. v[k] = p + 1
      BY <1>2, <2>2
    <3> QED
      BY <1>1, <3>1
  <2> QED
    BY <1>3, <2>1, <2>2
<1>9. \A j \in 1..Len(s), k \in 1..Len(v) : s[j].event < v[k]
  <2> SUFFICES ASSUME NEW j \in 1..Len(s), NEW k \in 1..Len(v)  PROVE s[j].event < v[k]
    OBVIOUS
  <2>1. CASE k \in 1..Len(w)
    BY <1>2, <2>1 DEF Ordered
  <2>2. CASE k = Len(w) + 1
    BY <1>2, <1>4, <2>2
  <2> QED
    BY <1>3, <2>1, <2>2
<1>10. Ordered(s, n, v, p + 1)
  BY <1>1, <1>2, <1>6, <1>7, <1>8, <1>9 DEF Ordered
<1> QED
  BY <1>6, <1>10 DEF v

\* A connection that has ended waits for nothing.
LEMMA NothingWaits ==
    ASSUME NEW s, NEW n, NEW w, NEW p, Ordered(s, n, w, p)
    PROVE  Ordered(s, n, <<>>, p)
  BY DEF Ordered

Place == {"none", "accepted", "greeting", "polling", "beating", "writing", "ended", "abandoned"}

\* The connections that are counted.
Counted == {c \in Connection : stream[c] \notin {"none", "ended"}}

GatewayTypes ==
    /\ stream \in [Connection -> Place]
    /\ sessions \subseteq Connection
    /\ sequence \in [Connection -> Nat]
    /\ resumeAfter \in [Connection -> Nat]
    /\ inbox \in [Connection -> Seq(Nat)]
    /\ shown \in [Connection -> Seq(Shown)]
    /\ connections \in Nat /\ broadcasts \in Nat

GatewayInv ==
    /\ GatewayTypes
    /\ \A c \in Connection : Ordered(shown[c], sequence[c], inbox[c], broadcasts)
    /\ IsFiniteSet(Counted) /\ connections = Cardinality(Counted)
    /\ connections <= MaxConnections

LEMMA GatewayInit == Init => GatewayInv
<1> SUFFICES ASSUME Init  PROVE GatewayInv
  OBVIOUS
<1>1. Gateway!Init
  BY Zenon DEF Init
<1>2. GatewayTypes
  BY <1>1 DEF Gateway!Init, GatewayTypes, Place
<1>3. \A c \in Connection : Ordered(shown[c], sequence[c], inbox[c], broadcasts)
  BY <1>1 DEF Gateway!Init, Ordered
<1>4. Counted = {}
  BY <1>1 DEF Gateway!Init, Counted
<1>5. IsFiniteSet(Counted) /\ Cardinality(Counted) = 0
  BY <1>4, FS_EmptySet
<1>6. connections = 0 /\ MaxConnections \in Nat
  BY <1>1, ServiceTypes DEF Gateway!Init
<1> QED
  BY <1>2, <1>3, <1>5, <1>6 DEF GatewayInv

\* One connection's generator moves, to a place where it is counted as before.
LEMMA GatewayMove ==
    ASSUME GatewayInv, NEW c \in Connection, NEW place \in Place,
           stream' = [stream EXCEPT ![c] = place],
           stream[c] \notin {"none", "ended"}, place \notin {"none", "ended"},
           sessions' \subseteq sessions, UNCHANGED <<resumeAfter, connections, broadcasts>>,
           NEW n \in Nat, NEW s, NEW w,
           sequence' = [sequence EXCEPT ![c] = n],
           shown' = [shown EXCEPT ![c] = s],
           inbox' = [inbox EXCEPT ![c] = w],
           Ordered(s, n, w, broadcasts)
    PROVE  GatewayInv'
<1>1. s \in Seq(Shown) /\ w \in Seq(Nat)
  BY DEF Ordered
<1>2. GatewayTypes'
  BY <1>1 DEF GatewayInv, GatewayTypes
<1>3. ASSUME NEW d \in Connection  PROVE Ordered(shown[d], sequence[d], inbox[d], broadcasts)'
  <2>1. CASE d = c
    <3>1. shown'[d] = s /\ sequence'[d] = n /\ inbox'[d] = w /\ broadcasts' = broadcasts
      BY <2>1 DEF GatewayInv, GatewayTypes
    <3> QED
      BY <3>1
  <2>2. CASE d # c
    <3>1. shown'[d] = shown[d] /\ sequence'[d] = sequence[d] /\ inbox'[d] = inbox[d] /\ broadcasts' = broadcasts
      BY <2>2 DEF GatewayInv, GatewayTypes
    <3> QED
      BY <3>1 DEF GatewayInv
  <2> QED
    BY <2>1, <2>2
<1>4. Counted' = Counted
  BY DEF Counted, GatewayInv, GatewayTypes
<1> QED
  BY <1>2, <1>3, <1>4 DEF GatewayInv

LEMMA GatewayEnd ==
    ASSUME GatewayInv, NEW c \in Connection, stream[c] \notin {"none", "ended"}, Gateway!End(c)
    PROVE  GatewayInv'
<1>1. /\ stream' = [stream EXCEPT ![c] = "ended"]
      /\ sessions' = sessions \ {c}
      /\ connections' = IF connections <= 1 THEN 0 ELSE connections - 1
      /\ inbox' = [inbox EXCEPT ![c] = <<>>]
      /\ UNCHANGED <<sequence, resumeAfter, broadcasts, shown>>
  BY DEF Gateway!End
<1>2. GatewayTypes'
  <2>1. stream' \in [Connection -> Place] /\ sessions' \subseteq Connection
    BY <1>1 DEF GatewayInv, GatewayTypes, Place
  <2>2. inbox' \in [Connection -> Seq(Nat)]
    BY <1>1 DEF GatewayInv, GatewayTypes
  <2>3. connections' \in Nat
    BY <1>1 DEF GatewayInv, GatewayTypes
  <2> QED
    BY <1>1, <2>1, <2>2, <2>3 DEF GatewayInv, GatewayTypes
<1>3. ASSUME NEW d \in Connection  PROVE Ordered(shown[d], sequence[d], inbox[d], broadcasts)'
  <2>1. Ordered(shown[d], sequence[d], inbox[d], broadcasts)
    BY DEF GatewayInv
  <2>2. inbox'[d] \in {inbox[d], <<>>}
    BY <1>1 DEF GatewayInv, GatewayTypes
  <2> QED
    BY <1>1, <2>1, <2>2, NothingWaits
<1>4. c \in Counted /\ Counted' = Counted \ {c}
  BY <1>1 DEF Counted, GatewayInv, GatewayTypes
<1>5. IsFiniteSet(Counted') /\ Cardinality(Counted') = Cardinality(Counted) - 1
  BY <1>4, FS_RemoveElement DEF GatewayInv
<1>6. connections' = Cardinality(Counted') /\ connections' <= MaxConnections
  <2>1. /\ connections = Cardinality(Counted) /\ connections \in Nat /\ connections <= MaxConnections
        /\ MaxConnections \in Nat /\ Cardinality(Counted') \in Nat
    BY <1>5, ServiceTypes, FS_CardinalityType DEF GatewayInv, GatewayTypes
  <2> QED
    BY <1>1, <1>5, <2>1
<1> QED
  BY <1>2, <1>3, <1>5, <1>6 DEF GatewayInv

LEMMA GatewayOpen ==
    ASSUME GatewayInv, NEW c \in Connection, Gateway!Open(c)
    PROVE  GatewayInv'
<1>1. /\ stream[c] = "none" /\ connections < MaxConnections
      /\ stream' = [stream EXCEPT ![c] = "accepted"]
      /\ sessions' = sessions \union {c}
      /\ connections' = connections + 1
      /\ UNCHANGED <<sequence, inbox, broadcasts, shown>>
  BY DEF Gateway!Open
<1>2. PICK id \in Gateway!LastEventIds : resumeAfter' = [resumeAfter EXCEPT ![c] = id]
  BY DEF Gateway!Open
<1>3. id \in Nat
  <2>1. CASE id = 0
    BY <2>1
  <2>2. CASE id # 0
    <3>1. PICK d \in Connection : shown[d] # <<>> /\ id = shown[d][Len(shown[d])].number
      BY <1>2, <2>2 DEF Gateway!LastEventIds
    <3>2. shown[d] \in Seq(Shown) /\ Len(shown[d]) \in Nat \ {0}
      BY <3>1, EmptySeq DEF GatewayInv, GatewayTypes
    <3>3. shown[d][Len(shown[d])] \in Shown
      BY <3>2, ElementOfSeq
    <3> QED
      BY <3>1, <3>3 DEF Shown
  <2> QED
    BY <2>1, <2>2
<1>4. GatewayTypes'
  <2>1. stream' \in [Connection -> Place] /\ sessions' \subseteq Connection
    BY <1>1 DEF GatewayInv, GatewayTypes, Place
  <2>2. resumeAfter' \in [Connection -> Nat] /\ connections' \in Nat
    BY <1>1, <1>2, <1>3 DEF GatewayInv, GatewayTypes
  <2> QED
    BY <1>1, <2>1, <2>2 DEF GatewayInv, GatewayTypes
<1>5. \A d \in Connection : Ordered(shown[d], sequence[d], inbox[d], broadcasts)'
  BY <1>1 DEF GatewayInv
<1>6. c \notin Counted /\ Counted' = Counted \union {c}
  BY <1>1 DEF Counted, GatewayInv, GatewayTypes
<1>7. IsFiniteSet(Counted') /\ Cardinality(Counted') = Cardinality(Counted) + 1
  BY <1>6, FS_AddElement DEF GatewayInv
<1>8. connections' = Cardinality(Counted') /\ connections' <= MaxConnections
  BY <1>1, <1>7, ServiceTypes DEF GatewayInv, GatewayTypes
<1> QED
  BY <1>4, <1>5, <1>7, <1>8 DEF GatewayInv

\* A number is given only while the session is kept: without it, the number
\* would be 0, which no Last-Event-ID is below.
LEMMA GatewayPoll ==
    ASSUME GatewayInv, NEW c \in Connection, Gateway!Poll(c)
    PROVE  GatewayInv'
<1>1. /\ stream[c] \in {"polling", "beating"}
      /\ UNCHANGED <<sessions, resumeAfter, connections, broadcasts>>
      /\ IF inbox[c] = <<>>
         THEN /\ stream' = [stream EXCEPT ![c] = "polling"]
              /\ UNCHANGED <<sequence, inbox, shown>>
         ELSE /\ inbox' = [inbox EXCEPT ![c] = Tail(@)]
              /\ \/ /\ stream' = [stream EXCEPT ![c] = "polling"]
                    /\ UNCHANGED <<sequence, shown>>
                 \/ /\ stream' = [stream EXCEPT ![c] = "polling"]
                    /\ Gateway!Counted(c)
                    /\ UNCHANGED shown
                 \/ /\ Gateway!NextSequence(c) > resumeAfter[c]
                    /\ Gateway!Yield(c, Head(inbox[c]), "writing")
  BY DEF Gateway!Poll
<1>2. Ordered(shown[c], sequence[c], inbox[c], broadcasts)
  BY DEF GatewayInv
<1>3. /\ sequence[c] \in Nat /\ sequence[c] + 1 \in Nat /\ resumeAfter[c] \in Nat
      /\ sequence = [sequence EXCEPT ![c] = sequence[c]]
      /\ shown = [shown EXCEPT ![c] = shown[c]]
      /\ inbox = [inbox EXCEPT ![c] = inbox[c]]
  BY DEF GatewayInv, GatewayTypes
<1>4. {"polling", "writing"} \subseteq Place \ {"none", "ended"}
  BY DEF Place
<1>5. CASE inbox[c] = <<>>
  BY <1>1, <1>2, <1>3, <1>4, <1>5, GatewayMove
<1>6. CASE inbox[c] # <<>> /\ stream' = [stream EXCEPT ![c] = "polling"] /\ UNCHANGED shown
  <2>1. inbox' = [inbox EXCEPT ![c] = Tail(inbox[c])]
    BY <1>1, <1>6
  <2>2. PICK n \in {sequence[c], sequence[c] + 1} : sequence' = [sequence EXCEPT ![c] = n]
    <3>1. \/ sequence' = sequence
          \/ Gateway!Counted(c)
      BY <1>1, <1>6 DEF Gateway!Yield
    <3> QED
      BY <1>3, <3>1 DEF Gateway!Counted
  <2>3. Ordered(shown[c], n, Tail(inbox[c]), broadcasts) /\ n \in Nat
    BY <1>2, <1>3, <1>6, <2>2, PassedOver, NumberGoesOn
  <2> QED
    BY <1>1, <1>3, <1>4, <1>6, <2>1, <2>2, <2>3, GatewayMove
<1>7. CASE /\ inbox[c] # <<>>
           /\ Gateway!NextSequence(c) > resumeAfter[c]
           /\ Gateway!Yield(c, Head(inbox[c]), "writing")
  <2>1. c \in sessions
    BY <1>3, <1>7 DEF Gateway!NextSequence
  <2> DEFINE n == sequence[c] + 1
             s == Append(shown[c], [number |-> n, event |-> Head(inbox[c])])
  <2>2. inbox' = [inbox EXCEPT ![c] = Tail(inbox[c])]
    BY <1>1, <1>7
  <2>3. /\ stream' = [stream EXCEPT ![c] = "writing"]
        /\ sequence' = [sequence EXCEPT ![c] = n]
        /\ shown' = [shown EXCEPT ![c] = s]
    BY <1>7, <2>1 DEF Gateway!Yield, Gateway!Counted, Gateway!NextSequence
  <2>4. Ordered(s, n, Tail(inbox[c]), broadcasts)
    BY <1>2, <1>7, GivenEvent
  <2>5. n \in Nat
    BY <1>3
  <2> HIDE DEF n, s
  <2> QED
    BY <1>1, <1>4, <2>2, <2>3, <2>4, <2>5, GatewayMove
<1> QED
  BY <1>1, <1>5, <1>6, <1>7

LEMMA GatewayBeat ==
    ASSUME GatewayInv, NEW c \in Connection, c \in sessions,
           stream[c] \in {"accepted", "polling"}, NEW place \in {"greeting", "beating"},
           Gateway!Yield(c, 0, place),
           UNCHANGED <<sessions, resumeAfter, inbox, connections, broadcasts>>
    PROVE  GatewayInv'
<1> DEFINE n == sequence[c] + 1
           s == Append(shown[c], [number |-> n, event |-> 0])
<1>1. /\ stream' = [stream EXCEPT ![c] = place]
      /\ sequence' = [sequence EXCEPT ![c] = n]
      /\ shown' = [shown EXCEPT ![c] = s]
  BY DEF Gateway!Yield, Gateway!Counted, Gateway!NextSequence
<1>2. inbox' = [inbox EXCEPT ![c] = inbox[c]] /\ n \in Nat
  BY DEF GatewayInv, GatewayTypes
<1>3. Ordered(s, n, inbox[c], broadcasts)
  BY GivenBeat DEF GatewayInv
<1>4. place \in Place /\ place \notin {"none", "ended"}
  BY DEF Place
<1> HIDE DEF n, s
<1> QED
  BY <1>1, <1>2, <1>3, <1>4, GatewayMove

LEMMA GatewayRest ==
    ASSUME GatewayInv, NEW c \in Connection, NEW place \in Place,
           stream' = [stream EXCEPT ![c] = place],
           stream[c] \notin {"none", "ended"}, place \notin {"none", "ended"},
           sessions' \subseteq sessions,
           UNCHANGED <<sequence, resumeAfter, inbox, connections, broadcasts, shown>>
    PROVE  GatewayInv'
<1> DEFINE n == sequence[c]  s == shown[c]  w == inbox[c]
<1>1. sequence' = [sequence EXCEPT ![c] = n] /\ n \in Nat
  BY DEF GatewayInv, GatewayTypes
<1>2. shown' = [shown EXCEPT ![c] = s] /\ inbox' = [inbox EXCEPT ![c] = w]
  BY DEF GatewayInv, GatewayTypes
<1>3. Ordered(s, n, w, broadcasts)
  BY DEF GatewayInv
<1>4. UNCHANGED <<resumeAfter, connections, broadcasts>>
  OBVIOUS
<1> HIDE DEF n, s, w
<1> QED
  BY <1>1, <1>2, <1>3, <1>4, GatewayMove

LEMMA GatewayNext == GatewayInv /\ [Next]_vars => GatewayInv'
<1> SUFFICES ASSUME GatewayInv, [Next]_vars  PROVE GatewayInv'
  OBVIOUS
<1>1. CASE Gateway!Broadcast
  <2>1. /\ broadcasts' = broadcasts + 1
        /\ inbox' = [c \in Connection |->
                        IF Gateway!Subscribed(c) THEN Append(inbox[c], broadcasts + 1) ELSE inbox[c]]
        /\ UNCHANGED <<stream, sessions, sequence, resumeAfter, connections, shown>>
    BY <1>1 DEF Gateway!Broadcast
  <2>2. ASSUME NEW c \in Connection  PROVE Ordered(shown[c], sequence[c], inbox[c], broadcasts)'
    <3>1. Ordered(shown[c], sequence[c], inbox[c], broadcasts)
      BY DEF GatewayInv
    <3>2. inbox'[c] \in {inbox[c], Append(inbox[c], broadcasts + 1)}
      BY <2>1
    <3> QED
      BY <2>1, <3>1, <3>2, EventPublished
  <2>3. ASSUME NEW c \in Connection  PROVE inbox'[c] \in Seq(Nat)
    BY <2>2 DEF Ordered
  <2>4. inbox' \in [Connection -> Seq(Nat)]
    BY <2>1, <2>3
  <2>5. GatewayTypes'
    BY <2>1, <2>4 DEF GatewayInv, GatewayTypes
  <2>6. Counted' = Counted
    BY <2>1 DEF Counted
  <2> QED
    BY <2>1, <2>2, <2>5, <2>6 DEF GatewayInv
<1>2. ASSUME NEW c \in Connection, Gateway!Begin(c)  PROVE GatewayInv'
  <2>1. stream[c] = "accepted"
    BY <1>2 DEF Gateway!Begin
  <2>2. CASE c \in sessions
    BY <1>2, <2>1, <2>2, GatewayBeat DEF Gateway!Begin
  <2>3. CASE c \notin sessions
    BY <1>2, <2>1, <2>3, GatewayEnd DEF Gateway!Begin
  <2> QED
    BY <2>2, <2>3
<1>3. ASSUME NEW c \in Connection, Gateway!Abandon(c)  PROVE GatewayInv'
  BY <1>3, GatewayRest DEF Gateway!Abandon, Place
<1>4. ASSUME NEW c \in Connection, Gateway!Resume(c)  PROVE GatewayInv'
  BY <1>4, GatewayRest DEF Gateway!Resume, Place
<1>5. ASSUME NEW c \in Connection, Gateway!Heartbeat(c)  PROVE GatewayInv'
  BY <1>5, GatewayBeat DEF Gateway!Heartbeat
<1>6. ASSUME NEW c \in Connection, Gateway!SessionGone(c) \/ Gateway!Break(c)  PROVE GatewayInv'
  BY <1>6, GatewayEnd DEF Gateway!SessionGone, Gateway!Break, Gateway!Begun
<1>7. ASSUME NEW c \in Connection, Gateway!CleanUp(c)  PROVE GatewayInv'
  <2>1. /\ stream[c] \notin {"none", "ended"} /\ sessions' \subseteq sessions
        /\ UNCHANGED <<stream, sequence, resumeAfter, inbox, connections, broadcasts, shown>>
    BY <1>7 DEF Gateway!CleanUp, Gateway!Resting
  <2>2. stream[c] \in Place /\ stream' = [stream EXCEPT ![c] = stream[c]]
    BY <2>1 DEF GatewayInv, GatewayTypes
  <2> QED
    BY <2>1, <2>2, GatewayRest
<1>8. CASE UNCHANGED gatewayVars
  BY <1>8 DEF gatewayVars, GatewayInv, GatewayTypes, Counted
<1> QED
  BY <1>1, <1>2, <1>3, <1>4, <1>5, <1>6, <1>7, <1>8, GatewayOpen, GatewayPoll, GatewaySteps
  DEF Gateway!Next

(***************************************************************************)
(* A browser is given growing numbers and every event at most once and in  *)
(* order, also when its session is cleaned up while its generator rests;   *)
(* and the address is charged for the connections that have not ended, of  *)
(* which there are never more than the limit.                              *)
(***************************************************************************)
THEOREM BrowsersSeeOrder == Spec => []StreamsInOrder
<1>1. GatewayInv => StreamsInOrder
  <2> SUFFICES ASSUME GatewayInv  PROVE Gateway!InOrder /\ Gateway!ConnectionsCounted
    BY DEF StreamsInOrder
  <2>1. ASSUME NEW c \in Connection, NEW j \in DOMAIN shown[c], NEW k \in DOMAIN shown[c], j < k
        PROVE  /\ 0 < shown[c][j].number
               /\ shown[c][j].number < shown[c][k].number
               /\ shown[c][k].event # 0 => shown[c][j].event < shown[c][k].event
    <3>1. Ordered(shown[c], sequence[c], inbox[c], broadcasts)
      BY DEF GatewayInv
    <3>2. DOMAIN shown[c] = 1..Len(shown[c])
      BY <3>1, LenProperties DEF Ordered
    <3> QED
      BY <2>1, <3>1, <3>2 DEF Ordered
  <2>2. Gateway!InOrder
    BY <2>1 DEF Gateway!InOrder
  <2>3. Gateway!ConnectionsCounted
    <3>1. connections = Cardinality(Counted) /\ connections <= MaxConnections
      BY DEF GatewayInv
    <3>2. Counted = {c \in Connection : stream[c] \notin {"none", "ended"}}
      BY DEF Counted
    <3>3. connections = Gateway!Cardinality(Counted)
      BY <3>1, Zenon DEF Cardinality, Gateway!Cardinality
    <3> QED
      BY Zenon, <3>1, <3>2, <3>3 DEF Gateway!ConnectionsCounted
  <2> QED
    BY <2>2, <2>3
<1> QED
  BY <1>1, GatewayInit, GatewayNext, PTL DEF Spec

(***************************************************************************)
(* The runner's decision store                                             *)
(***************************************************************************)

JobRecord == [label : {"idle", "feedback", "decisions", "vacuum"}, conn : SUBSET Conn,
              gone : SUBSET Decision, goneFeedback : SUBSET (Decision \X Nat), aborted : BOOLEAN]

StoreTypes ==
    /\ table \subseteq Decision /\ expired \subseteq Decision
    /\ given \subseteq Decision \X Nat /\ feedback \subseteq given
    /\ job \in [Job -> JobRecord]
    /\ autocommit \subseteq Conn /\ leaked \in BOOLEAN

\* What a job has deleted had expired, and all feedback on a decision it deleted
\* is deleted with it.  A job that is about to commit deleted the decision of
\* every feedback it deleted, unless another job has.  In autocommit mode nothing
\* is pending.
JobSound(j) ==
    /\ job[j].label # "idle" => \E c \in Conn : job[j].conn = {c}
    /\ job[j].gone \subseteq expired
    /\ \A f \in job[j].goneFeedback : f[1] \in expired
    /\ \A f \in feedback : f[1] \in job[j].gone => f \in job[j].goneFeedback
    /\ job[j].label # "idle" /\ Store!Auto(j) => job[j].gone = {} /\ job[j].goneFeedback = {}
    /\ job[j].label = "vacuum" /\ ~job[j].aborted =>
           \A f \in job[j].goneFeedback : f[1] \in job[j].gone \/ f[1] \notin table

StoreInv ==
    /\ StoreTypes
    /\ \A f \in feedback : f[1] \in table
    /\ \A f \in given : f[1] \in table \union expired
    /\ ~leaked => /\ autocommit = {}
                  /\ \A f \in given : f[1] \in table => f \in feedback
    /\ \A j \in Job : JobSound(j)
    /\ \A i, j \in Job : i # j => job[i].conn \intersect job[j].conn = {}

LEMMA StoreSteps == [Next]_vars => Store!Next \/ UNCHANGED storeVars
  BY Zenon DEF Next, Only, vars

LEMMA StoreInit == Init => StoreInv
<1> SUFFICES ASSUME Init  PROVE StoreInv
  OBVIOUS
<1>1. Store!Init
  BY Zenon DEF Init
<1>2. StoreTypes
  BY <1>1 DEF Store!Init, Store!Idle, StoreTypes, JobRecord
<1>3. \A j \in Job : JobSound(j) /\ job[j].conn = {}
  BY <1>1 DEF Store!Init, Store!Idle, JobSound
<1> QED
  BY <1>1, <1>2, <1>3 DEF Store!Init, StoreInv

\* One job moves, and keeps what it holds to itself.
LEMMA StoreMove ==
    ASSUME StoreInv, NEW j \in Job, NEW r \in JobRecord, job' = [job EXCEPT ![j] = r],
           \A i \in Job \ {j} : r.conn \intersect job[i].conn = {},
           UNCHANGED <<expired, given>>,
           table' \subseteq table, table \ table' \subseteq expired, feedback' \subseteq feedback,
           autocommit' \subseteq Conn, leaked' \in BOOLEAN,
           \A i \in Job \ {j} : autocommit' \intersect job[i].conn \subseteq autocommit,
           \A f \in feedback' : f[1] \in table',
           ~leaked' => /\ autocommit' = {}
                       /\ \A f \in given : f[1] \in table' => f \in feedback',
           JobSound(j)'
    PROVE  StoreInv'
<1>1. job'[j] = r /\ \A i \in Job \ {j} : job'[i] = job[i]
  BY DEF StoreInv, StoreTypes
<1>2. StoreTypes'
  BY DEF StoreInv, StoreTypes
<1>3. ASSUME NEW i \in Job, i # j  PROVE JobSound(i)'
  <2>1. JobSound(i) /\ job'[i] = job[i]
    BY <1>1, <1>3 DEF StoreInv
  <2>2. Store!Auto(i)' => Store!Auto(i)
    BY <1>3, <2>1 DEF Store!Auto
  <2> QED
    BY <2>1, <2>2 DEF JobSound
<1>4. \A i \in Job : JobSound(i)'
  BY <1>3
<1>5. \A i, k \in Job : i # k => job'[i].conn \intersect job'[k].conn = {}
  BY <1>1 DEF StoreInv
<1>6. \A f \in given' : f[1] \in (table \union expired)'
  BY DEF StoreInv
<1> QED
  BY <1>2, <1>4, <1>5, <1>6 DEF StoreInv

LEMMA StorePersist ==
    ASSUME StoreInv, NEW d \in Decision, Store!Persist(d)
    PROVE  StoreInv'
<1>1. /\ d \notin table \union expired /\ table' = table \union {d}
      /\ UNCHANGED <<expired, feedback, job, autocommit, given, leaked>>
  BY Zenon DEF Store!Persist
<1> QED
  BY <1>1 DEF StoreInv, StoreTypes, JobSound, Store!Auto

LEMMA StoreExpire ==
    ASSUME StoreInv, NEW d \in Decision, Store!Expire(d)
    PROVE  StoreInv'
<1>1. /\ expired' = expired \union {d}
      /\ UNCHANGED <<table, feedback, job, autocommit, given, leaked>>
  BY Zenon DEF Store!Expire
<1> QED
  BY <1>1 DEF StoreInv, StoreTypes, JobSound, Store!Auto

\* Feedback comes for a decision that no job is deleting.
LEMMA StoreSubmit ==
    ASSUME StoreInv, NEW d \in Decision, Store!SubmitFeedback(d)
    PROVE  StoreInv'
<1>1. /\ d \in table \ Store!Gone
      /\ UNCHANGED <<table, expired, job, autocommit, leaked>>
  BY Zenon DEF Store!SubmitFeedback
<1>2. PICK n \in 1..MaxFeedback :
        /\ feedback' = feedback \union {<<d, n>>}
        /\ given' = given \union {<<d, n>>}
  BY DEF Store!SubmitFeedback
<1>3. \A j \in Job : d \notin job[j].gone
  BY <1>1 DEF Store!Gone
<1>4. <<d, n>> \in Decision \X Nat /\ <<d, n>>[1] = d
  BY DEF StoreInv, StoreTypes
<1>5. StoreTypes'
  BY <1>1, <1>2, <1>4 DEF StoreInv, StoreTypes
<1>6. \A j \in Job : JobSound(j)'
  BY <1>1, <1>2, <1>3, <1>4 DEF StoreInv, JobSound, Store!Auto
<1>7. (\A f \in feedback : f[1] \in table)' /\ (\A f \in given : f[1] \in table \union expired)'
  BY <1>1, <1>2, <1>4 DEF StoreInv
<1>8. ~leaked' => /\ autocommit' = {}
                  /\ \A f \in given' : f[1] \in table' => f \in feedback'
  BY <1>1, <1>2 DEF StoreInv
<1> QED
  BY <1>1, <1>5, <1>6, <1>7, <1>8 DEF StoreInv

LEMMA StoreStart ==
    ASSUME StoreInv, NEW j \in Job, Store!StartJob(j)
    PROVE  StoreInv'
<1>1. UNCHANGED <<table, expired, feedback, autocommit, given, leaked>>
  BY Zenon DEF Store!StartJob
<1>2. PICK c \in Conn \ UNION {job[i].conn : i \in Job} :
        job' = [job EXCEPT ![j] = [Store!Idle EXCEPT !.label = "feedback", !.conn = {c}]]
  BY DEF Store!StartJob
<1> DEFINE r == [Store!Idle EXCEPT !.label = "feedback", !.conn = {c}]
<1>3. job' = [job EXCEPT ![j] = r]
  BY <1>2
<1>4. r \in JobRecord /\ r.label = "feedback" /\ r.conn = {c} /\ r.gone = {} /\ r.goneFeedback = {}
  <2>1. /\ Store!Idle \in JobRecord /\ Store!Idle.gone = {} /\ Store!Idle.goneFeedback = {}
    BY DEF Store!Idle, JobRecord
  <2> QED
    BY <2>1 DEF JobRecord
<1> HIDE DEF r
<1>5. \A i \in Job \ {j} : r.conn \intersect job[i].conn = {}
  BY <1>2, <1>4
<1>6. job'[j] = r
  BY <1>3 DEF StoreInv, StoreTypes
<1>7. JobSound(j)'
  BY <1>2, <1>4, <1>6 DEF JobSound
<1>8. /\ autocommit' \subseteq Conn /\ leaked' \in BOOLEAN
      /\ \A f \in feedback' : f[1] \in table'
      /\ ~leaked' => /\ autocommit' = {}
                     /\ \A f \in given : f[1] \in table' => f \in feedback'
  BY <1>1 DEF StoreInv, StoreTypes
<1> QED
  BY <1>1, <1>3, <1>4, <1>5, <1>7, <1>8, StoreMove

\* A statement of a job that holds its connection.
LEMMA StoreStatement ==
    ASSUME StoreInv, NEW j \in Job, job[j].label # "idle",
           NEW r \in JobRecord, r.label # "idle", r.conn = job[j].conn,
           job' = [job EXCEPT ![j] = r],
           UNCHANGED <<expired, autocommit, given, leaked>>,
           table' \subseteq table, table \ table' \subseteq expired, feedback' \subseteq feedback,
           ~Store!Auto(j) => UNCHANGED <<table, feedback>>,
           \A f \in feedback' : f[1] \in table',
           r.gone \subseteq expired, \A f \in r.goneFeedback : f[1] \in expired,
           \A f \in feedback' : f[1] \in r.gone => f \in r.goneFeedback,
           Store!Auto(j) => r.gone = {} /\ r.goneFeedback = {},
           r.label = "vacuum" /\ ~r.aborted =>
               \A f \in r.goneFeedback : f[1] \in r.gone \/ f[1] \notin table'
    PROVE  StoreInv'
<1>1. job'[j] = r
  BY DEF StoreInv, StoreTypes
<1>2. PICK c \in Conn : job[j].conn = {c}
  BY DEF StoreInv, JobSound
<1>3. Store!Auto(j)' <=> Store!Auto(j)
  BY <1>1 DEF Store!Auto
<1>4. JobSound(j)'
  BY <1>1, <1>2, <1>3 DEF JobSound
<1>5. \A i \in Job \ {j} : r.conn \intersect job[i].conn = {}
  BY DEF StoreInv
<1>6. autocommit' \subseteq Conn /\ leaked' \in BOOLEAN
  BY DEF StoreInv, StoreTypes
<1>7. ~leaked' => /\ autocommit' = {}
                  /\ \A f \in given : f[1] \in table' => f \in feedback'
  <2>1. ~leaked => autocommit = {} /\ ~Store!Auto(j)
    BY <1>2 DEF StoreInv, Store!Auto
  <2> QED
    BY <2>1 DEF StoreInv
<1> QED
  BY <1>4, <1>5, <1>6, <1>7, StoreMove

\* A statement that fails, of a job that is about to commit only if it cannot.
LEMMA StoreFails ==
    ASSUME StoreInv, NEW j \in Job, job[j].label # "idle", NEW next \in {"decisions", "vacuum"},
           Store!Fails(j, next), UNCHANGED <<expired, autocommit, given, leaked>>
    PROVE  StoreInv'
<1> DEFINE r == [job[j] EXCEPT !.label = next, !.aborted = ~Store!Auto(j)]
<1>1. UNCHANGED <<table, feedback>>
  BY Zenon DEF Store!Fails
<1>2. job[j] \in JobRecord /\ JobSound(j) /\ (~Store!Auto(j)) \in BOOLEAN
  BY DEF StoreInv, StoreTypes
<1>3. job' = [job EXCEPT ![j] = r]
  BY DEF Store!Fails, StoreInv, StoreTypes
<1>4. r \in JobRecord /\ r.label = next /\ r.conn = job[j].conn /\ r.gone = job[j].gone
      /\ r.goneFeedback = job[j].goneFeedback /\ r.aborted = ~Store!Auto(j)
  BY <1>2 DEF JobRecord
<1> HIDE DEF r
<1>5. /\ r.gone \subseteq expired /\ \A f \in r.goneFeedback : f[1] \in expired
      /\ \A f \in feedback' : f[1] \in r.gone => f \in r.goneFeedback
      /\ Store!Auto(j) => r.gone = {} /\ r.goneFeedback = {}
      /\ r.label = "vacuum" /\ ~r.aborted =>
             \A f \in r.goneFeedback : f[1] \in r.gone \/ f[1] \notin table'
  BY <1>1, <1>2, <1>4 DEF JobSound
<1>6. \A f \in feedback' : f[1] \in table'
  BY <1>1 DEF StoreInv
<1> QED
  BY <1>1, <1>3, <1>4, <1>5, <1>6, StoreStatement

\* A statement that deletes, rows or feedback: no feedback is left that refers to
\* the rows, and a job that is about to commit has deleted the rows of the
\* feedback it had deleted before.
LEMMA StoreDeletes ==
    ASSUME StoreInv, NEW j \in Job, job[j].label # "idle", NEW next \in {"decisions", "vacuum"},
           NEW kept \in SUBSET expired, NEW fb \in SUBSET feedback,
           Store!Deletes(j, kept, fb, next), UNCHANGED <<expired, autocommit, given, leaked>>,
           \A f \in fb : f[1] \in expired,
           \A f \in feedback : f[1] \in kept => f \in job[j].goneFeedback,
           next = "vacuum" =>
               \A f \in job[j].goneFeedback \union fb : f[1] \in kept \/ f[1] \notin table
    PROVE  StoreInv'
<1>1. job[j] \in JobRecord /\ JobSound(j)
  BY DEF StoreInv, StoreTypes
<1>2. CASE Store!Auto(j)
  <2> DEFINE r == [job[j] EXCEPT !.label = next]
  <2>1. table' = table \ kept /\ feedback' = feedback \ fb /\ job' = [job EXCEPT ![j] = r]
    BY <1>2 DEF Store!Deletes, Store!DeletesAtOnce
  <2>2. r \in JobRecord /\ r.label = next /\ r.conn = job[j].conn /\ r.gone = {} /\ r.goneFeedback = {}
        /\ job[j].goneFeedback = {}
    BY <1>1, <1>2 DEF JobRecord, JobSound
  <2> HIDE DEF r
  <2>3. \A f \in feedback' : f[1] \in table'
    BY <2>1, <2>2 DEF StoreInv
  <2> QED
    BY <1>2, <2>1, <2>2, <2>3, StoreStatement
<1>3. CASE ~Store!Auto(j)
  <2> DEFINE r == [job[j] EXCEPT !.label = next, !.gone = @ \union kept,
                                 !.goneFeedback = @ \union fb]
  <2>1. UNCHANGED <<table, feedback>>
    BY <1>3, Zenon DEF Store!Deletes
  <2>2. job' = [job EXCEPT ![j] = r]
    BY <1>3 DEF Store!Deletes, StoreInv, StoreTypes
  <2>3. kept \in SUBSET Decision /\ fb \in SUBSET (Decision \X Nat)
    BY DEF StoreInv, StoreTypes
  <2>4. r \in JobRecord /\ r.label = next /\ r.conn = job[j].conn
        /\ r.gone = job[j].gone \union kept /\ r.goneFeedback = job[j].goneFeedback \union fb
        /\ r.aborted = job[j].aborted
    BY <1>1, <2>3 DEF JobRecord
  <2> HIDE DEF r
  <2>5. /\ r.gone \subseteq expired /\ \A f \in r.goneFeedback : f[1] \in expired
        /\ \A f \in feedback' : f[1] \in r.gone => f \in r.goneFeedback
        /\ r.label = "vacuum" /\ ~r.aborted =>
               \A f \in r.goneFeedback : f[1] \in r.gone \/ f[1] \notin table'
    BY <1>1, <2>1, <2>4 DEF JobSound
  <2>6. \A f \in feedback' : f[1] \in table'
    BY <2>1 DEF StoreInv
  <2> QED
    BY <1>3, <2>1, <2>2, <2>4, <2>5, <2>6, StoreStatement
<1> QED
  BY <1>2, <1>3

LEMMA StoreDeleteFeedback ==
    ASSUME StoreInv, NEW j \in Job, Store!DeleteFeedback(j)
    PROVE  StoreInv'
<1> DEFINE fb == {f \in feedback : f[1] \in table \intersect expired}
<1>1. /\ job[j].label = "feedback" /\ UNCHANGED <<expired, autocommit, given, leaked>>
      /\ Store!Deletes(j, {}, fb, "decisions") \/ Store!Fails(j, "decisions")
  BY DEF Store!DeleteFeedback
<1>2. fb \in SUBSET feedback /\ \A f \in fb : f[1] \in expired
  OBVIOUS
<1> HIDE DEF fb
<1> QED
  BY <1>1, <1>2, StoreDeletes, StoreFails

LEMMA StoreDeleteDecisions ==
    ASSUME StoreInv, NEW j \in Job, Store!DeleteDecisions(j)
    PROVE  StoreInv'
<1> DEFINE stale == table \intersect expired
           fb == {f \in feedback : f[1] \in stale} \ job[j].goneFeedback
<1>1. /\ job[j].label = "decisions" /\ UNCHANGED <<expired, autocommit, given, leaked>>
      /\ (fb = {} /\ Store!Deletes(j, stale, {}, "vacuum")) \/ Store!Fails(j, "vacuum")
  BY DEF Store!DeleteDecisions
<1>2. CASE fb = {} /\ Store!Deletes(j, stale, {}, "vacuum")
  <2>1. \A f \in feedback : f[1] \in stale => f \in job[j].goneFeedback
    BY <1>2
  <2>2. \A f \in job[j].goneFeedback : f[1] \in stale \/ f[1] \notin table
    BY DEF StoreInv, JobSound
  <2>3. stale \in SUBSET expired
    OBVIOUS
  <2> HIDE DEF stale, fb
  <2> QED
    BY <1>1, <1>2, <2>1, <2>2, <2>3, StoreDeletes
<1>3. CASE Store!Fails(j, "vacuum")
  BY <1>1, <1>3, StoreFails
<1> QED
  BY <1>1, <1>2, <1>3

\* The commit takes with a decision the feedback that was deleted for it.
LEMMA StoreVacuum ==
    ASSUME StoreInv, NEW j \in Job, Store!Vacuum(j)
    PROVE  StoreInv'
<1>1. /\ job[j].label = "vacuum" /\ job' = [job EXCEPT ![j] = Store!Idle]
      /\ UNCHANGED <<expired, given>> /\ Store!Commit(j)
  BY Zenon DEF Store!Vacuum
<1>2. \/ autocommit' \in {autocommit, autocommit \ job[j].conn} /\ leaked' = leaked
      \/ autocommit' = autocommit \union job[j].conn /\ leaked' = TRUE
  BY Zenon DEF Store!Vacuum
<1>3. JobSound(j) /\ job[j] \in JobRecord
  BY DEF StoreInv, StoreTypes
<1>4. Store!Idle \in JobRecord /\ Store!Idle.conn = {} /\ Store!Idle.label = "idle"
      /\ Store!Idle.gone = {} /\ Store!Idle.goneFeedback = {}
  BY DEF Store!Idle, JobRecord
<1>5. job'[j] = Store!Idle
  BY <1>1 DEF StoreInv, StoreTypes
<1>6. JobSound(j)'
  BY <1>4, <1>5 DEF JobSound
<1>7. \/ job[j].aborted /\ UNCHANGED <<table, feedback>>
      \/ /\ ~job[j].aborted
         /\ table' = table \ job[j].gone /\ feedback' = feedback \ job[j].goneFeedback
  BY <1>1 DEF Store!Commit
<1>8. table' \subseteq table /\ table \ table' \subseteq expired /\ feedback' \subseteq feedback
  BY <1>3, <1>7 DEF JobSound
<1>9. \A f \in feedback' : f[1] \in table'
  BY <1>3, <1>7 DEF JobSound, StoreInv
<1>10. ~leaked' => /\ autocommit' = {}
                   /\ \A f \in given : f[1] \in table' => f \in feedback'
  BY <1>1, <1>2, <1>3, <1>7 DEF JobSound, StoreInv
<1>11. autocommit' \subseteq Conn /\ leaked' \in BOOLEAN
  BY <1>2, <1>3 DEF StoreInv, StoreTypes, JobRecord
<1>12. \A i \in Job \ {j} : autocommit' \intersect job[i].conn \subseteq autocommit
  BY <1>2 DEF StoreInv
<1> QED
  BY <1>1, <1>4, <1>6, <1>8, <1>9, <1>10, <1>11, <1>12, StoreMove

LEMMA StoreNext == StoreInv /\ [Next]_vars => StoreInv'
<1>1. CASE UNCHANGED storeVars
  BY <1>1 DEF storeVars, StoreInv, StoreTypes, JobSound, Store!Auto
<1> QED
  BY <1>1, StoreSteps, StorePersist, StoreExpire, StoreSubmit, StoreStart, StoreDeleteFeedback,
     StoreDeleteDecisions, StoreVacuum DEF Store!Next

(***************************************************************************)
(* The janitor                                                             *)
(***************************************************************************)

Status == {"VALIDATED", "STALE", "RETIRED", "VALIDATING"}

JanitorTypes ==
    /\ status \in [Implementation -> Status]
    /\ grade \in [Implementation -> Cleaner!Grade]
    /\ phase \in {"idle", "judge", "retire", "spec"}
    /\ rows \subseteq Implementation \X Cleaner!Grade
    /\ doomed \subseteq Implementation /\ gone \subseteq Implementation
    /\ awake \subseteq Implementation
    /\ {specRetired, moved, surprised} \subseteq BOOLEAN

\* While nothing changes from outside, rows say what the database does, what is
\* to be retired is poor, and something better is there for as long as something
\* is or was.
Undisturbed ==
    /\ phase = "judge" => /\ \A row \in rows : row[2] = grade[row[1]]
                          /\ Cleaner!Live = awake
    /\ phase \in {"judge", "retire"} => \A i \in doomed : grade[i] = "poor"
    /\ phase # "idle" /\ doomed \union gone # {} => Cleaner!BetterExists

\* What a cycle may retire of so many.
Share(n) == IF (n * Percentage) \div 100 <= 1 THEN 1 ELSE (n * Percentage) \div 100

\* What a cycle retired and is about to retire.
Held == gone \union (IF phase = "retire" THEN doomed ELSE {})

Within == Cardinality(Held) <= Share(Cardinality(awake) + Elsewhere)

\* A change after the first retirement of a cycle is remembered.
Remembered ==
    /\ phase = "judge" => gone = {}
    /\ phase \in {"idle", "spec"} => doomed = {}
    /\ moved /\ gone # {} => surprised
    /\ phase = "spec" => surprised
    /\ specRetired => surprised

JanitorInv == JanitorTypes /\ Remembered /\ (~moved => Undisturbed /\ Within)

LEMMA JanitorSteps == [Next]_vars => Cleaner!Next \/ UNCHANGED janitorVars
  BY Zenon DEF Next, Only, vars

LEMMA MaxOfTwo ==
    ASSUME NEW a \in Int, NEW b \in Int
    PROVE  Cleaner!Max({a, b}) = IF a >= b THEN a ELSE b
<1>1. CASE a >= b
  BY <1>1 DEF Cleaner!Max
<1>2. CASE ~(a >= b)
  BY <1>2 DEF Cleaner!Max
<1> QED
  BY <1>1, <1>2

LEMMA MinOfTwo ==
    ASSUME NEW a \in Int, NEW b \in Int
    PROVE  Cleaner!Min({a, b}) = IF a <= b THEN a ELSE b
<1>1. CASE a <= b
  BY <1>1 DEF Cleaner!Min
<1>2. CASE ~(a <= b)
  BY <1>2 DEF Cleaner!Min
<1> QED
  BY <1>1, <1>2

LEMMA ShareTypes ==
    ASSUME NEW n \in Nat
    PROVE  (n * Percentage) \div 100 \in Nat /\ Share(n) \in Nat /\ Share(n) >= 1
           /\ Cleaner!Max({1, (n * Percentage) \div 100}) = Share(n)
<1>1. PICK p \in Nat : p = n * Percentage
  BY ServiceTypes
<1>2. PICK q \in Nat : q = p \div 100
  BY <1>1
<1>3. Cleaner!Max({1, q}) = IF 1 >= q THEN 1 ELSE q
  BY MaxOfTwo
<1> QED
  BY <1>1, <1>2, <1>3 DEF Share

\* A cycle's limit is no more than its share, of none or of all.
LEMMA LimitIsShare ==
    ASSUME NEW n \in Nat, NEW total \in {0, n}
    PROVE  Cleaner!LimitOf(total) \in Nat /\ Cleaner!LimitOf(total) <= Share(n)
<1>1. total \in Nat /\ MaxPerRun \in Nat
  BY ServiceTypes
<1> DEFINE q == (total * Percentage) \div 100
<1>2. q \in Nat
  BY <1>1, ShareTypes
<1>3. q = 0 \/ total = n
  <2>1. CASE total = 0
    BY <2>1, ServiceTypes
  <2> QED
    BY <2>1
<1>4. Share(n) \in Nat /\ Share(n) >= 1
  BY ShareTypes
<1>8. total = n => q <= Share(n)
  BY <1>2 DEF Share
<1> HIDE DEF q
<1>5. PICK least \in Nat : least = Cleaner!Min({MaxPerRun, q}) /\ least <= q
  BY <1>1, <1>2, MinOfTwo
<1>6. Cleaner!Max({1, least}) = IF 1 >= least THEN 1 ELSE least
  BY MaxOfTwo
<1>7. Cleaner!LimitOf(total) = Cleaner!Max({1, least})
  BY <1>5 DEF Cleaner!LimitOf, q
<1> QED
  BY <1>2, <1>3, <1>4, <1>5, <1>6, <1>7, <1>8

LEMMA NothingHeld ==
    ASSUME Cardinality(awake) \in Nat, Held = {}
    PROVE  Within
<1>1. Cardinality(awake) + Elsewhere \in Nat /\ Cardinality(Held) = 0
  BY ServiceTypes, FS_EmptySet
<1>2. PICK n \in Nat : n = Cardinality(awake) + Elsewhere
  BY <1>1
<1>3. Share(n) \in Nat
  BY ShareTypes
<1> QED
  BY <1>1, <1>2, <1>3 DEF Within

LEMMA JanitorInit == Init => JanitorInv
<1> SUFFICES ASSUME Init  PROVE JanitorInv
  OBVIOUS
<1>1. Cleaner!Init
  BY Zenon DEF Init
<1>2. JanitorTypes
  BY <1>1 DEF Cleaner!Init, JanitorTypes, Status
<1>3. Undisturbed /\ Remembered
  BY <1>1 DEF Cleaner!Init, Undisturbed, Remembered
<1>4. Within
  <2>1. awake = {} /\ Held = {}
    BY <1>1 DEF Cleaner!Init, Held
  <2>2. Cardinality({}) = 0
    BY FS_EmptySet
  <2> QED
    BY <2>1, <2>2, NothingHeld
<1> QED
  BY <1>2, <1>3, <1>4 DEF JanitorInv

LEMMA CleanerCardinality == \A S : Cleaner!Cardinality(S) = Cardinality(S)
  BY Zenon DEF Cardinality, Cleaner!Cardinality

\* Implementations are rows of a database.
LEMMA ImplementationsCounted ==
    ASSUME IsFiniteSet(Implementation), NEW S \in SUBSET Implementation
    PROVE  IsFiniteSet(S) /\ Cardinality(S) \in Nat
  BY FS_Subset, FS_CardinalityType

LEMMA WithinKept ==
    ASSUME IsFiniteSet(Implementation), JanitorTypes, Within,
           Held' \subseteq Held, awake' = awake
    PROVE  Within'
<1>1. Held \in SUBSET Implementation /\ Held' \in SUBSET Implementation /\ awake \in SUBSET Implementation
  BY DEF JanitorTypes, Held
<1>2. IsFiniteSet(Held) /\ Cardinality(Held) \in Nat /\ Cardinality(Held') \in Nat /\ Cardinality(awake) \in Nat
  BY <1>1, ImplementationsCounted
<1>3. Cardinality(Held') <= Cardinality(Held)
  BY <1>2, FS_Subset
<1>4. Cardinality(awake) + Elsewhere \in Nat
  BY <1>2, ServiceTypes
<1>5. Share(Cardinality(awake) + Elsewhere) \in Nat
  BY <1>4, ShareTypes
<1> QED
  BY <1>2, <1>3, <1>5 DEF Within

LEMMA JanitorFetch ==
    ASSUME IsFiniteSet(Implementation), JanitorInv, Cleaner!Fetch
    PROVE  JanitorInv'
<1>1. /\ phase = "idle" /\ phase' = "judge"
      /\ rows' = {<<i, grade[i]>> : i \in {j \in Implementation :
                     status[j] = "VALIDATED" /\ grade[j] \in Cleaner!Candidate}}
      /\ doomed' = {} /\ gone' = {} /\ awake' = Cleaner!Live /\ moved' = FALSE
      /\ UNCHANGED <<status, grade, specRetired, surprised>>
  BY DEF Cleaner!Fetch, Cleaner!databaseVars
<1>2. JanitorTypes'
  <2>1. Cleaner!Live \subseteq Implementation
    BY DEF Cleaner!Live
  <2>2. rows' \subseteq Implementation \X Cleaner!Grade
    BY <1>1 DEF JanitorInv, JanitorTypes
  <2> QED
    BY <1>1, <2>1, <2>2 DEF JanitorInv, JanitorTypes
<1>3. Undisturbed'
  BY <1>1 DEF Undisturbed, Cleaner!Live
<1>4. Remembered'
  BY <1>1 DEF JanitorInv, Remembered
<1>5. Within'
  <2>1. Held' = {} /\ awake' \in SUBSET Implementation
    BY <1>1, <1>2 DEF Held, JanitorTypes
  <2>2. Cardinality(awake') \in Nat
    BY <2>1, ImplementationsCounted
  <2>3. Cardinality(awake') + Elsewhere \in Nat /\ Cardinality(Held') = 0
    BY <2>1, <2>2, ServiceTypes, FS_EmptySet
  <2>4. PICK n \in Nat : n = Cardinality(awake') + Elsewhere
    BY <2>3
  <2>5. Share(n) \in Nat
    BY ShareTypes
  <2> QED
    BY <2>3, <2>4, <2>5 DEF Within
<1> QED
  BY <1>2, <1>3, <1>4, <1>5 DEF JanitorInv

LEMMA JanitorJudge ==
    ASSUME IsFiniteSet(Implementation), JanitorInv, Cleaner!Judge
    PROVE  JanitorInv'
<1>1. /\ phase = "judge"
      /\ UNCHANGED <<status, grade, specRetired, phase, gone, awake, moved, surprised>>
  BY DEF Cleaner!Judge, Cleaner!databaseVars
<1>2. PICK row \in rows :
        /\ rows' = rows \ {row}
        /\ doomed' \in {doomed, doomed \union {row[1]}}
        /\ doomed' # doomed => Cleaner!ShouldRetire(row[2])
  BY DEF Cleaner!Judge
<1>3. row[1] \in Implementation
  BY DEF JanitorInv, JanitorTypes
<1>4. JanitorTypes'
  BY <1>1, <1>2, <1>3 DEF JanitorInv, JanitorTypes
<1>5. ASSUME ~moved  PROVE Undisturbed'
  <2>1. /\ \A r \in rows : r[2] = grade[r[1]]
        /\ Cleaner!Live = awake
        /\ \A i \in doomed : grade[i] = "poor"
        /\ doomed \union gone # {} => Cleaner!BetterExists
    BY <1>1, <1>5 DEF JanitorInv, Undisturbed
  <2>2. Cleaner!BetterExists' = Cleaner!BetterExists /\ Cleaner!Live' = Cleaner!Live
    BY <1>1 DEF Cleaner!BetterExists, Cleaner!Live
  <2>3. doomed' # doomed => Cleaner!BetterExists /\ grade[row[1]] = "poor"
    BY <1>2, <2>1 DEF Cleaner!ShouldRetire
  <2>4. \A i \in doomed' : grade[i] = "poor"
    BY <1>2, <2>1, <2>3
  <2>5. doomed' \union gone # {} => Cleaner!BetterExists
    BY <1>2, <2>1, <2>3
  <2> QED
    BY <1>1, <1>2, <2>1, <2>2, <2>4, <2>5 DEF Undisturbed
<1>6. Remembered'
  BY <1>1 DEF JanitorInv, Remembered
<1>7. Held' \subseteq Held
  BY <1>1 DEF Held
<1> QED
  BY <1>1, <1>4, <1>5, <1>6, <1>7, WithinKept DEF JanitorInv

LEMMA JanitorApplyBatchLimits ==
    ASSUME IsFiniteSet(Implementation), JanitorInv, Cleaner!ApplyBatchLimits
    PROVE  JanitorInv'
<1>1. /\ phase = "judge" /\ phase' = "retire" /\ doomed' \subseteq doomed
      /\ UNCHANGED <<status, grade, specRetired, rows, gone, awake, moved, surprised>>
  BY DEF Cleaner!ApplyBatchLimits, Cleaner!databaseVars
<1>2. PICK total \in {0, Cleaner!Cardinality(Cleaner!Live) + Elsewhere} :
        Cleaner!Cardinality(doomed') =
            Cleaner!Min({Cleaner!LimitOf(total), Cleaner!Cardinality(doomed)})
  BY DEF Cleaner!ApplyBatchLimits
<1>3. JanitorTypes'
  BY <1>1 DEF JanitorInv, JanitorTypes
<1>4. ~moved => Undisturbed'
  BY <1>1 DEF JanitorInv, Undisturbed, Cleaner!BetterExists
<1>5. Remembered'
  BY <1>1 DEF JanitorInv, Remembered
<1>6. ASSUME ~moved  PROVE Within'
  <2>1. gone = {} /\ Cleaner!Live = awake
    BY <1>1, <1>6 DEF JanitorInv, Remembered, Undisturbed
  <2>2. Held' = doomed'
    BY <1>1, <2>1 DEF Held
  <2>3. /\ awake \in SUBSET Implementation /\ doomed \in SUBSET Implementation
        /\ doomed' \in SUBSET Implementation
    BY <1>3, <1>1 DEF JanitorTypes, JanitorInv
  <2>4. Cardinality(doomed) \in Nat /\ Cardinality(doomed') \in Nat /\ Cardinality(awake) \in Nat
    BY <2>3, ImplementationsCounted
  <2>5. PICK n \in Nat : n = Cardinality(awake) + Elsewhere
    BY <2>4, ServiceTypes
  <2>6. total \in {0, n}
    BY <1>2, <2>1, <2>5, CleanerCardinality
  <2>7. Cleaner!LimitOf(total) \in Nat /\ Cleaner!LimitOf(total) <= Share(n) /\ Share(n) \in Nat
    BY <2>6, LimitIsShare, ShareTypes
  <2>8. Cardinality(doomed') <= Cleaner!LimitOf(total)
    <3>1. Cardinality(doomed') = Cleaner!Min({Cleaner!LimitOf(total), Cardinality(doomed)})
      BY <1>2, CleanerCardinality
    <3> QED
      BY <2>4, <2>7, <3>1, MinOfTwo
  <2> QED
    BY <1>1, <2>2, <2>4, <2>5, <2>7, <2>8 DEF Within
<1> QED
  BY <1>1, <1>3, <1>4, <1>5, <1>6 DEF JanitorInv

\* What is retired is poor, and so is not what is better than it.
LEMMA JanitorExecuteRetirement ==
    ASSUME IsFiniteSet(Implementation), JanitorInv, Cleaner!ExecuteRetirement
    PROVE  JanitorInv'
<1>1. /\ phase = "retire"
      /\ UNCHANGED <<grade, specRetired, phase, rows, awake, moved>>
  BY DEF Cleaner!ExecuteRetirement
<1>2. PICK i \in doomed :
        /\ doomed' = doomed \ {i}
        /\ \/ /\ status' = [status EXCEPT ![i] = "RETIRED"]
              /\ gone' = gone \union {i}
              /\ surprised' = (surprised \/ moved)
           \/ UNCHANGED <<status, gone, surprised>>
  BY DEF Cleaner!ExecuteRetirement
<1>3. i \in Implementation
  BY DEF JanitorInv, JanitorTypes
<1>4. JanitorTypes'
  BY <1>1, <1>2, <1>3 DEF JanitorInv, JanitorTypes, Status
<1>5. ASSUME ~moved  PROVE Undisturbed'
  <2>1. grade[i] = "poor" /\ \A j \in doomed : grade[j] = "poor"
    BY <1>1, <1>5 DEF JanitorInv, Undisturbed
  <2>2. PICK j \in Implementation : status[j] = "VALIDATED" /\ grade[j] \in Cleaner!Alternative
    BY <1>1, <1>5 DEF JanitorInv, Undisturbed, Cleaner!BetterExists
  <2>3. j # i
    BY <2>1, <2>2 DEF Cleaner!Alternative
  <2>4. status'[j] = "VALIDATED"
    BY <1>2, <1>3, <2>2, <2>3 DEF JanitorInv, JanitorTypes
  <2>5. Cleaner!BetterExists'
    BY <1>1, <2>2, <2>4 DEF Cleaner!BetterExists
  <2> QED
    BY <1>1, <1>2, <2>1, <2>5 DEF Undisturbed
<1>6. Remembered'
  BY <1>1, <1>2 DEF JanitorInv, Remembered
<1>7. Held' \subseteq Held
  BY <1>1, <1>2 DEF Held
<1> QED
  BY <1>1, <1>4, <1>5, <1>6, <1>7, WithinKept DEF JanitorInv

\* A cycle that nothing overtook left something that is not retired.
LEMMA JanitorCheckSpec ==
    ASSUME IsFiniteSet(Implementation), JanitorInv, Cleaner!CheckSpec
    PROVE  JanitorInv'
<1>1. /\ phase = "retire" /\ doomed = {}
      /\ phase' = IF gone # {} /\ Cleaner!Live = {} THEN "spec" ELSE "idle"
      /\ UNCHANGED <<status, grade, specRetired, rows, doomed, gone, awake, moved, surprised>>
  BY DEF Cleaner!CheckSpec, Cleaner!databaseVars
<1>2. JanitorTypes'
  BY <1>1 DEF JanitorInv, JanitorTypes
<1>3. ASSUME gone # {}, Cleaner!Live = {}  PROVE moved
  <2> SUFFICES ASSUME ~moved  PROVE FALSE
    OBVIOUS
  <2>1. PICK j \in Implementation : status[j] = "VALIDATED"
    BY <1>1, <1>3 DEF JanitorInv, Undisturbed, Cleaner!BetterExists
  <2> QED
    BY <1>3, <2>1 DEF Cleaner!Live
<1>4. ~moved => Undisturbed'
  BY <1>1, <1>3 DEF Undisturbed
<1>5. Remembered'
  BY <1>1, <1>3 DEF JanitorInv, Remembered
<1>6. Held' \subseteq Held
  BY <1>1 DEF Held
<1> QED
  BY <1>1, <1>2, <1>4, <1>5, <1>6, WithinKept DEF JanitorInv

LEMMA JanitorEnd ==
    ASSUME IsFiniteSet(Implementation), JanitorInv,
           \/ Cleaner!RetireSpec \/ Cleaner!CrashJanitor \/ Cleaner!RepairStaleValidatedStatus
    PROVE  JanitorInv'
<1>1. /\ phase' = "idle" /\ rows' \subseteq rows /\ doomed' = {}
      /\ UNCHANGED <<grade, gone, awake, moved, surprised>>
      /\ specRetired' # specRetired => phase = "spec" /\ specRetired' = TRUE
  BY DEF Cleaner!RetireSpec, Cleaner!CrashJanitor, Cleaner!RepairStaleValidatedStatus,
         Cleaner!databaseVars, JanitorInv, Remembered
<1>2. status' \in [Implementation -> Status]
  BY DEF Cleaner!RetireSpec, Cleaner!CrashJanitor, Cleaner!RepairStaleValidatedStatus,
         Cleaner!databaseVars, JanitorInv, JanitorTypes, Status
<1>3. JanitorTypes'
  BY <1>1, <1>2 DEF JanitorInv, JanitorTypes
<1>4. Undisturbed'
  BY <1>1 DEF Undisturbed
<1>5. Remembered'
  BY <1>1 DEF JanitorInv, JanitorTypes, Remembered
<1>6. Held' \subseteq Held
  BY <1>1 DEF Held
<1> QED
  BY <1>1, <1>3, <1>4, <1>5, <1>6, WithinKept DEF JanitorInv

LEMMA JanitorOutside ==
    ASSUME JanitorInv, Cleaner!Drift \/ Cleaner!Reactivate \/ Cleaner!Validate
    PROVE  JanitorInv'
<1>1. /\ moved' = TRUE /\ surprised' = (surprised \/ gone # {})
      /\ UNCHANGED <<specRetired, phase, rows, doomed, gone, awake>>
  BY DEF Cleaner!Drift, Cleaner!Reactivate, Cleaner!Validate, Cleaner!Outside
<1>2. grade' \in [Implementation -> Cleaner!Grade] /\ status' \in [Implementation -> Status]
  BY DEF Cleaner!Drift, Cleaner!Reactivate, Cleaner!Validate, JanitorInv, JanitorTypes, Status
<1>3. JanitorTypes'
  BY <1>1, <1>2 DEF JanitorInv, JanitorTypes
<1>4. Remembered'
  BY <1>1 DEF JanitorInv, Remembered
<1> QED
  BY <1>1, <1>3, <1>4 DEF JanitorInv

LEMMA JanitorNext ==
    ASSUME IsFiniteSet(Implementation)
    PROVE  JanitorInv /\ [Next]_vars => JanitorInv'
<1>1. CASE UNCHANGED janitorVars
  BY <1>1 DEF janitorVars, JanitorInv, JanitorTypes, Remembered, Undisturbed, Within, Held,
              Cleaner!Live, Cleaner!BetterExists
<1> QED
  BY <1>1, JanitorSteps, JanitorFetch, JanitorJudge, JanitorApplyBatchLimits,
     JanitorExecuteRetirement, JanitorCheckSpec, JanitorEnd, JanitorOutside DEF Cleaner!Next

(***************************************************************************)
(* Retention deletes decisions with all of their feedback, however jobs,   *)
(* feedback and faults interleave; and for the finitely many               *)
(* implementations of a database a janitor's cycle leaves something better *)
(* than what it retired, keeps within its limits, and retires a            *)
(* specification only when something from outside overtook it.             *)
(***************************************************************************)
THEOREM MaintenanceKeepsWhole ==
    ASSUME IsFiniteSet(Implementation)
    PROVE  Spec => []MaintenanceSafe
<1>1. StoreInv => Store!RetentionWhole
  BY DEF StoreInv, Store!RetentionWhole
<1>2. ASSUME JanitorInv
      PROVE  Cleaner!AlternativeRemains /\ Cleaner!SpecOutlivesCycles /\ Cleaner!BatchBounded
  <2>1. Cleaner!AlternativeRemains
    BY <1>2 DEF JanitorInv, Undisturbed, Cleaner!AlternativeRemains
  <2>2. Cleaner!SpecOutlivesCycles
    BY <1>2 DEF JanitorInv, Remembered, Cleaner!SpecOutlivesCycles
  <2>3. Cleaner!BatchBounded
    <3> SUFFICES ASSUME ~moved
                 PROVE  Cardinality(gone) <=
                            Cleaner!Max({1, ((Cardinality(awake) + Elsewhere) * Percentage) \div 100})
      BY CleanerCardinality DEF Cleaner!BatchBounded
    <3>1. Within /\ JanitorTypes
      BY <1>2 DEF JanitorInv
    <3>2. /\ gone \in SUBSET Implementation /\ Held \in SUBSET Implementation /\ gone \subseteq Held
          /\ awake \in SUBSET Implementation
      BY <3>1 DEF JanitorTypes, Held
    <3>3. /\ IsFiniteSet(Held) /\ Cardinality(gone) \in Nat /\ Cardinality(Held) \in Nat
          /\ Cardinality(awake) \in Nat
      BY <3>2, ImplementationsCounted
    <3>4. Cardinality(gone) <= Cardinality(Held)
      BY <3>2, <3>3, FS_Subset
    <3>5. PICK n \in Nat : n = Cardinality(awake) + Elsewhere
      BY <3>3, ServiceTypes
    <3>6. Cleaner!Max({1, (n * Percentage) \div 100}) = Share(n) /\ Share(n) \in Nat
      BY ShareTypes
    <3>7. Cardinality(gone) <= Share(n)
      BY <3>1, <3>3, <3>4, <3>5, <3>6 DEF Within
    <3> QED
      BY <3>5, <3>6, <3>7
  <2> QED
    BY <2>1, <2>2, <2>3
<1>3. StoreInv /\ JanitorInv => MaintenanceSafe
  BY <1>1, <1>2 DEF MaintenanceSafe
<1>4. JanitorInv /\ [Next]_vars => JanitorInv'
  BY JanitorNext
<1> QED
  BY <1>3, <1>4, StoreInit, StoreNext, JanitorInit, PTL DEF Spec

(***************************************************************************)
(* The numbers have no descent without end: a set of them has a least one, *)
(* and what goes on from zero one by one reaches all of them.              *)
(***************************************************************************)

\* A set of natural numbers has a least one.
LEMMA LeastNumber ==
    ASSUME NEW S \in SUBSET Nat, S # {}
    PROVE  \E x \in S : \A n \in S : x <= n
<1> DEFINE Less == {ss \in Nat \X Nat : ss[1] < ss[2]}
<1>1. IsWellFoundedOn(Less, Nat)
  BY NatLessThanWellFounded DEF OpToRel
<1>2. \A x, y \in Nat : y < x => <<y, x>> \in Less
  OBVIOUS
<1> HIDE DEF Less
<1>3. PICK x \in S : \A y \in S : ~(<<y, x>> \in Less)
  BY <1>1, WFMin
<1>4. ASSUME NEW y \in S  PROVE x <= y
  <2>1. x \in Nat /\ y \in Nat /\ ~(y < x)
    BY <1>2, <1>3
  <2> QED
    BY <2>1
<1> QED
  BY <1>4

\* One by one.
LEMMA ByInduction ==
    ASSUME NEW S \in SUBSET Nat, 0 \in S, \A n \in S : n + 1 \in S
    PROVE  S = Nat
<1> SUFFICES ASSUME Nat \ S # {}  PROVE FALSE
  OBVIOUS
<1>1. PICK x \in Nat \ S : \A n \in Nat \ S : x <= n
  BY LeastNumber
<1>2. x # 0 /\ x - 1 \in Nat /\ ~(x <= x - 1)
  OBVIOUS
<1>3. x - 1 \in S
  BY <1>1, <1>2
<1> QED
  BY <1>2, <1>3

(***************************************************************************)
(* The gate of the signal service                                          *)
(***************************************************************************)

LEMMA GateSteps == [Next]_vars => Gate!Next \/ UNCHANGED gateVars
  BY Zenon DEF Next, Only, vars

LEMMA GateConstants ==
    /\ Hour \in Nat \ {0} /\ MaxPerHour \in Nat /\ DedupWindow \in Nat
    /\ MaxActive \in Nat
  BY ServiceConstants

\* The smallest position is a smallest number.
LEMMA GateLeast ==
    ASSUME NEW S \in SUBSET Nat, S # {}
    PROVE  \E x \in S : Gate!Min(S) = x /\ \A n \in S : x <= n
<1>1. PICK x \in S : \A n \in S : x <= n
  BY LeastNumber
<1>2. Gate!Min(S) \in S /\ \A n \in S : Gate!Min(S) <= n
  BY <1>1 DEF Gate!Min
<1> QED
  BY <1>2

\* What is not recent is cut off from the front.
LEMMA RecentCuts ==
    ASSUME NEW ages \in Seq(Nat)
    PROVE  \E n \in 0..Len(ages) :
               /\ Gate!Recent(ages) \in Seq(Nat)
               /\ Len(Gate!Recent(ages)) = Len(ages) - n
               /\ \A j \in 1..(Len(ages) - n) : Gate!Recent(ages)[j] = ages[n + j]
               /\ \A k \in 1..n : ages[k] >= Hour
               /\ n < Len(ages) => ages[n + 1] < Hour
<1> USE GateConstants
<1> DEFINE S == {k \in DOMAIN ages : ages[k] < Hour} \cup {Len(ages) + 1}
<1>1. S \in SUBSET Nat /\ S # {} /\ \A k \in S : k >= 1 /\ k <= Len(ages) + 1
  OBVIOUS
<1> HIDE DEF S
<1>2. PICK m \in S : Gate!Min(S) = m /\ \A n \in S : m <= n
  BY <1>1, GateLeast
<1>3. m \in Nat /\ m >= 1 /\ m <= Len(ages) + 1
  BY <1>1, <1>2
<1>4. Gate!Recent(ages) = SubSeq(ages, m, Len(ages))
  BY <1>2 DEF Gate!Recent, S
<1> DEFINE n == m - 1
<1>5. ASSUME NEW k \in 1..n  PROVE ages[k] >= Hour
  <2>1. k \in DOMAIN ages /\ k \notin S
    BY <1>2, <1>3
  <2> QED
    BY <2>1 DEF S
<1>6. n \in 0..Len(ages) /\ m = n + 1
  BY <1>3
<1>7. n < Len(ages) => ages[n + 1] < Hour
  BY <1>2, <1>6 DEF S
<1>8. /\ Gate!Recent(ages) \in Seq(Nat)
      /\ Len(Gate!Recent(ages)) = Len(ages) - n
      /\ \A j \in 1..(Len(ages) - n) : Gate!Recent(ages)[j] = ages[n + j]
  <2>1. \A i \in m..Len(ages) : ages[i] \in Nat
    BY <1>3
  <2> DEFINE rest == SubSeq(ages, m, Len(ages))
             len == Len(ages)
  <2>2. len \in Nat
    OBVIOUS
  <2>3. /\ rest \in Seq(Nat) /\ Len(rest) = IF m <= len THEN len - m + 1 ELSE 0
        /\ \A j \in 1..(len - m + 1) : rest[j] = ages[m + j - 1]
    BY <1>3, <2>1, <2>2, SubSeqProperties
  <2>4. Gate!Recent(ages) = rest
    BY <1>4
  <2> HIDE DEF rest, len
  <2>5. /\ rest \in Seq(Nat) /\ Len(rest) = len - n
        /\ \A j \in 1..(len - n) : rest[j] = ages[n + j]
    <3>1. m <= len + 1
      BY <1>3 DEF len
    <3>2. len - m + 1 = len - n /\ \A j \in 1..(len - n) : m + j - 1 = n + j
      BY <1>3, <2>2 DEF n
    <3>3. Len(rest) = len - n
      BY <1>3, <2>2, <2>3, <3>1 DEF n
    <3>4. ASSUME NEW j \in 1..(len - n)  PROVE rest[j] = ages[n + j]
      BY <2>3, <3>2
    <3> QED
      BY <2>3, <3>3, <3>4
  <2> QED
    BY <2>4, <2>5 DEF len
<1> HIDE DEF n
<1> QED
  BY <1>5, <1>6, <1>7, <1>8

\* The newest ages of a list are no greater than those of another one.
Covers(ages, others) ==
    /\ Len(others) <= Len(ages)
    /\ \A j \in 1..Len(others) : ages[Len(ages) - Len(others) + j] <= others[j]

Recently(ages) == \A j \in 1..Len(ages) : ages[j] < Hour
InOrderOfTime(ages) == \A j, k \in 1..Len(ages) : j <= k => ages[k] <= ages[j]

LEMMA RecentShorter ==
    ASSUME NEW ages \in Seq(Nat)
    PROVE  Gate!Recent(ages) \in Seq(Nat) /\ Len(Gate!Recent(ages)) <= Len(ages)
<1>1. PICK n \in 0..Len(ages) :
               Gate!Recent(ages) \in Seq(Nat) /\ Len(Gate!Recent(ages)) = Len(ages) - n
  BY RecentCuts, Zenon
<1>2. Len(ages) \in Nat
  OBVIOUS
<1> QED
  BY <1>1, <1>2

\* What is cut off covers nothing recent.
LEMMA CoversRecent ==
    ASSUME NEW ages \in Seq(Nat), NEW others \in Seq(Nat), Covers(ages, others), Recently(others)
    PROVE  Covers(Gate!Recent(ages), others)
<1> USE GateConstants
<1>1. PICK n \in 0..Len(ages) :
        /\ Len(Gate!Recent(ages)) = Len(ages) - n
        /\ \A j \in 1..(Len(ages) - n) : Gate!Recent(ages)[j] = ages[n + j]
        /\ \A k \in 1..n : ages[k] >= Hour
  BY RecentCuts
<1>2. Len(others) <= Len(ages) - n
  <2> SUFFICES ASSUME Len(others) > Len(ages) - n  PROVE FALSE
    OBVIOUS
  <2> DEFINE k == Len(ages) - Len(others) + 1
  <2>1. k \in 1..n /\ 1 \in 1..Len(others)
    BY DEF Covers
  <2>2. ages[k] <= others[1]
    BY <2>1 DEF Covers
  <2>3. others[1] < Hour /\ others[1] \in Nat
    BY <2>1 DEF Recently
  <2>4. ages[k] >= Hour /\ ages[k] \in Nat
    <3>1. k \in 1..Len(ages)
      BY <2>1
    <3> HIDE DEF k
    <3>2. ages[k] >= Hour
      BY <1>1, <2>1
    <3>3. ages[k] \in Nat
      BY <3>1, ElementOfSeq
    <3> QED
      BY <3>2, <3>3
  <2> HIDE DEF k
  <2> QED
    BY <2>2, <2>3, <2>4
<1>3. ASSUME NEW j \in 1..Len(others)
      PROVE  Gate!Recent(ages)[Len(ages) - n - Len(others) + j] <= others[j]
  <2> DEFINE k == Len(ages) - n - Len(others) + j
  <2>1. Gate!Recent(ages)[k] = ages[Len(ages) - Len(others) + j]
    <3>1. k \in 1..(Len(ages) - n) /\ n + k = Len(ages) - Len(others) + j
      BY <1>2
    <3> HIDE DEF k
    <3> QED
      BY <1>1, <3>1
  <2> QED
    BY <2>1 DEF Covers
<1> QED
  BY <1>1, <1>2, <1>3 DEF Covers

\* One tick later.
LEMMA CoversLater ==
    ASSUME NEW ages \in Seq(Nat), NEW others \in Seq(Nat), Covers(ages, others),
           NEW older \in Seq(Nat), Len(older) = Len(ages),
           \A k \in 1..Len(ages) : older[k] <= ages[k] + 1,
           NEW later \in Seq(Nat), Len(later) = Len(others),
           \A j \in 1..Len(others) : later[j] = others[j] + 1
    PROVE  Covers(older, Gate!Recent(later))
<1>1. PICK n \in 0..Len(later) :
        /\ Len(Gate!Recent(later)) = Len(later) - n
        /\ \A j \in 1..(Len(later) - n) : Gate!Recent(later)[j] = later[n + j]
  BY RecentCuts
<1>2. ASSUME NEW j \in 1..(Len(later) - n)
      PROVE  older[Len(older) - (Len(later) - n) + j] <= Gate!Recent(later)[j]
  <2> DEFINE k == Len(ages) - Len(others) + (n + j)
  <2>1. n + j \in 1..Len(others) /\ k \in 1..Len(ages)
    BY DEF Covers
  <2>2. ages[k] <= others[n + j]
    BY <2>1 DEF Covers
  <2>3. Gate!Recent(later)[j] = others[n + j] + 1
    BY <1>1, <2>1
  <2>4. Len(older) - (Len(later) - n) + j = k
    OBVIOUS
  <2> HIDE DEF k
  <2>5. older[k] <= ages[k] + 1
    BY <2>1
  <2>6. ages[k] \in Nat /\ older[k] \in Nat /\ others[n + j] \in Nat
    BY <2>1, ElementOfSeq
  <2>7. \A x, y, z \in Nat : x <= y + 1 /\ y <= z => x <= z + 1
    OBVIOUS
  <2>8. older[k] <= others[n + j] + 1
    BY <2>2, <2>5, <2>6, <2>7
  <2> QED
    BY <2>3, <2>4, <2>8
<1> QED
  BY <1>1, <1>2 DEF Covers

LEMMA RecentlyLater ==
    ASSUME NEW ages \in Seq(Nat), InOrderOfTime(ages),
           NEW later \in Seq(Nat), Len(later) = Len(ages),
           \A j \in 1..Len(ages) : later[j] = ages[j] + 1
    PROVE  Recently(Gate!Recent(later)) /\ InOrderOfTime(Gate!Recent(later))
<1> USE GateConstants
<1>1. PICK n \in 0..Len(later) :
        /\ Len(Gate!Recent(later)) = Len(later) - n
        /\ \A j \in 1..(Len(later) - n) : Gate!Recent(later)[j] = later[n + j]
        /\ n < Len(later) => later[n + 1] < Hour
  BY RecentCuts
<1>2. ASSUME NEW j \in 1..Len(later), NEW k \in 1..Len(later), j <= k
      PROVE  later[k] <= later[j]
  <2>1. ages[j] \in Nat /\ ages[k] \in Nat /\ ages[k] <= ages[j]
    BY <1>2 DEF InOrderOfTime
  <2> QED
    BY <2>1
<1>3. ASSUME NEW j \in 1..(Len(later) - n)  PROVE Gate!Recent(later)[j] < Hour
  <2>1. n + 1 \in 1..Len(later) /\ n + j \in 1..Len(later) /\ n + 1 <= n + j
    OBVIOUS
  <2>2. later[n + j] <= later[n + 1]
    BY <1>2, <2>1
  <2>3. later[n + 1] < Hour
    BY <1>1, <2>1
  <2>5. later[n + j] \in Nat /\ later[n + 1] \in Nat
    BY <2>1, ElementOfSeq
  <2>6. \A x, y, z \in Nat : x <= y /\ y < z => x < z
    OBVIOUS
  <2>4. Gate!Recent(later)[j] = later[n + j]
    BY <1>1
  <2> QED
    BY <2>2, <2>3, <2>4, <2>5, <2>6
<1>4. ASSUME NEW j \in 1..(Len(later) - n), NEW k \in 1..(Len(later) - n), j <= k
      PROVE  Gate!Recent(later)[k] <= Gate!Recent(later)[j]
  <2>1. n + j \in 1..Len(later) /\ n + k \in 1..Len(later) /\ n + j <= n + k
    BY <1>4
  <2> QED
    BY <1>1, <1>2, <2>1
<1> QED
  BY <1>1, <1>3, <1>4 DEF Recently, InOrderOfTime

\* A new entry on both sides, or on the side that covers.
LEMMA CoversNew ==
    ASSUME NEW ages \in Seq(Nat), NEW others \in Seq(Nat), Covers(ages, others)
    PROVE  /\ Covers(Append(ages, 0), Append(others, 0))
           /\ InOrderOfTime(others) => Covers(Append(ages, 0), others)
<1> DEFINE more == Append(ages, 0)
<1>1. /\ Len(more) = Len(ages) + 1 /\ more[Len(ages) + 1] = 0
      /\ \A k \in 1..Len(ages) : more[k] = ages[k]
  OBVIOUS
<1>2. Covers(more, Append(others, 0))
  <2> DEFINE new == Append(others, 0)
  <2>1. /\ Len(new) = Len(others) + 1 /\ new[Len(others) + 1] = 0
        /\ \A k \in 1..Len(others) : new[k] = others[k]
    OBVIOUS
  <2> HIDE DEF more, new
  <2>2. ASSUME NEW j \in 1..Len(new)
        PROVE  more[Len(more) - Len(new) + j] <= new[j]
    <3>1. j \in 1..(Len(others) + 1) /\ Len(more) - Len(new) + j = Len(ages) - Len(others) + j
      BY <1>1, <2>1
    <3>2. CASE j = Len(others) + 1
      BY <1>1, <2>1, <3>1, <3>2
    <3>3. CASE j \in 1..Len(others)
      <4>1. Len(ages) - Len(others) + j \in 1..Len(ages)
        BY <3>3 DEF Covers
      <4> QED
        BY <1>1, <2>1, <3>1, <3>3, <4>1 DEF Covers
    <3> QED
      BY <3>1, <3>2, <3>3
  <2>3. Len(new) <= Len(more)
    BY <1>1, <2>1 DEF Covers
  <2>4. Covers(more, new)
    BY <2>2, <2>3, Zenon DEF Covers
  <2> QED
    BY <2>4 DEF new
<1>3. ASSUME InOrderOfTime(others)  PROVE Covers(more, others)
  <2> HIDE DEF more
  <2>1. ASSUME NEW j \in 1..Len(others)
        PROVE  more[Len(ages) + 1 - Len(others) + j] <= others[j]
    <3>1. CASE j = Len(others)
      BY <1>1, <3>1
    <3>2. CASE j < Len(others)
      <4> DEFINE k == Len(ages) - Len(others) + (j + 1)
      <4>1. j + 1 \in 1..Len(others) /\ k \in 1..Len(ages) /\ Len(ages) + 1 - Len(others) + j = k
        BY <3>2 DEF Covers
      <4>2. ages[k] <= others[j + 1]
        BY <4>1 DEF Covers
      <4>3. others[j + 1] <= others[j]
        BY <1>3, <4>1 DEF InOrderOfTime
      <4> HIDE DEF k
      <4>4. ages[k] \in Nat /\ others[j + 1] \in Nat /\ others[j] \in Nat
        BY <4>1, ElementOfSeq
      <4> QED
        <5>1. more[Len(ages) + 1 - Len(others) + j] = ages[k]
          BY <1>1, <4>1
        <5> HIDE DEF more
        <5>2. \A x, y, z \in Nat : x <= y /\ y <= z => x <= z
          OBVIOUS
        <5> QED
          BY <4>2, <4>3, <4>4, <5>1, <5>2
    <3> QED
      BY <3>1, <3>2
  <2> QED
    BY <1>1, <2>1 DEF Covers
<1> QED
  BY <1>2, <1>3

GateTypes ==
    /\ history \in [Symbol -> Seq(Nat)] /\ sent \in [Symbol -> Seq(Nat)]
    /\ active \in Nat /\ accepted \in Nat
    /\ lastEmit \in [Symbol \X Action -> Nat] /\ sinceSent \in [Symbol \X Action -> Nat]
    /\ stage \in {"idle", "emitting", "recording"}
    /\ current \in Symbol \X Action

\* The signal being emitted is of this symbol.
At(s, place) == stage = place /\ current[1] = s

\* What the service accepted within the hour is on record, or is being recorded,
\* and there is room for the one being emitted.
OnRecord(s) ==
    /\ Recently(sent[s]) /\ InOrderOfTime(sent[s])
    /\ Len(history[s]) <= MaxPerHour
    /\ At(s, "emitting") \/ At(s, "recording") => Len(history[s]) < MaxPerHour
    /\ Covers(IF At(s, "recording") THEN Append(history[s], 0) ELSE history[s], sent[s])

\* An emission is noted no earlier than the service accepts it, and there was
\* none for as long as the window when one begins.
EmissionsNoted ==
    /\ \A g \in Symbol \X Action :
          (stage = "recording" /\ g = current) \/ lastEmit[g] <= sinceSent[g]
    /\ stage = "emitting" => sinceSent[current] >= DedupWindow

GateInv ==
    /\ GateTypes
    /\ \A s \in Symbol : OnRecord(s)
    /\ EmissionsNoted

\* What was accepted is counted, or about to be, and there is room for it.
AcceptedCounted ==
    /\ accepted <= active + (IF stage = "recording" THEN 1 ELSE 0)
    /\ active + (IF stage = "idle" THEN 0 ELSE 1) <= MaxActive

LEMMA GateInit == Init => GateInv /\ AcceptedCounted
<1> SUFFICES ASSUME Init  PROVE GateInv /\ AcceptedCounted
  OBVIOUS
<1>1. /\ history = [s \in Symbol |-> << >>] /\ sent = [s \in Symbol |-> << >>]
      /\ active = 0 /\ accepted = 0 /\ stage = "idle" /\ current \in Symbol \X Action
      /\ lastEmit = [g \in Symbol \X Action |-> DedupWindow]
      /\ sinceSent = [g \in Symbol \X Action |-> DedupWindow]
  BY Zenon DEF Init, Gate!Init, Gate!Signal
<1>2. GateTypes
  BY <1>1, GateConstants DEF GateTypes
<1>3. ASSUME NEW s \in Symbol  PROVE OnRecord(s)
  BY <1>1, GateConstants DEF OnRecord, At, Covers, Recently, InOrderOfTime
<1>4. EmissionsNoted
  BY <1>1, GateConstants DEF EmissionsNoted
<1>5. AcceptedCounted
  BY <1>1, GateConstants DEF AcceptedCounted
<1> QED
  BY <1>2, <1>3, <1>4, <1>5 DEF GateInv

\* The symbol's history is pruned, and there may be room for the signal.
LEMMA GateDecide ==
    ASSUME GateInv, NEW g \in Symbol \X Action, Gate!Decide(g)
    PROVE  GateInv'
<1>1. /\ stage = "idle" /\ history' = [history EXCEPT ![g[1]] = Gate!Recent(history[g[1]])]
      /\ \/ stage' = "idle" /\ current' = current
         \/ /\ ~(Len(Gate!Recent(history[g[1]])) >= MaxPerHour) /\ ~(lastEmit[g] < DedupWindow)
            /\ stage' = "emitting" /\ current' = g
      /\ UNCHANGED <<active, lastEmit, sent, sinceSent, accepted>>
  BY Zenon DEF Gate!Decide, Gate!RateExceeded, Gate!Duplicate, Gate!sentVars
<1>2. GateTypes /\ g[1] \in Symbol
  BY DEF GateInv
<1>3. /\ history[g[1]] \in Seq(Nat) /\ sent[g[1]] \in Seq(Nat)
      /\ Gate!Recent(history[g[1]]) \in Seq(Nat)
      /\ Len(Gate!Recent(history[g[1]])) <= Len(history[g[1]])
  <2>1. history[g[1]] \in Seq(Nat) /\ sent[g[1]] \in Seq(Nat)
    BY <1>2 DEF GateTypes
  <2>2. /\ Gate!Recent(history[g[1]]) \in Seq(Nat)
        /\ Len(Gate!Recent(history[g[1]])) <= Len(history[g[1]])
    BY <2>1, RecentShorter
  <2> QED
    BY <2>1, <2>2
<1>4. GateTypes'
  BY <1>1, <1>2, <1>3 DEF GateTypes
<1>5. ASSUME NEW s \in Symbol  PROVE OnRecord(s)'
  <2>1. OnRecord(s) /\ ~At(s, "recording") /\ ~At(s, "recording")' /\ sent'[s] = sent[s]
    BY <1>1 DEF GateInv, At
  <2>2. CASE s = g[1]
    <3>1. history'[s] = Gate!Recent(history[s])
      BY <1>1, <1>2, <2>2 DEF GateTypes
    <3>2. Covers(history'[s], sent[s])
      BY <1>3, <2>1, <2>2, <3>1, CoversRecent DEF OnRecord
    <3>3. Len(history'[s]) <= MaxPerHour
      BY <1>3, <2>1, <2>2, <3>1, GateConstants DEF OnRecord
    <3>4. At(s, "emitting")' => Len(history'[s]) < MaxPerHour
      BY <1>1, <1>3, <2>2, <3>1, GateConstants DEF At
    <3> QED
      BY <2>1, <3>2, <3>3, <3>4 DEF OnRecord
  <2>3. CASE s # g[1]
    <3>1. history'[s] = history[s] /\ ~At(s, "emitting")'
      BY <1>1, <1>2, <2>3 DEF GateTypes, At
    <3> QED
      BY <2>1, <3>1 DEF OnRecord
  <2> QED
    BY <2>2, <2>3
<1>6. EmissionsNoted'
  BY <1>1, <1>2, GateConstants DEF GateInv, GateTypes, EmissionsNoted
<1> QED
  BY <1>4, <1>5, <1>6 DEF GateInv

\* A signal of this moment goes to the end.
LEMMA NowRecent ==
    ASSUME NEW ages \in Seq(Nat), Recently(ages), InOrderOfTime(ages)
    PROVE  Recently(Append(ages, 0)) /\ InOrderOfTime(Append(ages, 0))
<1> DEFINE later == Append(ages, 0)
<1>1. /\ Len(later) = Len(ages) + 1 /\ Len(ages) \in Nat
      /\ \A k \in 1..Len(ages) : later[k] = ages[k] /\ ages[k] \in Nat
      /\ later[Len(ages) + 1] = 0
  OBVIOUS
<1> HIDE DEF later
<1>2. \A k \in 1..Len(later) : k \in 1..Len(ages) \/ k = Len(ages) + 1
  BY <1>1
<1>3. ASSUME NEW k \in 1..Len(later)  PROVE later[k] < Hour
  <2>1. CASE k \in 1..Len(ages)
    BY <1>1, <2>1 DEF Recently
  <2>2. CASE k = Len(ages) + 1
    BY <1>1, <2>2, GateConstants
  <2> QED
    BY <1>2, <2>1, <2>2
<1>4. ASSUME NEW j \in 1..Len(later), NEW k \in 1..Len(later), j <= k
      PROVE  later[k] <= later[j]
  <2>1. CASE k \in 1..Len(ages)
    <3>1. j \in 1..Len(ages)
      BY <1>1, <1>4, <2>1
    <3> QED
      BY <1>1, <1>4, <2>1, <3>1 DEF InOrderOfTime
  <2>2. CASE k = Len(ages) + 1
    <3>1. later[k] = 0 /\ (later[j] = 0 \/ later[j] \in Nat)
      BY <1>1, <1>2, <2>2
    <3> QED
      BY <3>1
  <2> QED
    BY <1>2, <2>1, <2>2
<1> QED
  BY <1>3, <1>4 DEF Recently, InOrderOfTime, later

\* The service accepts the signal or not.
LEMMA GateEmit ==
    ASSUME GateInv, Gate!Emit
    PROVE  GateInv' /\ sinceSent[current] >= DedupWindow
<1>1. /\ stage = "emitting" /\ stage' = "recording"
      /\ \/ /\ sent' = [sent EXCEPT ![current[1]] = Append(sent[current[1]], 0)]
            /\ sinceSent' = [sinceSent EXCEPT ![current] = 0]
         \/ sent' = sent /\ sinceSent' = sinceSent
      /\ UNCHANGED <<history, active, lastEmit, current>>
      /\ accepted' = accepted \/ accepted' = Gate!UpTo(MaxActive + 1, accepted + 1)
  BY Zenon DEF Gate!Emit, Gate!riskVars, Gate!sentVars
<1>2. GateTypes /\ current \in Symbol \X Action /\ current[1] \in Symbol
  BY DEF GateInv, GateTypes
<1>3. GateTypes'
  <2>1. Append(sent[current[1]], 0) \in Seq(Nat)
    BY <1>2 DEF GateTypes
  <2>2. sent' \in [Symbol -> Seq(Nat)]
    <3>1. [sent EXCEPT ![current[1]] = Append(sent[current[1]], 0)] \in [Symbol -> Seq(Nat)]
      BY <1>2, <2>1 DEF GateTypes
    <3> QED
      BY <1>1, <1>2, <3>1 DEF GateTypes
  <2>3. sinceSent' \in [Symbol \X Action -> Nat]
    <3>1. [sinceSent EXCEPT ![current] = 0] \in [Symbol \X Action -> Nat]
      BY <1>2 DEF GateTypes
    <3> QED
      BY <1>1, <1>2, <3>1 DEF GateTypes
  <2>4. accepted' \in Nat
    BY <1>1, <1>2, GateConstants DEF GateTypes, Gate!UpTo
  <2> QED
    BY <1>1, <1>2, <2>2, <2>3, <2>4 DEF GateTypes
<1>4. ASSUME NEW s \in Symbol  PROVE OnRecord(s)'
  <2>1. OnRecord(s) /\ ~At(s, "recording") /\ history'[s] = history[s] /\ history[s] \in Seq(Nat)
        /\ sent[s] \in Seq(Nat)
    BY <1>1, <1>2 DEF GateInv, At, GateTypes
  <2>2. Covers(history[s], sent[s]) /\ Recently(sent[s]) /\ InOrderOfTime(sent[s])
    BY <2>1 DEF OnRecord
  <2>3. CASE s = current[1]
    <3>1. /\ At(s, "recording")' /\ Len(history[s]) < MaxPerHour
          /\ sent'[s] \in {sent[s], Append(sent[s], 0)}
      BY <1>1, <1>2, <2>1, <2>3 DEF OnRecord, At, GateTypes
    <3>2. Covers(Append(history[s], 0), sent'[s])
      BY <2>1, <2>2, <3>1, CoversNew
    <3>3. Recently(sent'[s]) /\ InOrderOfTime(sent'[s])
      <4>1. CASE sent'[s] = sent[s]
        BY <2>2, <4>1
      <4>2. CASE sent'[s] = Append(sent[s], 0)
        BY <2>1, <2>2, <4>2, NowRecent
      <4> QED
        BY <3>1, <4>1, <4>2
    <3> QED
      BY <2>1, <3>1, <3>2, <3>3 DEF OnRecord
  <2>4. CASE s # current[1]
    <3>1. ~At(s, "recording")' /\ ~At(s, "emitting")' /\ sent'[s] = sent[s]
      BY <1>1, <1>2, <2>4 DEF At, GateTypes
    <3> QED
      BY <2>1, <3>1 DEF OnRecord
  <2> QED
    BY <2>3, <2>4
<1>5. EmissionsNoted'
  BY <1>1, <1>2, GateConstants DEF GateInv, GateTypes, EmissionsNoted
<1>6. sinceSent[current] >= DedupWindow
  BY <1>1 DEF GateInv, EmissionsNoted
<1> QED
  BY <1>3, <1>4, <1>5, <1>6 DEF GateInv

LEMMA GateRecord ==
    ASSUME GateInv, Gate!Record
    PROVE  GateInv'
<1>1. /\ stage = "recording" /\ stage' = "idle"
      /\ lastEmit' = [lastEmit EXCEPT ![current] = 0]
      /\ history' = [history EXCEPT ![current[1]] = Append(history[current[1]], 0)]
      /\ active' = active + 1
      /\ UNCHANGED <<current, sent, sinceSent, accepted>>
  BY Zenon DEF Gate!Record, Gate!sentVars
<1>2. GateTypes /\ current \in Symbol \X Action /\ current[1] \in Symbol
  BY DEF GateInv, GateTypes
<1>3. GateTypes'
  <2>1. Append(history[current[1]], 0) \in Seq(Nat)
    BY <1>2 DEF GateTypes
  <2>2. /\ history' \in [Symbol -> Seq(Nat)]
        /\ lastEmit' \in [Symbol \X Action -> Nat]
    BY <1>1, <1>2, <2>1 DEF GateTypes
  <2> QED
    BY <1>1, <1>2, <2>2 DEF GateTypes
<1>4. ASSUME NEW s \in Symbol  PROVE OnRecord(s)'
  <2>1. /\ OnRecord(s) /\ sent'[s] = sent[s] /\ history[s] \in Seq(Nat)
        /\ ~At(s, "recording")' /\ ~At(s, "emitting")'
    BY <1>1, <1>2 DEF GateInv, At, GateTypes
  <2>2. CASE s = current[1]
    <3>1. At(s, "recording") /\ history'[s] = Append(history[s], 0)
      BY <1>1, <1>2, <2>2 DEF At, GateTypes
    <3>2. Len(history'[s]) = Len(history[s]) + 1 /\ Len(history[s]) \in Nat
      BY <2>1, <3>1
    <3>3. Len(history'[s]) <= MaxPerHour
      BY <2>1, <3>1, <3>2, GateConstants DEF OnRecord
    <3> QED
      BY <2>1, <3>1, <3>3 DEF OnRecord
  <2>3. CASE s # current[1]
    <3>1. ~At(s, "recording") /\ history'[s] = history[s]
      BY <1>1, <1>2, <2>3 DEF At, GateTypes
    <3> QED
      BY <2>1, <3>1 DEF OnRecord
  <2> QED
    BY <2>2, <2>3
<1>5. EmissionsNoted'
  BY <1>1, <1>2 DEF GateInv, GateTypes, EmissionsNoted
<1> QED
  BY <1>3, <1>4, <1>5 DEF GateInv

\* Everything grows older by one, and what the service accepted falls out of the
\* hour.
LEMMA GateTick ==
    ASSUME GateInv, Gate!Tick
    PROVE  GateInv'
<1> DEFINE older(ages) == [k \in DOMAIN ages |-> Gate!UpTo(Hour, ages[k] + 1)]
           later(ages) == [k \in DOMAIN ages |-> ages[k] + 1]
<1>1. /\ history' = [s \in Symbol |-> older(history[s])]
      /\ sent' = [s \in Symbol |-> Gate!Recent(later(sent[s]))]
      /\ lastEmit' = [g \in Symbol \X Action |-> Gate!UpTo(DedupWindow, lastEmit[g] + 1)]
      /\ sinceSent' = [g \in Symbol \X Action |-> Gate!UpTo(DedupWindow, sinceSent[g] + 1)]
      /\ UNCHANGED <<active, stage, current, accepted>>
  BY Zenon DEF Gate!Tick, Gate!Signal
<1>2. GateTypes
  BY DEF GateInv
<1>3. ASSUME NEW ages \in Seq(Nat)
      PROVE  /\ older(ages) \in Seq(Nat) /\ Len(older(ages)) = Len(ages)
             /\ \A k \in 1..Len(ages) : older(ages)[k] <= ages[k] + 1
             /\ later(ages) \in Seq(Nat) /\ Len(later(ages)) = Len(ages)
             /\ \A k \in 1..Len(ages) : later(ages)[k] = ages[k] + 1
  <2>1. /\ older(ages) \in [1..Len(ages) -> Nat]
        /\ \A k \in 1..Len(ages) : older(ages)[k] <= ages[k] + 1
    BY GateConstants DEF Gate!UpTo
  <2>2. /\ later(ages) \in [1..Len(ages) -> Nat]
        /\ \A k \in 1..Len(ages) : later(ages)[k] = ages[k] + 1
    OBVIOUS
  <2>3. \A f \in [1..Len(ages) -> Nat] : f \in Seq(Nat) /\ Len(f) = Len(ages)
    OBVIOUS
  <2> HIDE DEF older, later
  <2> QED
    BY <2>1, <2>2, <2>3
<1> HIDE DEF older, later
<1>4. ASSUME NEW s \in Symbol
      PROVE  /\ history[s] \in Seq(Nat) /\ sent[s] \in Seq(Nat) /\ OnRecord(s)
             /\ history'[s] = older(history[s]) /\ sent'[s] = Gate!Recent(later(sent[s]))
             /\ sent'[s] \in Seq(Nat)
  <2>1. history[s] \in Seq(Nat) /\ sent[s] \in Seq(Nat) /\ OnRecord(s)
    BY <1>2 DEF GateInv, GateTypes
  <2>2. later(sent[s]) \in Seq(Nat)
    BY <1>3, <2>1
  <2>3. Gate!Recent(later(sent[s])) \in Seq(Nat)
    BY <2>2, RecentCuts
  <2> QED
    BY <1>1, <2>1, <2>3
<1>5. GateTypes'
  <2>1. /\ history' \in [Symbol -> Seq(Nat)] /\ sent' \in [Symbol -> Seq(Nat)]
    BY <1>1, <1>3, <1>4
  <2>2. \A n \in Nat : Gate!UpTo(DedupWindow, n + 1) \in Nat
    BY GateConstants DEF Gate!UpTo
  <2>3. /\ lastEmit' \in [Symbol \X Action -> Nat] /\ sinceSent' \in [Symbol \X Action -> Nat]
    BY <1>1, <1>2, <2>2 DEF GateTypes
  <2> QED
    BY <1>1, <1>2, <2>1, <2>3 DEF GateTypes
<1>6. ASSUME NEW s \in Symbol  PROVE OnRecord(s)'
  <2>1. \A place : At(s, place)' <=> At(s, place)
    BY <1>1 DEF At
  <2>2. Recently(sent'[s]) /\ InOrderOfTime(sent'[s])
    BY <1>3, <1>4, RecentlyLater DEF OnRecord
  <2>3. Len(history'[s]) = Len(history[s])
    BY <1>3, <1>4
  <2>6. /\ later(sent[s]) \in Seq(Nat) /\ Len(later(sent[s])) = Len(sent[s])
        /\ \A j \in 1..Len(sent[s]) : later(sent[s])[j] = sent[s][j] + 1
    BY <1>3, <1>4
  <2>7. /\ history'[s] \in Seq(Nat)
        /\ \A k \in 1..Len(history[s]) : history'[s][k] <= history[s][k] + 1
    BY <1>3, <1>4
  <2>9. history[s] \in Seq(Nat)
    BY <1>4
  <2>8. ASSUME NEW ages \in Seq(Nat), Covers(ages, sent[s]),
               NEW aged \in Seq(Nat), Len(aged) = Len(ages),
               \A k \in 1..Len(ages) : aged[k] <= ages[k] + 1
        PROVE  Covers(aged, sent'[s])
    <3>1. Covers(aged, Gate!Recent(later(sent[s])))
      BY <1>4, <2>6, <2>8, CoversLater
    <3> QED
      BY <1>4, <3>1
  <2>4. CASE At(s, "recording")
    <3> DEFINE more == Append(history[s], 0)
               moreOlder == Append(history'[s], 0)
    <3>1. /\ more \in Seq(Nat) /\ moreOlder \in Seq(Nat) /\ Len(moreOlder) = Len(more)
      BY <1>3, <1>4
    <3>2. \A k \in 1..Len(more) : moreOlder[k] <= more[k] + 1
      <4> DEFINE h == history[s]
                 i == history'[s]
      <4>1. /\ h \in Seq(Nat) /\ i \in Seq(Nat) /\ Len(i) = Len(h) /\ Len(h) \in Nat
            /\ \A k \in 1..Len(h) : i[k] <= h[k] + 1
        <5>1. Len(h) \in Nat
          BY <2>9
        <5> QED
          BY <2>3, <2>7, <2>9, <5>1
      <4> HIDE DEF h, i
      <4>2. \A k \in 1..(Len(h) + 1) : Append(i, 0)[k] <= Append(h, 0)[k] + 1
        BY <4>1
      <4>3. Len(Append(h, 0)) = Len(h) + 1
        BY <4>1
      <4> QED
        BY <4>2, <4>3 DEF h, i
    <3>3. Covers(more, sent[s])
      BY <1>4, <2>4 DEF OnRecord
    <3> HIDE DEF more, moreOlder
    <3>4. Covers(moreOlder, sent'[s])
      BY <2>8, <3>1, <3>2, <3>3
    <3> QED
      BY <1>4, <2>1, <2>2, <2>3, <2>4, <3>4 DEF OnRecord, moreOlder
  <2>5. CASE ~At(s, "recording")
    <3>1. Covers(history'[s], sent'[s])
      BY <1>4, <2>3, <2>5, <2>7, <2>8 DEF OnRecord
    <3> QED
      BY <1>4, <2>1, <2>2, <2>3, <2>5, <3>1 DEF OnRecord
  <2> QED
    BY <2>4, <2>5
<1>7. EmissionsNoted'
  BY <1>1, <1>2, GateConstants DEF GateInv, GateTypes, EmissionsNoted, Gate!UpTo
<1> QED
  BY <1>5, <1>6, <1>7 DEF GateInv

LEMMA GateNext ==
    GateInv /\ [Next]_vars => GateInv' /\ (Gate!Emit => sinceSent[current] >= DedupWindow)
<1> SUFFICES ASSUME GateInv, Gate!Next \/ UNCHANGED gateVars
             PROVE  GateInv' /\ (Gate!Emit => sinceSent[current] >= DedupWindow)
  BY GateSteps
<1>1. Gate!Emit => sinceSent[current] >= DedupWindow
  BY GateEmit
<1>2. CASE UNCHANGED gateVars
  BY <1>1, <1>2 DEF gateVars, GateInv, GateTypes, OnRecord, At, EmissionsNoted
<1> QED
  BY <1>1, <1>2, GateDecide, GateEmit, GateRecord, GateTick DEF Gate!Next, Gate!Signal

LEMMA AcceptedStayCounted ==
    ASSUME GateInv, AcceptedCounted, [Next]_vars
    PROVE  AcceptedCounted'
<1> USE GateConstants DEF AcceptedCounted
<1>1. /\ active \in Nat /\ accepted \in Nat
      /\ stage \in {"idle", "emitting", "recording"}
  BY DEF GateInv, GateTypes
<1>2. ASSUME NEW g \in Symbol \X Action, Gate!Decide(g)  PROVE AcceptedCounted'
  <2>1. /\ stage = "idle" /\ UNCHANGED <<active, accepted>>
        /\ \/ stage' = "idle"
           \/ stage' = "emitting" /\ active < MaxActive
    BY <1>2, Zenon DEF Gate!Decide
  <2> QED
    BY <1>1, <2>1
<1>3. CASE Gate!Emit
  BY <1>1, <1>3 DEF Gate!Emit, Gate!riskVars, Gate!UpTo
<1>4. CASE Gate!Record
  BY <1>1, <1>4 DEF Gate!Record
<1>5. CASE Gate!Tick
  BY <1>1, <1>5 DEF Gate!Tick
<1>6. CASE UNCHANGED gateVars
  BY <1>1, <1>6 DEF gateVars
<1> QED
  BY <1>2, <1>3, <1>4, <1>5, <1>6, GateSteps DEF Gate!Next, Gate!Signal

LEMMA GateRate == GateInv => Gate!RateLimited
<1> SUFFICES ASSUME GateInv, NEW s \in Symbol  PROVE Len(sent[s]) <= MaxPerHour
  BY DEF Gate!RateLimited
<1>1. OnRecord(s) /\ history[s] \in Seq(Nat) /\ sent[s] \in Seq(Nat)
  BY DEF GateInv, GateTypes
<1>2. /\ Len(Append(history[s], 0)) = Len(history[s]) + 1
      /\ Len(history[s]) \in Nat /\ Len(sent[s]) \in Nat
  BY <1>1
<1> QED
  BY <1>1, <1>2, GateConstants DEF OnRecord, Covers

(***************************************************************************)
(* However slow emissions are, the service accepts no more signals of a    *)
(* symbol in an hour than the limit and the same one no sooner than the    *)
(* window.                                                                 *)
(***************************************************************************)
THEOREM GateSpaces ==
    Spec => [](Runs("gate") => Gate!RateLimited) /\ Gate!DedupSpacing
<1>1. GateInv /\ [Next]_vars =>
          [(Gate!Emit /\ sent' # sent) => sinceSent[current] >= DedupWindow]_Gate!vars
  BY GateNext
<1> QED
  BY <1>1, GateInit, GateNext, GateRate, PTL DEF Spec, Gate!DedupSpacing

(***************************************************************************)
(* And it accepts no more than may be active at once, although a signal is *)
(* counted only after it went out.                                         *)
(***************************************************************************)
THEOREM GateStaysKept == Spec => GateKept
<1> DEFINE Inv == GateInv /\ AcceptedCounted
<1>1. Inv /\ [Next]_vars => Inv'
  BY GateNext, AcceptedStayCounted
<1>2. Inv => (Runs("gate") => Gate!RateLimited /\ Gate!ActiveLimited)
  BY GateRate, GateConstants DEF GateInv, GateTypes, AcceptedCounted, Gate!ActiveLimited
<1> QED
  BY <1>1, <1>2, GateInit, GateSpaces, PTL DEF Spec, GateKept

\* The beginning of the powers of two.
Doubles(f, n) == f \in [0..n -> Nat] /\ f[0] = 1 /\ \A k \in 1..n : f[k] = 2 * f[k - 1]

LEMMA DoublesExist == \A n \in Nat : \E f \in [0..n -> Nat] : Doubles(f, n)
<1> DEFINE S == {n \in Nat : \E f \in [0..n -> Nat] : Doubles(f, n)}
<1>1. 0 \in S
  <2> DEFINE f == [k \in 0..0 |-> 1]
  <2>1. f \in [0..0 -> Nat] /\ Doubles(f, 0)
    BY DEF Doubles
  <2> QED
    BY <2>1
<1>2. ASSUME NEW n \in S  PROVE n + 1 \in S
  <2>1. PICK f \in [0..n -> Nat] : Doubles(f, n)
    OBVIOUS
  <2> DEFINE g == [k \in 0..(n + 1) |-> IF k = n + 1 THEN 2 * f[n] ELSE f[k]]
  <2>2. g \in [0..(n + 1) -> Nat]
    OBVIOUS
  <2>3. ASSUME NEW k \in 1..(n + 1)  PROVE g[k] = 2 * g[k - 1]
    BY <2>1 DEF Doubles
  <2>4. g[0] = 1
    BY <2>1 DEF Doubles
  <2>5. Doubles(g, n + 1)
    BY <2>2, <2>3, <2>4 DEF Doubles
  <2> HIDE DEF g
  <2>6. n + 1 \in Nat
    OBVIOUS
  <2>7. \E h \in [0..(n + 1) -> Nat] : Doubles(h, n + 1)
    BY <2>2, <2>5, Zenon
  <2> QED
    BY <2>6, <2>7, Zenon
<1> HIDE DEF S
<1>3. S = Nat
  BY <1>1, <1>2, ByInduction DEF S
<1> QED
  BY <1>3 DEF S

LEMMA DoublesAgree ==
    ASSUME NEW n \in Nat, NEW f, Doubles(f, n), NEW m \in Nat, NEW g, Doubles(g, m), n <= m
    PROVE  \A k \in 0..n : f[k] = g[k]
<1> DEFINE S == {k \in Nat : k <= n => f[k] = g[k]}
<1>1. 0 \in S
  BY DEF Doubles
<1>2. ASSUME NEW k \in S  PROVE k + 1 \in S
  BY DEF Doubles
<1> HIDE DEF S
<1>3. S = Nat
  BY <1>1, <1>2, ByInduction DEF S
<1> QED
  BY <1>3 DEF S

LEMMA Doubling ==
    /\ Routing!Doubled \in [Nat -> Nat] /\ Routing!Doubled[0] = 1
    /\ \A n \in Nat : Routing!Doubled[n + 1] = 2 * Routing!Doubled[n]
<1> DEFINE first(n) == CHOOSE f \in [0..n -> Nat] : Doubles(f, n)
           power == [n \in Nat |-> first(n)[n]]
           Equation(f) == f = [n \in Nat |-> IF n = 0 THEN 1 ELSE 2 * f[n - 1]]
<1>1. \A n \in Nat : Doubles(first(n), n)
  BY DoublesExist
<1> HIDE DEF first
<1>2. ASSUME NEW n \in Nat  PROVE power[n] \in Nat
  BY <1>1 DEF Doubles
<1>3. power[0] = 1
  BY <1>1 DEF Doubles
<1>4. ASSUME NEW n \in Nat  PROVE power[n + 1] = 2 * power[n]
  <2>1. first(n + 1)[n] = first(n)[n]
    BY <1>1, DoublesAgree
  <2>2. first(n + 1)[n + 1] = 2 * first(n + 1)[n]
    BY <1>1 DEF Doubles
  <2> QED
    BY <2>1, <2>2
<1>5. Equation(power)
  <2>1. ASSUME NEW n \in Nat  PROVE power[n] = IF n = 0 THEN 1 ELSE 2 * power[n - 1]
    <3>1. CASE n = 0
      BY <1>3, <3>1
    <3>2. CASE n # 0
      <4>1. n - 1 \in Nat /\ n = (n - 1) + 1
        BY <3>2
      <4> QED
        BY <1>4, <3>2, <4>1
    <3> QED
      BY <3>1, <3>2
  <2> QED
    BY <2>1
<1> HIDE DEF power
<1>6. Equation(CHOOSE f : Equation(f))
  BY <1>5
<1>7. Routing!Doubled = CHOOSE f : Equation(f)
  BY DEF Routing!Doubled
<1> DEFINE d == Routing!Doubled
<1>8. d = [n \in Nat |-> IF n = 0 THEN 1 ELSE 2 * d[n - 1]]
  BY <1>6, <1>7
<1> HIDE DEF d
<1>9. d[0] = 1 /\ \A n \in Nat : d[n + 1] = 2 * d[n]
  BY <1>8
<1>10. \A n \in Nat : d[n] \in Nat
  <2> DEFINE S == {n \in Nat : d[n] \in Nat}
  <2>1. 0 \in S /\ \A n \in S : n + 1 \in S
    BY <1>9
  <2> HIDE DEF S
  <2>2. S = Nat
    BY <2>1, ByInduction DEF S
  <2> QED
    BY <2>2 DEF S
<1>11. d \in [Nat -> Nat]
  BY <1>8, <1>10
<1> QED
  BY <1>9, <1>11 DEF d

\* Powers of two grow.
LEMMA DoublingGrows ==
    \A n \in Nat : /\ Routing!Doubled[n] >= 1
                   /\ \A k \in 0..n : Routing!Doubled[k] <= Routing!Doubled[n]
<1> DEFINE d == Routing!Doubled
           S == {n \in Nat : d[n] >= 1 /\ \A k \in 0..n : d[k] <= d[n]}
<1>1. d \in [Nat -> Nat] /\ d[0] = 1 /\ \A n \in Nat : d[n + 1] = 2 * d[n]
  BY Doubling
<1> HIDE DEF d
<1>2. 0 \in S
  BY <1>1
<1>3. ASSUME NEW n \in S  PROVE n + 1 \in S
  <2>1. d[n + 1] = 2 * d[n] /\ d[n] \in Nat /\ d[n] >= 1
    BY <1>1
  <2>2. ASSUME NEW k \in 0..(n + 1)  PROVE d[k] <= d[n + 1]
    <3>1. CASE k = n + 1
      BY <2>1, <3>1
    <3>2. CASE k # n + 1
      <4>1. d[k] <= d[n] /\ d[k] \in Nat
        BY <1>1, <3>2
      <4> QED
        BY <2>1, <4>1
    <3> QED
      BY <3>1, <3>2
  <2> QED
    BY <2>1, <2>2
<1> HIDE DEF S
<1>4. S = Nat
  BY <1>2, <1>3, ByInduction DEF S
<1> QED
  BY <1>4 DEF S, d

\* The smallest position is a smallest number.
LEMMA RoutingLeast ==
    ASSUME NEW S \in SUBSET Nat, S # {}
    PROVE  \E x \in S : Routing!Min(S) = x /\ \A n \in S : x <= n
<1>1. PICK x \in S : \A n \in S : x <= n
  BY LeastNumber
<1>2. Routing!Min(S) \in S /\ \A n \in S : Routing!Min(S) <= n
  BY <1>1 DEF Routing!Min
<1> QED
  BY <1>2

(***************************************************************************)
(* The delivery service                                                    *)
(***************************************************************************)

LEMMA RoutingSteps == [Next]_vars => Routing!Next \/ UNCHANGED routingVars
  BY Zenon DEF Next, Only, vars

LEMMA RoutingConstants ==
    /\ Window \in Nat /\ Window > 0 /\ MaxAttempts \in Nat /\ MaxAttempts > 0 /\ SendTime \in Nat
    /\ DOMAIN Chain \subseteq Nat /\ None \notin Message
<1>1. /\ Window \in Nat /\ Window > 0 /\ MaxAttempts \in Nat /\ MaxAttempts > 0
      /\ SendTime \in Nat /\ None \notin Message
  BY ServiceConstants
<1>2. PICK S : Chain \in Seq(S)
  BY ChannelLists, Zenon
<1>3. DOMAIN Chain \subseteq Nat
  BY <1>2
<1> QED
  BY <1>1, <1>3

RoutingTypes ==
    /\ delivered \in [Message -> SUBSET Routing!Channel]
    /\ failed \in [Message -> SUBSET Routing!Channel]
    /\ slot \in [Routing!Channel -> Nat]
    /\ apart \in [Routing!Channel -> 0..Window]
    /\ signal \in Message \union {None} /\ targets \subseteq DOMAIN Chain
    /\ attempt \in 0..MaxAttempts /\ sleep \in Nat
    /\ waited \in 0..SendTime /\ taken \in BOOLEAN /\ repeats \in BOOLEAN
    /\ outcome \in {"none", "sent", "failed"}
    /\ got \in [Message -> Nat] /\ unmarked \in [Message -> Nat]

\* An attempt is made for a signal that should be delivered, and recorded before
\* anything else happens.
UnderWay ==
    /\ attempt > 0 \/ outcome # "none" => signal # None /\ targets # {}
    /\ attempt > 0 => outcome = "none" /\ Routing!ShouldDeliver(signal)
    /\ attempt = 0 => sleep = 0 /\ waited = 0 /\ ~taken

\* The channel has the message, and the router does not know it yet or has not
\* recorded it.
Pending(n) == signal = n /\ (taken \/ outcome = "sent")

\* A copy is marked, about to be marked, or counted as unmarked.
Marked(n) ==
    /\ got[n] >= unmarked[n]
    /\ Pending(n) => got[n] > unmarked[n]
    /\ got[n] > unmarked[n] => delivered[n] # {} \/ Pending(n)
    /\ got[n] > 1 + unmarked[n] =>
          /\ delivered[n] # {}
          /\ mode = "all_enabled" \/ delivered[n] \intersect failed[n] # {}

SendsMarked == \A n \in Message : Marked(n)

\* The time the attempts before this one lasted.
Lasted == (attempt - 1) * SendTime

\* The window began no more than a dispatch before the last message, and so far no
\* more than a dispatch before the next one.
WindowsKept ==
    /\ \A c \in Messaging \cap Routing!Channel :
          apart[c] + slot[c] + Routing!DispatchTime >= Window
    /\ attempt > 0 /\ Routing!Target \in Messaging =>
          /\ slot[Routing!Target] + Routing!Doubled[attempt - 1] + Lasted + waited
                >= Window + 1 + sleep
          /\ ~taken /\ ~repeats => apart[Routing!Target] + Routing!DispatchTime >= Window

RoutingInv == RoutingTypes /\ UnderWay /\ SendsMarked /\ WindowsKept

LEMMA RetrySpanIs ==
    /\ Routing!RetrySpan \in Nat
    /\ \A n \in 1..MaxAttempts :
          Routing!Doubled[n - 1] \in Nat /\ Routing!Doubled[n - 1] <= Routing!RetrySpan + 1
<1> USE RoutingConstants
<1> DEFINE d == Routing!Doubled
           last == MaxAttempts - 1
<1>1. last \in Nat
  OBVIOUS
<1>2. d \in [Nat -> Nat] /\ d[last] >= 1 /\ \A k \in 0..last : d[k] <= d[last]
  BY <1>1, Doubling, DoublingGrows
<1>3. Routing!RetrySpan = d[last] - 1
  BY DEF Routing!RetrySpan
<1> HIDE DEF d
<1>4. ASSUME NEW n \in 1..MaxAttempts  PROVE d[n - 1] \in Nat /\ d[n - 1] <= d[last]
  <2>1. n - 1 \in 0..last /\ n - 1 \in Nat
    OBVIOUS
  <2> QED
    BY <1>2, <2>1
<1> HIDE DEF last
<1>5. d[last] \in Nat
  BY <1>1, <1>2
<1>6. Routing!RetrySpan \in Nat /\ d[last] = Routing!RetrySpan + 1
  BY <1>2, <1>3, <1>5
<1>7. \A n \in 1..MaxAttempts : d[n - 1] \in Nat /\ d[n - 1] <= Routing!RetrySpan + 1
  BY <1>4, <1>6
<1> QED
  BY <1>6, <1>7, Zenon DEF d

\* No attempt begins or ends after the time a dispatch may take.
LEMMA DispatchIs ==
    /\ Routing!DispatchTime \in Nat
    /\ \A n \in 1..MaxAttempts :
          /\ (n - 1) * SendTime \in Nat
          /\ n * SendTime = (n - 1) * SendTime + SendTime
          /\ Routing!Doubled[n - 1] + (n - 1) * SendTime + SendTime <= Routing!DispatchTime + 1
<1> USE RoutingConstants
<1> DEFINE s == SendTime
           m == MaxAttempts
<1>1. s \in Nat /\ m \in Nat
  OBVIOUS
<1> HIDE DEF s, m
<1>2. m * s \in Nat
  BY <1>1
<1>3. ASSUME NEW n \in 1..m
      PROVE  (n - 1) * s \in Nat /\ n * s = (n - 1) * s + s /\ n * s <= m * s
  <2>1. n \in Nat /\ n - 1 \in Nat /\ m - n \in Nat
    BY <1>1
  <2>2. (n - 1) * s \in Nat /\ (m - n) * s \in Nat
    BY <1>1, <2>1
  <2>3. n * s = (n - 1) * s + s
    BY <1>1, <2>1
  <2>4. m * s = (m - n) * s + n * s
    BY <1>1, <2>1
  <2>5. n * s \in Nat
    BY <1>1, <2>1
  <2> QED
    BY <1>2, <2>2, <2>3, <2>4, <2>5
<1>4. /\ Routing!RetrySpan \in Nat
      /\ \A n \in 1..m : Routing!Doubled[n - 1] \in Nat /\ Routing!Doubled[n - 1] <= Routing!RetrySpan + 1
  BY RetrySpanIs DEF m
<1>5. Routing!DispatchTime = Routing!RetrySpan + m * s
  BY DEF Routing!DispatchTime, m, s
<1>6. Routing!DispatchTime \in Nat
  BY <1>2, <1>4, <1>5
<1>7. ASSUME NEW n \in 1..m
      PROVE  Routing!Doubled[n - 1] + (n - 1) * s + s <= Routing!DispatchTime + 1
  BY <1>1, <1>2, <1>3, <1>4, <1>5, <1>7
<1> QED
  BY <1>3, <1>6, <1>7 DEF m, s

LEMMA TargetIs ==
    ASSUME RoutingTypes, targets # {}
    PROVE  Routing!Target \in Routing!Channel
<1> USE RoutingConstants
<1>1. targets \in SUBSET Nat
  BY DEF RoutingTypes
<1>2. PICK x \in targets : Routing!Min(targets) = x
  BY <1>1, RoutingLeast
<1> QED
  BY <1>2 DEF RoutingTypes, Routing!Target, Routing!Channel, Routing!Range

LEMMA RoutingInit == Init => RoutingInv
<1> SUFFICES ASSUME Init  PROVE RoutingInv
  OBVIOUS
<1> USE RoutingConstants
<1>1. /\ delivered = [n \in Message |-> {}] /\ failed = [n \in Message |-> {}]
      /\ slot = [c \in Routing!Channel |-> 0] /\ apart = [c \in Routing!Channel |-> Window]
      /\ signal = None /\ targets = {} /\ attempt = 0 /\ sleep = 0 /\ outcome = "none"
      /\ waited = 0 /\ taken = FALSE /\ repeats = FALSE
      /\ got = [n \in Message |-> 0] /\ unmarked = [n \in Message |-> 0]
  BY Zenon DEF Init, Routing!Init
<1>2. RoutingTypes
  <2>1. /\ delivered \in [Message -> SUBSET Routing!Channel]
        /\ failed \in [Message -> SUBSET Routing!Channel]
        /\ slot \in [Routing!Channel -> Nat] /\ apart \in [Routing!Channel -> 0..Window]
        /\ got \in [Message -> Nat] /\ unmarked \in [Message -> Nat]
    BY <1>1
  <2>2. /\ signal \in Message \union {None} /\ targets \subseteq DOMAIN Chain
        /\ attempt \in 0..MaxAttempts /\ sleep \in Nat
        /\ waited \in 0..SendTime /\ outcome \in {"none", "sent", "failed"}
    BY <1>1
  <2>3. taken \in BOOLEAN /\ repeats \in BOOLEAN
    BY <1>1, Zenon
  <2> QED
    BY <2>1, <2>2, <2>3, Zenon DEF RoutingTypes
<1>3. UnderWay /\ SendsMarked
  BY <1>1 DEF UnderWay, SendsMarked, Marked, Pending
<1>4. WindowsKept
  BY <1>1, DispatchIs DEF WindowsKept
<1> QED
  BY <1>2, <1>3, <1>4 DEF RoutingInv

LEMMA RoutingReceive ==
    ASSUME RoutingInv, NEW n \in Message, Routing!Receive(n)
    PROVE  RoutingInv' /\ got' = got
<1> USE RoutingConstants
<1>1. /\ signal = None /\ signal' = n
      /\ \E candidates \in SUBSET DOMAIN Chain : targets' = Routing!Resolve(candidates)
      /\ UNCHANGED <<mode, delivered, failed, slot, apart, attempt, sleep, waited, taken, repeats,
                     outcome, got, unmarked>>
  BY Zenon DEF Routing!Receive, Routing!redisVars, Routing!historyVars, Routing!sendVars
<1>2. targets' \subseteq DOMAIN Chain
  <2>1. PICK candidates \in SUBSET DOMAIN Chain : targets' = Routing!Resolve(candidates)
    BY <1>1
  <2>2. CASE candidates = {}
    BY <2>1, <2>2 DEF Routing!Resolve
  <2>3. CASE candidates # {}
    <3>1. PICK x \in candidates : Routing!Min(candidates) = x
      BY <2>3, RoutingLeast
    <3> QED
      BY <2>1, <3>1 DEF Routing!Resolve
  <2> QED
    BY <2>2, <2>3
<1>3. RoutingTypes'
  BY <1>1, <1>2 DEF RoutingInv, RoutingTypes
<1>4. attempt = 0 /\ outcome = "none" /\ ~taken
  BY <1>1 DEF RoutingInv, UnderWay, RoutingTypes
<1>5. SendsMarked'
  BY <1>1, <1>4 DEF RoutingInv, SendsMarked, Marked, Pending
<1> QED
  BY <1>1, <1>3, <1>4, <1>5 DEF RoutingInv, UnderWay, WindowsKept

LEMMA RoutingConsider ==
    ASSUME RoutingInv, Routing!Consider
    PROVE  RoutingInv' /\ got' = got
<1> USE RoutingConstants
<1> DEFINE c == Routing!Target
<1>1. /\ signal # None /\ targets # {} /\ attempt = 0 /\ outcome = "none"
      /\ UNCHANGED <<mode, delivered, failed, apart, signal, sleep, waited, taken, repeats,
                     outcome, got, unmarked>>
  BY Zenon DEF Routing!Consider, Routing!historyVars
<1>2. \/ Routing!NextTarget /\ UNCHANGED <<slot, attempt>>
      \/ Routing!NextTarget /\ Routing!UseRate(c) /\ UNCHANGED attempt
      \/ /\ Routing!ShouldDeliver(signal) /\ ~Routing!RateLimited(c) /\ Routing!UseRate(c)
         /\ attempt' = 1 /\ UNCHANGED targets
  BY Zenon DEF Routing!Consider
<1>3. c \in Routing!Channel
  BY <1>1, TargetIs DEF RoutingInv
<1>4. /\ Routing!UseRate(c) => slot' = IF c \in Messaging THEN [slot EXCEPT ![c] = Window] ELSE slot
      /\ Routing!NextTarget => targets' \subseteq targets
      /\ ~Routing!RateLimited(c) /\ c \in Messaging => ~(slot[c] > 0)
  BY DEF Routing!UseRate, Routing!NextTarget, Routing!RateLimited
<1> HIDE DEF c
<1>5. slot' \in [Routing!Channel -> Nat] /\ \A x \in Routing!Channel : slot'[x] \in {slot[x], Window}
  BY <1>2, <1>3, <1>4 DEF RoutingInv, RoutingTypes
<1>6. RoutingTypes'
  BY <1>1, <1>2, <1>4, <1>5 DEF RoutingInv, RoutingTypes
<1>7. sleep = 0 /\ waited = 0 /\ ~taken
  BY <1>1 DEF RoutingInv, UnderWay
<1>8. UnderWay'
  BY <1>1, <1>2, <1>7 DEF UnderWay, Routing!ShouldDeliver
<1>9. SendsMarked'
  BY <1>1 DEF RoutingInv, SendsMarked, Marked, Pending
<1>10. ASSUME NEW x \in Messaging \cap Routing!Channel
       PROVE  apart'[x] + slot'[x] + Routing!DispatchTime >= Window
  <2>1. apart[x] + slot[x] + Routing!DispatchTime >= Window /\ apart[x] \in Nat /\ slot[x] \in Nat
    BY DEF RoutingInv, WindowsKept, RoutingTypes
  <2> QED
    BY <1>1, <1>5, <2>1, DispatchIs
<1>11. ASSUME attempt' > 0, Routing!Target' \in Messaging
       PROVE  /\ slot'[c] + Routing!Doubled[attempt' - 1] + Lasted' + waited'
                    >= Window + 1 + sleep'
              /\ apart'[c] + Routing!DispatchTime >= Window
              /\ Routing!Target' = c
  <2>1. /\ ~Routing!RateLimited(c) /\ Routing!UseRate(c) /\ attempt' = 1 /\ UNCHANGED targets
    BY <1>1, <1>2, <1>11
  <2>2. Routing!Target' = c
    BY <2>1 DEF Routing!Target, c
  <2>3. slot'[c] = Window /\ slot[c] = 0 /\ apart[c] \in Nat
    BY <1>3, <1>4, <1>11, <2>1, <2>2 DEF RoutingInv, RoutingTypes
  <2>4. apart[c] + slot[c] + Routing!DispatchTime >= Window
    BY <1>3, <1>11, <2>2 DEF RoutingInv, WindowsKept
  <2>5. Lasted' = 0 /\ waited' = 0
    BY <1>1, <1>7, <2>1 DEF Lasted
  <2> QED
    BY <1>1, <1>7, <2>1, <2>2, <2>3, <2>4, <2>5, Doubling, DispatchIs
<1>12. WindowsKept'
  BY <1>10, <1>11 DEF WindowsKept
<1> QED
  BY <1>1, <1>6, <1>8, <1>9, <1>12 DEF RoutingInv

Spaced ==
    \A c \in Messaging \cap Routing!Channel :
        attempt > 0 /\ Routing!Target = c /\ got' # got =>
            repeats \/ apart[c] >= Window - Routing!DispatchTime

LEMMA RoutingAccept ==
    ASSUME RoutingInv, Routing!Accept
    PROVE  RoutingInv' /\ Spaced
<1> USE RoutingConstants
<1> DEFINE c == Routing!Target
<1>1. /\ attempt > 0 /\ sleep = 0 /\ ~taken /\ taken' = TRUE
      /\ got' = [got EXCEPT ![signal] = got[signal] + 1] /\ apart' = [apart EXCEPT ![c] = 0]
      /\ UNCHANGED <<mode, delivered, failed, slot, signal, targets, attempt, sleep, waited,
                     repeats, outcome, unmarked>>
  BY Zenon DEF Routing!Accept, Routing!redisVars
<1>2. RoutingTypes /\ UnderWay /\ SendsMarked /\ WindowsKept
  BY DEF RoutingInv
<1>3. signal \in Message /\ targets # {} /\ outcome = "none" /\ Routing!ShouldDeliver(signal)
  BY <1>1, <1>2 DEF UnderWay, RoutingTypes
<1>4. c \in Routing!Channel /\ Routing!Target' = c
  BY <1>1, <1>2, <1>3, TargetIs DEF Routing!Target
<1>5. attempt \in 1..MaxAttempts
  BY <1>1, <1>2 DEF RoutingTypes
<1> HIDE DEF c
<1>6. RoutingTypes'
  BY <1>1, <1>2, <1>3, <1>4 DEF RoutingTypes
<1>7. UnderWay'
  BY <1>1, <1>2, <1>3 DEF UnderWay, Routing!ShouldDeliver
<1>8. SendsMarked'
  <2> SUFFICES ASSUME NEW n \in Message  PROVE Marked(n)'
    BY DEF SendsMarked
  <2>1. Marked(n) /\ got[n] \in Nat /\ unmarked[n] \in Nat
    BY <1>2 DEF SendsMarked, RoutingTypes
  <2>2. CASE n # signal
    <3>1. got'[n] = got[n] /\ ~Pending(n) /\ ~Pending(n)'
      BY <1>1, <1>2, <1>3, <2>2 DEF RoutingTypes, Pending
    <3> QED
      BY <1>1, <2>1, <3>1 DEF Marked
  <2>3. CASE n = signal
    <3>1. got'[n] = got[n] + 1 /\ ~Pending(n) /\ Pending(n)'
      BY <1>1, <1>2, <1>3, <2>3 DEF RoutingTypes, Pending
    <3>2. delivered[n] # {} => mode = "all_enabled" \/ delivered[n] \intersect failed[n] # {}
      BY <1>3, <2>3 DEF Routing!ShouldDeliver
    <3> QED
      BY <1>1, <2>1, <3>1, <3>2 DEF Marked
  <2> QED
    BY <2>2, <2>3
<1>9. \A x \in Routing!Channel : slot[x] \in Nat /\ apart[x] \in 0..Window
  BY <1>2 DEF RoutingTypes
<1>10. c \in Messaging =>
          /\ slot[c] + Routing!Doubled[attempt - 1] + Lasted + waited >= Window + 1
          /\ ~repeats => apart[c] + Routing!DispatchTime >= Window
  BY <1>1, <1>2 DEF WindowsKept, c
<1>11. /\ Routing!Doubled[attempt - 1] \in Nat /\ Lasted \in Nat /\ waited \in 0..SendTime
       /\ Routing!Doubled[attempt - 1] + Lasted + SendTime <= Routing!DispatchTime + 1
       /\ Routing!DispatchTime \in Nat
  BY <1>2, <1>5, RetrySpanIs, DispatchIs DEF Lasted, RoutingTypes
<1>12. ASSUME NEW x \in Messaging \cap Routing!Channel
       PROVE  apart'[x] + slot'[x] + Routing!DispatchTime >= Window
  <2>1. apart[x] + slot[x] + Routing!DispatchTime >= Window
    BY <1>2 DEF WindowsKept
  <2>2. CASE x # c
    BY <1>1, <1>2, <1>9, <2>1, <2>2 DEF RoutingTypes
  <2>3. CASE x = c
    <3>1. apart'[x] = 0 /\ slot'[x] = slot[c]
      BY <1>1, <1>2, <2>3 DEF RoutingTypes
    <3> QED
      BY <1>4, <1>9, <1>10, <1>11, <1>12, <2>3, <3>1
  <2> QED
    BY <2>2, <2>3
<1>13. Lasted' = Lasted
  BY <1>1 DEF Lasted
<1>14. WindowsKept'
  BY <1>1, <1>4, <1>10, <1>12, <1>13 DEF WindowsKept
<1>15. Spaced
  BY <1>4, <1>9, <1>10, <1>11 DEF Spaced, c
<1> QED
  BY <1>6, <1>7, <1>8, <1>14, <1>15 DEF RoutingInv

\* A copy becomes unmarked: one that was pending.
LEMMA Missed ==
    ASSUME NEW n, Marked(n), Pending(n), got[n] \in Nat, unmarked[n] \in Nat,
           got'[n] = got[n], unmarked'[n] = unmarked[n] + 1, ~Pending(n)',
           UNCHANGED <<mode, delivered, failed>>
    PROVE  Marked(n)'
  BY DEF Marked

LEMMA RoutingAttempt ==
    ASSUME RoutingInv, Routing!Attempt
    PROVE  RoutingInv' /\ got' = got
<1> USE RoutingConstants
<1> DEFINE c == Routing!Target
<1>1. /\ attempt > 0 /\ sleep = 0 /\ waited' = 0 /\ taken' = FALSE
      /\ UNCHANGED <<mode, delivered, failed, slot, signal, targets, got, apart>>
  BY Zenon DEF Routing!Attempt, Routing!redisVars
<1>2. \/ taken /\ outcome' = "sent" /\ attempt' = 0 /\ repeats' = FALSE /\ UNCHANGED <<sleep, unmarked>>
      \/ outcome' = "failed" /\ attempt' = 0 /\ repeats' = FALSE /\ sleep' = sleep /\ Routing!Miss
      \/ /\ attempt < MaxAttempts /\ attempt' = attempt + 1 /\ outcome' = outcome
         /\ repeats' = (repeats \/ taken) /\ sleep' = Routing!Doubled[attempt - 1] /\ Routing!Miss
  BY Zenon DEF Routing!Attempt, Routing!Delay
<1>3. RoutingTypes /\ UnderWay /\ SendsMarked /\ WindowsKept
  BY DEF RoutingInv
<1>4. signal \in Message /\ targets # {} /\ outcome = "none" /\ Routing!ShouldDeliver(signal)
  BY <1>1, <1>3 DEF UnderWay, RoutingTypes
<1>5. c \in Routing!Channel /\ Routing!Target' = c
  BY <1>1, <1>3, <1>4, TargetIs DEF Routing!Target
<1>6. /\ attempt \in 1..MaxAttempts /\ Routing!Doubled[attempt - 1] \in Nat
      /\ waited \in 0..SendTime
  BY <1>1, <1>3, RetrySpanIs DEF RoutingTypes
<1> HIDE DEF c
<1>7. unmarked' \in [Message -> Nat]
  BY <1>2, <1>3, <1>4 DEF RoutingTypes, Routing!Miss
<1>8. repeats' \in BOOLEAN
  BY <1>2, <1>3 DEF RoutingTypes
<1>9. RoutingTypes'
  <2>1. /\ attempt' \in 0..MaxAttempts /\ sleep' \in Nat /\ waited' \in 0..SendTime
        /\ outcome' \in {"none", "sent", "failed"}
    BY <1>1, <1>2, <1>3, <1>6 DEF RoutingTypes
  <2>2. taken' \in BOOLEAN
    BY <1>1
  <2>3. /\ delivered' \in [Message -> SUBSET Routing!Channel]
        /\ failed' \in [Message -> SUBSET Routing!Channel]
        /\ slot' \in [Routing!Channel -> Nat] /\ apart' \in [Routing!Channel -> 0..Window]
        /\ signal' \in Message \union {None} /\ targets' \subseteq DOMAIN Chain
        /\ got' \in [Message -> Nat]
    BY <1>1, <1>3, Zenon DEF RoutingTypes
  <2> QED
    BY <1>7, <1>8, <2>1, <2>2, <2>3, Zenon DEF RoutingTypes
<1>10. UnderWay'
  BY <1>1, <1>2, <1>4, <1>6, <1>3 DEF UnderWay, Routing!ShouldDeliver
<1>11. SendsMarked'
  <2> SUFFICES ASSUME NEW n \in Message  PROVE Marked(n)'
    BY DEF SendsMarked
  <2>1. Marked(n) /\ got[n] \in Nat /\ unmarked[n] \in Nat
    BY <1>3 DEF SendsMarked, RoutingTypes
  <2>2. CASE n # signal
    <3>1. unmarked'[n] = unmarked[n] /\ ~Pending(n) /\ ~Pending(n)'
      BY <1>1, <1>2, <1>3, <1>4, <2>2 DEF RoutingTypes, Pending, Routing!Miss
    <3> QED
      BY <1>1, <2>1, <3>1 DEF Marked
  <2>3. CASE n = signal /\ outcome' = "sent"
    <3>1. unmarked' = unmarked /\ Pending(n) /\ Pending(n)'
      BY <1>1, <1>2, <1>4, <2>3 DEF Pending
    <3> QED
      BY <1>1, <2>1, <3>1 DEF Marked
  <2>4. CASE n = signal /\ outcome' # "sent" /\ taken
    <3>1. unmarked'[n] = unmarked[n] + 1 /\ Pending(n) /\ ~Pending(n)'
      BY <1>1, <1>2, <1>3, <1>4, <2>4 DEF RoutingTypes, Pending, Routing!Miss
    <3> QED
      BY <1>1, <2>1, <3>1, Missed
  <2>5. CASE n = signal /\ outcome' # "sent" /\ ~taken
    <3>1. unmarked' = unmarked /\ ~Pending(n) /\ ~Pending(n)'
      BY <1>1, <1>2, <1>4, <2>5 DEF Pending, Routing!Miss
    <3> QED
      BY <1>1, <2>1, <3>1 DEF Marked
  <2> QED
    BY <2>2, <2>3, <2>4, <2>5
<1>12. \A x \in Routing!Channel : slot[x] \in Nat /\ apart[x] \in 0..Window
  BY <1>3 DEF RoutingTypes
<1>13. c \in Messaging =>
          /\ slot[c] + Routing!Doubled[attempt - 1] + Lasted + waited >= Window + 1
          /\ ~taken /\ ~repeats => apart[c] + Routing!DispatchTime >= Window
  BY <1>1, <1>3 DEF WindowsKept, c
<1>14. ASSUME attempt' > 0, c \in Messaging
       PROVE  /\ slot'[c] + Routing!Doubled[attempt' - 1] + Lasted' + waited'
                    >= Window + 1 + sleep'
              /\ ~taken' /\ ~repeats' => apart'[c] + Routing!DispatchTime >= Window
  <2>1. /\ attempt' = attempt + 1 /\ sleep' = Routing!Doubled[attempt - 1]
        /\ repeats' = (repeats \/ taken)
    BY <1>2, <1>14
  <2>2. Routing!Doubled[attempt' - 1] = 2 * Routing!Doubled[attempt - 1]
    <3>1. attempt - 1 \in Nat /\ attempt' - 1 = (attempt - 1) + 1
      BY <1>6, <2>1
    <3> QED
      BY <3>1, Doubling
  <2>3. Lasted' = Lasted + SendTime /\ Lasted \in Nat
    <3>1. Lasted' = attempt * SendTime
      BY <1>6, <2>1 DEF Lasted
    <3> QED
      BY <1>6, <3>1, DispatchIs DEF Lasted
  <2>4. slot'[c] + Routing!Doubled[attempt' - 1] + Lasted' + waited' >= Window + 1 + sleep'
    BY <1>1, <1>5, <1>6, <1>12, <1>13, <1>14, <2>1, <2>2, <2>3
  <2> QED
    BY <1>1, <1>13, <1>14, <2>1, <2>4
<1>15. WindowsKept'
  BY <1>1, <1>3, <1>5, <1>14 DEF WindowsKept
<1> QED
  BY <1>1, <1>9, <1>10, <1>11, <1>15 DEF RoutingInv

LEMMA RoutingRecord ==
    ASSUME RoutingInv, Routing!Record
    PROVE  RoutingInv' /\ got' = got
<1> USE RoutingConstants
<1> DEFINE c == Routing!Target
<1>1. /\ outcome # "none" /\ outcome' = "none" /\ targets' \subseteq targets
      /\ IF outcome = "sent"
           THEN delivered' = [delivered EXCEPT ![signal] = delivered[signal] \union {c}] /\ UNCHANGED failed
           ELSE failed' = [failed EXCEPT ![signal] = failed[signal] \union {c}] /\ UNCHANGED delivered
      /\ UNCHANGED <<mode, slot, signal, attempt, sleep, waited, taken, repeats, apart, got, unmarked>>
  BY DEF Routing!Record, Routing!NextTarget, Routing!historyVars
<1>2. RoutingTypes /\ UnderWay /\ SendsMarked /\ WindowsKept
  BY DEF RoutingInv
<1>3. signal \in Message /\ targets # {} /\ attempt = 0 /\ ~taken
  BY <1>1, <1>2 DEF UnderWay, RoutingTypes
<1>4. c \in Routing!Channel
  BY <1>2, <1>3, TargetIs
<1> HIDE DEF c
<1>5. /\ delivered' \in [Message -> SUBSET Routing!Channel] /\ failed' \in [Message -> SUBSET Routing!Channel]
      /\ \A n \in Message : delivered[n] \subseteq delivered'[n] /\ failed[n] \subseteq failed'[n]
      /\ outcome = "sent" => delivered'[signal] # {}
  BY <1>1, <1>2, <1>3, <1>4 DEF RoutingTypes
<1>6. RoutingTypes'
  BY <1>1, <1>2, <1>5 DEF RoutingTypes
<1>7. SendsMarked'
  <2> SUFFICES ASSUME NEW n \in Message  PROVE Marked(n)'
    BY DEF SendsMarked
  <2>1. /\ Marked(n) /\ delivered[n] \subseteq delivered'[n] /\ failed[n] \subseteq failed'[n]
        /\ Pending(n) => delivered'[n] # {}
    BY <1>2, <1>3, <1>5 DEF SendsMarked, Pending
  <2>2. ~Pending(n)'
    BY <1>1, <1>3 DEF Pending
  <2> QED
    BY <1>1, <2>1, <2>2 DEF Marked
<1> QED
  BY <1>1, <1>2, <1>3, <1>6, <1>7 DEF RoutingInv, UnderWay, WindowsKept

LEMMA RoutingCrash ==
    ASSUME RoutingInv, Routing!Crash
    PROVE  RoutingInv' /\ got' = got
<1> USE RoutingConstants
<1>1. /\ unmarked' = IF taken \/ outcome = "sent"
                     THEN [unmarked EXCEPT ![signal] = unmarked[signal] + 1] ELSE unmarked
      /\ signal # None /\ signal' = None /\ targets' = {} /\ attempt' = 0 /\ sleep' = 0
      /\ waited' = 0 /\ taken' = FALSE /\ repeats' = FALSE /\ outcome' = "none"
      /\ UNCHANGED <<mode, delivered, failed, slot, apart, got>>
  BY Zenon DEF Routing!Crash, Routing!redisVars
<1>2. RoutingTypes' /\ UnderWay'
  <2>1. unmarked' \in [Message -> Nat]
    BY <1>1 DEF RoutingInv, RoutingTypes
  <2>2. /\ signal' \in Message \union {None} /\ targets' \subseteq DOMAIN Chain
        /\ attempt' \in 0..MaxAttempts /\ sleep' \in Nat
        /\ waited' \in 0..SendTime /\ outcome' \in {"none", "sent", "failed"}
    BY <1>1
  <2>3. /\ delivered' \in [Message -> SUBSET Routing!Channel]
        /\ failed' \in [Message -> SUBSET Routing!Channel]
        /\ slot' \in [Routing!Channel -> Nat] /\ apart' \in [Routing!Channel -> 0..Window]
        /\ got' \in [Message -> Nat]
    BY <1>1, Zenon DEF RoutingInv, RoutingTypes
  <2>4. UnderWay'
    BY <1>1 DEF UnderWay
  <2>5. taken' \in BOOLEAN /\ repeats' \in BOOLEAN
    BY <1>1, Zenon
  <2> QED
    BY <2>1, <2>2, <2>3, <2>4, <2>5, Zenon DEF RoutingTypes
<1>3. SendsMarked'
  <2> SUFFICES ASSUME NEW n \in Message  PROVE Marked(n)'
    BY DEF SendsMarked
  <2>1. Marked(n) /\ got[n] \in Nat /\ unmarked[n] \in Nat /\ ~Pending(n)'
    BY <1>1 DEF RoutingInv, SendsMarked, RoutingTypes, Pending
  <2>2. CASE Pending(n)
    <3>1. unmarked'[n] = unmarked[n] + 1
      BY <1>1, <2>2 DEF RoutingInv, RoutingTypes, Pending
    <3> QED
      BY <1>1, <2>1, <2>2, <3>1, Missed
  <2>3. CASE ~Pending(n)
    <3>1. unmarked'[n] = unmarked[n]
      BY <1>1, <2>3 DEF RoutingInv, RoutingTypes, Pending
    <3> QED
      BY <1>1, <2>1, <2>3, <3>1 DEF Marked
  <2> QED
    BY <2>2, <2>3
<1>4. WindowsKept'
  BY <1>1 DEF RoutingInv, WindowsKept
<1> QED
  BY <1>1, <1>2, <1>3, <1>4 DEF RoutingInv

LEMMA RoutingTick ==
    ASSUME RoutingInv, Routing!Tick
    PROVE  RoutingInv' /\ got' = got
<1> USE RoutingConstants
<1>1. /\ attempt > 0 => sleep > 0 \/ waited < SendTime
      /\ waited' = IF attempt > 0 /\ sleep = 0 THEN waited + 1 ELSE waited
      /\ sleep' = IF sleep > 0 THEN sleep - 1 ELSE 0
      /\ slot' = [c \in Routing!Channel |-> IF slot[c] > 0 THEN slot[c] - 1 ELSE 0]
      /\ apart' = [c \in Routing!Channel |-> IF apart[c] < Window THEN apart[c] + 1 ELSE Window]
      /\ UNCHANGED <<mode, delivered, failed, signal, targets, attempt, taken, repeats,
                     outcome, got, unmarked>>
  BY Zenon DEF Routing!Tick
<1>2. RoutingTypes /\ UnderWay /\ SendsMarked /\ WindowsKept
  BY DEF RoutingInv
<1>3. \A x \in Routing!Channel : slot[x] \in Nat /\ apart[x] \in 0..Window
  BY <1>2 DEF RoutingTypes
<1>4. /\ slot' \in [Routing!Channel -> Nat] /\ apart' \in [Routing!Channel -> 0..Window]
      /\ \A x \in Routing!Channel : /\ apart'[x] # 0 /\ apart'[x] >= apart[x]
                                    /\ slot'[x] + 1 >= slot[x]
                                    /\ apart'[x] + slot'[x] >= apart[x] + slot[x] \/ apart'[x] = Window
                                    /\ slot[x] = 0 => slot'[x] = 0
  BY <1>1, <1>3
<1>5. sleep \in Nat /\ sleep' \in Nat /\ waited \in 0..SendTime /\ waited' \in 0..SendTime
  <2>1. sleep \in Nat /\ waited \in 0..SendTime /\ (attempt > 0 /\ sleep = 0 => waited < SendTime)
    BY <1>1, <1>2 DEF RoutingTypes
  <2> QED
    BY <1>1, <2>1
<1>6. RoutingTypes'
  BY <1>1, <1>2, <1>4, <1>5 DEF RoutingTypes
<1>7. UnderWay'
  BY <1>1, <1>2, <1>5 DEF UnderWay, Routing!ShouldDeliver
<1>8. SendsMarked'
  BY <1>1, <1>2 DEF SendsMarked, Marked, Pending
<1>9. ASSUME NEW x \in Messaging \cap Routing!Channel
      PROVE  apart'[x] + slot'[x] + Routing!DispatchTime >= Window
  <2>1. apart[x] + slot[x] + Routing!DispatchTime >= Window
    BY <1>2 DEF WindowsKept
  <2>2. slot'[x] \in Nat /\ apart'[x] \in Nat /\ slot[x] \in Nat /\ apart[x] \in Nat
    BY <1>3, <1>4
  <2> QED
    BY <1>4, <2>1, <2>2, DispatchIs
<1>10. ASSUME attempt > 0, Routing!Target \in Messaging
       PROVE  /\ slot'[Routing!Target] + Routing!Doubled[attempt - 1] + Lasted + waited'
                    >= Window + 1 + sleep'
              /\ ~taken /\ ~repeats => apart'[Routing!Target] + Routing!DispatchTime >= Window
  <2> DEFINE c == Routing!Target
  <2>1. c \in Routing!Channel
    BY <1>2, <1>10, TargetIs DEF UnderWay
  <2>2. /\ slot[c] + Routing!Doubled[attempt - 1] + Lasted + waited >= Window + 1 + sleep
        /\ ~taken /\ ~repeats => apart[c] + Routing!DispatchTime >= Window
    BY <1>2, <1>10 DEF WindowsKept
  <2>3. Routing!Doubled[attempt - 1] \in Nat /\ Lasted \in Nat
    <3>1. attempt \in 1..MaxAttempts
      BY <1>2, <1>10 DEF RoutingTypes
    <3> QED
      BY <3>1, RetrySpanIs, DispatchIs DEF Lasted
  <2>4. \/ sleep' = sleep - 1 /\ waited' = waited
        \/ sleep' = sleep /\ waited' = waited + 1
    BY <1>1, <1>5, <1>10
  <2> HIDE DEF c
  <2>5. slot[c] \in Nat /\ slot'[c] \in Nat /\ apart[c] \in Nat /\ apart'[c] \in Nat
    BY <1>3, <1>4, <2>1
  <2>6. slot'[c] + Routing!Doubled[attempt - 1] + Lasted + waited' >= Window + 1 + sleep'
    BY <1>4, <1>5, <2>1, <2>2, <2>3, <2>4, <2>5
  <2>7. ~taken /\ ~repeats => apart'[c] + Routing!DispatchTime >= Window
    BY <1>4, <2>1, <2>2, <2>5, DispatchIs
  <2> QED
    BY <2>6, <2>7 DEF c
<1>11. Routing!Target' = Routing!Target /\ Lasted' = Lasted
  BY <1>1 DEF Routing!Target, Lasted
<1>12. WindowsKept'
  BY <1>1, <1>9, <1>10, <1>11 DEF WindowsKept
<1> QED
  BY <1>1, <1>6, <1>7, <1>8, <1>12 DEF RoutingInv

LEMMA RoutingNext == RoutingInv /\ [Next]_vars => RoutingInv' /\ Spaced
<1> SUFFICES ASSUME RoutingInv, Routing!Next \/ UNCHANGED routingVars  PROVE RoutingInv' /\ Spaced
  BY RoutingSteps
<1>1. CASE \/ UNCHANGED <<mode, delivered, failed, slot, apart, signal, targets, attempt, sleep,
                          waited, taken, repeats, outcome, got, unmarked>>
  <2>1. RoutingInv' /\ got' = got
    BY <1>1 DEF RoutingInv, RoutingTypes, UnderWay, SendsMarked, Marked, Pending, WindowsKept,
       Lasted, Routing!Target, Routing!ShouldDeliver
  <2> QED
    BY <2>1 DEF Spaced
<1>2. CASE Routing!Evening
  BY <1>1, <1>2 DEF Routing!Evening, Routing!redisVars, Routing!routeVars, Routing!sendVars, Routing!historyVars
<1>3. CASE UNCHANGED routingVars
  BY <1>1, <1>3 DEF routingVars
<1>4. CASE Routing!Finish
  <2>1. /\ targets = {} /\ signal' = None
        /\ UNCHANGED <<mode, delivered, failed, slot, apart, targets, attempt, sleep,
                       waited, taken, repeats, outcome, got, unmarked>>
    BY <1>4, Zenon DEF Routing!Finish, Routing!redisVars, Routing!sendVars, Routing!historyVars
  <2>2. attempt = 0 /\ outcome = "none" /\ ~taken
    BY <2>1 DEF RoutingInv, UnderWay, RoutingTypes
  <2>3. RoutingInv' /\ got' = got
    BY <2>1, <2>2 DEF RoutingInv, RoutingTypes, UnderWay, SendsMarked, Marked, Pending, WindowsKept
  <2> QED
    BY <2>3 DEF Spaced
<1>5. CASE \E n \in Message : Routing!Receive(n)
  BY <1>5, RoutingReceive DEF Spaced
<1>6. CASE Routing!Consider
  BY <1>6, RoutingConsider DEF Spaced
<1>7. CASE Routing!Attempt
  BY <1>7, RoutingAttempt DEF Spaced
<1>11. CASE Routing!Accept
  BY <1>11, RoutingAccept
<1>8. CASE Routing!Record
  BY <1>8, RoutingRecord DEF Spaced
<1>9. CASE Routing!Crash
  BY <1>9, RoutingCrash DEF Spaced
<1>10. CASE Routing!Tick
  BY <1>10, RoutingTick DEF Spaced
<1> QED
  BY <1>2, <1>3, <1>4, <1>5, <1>6, <1>7, <1>8, <1>9, <1>10, <1>11 DEF Routing!Next

LEMMA RoutingOnce == RoutingInv => Routing!SentOnce
  BY DEF RoutingInv, SendsMarked, Marked, Routing!SentOnce

(***************************************************************************)
(* The routers of the notification service                                 *)
(***************************************************************************)

LEMMA NotifierSteps == [Next]_vars => Notifier!Next \/ UNCHANGED notifierVars
  BY Zenon DEF Next, Only, vars

LEMMA NotifierCardinality == \A S : Notifier!Cardinality(S) = Cardinality(S)
  BY Zenon DEF Cardinality, Notifier!Cardinality

LEMMA SendersIs ==
    /\ DOMAIN Senders \subseteq Nat /\ 1 \in DOMAIN Senders
    /\ \A k \in DOMAIN Senders : Senders[k] \in Notifier!Channel
<1>1. PICK S : Senders \in Seq(S) /\ Senders # << >>
  BY ChannelLists, Zenon
<1>2. DOMAIN Senders \subseteq Nat /\ 1 \in DOMAIN Senders
  BY <1>1
<1> QED
  BY <1>2 DEF Notifier!Channel, Notifier!Range

SigOf(x) == CHOOSE s \in x.signal : TRUE
ChanOf(x) == Senders[Notifier!Min(x.left)]

\* What the deduplication of a mode claims.
Key(s, c) == IF delivery = "primary_only" THEN <<s>> ELSE <<s, c>>
KeyOf(x) == Key(SigOf(x), ChanOf(x))

RoutePlace == [signal : SUBSET Notice, left : SUBSET DOMAIN Senders,
          label : {"free", "dedup", "claim", "count", "take", "send", "mark"}]

\* What a router may be at: the primary channel only, if that is the mode, and
\* the labels of a fallback chain in no other.
Proper(x) ==
    /\ x \in RoutePlace
    /\ x.label # "free" => x.left # {} /\ \E s \in Notice : x.signal = {s}
    /\ x.label # "free" /\ delivery = "primary_only" => x.left = {1}
    /\ x.label \in {"claim", "mark"} => delivery = "fallback_chain"

\* Past its claim, up to the send.
Holds(x) == x.label \in {"count", "take", "send"}

NotifierTypes ==
    /\ routing \in [Router -> RoutePlace] /\ \A r \in Router : Proper(routing[r])
    /\ copies \in [Notice \X Notifier!Channel -> Nat]
    /\ unanswered \in [Notice \X Notifier!Channel -> Nat]
    /\ deaths \in Nat /\ delivery \in {"primary_only", "all_enabled", "fallback_chain"}

\* What a channel got of a signal: one message and those whose reply was lost, no
\* more than a sender posts, and nothing that was not claimed.
Sound(s, c) ==
    /\ unanswered[<<s, c>>] <= copies[<<s, c>>] /\ copies[<<s, c>>] <= 1 + unanswered[<<s, c>>]
    /\ copies[<<s, c>>] <= Notifier!Posts(c)
    /\ copies[<<s, c>>] # 0 =>
          Key(s, c) \in claims /\ (delivery = "primary_only" => c = Senders[1])

\* Who holds a claim holds it alone, and nothing was sent under it.
ClaimsKept ==
    /\ \A r \in Router : Holds(routing[r]) =>
          KeyOf(routing[r]) \in claims /\ copies[<<SigOf(routing[r]), ChanOf(routing[r])>>] = 0
    /\ \A r, q \in Router :
          Holds(routing[r]) /\ Holds(routing[q]) /\ KeyOf(routing[r]) = KeyOf(routing[q]) => r = q
    /\ \A s \in Notice, c \in Notifier!Channel : Sound(s, c)

LEMMA PostsIs == \A c : Notifier!Posts(c) \in Nat \ {0}
<1>1. MaxPosts \in Nat \ {0}
  BY ServiceConstants
<1> QED
  BY <1>1 DEF Notifier!Posts

ClaimInv == NotifierTypes /\ ClaimsKept

LEMMA NotifierInit == Init => ClaimInv
<1> SUFFICES ASSUME Init  PROVE ClaimInv
  OBVIOUS
<1>1. /\ routing = [r \in Router |-> [signal |-> {}, left |-> {}, label |-> "free"]]
      /\ copies = [p \in Notice \X Notifier!Channel |-> 0]
      /\ unanswered = [p \in Notice \X Notifier!Channel |-> 0] /\ deaths = 0
      /\ delivery \in {"primary_only", "all_enabled", "fallback_chain"}
  BY Zenon DEF Init, Notifier!Init, Notifier!Free
<1>2. \A r \in Router : Proper(routing[r]) /\ ~Holds(routing[r])
  BY <1>1 DEF Proper, Holds, RoutePlace
<1>3. NotifierTypes
  BY <1>1, <1>2 DEF NotifierTypes, RoutePlace
<1>4. \A s \in Notice, c \in Notifier!Channel : Sound(s, c)
  BY <1>1, PostsIs DEF Sound
<1> QED
  BY <1>2, <1>3, <1>4 DEF ClaimInv, ClaimsKept

LEMMA PlaceIs ==
    ASSUME NEW x, Proper(x), x.label # "free"
    PROVE  /\ SigOf(x) \in Notice /\ x.signal = {SigOf(x)}
           /\ ChanOf(x) \in Notifier!Channel
           /\ delivery = "primary_only" => ChanOf(x) = Senders[1]
           /\ x.left \ {Notifier!Min(x.left)} \in SUBSET DOMAIN Senders
           /\ delivery = "primary_only" => x.left \ {Notifier!Min(x.left)} = {}
<1>1. SigOf(x) \in Notice /\ x.signal = {SigOf(x)}
  BY DEF Proper, SigOf
<1>2. x.left \in SUBSET DOMAIN Senders /\ x.left # {} /\ x.left \in SUBSET Nat
  BY SendersIs DEF Proper, RoutePlace
<1>3. PICK k \in x.left : \A n \in x.left : k <= n
  BY <1>2, LeastNumber
<1>4. Notifier!Min(x.left) \in x.left
  BY <1>3 DEF Notifier!Min
<1>5. ChanOf(x) \in Notifier!Channel
  BY <1>2, <1>4, SendersIs DEF ChanOf
<1>6. delivery = "primary_only" => Notifier!Min(x.left) = 1 /\ x.left = {1}
  BY <1>4 DEF Proper
<1> QED
  BY <1>1, <1>2, <1>5, <1>6 DEF ChanOf

\* The next channel, or the end.
LEMMA OnwardsIs ==
    ASSUME NotifierTypes, NEW r \in Router, routing[r].label # "free", Notifier!Onwards(r)
    PROVE  \E y : /\ Proper(y) /\ routing' = [routing EXCEPT ![r] = y]
                  /\ \/ y.label = "free"
                     \/ y.label = "dedup" /\ y.signal = routing[r].signal
<1> DEFINE x == routing[r]
           rest == x.left \ {Notifier!Min(x.left)}
           y == IF rest = {} THEN Notifier!Free
                ELSE [signal |-> x.signal, left |-> rest, label |-> "dedup"]
<1>1. routing' = [routing EXCEPT ![r] = y]
  BY Zenon DEF Notifier!Onwards
<1>2. Proper(x) /\ x.label # "free"
  BY DEF NotifierTypes
<1> HIDE DEF x
<1>3. /\ SigOf(x) \in Notice /\ x.signal = {SigOf(x)} /\ rest \in SUBSET DOMAIN Senders
      /\ delivery = "primary_only" => rest = {}
  BY <1>2, PlaceIs
<1> HIDE DEF rest
<1>4. CASE rest = {}
  <2>1. Proper(y) /\ y.label = "free"
    BY <1>4 DEF Proper, RoutePlace, Notifier!Free
  <2> QED
    BY <1>1, <2>1 DEF x
<1>5. CASE rest # {}
  <2>1. y = [signal |-> x.signal, left |-> rest, label |-> "dedup"]
    BY <1>5
  <2>2. Proper(y) /\ y.label = "dedup" /\ y.signal = x.signal
    BY <1>3, <1>5, <2>1 DEF Proper, RoutePlace
  <2> QED
    BY <1>1, <2>2 DEF x
<1> QED
  BY <1>4, <1>5

\* Only the label changes.
LEMMA GotoIs ==
    ASSUME NotifierTypes, NEW r \in Router, routing[r].label # "free",
           NEW label \in {"claim", "count", "take", "send", "mark"}, Notifier!Goto(r, label),
           label \in {"claim", "mark"} => delivery = "fallback_chain"
    PROVE  \E y : /\ Proper(y) /\ routing' = [routing EXCEPT ![r] = y]
                  /\ y.label = label /\ y.signal = routing[r].signal /\ y.left = routing[r].left
<1> DEFINE y == [routing[r] EXCEPT !.label = label]
<1>1. routing' = [routing EXCEPT ![r] = y]
  BY Zenon DEF Notifier!Goto
<1>2. Proper(routing[r]) /\ routing[r] \in RoutePlace
  BY DEF NotifierTypes
<1>3. y \in RoutePlace /\ y.label = label /\ y.signal = routing[r].signal /\ y.left = routing[r].left
  BY <1>2 DEF RoutePlace
<1> HIDE DEF y
<1>4. Proper(y)
  BY <1>2, <1>3 DEF Proper
<1> QED
  BY <1>1, <1>3, <1>4

\* A router moves, without a send: it holds what it held, or a claim nobody had.
LEMMA ClaimMoves ==
    ASSUME ClaimInv, NEW r \in Router, NEW y, Proper(y), routing' = [routing EXCEPT ![r] = y],
           UNCHANGED <<delivery, copies, unanswered>>, claims \subseteq claims', deaths' \in Nat,
           Holds(y) => \/ /\ Holds(routing[r])
                          /\ y.signal = routing[r].signal /\ y.left = routing[r].left
                       \/ KeyOf(y) \notin claims /\ KeyOf(y) \in claims'
    PROVE  ClaimInv'
<1>1. /\ routing \in [Router -> RoutePlace] /\ \A q \in Router : Proper(routing[q])
      /\ routing'[r] = y /\ \A q \in Router : q # r => routing'[q] = routing[q]
      /\ routing' \in [Router -> RoutePlace]
  BY DEF ClaimInv, NotifierTypes, Proper
<1>2. \A x : (Proper(x) <=> Proper(x)') /\ Holds(x)' = Holds(x) /\ KeyOf(x)' = KeyOf(x)
             /\ SigOf(x)' = SigOf(x) /\ ChanOf(x)' = ChanOf(x)
  BY DEF Proper, RoutePlace, Holds, KeyOf, Key, SigOf, ChanOf
<1>3. \A s, c : Key(s, c)' = Key(s, c)
  BY DEF Key
<1>4. NotifierTypes'
  BY <1>1, <1>2 DEF ClaimInv, NotifierTypes, RoutePlace
<1>5. ASSUME Holds(y)
      PROVE  /\ KeyOf(y) \in claims' /\ copies[<<SigOf(y), ChanOf(y)>>] = 0
             /\ \A q \in Router \ {r} : Holds(routing[q]) => KeyOf(routing[q]) # KeyOf(y)
  <2>1. CASE Holds(routing[r]) /\ y.signal = routing[r].signal /\ y.left = routing[r].left
    <3>1. SigOf(y) = SigOf(routing[r]) /\ ChanOf(y) = ChanOf(routing[r]) /\ KeyOf(y) = KeyOf(routing[r])
      BY <2>1 DEF SigOf, ChanOf, KeyOf
    <3> QED
      BY <2>1, <3>1 DEF ClaimInv, ClaimsKept
  <2>2. CASE KeyOf(y) \notin claims /\ KeyOf(y) \in claims'
    <3>1. SigOf(y) \in Notice /\ ChanOf(y) \in Notifier!Channel
      BY <1>5, PlaceIs DEF Holds
    <3>2. copies[<<SigOf(y), ChanOf(y)>>] = 0
      BY <2>2, <3>1 DEF ClaimInv, ClaimsKept, Sound, KeyOf
    <3> QED
      BY <2>2, <3>2 DEF ClaimInv, ClaimsKept
  <2> QED
    BY <1>5, <2>1, <2>2
<1>6. ASSUME NEW q \in Router, Holds(routing'[q])
      PROVE  KeyOf(routing'[q]) \in claims' /\ copies[<<SigOf(routing'[q]), ChanOf(routing'[q])>>] = 0
  BY <1>1, <1>5, <1>6 DEF ClaimInv, ClaimsKept
<1>7. ASSUME NEW p \in Router, NEW q \in Router, Holds(routing'[p]), Holds(routing'[q]),
             KeyOf(routing'[p]) = KeyOf(routing'[q])
      PROVE  p = q
  BY <1>1, <1>5, <1>7 DEF ClaimInv, ClaimsKept
<1>8. ClaimsKept'
  <2>1. ASSUME NEW s \in Notice, NEW c \in Notifier!Channel  PROVE Sound(s, c)'
    <3>1. Sound(s, c)
      BY DEF ClaimInv, ClaimsKept
    <3> QED
      BY <3>1 DEF Sound, Key, Notifier!Posts
  <2> QED
    BY <1>2, <1>3, <1>6, <1>7, <2>1 DEF ClaimsKept
<1> QED
  BY <1>4, <1>8 DEF ClaimInv

\* Nothing was sent of what a router is about to send.
LEMMA NothingSent ==
    ASSUME ClaimInv, NEW r \in Router, routing[r].label = "send"
    PROVE  /\ SigOf(routing[r]) \in Notice /\ ChanOf(routing[r]) \in Notifier!Channel
           /\ KeyOf(routing[r]) \in claims
           /\ copies[<<SigOf(routing[r]), ChanOf(routing[r])>>] = 0
           /\ unanswered[<<SigOf(routing[r]), ChanOf(routing[r])>>] = 0
           /\ delivery = "primary_only" => ChanOf(routing[r]) = Senders[1]
<1>1. Holds(routing[r]) /\ Proper(routing[r])
  BY DEF ClaimInv, NotifierTypes, Holds
<1>2. /\ SigOf(routing[r]) \in Notice /\ ChanOf(routing[r]) \in Notifier!Channel
      /\ KeyOf(routing[r]) \in claims
      /\ copies[<<SigOf(routing[r]), ChanOf(routing[r])>>] = 0
      /\ delivery = "primary_only" => ChanOf(routing[r]) = Senders[1]
  BY <1>1, PlaceIs DEF ClaimInv, ClaimsKept
<1> DEFINE sig == SigOf(routing[r])
           chan == ChanOf(routing[r])
<1>3. sig \in Notice /\ chan \in Notifier!Channel /\ copies[<<sig, chan>>] = 0
  BY <1>2
<1> HIDE DEF sig, chan
<1>4. Sound(sig, chan) /\ unanswered[<<sig, chan>>] \in Nat
  BY <1>3 DEF ClaimInv, ClaimsKept, NotifierTypes
<1>5. unanswered[<<sig, chan>>] = 0
  BY <1>3, <1>4 DEF Sound
<1> QED
  BY <1>2, <1>5 DEF sig, chan

\* A router sends one signal over one channel: what the other pairs got is as it was.
Copied(r, k, u) ==
    /\ copies' = [copies EXCEPT ![<<SigOf(routing[r]), ChanOf(routing[r])>>] = k]
    /\ unanswered' = [unanswered EXCEPT ![<<SigOf(routing[r]), ChanOf(routing[r])>>] = u]

LEMMA CountsAfter ==
    ASSUME ClaimInv, NEW r \in Router, routing[r].label = "send", NEW k \in Nat, NEW u \in Nat,
           Copied(r, k, u)
    PROVE  /\ copies' \in [Notice \X Notifier!Channel -> Nat]
           /\ unanswered' \in [Notice \X Notifier!Channel -> Nat]
           /\ copies'[<<SigOf(routing[r]), ChanOf(routing[r])>>] = k
           /\ unanswered'[<<SigOf(routing[r]), ChanOf(routing[r])>>] = u
           /\ \A q \in Notice \X Notifier!Channel :
                 q # <<SigOf(routing[r]), ChanOf(routing[r])>> =>
                     copies'[q] = copies[q] /\ unanswered'[q] = unanswered[q]
<1> DEFINE p == <<SigOf(routing[r]), ChanOf(routing[r])>>
<1>1. p \in Notice \X Notifier!Channel
  BY NothingSent
<1>2. copies' = [copies EXCEPT ![p] = k] /\ unanswered' = [unanswered EXCEPT ![p] = u]
  BY Zenon DEF Copied
<1>3. /\ copies \in [Notice \X Notifier!Channel -> Nat]
      /\ unanswered \in [Notice \X Notifier!Channel -> Nat]
  BY DEF ClaimInv, NotifierTypes
<1> HIDE DEF p
<1>4. /\ copies' \in [Notice \X Notifier!Channel -> Nat]
      /\ unanswered' \in [Notice \X Notifier!Channel -> Nat]
      /\ copies'[p] = k /\ unanswered'[p] = u
      /\ \A q \in Notice \X Notifier!Channel :
            q # p => copies'[q] = copies[q] /\ unanswered'[q] = unanswered[q]
  BY <1>1, <1>2, <1>3
<1> QED
  BY <1>4, Zenon DEF p

\* A router moves after a send.
LEMMA ClaimSends ==
    ASSUME ClaimInv, NEW r \in Router, routing[r].label = "send",
           NEW y, Proper(y), routing' = [routing EXCEPT ![r] = y], ~Holds(y),
           NEW k \in Nat, NEW u \in Nat, u <= k, k <= 1 + u, k <= Notifier!Posts(ChanOf(routing[r])),
           Copied(r, k, u), UNCHANGED <<delivery, claims, deaths>>
    PROVE  ClaimInv'
<1> DEFINE sig == SigOf(routing[r])
           chan == ChanOf(routing[r])
<1>1. /\ routing \in [Router -> RoutePlace] /\ \A q \in Router : Proper(routing[q])
      /\ routing'[r] = y /\ \A q \in Router : q # r => routing'[q] = routing[q]
      /\ routing' \in [Router -> RoutePlace]
  BY DEF ClaimInv, NotifierTypes, Proper
<1>2. \A x : (Proper(x) <=> Proper(x)') /\ Holds(x)' = Holds(x) /\ KeyOf(x)' = KeyOf(x)
             /\ SigOf(x)' = SigOf(x) /\ ChanOf(x)' = ChanOf(x)
  BY DEF Proper, RoutePlace, Holds, KeyOf, Key, SigOf, ChanOf
<1>3. \A s, c : Key(s, c)' = Key(s, c)
  BY DEF Key
<1>4. /\ sig \in Notice /\ chan \in Notifier!Channel /\ Key(sig, chan) \in claims
      /\ delivery = "primary_only" => chan = Senders[1]
  BY NothingSent DEF KeyOf
<1>5. \A q \in Router \ {r} : Holds(routing[q]) => KeyOf(routing[q]) # Key(sig, chan)
  BY DEF ClaimInv, ClaimsKept, Holds, KeyOf
<1>6. /\ copies' \in [Notice \X Notifier!Channel -> Nat]
      /\ unanswered' \in [Notice \X Notifier!Channel -> Nat]
      /\ copies'[<<sig, chan>>] = k /\ unanswered'[<<sig, chan>>] = u
      /\ \A q \in Notice \X Notifier!Channel :
            q # <<sig, chan>> => copies'[q] = copies[q] /\ unanswered'[q] = unanswered[q]
  BY CountsAfter, Zenon
<1>7. k <= Notifier!Posts(chan)
  OBVIOUS
<1> HIDE DEF sig, chan
<1>8. NotifierTypes'
  BY <1>1, <1>2, <1>6 DEF ClaimInv, NotifierTypes, RoutePlace
<1>9. ASSUME NEW q \in Router, Holds(routing'[q])
      PROVE  KeyOf(routing'[q]) \in claims' /\ copies'[<<SigOf(routing'[q]), ChanOf(routing'[q])>>] = 0
  <2>1. q # r /\ routing'[q] = routing[q] /\ Holds(routing[q]) /\ Proper(routing[q])
    BY <1>1, <1>9
  <2>2. /\ KeyOf(routing[q]) \in claims /\ copies[<<SigOf(routing[q]), ChanOf(routing[q])>>] = 0
        /\ KeyOf(routing[q]) # Key(sig, chan)
    BY <1>5, <2>1 DEF ClaimInv, ClaimsKept
  <2>3. SigOf(routing[q]) \in Notice /\ ChanOf(routing[q]) \in Notifier!Channel
    BY <2>1, PlaceIs DEF Holds
  <2>4. <<SigOf(routing[q]), ChanOf(routing[q])>> # <<sig, chan>>
    BY <2>2 DEF KeyOf
  <2> QED
    BY <1>6, <2>1, <2>2, <2>3, <2>4
<1>10. ASSUME NEW p \in Router, NEW q \in Router, Holds(routing'[p]), Holds(routing'[q]),
              KeyOf(routing'[p]) = KeyOf(routing'[q])
       PROVE  p = q
  BY <1>1, <1>10 DEF ClaimInv, ClaimsKept
<1>11. claims' = claims /\ delivery' = delivery
  OBVIOUS
<1>12. ASSUME NEW s \in Notice, NEW c \in Notifier!Channel  PROVE Sound(s, c)'
  <2>1. CASE s = sig /\ c = chan
    <3>1. copies'[<<s, c>>] = k /\ unanswered'[<<s, c>>] = u
      BY <1>6, <2>1, Zenon
    <3>2. Key(s, c) \in claims /\ (delivery = "primary_only" => c = Senders[1])
      BY <1>4, <2>1, Zenon
    <3>3. k <= Notifier!Posts(c)
      BY <1>7, <2>1
    <3> QED
      BY <1>3, <1>11, <3>1, <3>2, <3>3 DEF Sound, Notifier!Posts
  <2>2. CASE ~(s = sig /\ c = chan)
    <3>1. copies'[<<s, c>>] = copies[<<s, c>>] /\ unanswered'[<<s, c>>] = unanswered[<<s, c>>]
      BY <1>6, <2>2
    <3>2. Sound(s, c)
      BY DEF ClaimInv, ClaimsKept
    <3> QED
      BY <1>3, <1>11, <3>1, <3>2 DEF Sound, Notifier!Posts
  <2> QED
    BY <2>1, <2>2
<1>13. ClaimsKept'
  BY <1>2, <1>3, <1>9, <1>10, <1>12 DEF ClaimsKept
<1> QED
  BY <1>8, <1>13 DEF ClaimInv

\* The routers that may still make a signal arrive, and those whose success is
\* still to be marked.
Sends(x, s) == x.label \in {"claim", "count", "take", "send"} /\ x.signal = {s}
Marks(x, s) == x.label = "mark" /\ x.signal = {s}
Sending(s) == {r \in Router : Sends(routing[r], s)}
Marking(s) == {r \in Router : Marks(routing[r], s)}
Arrived(s) == {c \in Notifier!Channel : copies[<<s, c>>] > unanswered[<<s, c>>]}

\* In a fallback chain: before the success mark each arrival has a router that is
\* about to mark it, or one that died; after it only those still send that did
\* not see it.
Stops(s) ==
    /\ IsFiniteSet(Arrived(s))
    /\ IF s \in success
       THEN Cardinality(Arrived(s)) + Cardinality(Sending(s)) <= Cardinality(Router) + deaths
       ELSE Cardinality(Arrived(s)) <= Cardinality(Marking(s)) + deaths

NotifierInv ==
    ClaimInv /\ (delivery = "fallback_chain" => \A s \in Notice : Stops(s))

\* What a router's move does to the two sets.
LEMMA RoutersMove ==
    ASSUME IsFiniteSet(Router), NotifierTypes, NEW r \in Router, NEW y,
           routing' = [routing EXCEPT ![r] = y], NEW s
    PROVE  /\ Cardinality(Sending(s)) \in Nat /\ Cardinality(Marking(s)) \in Nat
           /\ Cardinality(Sending(s)') =
                 Cardinality(Sending(s)) + (IF Sends(y, s) THEN 1 ELSE 0)
                     - (IF Sends(routing[r], s) THEN 1 ELSE 0)
           /\ Cardinality(Marking(s)') =
                 Cardinality(Marking(s)) + (IF Marks(y, s) THEN 1 ELSE 0)
                     - (IF Marks(routing[r], s) THEN 1 ELSE 0)
<1>1. routing'[r] = y /\ \A q \in Router : q # r => routing'[q] = routing[q]
  BY DEF NotifierTypes
<1>2. \A S \in SUBSET Router : IsFiniteSet(S) /\ Cardinality(S) \in Nat
  BY FS_Subset, FS_CardinalityType
<1>3. ASSUME NEW S \in SUBSET Router, NEW T, NEW in \in BOOLEAN,
             T = IF in THEN S \cup {r} ELSE S \ {r}
      PROVE  Cardinality(T) = Cardinality(S) + (IF in THEN 1 ELSE 0) - (IF r \in S THEN 1 ELSE 0)
  <2>1. IsFiniteSet(S) /\ Cardinality(S) \in Nat
    BY <1>2
  <2>2. /\ Cardinality(S \cup {r}) = IF r \in S THEN Cardinality(S) ELSE Cardinality(S) + 1
        /\ Cardinality(S \ {r}) = IF r \in S THEN Cardinality(S) - 1 ELSE Cardinality(S)
    BY <2>1, FS_AddElement, FS_RemoveElement
  <2>3. CASE in
    BY <1>3, <2>1, <2>2, <2>3
  <2>4. CASE ~in
    BY <1>3, <2>1, <2>2, <2>4
  <2> QED
    BY <2>3, <2>4
<1>4. /\ Sending(s) \in SUBSET Router /\ (r \in Sending(s) <=> Sends(routing[r], s))
      /\ Sending(s)' = IF Sends(y, s) THEN Sending(s) \cup {r} ELSE Sending(s) \ {r}
  BY <1>1 DEF Sending, Sends
<1>5. /\ Marking(s) \in SUBSET Router /\ (r \in Marking(s) <=> Marks(routing[r], s))
      /\ Marking(s)' = IF Marks(y, s) THEN Marking(s) \cup {r} ELSE Marking(s) \ {r}
  BY <1>1 DEF Marking, Marks
<1>6. Sends(y, s) \in BOOLEAN /\ Marks(y, s) \in BOOLEAN
  BY DEF Sends, Marks
<1> QED
  BY <1>2, <1>3, <1>4, <1>5, <1>6

\* A move that makes nothing arrive: nobody comes to send after the mark, and
\* nobody leaves the mark but by dying.
LEMMA StopsMoves ==
    ASSUME IsFiniteSet(Router), NotifierTypes, NEW r \in Router, NEW y,
           routing' = [routing EXCEPT ![r] = y], UNCHANGED success,
           NEW s, Stops(s), Arrived(s)' = Arrived(s),
           Sends(y, s) => s \notin success \/ Sends(routing[r], s),
           \/ deaths' = deaths /\ (Marks(routing[r], s) => s \in success)
           \/ deaths' = deaths + 1
    PROVE  Stops(s)'
<1>1. /\ Cardinality(Sending(s)) \in Nat /\ Cardinality(Marking(s)) \in Nat
      /\ Cardinality(Sending(s)') =
            Cardinality(Sending(s)) + (IF Sends(y, s) THEN 1 ELSE 0)
                - (IF Sends(routing[r], s) THEN 1 ELSE 0)
      /\ Cardinality(Marking(s)') =
            Cardinality(Marking(s)) + (IF Marks(y, s) THEN 1 ELSE 0)
                - (IF Marks(routing[r], s) THEN 1 ELSE 0)
  BY RoutersMove
<1>2. /\ Arrived(s)' = Arrived(s) /\ IsFiniteSet(Arrived(s)) /\ Cardinality(Arrived(s)) \in Nat
      /\ Cardinality(Router) \in Nat /\ deaths \in Nat
  BY FS_CardinalityType DEF Stops, NotifierTypes
<1>3. CASE s \in success
  <2>1. Cardinality(Arrived(s)) + Cardinality(Sending(s)) <= Cardinality(Router) + deaths
    BY <1>3 DEF Stops
  <2>2. Cardinality(Sending(s)') <= Cardinality(Sending(s)) /\ Cardinality(Sending(s)') \in Int
    BY <1>1, <1>3
  <2>3. Cardinality(Arrived(s)') + Cardinality(Sending(s)') <= Cardinality(Router) + deaths'
    BY <1>1, <1>2, <2>1, <2>2
  <2> QED
    BY <1>2, <1>3, <2>3 DEF Stops
<1>4. CASE s \notin success
  <2>1. Cardinality(Arrived(s)) <= Cardinality(Marking(s)) + deaths
    BY <1>4 DEF Stops
  <2>2. /\ Cardinality(Marking(s)) + deaths <= Cardinality(Marking(s)') + deaths'
        /\ Cardinality(Marking(s)') \in Int
    BY <1>1, <1>2, <1>4
  <2>3. Cardinality(Arrived(s)') <= Cardinality(Marking(s)') + deaths'
    BY <1>1, <1>2, <2>1, <2>2
  <2> QED
    BY <1>2, <1>4, <2>3 DEF Stops
<1> QED
  BY <1>3, <1>4

\* A signal arrives.
LEMMA StopsArrives ==
    ASSUME IsFiniteSet(Router), NotifierTypes, NEW r \in Router, NEW y,
           routing' = [routing EXCEPT ![r] = y], UNCHANGED <<success, deaths>>,
           routing[r].label = "send", y.label = "mark", y.signal = routing[r].signal,
           NEW c, NEW s, Stops(s), Arrived(s)' \subseteq Arrived(s) \cup {c},
           s # SigOf(routing[r]) => Arrived(s)' = Arrived(s)
    PROVE  Stops(s)'
<1>1. /\ Cardinality(Sending(s)) \in Nat /\ Cardinality(Marking(s)) \in Nat
      /\ Cardinality(Sending(s)') =
            Cardinality(Sending(s)) + (IF Sends(y, s) THEN 1 ELSE 0)
                - (IF Sends(routing[r], s) THEN 1 ELSE 0)
      /\ Cardinality(Marking(s)') =
            Cardinality(Marking(s)) + (IF Marks(y, s) THEN 1 ELSE 0)
                - (IF Marks(routing[r], s) THEN 1 ELSE 0)
  BY RoutersMove
<1>2. /\ IsFiniteSet(Arrived(s)) /\ Cardinality(Arrived(s)) \in Nat
      /\ Cardinality(Router) \in Nat /\ deaths \in Nat
  BY FS_CardinalityType DEF Stops, NotifierTypes
<1>3. ~Sends(y, s) /\ ~Marks(routing[r], s) /\ (Sends(routing[r], s) <=> Marks(y, s))
  BY DEF Sends, Marks
<1>4. CASE Sends(routing[r], s)
  <2>1. Arrived(s)' \subseteq Arrived(s) \cup {c}
    OBVIOUS
  <2>2. /\ IsFiniteSet(Arrived(s) \cup {c})
        /\ Cardinality(Arrived(s) \cup {c}) <= Cardinality(Arrived(s)) + 1
    <3>1. /\ IsFiniteSet(Arrived(s) \cup {c})
          /\ Cardinality(Arrived(s) \cup {c}) =
                IF c \in Arrived(s) THEN Cardinality(Arrived(s)) ELSE Cardinality(Arrived(s)) + 1
      BY <1>2, FS_AddElement, Zenon
    <3> QED
      BY <1>2, <3>1
  <2>3. /\ IsFiniteSet(Arrived(s)') /\ Cardinality(Arrived(s)') <= Cardinality(Arrived(s) \cup {c})
        /\ Cardinality(Arrived(s)') \in Nat /\ Cardinality(Arrived(s) \cup {c}) \in Nat
    BY <2>1, <2>2, FS_Subset, FS_CardinalityType
  <2>4. /\ Cardinality(Sending(s)') = Cardinality(Sending(s)) - 1
        /\ Cardinality(Marking(s)') = Cardinality(Marking(s)) + 1
    BY <1>1, <1>3, <1>4
  <2>5. CASE s \in success
    <3>1. Cardinality(Arrived(s)) + Cardinality(Sending(s)) <= Cardinality(Router) + deaths
      BY <2>5 DEF Stops
    <3>2. Cardinality(Arrived(s)') + Cardinality(Sending(s)') <= Cardinality(Router) + deaths'
      BY <1>1, <1>2, <2>2, <2>3, <2>4, <3>1
    <3> QED
      BY <2>3, <2>5, <3>2 DEF Stops
  <2>6. CASE s \notin success
    <3>1. Cardinality(Arrived(s)) <= Cardinality(Marking(s)) + deaths
      BY <2>6 DEF Stops
    <3>2. Cardinality(Arrived(s)') <= Cardinality(Marking(s)') + deaths'
      BY <1>1, <1>2, <2>2, <2>3, <2>4, <3>1
    <3> QED
      BY <2>3, <2>6, <3>2 DEF Stops
  <2> QED
    BY <2>5, <2>6
<1>5. CASE ~Sends(routing[r], s)
  <2>1. SigOf(routing[r]) # s
    <3>1. Proper(routing[r])
      BY DEF NotifierTypes
    <3>2. routing[r].signal = {SigOf(routing[r])}
      BY <3>1, PlaceIs
    <3> QED
      BY <1>5, <3>2 DEF Sends
  <2>2. Arrived(s)' = Arrived(s)
    BY <2>1
  <2>3. /\ Cardinality(Sending(s)') = Cardinality(Sending(s))
        /\ Cardinality(Marking(s)') = Cardinality(Marking(s))
    BY <1>1, <1>3, <1>5
  <2> QED
    BY <2>2, <2>3 DEF Stops
<1> QED
  BY <1>4, <1>5

\* The success is marked: who sends and who marks are different routers.
LEMMA StopsMarks ==
    ASSUME IsFiniteSet(Router), NotifierTypes, NEW r \in Router, NEW y, y.label = "free",
           routing' = [routing EXCEPT ![r] = y], UNCHANGED deaths,
           routing[r].label = "mark", success' = success \union {SigOf(routing[r])},
           NEW s, Stops(s), Arrived(s)' = Arrived(s)
    PROVE  Stops(s)'
<1>1. /\ Cardinality(Sending(s)) \in Nat /\ Cardinality(Marking(s)) \in Nat
      /\ Cardinality(Sending(s)') =
            Cardinality(Sending(s)) + (IF Sends(y, s) THEN 1 ELSE 0)
                - (IF Sends(routing[r], s) THEN 1 ELSE 0)
      /\ Cardinality(Marking(s)') =
            Cardinality(Marking(s)) + (IF Marks(y, s) THEN 1 ELSE 0)
                - (IF Marks(routing[r], s) THEN 1 ELSE 0)
  BY RoutersMove
<1>2. /\ Arrived(s)' = Arrived(s) /\ IsFiniteSet(Arrived(s)) /\ Cardinality(Arrived(s)) \in Nat
      /\ Cardinality(Router) \in Nat /\ deaths \in Nat
  BY FS_CardinalityType DEF Stops, NotifierTypes
<1>3. ~Sends(y, s) /\ ~Marks(y, s) /\ ~Sends(routing[r], s)
  BY DEF Sends, Marks
<1>4. Cardinality(Sending(s)') = Cardinality(Sending(s))
  BY <1>1, <1>3
<1>5. CASE s \in success
  <2>1. Cardinality(Arrived(s)) + Cardinality(Sending(s)) <= Cardinality(Router) + deaths
    BY <1>5 DEF Stops
  <2> QED
    BY <1>2, <1>4, <1>5, <2>1 DEF Stops
<1>6. CASE s \notin success /\ s = SigOf(routing[r])
  <2>1. Cardinality(Arrived(s)) <= Cardinality(Marking(s)) + deaths
    BY <1>6 DEF Stops
  <2>2. Cardinality(Sending(s)) + Cardinality(Marking(s)) <= Cardinality(Router)
    <3>1. Sending(s) \cap Marking(s) = {} /\ Sending(s) \cup Marking(s) \subseteq Router
      BY DEF Sending, Marking, Sends, Marks
    <3>2. IsFiniteSet(Sending(s)) /\ IsFiniteSet(Marking(s))
      BY <3>1, FS_Subset
    <3>3. Cardinality(Sending(s) \cup Marking(s)) =
            Cardinality(Sending(s)) + Cardinality(Marking(s)) - Cardinality({})
      BY <3>1, <3>2, FS_Union
    <3>4. Cardinality({}) = 0
      BY FS_EmptySet
    <3>5. Cardinality(Sending(s) \cup Marking(s)) <= Cardinality(Router)
      BY <3>1, FS_Subset
    <3> QED
      BY <1>1, <3>3, <3>4, <3>5
  <2>3. Cardinality(Arrived(s)) + Cardinality(Sending(s)) <= Cardinality(Router) + deaths
    BY <1>1, <1>2, <2>1, <2>2
  <2> QED
    BY <1>2, <1>4, <1>6, <2>3 DEF Stops
<1>7. CASE s \notin success /\ s # SigOf(routing[r])
  <2>1. ~Marks(routing[r], s)
    <3>1. Proper(routing[r])
      BY DEF NotifierTypes
    <3>2. routing[r].signal = {SigOf(routing[r])}
      BY <3>1, PlaceIs
    <3> QED
      BY <1>7, <3>2 DEF Marks
  <2>2. Cardinality(Marking(s)') = Cardinality(Marking(s))
    BY <1>1, <1>3, <2>1
  <2>3. s \notin success'
    BY <1>7
  <2> QED
    BY <1>2, <1>7, <2>2, <2>3 DEF Stops
<1> QED
  BY <1>5, <1>6, <1>7

LEMMA NotifierStarts == Init => NotifierInv
<1> SUFFICES ASSUME Init  PROVE NotifierInv
  OBVIOUS
<1>1. ClaimInv
  BY NotifierInit
<1>2. /\ routing = [r \in Router |-> [signal |-> {}, left |-> {}, label |-> "free"]]
      /\ copies = [p \in Notice \X Notifier!Channel |-> 0]
      /\ unanswered = [p \in Notice \X Notifier!Channel |-> 0] /\ success = {} /\ deaths = 0
  BY Zenon DEF Init, Notifier!Init, Notifier!Free
<1>3. ASSUME NEW s \in Notice  PROVE Stops(s)
  <2>1. Arrived(s) = {} /\ Marking(s) = {}
    BY <1>2 DEF Arrived, Marking, Marks
  <2> QED
    BY <1>2, <2>1, FS_EmptySet DEF Stops
<1> QED
  BY <1>1, <1>3 DEF NotifierInv

\* A router moves: nothing is sent, no success is marked.
LEMMA NotifierMoves ==
    ASSUME IsFiniteSet(Router), NotifierInv, NEW r \in Router, NEW y, Proper(y),
           routing' = [routing EXCEPT ![r] = y],
           UNCHANGED <<delivery, copies, unanswered, success>>, claims \subseteq claims',
           Holds(y) => \/ /\ Holds(routing[r])
                          /\ y.signal = routing[r].signal /\ y.left = routing[r].left
                       \/ KeyOf(y) \notin claims /\ KeyOf(y) \in claims',
           \A s : Sends(y, s) =>
               \/ delivery # "fallback_chain" \/ s \notin success \/ Sends(routing[r], s),
           \/ deaths' = deaths /\ routing[r].label # "mark"
           \/ deaths' = deaths + 1
    PROVE  NotifierInv'
<1>1. ClaimInv /\ NotifierTypes /\ deaths' \in Nat
  BY DEF NotifierInv, ClaimInv, NotifierTypes
<1>2. ClaimInv'
  BY <1>1, ClaimMoves
<1>3. ASSUME delivery = "fallback_chain", NEW s \in Notice  PROVE Stops(s)'
  <2>1. Stops(s)
    BY <1>3 DEF NotifierInv
  <2>2. \/ deaths' = deaths /\ (Marks(routing[r], s) => s \in success)
        \/ deaths' = deaths + 1
    BY DEF Marks
  <2>3. Sends(y, s) => s \notin success \/ Sends(routing[r], s)
    BY <1>3
  <2>4. Arrived(s)' = Arrived(s)
    BY DEF Arrived
  <2> QED
    BY <1>1, <2>1, <2>2, <2>3, <2>4, StopsMoves
<1> QED
  BY <1>2, <1>3 DEF NotifierInv

\* route
LEMMA NotifierRoute ==
    ASSUME IsFiniteSet(Router), NotifierInv, NEW r \in Router, NEW s \in Notice,
           Notifier!Route(r, s)
    PROVE  NotifierInv'
<1>1. PICK rest \in Notifier!Channels :
         routing' = [routing EXCEPT ![r] = [signal |-> {s}, left |-> rest, label |-> "dedup"]]
  BY Zenon DEF Notifier!Route
<1> DEFINE y == [signal |-> {s}, left |-> rest, label |-> "dedup"]
<1>2. rest \in SUBSET DOMAIN Senders /\ rest # {} /\ (delivery = "primary_only" => rest = {1})
  BY SendersIs DEF Notifier!Channels
<1>3. Proper(y) /\ y.label = "dedup"
  BY <1>2 DEF Proper, RoutePlace
<1>4. /\ UNCHANGED <<delivery, copies, unanswered, success>> /\ claims \subseteq claims'
      /\ deaths' = deaths /\ routing[r].label # "mark"
  BY DEF Notifier!Route, Notifier!At
<1>5. routing' = [routing EXCEPT ![r] = y]
  BY <1>1
<1> HIDE DEF y
<1>6. ~Holds(y) /\ \A q : ~Sends(y, q)
  BY <1>3 DEF Holds, Sends
<1> QED
  BY <1>3, <1>4, <1>5, <1>6, NotifierMoves

\* A router gives the channel up, for the next one or for the end.
LEMMA NotifierSkips ==
    ASSUME IsFiniteSet(Router), NotifierInv, NEW r \in Router,
           routing[r].label \notin {"free", "mark"}, Notifier!Onwards(r),
           UNCHANGED <<delivery, copies, unanswered, success, deaths>>, claims \subseteq claims'
    PROVE  NotifierInv'
<1>1. NotifierTypes
  BY DEF NotifierInv, ClaimInv
<1>2. PICK y : /\ Proper(y) /\ routing' = [routing EXCEPT ![r] = y]
               /\ y.label = "free" \/ y.label = "dedup"
  BY <1>1, OnwardsIs
<1>3. ~Holds(y) /\ \A q : ~Sends(y, q)
  BY <1>2 DEF Holds, Sends
<1> QED
  BY <1>2, <1>3, NotifierMoves

\* _try_claim
LEMMA NotifierClaims ==
    ASSUME IsFiniteSet(Router), NotifierInv, NEW r \in Router,
           \/ routing[r].label = "claim"
           \/ routing[r].label = "dedup" /\ delivery # "fallback_chain",
           Notifier!TryClaim(r, KeyOf(routing[r])),
           UNCHANGED <<delivery, copies, unanswered, success, deaths>>
    PROVE  NotifierInv'
<1>1. NotifierTypes
  BY DEF NotifierInv, ClaimInv
<1>2. claims' = claims \union {KeyOf(routing[r])}
  BY DEF Notifier!TryClaim
<1>3. CASE KeyOf(routing[r]) \in claims
  BY <1>2, <1>3, NotifierSkips DEF Notifier!TryClaim
<1>4. CASE KeyOf(routing[r]) \notin claims
  <2>1. Notifier!Goto(r, "count")
    BY <1>4 DEF Notifier!TryClaim
  <2>2. PICK y : /\ Proper(y) /\ routing' = [routing EXCEPT ![r] = y]
                 /\ y.label = "count" /\ y.signal = routing[r].signal /\ y.left = routing[r].left
    BY <1>1, <2>1, GotoIs
  <2>3. KeyOf(y) = KeyOf(routing[r])
    BY <2>2 DEF KeyOf, SigOf, ChanOf
  <2>4. \A s : Sends(y, s) => delivery # "fallback_chain" \/ Sends(routing[r], s)
    BY <2>2 DEF Sends
  <2> QED
    BY <1>2, <1>4, <2>2, <2>3, <2>4, NotifierMoves
<1> QED
  BY <1>3, <1>4

\* should_deliver
LEMMA NotifierShould ==
    ASSUME IsFiniteSet(Router), NotifierInv, NEW r \in Router, Notifier!ShouldDeliver(r)
    PROVE  NotifierInv'
<1>1. NotifierTypes /\ UNCHANGED <<delivery, copies, unanswered, success, deaths>>
  BY DEF NotifierInv, ClaimInv, Notifier!ShouldDeliver
<1>2. Notifier!Sig(r) = SigOf(routing[r]) /\ Notifier!Chan(r) = ChanOf(routing[r])
  BY Zenon DEF Notifier!Sig, Notifier!Chan, SigOf, ChanOf
<1>3. CASE /\ Notifier!At(r, "dedup") /\ delivery = "fallback_chain" /\ UNCHANGED claims
           /\ IF Notifier!Sig(r) \in success THEN Notifier!Onwards(r) ELSE Notifier!Goto(r, "claim")
  <2>1. routing[r].label = "dedup"
    BY <1>3 DEF Notifier!At
  <2>2. CASE Notifier!Sig(r) \in success
    BY <1>1, <1>3, <2>1, <2>2, NotifierSkips
  <2>3. CASE Notifier!Sig(r) \notin success
    <3>1. PICK y : /\ Proper(y) /\ routing' = [routing EXCEPT ![r] = y]
                   /\ y.label = "claim" /\ y.signal = routing[r].signal
      BY <1>1, <1>3, <2>1, <2>3, GotoIs
    <3>2. ~Holds(y)
      BY <3>1 DEF Holds
    <3>3. ASSUME NEW s, Sends(y, s)  PROVE s \notin success
      <4>1. routing[r].signal = {SigOf(routing[r])}
        BY <1>1, <2>1, PlaceIs DEF NotifierTypes
      <4>2. {s} = {SigOf(routing[r])}
        BY <3>1, <3>3, <4>1, Zenon DEF Sends
      <4>3. s = SigOf(routing[r])
        BY <4>2
      <4> QED
        BY <1>2, <2>3, <4>3
    <3> QED
      BY <1>1, <1>3, <2>1, <3>1, <3>2, <3>3, NotifierMoves
  <2> QED
    BY <2>2, <2>3
<1>4. CASE Notifier!At(r, "claim") /\ Notifier!TryClaim(r, <<Notifier!Sig(r), Notifier!Chan(r)>>)
  <2>1. routing[r].label = "claim" /\ delivery = "fallback_chain"
    BY <1>1, <1>4 DEF Notifier!At, NotifierTypes, Proper
  <2>2. KeyOf(routing[r]) = <<Notifier!Sig(r), Notifier!Chan(r)>>
    BY <1>2, <2>1 DEF KeyOf, Key
  <2> QED
    BY <1>1, <1>4, <2>1, <2>2, NotifierClaims
<1>5. CASE /\ Notifier!At(r, "dedup") /\ delivery # "fallback_chain"
           /\ Notifier!TryClaim(r, IF delivery = "all_enabled"
                                   THEN <<Notifier!Sig(r), Notifier!Chan(r)>> ELSE <<Notifier!Sig(r)>>)
  <2>1. routing[r].label = "dedup"
    BY <1>5 DEF Notifier!At
  <2>2. KeyOf(routing[r]) = IF delivery = "all_enabled"
                            THEN <<Notifier!Sig(r), Notifier!Chan(r)>> ELSE <<Notifier!Sig(r)>>
    BY <1>1, <1>2, <1>5 DEF KeyOf, Key, NotifierTypes
  <2> QED
    BY <1>1, <1>5, <2>1, <2>2, NotifierClaims
<1> QED
  BY <1>3, <1>4, <1>5 DEF Notifier!ShouldDeliver

\* The rate limiter.
LEMMA NotifierTokens ==
    ASSUME IsFiniteSet(Router), NotifierInv, NEW r \in Router,
           Notifier!CountTokens(r) \/ Notifier!TakeToken(r)
    PROVE  NotifierInv'
<1>1. /\ NotifierTypes /\ UNCHANGED <<delivery, claims, copies, unanswered, success, deaths>>
      /\ routing[r].label \in {"count", "take"}
  BY DEF NotifierInv, ClaimInv, Notifier!CountTokens, Notifier!TakeToken, Notifier!At
<1>2. CASE Notifier!Onwards(r)
  BY <1>1, <1>2, NotifierSkips
<1>3. ASSUME NEW label \in {"take", "send"}, Notifier!Goto(r, label)  PROVE NotifierInv'
  <2>1. PICK y : /\ Proper(y) /\ routing' = [routing EXCEPT ![r] = y]
                 /\ y.label = label /\ y.signal = routing[r].signal /\ y.left = routing[r].left
    BY <1>1, <1>3, GotoIs
  <2>2. Holds(routing[r]) /\ \A s : Sends(y, s) => Sends(routing[r], s)
    BY <1>1, <2>1 DEF Holds, Sends
  <2> QED
    BY <1>1, <2>1, <2>2, NotifierMoves
<1> QED
  BY <1>2, <1>3 DEF Notifier!CountTokens, Notifier!TakeToken

\* What a send adds to the channels a signal arrived by.
LEMMA ArrivedAfter ==
    ASSUME ClaimInv, NEW r \in Router, routing[r].label = "send", NEW k \in Nat, NEW u \in Nat,
           Copied(r, k, u), NEW s \in Notice
    PROVE  /\ Arrived(s)' \subseteq Arrived(s) \cup {ChanOf(routing[r])}
           /\ s # SigOf(routing[r]) => Arrived(s)' = Arrived(s)
           /\ k = u => Arrived(s)' = Arrived(s)
<1> DEFINE sig == SigOf(routing[r])
           chan == ChanOf(routing[r])
<1>1. /\ copies'[<<sig, chan>>] = k /\ unanswered'[<<sig, chan>>] = u
      /\ \A q \in Notice \X Notifier!Channel :
            q # <<sig, chan>> => copies'[q] = copies[q] /\ unanswered'[q] = unanswered[q]
  BY CountsAfter, Zenon
<1>2. copies[<<sig, chan>>] = 0 /\ unanswered[<<sig, chan>>] = 0
  BY NothingSent
<1> HIDE DEF sig, chan
<1>3. ASSUME NEW c \in Notifier!Channel, ~(s = sig /\ c = chan)
      PROVE  c \in Arrived(s)' <=> c \in Arrived(s)
  <2>1. copies'[<<s, c>>] = copies[<<s, c>>] /\ unanswered'[<<s, c>>] = unanswered[<<s, c>>]
    BY <1>1, <1>3
  <2> QED
    BY <2>1 DEF Arrived
<1>4. ASSUME k = u, NEW c \in Notifier!Channel, s = sig, c = chan
      PROVE  c \notin Arrived(s)' /\ c \notin Arrived(s)
  <2>1. copies'[<<s, c>>] = unanswered'[<<s, c>>] /\ unanswered'[<<s, c>>] = u
    BY <1>1, <1>4, Zenon
  <2>2. copies[<<s, c>>] = 0 /\ unanswered[<<s, c>>] = 0
    BY <1>2, <1>4, Zenon
  <2> QED
    BY <2>1, <2>2 DEF Arrived
<1>5. Arrived(s) \subseteq Notifier!Channel /\ Arrived(s)' \subseteq Notifier!Channel
  BY DEF Arrived
<1> QED
  BY <1>3, <1>4, <1>5 DEF sig, chan

\* send_signal
LEMMA NotifierSends ==
    ASSUME IsFiniteSet(Router), NotifierInv, NEW r \in Router, Notifier!Send(r)
    PROVE  NotifierInv'
<1>1. /\ NotifierTypes /\ ClaimInv /\ UNCHANGED <<delivery, claims, success, deaths>>
      /\ routing[r].label = "send"
  BY DEF NotifierInv, ClaimInv, Notifier!Send, Notifier!At
<1>2. Notifier!Sig(r) = SigOf(routing[r]) /\ Notifier!Chan(r) = ChanOf(routing[r])
  BY Zenon DEF Notifier!Sig, Notifier!Chan, SigOf, ChanOf
<1> DEFINE sig == SigOf(routing[r])
           chan == ChanOf(routing[r])
           p == <<sig, chan>>
<1>3. PICK k \in 0..Notifier!Posts(chan) :
         /\ copies' = [copies EXCEPT ![p] = copies[p] + k]
         /\ \/ /\ k > 0
               /\ unanswered' = [unanswered EXCEPT ![p] = unanswered[p] + k - 1]
               /\ IF delivery = "fallback_chain" THEN Notifier!Goto(r, "mark") ELSE Notifier!Onwards(r)
            \/ unanswered' = [unanswered EXCEPT ![p] = unanswered[p] + k] /\ Notifier!Onwards(r)
  BY <1>2, Zenon DEF Notifier!Send
<1>4. copies[p] = 0 /\ unanswered[p] = 0
  BY <1>1, NothingSent
<1>5. k \in Nat /\ k <= Notifier!Posts(chan)
  BY PostsIs
<1>6. copies' = [copies EXCEPT ![p] = k]
  <2>1. copies[p] + k = k
    BY <1>4, <1>5
  <2> QED
    BY <1>3, <2>1, Zenon
<1>7. CASE /\ k > 0 /\ unanswered' = [unanswered EXCEPT ![p] = unanswered[p] + k - 1]
           /\ IF delivery = "fallback_chain" THEN Notifier!Goto(r, "mark") ELSE Notifier!Onwards(r)
  <2>1. k - 1 \in Nat /\ unanswered[p] + k - 1 = k - 1 /\ k - 1 <= k /\ k <= 1 + (k - 1)
    BY <1>4, <1>5, <1>7
  <2>2. Copied(r, k, k - 1)
    <3>1. unanswered' = [unanswered EXCEPT ![p] = k - 1]
      BY <1>7, <2>1, Zenon
    <3> QED
      BY <1>6, <3>1, Zenon DEF Copied
  <2>3. PICK y : /\ Proper(y) /\ routing' = [routing EXCEPT ![r] = y]
                 /\ ~Holds(y) /\ \A q : ~Sends(y, q)
                 /\ delivery = "fallback_chain" => y.label = "mark" /\ y.signal = routing[r].signal
    <3>1. CASE delivery = "fallback_chain"
      <4>1. PICK y : /\ Proper(y) /\ routing' = [routing EXCEPT ![r] = y]
                     /\ y.label = "mark" /\ y.signal = routing[r].signal
        BY <1>1, <1>7, <3>1, GotoIs
      <4> QED
        BY <4>1 DEF Holds, Sends
    <3>2. CASE delivery # "fallback_chain"
      <4>1. PICK y : /\ Proper(y) /\ routing' = [routing EXCEPT ![r] = y]
                     /\ y.label = "free" \/ y.label = "dedup"
        BY <1>1, <1>7, <3>2, OnwardsIs
      <4> QED
        BY <3>2, <4>1 DEF Holds, Sends
    <3> QED
      BY <3>1, <3>2
  <2>4. ClaimInv'
    BY <1>1, <1>5, <1>6, <2>1, <2>2, <2>3, ClaimSends
  <2>5. ASSUME delivery = "fallback_chain", NEW s \in Notice  PROVE Stops(s)'
    <3>1. Stops(s)
      BY <2>5 DEF NotifierInv
    <3>2. /\ Arrived(s)' \subseteq Arrived(s) \cup {chan}
          /\ s # sig => Arrived(s)' = Arrived(s)
      BY <1>1, <1>5, <1>6, <2>1, <2>2, ArrivedAfter
    <3> QED
      BY <1>1, <2>3, <2>5, <3>1, <3>2, StopsArrives
  <2> QED
    BY <1>1, <2>4, <2>5 DEF NotifierInv
<1>8. CASE unanswered' = [unanswered EXCEPT ![p] = unanswered[p] + k] /\ Notifier!Onwards(r)
  <2>1. unanswered[p] + k = k /\ k <= k /\ k <= 1 + k
    BY <1>4, <1>5
  <2>2. Copied(r, k, k)
    <3>1. unanswered' = [unanswered EXCEPT ![p] = k]
      BY <1>8, <2>1, Zenon
    <3> QED
      BY <1>6, <3>1, Zenon DEF Copied
  <2>3. PICK y : /\ Proper(y) /\ routing' = [routing EXCEPT ![r] = y]
                 /\ y.label = "free" \/ y.label = "dedup"
    BY <1>1, <1>8, OnwardsIs
  <2>4. ~Holds(y) /\ \A q : ~Sends(y, q)
    BY <2>3 DEF Holds, Sends
  <2>5. ClaimInv'
    BY <1>1, <1>5, <1>6, <2>1, <2>2, <2>3, <2>4, ClaimSends
  <2>6. ASSUME delivery = "fallback_chain", NEW s \in Notice  PROVE Stops(s)'
    <3>1. Stops(s)
      BY <2>6 DEF NotifierInv
    <3>2. ~Marks(routing[r], s)
      BY <1>1 DEF Marks
    <3>3. Arrived(s)' = Arrived(s)
      BY <1>1, <1>5, <1>6, <2>2, ArrivedAfter
    <3> QED
      BY <1>1, <2>3, <2>4, <3>1, <3>2, <3>3, StopsMoves
  <2> QED
    BY <1>1, <2>5, <2>6 DEF NotifierInv
<1> QED
  BY <1>3, <1>7, <1>8

\* mark_success, and a router's death
LEMMA NotifierEnds ==
    ASSUME IsFiniteSet(Router), NotifierInv, NEW r \in Router,
           Notifier!MarkSuccess(r) \/ Notifier!Die(r)
    PROVE  NotifierInv'
<1>1. NotifierTypes /\ ClaimInv /\ UNCHANGED <<delivery, claims, copies, unanswered>>
  BY DEF NotifierInv, ClaimInv, Notifier!MarkSuccess, Notifier!Die
<1>2. routing' = [routing EXCEPT ![r] = Notifier!Free]
  BY DEF Notifier!MarkSuccess, Notifier!Die
<1>3. Proper(Notifier!Free) /\ Notifier!Free.label = "free"
  BY DEF Proper, RoutePlace, Notifier!Free
<1>4. ~Holds(Notifier!Free) /\ \A q : ~Sends(Notifier!Free, q)
  BY <1>3 DEF Holds, Sends
<1>5. CASE Notifier!MarkSuccess(r)
  <2>1. /\ routing[r].label = "mark" /\ deaths' = deaths
        /\ success' = success \union {SigOf(routing[r])}
    BY <1>5 DEF Notifier!MarkSuccess, Notifier!At, Notifier!Sig, SigOf
  <2>2. ClaimInv'
    <3>1. deaths' \in Nat
      BY <1>1, <2>1 DEF NotifierTypes
    <3> QED
      BY <1>1, <1>2, <1>3, <1>4, <3>1, ClaimMoves
  <2>3. ASSUME delivery = "fallback_chain", NEW s \in Notice  PROVE Stops(s)'
    <3>1. Stops(s)
      BY <2>3 DEF NotifierInv
    <3>2. Arrived(s)' = Arrived(s)
      BY <1>1 DEF Arrived
    <3> QED
      BY <1>1, <1>2, <1>3, <2>1, <3>1, <3>2, StopsMarks
  <2> QED
    BY <1>1, <2>2, <2>3 DEF NotifierInv
<1>6. CASE Notifier!Die(r)
  BY <1>1, <1>2, <1>3, <1>4, <1>6, NotifierMoves DEF Notifier!Die
<1> QED
  BY <1>5, <1>6

LEMMA NotifierNext ==
    ASSUME IsFiniteSet(Router)
    PROVE  NotifierInv /\ [Next]_vars => NotifierInv'
<1> SUFFICES ASSUME NotifierInv, Notifier!Next \/ UNCHANGED notifierVars  PROVE NotifierInv'
  BY NotifierSteps
<1>1. CASE UNCHANGED notifierVars
  <2>1. UNCHANGED <<delivery, routing, claims, success, deaths, copies, unanswered>>
    BY <1>1 DEF notifierVars
  <2>2. ClaimInv'
    <3>1. NotifierTypes'
      BY <2>1 DEF NotifierInv, ClaimInv, NotifierTypes, Proper, RoutePlace
    <3>2. ClaimsKept' = ClaimsKept
      BY <2>1 DEF ClaimsKept, Sound, Holds, KeyOf, Key, SigOf, ChanOf, Notifier!Posts
    <3> QED
      BY <3>1, <3>2 DEF NotifierInv, ClaimInv
  <2>3. \A s : Stops(s)' = Stops(s)
    BY <2>1 DEF Stops, Arrived, Sending, Marking
  <2> QED
    BY <2>1, <2>2, <2>3 DEF NotifierInv
<1>2. CASE Notifier!Next
  BY <1>2, NotifierRoute, NotifierShould, NotifierTokens, NotifierSends, NotifierEnds
     DEF Notifier!Next, Notifier!RouterStep
<1> QED
  BY <1>1, <1>2

\* What the invariant says of the two sets a reader cares about.
LEMMA NotifierKept ==
    ASSUME IsFiniteSet(Router), NotifierInv
    PROVE  Notifier!OnePerChannel /\ Notifier!FallbackStops
<1>1. Notifier!OnePerChannel
  <2>1. Head(Senders) = Senders[1]
    OBVIOUS
  <2>2. ASSUME NEW s \in Notice, NEW c \in Notifier!Channel
        PROVE  /\ copies[<<s, c>>] <= 1 + unanswered[<<s, c>>]
               /\ copies[<<s, c>>] <= Notifier!Posts(c)
               /\ delivery = "primary_only" /\ c # Head(Senders) => copies[<<s, c>>] = 0
    <3>1. Sound(s, c)
      BY DEF NotifierInv, ClaimInv, ClaimsKept
    <3> QED
      BY <2>1, <3>1 DEF Sound
  <2> QED
    BY <2>2 DEF Notifier!OnePerChannel
<1>2. ASSUME delivery = "fallback_chain", NEW s \in Notice
      PROVE  Notifier!Cardinality(Notifier!Answered(s)) <= Notifier!Cardinality(Router) + deaths
  <2>1. Stops(s) /\ deaths \in Nat
    BY <1>2 DEF NotifierInv, ClaimInv, NotifierTypes
  <2>2. Sending(s) \subseteq Router /\ Marking(s) \subseteq Router
    BY DEF Sending, Marking
  <2>3. /\ Cardinality(Sending(s)) \in Nat /\ Cardinality(Router) \in Nat
        /\ Cardinality(Marking(s)) \in Nat /\ Cardinality(Marking(s)) <= Cardinality(Router)
        /\ Cardinality(Arrived(s)) \in Nat
    BY <2>1, <2>2, FS_Subset, FS_CardinalityType DEF Stops
  <2>4. Cardinality(Arrived(s)) <= Cardinality(Router) + deaths
    BY <2>1, <2>3 DEF Stops
  <2> QED
    BY <2>4, NotifierCardinality, Zenon DEF Arrived, Notifier!Answered
<1> QED
  BY <1>1, <1>2 DEF Notifier!FallbackStops

(***************************************************************************)
(* A user gets a signal once, and again only for a copy that nobody knows  *)
(* to have arrived - its reply was lost, or the service died before it was *)
(* recorded - or over a channel of its own; messages about a symbol are    *)
(* spaced, by the window less the time one dispatch may take.  Routers     *)
(* that race send once per channel, and a fallback chain ends with the     *)
(* success that is marked (delivery/router.py, deduplicator.py,            *)
(* rate_limiter.py; notification_service).                                 *)
(***************************************************************************)
THEOREM MessagesStayOnce ==
    ASSUME IsFiniteSet(Router)
    PROVE  Spec => MessagesOnce
<1>1. Init => RoutingInv /\ NotifierInv
  BY RoutingInit, NotifierStarts
<1>2. (RoutingInv /\ NotifierInv) /\ [Next]_vars => (RoutingInv /\ NotifierInv)'
  BY RoutingNext, NotifierNext
<1>3. RoutingInv /\ NotifierInv =>
          /\ Runs("routing") => Routing!SentOnce
          /\ Runs("notifier") => Notifier!OnePerChannel /\ Notifier!FallbackStops
  BY RoutingOnce, NotifierKept
<1>4. RoutingInv /\ [Next]_vars =>
          [\A c \in Messaging \cap Routing!Channel :
              attempt > 0 /\ Routing!Target = c /\ got' # got =>
                  repeats \/ apart[c] >= Window - Routing!DispatchTime]_Routing!vars
  BY RoutingNext DEF Spaced
<1> QED
  BY <1>1, <1>2, <1>3, <1>4, PTL DEF Spec, MessagesOnce, Routing!SendsSpaced

(***************************************************************************)
(* The event bus and its streams                                           *)
(***************************************************************************)

LEMMA BusSteps == [Next]_vars => Bus!Next \/ UNCHANGED busVars
  BY Zenon DEF Next, Only, vars

LEMMA BusConstants == ReplaySize \in Nat \ {0} /\ QueueSize \in Nat
  BY ServiceConstants

BusTypes ==
    /\ epoch \in Nat /\ counter \in Nat
    /\ replayBuffer \in Seq(Nat)
    /\ conn \in [Browser -> {"down", "replaying", "live"}]
    /\ replay \in [Browser -> Seq(Nat)]
    /\ queue \in [Browser -> Seq(Nat)]
    /\ lastSeen \in [Browser -> [epoch : Nat, id : Nat]]
    /\ replayedTo \in [Browser -> Nat]
    /\ subscribedAt \in [Browser -> Nat]
    /\ dropped \in [Browser -> SUBSET Nat]
    /\ listeners = {c \in Browser : conn[c] = "live"}
    /\ publishing \subseteq listeners

\* The buffer holds the newest events.
NewestBuffered ==
    /\ Len(replayBuffer) = IF counter < ReplaySize THEN counter ELSE ReplaySize
    /\ \A k \in 1..Len(replayBuffer) : replayBuffer[k] = counter - Len(replayBuffer) + k

\* What browser c knows of this incarnation.
Got(c) == IF lastSeen[c].epoch = epoch THEN lastSeen[c].id ELSE 0

\* What is older than the rest of the replay was received or had left the buffer.
ReplaySound(c) ==
    /\ replayedTo[c] <= counter
    /\ Len(replay[c]) <= replayedTo[c]
    /\ \A k \in 1..Len(replay[c]) : replay[c][k] = replayedTo[c] - Len(replay[c]) + k
    /\ lastSeen[c].epoch = epoch =>
           \A e \in Nat : lastSeen[c].id < e /\ e <= replayedTo[c] - Len(replay[c]) =>
                             e <= replayedTo[c] - ReplaySize

Replaying(c) ==
    /\ queue[c] = << >> /\ dropped[c] = {}
    /\ lastSeen[c].epoch = epoch /\ replay[c] # << >> =>
           lastSeen[c].id <= replayedTo[c] - Len(replay[c])

\* What is still to come to a live connection.
From(c) == IF Got(c) > subscribedAt[c] THEN Got(c) ELSE subscribedAt[c]

Live(c) ==
    /\ replay[c] = << >>
    /\ replayedTo[c] <= subscribedAt[c] /\ subscribedAt[c] <= counter
    /\ \A j, k \in 1..Len(queue[c]) : j < k => queue[c][j] < queue[c][k]
    /\ c \in publishing => \A k \in 1..Len(queue[c]) : queue[c][k] < counter
    /\ c \in publishing => From(c) < counter /\ counter \notin dropped[c]
    /\ \A e \in dropped[c] : e <= counter
    /\ \A e \in Nat : (\/ \E k \in 1..Len(queue[c]) : queue[c][k] = e
                       \/ c \in publishing /\ e = counter)
                      <=> From(c) < e /\ e <= counter /\ e \notin dropped[c]

Seen(c) == lastSeen[c].epoch <= epoch /\ Got(c) <= counter

Follows(c) ==
    /\ Seen(c)
    /\ conn[c] # "down" => ReplaySound(c)
    /\ conn[c] = "replaying" => Replaying(c)
    /\ conn[c] = "live" => Live(c)

BusInv == BusTypes /\ NewestBuffered /\ \A c \in Browser : Follows(c)

LEMMA BusInit == Init => BusInv
<1> SUFFICES ASSUME Init  PROVE BusInv
  OBVIOUS
<1>1. Bus!Init
  BY Zenon DEF Init
<1>2. BusTypes
  BY <1>1 DEF Bus!Init, BusTypes
<1>3. NewestBuffered
  <2>1. counter = 0 /\ replayBuffer = << >>
    BY <1>1 DEF Bus!Init
  <2> QED
    BY <2>1, BusConstants DEF NewestBuffered
<1>4. ASSUME NEW c \in Browser  PROVE Follows(c)
  <2>1. conn[c] = "down" /\ lastSeen[c] = [epoch |-> 1, id |-> 0] /\ epoch = 1 /\ counter = 0
    BY <1>1 DEF Bus!Init
  <2> QED
    BY <2>1 DEF Follows, Seen, Got
<1> QED
  BY <1>2, <1>3, <1>4 DEF BusInv

\* The smallest position is a smallest number.
LEMMA BusLeast ==
    ASSUME NEW S \in SUBSET Nat, S # {}
    PROVE  Bus!Min(S) \in S /\ \A n \in S : Bus!Min(S) <= n
<1>1. PICK x \in S : \A n \in S : x <= n
  BY LeastNumber
<1> QED
  BY <1>1 DEF Bus!Min

\* The events after one are the buffer without a beginning.
LEMMA AfterCuts ==
    ASSUME BusInv, NEW id \in Nat
    PROVE  \E n \in 0..Len(replayBuffer) :
               /\ Bus!EventsAfter(id) \in Seq(Nat)
               /\ Len(Bus!EventsAfter(id)) = Len(replayBuffer) - n
               /\ \A j \in 1..(Len(replayBuffer) - n) :
                      Bus!EventsAfter(id)[j] = replayBuffer[n + j]
               /\ \A k \in 1..n : replayBuffer[k] <= id
               /\ n < Len(replayBuffer) => replayBuffer[n + 1] > id
<1> DEFINE later == {k \in DOMAIN replayBuffer : replayBuffer[k] > id}
           S == later \cup {Len(replayBuffer) + 1}
           m == Bus!Min(S)
           rest == SubSeq(replayBuffer, m, Len(replayBuffer))
<1>1. replayBuffer \in Seq(Nat) /\ Len(replayBuffer) \in Nat
      /\ DOMAIN replayBuffer = 1..Len(replayBuffer)
  BY DEF BusInv, BusTypes
<1>2. later \in SUBSET (1..Len(replayBuffer))
  BY <1>1
<1>3. S \in SUBSET Nat /\ S # {} /\ \A k \in S : k \in 1..(Len(replayBuffer) + 1)
  BY <1>1, <1>2
<1>4. m \in S /\ \A n \in S : m <= n
  BY <1>3, BusLeast
<1>5. Bus!EventsAfter(id) = rest
  BY DEF Bus!EventsAfter, Bus!Rest
<1>6. m \in 1..(Len(replayBuffer) + 1)
  BY <1>3, <1>4
<1>7. \A k \in 1..(m - 1) : replayBuffer[k] <= id
  <2> SUFFICES ASSUME NEW k \in 1..(m - 1)  PROVE replayBuffer[k] <= id
    OBVIOUS
  <2> HIDE DEF S, m
  <2>1. k \in 1..Len(replayBuffer) /\ k \notin S
    BY <1>1, <1>4, <1>6
  <2> USE DEF S
  <2>2. replayBuffer[k] \in Nat /\ ~(replayBuffer[k] > id)
    BY <1>1, <2>1
  <2> QED
    BY <2>2
<1>8. m <= Len(replayBuffer) => replayBuffer[m] > id
  BY <1>1, <1>4
<1> DEFINE len == Len(replayBuffer)
<1>9. /\ rest \in Seq(Nat) /\ Len(rest) = IF m <= len THEN len - m + 1 ELSE 0
      /\ \A j \in 1..(len - m + 1) : rest[j] = replayBuffer[m + j - 1]
  <2>1. \A i \in m..len : replayBuffer[i] \in Nat
    BY <1>1, <1>6
  <2> HIDE DEF m
  <2> QED
    BY <1>1, <1>6, <2>1, SubSeqProperties
<1> DEFINE n == m - 1
<1> HIDE DEF rest, m, later, S
<1>10. n \in 0..len /\ n + 1 = m /\ len - m + 1 = len - n
  BY <1>1, <1>6
<1>11. Len(rest) = len - n
  BY <1>1, <1>9, <1>10
<1>12. ASSUME NEW j \in 1..(len - n)  PROVE rest[j] = replayBuffer[n + j]
  <2>1. m + j - 1 = n + j
    BY <1>6
  <2> QED
    BY <1>9, <1>10, <2>1
<1>13. n < len => replayBuffer[n + 1] > id
  BY <1>1, <1>8, <1>10
<1>14. \A k \in 1..n : replayBuffer[k] <= id
  BY <1>7
<1> HIDE DEF n
<1> QED
  BY <1>5, <1>9, <1>10, <1>11, <1>12, <1>13, <1>14

\* What a step that leaves browser c and the numbers alone does to c: nothing.
LEMMA FollowsOn ==
    ASSUME NEW c \in Browser, Follows(c), UNCHANGED <<epoch, counter>>,
           /\ conn'[c] = conn[c] /\ replay'[c] = replay[c] /\ queue'[c] = queue[c]
           /\ lastSeen'[c] = lastSeen[c] /\ replayedTo'[c] = replayedTo[c]
           /\ subscribedAt'[c] = subscribedAt[c] /\ dropped'[c] = dropped[c]
           /\ c \in publishing' <=> c \in publishing
    PROVE  Follows(c)'
  BY DEF Follows, Seen, ReplaySound, Replaying, Live, From, Got

\* A new event is the newest one for whoever is live.
LEMMA PublishKeeps ==
    ASSUME BusInv, Bus!Publish
    PROVE  BusInv'
<1> USE DEF BusInv, BusTypes, Bus!connVars
<1>1. /\ publishing = {} /\ counter' = counter + 1
      /\ replayBuffer' = Bus!Keep(replayBuffer, counter + 1)
      /\ publishing' = listeners /\ UNCHANGED <<epoch, listeners, lastSeen>>
      /\ UNCHANGED <<conn, replay, queue, replayedTo, subscribedAt, dropped>>
  BY DEF Bus!Publish
<1>2. replayBuffer' \in Seq(Nat) /\ NewestBuffered'
  <2>1. Len(replayBuffer) \in Nat /\ counter + 1 \in Nat
    OBVIOUS
  <2>2. CASE counter < ReplaySize
    <3>1. Len(replayBuffer) = counter
      BY <2>2 DEF NewestBuffered
    <3>2. replayBuffer' = Append(replayBuffer, counter + 1)
      BY <1>1, <2>2, <3>1 DEF Bus!Keep
    <3>3. /\ replayBuffer' \in Seq(Nat) /\ Len(replayBuffer') = counter + 1
          /\ \A k \in 1..counter : replayBuffer'[k] = replayBuffer[k]
          /\ replayBuffer'[counter + 1] = counter + 1
      BY <2>1, <3>1, <3>2
    <3>4. \A k \in 1..counter : replayBuffer[k] = k
      BY <3>1 DEF NewestBuffered
    <3>5. \A k \in 1..(counter + 1) : k \in 1..counter \/ k = counter + 1
      OBVIOUS
    <3>6. \A k \in 1..(counter + 1) : replayBuffer'[k] = k
      BY <3>3, <3>4, <3>5
    <3>7. Len(replayBuffer') = IF counter' < ReplaySize THEN counter' ELSE ReplaySize
      BY <1>1, <2>2, <3>3, BusConstants
    <3> QED
      BY <1>1, <3>3, <3>6, <3>7 DEF NewestBuffered
  <2>3. CASE ~(counter < ReplaySize)
    <3>1. Len(replayBuffer) = ReplaySize /\ ReplaySize \in Nat \ {0}
      BY <2>3, BusConstants DEF NewestBuffered
    <3>2. replayBuffer' = Append(Tail(replayBuffer), counter + 1)
      BY <1>1, <3>1 DEF Bus!Keep
    <3>3. /\ Tail(replayBuffer) \in Seq(Nat) /\ Len(Tail(replayBuffer)) = ReplaySize - 1
          /\ \A k \in 1..(ReplaySize - 1) : Tail(replayBuffer)[k] = replayBuffer[k + 1]
      BY <3>1
    <3>4. /\ replayBuffer' \in Seq(Nat) /\ Len(replayBuffer') = ReplaySize
          /\ \A k \in 1..(ReplaySize - 1) : replayBuffer'[k] = replayBuffer[k + 1]
          /\ replayBuffer'[ReplaySize] = counter + 1
      BY <2>1, <3>1, <3>2, <3>3
    <3>5. \A k \in 1..(ReplaySize - 1) : k + 1 \in 1..ReplaySize
      BY <3>1
    <3>6. \A k \in 1..(ReplaySize - 1) : replayBuffer'[k] = counter - ReplaySize + (k + 1)
      BY <3>1, <3>4, <3>5 DEF NewestBuffered
    <3>7. \A k \in 1..ReplaySize : k \in 1..(ReplaySize - 1) \/ k = ReplaySize
      BY <3>1
    <3>8. ASSUME NEW k \in 1..ReplaySize
          PROVE  replayBuffer'[k] = counter' - ReplaySize + k
      BY <1>1, <3>1, <3>4, <3>6, <3>7
    <3>9. ~(counter' < ReplaySize)
      BY <1>1, <2>3, <3>1
    <3> QED
      BY <3>4, <3>8, <3>9 DEF NewestBuffered
  <2> QED
    BY <2>2, <2>3
<1>3. ASSUME NEW c \in Browser  PROVE Follows(c)'
  <2>1. Follows(c) /\ counter \in Nat /\ counter < counter'
    BY <1>1
  <2>2. Got(c)' = Got(c) /\ From(c)' = From(c)
    BY <1>1 DEF Got, From
  <2>3. Got(c) \in Nat /\ From(c) \in Nat
    BY DEF Got, From
  <2>4. Seen(c)'
    BY <1>1, <2>1, <2>2, <2>3 DEF Follows, Seen
  <2>5. conn[c] # "down" => ReplaySound(c)'
    <3>1. replayedTo[c] \in Nat
      OBVIOUS
    <3> QED
      BY <1>1, <2>1, <3>1 DEF Follows, ReplaySound
  <2>6. conn[c] = "replaying" => Replaying(c)'
    BY <1>1, <2>1 DEF Follows, Replaying
  <2>7. ASSUME conn[c] = "live"  PROVE Live(c)'
    <3>1. Live(c) /\ c \notin publishing /\ c \in publishing'
      BY <1>1, <2>1, <2>7 DEF Follows
    <3>2. \A k \in 1..Len(queue[c]) : queue[c][k] \in Nat
      OBVIOUS
    <3>3. \A k \in 1..Len(queue[c]) : queue[c][k] <= counter
      BY <3>1, <3>2 DEF Live
    <3>4. From(c) <= counter /\ subscribedAt[c] \in Nat
      BY <2>1, <3>1 DEF Follows, Seen, Live, From
    <3>5. dropped[c] \in SUBSET Nat
      OBVIOUS
    <3>6. counter' \notin dropped[c] /\ \A e \in dropped[c] : e <= counter'
      BY <1>1, <2>1, <3>1, <3>5 DEF Live
    <3>7. ASSUME NEW e \in Nat
          PROVE  (\E k \in 1..Len(queue[c]) : queue[c][k] = e) \/ e = counter'
                   <=> From(c) < e /\ e <= counter' /\ e \notin dropped[c]
      <4>1. (\E k \in 1..Len(queue[c]) : queue[c][k] = e)
              <=> From(c) < e /\ e <= counter /\ e \notin dropped[c]
        BY <3>1 DEF Live
      <4>2. e <= counter' <=> e <= counter \/ e = counter'
        BY <1>1, <2>1
      <4> HIDE DEF BusInv, BusTypes
      <4>3. From(c) < counter'
        BY <1>1, <2>1, <2>3, <3>4
      <4>4. CASE e = counter'
        BY <3>6, <4>2, <4>3, <4>4
      <4>5. CASE e # counter'
        BY <4>1, <4>2, <4>5
      <4> QED
        BY <4>4, <4>5
    <3>8. \A k \in 1..Len(queue[c]) : queue[c][k] < counter'
      BY <1>1, <2>1, <3>2, <3>3
    <3>9. From(c) < counter' /\ subscribedAt[c] <= counter'
      BY <1>1, <2>1, <2>3, <3>1, <3>4 DEF Live
    <3> QED
      BY <1>1, <2>2, <3>1, <3>6, <3>7, <3>8, <3>9 DEF Live
  <2> QED
    BY <1>1, <2>4, <2>5, <2>6, <2>7 DEF Follows
<1>4. BusTypes'
  BY <1>1, <1>2
<1> QED
  BY <1>2, <1>3, <1>4

\* What a step of browser c leaves as it is.
Untouched(c) ==
    /\ UNCHANGED <<epoch, counter, replayBuffer>>
    /\ \A d \in Browser : d # c =>
           /\ conn'[d] = conn[d] /\ replay'[d] = replay[d] /\ queue'[d] = queue[d]
           /\ lastSeen'[d] = lastSeen[d] /\ replayedTo'[d] = replayedTo[d]
           /\ subscribedAt'[d] = subscribedAt[d] /\ dropped'[d] = dropped[d]
           /\ d \in publishing' <=> d \in publishing

LEMMA OneBrowser ==
    ASSUME BusInv, NEW c \in Browser, Untouched(c), BusTypes', Follows(c)'
    PROVE  BusInv'
<1>1. NewestBuffered'
  BY DEF Untouched, BusInv, NewestBuffered
<1>2. ASSUME NEW d \in Browser, d # c  PROVE Follows(d)'
  BY <1>2, FollowsOn DEF BusInv, Untouched
<1> QED
  BY <1>1, <1>2 DEF BusInv

LEMMA DeliverKeeps ==
    ASSUME BusInv, NEW c \in Browser, Bus!Deliver(c)
    PROVE  BusInv'
<1> USE DEF BusTypes
<1>1. /\ c \in publishing /\ publishing' = publishing \ {c}
      /\ UNCHANGED <<epoch, counter, replayBuffer, listeners, conn, replay, replayedTo,
                     subscribedAt, lastSeen>>
      /\ \/ queue' = [queue EXCEPT ![c] = Append(queue[c], counter)] /\ dropped' = dropped
         \/ dropped' = [dropped EXCEPT ![c] = dropped[c] \cup {counter}] /\ queue' = queue
  BY DEF Bus!Deliver, Bus!Enqueue
<1>2. BusTypes /\ conn[c] = "live" /\ Live(c) /\ Follows(c)
  BY <1>1 DEF BusInv, Follows
<1>3. BusTypes'
  <2>1. queue' \in [Browser -> Seq(Nat)] /\ dropped' \in [Browser -> SUBSET Nat]
    <3>1. counter \in Nat /\ queue[c] \in Seq(Nat) /\ dropped[c] \in SUBSET Nat
      BY <1>2
    <3>2. Append(queue[c], counter) \in Seq(Nat) /\ dropped[c] \cup {counter} \in SUBSET Nat
      BY <3>1
    <3> QED
      BY <1>1, <1>2, <3>2
  <2> QED
    BY <1>1, <1>2, <2>1
<1>4. Untouched(c)
  BY <1>1, <1>2 DEF Untouched
<1>5. /\ counter \in Nat /\ queue[c] \in Seq(Nat) /\ Len(queue[c]) \in Nat
      /\ \A k \in 1..Len(queue[c]) : queue[c][k] \in Nat /\ queue[c][k] < counter
  <2>1. counter \in Nat /\ queue[c] \in Seq(Nat)
    BY <1>2
  <2>2. Len(queue[c]) \in Nat /\ \A k \in 1..Len(queue[c]) : queue[c][k] \in Nat
    BY <2>1
  <2> QED
    BY <1>1, <1>2, <2>1, <2>2 DEF Live
<1>6. Got(c)' = Got(c) /\ From(c)' = From(c) /\ From(c) \in Nat /\ From(c) < counter
  BY <1>1, <1>2 DEF Got, From, Live
<1>7. Live(c)'
  <2>1. CASE queue' = [queue EXCEPT ![c] = Append(queue[c], counter)] /\ dropped' = dropped
    <3>1. /\ queue'[c] = Append(queue[c], counter) /\ Len(queue'[c]) = Len(queue[c]) + 1
          /\ \A k \in 1..Len(queue[c]) : queue'[c][k] = queue[c][k]
          /\ queue'[c][Len(queue[c]) + 1] = counter
      BY <1>2, <1>5, <2>1
    <3>2. \A k \in 1..Len(queue'[c]) : k \in 1..Len(queue[c]) \/ k = Len(queue[c]) + 1
      BY <1>5, <3>1
    <3>3. Len(queue[c]) + 1 \in 1..Len(queue'[c])
          /\ \A k \in 1..Len(queue[c]) : k \in 1..Len(queue'[c])
      BY <1>5, <3>1
    <3>4. ASSUME NEW j \in 1..Len(queue'[c]), NEW k \in 1..Len(queue'[c]), j < k
          PROVE  queue'[c][j] < queue'[c][k]
      <4>1. j \in 1..Len(queue[c])
        BY <1>5, <3>1, <3>4
      <4>2. CASE k \in 1..Len(queue[c])
        BY <1>2, <3>1, <3>4, <4>1, <4>2 DEF Live
      <4>3. CASE k = Len(queue[c]) + 1
        BY <1>5, <3>1, <4>1, <4>3
      <4> QED
        BY <3>2, <4>2, <4>3
    <3>5. ASSUME NEW e \in Nat
          PROVE  (\E k \in 1..Len(queue'[c]) : queue'[c][k] = e)
                   <=> (\E k \in 1..Len(queue[c]) : queue[c][k] = e) \/ e = counter
      BY <3>1, <3>2, <3>3
    <3>6. c \notin publishing'
      BY <1>1
    <3>7. ASSUME NEW e \in Nat
          PROVE  (\E k \in 1..Len(queue'[c]) : queue'[c][k] = e)
                   <=> From(c) < e /\ e <= counter /\ e \notin dropped[c]
      BY <1>1, <1>2, <3>5 DEF Live
    <3>8. /\ replay[c] = << >> /\ replayedTo[c] <= subscribedAt[c]
          /\ subscribedAt[c] <= counter /\ \A e \in dropped[c] : e <= counter
      BY <1>2 DEF Live
    <3> QED
      BY <1>1, <1>6, <2>1, <3>4, <3>6, <3>7, <3>8 DEF Live
  <2>2. CASE dropped' = [dropped EXCEPT ![c] = dropped[c] \cup {counter}] /\ queue' = queue
    <3>1. dropped'[c] = dropped[c] \cup {counter} /\ c \notin publishing' /\ queue' = queue
      BY <1>1, <1>2, <2>2
    <3>2. ASSUME NEW e \in Nat
          PROVE  (\E k \in 1..Len(queue[c]) : queue[c][k] = e)
                   <=> From(c) < e /\ e <= counter /\ e \notin dropped'[c]
      <4>1. (\E k \in 1..Len(queue[c]) : queue[c][k] = e) => e # counter
        BY <1>5
      <4> QED
        BY <1>1, <1>2, <3>1, <4>1 DEF Live
    <3> QED
      BY <1>1, <1>2, <1>5, <1>6, <3>1, <3>2 DEF Live
  <2> QED
    BY <1>1, <2>1, <2>2
<1>8. Follows(c)'
  BY <1>1, <1>2, <1>6, <1>7 DEF Follows, Seen, ReplaySound
<1> QED
  BY <1>3, <1>4, <1>8, OneBrowser

LEMMA ConnectKeeps ==
    ASSUME BusInv, NEW c \in Browser, Bus!Connect(c)
    PROVE  BusInv'
<1> USE DEF BusTypes
<1> DEFINE id == lastSeen[c].id
           rest == Bus!EventsAfter(id)
<1>1. /\ conn[c] = "down" /\ conn' = [conn EXCEPT ![c] = "replaying"]
      /\ replay' = [replay EXCEPT ![c] = rest]
      /\ queue' = [queue EXCEPT ![c] = << >>]
      /\ replayedTo' = [replayedTo EXCEPT ![c] = counter]
      /\ dropped' = [dropped EXCEPT ![c] = {}]
      /\ UNCHANGED <<epoch, counter, replayBuffer, publishing, listeners, subscribedAt, lastSeen>>
  BY Zenon DEF Bus!Connect, Bus!numberVars
<1>2. BusTypes /\ NewestBuffered /\ Follows(c)
  BY DEF BusInv
<1>3. id \in Nat /\ counter \in Nat /\ Len(replayBuffer) \in Nat
  BY <1>2
<1>4. PICK n \in 0..Len(replayBuffer) :
          /\ rest \in Seq(Nat)
          /\ Len(rest) = Len(replayBuffer) - n
          /\ \A j \in 1..(Len(replayBuffer) - n) : rest[j] = replayBuffer[n + j]
          /\ \A k \in 1..n : replayBuffer[k] <= id
          /\ n < Len(replayBuffer) => replayBuffer[n + 1] > id
  BY <1>3, AfterCuts
<1> HIDE DEF rest, id
<1>5. /\ replay'[c] = rest /\ queue'[c] = << >> /\ conn'[c] = "replaying"
      /\ replayedTo'[c] = counter /\ dropped'[c] = {}
  BY <1>1, <1>2
<1>6. Untouched(c)
  BY <1>1, <1>2 DEF Untouched
<1>7. BusTypes'
  <2>1. << >> \in Seq(Nat)
    OBVIOUS
  <2>2. /\ conn' \in [Browser -> {"down", "replaying", "live"}]
        /\ replay' \in [Browser -> Seq(Nat)] /\ queue' \in [Browser -> Seq(Nat)]
        /\ replayedTo' \in [Browser -> Nat] /\ dropped' \in [Browser -> SUBSET Nat]
    BY <1>1, <1>2, <1>4, <2>1
  <2>3. listeners' = {d \in Browser : conn'[d] = "live"}
    BY <1>1, <1>2
  <2> QED
    BY <1>1, <1>2, <2>2, <2>3
<1> DEFINE len == Len(replayBuffer)
<1>8. /\ len <= counter /\ len <= ReplaySize /\ (len < ReplaySize => len = counter)
      /\ \A k \in 1..len : replayBuffer[k] = counter - len + k
  BY <1>2, <1>3, BusConstants DEF NewestBuffered
<1> HIDE DEF len
<1>9. \A j \in 1..(len - n) : rest[j] = counter - (len - n) + j
  <2> SUFFICES ASSUME NEW j \in 1..(len - n)  PROVE rest[j] = counter - (len - n) + j
    OBVIOUS
  <2>1. n + j \in 1..len
    BY <1>3 DEF len
  <2>2. rest[j] = counter - len + (n + j)
    BY <1>4, <1>8, <2>1 DEF len
  <2> QED
    BY <1>3, <2>2 DEF len
<1>10. ASSUME NEW e \in Nat, id < e, e <= counter - (len - n)
       PROVE  e <= counter - ReplaySize
  <2>1. CASE n = 0
    BY <1>3, <1>8, <1>10, <2>1, BusConstants DEF len
  <2>2. CASE n # 0
    <3>1. n \in 1..n /\ n \in 1..len
      BY <1>3, <2>2 DEF len
    <3>2. replayBuffer[n] = counter - len + n /\ replayBuffer[n] <= id
      BY <1>4, <1>8, <3>1
    <3> QED
      BY <1>3, <1>10, <3>2 DEF len
  <2> QED
    BY <2>1, <2>2
<1>11. rest # << >> => id <= counter - (len - n)
  <2> SUFFICES ASSUME rest # << >>  PROVE id <= counter - (len - n)
    OBVIOUS
  <2>1. len - n > 0
    BY <1>3, <1>4 DEF len
  <2>2. n + 1 \in 1..len /\ n < len
    BY <1>3, <2>1 DEF len
  <2>3. replayBuffer[n + 1] = counter - len + (n + 1) /\ replayBuffer[n + 1] > id
    BY <1>4, <1>8, <2>2 DEF len
  <2> QED
    BY <1>3, <2>3 DEF len
<1>12. Len(rest) = len - n
  BY <1>4 DEF len
<1>13. lastSeen'[c].id = id /\ lastSeen'[c].epoch = lastSeen[c].epoch /\ epoch' = epoch
  BY <1>1 DEF id
<1>14. ReplaySound(c)'
  <2>1. len - n <= counter
    BY <1>3, <1>8 DEF len
  <2>2. /\ replayedTo'[c] = counter /\ Len(replay'[c]) = len - n /\ counter' = counter
        /\ \A k \in 1..(len - n) : replay'[c][k] = counter - (len - n) + k
    BY <1>1, <1>5, <1>9, <1>12
  <2>3. \A e \in Nat : id < e /\ e <= counter - (len - n) => e <= counter - ReplaySize
    BY <1>10
  <2> HIDE DEF rest, id
  <2> QED
    BY <1>3, <1>13, <2>1, <2>2, <2>3 DEF ReplaySound
<1>15. Replaying(c)'
  BY <1>1, <1>5, <1>11, <1>12, <1>13 DEF Replaying
<1>16. Seen(c)'
  BY <1>1, <1>2 DEF Follows, Seen, Got
<1>17. Follows(c)'
  BY <1>5, <1>14, <1>15, <1>16 DEF Follows
<1> QED
  BY <1>6, <1>7, <1>17, OneBrowser

LEMMA YieldReplayKeeps ==
    ASSUME BusInv, NEW c \in Browser, Bus!YieldReplay(c)
    PROVE  BusInv' /\ (lastSeen[c].epoch = epoch => lastSeen[c].id < lastSeen'[c].id)
<1> USE DEF BusTypes
<1>1. /\ conn[c] = "replaying" /\ replay[c] # << >>
      /\ lastSeen' = [lastSeen EXCEPT ![c] = [epoch |-> epoch, id |-> Head(replay[c])]]
      /\ replay' = [replay EXCEPT ![c] = Tail(replay[c])]
      /\ UNCHANGED <<epoch, counter, replayBuffer, publishing, listeners, conn, queue,
                     replayedTo, subscribedAt, dropped>>
  BY DEF Bus!YieldReplay, Bus!Receive, Bus!numberVars
<1>2. BusTypes /\ Follows(c) /\ ReplaySound(c) /\ Replaying(c)
  BY <1>1 DEF BusInv, Follows
<1> DEFINE len == Len(replay[c])
           old == lastSeen[c].id
<1>3. replay[c] \in Seq(Nat) /\ counter \in Nat /\ epoch \in Nat /\ replayedTo[c] \in Nat
      /\ old \in Nat
  BY <1>2
<1>4. /\ len \in Nat \ {0} /\ Head(replay[c]) \in Nat /\ Head(replay[c]) = replay[c][1]
      /\ Tail(replay[c]) \in Seq(Nat) /\ Len(Tail(replay[c])) = len - 1
      /\ \A k \in 1..(len - 1) : Tail(replay[c])[k] = replay[c][k + 1]
  BY <1>1, <1>3
<1>5. /\ \A k \in 1..len : replay[c][k] = replayedTo[c] - len + k
      /\ len <= replayedTo[c] /\ replayedTo[c] <= counter
      /\ lastSeen[c].epoch = epoch =>
           /\ old <= replayedTo[c] - len
           /\ \A e \in Nat : old < e /\ e <= replayedTo[c] - len => e <= replayedTo[c] - ReplaySize
  BY <1>1, <1>2 DEF ReplaySound, Replaying
<1> DEFINE new == Head(replay[c])
<1>6. new = replayedTo[c] - len + 1
  BY <1>4, <1>5
<1>7. /\ lastSeen'[c] = [epoch |-> epoch, id |-> new] /\ replay'[c] = Tail(replay[c])
      /\ Len(replay'[c]) = len - 1
  BY <1>1, <1>2, <1>4
<1>8. lastSeen'[c].epoch = epoch /\ lastSeen'[c].id = new /\ new \in Nat
  BY <1>4, <1>7
<1>9. BusTypes'
  <2>1. lastSeen' \in [Browser -> [epoch : Nat, id : Nat]] /\ replay' \in [Browser -> Seq(Nat)]
    BY <1>1, <1>2, <1>3, <1>4
  <2> QED
    BY <1>1, <1>2, <2>1
<1>10. Untouched(c)
  BY <1>1, <1>2 DEF Untouched
<1> HIDE DEF len, old, new
<1>11. \A k \in 1..(len - 1) : replay'[c][k] = replayedTo[c] - (len - 1) + k
  <2> SUFFICES ASSUME NEW k \in 1..(len - 1)
               PROVE  replay'[c][k] = replayedTo[c] - (len - 1) + k
    OBVIOUS
  <2>1. k + 1 \in 1..len
    BY <1>4
  <2>2. replay'[c][k] = replay[c][k + 1]
    BY <1>4, <1>7
  <2>3. replay[c][k + 1] = replayedTo[c] - len + (k + 1)
    BY <1>5, <2>1
  <2>4. replayedTo[c] - len + (k + 1) = replayedTo[c] - (len - 1) + k
    BY <1>3, <1>4
  <2> QED
    BY <2>2, <2>3, <2>4
<1>12. ReplaySound(c)'
  <2>1. \A e \in Nat : ~(new < e /\ e <= replayedTo[c] - (len - 1))
    BY <1>3, <1>4, <1>6
  <2>2. len - 1 <= replayedTo[c]
    BY <1>3, <1>4, <1>5
  <2> QED
    BY <1>1, <1>5, <1>7, <1>8, <1>11, <2>1, <2>2 DEF ReplaySound
<1>13. Replaying(c)'
  <2>1. new <= replayedTo[c] - (len - 1)
    BY <1>3, <1>4, <1>6
  <2> QED
    BY <1>1, <1>2, <1>7, <1>8, <2>1 DEF Replaying
<1>14. Seen(c)'
  <2>1. new <= counter
    BY <1>3, <1>4, <1>5, <1>6
  <2> QED
    BY <1>1, <1>3, <1>8, <2>1 DEF Seen, Got
<1>15. Follows(c)'
  BY <1>1, <1>12, <1>13, <1>14 DEF Follows
<1>16. lastSeen[c].epoch = epoch => old < new
  BY <1>3, <1>4, <1>5, <1>6
<1> QED
  BY <1>8, <1>9, <1>10, <1>15, <1>16, OneBrowser DEF old

\* Whoever has taken the whole replay is live from here.
LEMMA SubscribeKeeps ==
    ASSUME BusInv, NEW c \in Browser, Bus!Subscribe(c)
    PROVE  BusInv'
<1> USE DEF BusTypes
<1>1. /\ conn[c] = "replaying" /\ replay[c] = << >>
      /\ conn' = [conn EXCEPT ![c] = "live"]
      /\ listeners' = listeners \cup {c}
      /\ subscribedAt' = [subscribedAt EXCEPT ![c] = counter]
      /\ UNCHANGED <<epoch, counter, replayBuffer, publishing, replay, queue, replayedTo,
                     dropped, lastSeen>>
  BY DEF Bus!Subscribe, Bus!numberVars
<1>2. BusTypes /\ Follows(c) /\ ReplaySound(c) /\ Replaying(c) /\ Seen(c)
  BY <1>1 DEF BusInv, Follows
<1>3. c \notin publishing /\ counter \in Nat
  BY <1>1, <1>2
<1>4. conn'[c] = "live" /\ subscribedAt'[c] = counter
  BY <1>1, <1>2
<1>5. BusTypes'
  <2>1. listeners' = {d \in Browser : conn'[d] = "live"}
    BY <1>1, <1>2
  <2>2. subscribedAt' \in [Browser -> Nat] /\ conn' \in [Browser -> {"down", "replaying", "live"}]
    BY <1>1, <1>2, <1>3
  <2>3. publishing' \subseteq listeners'
    BY <1>1, <1>2
  <2> QED
    BY <1>1, <1>2, <2>1, <2>2, <2>3
<1>6. Untouched(c)
  BY <1>1, <1>2 DEF Untouched
<1>7. Got(c)' = Got(c) /\ Got(c) \in Nat /\ Got(c) <= counter
  BY <1>1, <1>2 DEF Got, Seen
<1>8. From(c)' = counter
  BY <1>3, <1>4, <1>7 DEF From
<1>9. queue[c] = << >> /\ dropped[c] = {} /\ Len(queue[c]) = 0 /\ replayedTo[c] <= counter
  BY <1>2 DEF Replaying, ReplaySound
<1>10. \A e \in Nat : ~(counter < e /\ e <= counter)
  BY <1>3
<1>11. Live(c)'
  BY <1>1, <1>3, <1>4, <1>8, <1>9, <1>10 DEF Live
<1>12. Seen(c)' /\ ReplaySound(c)'
  BY <1>1, <1>2 DEF Seen, Got, ReplaySound
<1>13. Follows(c)'
  BY <1>4, <1>11, <1>12 DEF Follows
<1> QED
  BY <1>5, <1>6, <1>13, OneBrowser

LEMMA TakenOff ==
    ASSUME NEW s \in Seq(Nat), s # << >>
    PROVE  /\ Len(s) \in Nat \ {0} /\ Head(s) \in Nat /\ Head(s) = s[1]
           /\ Tail(s) \in Seq(Nat) /\ Len(Tail(s)) = Len(s) - 1
           /\ \A k \in 1..(Len(s) - 1) : Tail(s)[k] = s[k + 1]
  OBVIOUS

LEMMA YieldLiveKeeps ==
    ASSUME BusInv, NEW c \in Browser, Bus!YieldLive(c)
    PROVE  BusInv' /\ (lastSeen[c].epoch = epoch => lastSeen[c].id < lastSeen'[c].id)
<1> USE DEF BusTypes
<1> DEFINE new == Head(queue[c])
           len == Len(queue[c])
<1>1. /\ conn[c] = "live" /\ queue[c] # << >>
      /\ lastSeen' = [lastSeen EXCEPT ![c] = [epoch |-> epoch, id |-> new]]
      /\ queue' = [queue EXCEPT ![c] = Tail(queue[c])]
      /\ UNCHANGED <<epoch, counter, replayBuffer, publishing, listeners, conn, replay,
                     replayedTo, subscribedAt, dropped>>
  BY DEF Bus!YieldLive, Bus!Receive, Bus!numberVars
<1>2. BusTypes /\ Follows(c) /\ ReplaySound(c) /\ Live(c) /\ Seen(c)
  BY <1>1 DEF BusInv, Follows
<1>3. /\ queue[c] \in Seq(Nat) /\ counter \in Nat /\ epoch \in Nat
      /\ lastSeen[c].id \in Nat /\ subscribedAt[c] \in Nat /\ replayedTo[c] \in Nat
  BY <1>2
<1>4. /\ len \in Nat \ {0} /\ new \in Nat /\ new = queue[c][1]
      /\ Tail(queue[c]) \in Seq(Nat) /\ Len(Tail(queue[c])) = len - 1
      /\ \A k \in 1..(len - 1) : Tail(queue[c])[k] = queue[c][k + 1]
  BY <1>1, <1>3, TakenOff
<1>5. 1 \in 1..len /\ \A k \in 1..(len - 1) : k + 1 \in 1..len /\ 1 < k + 1
  BY <1>4
<1>6. From(c) \in Nat /\ Got(c) \in Nat
  BY <1>3 DEF From, Got
<1>7. From(c) < new /\ new <= counter
  BY <1>2, <1>4, <1>5 DEF Live
<1> HIDE DEF new, len
<1>8. lastSeen'[c] = [epoch |-> epoch, id |-> new] /\ queue'[c] = Tail(queue[c])
  BY <1>1, <1>2
<1>9. lastSeen'[c].epoch = epoch /\ lastSeen'[c].id = new
  BY <1>8
<1>10. Got(c)' = new /\ From(c)' = new
  <2>1. Got(c)' = new
    BY <1>1, <1>9 DEF Got
  <2>2. subscribedAt[c] < new
    BY <1>3, <1>4, <1>6, <1>7 DEF From
  <2> QED
    BY <1>1, <1>3, <1>4, <2>1, <2>2 DEF From
<1>11. BusTypes'
  <2>1. lastSeen' \in [Browser -> [epoch : Nat, id : Nat]] /\ queue' \in [Browser -> Seq(Nat)]
    BY <1>1, <1>2, <1>3, <1>4
  <2> QED
    BY <1>1, <1>2, <2>1
<1>12. Untouched(c)
  BY <1>1, <1>2 DEF Untouched
<1>13. Len(queue'[c]) = len - 1 /\ \A k \in 1..(len - 1) : queue'[c][k] = queue[c][k + 1]
  BY <1>4, <1>8
<1>14. \A k \in 1..len : k = 1 \/ (k - 1 \in 1..(len - 1) /\ (k - 1) + 1 = k)
  BY <1>4
<1>15. ASSUME NEW k \in 1..len, k # 1  PROVE new < queue[c][k]
  <2>1. 1 < k
    BY <1>4, <1>15
  <2> QED
    BY <1>2, <1>4, <1>5, <2>1 DEF Live, len
<1>16. Live(c)'
  <2>1. ASSUME NEW j \in 1..(len - 1), NEW k \in 1..(len - 1), j < k
        PROVE  queue'[c][j] < queue'[c][k]
    <3>1. j + 1 < k + 1
      BY <2>1
    <3> QED
      BY <1>2, <1>5, <1>13, <3>1 DEF Live, len
  <2>2. c \in publishing => new < counter /\ counter \notin dropped[c]
    BY <1>2, <1>4, <1>5 DEF Live, len
  <2>3. c \in publishing => \A k \in 1..(len - 1) : queue'[c][k] < counter
    BY <1>2, <1>5, <1>13 DEF Live, len
  <2>4. ASSUME NEW e \in Nat
        PROVE  (\E k \in 1..(len - 1) : queue'[c][k] = e) \/ (c \in publishing /\ e = counter)
                 <=> new < e /\ e <= counter /\ e \notin dropped[c]
    <3>1. (\E k \in 1..len : queue[c][k] = e) \/ (c \in publishing /\ e = counter)
            <=> From(c) < e /\ e <= counter /\ e \notin dropped[c]
      BY <1>2 DEF Live, len
    <3>2. (\E k \in 1..len : queue[c][k] = e)
            <=> e = new \/ (\E k \in 1..(len - 1) : queue'[c][k] = e)
      <4>1. ASSUME NEW k \in 1..len, queue[c][k] = e, k # 1
            PROVE  \E i \in 1..(len - 1) : queue'[c][i] = e
        <5>1. k - 1 \in 1..(len - 1) /\ (k - 1) + 1 = k
          BY <1>14, <4>1
        <5>2. queue'[c][k - 1] = queue[c][(k - 1) + 1]
          BY <1>13, <5>1
        <5> QED
          BY <4>1, <5>1, <5>2
      <4>2. ASSUME NEW k \in 1..(len - 1), queue'[c][k] = e
            PROVE  \E i \in 1..len : queue[c][i] = e
        BY <1>5, <1>13, <4>2
      <4> QED
        BY <1>4, <1>5, <4>1, <4>2
    <3>3. (\E k \in 1..(len - 1) : queue'[c][k] = e) => new < e
      <4>1. ASSUME NEW k \in 1..(len - 1), queue'[c][k] = e  PROVE new < e
        <5>1. k + 1 \in 1..len /\ k + 1 # 1 /\ queue[c][k + 1] = e
          BY <1>5, <1>13, <4>1
        <5> QED
          BY <1>15, <5>1
      <4> QED
        BY <4>1
    <3>4. c \in publishing /\ e = counter => new < e
      BY <2>2
    <3>5. new < e => From(c) < e /\ e # new
      BY <1>4, <1>6, <1>7
    <3> QED
      BY <3>1, <3>2, <3>3, <3>4, <3>5
  <2>5. /\ replay[c] = << >> /\ replayedTo[c] <= subscribedAt[c]
        /\ subscribedAt[c] <= counter /\ \A e \in dropped[c] : e <= counter
    BY <1>2 DEF Live
  <2> QED
    BY <1>1, <1>10, <1>13, <2>1, <2>2, <2>3, <2>4, <2>5 DEF Live
<1>17. ReplaySound(c)'
  <2>1. replay[c] = << >> /\ replayedTo[c] <= subscribedAt[c]
    BY <1>2 DEF Live
  <2>2. replayedTo[c] < new
    BY <1>3, <1>4, <1>6, <1>7, <2>1 DEF From
  <2>3. \A e \in Nat : ~(new < e /\ e <= replayedTo[c] - Len(replay[c]))
    BY <1>3, <1>4, <2>1, <2>2
  <2> QED
    BY <1>1, <1>2, <1>9, <2>3 DEF ReplaySound
<1>18. Seen(c)'
  BY <1>1, <1>3, <1>7, <1>9, <1>10 DEF Seen
<1>19. Follows(c)'
  BY <1>1, <1>16, <1>17, <1>18 DEF Follows
<1>20. lastSeen[c].epoch = epoch => lastSeen[c].id < new
  <2>1. From(c) >= Got(c) /\ Got(c) < new
    BY <1>3, <1>4, <1>6, <1>7 DEF From
  <2> QED
    BY <2>1 DEF Got
<1> QED
  BY <1>9, <1>11, <1>12, <1>19, <1>20, OneBrowser

LEMMA DisconnectKeeps ==
    ASSUME BusInv, NEW c \in Browser, Bus!Disconnect(c)
    PROVE  BusInv'
<1> USE DEF BusTypes
<1>1. /\ conn' = [conn EXCEPT ![c] = "down"]
      /\ listeners' = listeners \ {c} /\ publishing' = publishing \ {c}
      /\ replay' = [replay EXCEPT ![c] = << >>] /\ queue' = [queue EXCEPT ![c] = << >>]
      /\ UNCHANGED <<epoch, counter, replayBuffer, replayedTo, subscribedAt, dropped, lastSeen>>
  BY DEF Bus!Disconnect
<1>2. BusTypes /\ Follows(c)
  BY DEF BusInv
<1>3. BusTypes'
  <2>1. << >> \in Seq(Nat)
    OBVIOUS
  <2>2. /\ conn' \in [Browser -> {"down", "replaying", "live"}]
        /\ replay' \in [Browser -> Seq(Nat)] /\ queue' \in [Browser -> Seq(Nat)]
    BY <1>1, <1>2, <2>1
  <2>3. listeners' = {d \in Browser : conn'[d] = "live"} /\ publishing' \subseteq listeners'
    BY <1>1, <1>2
  <2> QED
    BY <1>1, <1>2, <2>2, <2>3
<1>4. Untouched(c)
  BY <1>1, <1>2 DEF Untouched
<1>5. conn'[c] = "down"
  BY <1>1, <1>2
<1>6. Follows(c)'
  BY <1>1, <1>2, <1>5 DEF Follows, Seen, Got
<1> QED
  BY <1>3, <1>4, <1>6, OneBrowser

\* A new incarnation has numbered nothing, and nobody has seen anything of it.
LEMMA RestartKeeps ==
    ASSUME BusInv, Bus!Restart
    PROVE  BusInv'
<1>1. /\ epoch' = epoch + 1 /\ counter' = 0 /\ replayBuffer' = << >>
      /\ listeners' = {} /\ publishing' = {}
      /\ conn' = [c \in Browser |-> "down"]
      /\ replay' = [c \in Browser |-> << >>] /\ queue' = [c \in Browser |-> << >>]
      /\ replayedTo' = [c \in Browser |-> 0] /\ subscribedAt' = [c \in Browser |-> 0]
      /\ dropped' = [c \in Browser |-> {}] /\ lastSeen' = lastSeen
  BY DEF Bus!Restart
<1>2. BusTypes'
  BY <1>1 DEF BusInv, BusTypes
<1>3. NewestBuffered'
  BY <1>1, BusConstants DEF NewestBuffered
<1>4. ASSUME NEW c \in Browser  PROVE Follows(c)'
  <2>1. epoch \in Nat /\ lastSeen[c].epoch \in Nat /\ lastSeen[c].epoch <= epoch
    BY DEF BusInv, BusTypes, Follows, Seen
  <2>2. lastSeen'[c].epoch < epoch'
    BY <1>1, <2>1
  <2>3. Got(c)' = 0
    BY <1>1, <2>1, <2>2 DEF Got
  <2>4. Seen(c)'
    BY <1>1, <2>1, <2>3 DEF Seen
  <2> QED
    BY <1>1, <2>4 DEF Follows
<1> QED
  BY <1>2, <1>3, <1>4 DEF BusInv

LEMMA BusNext == BusInv /\ [Next]_vars => BusInv'
<1> SUFFICES ASSUME BusInv, [Next]_vars  PROVE BusInv'
  OBVIOUS
<1>1. CASE Bus!Next
  BY <1>1, PublishKeeps, RestartKeeps, DeliverKeeps, ConnectKeeps, YieldReplayKeeps,
     SubscribeKeeps, YieldLiveKeeps, DisconnectKeeps DEF Bus!Next, Bus!BrowserStep
<1>2. CASE UNCHANGED busVars
  <2>1. UNCHANGED <<epoch, counter, replayBuffer, listeners, publishing, conn, replay, queue,
                    lastSeen, replayedTo, subscribedAt, dropped>>
    BY <1>2 DEF busVars
  <2>2. BusTypes'
    BY <2>1 DEF BusInv, BusTypes
  <2>3. NewestBuffered'
    BY <2>1 DEF BusInv, NewestBuffered
  <2>4. ASSUME NEW c \in Browser  PROVE Follows(c)'
    <3>1. Follows(c)
      BY DEF BusInv
    <3> QED
      BY <2>1, <3>1, FollowsOn
  <2> QED
    BY <2>2, <2>3, <2>4 DEF BusInv
<1> QED
  BY <1>1, <1>2, BusSteps

LEMMA BusInductive == Spec => []BusInv
  BY BusInit, BusNext, PTL DEF Spec

(***************************************************************************)
(* A live connection's queue, and the event whose callback is still to     *)
(* come, are what it has yet to see, in order and once, less what its full *)
(* queue refused: for any number of browsers, any sizes of buffer and      *)
(* queue and any number of events and restarts.                            *)
(***************************************************************************)
THEOREM LiveStreamsMissNothing == Spec => []LiveStreamComplete
<1>1. ASSUME BusInv, NEW c \in Browser, conn[c] = "live"
      PROVE  LET coming == Bus!Coming(c)
             IN  /\ \A j, k \in DOMAIN coming : j < k => coming[j] < coming[k]
                 /\ {coming[k] : k \in DOMAIN coming} = ((From(c) + 1)..counter) \ dropped[c]
  <2> DEFINE q == queue[c]
             last == IF c \in publishing THEN <<counter>> ELSE << >>
             coming == q \o last
  <2>1. /\ q \in Seq(Nat) /\ counter \in Nat /\ Len(q) \in Nat /\ Live(c)
        /\ \A k \in 1..Len(q) : q[k] \in Nat
    BY <1>1 DEF BusInv, BusTypes, Follows
  <2>2. From(c) \in Nat
    BY <1>1 DEF BusInv, BusTypes, From, Got
  <2>3. Bus!Coming(c) = coming
    BY DEF Bus!Coming
  <2>4. /\ \A j, k \in 1..Len(q) : j < k => q[j] < q[k]
        /\ c \in publishing => \A k \in 1..Len(q) : q[k] < counter
        /\ \A e \in Nat : (\E k \in 1..Len(q) : q[k] = e) \/ (c \in publishing /\ e = counter)
                            <=> From(c) < e /\ e <= counter /\ e \notin dropped[c]
    BY <2>1 DEF Live
  <2>5. CASE c \in publishing
    <3>1. /\ last \in Seq(Nat) /\ Len(last) = 1 /\ last[1] = counter
      BY <2>1, <2>5
    <3> HIDE DEF last, q
    <3>2. /\ coming \in Seq(Nat) /\ Len(coming) = Len(q) + 1
          /\ \A k \in 1..Len(q) : coming[k] = q[k]
          /\ coming[Len(q) + 1] = counter
      <4>1. /\ coming \in Seq(Nat) /\ Len(coming) = Len(q) + Len(last)
            /\ \A i \in 1..(Len(q) + Len(last)) :
                   coming[i] = IF i <= Len(q) THEN q[i] ELSE last[i - Len(q)]
        BY <2>1, <3>1, ConcatProperties
      <4>2. /\ \A k \in 1..Len(q) : k \in 1..(Len(q) + Len(last)) /\ k <= Len(q)
            /\ Len(q) + 1 \in 1..(Len(q) + Len(last)) /\ ~(Len(q) + 1 <= Len(q))
            /\ (Len(q) + 1) - Len(q) = 1
        BY <2>1, <3>1
      <4> HIDE DEF coming
      <4> QED
        BY <3>1, <4>1, <4>2
    <3> HIDE DEF coming
    <3>3. /\ DOMAIN coming = 1..(Len(q) + 1)
          /\ \A k \in 1..(Len(q) + 1) : k \in 1..Len(q) \/ k = Len(q) + 1
          /\ \A k \in 1..Len(q) : k \in 1..(Len(q) + 1) /\ k < Len(q) + 1
      BY <2>1, <3>2
    <3>4. ASSUME NEW j \in DOMAIN coming, NEW k \in DOMAIN coming, j < k
          PROVE  coming[j] < coming[k]
      <4>1. j \in 1..Len(q)
        BY <2>1, <3>3, <3>4
      <4>2. CASE k \in 1..Len(q)
        BY <2>4, <3>2, <3>4, <4>1, <4>2
      <4>3. CASE k = Len(q) + 1
        BY <2>4, <2>5, <3>2, <4>1, <4>3
      <4> QED
        BY <3>3, <4>2, <4>3
    <3>5. ASSUME NEW e \in Nat
          PROVE  (\E k \in DOMAIN coming : coming[k] = e)
                   <=> From(c) < e /\ e <= counter /\ e \notin dropped[c]
      <4>1. (\E k \in DOMAIN coming : coming[k] = e)
              <=> (\E k \in 1..Len(q) : q[k] = e) \/ e = counter
        <5>1. Len(q) + 1 \in 1..(Len(q) + 1)
          BY <2>1
        <5> QED
          BY <3>2, <3>3, <5>1
      <4> QED
        BY <2>4, <2>5, <4>1
    <3>6. \A k \in DOMAIN coming : coming[k] \in Nat
      BY <3>2
    <3>7. \A e : e \in (From(c) + 1)..counter <=> e \in Nat /\ From(c) < e /\ e <= counter
      BY <2>1, <2>2
    <3>8. {coming[k] : k \in DOMAIN coming} = ((From(c) + 1)..counter) \ dropped[c]
      BY <3>5, <3>6, <3>7
    <3> QED
      BY <2>3, <3>4, <3>8
  <2>6. CASE c \notin publishing
    <3>1. coming = q
      BY <2>1, <2>6
    <3> HIDE DEF coming, q
    <3>2. DOMAIN q = 1..Len(q)
      BY <2>1
    <3>3. \A e : e \in (From(c) + 1)..counter <=> e \in Nat /\ From(c) < e /\ e <= counter
      BY <2>1, <2>2
    <3>4. {q[k] : k \in DOMAIN q} = ((From(c) + 1)..counter) \ dropped[c]
      <4>1. \A k \in DOMAIN q : q[k] \in Nat
        BY <2>1, <3>2
      <4>2. \A e \in Nat : (\E k \in DOMAIN q : q[k] = e)
                              <=> From(c) < e /\ e <= counter /\ e \notin dropped[c]
        BY <2>4, <2>6, <3>2, Zenon
      <4> QED
        BY <3>3, <4>1, <4>2, Zenon
    <3> QED
      BY <2>3, <2>4, <3>1, <3>2, <3>4
  <2> QED
    BY <2>5, <2>6
<1>2. BusInv => LiveStreamComplete
  BY <1>1 DEF LiveStreamComplete, Bus!LiveStreamComplete, From, Got
<1> QED
  BY <1>2, BusInductive, PTL

(***************************************************************************)
(* Every browser receives events in the order of their publication and     *)
(* never one twice, over its reconnections and over restarts.              *)
(***************************************************************************)
THEOREM BrowsersSeeEachOnce == Spec => InOrderOnce
<1> DEFINE Forward ==
             \A c \in Browser :
                 Bus!YieldReplay(c) \/ Bus!YieldLive(c) =>
                   \/ lastSeen'[c].epoch > lastSeen[c].epoch
                   \/ lastSeen'[c].id > lastSeen[c].id
<1>1. ASSUME BusInv, NEW c \in Browser, Bus!YieldReplay(c) \/ Bus!YieldLive(c)
      PROVE  \/ lastSeen'[c].epoch > lastSeen[c].epoch
             \/ lastSeen'[c].id > lastSeen[c].id
  <2>1. lastSeen[c].epoch = epoch => lastSeen[c].id < lastSeen'[c].id
    BY <1>1, YieldReplayKeeps, YieldLiveKeeps
  <2>2. PICK e : lastSeen' = [lastSeen EXCEPT ![c] = [epoch |-> epoch, id |-> e]]
    BY <1>1 DEF Bus!YieldReplay, Bus!YieldLive, Bus!Receive
  <2>3. /\ lastSeen'[c].epoch = epoch /\ epoch \in Nat
        /\ lastSeen[c].epoch \in Nat /\ lastSeen[c].epoch <= epoch /\ lastSeen[c].id \in Nat
    BY <1>1, <2>2 DEF BusInv, BusTypes, Follows, Seen
  <2>4. BusInv'
    BY <1>1, YieldReplayKeeps, YieldLiveKeeps
  <2>5. lastSeen'[c].id \in Nat
    BY <2>4 DEF BusInv, BusTypes
  <2> QED
    BY <2>1, <2>3, <2>5
<1>2. BusInv => [Forward]_Bus!vars
  BY <1>1
<1> QED
  BY <1>2, BusInductive, PTL DEF InOrderOnce, Bus!InOrderOnce

(***************************************************************************)
(* Whoever misses an event misses it because it had left the buffer, fell  *)
(* between replay and subscription, or met the full queue.                 *)
(***************************************************************************)
THEOREM GapsHaveReasons == Spec => GapsExplained
<1> DEFINE Reason(c, e) ==
             \/ e <= replayedTo[c] - ReplaySize
             \/ e > replayedTo[c] /\ e <= subscribedAt[c]
             \/ e \in dropped[c]
           Explained ==
             \A c \in Browser : \A e \in Bus!Event :
                 (/\ lastSeen'[c] # lastSeen[c]
                  /\ lastSeen[c].epoch = epoch
                  /\ lastSeen[c].id < e /\ e < lastSeen'[c].id)
                   => Reason(c, e)
<1>1. ASSUME BusInv, [Next]_vars, NEW c \in Browser, NEW e \in Nat,
             lastSeen'[c] # lastSeen[c], lastSeen[c].epoch = epoch,
             lastSeen[c].id < e, e < lastSeen'[c].id
      PROVE  Reason(c, e)
  <2>1. Bus!YieldReplay(c) \/ Bus!YieldLive(c)
    <3>1. Bus!Next
      BY <1>1, BusSteps DEF busVars
    <3>2. ASSUME NEW d \in Browser, Bus!YieldReplay(d) \/ Bus!YieldLive(d)  PROVE d = c
      BY <1>1, <3>2 DEF Bus!YieldReplay, Bus!YieldLive, Bus!Receive, BusInv, BusTypes
    <3>3. Bus!Publish \/ Bus!Restart => lastSeen' = lastSeen
      BY DEF Bus!Publish, Bus!Restart
    <3>4. ASSUME NEW d \in Browser,
                 Bus!Deliver(d) \/ Bus!Connect(d) \/ Bus!Subscribe(d) \/ Bus!Disconnect(d)
          PROVE  lastSeen' = lastSeen
      BY <3>4 DEF Bus!Deliver, Bus!Connect, Bus!Subscribe, Bus!Disconnect
    <3> QED
      BY <1>1, <3>1, <3>2, <3>3, <3>4 DEF Bus!Next, Bus!BrowserStep
  <2>2. /\ lastSeen[c].id \in Nat /\ replayedTo[c] \in Nat /\ subscribedAt[c] \in Nat
        /\ counter \in Nat /\ epoch \in Nat /\ replay[c] \in Seq(Nat) /\ queue[c] \in Seq(Nat)
        /\ Follows(c)
    BY <1>1 DEF BusInv, BusTypes
  <2>3. CASE Bus!YieldReplay(c)
    <3>1. conn[c] = "replaying" /\ replay[c] # << >> /\ lastSeen'[c].id = Head(replay[c])
      BY <1>1, <2>3 DEF Bus!YieldReplay, Bus!Receive, BusInv, BusTypes
    <3>2. Len(replay[c]) \in Nat \ {0} /\ Head(replay[c]) = replay[c][1]
          /\ 1 \in 1..Len(replay[c])
      BY <2>2, <3>1
    <3>3. ReplaySound(c)
      BY <2>2, <3>1 DEF Follows
    <3>4. replay[c][1] = replayedTo[c] - Len(replay[c]) + 1
      BY <3>2, <3>3 DEF ReplaySound
    <3>5. e <= replayedTo[c] - Len(replay[c])
      BY <1>1, <2>2, <3>1, <3>2, <3>4
    <3> QED
      BY <1>1, <3>3, <3>5 DEF ReplaySound
  <2>4. CASE Bus!YieldLive(c)
    <3>1. conn[c] = "live" /\ queue[c] # << >> /\ lastSeen'[c].id = Head(queue[c])
      BY <1>1, <2>4 DEF Bus!YieldLive, Bus!Receive, BusInv, BusTypes
    <3>2. /\ Len(queue[c]) \in Nat \ {0} /\ Head(queue[c]) = queue[c][1]
          /\ 1 \in 1..Len(queue[c])
      BY <2>2, <3>1
    <3>3. Live(c) /\ ReplaySound(c) /\ Got(c) = lastSeen[c].id
      BY <1>1, <2>2, <3>1 DEF Follows, Got
    <3>4. queue[c][1] \in Nat /\ queue[c][1] <= counter
      BY <2>2, <3>2, <3>3 DEF Live
    <3>5. ~ \E k \in 1..Len(queue[c]) : queue[c][k] = e
      <4>1. ASSUME NEW k \in 1..Len(queue[c]), queue[c][k] = e  PROVE FALSE
        <5>1. e < queue[c][1]
          BY <1>1, <3>1, <3>2
        <5>2. k = 1 \/ 1 < k
          OBVIOUS
        <5>3. 1 < k => queue[c][1] < queue[c][k]
          BY <3>2, <3>3 DEF Live
        <5> QED
          BY <3>4, <4>1, <5>1, <5>2, <5>3
      <4> QED
        BY <4>1
    <3>6. e < counter
      BY <1>1, <2>2, <3>1, <3>2, <3>4
    <3>7. From(c) < e => e \in dropped[c]
      BY <2>2, <3>3, <3>5, <3>6 DEF Live
    <3>8. CASE From(c) < e
      BY <3>7, <3>8
    <3>9. CASE ~(From(c) < e)
      <4>1. e <= subscribedAt[c]
        BY <1>1, <2>2, <3>3, <3>9 DEF From
      <4>2. CASE e > replayedTo[c]
        BY <4>1, <4>2
      <4>3. CASE ~(e > replayedTo[c])
        <5>1. replay[c] = << >> /\ Len(replay[c]) = 0
          BY <3>3 DEF Live
        <5>2. e <= replayedTo[c] - Len(replay[c])
          BY <2>2, <4>3, <5>1
        <5> QED
          BY <1>1, <3>3, <5>2 DEF ReplaySound
      <4> QED
        BY <4>2, <4>3
    <3> QED
      BY <3>8, <3>9
  <2> QED
    BY <2>1, <2>3, <2>4
<1>2. Bus!Event \subseteq Nat
  BY ServiceConstants DEF Bus!Event
<1>3. BusInv /\ [Next]_vars => [Explained]_Bus!vars
  BY <1>1, <1>2
<1> QED
  BY <1>3, BusInductive, PTL DEF Spec, GapsExplained, Bus!GapsExplained

(***************************************************************************)
(* The circuit breaker                                                     *)
(***************************************************************************)

LEMMA BreakerSteps == [Next]_vars => Circuit!Next \/ UNCHANGED breakerVars
  BY Zenon DEF Next, Only, vars

LEMMA BreakerLimits ==
    FailureThreshold \in Nat \ {0} /\ RecoveryTimeout \in Nat \ {0} /\ HalfOpenMaxCalls \in Nat \ {0}
  BY ServiceConstants

\* The breaker's own bookkeeping agrees with the history of reports: it never
\* believes the last failure to be older, or the failures to be fewer, than
\* they are, and it is half-open only when the service had its rest.
Bookkeeping ==
    /\ shared.sinceFailure <= rested
    /\ failures <= shared.failureCount
    /\ shared.state = "closed" => shared.failureCount < FailureThreshold
    /\ shared.state = "half_open" => rested >= RecoveryTimeout

\* Every probe that a half-open breaker has allowed is still in flight, or raised
\* since the breaker became half-open.
ProbesOut ==
    /\ IsFiniteSet(Circuit!InFlight)
    /\ shared.state = "half_open" =>
          \/ shared.halfOpenCalls <= Cardinality(Circuit!InFlight) + raised
          \/ raised >= HalfOpenMaxCalls

BreakerInv == Circuit!TypeOK /\ Bookkeeping

LEMMA BreakerInit == Init => BreakerInv /\ ProbesOut
<1> SUFFICES ASSUME Init  PROVE BreakerInv /\ ProbesOut
  OBVIOUS
<1>1. Circuit!Init
  BY Zenon DEF Init
<1>2. BreakerInv
  BY <1>1, BreakerLimits DEF Circuit!Init, BreakerInv, Circuit!TypeOK, Bookkeeping,
     Circuit!NewBreaker, Circuit!BreakerType, Circuit!BreakerState, Circuit!Breaker
<1>3. Circuit!InFlight = {}
  BY <1>1 DEF Circuit!Init, Circuit!InFlight
<1>4. shared.state = "closed"
  BY <1>1 DEF Circuit!Init, Circuit!NewBreaker, Circuit!Breaker
<1> QED
  BY <1>2, <1>3, <1>4, FS_EmptySet DEF ProbesOut

\* What a report or a question makes of the breaker, and that a call passes a
\* breaker that is not closed only after its rest.
LEMMA BreakerNext ==
    ASSUME BreakerInv, [Next]_vars
    PROVE  /\ BreakerInv'
           /\ \A c \in Caller :
                 (shared.state # "closed" /\ call[c] = "idle" /\ call'[c] = "calling")
                     => rested >= RecoveryTimeout
<1> USE BreakerLimits DEF BreakerInv, Circuit!TypeOK, Bookkeeping, Circuit!BreakerType,
        Circuit!BreakerState, Circuit!Saturate, Circuit!Breaker, Circuit!AfterFailure,
        Circuit!NoteState
<1>1. CASE Circuit!Tick
  BY <1>1 DEF Circuit!Tick, Circuit!Age
<1>2. CASE Circuit!Observe
  BY <1>2 DEF Circuit!Observe, Circuit!EvaluateState
<1>3. CASE Circuit!ManualReset
  BY <1>3 DEF Circuit!ManualReset, Circuit!Reset
<1>4. ASSUME NEW c \in Caller, Circuit!Admit(c)
      PROVE  BreakerInv' /\ (shared.state # "closed" => rested >= RecoveryTimeout)
  BY <1>4 DEF Circuit!Admit, Circuit!Allowed, Circuit!AllowRequest, Circuit!EvaluateState
<1>5. ASSUME NEW c \in Caller,
             Circuit!Refuse(c) \/ Circuit!Succeed(c) \/ Circuit!Fail(c) \/ Circuit!Abort(c)
      PROVE  BreakerInv' /\ \A d \in Caller : call[d] = "idle" => call'[d] = "idle"
  <2>1. CASE Circuit!Refuse(c)
    BY <2>1 DEF Circuit!Refuse, Circuit!Allowed, Circuit!AllowRequest, Circuit!EvaluateState
  <2>2. CASE Circuit!Succeed(c)
    BY <2>2 DEF Circuit!Succeed, Circuit!RecordSuccess
  <2>3. CASE Circuit!Fail(c)
    BY <2>3 DEF Circuit!Fail, Circuit!RecordFailure
  <2>4. CASE Circuit!Abort(c)
    BY <2>4 DEF Circuit!Abort
  <2> QED
    BY <1>5, <2>1, <2>2, <2>3, <2>4
<1>6. CASE UNCHANGED breakerVars
  BY <1>6 DEF breakerVars
<1> QED
  BY <1>1, <1>2, <1>3, <1>4, <1>5, <1>6, BreakerSteps
     DEF Circuit!Next, Circuit!CallerStep, Circuit!Report, Circuit!Tick, Circuit!Observe,
         Circuit!ManualReset

\* Who is in flight after a step of one caller.
LEMMA InFlightAfter ==
    ASSUME BreakerInv, ProbesOut, NEW c \in Caller, NEW at \in {"idle", "calling"},
           call' = [call EXCEPT ![c] = at]
    PROVE  /\ IsFiniteSet(Circuit!InFlight) /\ IsFiniteSet(Circuit!InFlight')
           /\ Cardinality(Circuit!InFlight) \in Nat
           /\ call[c] = "idle" /\ at = "calling" =>
                 Cardinality(Circuit!InFlight') = Cardinality(Circuit!InFlight) + 1
           /\ call[c] = "calling" /\ at = "idle" =>
                 Cardinality(Circuit!InFlight') = Cardinality(Circuit!InFlight) - 1
<1>1. call \in [Caller -> {"idle", "calling"}]
  BY DEF BreakerInv, Circuit!TypeOK
<1>2. IsFiniteSet(Circuit!InFlight)
  BY DEF ProbesOut
<1>3. at = "calling" => Circuit!InFlight' = Circuit!InFlight \cup {c}
  BY <1>1 DEF Circuit!InFlight
<1>4. at = "idle" => Circuit!InFlight' = Circuit!InFlight \ {c}
  BY <1>1 DEF Circuit!InFlight
<1>5. c \in Circuit!InFlight <=> call[c] = "calling"
  BY DEF Circuit!InFlight
<1>6. /\ IsFiniteSet(Circuit!InFlight \cup {c}) /\ IsFiniteSet(Circuit!InFlight \ {c})
      /\ Cardinality(Circuit!InFlight) \in Nat
      /\ c \notin Circuit!InFlight =>
            Cardinality(Circuit!InFlight \cup {c}) = Cardinality(Circuit!InFlight) + 1
      /\ c \in Circuit!InFlight =>
            Cardinality(Circuit!InFlight \ {c}) = Cardinality(Circuit!InFlight) - 1
  BY <1>2, FS_AddElement, FS_RemoveElement, FS_CardinalityType
<1> HIDE DEF Circuit!InFlight
<1>7. call[c] = "idle" => c \notin Circuit!InFlight
  BY <1>5
<1> QED
  BY <1>2, <1>3, <1>4, <1>5, <1>6, <1>7

LEMMA ProbesStayOut ==
    ASSUME BreakerInv, ProbesOut, [Next]_vars
    PROVE  ProbesOut'
<1> USE BreakerLimits DEF BreakerInv, Circuit!TypeOK, Circuit!BreakerType,
        Circuit!BreakerState, Circuit!Breaker, Circuit!NoteState, Circuit!Saturate
<1>1. /\ IsFiniteSet(Circuit!InFlight) /\ Cardinality(Circuit!InFlight) \in Nat
      /\ call' = call => Circuit!InFlight' = Circuit!InFlight
  BY FS_CardinalityType DEF ProbesOut, Circuit!InFlight
<1>2. CASE Circuit!Tick
  BY <1>1, <1>2 DEF Circuit!Tick, Circuit!Age, ProbesOut
<1>3. CASE Circuit!Observe
  BY <1>1, <1>3 DEF Circuit!Observe, Circuit!EvaluateState, ProbesOut
<1>4. CASE Circuit!ManualReset
  BY <1>1, <1>4 DEF Circuit!ManualReset, Circuit!Reset, ProbesOut
<1>5. ASSUME NEW c \in Caller, Circuit!CallerStep(c)  PROVE ProbesOut'
  <2>1. CASE Circuit!Admit(c)
    <3>1. /\ IsFiniteSet(Circuit!InFlight')
          /\ Cardinality(Circuit!InFlight') = Cardinality(Circuit!InFlight) + 1
      BY <2>1, InFlightAfter DEF Circuit!Admit
    <3> QED
      BY <1>1, <2>1, <3>1
         DEF Circuit!Admit, Circuit!Allowed, Circuit!AllowRequest, Circuit!EvaluateState, ProbesOut
  <2>2. CASE Circuit!Refuse(c)
    BY <1>1, <2>2 DEF Circuit!Refuse, Circuit!Allowed, Circuit!AllowRequest, Circuit!EvaluateState,
       ProbesOut
  <2>3. CASE Circuit!Succeed(c)
    <3>1. IsFiniteSet(Circuit!InFlight')
      BY <2>3, InFlightAfter DEF Circuit!Succeed
    <3>2. shared'.state # "half_open"
      BY <2>3 DEF Circuit!Succeed, Circuit!RecordSuccess
    <3> QED
      BY <3>1, <3>2 DEF ProbesOut
  <2>4. CASE Circuit!Fail(c)
    <3>1. IsFiniteSet(Circuit!InFlight')
      BY <2>4, InFlightAfter DEF Circuit!Fail
    <3>2. shared'.state # "half_open"
      BY <2>4 DEF Circuit!Fail, Circuit!RecordFailure, Circuit!AfterFailure
    <3> QED
      BY <3>1, <3>2 DEF ProbesOut
  <2>5. CASE Circuit!Abort(c)
    <3>1. /\ IsFiniteSet(Circuit!InFlight')
          /\ Cardinality(Circuit!InFlight') = Cardinality(Circuit!InFlight) - 1
      BY <2>5, InFlightAfter DEF Circuit!Abort
    <3> QED
      BY <1>1, <2>5, <3>1 DEF Circuit!Abort, ProbesOut
  <2> QED
    BY <1>5, <2>1, <2>2, <2>3, <2>4, <2>5 DEF Circuit!CallerStep, Circuit!Report
<1>6. CASE UNCHANGED breakerVars
  BY <1>1, <1>6 DEF breakerVars, ProbesOut
<1> QED
  BY <1>2, <1>3, <1>4, <1>5, <1>6, BreakerSteps DEF Circuit!Next

LEMMA BreakerInductive == Spec => [](BreakerInv /\ ProbesOut)
<1>1. BreakerInv /\ ProbesOut /\ [Next]_vars => (BreakerInv /\ ProbesOut)'
  BY BreakerNext, ProbesStayOut
<1> QED
  BY <1>1, BreakerInit, PTL DEF Spec

(***************************************************************************)
(* A closed breaker was never told of FailureThreshold failures in a row.  *)
(***************************************************************************)
THEOREM ClosedIsHealthy == Spec => []ClosedMeansHealthy
<1>1. BreakerInv => ClosedMeansHealthy
  BY BreakerLimits DEF BreakerInv, Circuit!TypeOK, Circuit!BreakerType, Bookkeeping,
     ClosedMeansHealthy, Circuit!ClosedMeansHealthy
<1> QED
  BY <1>1, BreakerInductive, PTL

(***************************************************************************)
(* No call reaches a failing service before it rested for the recovery     *)
(* timeout, whatever stragglers report meanwhile.                          *)
(***************************************************************************)
THEOREM FailingServiceRests == Spec => CallsHalted
<1>1. BreakerInv /\ [Next]_vars
        => [\A c \in Caller :
              (shared.state # "closed" /\ call[c] = "idle" /\ call'[c] = "calling")
                  => rested >= RecoveryTimeout]_Circuit!vars
  BY BreakerNext
<1> QED
  BY <1>1, BreakerInductive, PTL DEF Spec, CallsHalted, Circuit!CallsHalted

(***************************************************************************)
(* Unless as many calls raise in one half-open period as it allows probes, *)
(* the breaker is never stuck half-open: as long as it refuses requests, a *)
(* call is out whose report moves it on.                                   *)
(***************************************************************************)
THEOREM ReportingCallersDoNotWedge == Spec => []NoWedge
<1>1. ASSUME BreakerInv, ProbesOut  PROVE NoWedge
  <2>1. Circuit!InFlight = {} => Cardinality(Circuit!InFlight) = 0
    BY FS_EmptySet
  <2> QED
    BY <1>1, <2>1, BreakerLimits DEF ProbesOut, NoWedge, Circuit!NoWedge, Circuit!Allowed,
       Circuit!EvaluateState, BreakerInv, Circuit!TypeOK, Circuit!BreakerType
<1> QED
  BY <1>1, BreakerInductive, PTL
=============================================================================
