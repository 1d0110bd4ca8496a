------------------------ MODULE RequestFactoryProofs ------------------------
(***************************************************************************)
(* Machine-checked proofs about RequestFactory and CandleIngest, for every *)
(* horizon, size of days, chunks and pages, number of faults and set of    *)
(* requests: the tracker never runs ahead of the candles, every hole in    *)
(* them has a cause, and no request is sent twice without one.  Where      *)
(* pages reach from one chunk to the next, they cut none short.            *)
(***************************************************************************)
EXTENDS RequestFactory, TLAPS

LEMMA ConstantTypes ==
    /\ Horizon \in Nat \ {0} /\ Begin \in 1..Horizon /\ Day \in Nat \ {0}
    /\ ChunkDays \in Nat /\ Limit \in Nat \ {0} /\ Slack \in Nat \ {0}
    /\ BackfillSpan \in Nat /\ CatchUpSpan \in Nat /\ MaxFaults \in Nat /\ MinAdvance \in Nat
    /\ NoState \in Nat
  BY IngestConstants, FactoryConstants DEF NoState

LEMMA MoreTimes ==
    \A S, a, b : S \subseteq Nat /\ a \in Nat /\ b \in Int => S \union (a..b) \subseteq Nat
  OBVIOUS

(* Midnights, pairs and pages *)

LEMMA MinOfPair ==
    ASSUME NEW a \in Int, NEW b \in Int
    PROVE  Min({a, b}) = IF a <= b THEN a ELSE b
<1>1. \E x \in {a, b} : \A y \in {a, b} : x <= y
  <2>1. CASE a <= b
    BY <2>1
  <2>2. CASE ~(a <= b)
    BY <2>2
  <2> QED
    BY <2>1, <2>2
<1>2. Min({a, b}) \in {a, b} /\ \A y \in {a, b} : Min({a, b}) <= y
  BY <1>1 DEF Min
<1> QED
  BY <1>2

LEMMA MaxOfPair ==
    ASSUME NEW a \in Int, NEW b \in Int
    PROVE  Max({a, b}) = IF a >= b THEN a ELSE b
<1>1. \E x \in {a, b} : \A y \in {a, b} : x >= y
  <2>1. CASE a >= b
    BY <2>1
  <2>2. CASE ~(a >= b)
    BY <2>2
  <2> QED
    BY <2>1, <2>2
<1>2. Max({a, b}) \in {a, b} /\ \A y \in {a, b} : Max({a, b}) >= y
  BY <1>1 DEF Max
<1> QED
  BY <1>2

LEMMA MaxOfInterval ==
    ASSUME NEW a \in Int, NEW b \in Int, a <= b
    PROVE  Max(a..b) = b
<1>1. b \in a..b /\ \A y \in a..b : b >= y
  OBVIOUS
<1>2. Max(a..b) \in a..b /\ \A y \in a..b : Max(a..b) >= y
  BY <1>1 DEF Max
<1> QED
  BY <1>2

LEMMA Division ==
    ASSUME NEW a \in Nat, NEW d \in Nat \ {0}
    PROVE  \E q \in Int, r \in 0..(d - 1) : a = q * d + r /\ a - (a % d) = q * d
<1>1. a \div d \in Int /\ a % d \in 0..(d - 1)
  OBVIOUS
<1>2. a = (a \div d) * d + (a % d) /\ a - (a % d) = (a \div d) * d
  OBVIOUS
<1> QED
  BY <1>1, <1>2

\* A midnight is the last one before its candle.
LEMMA MidnightBounds ==
    ASSUME NEW t \in Nat
    PROVE  /\ Midnight(t) \in Nat /\ 1 <= Midnight(t)
           /\ t >= 1 => Midnight(t) <= t
           /\ t - Midnight(t) < Day
<1>1. t % Day \in 0..(Day - 1) /\ Day \in Nat
  BY ConstantTypes
<1> QED
  BY <1>1 DEF Midnight, AtLeastOne

\* k days later at most, midnight is at most k days later.
LEMMA MidnightLater ==
    ASSUME NEW t \in Nat \ {0}, NEW u \in Nat, t <= u, NEW k \in Nat, u <= t + k * Day
    PROVE  Midnight(t) <= Midnight(u) /\ Midnight(u) <= Midnight(t) + k * Day
<1>1. PICK q \in Int, r \in 0..(Day - 1) : t = q * Day + r /\ t - (t % Day) = q * Day
  BY Division, ConstantTypes
<1>2. PICK p \in Int, s \in 0..(Day - 1) : u = p * Day + s /\ u - (u % Day) = p * Day
  BY Division, ConstantTypes
<1> USE ConstantTypes
<1>3. q <= p
  <2>1. SUFFICES ASSUME p <= q - 1  PROVE FALSE
    BY <1>1, <1>2
  <2>2. p * Day <= (q - 1) * Day
    BY <2>1, SMT
  <2> QED
    BY <1>1, <1>2, <2>2
<1>4. p <= q + k
  <2>1. SUFFICES ASSUME q + k + 1 <= p  PROVE FALSE
    BY <1>1, <1>2
  <2>2. (q + k + 1) * Day <= p * Day
    BY <2>1, SMT
  <2> QED
    BY <1>1, <1>2, <2>2
<1>5. /\ q * Day <= p * Day /\ p * Day <= q * Day + k * Day /\ 0 <= k * Day
      /\ {q * Day, p * Day, k * Day} \subseteq Int
  BY <1>3, <1>4, SMT
<1>6. t - (t % Day) = q * Day /\ u - (u % Day) = p * Day
  BY <1>1, <1>2
<1>7. Midnight(t) = AtLeastOne(q * Day) /\ Midnight(u) = AtLeastOne(p * Day)
  BY <1>6 DEF Midnight
<1> QED
  BY <1>5, <1>7 DEF AtLeastOne

(* The inductive invariants *)

Chunking == pc \in {"chunk", "save_backfill", "report_backfill"}
Saving == pc \in {"save_backfill", "report_backfill", "save_catch_up", "report_catch_up"}

Stored == candles \union {NoState}

\* A chunk lies before the day the job began; what a job is about to save is a
\* candle it wrote; no time the tracker, the job or the factory knows is ahead
\* of the candles, nor are they ahead of the clock.
Order ==
    /\ Chunking => chunkStart \in 1..(endDate - 1) /\ endDate <= now
    /\ Saving => batchEnd \in candles
    /\ candles \subseteq 1..now
    /\ {last, served, endTime} \subseteq Stored
    /\ \A k \in IngestKey : tracker[k] \in Stored
    /\ \A e \in published : e[1] \in candles
    /\ endTime = NoState => toSend = {}

IInv == TypeOK /\ Order

\* What was passed over for a reason, and is not missed.
Passed == excused \union cut

\* Everything before candle t is stored or was passed over.
Covered(t) == 1..(t - 1) \subseteq candles \union Passed

\* What precedes a stored candle is covered, and so is what precedes the day
\* of the chunk to be fetched.
Gapless ==
    /\ \A c \in candles : Covered(c)
    /\ pc = "chunk" => Covered(Midnight(chunkStart))

\* No chunk has been cut short, nor does the page just written.
Uncut ==
    /\ cut = {}
    /\ pc \in {"save_backfill", "report_backfill"} /\ NextChunk < endDate =>
           Midnight(NextChunk) - 1 <= batchEnd

\* While its calls succeed, the factory has published nothing beyond the end
\* time it saved, but for the pair in its hands.
Idempotent ==
    ~lapsed =>
        /\ endTime # NoState => endTime > served
        /\ \A e \in published :
               e[1] <= served \/ (e[1] = endTime /\ e[2] \notin toSend)

(* What the steps compute *)

\* A page begins where it was asked for and ends at the present or at one of
\* its two limits.
LEMMA PageEnds ==
    ASSUME now \in Nat, NEW since \in Nat \ {0}, NEW until \in Nat, since <= until, since <= now
    PROVE  \E n \in since..now :
               /\ Page(since, until) = since..n
               /\ Max(Page(since, until)) = n
               /\ \A x \in Nat : x <= now /\ x < since + Limit /\ x < until + Slack => x <= n
<1> DEFINE limit == Min({Limit, until - since + Slack})
           n == Min({since + limit - 1, now})
<1>0. Limit \in Nat \ {0} /\ Slack \in Nat \ {0}
  BY ConstantTypes
<1>1. limit = IF Limit <= until - since + Slack THEN Limit ELSE until - since + Slack
  BY <1>0, MinOfPair
<1>2. limit \in Nat \ {0}
  BY <1>0, <1>1
<1>3. n = IF since + limit - 1 <= now THEN since + limit - 1 ELSE now
  <2> HIDE DEF limit
  <2> QED
    BY <1>2, MinOfPair
<1>4. Page(since, until) = since..n
  BY DEF Page
<1> HIDE DEF limit, n
<1>5. n \in since..now /\ Max(since..n) = n
  BY <1>2, <1>3, MaxOfInterval
<1>6. \A x \in Nat : x <= now /\ x < since + Limit /\ x < until + Slack => x <= n
  BY <1>0, <1>1, <1>2, <1>3
<1> QED
  BY <1>4, <1>5, <1>6

LEMMA ChunkBounds ==
    ASSUME IInv, Chunking
    PROVE  /\ {chunkStart, endDate, now, ChunkEnd, NextChunk} \subseteq Nat \ {0}
           /\ chunkStart <= ChunkEnd /\ ChunkEnd < endDate /\ endDate <= now
           /\ ChunkEnd <= chunkStart + ChunkDays * Day
           /\ NextChunk = ChunkEnd + Day
<1>1. /\ chunkStart \in 1..(endDate - 1) /\ endDate \in Nat /\ endDate <= now
      /\ now \in Nat /\ ChunkDays * Day \in Nat /\ Day \in Nat
  BY ConstantTypes DEF IInv, TypeOK, Order, Candle
<1>2. ChunkEnd = IF chunkStart + ChunkDays * Day <= endDate - 1
                 THEN chunkStart + ChunkDays * Day ELSE endDate - 1
  BY <1>1, MinOfPair DEF ChunkEnd
<1>3. NextChunk = ChunkEnd + Day
  BY DEF NextChunk
<1> QED
  BY <1>1, <1>2, <1>3

\* A chunk's page is what WriteChunk stores.
LEMMA ChunkPage ==
    ASSUME IInv, Chunking
    PROVE  \E n \in Midnight(chunkStart)..now :
               LET page == Page(Midnight(chunkStart), Midnight(ChunkEnd))
               IN  /\ page = Midnight(chunkStart)..n
                   /\ Max(page) = n
                   /\ \A x \in Nat : /\ x <= now
                                      /\ x < Midnight(chunkStart) + Limit
                                      /\ x < Midnight(ChunkEnd) + Slack
                                      => x <= n
<1>1. Midnight(chunkStart) \in Nat \ {0} /\ Midnight(chunkStart) <= chunkStart
  BY ChunkBounds, MidnightBounds
<1>2. Midnight(ChunkEnd) \in Nat /\ Midnight(chunkStart) <= Midnight(ChunkEnd)
  <2>1. /\ chunkStart \in Nat \ {0} /\ ChunkEnd \in Nat /\ ChunkDays \in Nat
        /\ chunkStart <= ChunkEnd /\ ChunkEnd <= chunkStart + ChunkDays * Day
    BY ChunkBounds, ConstantTypes
  <2>2. Midnight(chunkStart) <= Midnight(ChunkEnd)
    BY <2>1, MidnightLater
  <2> QED
    BY <2>1, <2>2, MidnightBounds
<1>3. now \in Nat /\ Midnight(chunkStart) <= now
  BY <1>1, ChunkBounds
<1> QED
  BY <1>1, <1>2, <1>3, PageEnds

\* A backfill of a chunk that starts before today's midnight.
LEMMA ChunkOrder ==
    ASSUME NEW start \in Nat \ {0}, NEW end \in Nat, end <= now, ChunkOrCatchUp(start, end)
    PROVE  /\ pc' \in {"chunk", "catch_up"}
           /\ chunkStart' \in Nat /\ endDate' \in Nat
           /\ pc' = "chunk" => chunkStart' = start /\ start \in 1..(endDate' - 1) /\ endDate' <= now
  BY DEF ChunkOrCatchUp

LEMMA KnownStored ==
    ASSUME IInv, NEW seen \in Answers
    PROVE  /\ seen["catch_up"] \in Stored /\ seen["backfill"] \in Stored
           /\ Known(seen) \in Stored /\ Known(tracker) \in Stored
  BY DEF IInv, TypeOK, Order, Answers, MaybeLost, Known, Stored, IngestKey

(* Types, and the order of times *)

LEMMA InitInv == SystemInit => IInv
<1> SUFFICES ASSUME SystemInit  PROVE IInv
  OBVIOUS
<1> USE ConstantTypes DEF SystemInit, Init, FactoryInit
<1>1. TypeOK
  <2>1. now \in Candle /\ faults \in 0..MaxFaults /\ tracker \in [IngestKey -> Candle \union {NoState}]
    BY DEF Candle, IngestKey
  <2> QED
    BY <2>1 DEF TypeOK, NoState
<1>2. Order
  BY DEF Order, Stored, Chunking, Saving
<1> QED
  BY <1>1, <1>2 DEF IInv

\* What a step of the job must leave behind.
LEMMA JobFrame ==
    ASSUME IInv, now' = now, faults' \in Nat, faults' <= MaxFaults, UNCHANGED factoryVars,
           pc' \in {"idle", "chunk", "save_backfill", "report_backfill",
                    "catch_up", "save_catch_up", "report_catch_up"},
           chunkStart' \in Nat, endDate' \in Nat, batchEnd' \in Nat,
           excused' \subseteq Nat, cut' \subseteq Nat,
           candles \subseteq candles', candles' \subseteq 1..now,
           last' \in Stored', tracker' \in [IngestKey -> Stored'],
           Chunking' => chunkStart' \in 1..(endDate' - 1) /\ endDate' <= now,
           Saving' => batchEnd' \in candles'
    PROVE  IInv'
<1>1. now \in Nat /\ now <= Horizon /\ MaxFaults \in Nat /\ Horizon \in Nat
  BY ConstantTypes DEF IInv, TypeOK, Candle
<1>2. Stored \subseteq Stored' /\ Stored' \subseteq Candle \union {NoState}
  <2>1. candles' \subseteq Candle
    BY <1>1 DEF Candle
  <2> QED
    BY <2>1, Zenon DEF Stored
<1>3. TypeOK'
  <2>1. {served, endTime} \subseteq Candle \union {NoState} /\ toSend \subseteq Request
        /\ published \subseteq Candle \X Request /\ lapsed \in BOOLEAN /\ now \in Candle
    BY DEF IInv, TypeOK
  <2>2. tracker' \in [IngestKey -> Candle \union {NoState}]
    BY <1>2
  <2> QED
    BY <1>1, <1>2, <2>1, <2>2 DEF TypeOK, factoryVars, Candle
<1>4. Order'
  <2>1. \A k \in IngestKey : tracker'[k] \in Stored'
    OBVIOUS
  <2>2. {served, endTime} \subseteq Stored /\ (endTime = NoState => toSend = {})
        /\ \A e \in published : e[1] \in candles
    BY DEF IInv, Order
  <2> QED
    BY <1>1, <1>2, <2>1, <2>2 DEF Order, factoryVars
<1> QED
  BY <1>3, <1>4 DEF IInv

LEMMA StartBackfillInv ==
    ASSUME IInv, StartBackfill, faults' <= MaxFaults, UNCHANGED factoryVars
    PROVE  IInv'
<1>1. PICK db \in MaybeLost(tracker["backfill"]) :
        /\ ReadFault(tracker["backfill"], db)
        /\ ChunkOrCatchUp(Max({Earliest, db + 1}), Midnight(now))
  BY DEF StartBackfill
<1>2. tracker["backfill"] \in Nat /\ db \in Nat /\ now \in Nat \ {0} /\ faults \in Nat
  BY ConstantTypes DEF IInv, TypeOK, IngestKey, Candle, MaybeLost
<1>3. Earliest \in Nat \ {0}
  BY <1>2, ConstantTypes DEF Earliest, AtLeastOne
<1>4. Max({Earliest, db + 1}) \in Nat \ {0}
  BY <1>2, <1>3, MaxOfPair
<1>5. Midnight(now) \in Nat /\ Midnight(now) <= now
  BY <1>2, MidnightBounds
<1>6. /\ pc' \in {"chunk", "catch_up"}
      /\ chunkStart' \in Nat /\ endDate' \in Nat
      /\ pc' = "chunk" => chunkStart' \in 1..(endDate' - 1) /\ endDate' <= now
  BY <1>1, <1>4, <1>5, ChunkOrder
<1>7. excused' \subseteq Nat
  <2>1. excused' = excused \union ((tracker["backfill"] + 1)..(Earliest - 1)) /\ excused \subseteq Nat
    BY DEF StartBackfill, IInv, TypeOK
  <2>2. PICK a \in Nat, b \in Int : a = tracker["backfill"] + 1 /\ b = Earliest - 1
    BY <1>2, <1>3
  <2>3. excused' = excused \union (a..b)
    BY <2>1, <2>2, Zenon
  <2> QED
    BY <2>1, <2>3, MoreTimes
<1>8. faults' \in Nat
  BY <1>1, <1>2 DEF ReadFault
<1>9. /\ now' = now /\ tracker' = tracker /\ candles' = candles /\ batchEnd' = batchEnd
      /\ last' = NoState /\ cut' = cut
  BY DEF StartBackfill
<1>10. /\ batchEnd \in Nat /\ candles \subseteq 1..now /\ tracker \in [IngestKey -> Stored]
       /\ cut \subseteq Nat
  BY DEF IInv, TypeOK, Order
<1>11. Stored' = Stored /\ NoState \in Stored
  BY <1>9 DEF Stored
<1>12. (Chunking' => pc' = "chunk") /\ ~Saving'
  BY <1>6 DEF Chunking, Saving
<1> QED
  BY <1>6, <1>7, <1>8, <1>9, <1>10, <1>11, <1>12, JobFrame

LEMMA StartCatchUpInv ==
    ASSUME IInv, StartCatchUp, faults' <= MaxFaults, UNCHANGED factoryVars
    PROVE  IInv'
<1>1. PICK seen \in Answers :
        /\ ReadFault(tracker, seen)
        /\ last' = IF seen["catch_up"] # NoState THEN seen["catch_up"] ELSE seen["backfill"]
  BY DEF StartCatchUp
<1>2. /\ pc' = "catch_up" /\ now' = now
      /\ UNCHANGED <<tracker, candles, chunkStart, endDate, batchEnd, excused, cut>>
  BY DEF StartCatchUp
<1>3. /\ faults \in Nat /\ {chunkStart, endDate, batchEnd} \subseteq Nat /\ excused \subseteq Nat
      /\ cut \subseteq Nat /\ candles \subseteq 1..now /\ tracker \in [IngestKey -> Stored]
  BY DEF IInv, TypeOK, Order
<1>4. last' \in Stored /\ Stored' = Stored
  BY <1>1, <1>2, KnownStored DEF Stored
<1>5. faults' \in Nat
  BY <1>1, <1>3 DEF ReadFault
<1>6. ~Chunking' /\ ~Saving'
  BY <1>2 DEF Chunking, Saving
<1> QED
  BY <1>2, <1>3, <1>4, <1>5, <1>6, JobFrame

LEMMA WriteChunkInv ==
    ASSUME IInv, WriteChunk, faults' <= MaxFaults, UNCHANGED factoryVars
    PROVE  IInv'
<1> DEFINE page == Page(Midnight(chunkStart), Midnight(ChunkEnd))
<1>1. Chunking
  BY DEF WriteChunk, Chunking
<1>2. PICK n \in Midnight(chunkStart)..now : page = Midnight(chunkStart)..n /\ Max(page) = n
  BY <1>1, ChunkPage
<1>3. Midnight(chunkStart) \in Nat \ {0} /\ now \in Nat
  BY <1>1, ChunkBounds, MidnightBounds
<1>4. /\ candles' = candles \union (Midnight(chunkStart)..n) /\ batchEnd' = n
      /\ pc' = "save_backfill" /\ now' = now /\ faults' = faults
      /\ UNCHANGED <<tracker, chunkStart, endDate, last, excused, cut>>
  BY <1>2 DEF WriteChunk
<1>5. /\ faults \in Nat /\ {chunkStart, endDate} \subseteq Nat /\ excused \subseteq Nat /\ cut \subseteq Nat
      /\ candles \subseteq 1..now /\ tracker \in [IngestKey -> Stored] /\ last \in Stored
      /\ chunkStart \in 1..(endDate - 1) /\ endDate <= now
  BY <1>1 DEF IInv, TypeOK, Order
<1>6. n \in candles' /\ n \in Nat /\ candles' \subseteq 1..now /\ Stored \subseteq Stored'
  <2>1. n \in Nat /\ n \in Midnight(chunkStart)..n /\ (Midnight(chunkStart)..n) \subseteq 1..now
    BY <1>2, <1>3
  <2> QED
    BY <1>4, <1>5, <2>1, Zenon DEF Stored
<1>7. tracker' \in [IngestKey -> Stored'] /\ last' \in Stored'
  BY <1>4, <1>5, <1>6
<1> QED
  BY <1>4, <1>5, <1>6, <1>7, JobFrame

LEMMA LoseChunkInv ==
    ASSUME IInv, LoseChunk, faults' <= MaxFaults, UNCHANGED factoryVars
    PROVE  IInv'
<1>1. Chunking /\ ChunkOrCatchUp(NextChunk, endDate)
  BY DEF LoseChunk, Chunking
<1>2. /\ NextChunk \in Nat \ {0} /\ endDate \in Nat /\ endDate <= now
      /\ Midnight(chunkStart) \in Nat
  BY <1>1, ChunkBounds, MidnightBounds
<1>3. /\ pc' \in {"chunk", "catch_up"}
      /\ chunkStart' \in Nat /\ endDate' \in Nat
      /\ pc' = "chunk" => chunkStart' \in 1..(endDate' - 1) /\ endDate' <= now
  BY <1>1, <1>2, ChunkOrder
<1>4. /\ faults \in Nat /\ batchEnd \in Nat /\ excused \subseteq Nat /\ cut \subseteq Nat
      /\ candles \subseteq 1..now /\ tracker \in [IngestKey -> Stored] /\ last \in Stored
  BY DEF IInv, TypeOK, Order
<1>5. /\ excused' = excused \union (Midnight(chunkStart)..(NextChunk - 1)) /\ faults' = faults + 1
      /\ now' = now /\ tracker' = tracker /\ candles' = candles /\ last' = last /\ batchEnd' = batchEnd
      /\ cut' = cut
  BY DEF LoseChunk
<1>6. (Chunking' => pc' = "chunk") /\ ~Saving' /\ Stored' = Stored
  BY <1>3, <1>5 DEF Chunking, Saving, Stored
<1>7. excused' \subseteq Nat /\ faults' \in Nat
  <2>1. NextChunk - 1 \in Int /\ Midnight(chunkStart) \in Nat /\ excused \subseteq Nat
    BY <1>2, <1>4
  <2>2. excused' \subseteq Nat
    BY <1>5, <2>1, MoreTimes
  <2> QED
    BY <1>4, <1>5, <2>2
<1> QED
  BY <1>3, <1>4, <1>5, <1>6, <1>7, JobFrame

\* A catch-up writes what lies between its start and the end of its page.
LEMMA CatchUpPage ==
    ASSUME IInv, WriteCatchUp
    PROVE  \E seen \in CatchUpAnswers :
               /\ Known(seen) \in Stored /\ Known(tracker) \in Stored
               /\ ReadFault(tracker, seen)
               /\ \E n \in CatchUpStart(Known(seen))..now :
                      /\ CatchUpStart(Known(seen)) \in Nat \ {0}
                      /\ candles' = candles \union (CatchUpStart(Known(seen))..n)
                      /\ batchEnd' = n
                      /\ last' = n
               /\ excused' = IF Known(seen) \in {Known(tracker)} \ {NoState} THEN excused
                             ELSE excused \union ((Known(tracker) + 1)..(CatchUpStart(Known(seen)) - 1))
<1>1. PICK seen \in CatchUpAnswers :
        /\ ReadFault(tracker, seen)
        /\ LET start == CatchUpStart(Known(seen))
               page  == Page(start, now)
           IN  /\ start <= now
               /\ candles' = candles \union page
               /\ batchEnd' = Max(page)
               /\ last' = Max(page)
               /\ excused' = IF Known(seen) \in {Known(tracker)} \ {NoState} THEN excused
                             ELSE excused \union ((Known(tracker) + 1)..(start - 1))
  BY DEF WriteCatchUp
<1> DEFINE start == CatchUpStart(Known(seen))
<1>2. seen \in Answers
  BY DEF CatchUpAnswers, Answers, MaybeLost, IInv, TypeOK, IngestKey
<1>3. Known(seen) \in Stored /\ Known(tracker) \in Stored
  BY <1>2, KnownStored
<1>4. Known(seen) \in Nat /\ now \in Nat
  <2>1. candles \subseteq Nat /\ now \in Nat
    BY DEF IInv, TypeOK, Candle
  <2> QED
    BY <1>3, <2>1, ConstantTypes DEF Stored
<1>5. start \in Nat \ {0}
  BY <1>4, ConstantTypes DEF CatchUpStart, AtLeastOne
<1>6. PICK n \in start..now : Page(start, now) = start..n /\ Max(Page(start, now)) = n
  BY <1>1, <1>4, <1>5, PageEnds
<1>7. n \in start..now /\ candles' = candles \union (start..n) /\ batchEnd' = n /\ last' = n
  BY <1>1, <1>6
<1> QED
  BY <1>1, <1>3, <1>5, <1>7

LEMMA WriteCatchUpInv ==
    ASSUME IInv, WriteCatchUp, faults' <= MaxFaults, UNCHANGED factoryVars
    PROVE  IInv'
<1>1. PICK seen \in CatchUpAnswers :
         /\ Known(seen) \in Stored /\ Known(tracker) \in Stored
         /\ ReadFault(tracker, seen)
         /\ \E n \in CatchUpStart(Known(seen))..now :
                /\ CatchUpStart(Known(seen)) \in Nat \ {0}
                /\ candles' = candles \union (CatchUpStart(Known(seen))..n)
                /\ batchEnd' = n
                /\ last' = n
         /\ excused' = IF Known(seen) \in {Known(tracker)} \ {NoState} THEN excused
                       ELSE excused \union ((Known(tracker) + 1)..(CatchUpStart(Known(seen)) - 1))
  BY CatchUpPage
<1> DEFINE start == CatchUpStart(Known(seen))
<1>2. PICK n \in start..now : /\ start \in Nat \ {0}
                              /\ candles' = candles \union (start..n) /\ batchEnd' = n /\ last' = n
  BY <1>1
<1>3. /\ faults \in Nat /\ {chunkStart, endDate} \subseteq Nat /\ excused \subseteq Nat /\ cut \subseteq Nat
      /\ candles \subseteq 1..now /\ tracker \in [IngestKey -> Stored] /\ now \in Nat
  BY DEF IInv, TypeOK, Order, Candle
<1>4. /\ pc' = "save_catch_up" /\ now' = now
      /\ UNCHANGED <<tracker, chunkStart, endDate, cut>>
  BY DEF WriteCatchUp
<1>5. Known(tracker) \in Nat
  <2>1. candles \subseteq Nat
    BY DEF IInv, TypeOK, Candle
  <2> QED
    BY <1>1, <2>1, ConstantTypes, Zenon DEF Stored
<1> HIDE DEF start
<1>6. excused' \subseteq Nat
  <2>1. \/ excused' = excused
        \/ excused' = excused \union ((Known(tracker) + 1)..(start - 1))
    BY <1>1, Zenon DEF start
  <2>2. PICK a \in Nat, b \in Int : a = Known(tracker) + 1 /\ b = start - 1
    BY <1>2, <1>5
  <2>3. excused' = excused \/ excused' = excused \union (a..b)
    BY <2>1, <2>2, Zenon
  <2> QED
    BY <1>3, <2>3, MoreTimes
<1>7. n \in candles' /\ n \in Nat /\ candles' \subseteq 1..now /\ Stored \subseteq Stored'
  BY <1>2, <1>3 DEF Stored
<1>8. tracker' \in [IngestKey -> Stored'] /\ last' \in Stored'
  BY <1>2, <1>3, <1>4, <1>7 DEF Stored
<1>9. faults' \in Nat
  BY <1>1, <1>3 DEF ReadFault
<1>10. ~Chunking'
  BY <1>4 DEF Chunking
<1> QED
  BY <1>2, <1>3, <1>4, <1>6, <1>7, <1>8, <1>9, <1>10, JobFrame

\* The job ends.
LEMMA EndInv ==
    ASSUME IInv, EndJob, now' = now, UNCHANGED <<candles, excused>>,
           cut' \subseteq Nat, tracker' \in [IngestKey -> Stored],
           faults' \in Nat, faults' <= MaxFaults, UNCHANGED factoryVars
    PROVE  IInv'
<1>1. /\ pc' = "idle" /\ chunkStart' = 0 /\ endDate' = 0 /\ last' = NoState /\ batchEnd' = 0
  BY DEF EndJob
<1>2. excused \subseteq Nat /\ candles \subseteq 1..now
  BY DEF IInv, TypeOK, Order
<1>3. Stored' = Stored /\ NoState \in Stored /\ ~Chunking' /\ ~Saving'
  BY <1>1 DEF Stored, Chunking, Saving
<1> QED
  BY <1>1, <1>2, <1>3, JobFrame

LEMMA SaveStateInv ==
    ASSUME IInv, SaveState, faults' <= MaxFaults, UNCHANGED factoryVars
    PROVE  IInv'
<1>1. Saving /\ batchEnd \in Stored /\ tracker \in [IngestKey -> Stored] /\ faults \in Nat
  BY DEF SaveState, Saving, IInv, TypeOK, Order, Stored
<1>2. tracker' \in [IngestKey -> Stored] /\ faults' \in Nat
  BY <1>1 DEF SaveState, Save, IngestKey
<1>3. /\ pc' \in {"report_backfill", "report_catch_up"} /\ now' = now
      /\ UNCHANGED <<candles, chunkStart, endDate, last, batchEnd, excused, cut>>
      /\ Chunking' = Chunking
  BY DEF SaveState, Chunking
<1>4. /\ {chunkStart, endDate, batchEnd} \subseteq Nat /\ excused \subseteq Nat /\ cut \subseteq Nat
      /\ candles \subseteq 1..now /\ last \in Stored
      /\ Chunking => chunkStart \in 1..(endDate - 1) /\ endDate <= now
      /\ batchEnd \in candles
  BY <1>1 DEF IInv, TypeOK, Order
<1>5. Stored' = Stored
  BY <1>3 DEF Stored
<1> QED
  BY <1>2, <1>3, <1>4, <1>5, JobFrame

LEMMA ReportGlobalInv ==
    ASSUME IInv, ReportGlobal, faults' <= MaxFaults, UNCHANGED factoryVars
    PROVE  IInv'
<1>1. Saving /\ batchEnd \in Stored /\ tracker \in [IngestKey -> Stored] /\ faults \in Nat
  BY DEF ReportGlobal, Saving, IInv, TypeOK, Order, Stored
<1>2. tracker' \in [IngestKey -> Stored] /\ faults' \in Nat
  BY <1>1 DEF ReportGlobal, Save, IngestKey
<1>3. UNCHANGED <<candles, excused>> /\ now' = now
  BY DEF ReportGlobal
<1>4. cut' \subseteq Nat
  <2>1. cut \subseteq Nat /\ batchEnd \in Nat
    BY DEF IInv, TypeOK
  <2>2. CASE UNCHANGED cut
    BY <2>1, <2>2
  <2>3. CASE Chunking /\ cut' = cut \union BeyondPage
    <3>1. NextChunk \in Nat \ {0}
      BY <2>3, ChunkBounds
    <3>2. Midnight(NextChunk) \in Nat
      BY <3>1, MidnightBounds
    <3>3. batchEnd + 1 \in Nat
      BY <2>1
    <3>4. Midnight(NextChunk) - 1 \in Int
      BY <3>2
    <3>5. cut \union ((batchEnd + 1)..(Midnight(NextChunk) - 1)) \subseteq Nat
      BY <2>1, <3>3, <3>4, MoreTimes
    <3>6. \/ cut' = cut
          \/ cut' = cut \union ((batchEnd + 1)..(Midnight(NextChunk) - 1))
      BY <2>3 DEF BeyondPage
    <3> QED
      BY <2>1, <3>5, <3>6, Zenon
  <2> QED
    BY <2>2, <2>3 DEF ReportGlobal, Chunking
<1>5. CASE EndJob
  BY <1>2, <1>3, <1>4, <1>5, EndInv
<1>6. CASE ~EndJob
  <2>1. /\ Chunking /\ ChunkOrCatchUp(NextChunk, endDate) /\ last' = batchEnd /\ batchEnd' = 0
    BY <1>6 DEF ReportGlobal, Chunking
  <2>2. NextChunk \in Nat \ {0} /\ endDate \in Nat /\ endDate <= now
    BY <2>1, ChunkBounds
  <2>3. /\ pc' \in {"chunk", "catch_up"}
        /\ chunkStart' \in Nat /\ endDate' \in Nat
        /\ pc' = "chunk" => chunkStart' \in 1..(endDate' - 1) /\ endDate' <= now
    BY <2>1, <2>2, ChunkOrder
  <2>4. excused \subseteq Nat /\ candles \subseteq 1..now
    BY DEF IInv, TypeOK, Order
  <2>5. (Chunking' => pc' = "chunk") /\ ~Saving' /\ Stored' = Stored
    BY <1>3, <2>3 DEF Chunking, Saving, Stored
  <2> QED
    BY <1>1, <1>2, <1>3, <1>4, <2>1, <2>3, <2>4, <2>5, JobFrame
<1> QED
  BY <1>5, <1>6

LEMMA JobInv ==
    ASSUME IInv, JobStep, faults' <= MaxFaults, UNCHANGED factoryVars
    PROVE  IInv'
<1>1. faults \in Nat /\ cut \subseteq Nat /\ tracker \in [IngestKey -> Stored]
  BY DEF IInv, TypeOK, Order
<1>2. CASE SkipCatchUp \/ CrashJob
  <2>1. EndJob /\ now' = now /\ UNCHANGED <<tracker, candles, excused>> /\ faults' \in Nat
        /\ cut' = cut
    BY <1>1, <1>2 DEF SkipCatchUp, CrashJob
  <2> QED
    BY <1>1, <2>1, EndInv
<1> QED
  BY <1>2, StartBackfillInv, StartCatchUpInv, WriteChunkInv, LoseChunkInv, WriteCatchUpInv,
     SaveStateInv, ReportGlobalInv DEF JobStep

LEMMA FactoryInv ==
    ASSUME IInv, FactoryStep, faults' <= MaxFaults
    PROVE  IInv'
<1> USE DEF IInv, TypeOK, Order, Stored, Chunking, Saving, ingestVars, jobVars, factoryVars
<1>1. CASE ReadTimes
  BY <1>1 DEF ReadTimes, ReadFault, IngestKey
<1>2. ASSUME NEW r \in Request, Publish(r)  PROVE IInv'
  BY <1>2 DEF Publish, NoState
<1>3. CASE SaveServed
  <2>1. /\ now' = now /\ candles' = candles /\ tracker' = tracker /\ toSend' = {}
        /\ served' \in {served, endTime} /\ endTime' = NoState
        /\ faults' \in {faults, faults + 1} /\ lapsed' \in {lapsed, TRUE}
        /\ UNCHANGED <<pc, chunkStart, endDate, last, batchEnd, excused, cut, published>>
    BY <1>3 DEF SaveServed
  <2>2. TypeOK'
    <3>1. faults' \in 0..MaxFaults
      BY <2>1, ConstantTypes
    <3> QED
      BY <2>1, <3>1 DEF NoState
  <2>3. Order'
    BY <2>1
  <2> QED
    BY <2>2, <2>3
<1>4. CASE CrashFactory
  BY <1>4 DEF CrashFactory
<1> QED
  BY <1>1, <1>2, <1>3, <1>4 DEF FactoryStep

LEMMA NextInv == IInv /\ [Next]_allVars => IInv'
<1> SUFFICES ASSUME IInv, [Next]_allVars  PROVE IInv'
  OBVIOUS
<1>1. CASE Ingest
  BY <1>1, JobInv DEF Ingest
<1>2. CASE Discover
  BY <1>2, FactoryInv DEF Discover
<1>3. CASE Clock
  <2>1. /\ now \in 1..Horizon /\ now < Horizon /\ now' = now + 1 /\ Horizon \in Nat
        /\ UNCHANGED <<tracker, faults, candles, pc, chunkStart, endDate, last, batchEnd, excused, cut>>
        /\ UNCHANGED <<served, endTime, toSend, published, lapsed>>
    BY <1>3, ConstantTypes DEF Clock, Tick, IInv, TypeOK, Candle, ingestVars, jobVars, factoryVars
  <2>2. TypeOK'
    BY <2>1 DEF IInv, TypeOK, Candle
  <2>3. Order'
    <3>1. candles' \subseteq 1..now' /\ (Chunking => endDate \in Int /\ endDate <= now')
      BY <2>1 DEF IInv, TypeOK, Order
    <3> QED
      BY <2>1, <3>1 DEF IInv, Order, Stored, Chunking, Saving
  <2> QED
    BY <2>2, <2>3 DEF IInv
<1>4. CASE UNCHANGED allVars
  BY <1>4 DEF allVars, vars, IInv, TypeOK, Order, Stored, Chunking, Saving,
              ingestVars, jobVars, factoryVars
<1> QED
  BY <1>1, <1>2, <1>3, <1>4 DEF Next

LEMMA Inductive == Spec => []IInv
  BY InitInv, NextInv, PTL DEF Spec

(***************************************************************************)
(* Type correctness, and with it that every time is one the clock reached. *)
(***************************************************************************)
THEOREM TypeCorrect == Spec => []TypeOK
<1>1. IInv => TypeOK
  BY DEF IInv
<1> QED
  BY <1>1, Inductive, PTL

(***************************************************************************)
(* The tracker never runs ahead of the candles in InfluxDB, and every      *)
(* window a strategy search is asked for ends in one of them, however      *)
(* calls fail and jobs die.                                                *)
(***************************************************************************)
THEOREM NeverAhead == Spec => []EndsStored
<1>1. IInv => EndsStored
  BY DEF IInv, Order, Stored, EndsStored
<1> QED
  BY <1>1, Inductive, PTL

(* Idempotency of the factory *)

LEMMA InitIdempotent == SystemInit => Idempotent
  BY DEF SystemInit, FactoryInit, Idempotent

LEMMA IdempotentInv ==
    ASSUME MinAdvance > 0, IInv, Idempotent, [Next]_allVars
    PROVE  Idempotent'
<1>1. /\ served \in Nat /\ endTime \in Nat /\ candles \subseteq Nat \ {0} /\ NoState = 0
      /\ tracker["global"] \in Nat
  BY DEF IInv, TypeOK, Candle, NoState, IngestKey
<1>2. \A e \in published : e[1] \in candles
  BY DEF IInv, Order
<1>3. CASE ReadTimes
  <2>1. PICK done \in MaybeLost(served) :
          /\ lapsed' = (lapsed \/ done # served)
          /\ tracker["global"] # NoState
          /\ Advanced(tracker["global"], done)
          /\ endTime' = tracker["global"]
    BY <1>3 DEF ReadTimes
  <2>2. ~lapsed' => ~lapsed /\ done = served
    BY <2>1
  <2>3. ~lapsed' => endTime' > served
    BY <1>1, <2>1, <2>2, ConstantTypes DEF Advanced
  <2>4. endTime = NoState /\ served' = served /\ published' = published
    BY <1>3 DEF ReadTimes
  <2>5. ASSUME ~lapsed', NEW e \in published  PROVE e[1] <= served
    BY <1>1, <1>2, <2>2, <2>4, <2>5 DEF Idempotent
  <2> QED
    BY <2>3, <2>4, <2>5 DEF Idempotent
<1>4. ASSUME NEW r \in Request, Publish(r)  PROVE Idempotent'
  <2>1. /\ toSend' = toSend \ {r} /\ r \in toSend /\ UNCHANGED <<served, endTime, lapsed>>
        /\ published' \in {published, published \union {<<endTime, r>>}}
    BY <1>4 DEF Publish
  <2>2. SUFFICES ASSUME ~lapsed, NEW e \in published'
                 PROVE  e[1] <= served \/ (e[1] = endTime /\ e[2] \notin toSend')
    BY <2>1 DEF Idempotent
  <2>3. CASE e \in published
    BY <2>1, <2>2, <2>3 DEF Idempotent
  <2>4. CASE e = <<endTime, r>>
    BY <2>1, <2>4
  <2> QED
    BY <2>1, <2>2, <2>3, <2>4
<1>5. CASE SaveServed
  <2>1. /\ endTime # NoState /\ toSend = {} /\ endTime' = NoState /\ published' = published
        /\ (served' = endTime /\ lapsed' = lapsed) \/ lapsed' = TRUE
    BY <1>5 DEF SaveServed
  <2>2. SUFFICES ASSUME ~lapsed', NEW e \in published  PROVE e[1] <= served'
    BY <2>1 DEF Idempotent
  <2>3. served' = endTime /\ ~lapsed /\ served < endTime
    BY <1>1, <2>1, <2>2 DEF Idempotent
  <2>4. e[1] \in Nat /\ (e[1] <= served \/ e[1] = endTime)
    BY <1>1, <1>2, <2>3 DEF Idempotent
  <2> QED
    BY <1>1, <2>3, <2>4
<1>6. CASE CrashFactory
  BY <1>6 DEF CrashFactory, Idempotent
<1>7. CASE UNCHANGED factoryVars
  BY <1>7 DEF factoryVars, Idempotent
<1> QED
  BY <1>3, <1>4, <1>5, <1>6, <1>7 DEF Next, Ingest, Discover, Clock, FactoryStep, allVars

LEMMA StepSentOnce ==
    ASSUME IInv, Idempotent
    PROVE  \A r \in toSend \ toSend' :
               endTime' = endTime /\ <<endTime, r>> \in published => lapsed
<1> SUFFICES ASSUME ~lapsed, NEW r \in toSend, <<endTime, r>> \in published  PROVE FALSE
  OBVIOUS
<1>1. endTime # NoState /\ served \in Nat /\ endTime \in Nat
  BY ConstantTypes DEF IInv, TypeOK, Order, Candle
<1>2. endTime > served
  BY <1>1 DEF Idempotent
<1>3. endTime <= served
  BY <1>1 DEF Idempotent
<1> QED
  BY <1>1, <1>2, <1>3

(***************************************************************************)
(* Unless a call for the factory's own state failed or it died, no request *)
(* is sent twice, although the times the ingestor reports go back when it  *)
(* resumes a backfill.  The data must have to advance: with a minimum of 0 *)
(* the same end time passes the test again.                                *)
(***************************************************************************)
THEOREM NeverSentTwice ==
    ASSUME MinAdvance > 0
    PROVE  Spec => SentOnce
<1>1. IInv /\ Idempotent /\ [Next]_allVars => Idempotent'
  BY IdempotentInv
<1>2. IInv /\ Idempotent /\ [Next]_allVars =>
        [\A r \in toSend \ toSend' :
             endTime' = endTime /\ <<endTime, r>> \in published => lapsed]_allVars
  BY StepSentOnce
<1> QED
  BY <1>1, <1>2, InitIdempotent, Inductive, PTL DEF Spec, SentOnce

(* Holes *)

\* A page holds a day more than a chunk, and the slack of its estimate is a day.
PagesReach == Day <= Slack /\ (ChunkDays + 1) * Day <= Limit

LEMMA InitGapless == SystemInit => Gapless
  BY DEF SystemInit, Init, Gapless

\* A step that does not store a candle.
LEMMA GapFrame ==
    ASSUME Gapless, candles' = candles, Passed \subseteq Passed',
           pc' = "chunk" => Covered(Midnight(chunkStart))'
    PROVE  Gapless'
<1>1. \A t : Covered(t) => Covered(t)'
  BY DEF Covered
<1> QED
  BY <1>1 DEF Gapless

\* A chunk is about to be fetched: what precedes its day is covered, if what
\* precedes its start is.
LEMMA ChunkCovered ==
    ASSUME NEW start \in Nat \ {0}, NEW end \in Nat, ChunkOrCatchUp(start, end),
           start < end => 1..(Midnight(start) - 1) \subseteq candles' \union Passed'
    PROVE  pc' = "chunk" => Covered(Midnight(chunkStart))'
<1>1. pc' = "chunk" => chunkStart' = start /\ start < end
  BY DEF ChunkOrCatchUp
<1>2. pc' = "chunk" => Midnight(chunkStart)' = Midnight(start)
  BY <1>1 DEF Midnight, AtLeastOne
<1> QED
  BY <1>1, <1>2 DEF Covered

\* What precedes a time the job, the tracker or the factory knows is covered,
\* and so is that candle.
LEMMA StoredCovered ==
    ASSUME IInv, Gapless, NEW t \in Stored
    PROVE  t \in Nat /\ 1..t \subseteq candles \union Passed
<1>1. candles \subseteq Nat
  BY DEF IInv, TypeOK, Candle
<1>2. CASE t \in candles
  <2>1. t \in Nat /\ 1..(t - 1) \subseteq candles \union Passed
    BY <1>1, <1>2 DEF Gapless, Covered
  <2>2. \A x \in 1..t : x \in 1..(t - 1) \/ x = t
    BY <2>1
  <2> QED
    BY <1>2, <2>1, <2>2, Zenon
<1>3. CASE t = NoState
  <2>1. t = 0
    BY <1>3 DEF NoState
  <2>2. \A x \in 1..0 : FALSE
    OBVIOUS
  <2> QED
    BY <2>1, <2>2
<1> QED
  BY <1>2, <1>3 DEF Stored

LEMMA StartBackfillGapless ==
    ASSUME IInv, Gapless, StartBackfill
    PROVE  Gapless'
<1> DEFINE tb == tracker["backfill"]
<1>1. PICK db \in {tb, NoState} : ChunkOrCatchUp(Max({Earliest, db + 1}), Midnight(now))
  BY DEF StartBackfill, MaybeLost
<1>2. /\ candles' = candles
      /\ Passed' = Passed \union ((tb + 1)..(Earliest - 1))
  BY DEF StartBackfill, Passed
<1>3. tb \in Stored /\ NoState \in Stored
  BY DEF IInv, Order, IngestKey, Stored
<1>4. tb \in Nat /\ 1..tb \subseteq candles \union Passed
  BY <1>3, StoredCovered
<1>5. db \in Nat /\ 1..db \subseteq candles \union Passed
  BY <1>1, <1>3, StoredCovered
<1>6. Earliest \in Nat \ {0} /\ now \in Nat
  BY ConstantTypes DEF Earliest, AtLeastOne, IInv, TypeOK, Candle
<1> HIDE DEF tb
<1> DEFINE start == Max({Earliest, db + 1})
<1>7. start \in Nat \ {0} /\ start \in {Earliest, db + 1}
  BY <1>5, <1>6, MaxOfPair
<1>8. Midnight(start) \in Nat /\ Midnight(start) <= start /\ Midnight(now) \in Nat
  BY <1>6, <1>7, MidnightBounds
<1>9. ASSUME NEW x \in 1..(Midnight(start) - 1)  PROVE x \in candles' \union Passed'
  <2>1. x \in Nat /\ 1 <= x /\ x < start
    BY <1>7, <1>8
  <2>2. CASE start = db + 1
    <3>1. x \in 1..db
      BY <1>5, <2>1, <2>2
    <3> QED
      BY <1>2, <1>5, <3>1, Zenon
  <2>3. CASE start = Earliest
    <3>1. x \in 1..tb \/ x \in (tb + 1)..(Earliest - 1)
      BY <1>4, <1>6, <2>1, <2>3
    <3> QED
      BY <1>2, <1>4, <3>1, Zenon
  <2> QED
    BY <1>7, <2>2, <2>3
<1>10. start \in Nat \ {0} /\ ChunkOrCatchUp(start, Midnight(now))
       /\ 1..(Midnight(start) - 1) \subseteq candles' \union Passed'
  BY <1>1, <1>7, <1>9
<1> HIDE DEF start
<1>11. pc' = "chunk" => Covered(Midnight(chunkStart))'
  BY <1>8, <1>10, ChunkCovered
<1> QED
  BY <1>2, <1>11, GapFrame

LEMMA LoseChunkGapless ==
    ASSUME IInv, Gapless, LoseChunk
    PROVE  Gapless'
<1> DEFINE first == Midnight(chunkStart)
           second == Midnight(NextChunk)
<1>1. /\ pc = "chunk" /\ candles' = candles
      /\ Passed' = Passed \union (first..(NextChunk - 1))
      /\ ChunkOrCatchUp(NextChunk, endDate)
  BY DEF LoseChunk, Passed
<1>2. /\ NextChunk \in Nat \ {0} /\ endDate \in Nat
      /\ first \in Nat \ {0} /\ second \in Nat /\ second <= NextChunk
  BY <1>1, ChunkBounds, MidnightBounds DEF Chunking
<1>3. 1..(first - 1) \subseteq candles \union Passed
  BY <1>1 DEF Gapless, Covered
<1>4. ASSUME NEW x \in 1..(second - 1)  PROVE x \in candles' \union Passed'
  <2> HIDE DEF first, second
  <2>1. x \in 1..(first - 1) \/ x \in first..(NextChunk - 1)
    BY <1>2
  <2> QED
    BY <1>1, <1>3, <2>1, Zenon
<1>5. pc' = "chunk" => Covered(Midnight(chunkStart))'
  BY <1>1, <1>2, <1>4, ChunkCovered
<1> QED
  BY <1>1, <1>5, GapFrame

\* The candles of a page are covered when what precedes the page is.
LEMMA PageCovered ==
    ASSUME Gapless, candles \subseteq Nat,
           NEW first \in Nat \ {0}, NEW n \in Nat, candles' = candles \union (first..n),
           Passed \subseteq Passed', 1..(first - 1) \subseteq candles \union Passed'
    PROVE  \A c \in candles' \union {n + 1} :
               c \in first..(n + 1) \/ c \in candles => Covered(c)'
<1> SUFFICES ASSUME NEW c \in candles' \union {n + 1}, c \in first..(n + 1) \/ c \in candles,
                    NEW x \in 1..(c - 1)
             PROVE  x \in candles' \union Passed'
  BY DEF Covered
<1>1. CASE c \in candles
  BY <1>1 DEF Gapless, Covered
<1>2. CASE c \in first..(n + 1)
  <2>1. x \in 1..(first - 1) \/ x \in first..n
    BY <1>2
  <2> QED
    BY <2>1
<1> QED
  BY <1>1, <1>2

LEMMA WriteChunkGapless ==
    ASSUME IInv, Gapless, WriteChunk
    PROVE  Gapless'
<1> DEFINE first == Midnight(chunkStart)
<1>1. Chunking /\ pc = "chunk"
  BY DEF WriteChunk, Chunking
<1>2. PICK n \in first..now : Page(first, Midnight(ChunkEnd)) = first..n
  BY <1>1, ChunkPage
<1>3. /\ candles' = candles \union (first..n) /\ pc' = "save_backfill"
      /\ Passed' = Passed
  BY <1>2 DEF WriteChunk, Passed
<1>4. first \in Nat \ {0} /\ now \in Nat
  BY <1>1, ChunkBounds, MidnightBounds
<1>5. 1..(first - 1) \subseteq candles \union Passed
  BY <1>1 DEF Gapless, Covered
<1>6. candles \subseteq Nat /\ n \in Nat
  BY <1>4 DEF IInv, TypeOK, Candle
<1> HIDE DEF first
<1>7. \A c \in candles' \union {n + 1} :
          c \in first..(n + 1) \/ c \in candles => Covered(c)'
  BY <1>3, <1>4, <1>5, <1>6, PageCovered
<1>8. \A c \in candles' : c \in first..(n + 1) \/ c \in candles
  BY <1>3, <1>4, <1>6
<1> QED
  BY <1>3, <1>7, <1>8 DEF Gapless

LEMMA WriteCatchUpGapless ==
    ASSUME IInv, Gapless, WriteCatchUp
    PROVE  Gapless'
<1>1. PICK seen \in CatchUpAnswers :
         /\ Known(seen) \in Stored /\ Known(tracker) \in Stored
         /\ ReadFault(tracker, seen)
         /\ \E n \in CatchUpStart(Known(seen))..now :
                /\ CatchUpStart(Known(seen)) \in Nat \ {0}
                /\ candles' = candles \union (CatchUpStart(Known(seen))..n)
                /\ batchEnd' = n
                /\ last' = n
         /\ excused' = IF Known(seen) \in {Known(tracker)} \ {NoState} THEN excused
                       ELSE excused \union ((Known(tracker) + 1)..(CatchUpStart(Known(seen)) - 1))
  BY CatchUpPage
<1> DEFINE start == CatchUpStart(Known(seen))
           known == Known(tracker)
<1>2. PICK n \in start..now : start \in Nat \ {0} /\ candles' = candles \union (start..n)
  BY <1>1
<1>3. known \in Nat /\ 1..known \subseteq candles \union Passed
  BY <1>1, StoredCovered
<1>4. candles \subseteq Nat /\ n \in Nat
  BY <1>2 DEF IInv, TypeOK, Candle
<1>0. cut' = cut
  BY DEF WriteCatchUp
<1>5. Passed \subseteq Passed' /\ 1..(start - 1) \subseteq candles \union Passed'
  <2>1. CASE Known(seen) = known /\ known # NoState
    <3>1. start = known + 1 /\ Passed' = Passed
      BY <1>0, <1>1, <2>1 DEF CatchUpStart, Passed
    <3>2. start - 1 = known
      BY <1>3, <3>1
    <3> QED
      BY <1>3, <3>1, <3>2, Zenon
  <2>2. CASE ~(Known(seen) = known /\ known # NoState)
    <3>1. Passed' = Passed \union ((known + 1)..(start - 1))
      BY <1>0, <1>1, <2>2 DEF Passed
    <3> HIDE DEF start, known
    <3>2. \A x \in 1..(start - 1) : x \in 1..known \/ x \in (known + 1)..(start - 1)
      BY <1>2, <1>3
    <3> QED
      BY <1>3, <3>1, <3>2, Zenon
  <2> QED
    BY <2>1, <2>2
<1>6. pc' = "save_catch_up"
  BY DEF WriteCatchUp
<1> HIDE DEF start, known
<1>7. \A c \in candles' \union {n + 1} :
          c \in start..(n + 1) \/ c \in candles => Covered(c)'
  BY <1>2, <1>4, <1>5, PageCovered
<1>8. \A c \in candles' : c \in start..(n + 1) \/ c \in candles
  BY <1>2, <1>4
<1> QED
  BY <1>6, <1>7, <1>8 DEF Gapless

LEMMA ReportGlobalGapless ==
    ASSUME IInv, Gapless, ReportGlobal
    PROVE  Gapless'
<1>1. candles' = candles /\ Passed \subseteq Passed'
  BY DEF ReportGlobal, Passed
<1>2. CASE EndJob
  BY <1>1, <1>2, GapFrame DEF EndJob
<1>3. CASE ~EndJob
  <2>1. /\ pc = "report_backfill" /\ Chunking /\ Saving /\ ChunkOrCatchUp(NextChunk, endDate)
        /\ Passed' = Passed \union BeyondPage
    BY <1>3 DEF ReportGlobal, Chunking, Saving, Passed
  <2>2. NextChunk \in Nat \ {0} /\ endDate \in Nat
    BY <2>1, ChunkBounds
  <2>3. batchEnd \in Stored
    BY <2>1 DEF IInv, Order, Stored
  <2>4. batchEnd \in Nat /\ 1..batchEnd \subseteq candles \union Passed
    BY <2>3, StoredCovered
  <2>5. Midnight(NextChunk) \in Nat
    BY <2>2, MidnightBounds
  <2>6. ASSUME NextChunk < endDate, NEW x \in 1..(Midnight(NextChunk) - 1)
        PROVE  x \in candles' \union Passed'
    <3>1. x \in 1..batchEnd \/ x \in (batchEnd + 1)..(Midnight(NextChunk) - 1)
      BY <2>4, <2>5, <2>6
    <3>2. x \in (batchEnd + 1)..(Midnight(NextChunk) - 1) => x \in Passed'
      BY <2>1, <2>6 DEF BeyondPage
    <3> QED
      BY <1>1, <2>4, <3>1, <3>2, Zenon
  <2>7. pc' = "chunk" => Covered(Midnight(chunkStart))'
    BY <2>1, <2>2, <2>6, ChunkCovered
  <2> QED
    BY <1>1, <2>7, GapFrame
<1> QED
  BY <1>2, <1>3

LEMMA GaplessInv ==
    ASSUME IInv, Gapless, [Next]_allVars
    PROVE  Gapless'
<1>1. CASE JobStep
  <2>1. CASE StartCatchUp
    BY <2>1, GapFrame DEF StartCatchUp, Passed
  <2>2. CASE SkipCatchUp
    BY <2>2, GapFrame DEF SkipCatchUp, EndJob, Passed
  <2>3. CASE CrashJob
    BY <2>3, GapFrame DEF CrashJob, EndJob, Passed
  <2>4. CASE SaveState
    BY <2>4, GapFrame DEF SaveState, Passed
  <2> QED
    BY <1>1, <2>1, <2>2, <2>3, <2>4, StartBackfillGapless, WriteChunkGapless, LoseChunkGapless,
       WriteCatchUpGapless, ReportGlobalGapless DEF JobStep
<1>2. CASE UNCHANGED ingestVars
  <2>1. UNCHANGED <<candles, excused, cut, pc, chunkStart, endDate>>
    BY <1>2 DEF ingestVars, jobVars
  <2>2. Covered(Midnight(chunkStart)) => Covered(Midnight(chunkStart))'
    BY <2>1 DEF Covered, Passed, Midnight, AtLeastOne
  <2> QED
    BY <2>1, <2>2, GapFrame DEF Gapless, Passed
<1>3. JobStep \/ UNCHANGED ingestVars
  BY DEF Next, Ingest, Discover, Clock, FactoryStep, ReadTimes, Publish, SaveServed, CrashFactory,
         Tick, allVars, vars
<1> QED
  BY <1>1, <1>2, <1>3

(***************************************************************************)
(* Every candle missing between two stored ones was passed over because a  *)
(* fetch, a write or a read failed, precedes the date a job began at, or   *)
(* lies beyond the page of its chunk.  This holds of any page and any      *)
(* chunk, those of one-minute candles included.                            *)
(***************************************************************************)
THEOREM HolesHaveCauses == Spec => []HolesExplained
<1>1. IInv /\ Gapless /\ [Next]_allVars => Gapless'
  BY GaplessInv
<1>2. IInv /\ Gapless => HolesExplained
  <2> SUFFICES ASSUME IInv, Gapless, NEW c \in candles, NEW d \in candles,
                      NEW x \in c..d, x \notin candles
               PROVE  x \in Passed
    BY DEF HolesExplained, Passed
  <2>1. c \in Nat \ {0} /\ d \in Nat
    BY ConstantTypes DEF IInv, TypeOK, Candle
  <2>2. x \in 1..(d - 1)
    BY <2>1
  <2> QED
    BY <2>2 DEF Gapless, Covered
<1> QED
  BY <1>1, <1>2, InitGapless, Inductive, PTL DEF Spec

(* Pages that reach *)

LEMMA WriteChunkUncut ==
    ASSUME PagesReach, IInv, Uncut, WriteChunk
    PROVE  Uncut'
<1> DEFINE first == Midnight(chunkStart)
           second == Midnight(NextChunk)
<1>1. Chunking /\ pc = "chunk"
  BY DEF WriteChunk, Chunking
<1>2. PICK n \in first..now :
        LET page == Page(first, Midnight(ChunkEnd))
        IN  /\ page = first..n
            /\ Max(page) = n
            /\ \A x \in Nat : /\ x <= now
                              /\ x < first + Limit
                              /\ x < Midnight(ChunkEnd) + Slack
                              => x <= n
  BY <1>1, ChunkPage
<1>3. batchEnd' = n /\ UNCHANGED <<chunkStart, endDate, cut>>
  BY <1>2 DEF WriteChunk
<1>4. /\ {chunkStart, endDate, now, ChunkEnd, NextChunk} \subseteq Nat \ {0}
      /\ chunkStart <= ChunkEnd /\ ChunkEnd < endDate /\ endDate <= now
      /\ ChunkEnd <= chunkStart + ChunkDays * Day
      /\ NextChunk = ChunkEnd + Day
  BY <1>1, ChunkBounds
<1>5. first \in Nat \ {0} /\ Midnight(ChunkEnd) \in Nat /\ second \in Nat \ {0} /\ second <= NextChunk
  BY <1>4, MidnightBounds
<1>6. Midnight(ChunkEnd) <= first + ChunkDays * Day /\ ChunkDays * Day \in Nat
  <2>1. ChunkDays * Day \in Nat
    BY ConstantTypes
  <2> QED
    BY <1>4, <2>1, MidnightLater, ConstantTypes
<1>7. second <= Midnight(ChunkEnd) + Day
  <2>1. NextChunk <= ChunkEnd + 1 * Day /\ ChunkEnd <= NextChunk /\ 1 * Day = Day
    BY <1>4, ConstantTypes
  <2> QED
    BY <1>4, <2>1, MidnightLater, ConstantTypes
<1>8. Day <= Slack /\ ChunkDays * Day + Day <= Limit
  BY ConstantTypes DEF PagesReach
<1> HIDE DEF first, second
<1>9. ASSUME NextChunk < endDate  PROVE second - 1 <= n
  <2>1. second - 1 \in Nat /\ second - 1 <= now
    BY <1>4, <1>5, <1>9
  <2>2. second - 1 < Midnight(ChunkEnd) + Slack /\ second - 1 < first + Limit
    BY <1>5, <1>6, <1>7, <1>8, ConstantTypes
  <2> QED
    BY <1>2, <2>1, <2>2
<1>10. NextChunk' = NextChunk /\ endDate' = endDate /\ Midnight(NextChunk)' = second
  BY <1>3 DEF NextChunk, ChunkEnd, Midnight, AtLeastOne, second
<1> QED
  BY <1>3, <1>9, <1>10 DEF Uncut

\* A step that cuts nothing and writes no chunk.
LEMMA UncutFrame ==
    ASSUME Uncut, cut' = cut,
           pc' \in {"save_backfill", "report_backfill"} =>
               /\ pc \in {"save_backfill", "report_backfill"}
               /\ UNCHANGED <<chunkStart, endDate, batchEnd>>
    PROVE  Uncut'
<1>1. ASSUME UNCHANGED <<chunkStart, endDate>>
      PROVE  /\ NextChunk' = NextChunk /\ endDate' = endDate
             /\ Midnight(NextChunk)' = Midnight(NextChunk)
  BY <1>1 DEF NextChunk, ChunkEnd, Midnight, AtLeastOne
<1> QED
  BY <1>1 DEF Uncut

LEMMA ReportGlobalUncut ==
    ASSUME PagesReach, IInv, Uncut, ReportGlobal
    PROVE  Uncut'
<1>1. CASE pc = "report_backfill"
  <2>1. NextChunk < endDate => (batchEnd + 1)..(Midnight(NextChunk) - 1) = {}
    <3>1. Chunking
      BY <1>1 DEF Chunking
    <3>2. NextChunk \in Nat \ {0}
      BY <3>1, ChunkBounds
    <3>3. Midnight(NextChunk) \in Nat /\ batchEnd \in Nat
      BY <3>2, MidnightBounds DEF IInv, TypeOK
    <3> QED
      BY <1>1, <3>3 DEF Uncut
  <2>2. cut' = cut \union BeyondPage /\ ChunkOrCatchUp(NextChunk, endDate)
    BY <1>1 DEF ReportGlobal
  <2>3. cut' = cut
    BY <2>1, <2>2 DEF BeyondPage
  <2> QED
    BY <2>2, <2>3, UncutFrame DEF ChunkOrCatchUp
<1>2. CASE pc = "report_catch_up"
  BY <1>2, UncutFrame DEF ReportGlobal, EndJob
<1> QED
  BY <1>1, <1>2 DEF ReportGlobal

LEMMA UncutInv ==
    ASSUME PagesReach, IInv, Uncut, [Next]_allVars
    PROVE  Uncut'
<1>1. CASE JobStep
  <2>1. CASE StartBackfill
    BY <2>1, UncutFrame DEF StartBackfill, ChunkOrCatchUp
  <2>2. CASE StartCatchUp
    BY <2>2, UncutFrame DEF StartCatchUp
  <2>3. CASE LoseChunk
    BY <2>3, UncutFrame DEF LoseChunk, ChunkOrCatchUp
  <2>4. CASE WriteCatchUp
    BY <2>4, UncutFrame DEF WriteCatchUp
  <2>5. CASE SkipCatchUp
    BY <2>5, UncutFrame DEF SkipCatchUp, EndJob
  <2>6. CASE SaveState
    BY <2>6, UncutFrame DEF SaveState
  <2>7. CASE CrashJob
    BY <2>7, UncutFrame DEF CrashJob, EndJob
  <2> QED
    BY <1>1, <2>1, <2>2, <2>3, <2>4, <2>5, <2>6, <2>7, WriteChunkUncut, ReportGlobalUncut
       DEF JobStep
<1>2. CASE UNCHANGED ingestVars
  BY <1>2, UncutFrame DEF ingestVars, jobVars
<1>3. JobStep \/ UNCHANGED ingestVars
  BY DEF Next, Ingest, Discover, Clock, FactoryStep, ReadTimes, Publish, SaveServed, CrashFactory,
         Tick, allVars, vars
<1> QED
  BY <1>1, <1>2, <1>3

(***************************************************************************)
(* No candle is lost to the end of a page where a page holds a day more    *)
(* than a chunk and the slack of its estimate is a day: with the default   *)
(* chunks of 89 days, for candles of two and a half hours and longer, not  *)
(* for the one-minute candles of the deployment.                           *)
(***************************************************************************)
THEOREM ReachingPagesCutNothing ==
    ASSUME PagesReach
    PROVE  Spec => [](cut = {})
<1>1. SystemInit => Uncut
  BY DEF SystemInit, Init, Uncut
<1>2. IInv /\ Uncut /\ [Next]_allVars => Uncut'
  BY UncutInv
<1>3. Uncut => cut = {}
  BY DEF Uncut
<1> QED
  BY <1>1, <1>2, <1>3, Inductive, PTL DEF Spec

=============================================================================
