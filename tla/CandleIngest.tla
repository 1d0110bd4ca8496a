---------------------------- MODULE CandleIngest ----------------------------
(***************************************************************************)
(* The candle ingestor: a cron job (concurrencyPolicy Forbid, restarted on *)
(* failure) that first backfills a ticker in chunks of days up to today's  *)
(* midnight (run_backfill) and then catches up from the last processed     *)
(* candle to now (run_catch_up).  Candles and the last-processed times are *)
(* separate writes to InfluxDB; a reader of the times (RequestFactory)     *)
(* runs beside it.                                                         *)
(*                                                                         *)
(* Time is counted in candles from 1; 0 is "no state", as the code's tests *)
(* of a timestamp's truth make it.  Candle t is in progress at tick t and  *)
(* the exchange already serves it.  One ticker: the loop over tickers runs *)
(* them one after the other and they share nothing.  The exchange has      *)
(* every candle; a fetch returns the first ones from `since', at most      *)
(* `limit' of them and whatever the chunk's end, or nothing when the call  *)
(* fails (get_historical_candles_ccxt turns every exception into []).  A   *)
(* chunk is one fetch: what lies beyond its page is passed over, of        *)
(* one-minute candles all but the first 1000 of 89 days.                   *)
(***************************************************************************)
EXTENDS Integers, FiniteSets, FiniteSetsExt

CONSTANTS
    Horizon,        \* bound: the clock stops here
    Begin,          \* when the service is first deployed
    Day,            \* candles in a day
    ChunkDays,      \* timedelta(days=89)
    Limit,          \* the cap on a page of candles, 1000
    Slack,          \* the "+ 10" of the limit's estimate
    BackfillSpan,   \* backfill_start_date, "1_year_ago"
    CatchUpSpan,    \* catch_up_initial_days
    BackfillFlags,  \* may backfill_start_date be a date (TRUE), or "skip" (FALSE)?
    MaxFaults       \* bound: failed calls and crashes in a behaviour

ASSUME IngestConstants ==
    /\ {Horizon, Begin, Day, ChunkDays, Limit} \subseteq Nat \ {0}
    /\ Slack \in Nat \ {0}
    /\ {BackfillSpan, CatchUpSpan, MaxFaults} \subseteq Nat
    /\ Begin <= Horizon
    /\ BackfillFlags \subseteq BOOLEAN

VARIABLES
    now,        \* the clock
    candles,    \* the candles in InfluxDB
    tracker,    \* InfluxDBLastProcessedTracker: key -> last processed candle
    pc,         \* what the job does next
    chunkStart, \* chunk_start_dt
    endDate,    \* end_date_dt: midnight of the day the job began
    last,       \* last_processed_timestamps[ticker]
    batchEnd,   \* the newest candle of the batch just written
    faults,     \* failed calls and crashes so far
    excused,    \* history: candles passed over because a call failed, or
                \* because they precede the date a job begins at
    cut         \* history: candles passed over because a chunk has more of them
                \* than a page

jobVars == <<pc, chunkStart, endDate, last, batchEnd>>
ingestVars == <<candles, jobVars, excused, cut>>
vars == <<now, tracker, faults, ingestVars>>

Candle == 1..Horizon
IngestKey == {"backfill", "catch_up", "global"}
NoState == 0

Init ==
    /\ now = Begin
    /\ candles = {}
    /\ tracker = [k \in IngestKey |-> NoState]
    /\ pc = "idle"
    /\ chunkStart = 0
    /\ endDate = 0
    /\ last = NoState
    /\ batchEnd = 0
    /\ faults = 0
    /\ excused = {}
    /\ cut = {}

----------------------------------------------------------------------------
(* InfluxDBLastProcessedTracker and the candle source *)

\* get_last_processed_timestamp: the stored time, or None (NoState) when the
\* query failed five times.
MaybeLost(value) == {value, NoState}

\* What a job may be told of its own two keys.
Answers == {[tracker EXCEPT !["catch_up"] = c, !["backfill"] = b] :
              c \in MaybeLost(tracker["catch_up"]), b \in MaybeLost(tracker["backfill"])}

\* A read that shows less than is stored is a failed call.
ReadFault(stored, seen) == faults' = IF seen = stored THEN faults ELSE faults + 1

\* update_last_processed_timestamp, whose errors are logged and swallowed.
Save(key, value) ==
    \/ tracker' = [tracker EXCEPT ![key] = value] /\ UNCHANGED faults
    \/ UNCHANGED tracker /\ faults' = faults + 1

AtLeastOne(n) == IF n < 1 THEN 1 ELSE n

\* strftime("%Y-%m-%d") and back: midnight of a candle's day.
Midnight(t) == AtLeastOne(t - (t % Day))

\* The page get_historical_candles_ccxt receives for since..until.
Page(since, until) ==
    LET limit == Min({Limit, until - since + Slack})
    IN  since..Min({since + limit - 1, now})

\* The first candle a backfill wants, parse_backfill_start_date.
Earliest == AtLeastOne(now - BackfillSpan)

----------------------------------------------------------------------------
(* The job *)

\* The next thing run_backfill does for a ticker whose chunk begins at start:
\* fetch it, or hand over to run_catch_up.
ChunkOrCatchUp(start, end) ==
    IF start < end
    THEN pc' = "chunk" /\ chunkStart' = start /\ endDate' = end
    ELSE pc' = "catch_up" /\ chunkStart' = 0 /\ endDate' = 0

\* The job is over, or its pod died: what it knew is gone.
EndJob ==
    /\ pc' = "idle"
    /\ chunkStart' = 0
    /\ endDate' = 0
    /\ last' = NoState
    /\ batchEnd' = 0

\* main with a backfill: resume from the backfill state, but never before the
\* flag's date, which moves with the clock; skip what is already backfilled.
StartBackfill ==
    /\ pc = "idle"
    /\ TRUE \in BackfillFlags
    /\ \E db \in MaybeLost(tracker["backfill"]) :
         /\ ReadFault(tracker["backfill"], db)
         /\ ChunkOrCatchUp(Max({Earliest, db + 1}), Midnight(now))
    /\ excused' = excused \union ((tracker["backfill"] + 1)..(Earliest - 1))
    /\ last' = NoState
    /\ UNCHANGED <<now, tracker, candles, batchEnd, cut>>

\* main without a backfill: the catch-up state is loaded, else the
\* backfill state.
StartCatchUp ==
    /\ pc = "idle"
    /\ FALSE \in BackfillFlags
    /\ \E seen \in Answers :
         /\ ReadFault(tracker, seen)
         /\ last' = IF seen["catch_up"] # NoState THEN seen["catch_up"] ELSE seen["backfill"]
    /\ pc' = "catch_up"
    /\ UNCHANGED <<now, tracker, candles, chunkStart, endDate, batchEnd, excused, cut>>

\* The end of the chunk that begins at chunkStart: 89 days on, or just
\* before the end date.
ChunkEnd == Min({chunkStart + ChunkDays * Day, endDate - 1})

\* The day after a chunk's end is forgotten.
NextChunkSame == ChunkEnd

\* The chunk after this one begins a day after its end.
NextChunk == ChunkEnd + Day

\* written_count is not looked at.
WriteChunkUnchecked ==
    /\ pc = "chunk"
    /\ LET page == Page(Midnight(chunkStart), Midnight(ChunkEnd))
       IN  candles' \in {candles, candles \union page} /\ batchEnd' = Max(page)
    /\ pc' = "save_backfill"
    /\ UNCHANGED <<now, tracker, faults, chunkStart, endDate, last, excused, cut>>

\* A chunk is fetched from the midnight of its first day and written.
WriteChunk ==
    /\ pc = "chunk"
    /\ LET page == Page(Midnight(chunkStart), Midnight(ChunkEnd))
       IN  /\ candles' = candles \union page
           /\ batchEnd' = Max(page)
    /\ pc' = "save_backfill"
    /\ UNCHANGED <<now, tracker, faults, chunkStart, endDate, last, excused, cut>>

\* The fetch fails or write_candles_batch reports nothing written: the state
\* stays, and the loop goes on with the next chunk.
LoseChunk ==
    /\ pc = "chunk"
    /\ faults' = faults + 1
    /\ excused' = excused \union (Midnight(chunkStart)..(NextChunk - 1))
    /\ ChunkOrCatchUp(NextChunk, endDate)
    /\ UNCHANGED <<now, tracker, candles, last, batchEnd, cut>>

\* The last candle run_catch_up knows of, given the tracker's answers.
Known(seen) ==
    IF last # NoState THEN last
    ELSE IF seen["catch_up"] # NoState THEN seen["catch_up"]
    ELSE seen["backfill"]

\* One candle too far.
CatchUpStartLate(known) == IF known = NoState THEN AtLeastOne(now - CatchUpSpan) ELSE known + 2

\* Where it begins: after that candle, or some days ago.
CatchUpStart(known) == IF known = NoState THEN AtLeastOne(now - CatchUpSpan) ELSE known + 1

\* The reads of a catch-up: none if the job already knows its last candle.
CatchUpAnswers == IF last # NoState THEN {tracker} ELSE Answers

\* A page is fetched from the first candle not processed yet, and written.
\* If the job knows less than was saved, or nothing, the gap is excused.
WriteCatchUp ==
    /\ pc = "catch_up"
    /\ \E seen \in CatchUpAnswers :
         LET start == CatchUpStart(Known(seen))
             page  == Page(start, now)
         IN  /\ ReadFault(tracker, seen)
             /\ start <= now
             /\ candles' = candles \union page
             /\ batchEnd' = Max(page)
             /\ last' = Max(page)
             /\ excused' = IF Known(seen) \in {Known(tracker)} \ {NoState} THEN excused
                           ELSE excused \union ((Known(tracker) + 1)..(start - 1))
    /\ pc' = "save_catch_up"
    /\ UNCHANGED <<now, tracker, chunkStart, endDate, cut>>

\* Nothing to catch up, nothing fetched or nothing written: the job ends.
SkipCatchUp ==
    /\ pc = "catch_up"
    /\ \/ CatchUpStart(Known(tracker)) > now /\ UNCHANGED faults
       \/ faults' = faults + 1
    /\ EndJob
    /\ UNCHANGED <<now, tracker, candles, excused, cut>>

\* The job's own state, saved after the candles.
SaveState ==
    /\ \/ pc = "save_backfill" /\ Save("backfill", batchEnd) /\ pc' = "report_backfill"
       \/ pc = "save_catch_up" /\ Save("catch_up", batchEnd) /\ pc' = "report_catch_up"
    /\ UNCHANGED <<now, candles, chunkStart, endDate, last, batchEnd, excused, cut>>

\* The candles between the page and the next chunk, if there is one.
BeyondPage == IF NextChunk < endDate THEN (batchEnd + 1)..(Midnight(NextChunk) - 1) ELSE {}

\* update_global_status_tracker, then on to the next chunk, whatever the page held
\* of this one, or the end.
ReportGlobal ==
    /\ Save("global", batchEnd)
    /\ \/ /\ pc = "report_backfill"
          /\ last' = batchEnd
          /\ batchEnd' = 0
          /\ cut' = cut \union BeyondPage
          /\ ChunkOrCatchUp(NextChunk, endDate)
       \/ pc = "report_catch_up" /\ EndJob /\ UNCHANGED cut
    /\ UNCHANGED <<now, candles, excused>>

\* The pod dies.
CrashJob ==
    /\ pc # "idle"
    /\ faults' = faults + 1
    /\ EndJob
    /\ UNCHANGED <<now, tracker, candles, excused, cut>>

JobStep ==
    \/ StartBackfill
    \/ StartCatchUp
    \/ WriteChunk
    \/ LoseChunk
    \/ WriteCatchUp
    \/ SkipCatchUp
    \/ SaveState
    \/ ReportGlobal
    \/ CrashJob

Tick ==
    /\ now < Horizon
    /\ now' = now + 1
    /\ UNCHANGED <<tracker, faults, ingestVars>>

=============================================================================
