--------------------------- MODULE RequestFactory ---------------------------
(***************************************************************************)
(* The strategy discovery request factory, a cron job beside the candle    *)
(* ingestor: it reads the ingestor's newest candle from the shared tracker *)
(* and, when that is far enough beyond the end time it served last, sends  *)
(* one Kafka request per window and strategy for it (run), then saves that *)
(* end time under a key of its own.  Requests and state are again separate *)
(* writes, and both sides swallow the errors of their calls.               *)
(***************************************************************************)
EXTENDS CandleIngest

CONSTANTS
    Request,        \* a window and a strategy name: the requests of an end time
    MinAdvance      \* min_processing_advance_minutes

ASSUME FactoryConstants == MinAdvance \in Nat /\ IsFiniteSet(Request)

VARIABLES
    served,     \* the tracker's entry of this service
    endTime,    \* actual_latest_data_ts_ms, 0 when no pair is being processed
    toSend,     \* requests of endTime not published yet
    published,  \* history: <<end time, request>> that reached Kafka
    lapsed      \* history: a call for this service's state failed, or it died

factoryVars == <<served, endTime, toSend, published, lapsed>>
allVars == <<vars, factoryVars>>

FactoryInit ==
    /\ served = NoState
    /\ endTime = NoState
    /\ toSend = {}
    /\ published = {}
    /\ lapsed = FALSE

\* Has the data moved? Any change will do.
AdvancedAnyhow(newest, done) == newest # done

\* More than the minimum is asked for.
AdvancedMore(newest, done) == newest - done > MinAdvance

\* Has the data advanced sufficiently beyond the last processed point?
Advanced(newest, done) == newest - done >= MinAdvance

\* One cron run reads both times.  Without a newest candle, or when it has not
\* advanced by MinAdvance, the pair is skipped.
ReadTimes ==
    /\ endTime = NoState
    /\ \E done \in MaybeLost(served) :
         /\ ReadFault(served, done)
         /\ lapsed' = (lapsed \/ done # served)
         /\ tracker["global"] # NoState
         /\ Advanced(tracker["global"], done)
         /\ endTime' = tracker["global"]
         /\ toSend' = Request
    /\ UNCHANGED <<now, tracker, ingestVars, served, published>>

\* publish_request: the request is in Kafka, or five attempts failed and the
\* error is logged.
Publish(r) ==
    /\ r \in toSend
    /\ toSend' = toSend \ {r}
    /\ \/ published' = published \union {<<endTime, r>>} /\ UNCHANGED faults
       \/ UNCHANGED published /\ faults' = faults + 1
    /\ UNCHANGED <<now, tracker, ingestVars, served, endTime, lapsed>>

\* The end time is saved once its requests are out; the pair is done.
SaveServed ==
    /\ endTime # NoState
    /\ toSend = {}
    /\ \/ served' = endTime /\ UNCHANGED <<faults, lapsed>>
       \/ UNCHANGED served /\ faults' = faults + 1 /\ lapsed' = TRUE
    /\ endTime' = NoState
    /\ UNCHANGED <<now, tracker, ingestVars, toSend, published>>

CrashFactory ==
    /\ endTime # NoState
    /\ faults' = faults + 1
    /\ endTime' = NoState
    /\ toSend' = {}
    /\ lapsed' = TRUE
    /\ UNCHANGED <<now, tracker, ingestVars, served, published>>

FactoryStep ==
    \/ ReadTimes
    \/ \E r \in Request : Publish(r)
    \/ SaveServed
    \/ CrashFactory

----------------------------------------------------------------------------

\* Calls fail and pods die MaxFaults times.
Ingest == JobStep /\ faults' <= MaxFaults /\ UNCHANGED factoryVars
Discover == FactoryStep /\ faults' <= MaxFaults
Clock == Tick /\ UNCHANGED factoryVars

SystemInit == Init /\ FactoryInit
Next == Ingest \/ Discover \/ Clock

\* Both cron jobs are started again and again, and a started one goes on.
Spec == SystemInit /\ [][Next]_allVars /\ WF_allVars(Ingest) /\ WF_allVars(Discover) /\ WF_allVars(Clock)

----------------------------------------------------------------------------
(* Properties *)

\* Types of all variables.
TypeOK ==
    /\ now \in Candle
    /\ candles \subseteq Candle
    /\ tracker \in [IngestKey -> Candle \union {NoState}]
    /\ pc \in {"idle", "chunk", "save_backfill", "report_backfill",
               "catch_up", "save_catch_up", "report_catch_up"}
    /\ {chunkStart, endDate, batchEnd} \subseteq Nat
    /\ {last, served, endTime} \subseteq Candle \union {NoState}
    /\ faults \in 0..MaxFaults
    /\ excused \subseteq Nat /\ cut \subseteq Nat
    /\ toSend \subseteq Request
    /\ published \subseteq Candle \X Request
    /\ lapsed \in BOOLEAN

\* The end of every window a strategy search is asked for is a candle in
\* InfluxDB, however the writes of candles, states and requests fail and
\* wherever either job dies: the tracker never runs ahead of the data.
EndsStored ==
    /\ \A e \in published : e[1] \in candles
    /\ \A k \in IngestKey : tracker[k] \in candles \union {NoState}

\* "Resumable processing after interruptions" (candle_ingestor/README.md): a
\* candle missing between two stored ones was passed over because a fetch, a
\* write or a read of the state failed, or it lies between the last saved state
\* and the date at which a job begins, or a chunk had more candles than its page
\* (main.py line 413); a job's death alone leaves none.
HolesExplained ==
    \A c, d \in candles : (c..d) \ candles \subseteq excused \union cut

\* "its own state about which end_time it has processed for idempotency"
\* (main.py line 7): no request is sent a second time unless a call for this
\* state failed or the job died, although the ingestor reports older times
\* again whenever it resumes a backfill.
SentOnce ==
    [][\A r \in toSend \ toSend' :
         endTime' = endTime /\ <<endTime, r>> \in published => lapsed]_allVars

\* "maintain complete candle datasets" (candle_ingestor/README.md line 7): once
\* failures cease the ingestor reaches the present.
CatchesUp == <>(Horizon \in candles)

\* The factory serves the newest candle it is told of.
ServesNewest == <>[](tracker["global"] - served < MinAdvance)

=============================================================================
