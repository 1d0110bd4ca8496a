----------------------------- MODULE SignalGate -----------------------------
(***************************************************************************)
(* What stands between a fused BUY or SELL and the signal service in       *)
(* SignalCoordinator._process_symbol: RiskManager.check_signal (concurrent *)
(* signals, per-symbol hourly rate), the deduplication window, _emit_signal*)
(* and the bookkeeping after it.  Nothing under src/ calls                 *)
(* record_signal_closed outside the tests, so the count of active signals  *)
(* only grows, and a process emits no more than MaxActive signals.         *)
(*                                                                         *)
(* The runner thread handles one symbol at a time, but emitting is a slow  *)
(* MCP call: time passes between the check, the moment the signal service  *)
(* accepts the signal, and the moment the coordinator writes it down.      *)
(* call_mcp_tool turns every HTTP error into an {"error": ...} result, so  *)
(* the coordinator cannot tell a lost signal from an accepted one.         *)
(*                                                                         *)
(* All this state lives in the process: a restart begins at Init.  HOLD    *)
(* decisions pass through without touching it.                             *)
(***************************************************************************)
EXTENDS Integers, Sequences, FiniteSetsExt

CONSTANTS
    Symbol,             \* trading symbols
    Action,             \* BUY and SELL
    Hour,               \* 3600 s, in ticks
    MaxPerHour,         \* max_signals_per_symbol_per_hour
    MaxActive,          \* max_concurrent_signals
    DedupWindow         \* DEDUP_WINDOW_SECONDS, in ticks

VARIABLES
    history,    \* _signal_history: ages of the signals on record, up to Hour
    active,     \* _active_signals
    lastEmit,   \* _recent_emissions: age of the last emission, up to DedupWindow
    stage,      \* "idle", "emitting" or "recording"
    current,    \* the signal being emitted: <<symbol, action>>
    sent,       \* history: ages of the signals the service accepted, below Hour
    sinceSent,  \* history: age of the last accepted one, up to DedupWindow
    accepted    \* history: signals the service accepted, up to MaxActive + 1

riskVars == <<history, active>>
sentVars == <<sent, sinceSent>>
vars == <<riskVars, lastEmit, stage, current, sentVars, accepted>>

Signal == Symbol \X Action

Init ==
    /\ history = [s \in Symbol |-> << >>]
    /\ active = 0
    /\ lastEmit = [g \in Signal |-> DedupWindow]
    /\ stage = "idle"
    /\ current \in Signal
    /\ sent = [s \in Symbol |-> << >>]
    /\ sinceSent = [g \in Signal |-> DedupWindow]
    /\ accepted = 0

----------------------------------------------------------------------------

UpTo(bound, n) == IF n < bound THEN n ELSE bound

\* The timestamps of the last hour: [ts for ts in history if ts > hour_ago].  They
\* are in order, so that those are the ones from the first recent one on.
Recent(ages) ==
    SubSeq(ages, Min({k \in DOMAIN ages : ages[k] < Hour} \cup {Len(ages) + 1}), Len(ages))

\* The hourly limit with > for >=.
RateExceededLate(ages) == Len(ages) > MaxPerHour

\* check_signal, step 4: the symbol used up its signals of the last hour.
RateExceeded(ages) == Len(ages) >= MaxPerHour

\* A window that is one tick short.
DuplicateEarly(g) == lastEmit[g] + 1 < DedupWindow

\* The deduplication window: the same signal was emitted a short while ago.
Duplicate(g) == lastEmit[g] < DedupWindow

\* check_signal and the deduplication check on a fused BUY or SELL g.  The
\* history is pruned in every case.  The signal is rejected (low confidence,
\* exposure and drawdown limits may always do so), suppressed as a duplicate,
\* or goes on to _emit_signal.
Decide(g) ==
    /\ stage = "idle"
    /\ history' = [history EXCEPT ![g[1]] = Recent(@)]
    /\ \/ UNCHANGED <<stage, current>>
       \/ /\ active < MaxActive
          /\ ~RateExceeded(Recent(history[g[1]]))
          /\ ~Duplicate(g)
          /\ stage' = "emitting"
          /\ current' = g
    /\ UNCHANGED <<active, lastEmit, sentVars, accepted>>

\* _emit_signal: the service accepts the signal, or it never gets there and
\* the error is logged or buried in the result.
Emit ==
    /\ stage = "emitting"
    /\ stage' = "recording"
    /\ \/ /\ sent' = [sent EXCEPT ![current[1]] = Append(@, 0)]
          /\ sinceSent' = [sinceSent EXCEPT ![current] = 0]
          /\ accepted' = UpTo(MaxActive + 1, accepted + 1)
       \/ UNCHANGED <<sentVars, accepted>>
    /\ UNCHANGED <<riskVars, lastEmit, current>>

\* Bookkeeping without the concurrency counter.
RecordUncounted ==
    /\ stage = "recording"
    /\ stage' = "idle"
    /\ lastEmit' = [lastEmit EXCEPT ![current] = 0]
    /\ history' = [history EXCEPT ![current[1]] = Append(@, 0)]
    /\ UNCHANGED <<active, current, sentVars, accepted>>

\* After _emit_signal: the emission time is noted and record_signal_emitted
\* counts the signal, whether or not it got through.
Record ==
    /\ stage = "recording"
    /\ stage' = "idle"
    /\ lastEmit' = [lastEmit EXCEPT ![current] = 0]
    /\ history' = [history EXCEPT ![current[1]] = Append(@, 0)]
    /\ active' = active + 1
    /\ UNCHANGED <<current, sentVars, accepted>>

\* Time passes, also while a signal is being emitted.
Tick ==
    /\ history' = [s \in Symbol |->
                     [k \in DOMAIN history[s] |-> UpTo(Hour, history[s][k] + 1)]]
    /\ lastEmit' = [g \in Signal |-> UpTo(DedupWindow, lastEmit[g] + 1)]
    /\ sent' = [s \in Symbol |->
                  Recent([k \in DOMAIN sent[s] |-> sent[s][k] + 1])]
    /\ sinceSent' = [g \in Signal |-> UpTo(DedupWindow, sinceSent[g] + 1)]
    /\ UNCHANGED <<active, stage, current, accepted>>

Next ==
    \/ \E g \in Signal : Decide(g)
    \/ Emit
    \/ Record
    \/ Tick

Spec == Init /\ [][Next]_vars

----------------------------------------------------------------------------
(* Properties *)

Ages(bound, len) == UNION {[1..n -> 0..bound] : n \in 0..len}

\* Types of all variables; the history never holds more than the hourly limit.
TypeOK ==
    /\ history \in [Symbol -> Ages(Hour, MaxPerHour)]
    /\ active \in 0..MaxActive
    /\ lastEmit \in [Signal -> 0..DedupWindow]
    /\ stage \in {"idle", "emitting", "recording"}
    /\ current \in Signal
    /\ sent \in [Symbol -> Seq(0..(Hour - 1))]
    /\ sinceSent \in [Signal -> 0..DedupWindow]
    /\ accepted \in 0..(MaxActive + 1)

\* "per-symbol rate limits before signals are acted upon" (risk_manager.py line
\* 4): in no hour does the service accept more than MaxPerHour signals of a
\* symbol, however long the emissions take.
RateLimited == \A s \in Symbol : Len(sent[s]) <= MaxPerHour

\* The deduplication window holds on the receiving side: the service does not
\* accept the same signal twice within DedupWindow.
DedupSpacing ==
    [][(Emit /\ sent' # sent) => sinceSent[current] >= DedupWindow]_vars

\* "Max concurrent signals" (risk_manager.py line 67): the service never holds
\* more signals of this process than the limit, although a signal is counted
\* only after it was accepted.  With nobody to report a close, that is all the
\* signals the process ever gets through.
ActiveLimited == accepted <= MaxActive

=============================================================================
