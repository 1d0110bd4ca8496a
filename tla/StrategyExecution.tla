--------------------------- MODULE StrategyExecution ---------------------------
(***************************************************************************)
(* The strategy execution engine (services/strategy_execution_engine) for  *)
(* one strategy id: Flask threads start and stop it, a feed hands it       *)
(* candles, and whoever listens follows its signals.                       *)
(*                                                                         *)
(* start_strategy checks and replaces the entry of _contexts in two steps, *)
(* and on_candle works on the context it looked up, so a context that was  *)
(* replaced may still be at work.  Contexts are numbered by their start.   *)
(*                                                                         *)
(* A candle is its closing price.  Of the indicators the model keeps the   *)
(* closes and their moving average over two, of a configuration a pair of  *)
(* conditions over them, or one whose evaluation raises.  Buffers are cut  *)
(* off long after anything read, listeners do not raise, percentages are   *)
(* whole, and the counts of trades won and lost are left out.              *)
(***************************************************************************)
EXTENDS Integers, Sequences, FiniteSets, Sums

CONSTANTS
    Thread,         \* concurrent requests to start the strategy
    ClosingPrice,   \* prices
    StopLossPct,    \* stop_loss_pct, in per cent
    TakeProfitPct,  \* take_profit_pct
    MaxStarts,      \* bound: contexts
    MaxCandles      \* bound: candles

VARIABLES
    context,    \* every context made: _contexts[strategy_id] is the last one
    starting,   \* threads in start_strategy, past the check
    buffer,     \* _candle_buffers[strategy_id]
    feeding,    \* on_candle: the context it works on and its candle, or Idle
    fed,        \* number of candles
    follower    \* what a listener that trades each signal holds and has made

executionVars == <<context, starting, buffer, feeding, fed, follower>>

Idle == [context |-> 0, price |-> 0]
Config == [entry : {"CROSSED_UP", "OVER", "raises"}, exit : {"CROSSED_DOWN", "UNDER"}]
Flat == 0
Current == Len(context)

Init ==
    /\ context = << >> /\ starting = {} /\ buffer = << >>
    /\ feeding = Idle /\ fed = 0
    /\ follower = [holds |-> 0, made |-> 0]

\* start_strategy: the check ...
CheckStart(t) ==
    /\ t \notin starting
    /\ Current > 0 => context[Current].status # "RUNNING"
    /\ Current + Cardinality(starting) < MaxStarts
    /\ starting' = starting \union {t}
    /\ UNCHANGED <<context, buffer, feeding, fed, follower>>

\* ... and the new context, flat and with an empty buffer.
Start(t) ==
    /\ t \in starting
    /\ starting' = starting \ {t}
    /\ \E config \in Config :
         context' = Append(context, [config |-> config, status |-> "RUNNING", entry |-> Flat,
                                     realized |-> 0, price |-> 0])
    /\ buffer' = << >>
    /\ UNCHANGED <<feeding, fed, follower>>

\* stop_strategy
Stop ==
    /\ Current > 0
    /\ context' = [context EXCEPT ![Current].status = "STOPPED"]
    /\ UNCHANGED <<starting, buffer, feeding, fed, follower>>

\* on_candle: the context is looked up, and must be running.
TakeCandle ==
    /\ feeding = Idle /\ fed < MaxCandles
    /\ Current > 0 /\ context[Current].status = "RUNNING"
    /\ \E price \in ClosingPrice : feeding' = [context |-> Current, price |-> price]
    /\ fed' = fed + 1
    /\ UNCHANGED <<context, starting, buffer, follower>>

\* _compute_sma with period 2, and the closes, both in halves
Sma(S) == [i \in DOMAIN S |-> IF i = 1 THEN 2 * S[1] ELSE S[i - 1] + S[i]]
Closes(S) == [i \in DOMAIN S |-> 2 * S[i]]

\* ConditionEvaluator on closes and average: holds at the latest bar.
Holds(condition, S) ==
    LET a == Closes(S)
        b == Sma(S)
        n == Len(S)
    IN  \/ condition = "CROSSED_UP" /\ a[n - 1] <= b[n - 1] /\ a[n] > b[n]
        \/ condition = "CROSSED_DOWN" /\ a[n - 1] >= b[n - 1] /\ a[n] < b[n]
        \/ condition = "OVER" /\ a[n] > b[n]
        \/ condition = "UNDER" /\ a[n] < b[n]

\* _check_risk_management without the take profit.
AtLimitStopOnly(entry, price) == entry # Flat /\ 100 * price <= entry * (100 - StopLossPct)

\* _check_risk_management
AtLimit(entry, price) ==
    /\ entry # Flat
    /\ \/ 100 * price <= entry * (100 - StopLossPct)
       \/ 100 * price >= entry * (100 + TakeProfitPct)

\* _emit_exit_signal, with the entry price kept.
ExitKeepsEntry(c, price) ==
    [c EXCEPT !.realized = @ + price - c.entry]

\* _emit_exit_signal
Exit(c, price) ==
    [c EXCEPT !.realized = @ + price - c.entry, !.entry = Flat]

\* The follower does what the signal says.
Follow(direction, price) ==
    follower' = [holds |-> follower.holds + direction, made |-> follower.made - direction * price]

\* on_candle, from the buffer on: risk management first, then the conditions
\* if there are two candles.
Evaluate ==
    /\ feeding # Idle
    /\ LET k == feeding.context
           price == feeding.price
           c == [context[k] EXCEPT !.price = price]
           candles == Append(buffer, price)
           enough == Len(candles) >= 2
           sound == enough /\ c.config.entry # "raises"
           exits == \/ AtLimit(c.entry, price)
                    \/ sound /\ c.entry # Flat /\ Holds(c.config.exit, candles)
           enters == sound /\ c.entry = Flat /\ Holds(c.config.entry, candles)
       IN  /\ buffer' = candles
           /\ CASE exits -> /\ context' = [context EXCEPT ![k] = Exit(c, price)]
                            /\ Follow(-1, price)
                [] enters -> /\ context' = [context EXCEPT ![k] = [c EXCEPT !.entry = price]]
                             /\ Follow(1, price)
                [] OTHER -> /\ context' = [context EXCEPT ![k] =
                                 IF enough /\ c.config.entry = "raises" THEN [c EXCEPT !.status = "ERROR"] ELSE c]
                            /\ UNCHANGED follower
    /\ feeding' = Idle
    /\ UNCHANGED <<starting, fed>>

Next ==
    \/ \E t \in Thread : CheckStart(t) \/ Start(t)
    \/ Stop \/ TakeCandle \/ Evaluate

Spec == Init /\ [][Next]_executionVars

----------------------------------------------------------------------------
(* Properties *)

Long == {k \in DOMAIN context : context[k].entry # Flat}

\* Who follows the signals holds one unit for every context that is long, also
\* for those a restart has replaced, and has made what all contexts report as
\* realized less what the open entries cost (_emit_entry_signal,
\* _emit_exit_signal; start_strategy forgets the position of the context before).
FollowerBooks ==
    /\ follower.holds = Cardinality(Long)
    /\ follower.made = Total([k \in DOMAIN context |-> context[k].realized - context[k].entry],
                             Len(context))

\* Between two candles a position of the running context is never held at or
\* beyond its stop loss or its take profit.
LimitsHeld ==
    feeding = Idle /\ Current > 0 /\ Current \in Long =>
        LET c == context[Current]
        IN  /\ 100 * c.price > c.entry * (100 - StopLossPct)
            /\ 100 * c.price < c.entry * (100 + TakeProfitPct)
=============================================================================
