--------------------------- MODULE CandleAggregation ---------------------------
(***************************************************************************)
(* Trades of one pair become candles of several timeframes                  *)
(* (marketdata/CandleAggregator.java, CandleAggregationPipeline.java,       *)
(* InMemoryCandleStore.java).  An aggregator keeps one candle in the making *)
(* and emits it when a trade of another interval comes, earlier or later,   *)
(* filling the intervals between with flat candles.                         *)
(***************************************************************************)
EXTENDS Integers, Sequences, FiniteSetsExt, Functions, Sums

CONSTANTS
    Duration,       \* durations of the timeframes
    TradeTime,      \* times of trades
    TradePrice,     \* their prices; the volume is one
    MaxTradesIn     \* bound on trades

VARIABLES
    making,     \* CandleAggregator.activeCandles, by timeframe: one candle or none
    stored,     \* InMemoryCandleStore.store, by timeframe
    latest,     \* history: time of the newest trade
    tradesIn,   \* history: trades so far
    orderly     \* history: no trade came late, and nothing was flushed

vars == <<making, stored, latest, tradesIn, orderly>>

Align(time, d) == (time \div d) * d

Opened(time, price, d) ==
    [start |-> Align(time, d), open |-> price, high |-> price, low |-> price, close |-> price,
     volume |-> 1]

UpdatedOpen(candle, price) ==
    [candle EXCEPT !.high = Max({@, price}), !.low = Min({@, price}), !.open = price,
                   !.close = price, !.volume = @ + 1]

Updated(candle, price) ==
    [candle EXCEPT !.high = Max({@, price}), !.low = Min({@, price}), !.close = price,
                   !.volume = @ + 1]

Flat(start, price) ==
    [start |-> start, open |-> price, high |-> price, low |-> price, close |-> price, volume |-> 0]

\* emitWithGapFill: nothing is filled if the trade is earlier.
WithGaps(candle, start, d) ==
    LET gaps == IF start > candle.start THEN (start - candle.start) \div d - 1 ELSE 0
    IN  <<candle>> \o [k \in 1..gaps |-> Flat(candle.start + k * d, candle.close)]

Init ==
    /\ making = [d \in Duration |-> <<>>]
    /\ stored = [d \in Duration |-> <<>>]
    /\ latest = 0 /\ tradesIn = 0
    /\ orderly = TRUE

Same(d, time) == making[d] # <<>> /\ making[d][1].start = Align(time, d)

\* CandleAggregationPipeline.onTrade: every timeframe's aggregator gets the trade.
OnTrade ==
    /\ tradesIn < MaxTradesIn
    /\ tradesIn' = tradesIn + 1
    /\ \E time \in TradeTime, price \in TradePrice :
        /\ making' = [d \in Duration |->
               <<IF Same(d, time) THEN Updated(making[d][1], price) ELSE Opened(time, price, d)>>]
        /\ stored' = [d \in Duration |->
               IF making[d] = <<>> \/ Same(d, time) THEN stored[d]
               ELSE stored[d] \o WithGaps(making[d][1], Align(time, d), d)]
        /\ orderly' = (orderly /\ time >= latest)
        /\ latest' = Max({latest, time})

\* flush: what is in the making is emitted, and a later trade of the same
\* interval begins a second candle for it.
Flush ==
    /\ \E d \in Duration : making[d] # <<>>
    /\ stored' = [d \in Duration |-> stored[d] \o making[d]]
    /\ making' = [d \in Duration |-> <<>>]
    /\ orderly' = FALSE
    /\ UNCHANGED <<latest, tradesIn>>

Next == OnTrade \/ Flush

Spec == Init /\ [][Next]_vars

----------------------------------------------------------------------------
(* Properties *)

All(d) == stored[d] \o making[d]

\* Late trades and flushes split candles, but no trade is lost or counted twice.
VolumeKept ==
    \A d \in Duration : Total([k \in DOMAIN All(d) |-> All(d)[k].volume], Len(All(d))) = tradesIn

\* While trades come in order, candles follow each other without a hole.
Contiguous ==
    orderly => \A d \in Duration : \A k \in 2..Len(All(d)) :
                   All(d)[k].start = All(d)[k - 1].start + d

\* The candles of a finer timeframe within a candle that anything was traded in.
TradedIn(candle, coarse, candles) ==
    {k \in DOMAIN candles : Align(candles[k].start, coarse) = candle.start /\ candles[k].volume > 0}

\* A candle is what the finer candles within it come to, and flat if there are none.
Agrees(candle, coarse, candles) ==
    LET traded == TradedIn(candle, coarse, candles)
    IN  IF traded = {} THEN candle = Flat(candle.start, candle.close)
        ELSE /\ candle.open = candles[Min(traded)].open
             /\ candle.high = Max({candles[k].high : k \in traded})
             /\ candle.low = Min({candles[k].low : k \in traded})
             /\ candle.close = candles[Max(traded)].close
             /\ candle.volume = Total([k \in DOMAIN candles |->
                                         IF k \in traded THEN candles[k].volume ELSE 0],
                                      Len(candles))

\* While trades come in order, the timeframes agree: a stored candle is what the
\* stored candles of a finer timeframe within it come to.
TimeframesAgree ==
    orderly => \A fine, coarse \in Duration : (fine < coarse /\ coarse % fine = 0) =>
        \A candle \in Range(stored[coarse]) : Agrees(candle, coarse, stored[fine])
=============================================================================
