------------------------------- MODULE CostBasis -------------------------------
(***************************************************************************)
(* The profit and loss engine (services/pnl_engine/pnl_engine.py): the     *)
(* lots of one symbol, and the profit realized by sales matched against    *)
(* them first in first out, last in first out, or at average cost.         *)
(* _build_engine replays trades in order of their time, and skips a sale   *)
(* that exceeds the position.                                              *)
(*                                                                         *)
(* A lot that is used up stays in the model with nothing left.  At average *)
(* cost a sale shrinks every lot in proportion: what is left is counted in *)
(* 1/unit, and the profit is a fraction.                                   *)
(***************************************************************************)
EXTENDS Integers, Sequences, FiniteSetsExt, Sums

CONSTANTS
    LotPrice,       \* bound: prices
    MaxSize,        \* bound: size of a trade
    MaxReplayed     \* bound: trades replayed

VARIABLES
    method,     \* CostBasisMethod
    lots,       \* every lot bought: price, size, time
    left,       \* what is left of it, in 1/unit
    unit,
    realized,   \* total_realized_pnl: numerator and denominator
    flow,       \* proceeds of the sales less the cost of the purchases
    replayed    \* number of trades

basisVars == <<method, lots, left, unit, realized, flow, replayed>>

Init ==
    /\ method \in {"fifo", "lifo", "average"}
    /\ lots = << >> /\ left = << >> /\ unit = 1
    /\ realized = [num |-> 0, den |-> 1]
    /\ flow = 0 /\ replayed = 0

\* total_size and total_cost, in 1/unit
TotalSize == Total(left, Len(lots))
TotalCost == Total([k \in DOMAIN lots |-> left[k] * lots[k].price], Len(lots))

\* add_buy, at the time of the last trade or later
AddBuy(price, size) ==
    /\ \E pause \in {0, 1} :
         lots' = Append(lots, [price |-> price, size |-> size,
                               time |-> pause + (IF lots = << >> THEN 0 ELSE lots[Len(lots)].time)])
    /\ left' = Append(left, size * unit)
    /\ flow' = flow - price * size
    /\ UNCHANGED <<unit, realized>>

\* The order of last in first out whatever the method.
BeforeLifo(i, j) == lots[i].time > lots[j].time \/ (lots[i].time = lots[j].time /\ i < j)

\* _ordered_lots: both sorts are stable, so lots of one time stay in order.
Before(i, j) == IF method = "fifo" THEN i < j
                ELSE lots[i].time > lots[j].time \/ (lots[i].time = lots[j].time /\ i < j)

\* A sale that every lot gives what it has.
GivenWhole(size, k) == Min({left[k], size})

\* What a lot gives to a sale: what those before it cannot.
Given(size, k) ==
    LET ahead == Total([i \in DOMAIN lots |-> IF Before(i, k) THEN left[i] ELSE 0], Len(lots))
    IN  Max({0, Min({left[k], size - ahead})})

\* add_sell under fifo and lifo
SellMatched(price, size) ==
    /\ left' = [k \in DOMAIN lots |-> left[k] - Given(size, k)]
    /\ realized' = [realized EXCEPT !.num = @ +
                      Total([k \in DOMAIN lots |-> (price - lots[k].price) * Given(size, k)],
                            Len(lots))]
    /\ UNCHANGED unit

\* _sell_average: (price - avg_cost) * size, and every lot times
\* (total - size) / total.
SellAverage(price, size) ==
    /\ left' = [k \in DOMAIN lots |-> left[k] * (TotalSize - size * unit)]
    /\ unit' = unit * TotalSize
    /\ realized' = [num |-> realized.num * TotalSize
                              + (price * TotalSize - TotalCost) * size * realized.den,
                    den |-> realized.den * TotalSize]

\* add_sell: ValueError unless the position covers the sale.
AddSell(price, size) ==
    /\ size * unit <= TotalSize
    /\ IF method = "average" THEN SellAverage(price, size) ELSE SellMatched(price, size)
    /\ flow' = flow + price * size
    /\ UNCHANGED lots

Next ==
    /\ replayed < MaxReplayed
    /\ replayed' = replayed + 1
    /\ \E price \in LotPrice, size \in 1..MaxSize : AddBuy(price, size) \/ AddSell(price, size)
    /\ UNCHANGED method

Spec == Init /\ [][Next]_basisVars

----------------------------------------------------------------------------
(* Properties *)

\* Whatever the method matched with what, the profit realized is the cash that
\* came in less the cash that went out, plus what the open lots cost.
ProfitIsCashFlow ==
    realized.num * unit = (flow * unit + TotalCost) * realized.den

\* First in first out: no lot is touched before all older ones are used up.
\* (Under last in first out a lot bought later may be younger than a lot that
\* was touched, so this says nothing of it.)
OldestFirst ==
    method = "fifo" => \A i, k \in DOMAIN lots :
        i < k /\ left[k] < lots[k].size => left[i] = 0
=============================================================================
