---------------------------- MODULE OrderSimulator ----------------------------
(***************************************************************************)
(* The order execution simulator (services/order_simulator): orders of one *)
(* instrument in the order they were placed, a cash balance and a          *)
(* position.  The handlers of its API have no await, so each runs as one   *)
(* step.                                                                   *)
(*                                                                         *)
(* Prices and quantities are small integers, cash is counted in            *)
(* thousandths so that a fee rate of k per mille is exact.  Slippage is of *)
(* the FIXED kind.  Identifiers, timestamps, rounding to eight places and  *)
(* average prices are left out.                                            *)
(***************************************************************************)
EXTENDS Integers, Sequences, FiniteSetsExt, Sums

CONSTANTS
    InitialBalance,     \* initial_balance
    Slippage,           \* slippage_config.value
    MakerFee, TakerFee, \* fee_schedule, per mille
    MaxQuantity,        \* bound: quantity of an order
    MarketPrice,        \* bound: prices
    MaxOrders           \* bound: orders placed

VARIABLES
    book,   \* _orders, with their fills
    cash,   \* _cash_balance, in thousandths
    held    \* _positions[instrument]

simulatorVars == <<book, cash, held>>

Kind == {"MARKET", "LIMIT", "STOP_LOSS", "TAKE_PROFIT"}
Request == [kind : Kind, side : {"BUY", "SELL"}, quantity : 1..MaxQuantity, price : MarketPrice]
Terminal == {"FILLED", "CANCELLED", "EXPIRED"}

Init == book = << >> /\ cash = 1000 * InitialBalance /\ held = 0

\* A market order is as good with one price as with another.
PlaceOrder(q) ==
    /\ Len(book) < MaxOrders
    /\ q.kind = "MARKET" => q.price = CHOOSE p \in MarketPrice : TRUE
    /\ book' = Append(book, [request |-> q, status |-> "OPEN", filled |-> 0, fills |-> << >>])
    /\ UNCHANGED <<cash, held>>

CancelOrder(i) ==
    /\ book[i].status \notin Terminal
    /\ book' = [book EXCEPT ![i].status = "CANCELLED"]
    /\ UNCHANGED <<cash, held>>

\* _should_fill
ShouldFill(q, bid, ask) ==
    LET below == IF q.side = "BUY" THEN ask <= q.price ELSE bid <= q.price
        above == IF q.side = "BUY" THEN ask >= q.price ELSE bid >= q.price
    IN  \/ q.kind = "MARKET"
        \/ q.kind \in {"LIMIT", "TAKE_PROFIT"} /\ IF q.side = "BUY" THEN below ELSE above
        \/ q.kind = "STOP_LOSS" /\ IF q.side = "BUY" THEN above ELSE below

FillPrice(q, bid, ask) == IF q.side = "BUY" THEN ask + Slippage ELSE bid - Slippage

\* What a fill is worth, in thousandths.
Value(size, price) == 1000 * size * price

Magnitude(x) == IF x < 0 THEN -x ELSE x

\* fee, in thousandths
Fee(q, size, price) ==
    Magnitude(size * price) * (IF q.kind = "LIMIT" THEN MakerFee ELSE TakerFee)

\* A purchase that covers its price, but not its fee.
CoveredUpToFee(q, size, price, account) ==
    IF q.side = "BUY" THEN account.cash >= Value(size, price) ELSE account.held >= size

Covered(q, size, price, account) ==
    IF q.side = "BUY" THEN account.cash >= Value(size, price) + Fee(q, size, price)
                      ELSE account.held >= size

\* The fills of an order, without a look at what an earlier tick filled.
RemainingOfAll(o) == o.request.quantity

\* remaining_quantity
Remaining(o) == o.request.quantity - o.filled

\* _try_fill on the account {book, cash, held} as the orders before left it;
\* "depth" is what the volume lets one order take.
TryFill(account, i, bid, ask, depth) ==
    LET o == account.book[i]
        q == o.request
        size == Min({Remaining(o), depth})
        price == FillPrice(q, bid, ask)
        fee == Fee(q, size, price)
        sign == IF q.side = "BUY" THEN 1 ELSE -1
    IN  IF /\ o.status \in {"OPEN", "PARTIALLY_FILLED"}
           /\ ShouldFill(q, bid, ask)
           /\ size > 0
           /\ Covered(q, size, price, account)
        THEN [book |-> [account.book EXCEPT ![i] =
                          [o EXCEPT !.filled = @ + size,
                                    !.fills = Append(@, [size |-> size, price |-> price, fee |-> fee]),
                                    !.status = IF o.filled + size = q.quantity
                                               THEN "FILLED" ELSE "PARTIALLY_FILLED"]],
              cash |-> account.cash - sign * Value(size, price) - fee,
              held |-> account.held + sign * size]
        ELSE account

\* What a tick does to one order; "late" are those which have expired.
VisitOrder(account, i, bid, ask, depth, late) ==
    IF i \in late /\ account.book[i].status \in {"OPEN", "PARTIALLY_FILLED"}
    THEN [account EXCEPT !.book[i].status = "EXPIRED"]
    ELSE TryFill(account, i, bid, ask, depth)

\* The account after the first n orders were visited.
After(bid, ask, depth, late, n) ==
    LET after[k \in Nat] == IF k = 0 THEN [book |-> book, cash |-> cash, held |-> held]
                            ELSE VisitOrder(after[k - 1], k, bid, ask, depth, late)
    IN  after[n]

\* process_market_tick: every order in turn.
Tick(bid, ask, depth, late) ==
    LET account == After(bid, ask, depth, late, Len(book))
    IN  /\ book' = account.book
        /\ cash' = account.cash
        /\ held' = account.held

Next ==
    \/ \E q \in Request : PlaceOrder(q)
    \/ \E i \in DOMAIN book : CancelOrder(i)
    \/ \E bid, ask \in MarketPrice, depth \in 1..MaxQuantity, late \in SUBSET DOMAIN book :
         bid <= ask /\ Tick(bid, ask, depth, late)

Spec == Init /\ [][Next]_simulatorVars

----------------------------------------------------------------------------
(* Properties *)

Signed(o, n) == IF o.request.side = "BUY" THEN n ELSE -n

\* What the fills of an order come to.
Filled(o) == Total([k \in DOMAIN o.fills |-> o.fills[k].size], Len(o.fills))
Paid(o) == Total([k \in DOMAIN o.fills |-> Value(o.fills[k].size, o.fills[k].price)], Len(o.fills))
Fees(o) == Total([k \in DOMAIN o.fills |-> o.fills[k].fee], Len(o.fills))

\* Cash and position are what the fills of all orders come to, over partial
\* fills, refused fills, cancellations and expiries, and no order gets more than it
\* asked for (_try_fill).
FillsAccountForAll ==
    /\ cash = 1000 * InitialBalance
                - Total([i \in DOMAIN book |-> Signed(book[i], Paid(book[i])) + Fees(book[i])], Len(book))
    /\ held = Total([i \in DOMAIN book |-> Signed(book[i], Filled(book[i]))], Len(book))
    /\ \A i \in DOMAIN book :
         /\ book[i].filled = Filled(book[i])
         /\ book[i].filled <= book[i].request.quantity
         /\ (book[i].status = "FILLED") = (book[i].filled = book[i].request.quantity)

\* Orders filled one after the other in one tick never overdraw the account
\* nor sell what is not held, as long as slippage leaves no price below zero and
\* no fee exceeds what is traded (_try_fill).
NeverOverdrawn == cash >= 0 /\ held >= 0
=============================================================================
