----------------------------- MODULE PaperTrading -----------------------------
(***************************************************************************)
(* The paper trading service (services/paper_trading): HTTP requests on    *)
(* Flask's threads, each a coroutine of one event loop, on the tables      *)
(* paper_trading_sessions, paper_trades and paper_portfolio.  Requests     *)
(* interleave at every await; a statement of PostgreSQL reads what was     *)
(* committed before it (READ COMMITTED).                                   *)
(*                                                                         *)
(* One symbol, and so one row of the portfolio.  Prices are folded into    *)
(* quantities: a trade of quantity q costs q.  Entry prices and profits    *)
(* are left out, as are the queries.                                       *)
(***************************************************************************)
EXTENDS Integers, FiniteSets, Sequences, Sums

CONSTANTS
    HttpRequest,    \* concurrent requests
    Session,        \* session ids
    NoSession,      \* trades outside a session (/paper/execute)
    StartBalance,   \* starting_balance
    MaxTradeSize,   \* bound: quantities of trades
    MaxTrades       \* bound: trades

VARIABLES
    session,    \* paper_trading_sessions: "unused", "ACTIVE" or "STOPPED"
    balance,    \* current_balance
    owner,      \* the request that holds the row lock of a session, or Nobody
    trade,      \* paper_trades: the committed ones, by number
    portfolio,  \* paper_portfolio: quantity of the row, 0 if there is none
    at,         \* where a request stands
    order,      \* its order
    seen        \* what else it has read: the portfolio's row, or the trade to close

tradeVars == <<session, balance, owner, trade, portfolio>>
vars == <<tradeVars, at, order, seen>>

Nobody == "nobody"
Order == [session : Session \union {NoSession}, side : {"BUY", "SELL"}, quantity : 1..MaxTradeSize]
NoOrder == "none"

Init ==
    /\ session = [s \in Session |-> "unused"]
    /\ balance = [s \in Session |-> StartBalance]
    /\ owner = [s \in Session |-> Nobody]
    /\ trade = << >>
    /\ portfolio = 0
    /\ at = [r \in HttpRequest |-> "idle"]
    /\ order = [r \in HttpRequest |-> NoOrder]
    /\ seen = [r \in HttpRequest |-> 0]

Goto(r, label) == at' = [at EXCEPT ![r] = label]
Read(r, value) == seen' = [seen EXCEPT ![r] = value]

\* The request is answered.
Answer(r) == Goto(r, "idle") /\ order' = [order EXCEPT ![r] = NoOrder] /\ Read(r, 0)

Active == {s \in Session : session[s] = "ACTIVE"}

----------------------------------------------------------------------------
(* Sessions *)

\* start_session, get_active_session: a request that finds none goes on.
LookForSession(r) ==
    /\ at[r] = "idle"
    /\ Active = {}
    /\ Goto(r, "create")
    /\ UNCHANGED <<tradeVars, order, seen>>

\* create_session
CreateSession(r) ==
    /\ at[r] = "create"
    /\ \E s \in Session :
         /\ session[s] = "unused"
         /\ session' = [session EXCEPT ![s] = "ACTIVE"]
    /\ Answer(r)
    /\ UNCHANGED <<balance, owner, trade, portfolio>>

\* stop_session: one statement, which waits for a trade in the session.
StopSession(s) ==
    /\ session[s] = "ACTIVE"
    /\ owner[s] = Nobody
    /\ session' = [session EXCEPT ![s] = "STOPPED"]
    /\ UNCHANGED <<balance, owner, trade, portfolio, at, order, seen>>

(* Trades *)

\* execute_paper_trade without a look at the balance.
EnoughAnyhow(o) == TRUE

\* The balance covers a purchase.
Enough(o) == o.session # NoSession /\ o.side = "BUY" => o.quantity <= balance[o.session]

\* /paper/execute (no session), or execute_paper_trade: the balance is read,
\* the price fetched and the one compared with the other, on the request's own
\* copy.  A request that is refused is answered and has changed nothing.
Place(r) ==
    /\ at[r] = "idle"
    /\ Len(trade) + Cardinality({q \in HttpRequest : at[q] \in {"begin", "write"}}) < MaxTrades
    /\ \E o \in Order : /\ o.session \in Active \union {NoSession}
                         /\ Enough(o)
                         /\ order' = [order EXCEPT ![r] = o]
    /\ Goto(r, "begin")
    /\ UNCHANGED <<tradeVars, seen>>

Cost(o) == IF o.side = "BUY" THEN o.quantity ELSE -o.quantity

\* A transaction begins: the trade is inserted, the balance of its session
\* changed, which locks the session, and the portfolio's row is read.
Begin(r) ==
    /\ at[r] = "begin"
    /\ IF order[r].session = NoSession
         THEN UNCHANGED owner
         ELSE /\ owner[order[r].session] = Nobody
              /\ owner' = [owner EXCEPT ![order[r].session] = r]
    /\ Read(r, portfolio)
    /\ Goto(r, "write")
    /\ UNCHANGED <<session, balance, trade, portfolio, order>>

\* current_balance = current_balance - cost
Charge(o) ==
    balance' = IF o.session = NoSession THEN balance
               ELSE [balance EXCEPT ![o.session] = @ - Cost(o)]

Unlock(r) == owner' = [s \in Session |-> IF owner[s] = r THEN Nobody ELSE owner[s]]

\* The portfolio's row is written from what was read, and the transaction
\* commits.  A second row for the symbol violates its UNIQUE constraint and
\* rolls everything back; an update of a row that is gone updates nothing.
Write(r) ==
    /\ at[r] = "write"
    /\ LET o == order[r]
           wanted == seen[r] + Cost(o)
           conflict == seen[r] = 0 /\ o.side = "BUY" /\ portfolio # 0
       IN  IF conflict
             THEN UNCHANGED <<balance, trade, portfolio>>
             ELSE /\ Charge(o)
                  /\ trade' = Append(trade, [session |-> o.session, side |-> o.side,
                                              quantity |-> o.quantity, status |-> "OPEN"])
                  /\ portfolio' = IF seen[r] = 0 /\ o.side = "SELL" THEN portfolio
                                  ELSE IF seen[r] # 0 /\ portfolio = 0 THEN 0
                                  ELSE IF wanted <= 0 THEN 0 ELSE wanted
    /\ Unlock(r)
    /\ Answer(r)
    /\ UNCHANGED session

\* close_trade reads an open trade ...
FindOpen(r) ==
    /\ at[r] = "idle"
    /\ \E k \in DOMAIN trade : trade[k].status = "OPEN" /\ Read(r, k)
    /\ Goto(r, "close")
    /\ UNCHANGED <<tradeVars, order>>

\* ... and closes it, whatever has become of it, in a transaction.
Close(r) ==
    /\ at[r] = "close"
    /\ trade' = [trade EXCEPT ![seen[r]].status = "CLOSED"]
    /\ LET left == portfolio - trade[seen[r]].quantity
       IN  portfolio' = IF left <= 0 THEN 0 ELSE left
    /\ Answer(r)
    /\ UNCHANGED <<session, balance, owner>>

RequestStep(r) ==
    \/ LookForSession(r) \/ CreateSession(r)
    \/ Place(r) \/ Begin(r) \/ Write(r)
    \/ FindOpen(r) \/ Close(r)

Next ==
    \/ \E r \in HttpRequest : RequestStep(r)
    \/ \E s \in Session : StopSession(s)

Spec == Init /\ [][Next]_vars

----------------------------------------------------------------------------
(* Properties *)

\* Purchases and sales that overlap in a session are all in its balance: the
\* balance is the starting one less what every committed trade cost
\* (execute_session_trade), whoever read it in between.
BalanceMatchesTrades ==
    \A s \in Session :
        balance[s] = StartBalance - Total([k \in DOMAIN trade |->
                                             IF trade[k].session = s THEN Cost(trade[k]) ELSE 0],
                                          Len(trade))

\* The balance is read before the price is fetched and charged after it
\* (execute_paper_trade), so overlapping purchases may overdraw a session, but
\* never by more than all of them but one cost.
OverdraftBounded ==
    \A s \in Session : balance[s] >= -(Cardinality(HttpRequest) - 1) * MaxTradeSize
=============================================================================
