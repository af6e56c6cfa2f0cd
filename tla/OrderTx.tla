------------------------------ MODULE OrderTx ------------------------------
(***************************************************************************)
(* Requests about orders as overlapping database transactions.  The routes *)
(* are synchronous, so the server runs them in threads, each with its own  *)
(* SQLAlchemy session on PostgreSQL at READ COMMITTED: a SELECT sees what  *)
(* is committed, the session keeps the first value it loads of a column,   *)
(* and a flush UPDATEs the columns that changed, row by row, each row      *)
(* locked until the transaction ends.  No SELECT locks and no version is   *)
(* compared.                                                               *)
(*                                                                         *)
(* Left out: sessions and users, orders that screening holds or blocks     *)
(* (they touch no row of another request), REQUEST_ADDITIONAL_AUTH (BLOCK  *)
(* with other values), metadata_json.  Primary keys are in created_at      *)
(* order.  The terms of orders, and what each request asks, are fixed by   *)
(* the initial state.                                                      *)
(***************************************************************************)
EXTENDS Enums, Pricing, Sequences, Functions

CONSTANTS
    Users, Stocks, Prices,
    Books,          \* what the orders may ask for, order by order
    OpeningCash,    \* balance of each account when the requests arrive
    OpeningShares,  \* shares of each user and stock from earlier executions
    MaxOrders,      \* bound: orders
    Requests,       \* bound: requests
    Kinds           \* what the requests ask for

RequestKinds == {"submit", "refresh", "cancel", "approve", "block"}

Orders == 1..MaxOrders

\* A limit order has a price, a market order none.
Placeable ==
    [user: Users, stock: Stocks, side: {"BUY", "SELL"}, quantity: Nat \ {0},
     type: {"LIMIT"}, price: Prices]
    \cup
    [user: Users, stock: Stocks, side: {"BUY", "SELL"}, quantity: Nat \ {0},
     type: {"MARKET"}, price: {NoPrice}]

Jobs == [kind: Kinds \cap {"refresh"}, user: Users]
        \cup [kind: Kinds \ {"refresh"}, order: Orders]

ASSUME OrderTxAssumption ==
    /\ Prices \subseteq Nat \ {0}
    /\ Books \subseteq [Orders -> Placeable]
    /\ HighAmount \in Nat
    /\ OpeningCash \in [Users -> Nat]
    /\ OpeningShares \in [Users -> [Stocks -> Nat]]
    /\ MaxOrders \in Nat
    /\ Kinds \subseteq RequestKinds

\* The columns that requests write, and the rows they belong to.
Price(s) == <<"stock", s>>              \* stocks.current_price
Cash(u) == <<"account", u>>             \* accounts.cash_balance
Status(o) == <<"order", o>>             \* orders.status
Decision(o) == <<"decision", o>>        \* risk_events.decision
EventStatus(o) == <<"event", o>>        \* risk_events.status

Columns ==
    {Price(s) : s \in Stocks} \cup {Cash(u) : u \in Users}
    \cup UNION {{Status(o), Decision(o), EventStatus(o)} : o \in Orders}

Row(c) == IF c[1] = "decision" THEN EventStatus(c[2]) ELSE c

\* A flush writes tables in foreign-key order and rows by primary key.
Rank(c) ==
    IF c[1] \in {"stock", "account"} THEN 0
    ELSE IF c[1] = "order" THEN c[2]
    ELSE MaxOrders + c[2]

VARIABLES
    terms,      \* the immutable columns of the orders
    job,        \* what each request asks for
    db,         \* committed value of every column
    executions, \* committed executions of each order, oldest first
    txn,        \* the transaction of each request
    overlapped  \* history: users about whom two requests have overlapped

vars == <<terms, job, db, executions, txn, overlapped>>

(***************************************************************************)
(* A transaction: where it is (new, work, flush, end), what its session    *)
(* has loaded or assigned, which columns it has still to flush, which it   *)
(* has flushed and holds locked, the orders it has still to execute, the   *)
(* stocks it has quoted and the executions it has inserted.                *)
(***************************************************************************)
NewTxn == [step |-> "new", mem |-> <<>>, dirty |-> {}, written |-> {},
           todo |-> {}, quoted |-> {}, fills |-> <<>>]
Ended == [NewTxn EXCEPT !.step = "end"]

Kind(r) == job[r].kind

Owner(r) == IF Kind(r) = "refresh" THEN job[r].user ELSE terms[job[r].order].user

Running(r) == txn[r].step \notin {"new", "end"}

----------------------------------------------------------------------------
\* What a session does with columns

\* The function f, extended by g.
Extended(f, g) ==
    [x \in DOMAIN f \cup DOMAIN g |-> IF x \in DOMAIN f THEN f[x] ELSE g[x]]

\* A SELECT; columns loaded before keep their values.
Load(t, columns) == [t EXCEPT !.mem = Extended(@, [c \in columns |-> db[c]])]

\* An assignment; the unit of work sees a net change only.
Assign(t, c, v) ==
    IF t.mem[c] = v THEN t
    ELSE [t EXCEPT !.mem = [@ EXCEPT ![c] = v], !.dirty = @ \cup {c}]

\* db.flush() begins; with nothing to write it is over.
Flushing(t) == [t EXCEPT !.step = IF t.dirty = {} THEN "work" ELSE "flush"]

\* The last order is followed by a flush.
Proceed(t) == IF t.todo = {} THEN Flushing(t) ELSE [t EXCEPT !.step = "work"]

\* The order that t executes next, the oldest.
Upcoming(t) == {o \in t.todo : \A other \in t.todo : o <= other}

\* The column whose row the flush of t updates next.
NextColumn(t) == CHOOSE c \in t.dirty : \A d \in t.dirty : Rank(c) <= Rank(d)

Holds(r, row) == row \in {Row(c) : c \in txn[r].written}

WaitsFor(r, other) ==
    /\ txn[r].step = "flush" /\ other # r
    /\ Holds(other, Row(NextColumn(txn[r])))

----------------------------------------------------------------------------
\* An order that is yet to be submitted, one in the book, one under review.
Waiting == {[status |-> None, decision |-> None, event |-> None],
            [status |-> "ACCEPTED", decision |-> "ALLOW", event |-> "AUTO_ALLOWED"],
            [status |-> "HELD", decision |-> "HELD", event |-> "OPEN"]}

\* The database when the requests arrive.
Database(start, market) ==
    [c \in Columns |->
        CASE c[1] = "stock" -> market[c[2]]
          [] c[1] = "account" -> OpeningCash[c[2]]
          [] c[1] = "order" -> start[c[2]].status
          [] c[1] = "decision" -> start[c[2]].decision
          [] c[1] = "event" -> start[c[2]].event]

\* A request names an order that is in the database, or submits one that is not.
Sensible(r) ==
    Kind(r) # "refresh" => (Kind(r) = "submit" <=> db[Status(job[r].order)] = None)

Init ==
    /\ terms \in Books
    /\ \E start \in [Orders -> Waiting], market \in [Stocks -> Prices] :
        /\ \A o \in Orders : start[o].status = "ACCEPTED" => terms[o].type = "LIMIT"
        /\ db = Database(start, market)
    /\ executions = [o \in Orders |-> <<>>]
    /\ job \in [Requests -> Jobs]
    /\ \A r \in Requests : Sensible(r)
    /\ \A r, other \in Requests :
        Kind(r) = "submit" /\ job[r] = job[other] => r = other
    /\ txn = [r \in Requests |-> NewTxn]
    /\ overlapped = {}

\* Transaction r becomes t, and nothing is committed.
Continue(r, t) ==
    /\ txn' = [txn EXCEPT ![r] = t]
    /\ UNCHANGED <<terms, job, db, executions>>

\* A request's first SELECT.
Begins(r) ==
    /\ txn[r].step = "new"
    /\ overlapped' = overlapped \cup
            {Owner(other) : other \in {x \in Requests : Running(x) /\ Owner(x) = Owner(r)}}

Open == {"PENDING", "ACCEPTED"}
Cancellable == {"PENDING", "ACCEPTED", "HELD"}
Approvable == {"HELD", "BLOCKED", "PENDING"}

\* GET /orders: one SELECT joins the open orders of the user, oldest first,
\* with their stocks and the account.
BeginRefresh(r) ==
    LET u == job[r].user
        open == {o \in Orders : terms[o].user = u /\ db[Status(o)] \in Open}
        loaded == Load(NewTxn, {Cash(u)} \cup {Status(o) : o \in open}
                                         \cup {Price(terms[o].stock) : o \in open})
    IN  /\ Begins(r) /\ Kind(r) = "refresh"
        /\ Continue(r, [loaded EXCEPT !.step = "work",
                                      !.todo = open])

\* POST /orders/{id}/cancel; an order that is not waiting is a 400.
BeginCancel(r) ==
    LET status == Status(job[r].order) IN
    /\ Begins(r) /\ Kind(r) = "cancel"
    /\ Continue(r, IF db[status] \in Cancellable
                   THEN Flushing(Assign(Load(NewTxn, {status}), status, "CANCELLED"))
                   ELSE Ended)

\* What one SELECT of the review desk joins: event, order, stock and account.
Reviewed(o) ==
    Load(NewTxn, {Status(o), Decision(o), EventStatus(o),
                  Price(terms[o].stock), Cash(terms[o].user)})

\* A mutant: the event's status is written to its decision.
SetEventStatusTwice(t, o, decision, eventStatus) ==
    Assign(Assign(t, Decision(o), eventStatus), EventStatus(o), eventStatus)

\* A mutant: the event's decision is forgotten.
SetEventStatusOnly(t, o, decision, eventStatus) ==
    Assign(t, EventStatus(o), eventStatus)

SetEvent(t, o, decision, eventStatus) ==
    Assign(Assign(t, Decision(o), decision), EventStatus(o), eventStatus)

\* POST /admin/risk-events/{id}/actions: APPROVE ...
BeginApprove(r) ==
    LET o == job[r].order
        t == SetEvent(Reviewed(o), o, "ALLOW", "APPROVED")
    IN  /\ Begins(r) /\ Kind(r) = "approve"
        /\ Continue(r, IF db[Status(o)] \in Approvable
                       THEN [t EXCEPT !.step = "work", !.todo = {o}]
                       ELSE Flushing(t))

\* ... and BLOCK.
BeginBlock(r) ==
    LET o == job[r].order
        t == SetEvent(Reviewed(o), o, "BLOCKED", "BLOCKED")
    IN  /\ Begins(r) /\ Kind(r) = "block"
        /\ Continue(r, Flushing(Assign(t, Status(o), "BLOCKED")))

\* POST /orders, for an order that screening allows: the account and the
\* stock are read, the order and its event are inserted.  Rows no other
\* transaction can see yet count as written.
BeginSubmit(r) ==
    LET o == job[r].order
        inserted == [c \in {Status(o), Decision(o), EventStatus(o)} |->
                        CASE c = Status(o) -> "PENDING"
                          [] c = Decision(o) -> "ALLOW"
                          [] c = EventStatus(o) -> "AUTO_ALLOWED"]
        loaded == Load(NewTxn, {Price(terms[o].stock), Cash(terms[o].user)})
    IN  /\ Begins(r) /\ Kind(r) = "submit"
        /\ Continue(r, [loaded EXCEPT !.step = "work", !.mem = Extended(@, inserted),
                                      !.written = DOMAIN inserted, !.todo = {o}])

\* A refresh quotes the stock of its next order unless it has: from the cache
\* or in vain, or live, which assigns stocks.current_price and flushes.
Quote(r) ==
    \E s \in {terms[o].stock : o \in Upcoming(txn[r])} :
        LET quoting == [txn[r] EXCEPT !.quoted = @ \cup {s}] IN
        /\ txn[r].step = "work" /\ Kind(r) = "refresh"
        /\ s \notin txn[r].quoted
        /\ \/ Continue(r, quoting)
           \/ \E p \in Prices : Continue(r, Flushing(Assign(quoting, Price(s), p)))

----------------------------------------------------------------------------
\* The shares so many executions of order o bring; sales take them away.
Shares(o, fills) ==
    IF terms[o].side = "BUY" THEN fills * terms[o].quantity
                             ELSE - (fills * terms[o].quantity)

OrdersOf(u, s) == {o \in Orders : terms[o].user = u /\ terms[o].stock = s}

\* The executions as transaction t sees them: those committed and its own.
Traded(t) ==
    [o \in Orders |-> IF o \in DOMAIN t.fills THEN Append(executions[o], t.fills[o])
                                              ELSE executions[o]]

\* What user u holds of stock s by the executions of each order.
Held(trades, u, s) ==
    OpeningShares[u][s]
        + SumFunctionOnSet([o \in Orders |-> Shares(o, Len(trades[o]))], OrdersOf(u, s))

\* get_position_quantity is a SELECT of its own.
Position(t, u, s) == Held(Traded(t), u, s)

\* A mutant: the cash is compared with the quote, slippage left out.
FundedAtQuote(t, w, cur) ==
    IF w.side = "BUY"
    THEN cur * w.quantity <= t.mem[Cash(w.user)]
    ELSE w.quantity <= Position(t, w.user, w.stock)

\* A mutant: the holdings are not looked up.
FundedForAnySale(t, w, cur) ==
    w.side = "BUY" => FillPrice(w, cur) * w.quantity <= t.mem[Cash(w.user)]

\* The cash as the session loaded it, the shares as they are now.
Funded(t, w, cur) ==
    IF w.side = "BUY"
    THEN FillPrice(w, cur) * w.quantity <= t.mem[Cash(w.user)]
    ELSE w.quantity <= Position(t, w.user, w.stock)

\* A mutant: the account moves by the limit, the execution has the market price.
FillAtLimit(t, o, cur) ==
    LET w == terms[o]
        cash == t.mem[Cash(w.user)]
        debited == Assign(t, Cash(w.user), IF w.side = "BUY" THEN cash - w.price * w.quantity
                                                             ELSE cash + w.price * w.quantity)
    IN  Flushing([Assign(debited, Status(o), "EXECUTED") EXCEPT
                    !.fills = Extended(@, [x \in {o} |-> FillPrice(w, cur)])])

\* A mutant: a market order's execution is left for the feed to report.
FillLimitOnly(t, o, cur) ==
    LET w == terms[o] IN
    IF w.type = "LIMIT" THEN FillAtLimit(t, o, cur)
    ELSE Flushing(Assign(t, Status(o), "EXECUTED"))

Fill(t, o, cur) ==
    LET w == terms[o]
        paid == FillPrice(w, cur) * w.quantity
        cash == t.mem[Cash(w.user)]
        debited == Assign(t, Cash(w.user), IF w.side = "BUY" THEN cash - paid ELSE cash + paid)
    IN  Flushing([Assign(debited, Status(o), "EXECUTED") EXCEPT
                    !.fills = Extended(@, [x \in {o} |-> FillPrice(w, cur)])])

\* A mutant: the account is debited before the balance is checked.
ExecuteDebitFirst(r) ==
    \E o \in Upcoming(txn[r]) :
        LET w == terms[o]
            t == [txn[r] EXCEPT !.todo = @ \ {o}]
            cur == t.mem[Price(w.stock)]
            debited == Assign(t, Cash(w.user),
                              t.mem[Cash(w.user)] - FillPrice(w, cur) * w.quantity)
        IN
        /\ txn[r].step = "work"
        /\ Kind(r) = "refresh" => w.stock \in t.quoted
        /\ \/ ~Marketable(w, cur) /\ Continue(r, Proceed(Assign(t, Status(o), "ACCEPTED")))
           \/ Marketable(w, cur) /\ Funded(t, w, cur) /\ Continue(r, Fill(t, o, cur))
           \/ /\ Marketable(w, cur) /\ ~Funded(t, w, cur)
              /\ Continue(r, IF Kind(r) = "refresh"
                             THEN Proceed(Assign(debited, Status(o), "REJECTED"))
                             ELSE Ended)

\* execute_order_if_possible on the next order.  It looks at neither the
\* order's status nor its executions.  A submission or an approval that
\* cannot be paid for raises and is rolled back; a refresh rejects.
Execute(r) ==
    \E o \in Upcoming(txn[r]) :
        LET w == terms[o]
            t == [txn[r] EXCEPT !.todo = @ \ {o}]
            cur == t.mem[Price(w.stock)]
        IN
        /\ txn[r].step = "work"
        /\ Kind(r) = "refresh" => w.stock \in t.quoted
        /\ \/ ~Marketable(w, cur) /\ Continue(r, Proceed(Assign(t, Status(o), "ACCEPTED")))
           \/ Marketable(w, cur) /\ Funded(t, w, cur) /\ Continue(r, Fill(t, o, cur))
           \/ /\ Marketable(w, cur) /\ ~Funded(t, w, cur)
              /\ Continue(r, IF Kind(r) = "refresh"
                             THEN Proceed(Assign(t, Status(o), "REJECTED"))
                             ELSE Ended)

\* One UPDATE of a flush, once no other transaction holds the row.
Write(r) ==
    LET t == txn[r]
        columns == {c \in t.dirty : Row(c) = Row(NextColumn(t))}
        left == t.dirty \ columns
    IN  /\ t.step = "flush"
        /\ \A other \in Requests : ~WaitsFor(r, other)
        /\ Continue(r, [t EXCEPT !.written = @ \cup columns, !.dirty = left,
                                 !.step = IF left = {} THEN "work" ELSE "flush"])

\* A mutant: the session is not closed, its row locks stay.
CommitAndLinger(r) ==
    LET t == txn[r] IN
    /\ t.step = "work" /\ t.todo = {}
    /\ db' = [c \in Columns |-> IF c \in t.written THEN t.mem[c] ELSE db[c]]
    /\ executions' = Traded(t)
    /\ txn' = [txn EXCEPT ![r].step = "end"]
    /\ UNCHANGED <<terms, job>>

Commit(r) ==
    LET t == txn[r] IN
    /\ t.step = "work" /\ t.todo = {}
    /\ db' = [c \in Columns |-> IF c \in t.written THEN t.mem[c] ELSE db[c]]
    /\ executions' = Traded(t)
    /\ txn' = [txn EXCEPT ![r] = Ended]
    /\ UNCHANGED <<terms, job>>

\* PostgreSQL ends one transaction of a cycle of waits, and its request with
\* a 500.  Every transaction waits for one other at most.
Deadlocked(r) ==
    \E cycle \in SUBSET Requests :
        /\ r \in cycle
        /\ \A x \in cycle : /\ \E y \in cycle : WaitsFor(x, y)
                            /\ \E y \in cycle : WaitsFor(y, x)

AbortDeadlocked(r) ==
    /\ Deadlocked(r)
    /\ Continue(r, Ended)
    /\ UNCHANGED overlapped

Begin(r) ==
    \/ BeginRefresh(r) \/ BeginCancel(r) \/ BeginApprove(r)
    \/ BeginBlock(r) \/ BeginSubmit(r)

\* What the thread of request r does by itself once it runs.
Work(r) ==
    /\ Quote(r) \/ Execute(r) \/ Write(r) \/ Commit(r)
    /\ UNCHANGED overlapped

\* Every request has ended.
AllEnded == (\A r \in Requests : txn[r].step = "end") /\ UNCHANGED vars

Next ==
    \/ \E r \in Requests : Begin(r) \/ Work(r) \/ AbortDeadlocked(r)
    \/ AllEnded

\* The operating system runs every thread, and the database looks for
\* deadlocks (deadlock_timeout); nobody has to send a request.
Fairness == \A r \in Requests : WF_vars(Work(r)) /\ WF_vars(AbortDeadlocked(r))

Spec == Init /\ [][Next]_vars
FairSpec == Spec /\ Fairness
----------------------------------------------------------------------------
\* What executions of order o at these prices bring; purchases cost.
Proceeds(o, prices) ==
    IF terms[o].side = "BUY" THEN - (terms[o].quantity * SumFunction(prices))
                             ELSE terms[o].quantity * SumFunction(prices)

\* The cash of user u by the executions of each order.
Balance(trades, u) ==
    OpeningCash[u] + SumFunctionOnSet([o \in Orders |-> Proceeds(o, trades[o])],
                                      {o \in Orders : terms[o].user = u})

TypeOfColumn(c) ==
    CASE c[1] = "stock" -> Prices
      [] c[1] = "account" -> Int
      [] c[1] = "order" -> OrderStatus \cup {None}
      [] c[1] = "decision" -> RiskDecision \cup {None}
      [] c[1] = "event" -> RiskEventStatus \cup {None}

\* What a transaction holds, by its type.
TxnTypeOK(t) ==
    /\ DOMAIN t = DOMAIN NewTxn
    /\ t.step \in {"new", "work", "flush", "end"}
    /\ DOMAIN t.mem \subseteq Columns
    /\ \A c \in DOMAIN t.mem : t.mem[c] \in TypeOfColumn(c)
    /\ t.dirty \cup t.written \subseteq DOMAIN t.mem
    /\ t.step = "flush" => t.dirty # {}
    /\ t.todo \subseteq Orders /\ t.quoted \subseteq Stocks
    /\ DOMAIN t.fills \subseteq Orders
    /\ \A o \in DOMAIN t.fills : t.fills[o] \in Nat

\* The type invariant: the database and what a session has loaded hold what
\* the columns can hold, and a session flushes only what it has loaded.
TypeOK ==
    /\ terms \in Books
    /\ job \in [Requests -> Jobs]
    /\ DOMAIN db = Columns
    /\ \A c \in Columns : db[c] \in TypeOfColumn(c)
    /\ executions \in [Orders -> Seq(Nat)]
    /\ DOMAIN txn = Requests
    /\ \A r \in Requests : TxnTypeOK(txn[r])
    /\ overlapped \subseteq Users

----------------------------------------------------------------------------
\* What overlapping requests cannot break

\* No balance goes negative, whatever overlaps: a debit is lost or doubled,
\* but the balance that is written was checked by the session that writes it.
NoOverdraft == \A u \in Users : db[Cash(u)] >= 0

\* An order shown as EXECUTED has traded: the status and the execution are
\* committed together, and no overlapping request can restore a status.
ExecutedHasTraded ==
    \A o \in Orders : db[Status(o)] = "EXECUTED" => executions[o] # <<>>

\* Money moves only with a trade: a commit that changes a balance also
\* inserts an execution of the same user.
MoneyMovesWithTrades ==
    [][\A u \in Users : db'[Cash(u)] # db[Cash(u)] =>
            \E o \in Orders : terms[o].user = u /\ executions'[o] # executions[o]]_vars

\* Requests that overlap wait for each other's rows and may deadlock, and
\* still every one that has begun ends.
EveryRequestEnds == \A r \in Requests : Running(r) ~> txn[r].step = "end"

----------------------------------------------------------------------------
\* What holds for a user about whom no two requests have overlapped, while
\* those about other users overlap and share the rows of stocks

Undisturbed == Users \ overlapped

Balanced(u) == db[Cash(u)] = Balance(executions, u)

\* The cash column, overwritten by every fill with a value computed from
\* what the session loaded, agrees with the executions table.
LedgerBalanced == \A u \in Undisturbed : Balanced(u)

\* Nobody sells shares that are not held.
NoShortPosition == \A u \in Undisturbed, s \in Stocks : Held(executions, u, s) >= 0

\* What the status of an order says of the decision and of the event.
Agree(status, decision, event) ==
    /\ status \in {"PENDING", "ACCEPTED", "EXECUTED", "REJECTED"} => decision = "ALLOW"
    /\ status = "BLOCKED" <=> decision = "BLOCKED"
    /\ decision = "BLOCKED" <=> event = "BLOCKED"

\* The three columns that two tables keep of an order agree.
StatusMatchesDecision ==
    \A o \in Orders : terms[o].user \in Undisturbed =>
        Agree(db[Status(o)], db[Decision(o)], db[EventStatus(o)])

----------------------------------------------------------------------------
\* The strengthening under which they are inductive

ColumnsOf(o) == {Status(o), Decision(o), EventStatus(o)}

\* A session with nothing left to execute or to flush may commit; it has what
\* it needs of the orders it will execute, and has not executed them; what it
\* has of an order is its user's; the money it has moved, and an order it
\* takes to be executed, have traded.
TxnOK(r, t) ==
    /\ t.step # "flush" /\ t.todo = {} => t.dirty = {}
    /\ \A o \in t.todo :
          /\ {Status(o), Cash(terms[o].user), Price(terms[o].stock)} \subseteq DOMAIN t.mem
          /\ terms[o].user = Owner(r)
          /\ o \notin DOMAIN t.fills
    /\ \A o \in DOMAIN t.fills : terms[o].user = Owner(r)
    /\ \A o \in Orders :
          /\ ColumnsOf(o) \cap DOMAIN t.mem # {} => terms[o].user = Owner(r)
          /\ Status(o) \in DOMAIN t.mem /\ t.mem[Status(o)] = "EXECUTED" =>
                o \in DOMAIN t.fills \/ executions[o] # <<>>
    /\ \A u \in Users :
          /\ Cash(u) \in DOMAIN t.mem => t.mem[Cash(u)] >= 0
          /\ Cash(u) \in t.dirty \cup t.written => \E o \in DOMAIN t.fills : terms[o].user = u

\* What a column will be if t commits now.
Seen(t, c) == IF c \in DOMAIN t.mem THEN t.mem[c] ELSE db[c]

\* A session alone with its user's orders has loaded what is still committed,
\* and leaves those it is done with in agreement ...
OrdersAgree(r, t) ==
    \A o \in Orders : terms[o].user = Owner(r) =>
        /\ \A c \in ColumnsOf(o) \ (t.dirty \cup t.written) : Seen(t, c) = db[c]
        /\ IF o \in t.todo
           THEN Seen(t, Decision(o)) = "ALLOW" /\ Seen(t, EventStatus(o)) # "BLOCKED"
           ELSE Agree(Seen(t, Status(o)), Seen(t, Decision(o)), Seen(t, EventStatus(o)))

\* ... and the balance and the holdings in keeping with the executions it sees.
BooksKept(r, t) ==
    LET u == Owner(r) IN
    /\ Cash(u) \notin t.dirty \cup t.written => Seen(t, Cash(u)) = db[Cash(u)]
    /\ Seen(t, Cash(u)) = Balance(Traded(t), u)
    /\ \A s \in Stocks : Position(t, u, s) >= 0

AloneOK(r, t) == OrdersAgree(r, t) /\ BooksKept(r, t)

\* The inductive invariant of OrderTxProofs.
IInv ==
    /\ TypeOK
    /\ NoOverdraft /\ ExecutedHasTraded /\ StatusMatchesDecision
    /\ LedgerBalanced /\ NoShortPosition
    /\ \A r \in Requests :
          /\ TxnOK(r, txn[r])
          /\ Running(r) /\ Owner(r) \in Undisturbed => AloneOK(r, txn[r])
    /\ \A r, other \in Requests :
          r # other /\ Running(r) /\ Running(other) /\ Owner(r) = Owner(other)
              => Owner(r) \in overlapped

----------------------------------------------------------------------------
\* What the documents say and overlapping requests do not keep

\* FEATURES.md:75 "changes of an order's status are reflected in the
\* balance": once no request runs, the balance is the opening balance with
\* the proceeds of the orders' executions.
BalanceReflectsOrders ==
    (\A r \in Requests : ~Running(r)) => \A u \in Users : Balanced(u)
=============================================================================
