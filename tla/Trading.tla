------------------------------ MODULE Trading ------------------------------
(***************************************************************************)
(* Orders from submission to fill: order_service.create_order, cancel_order*)
(* and sync_open_orders_for_user, trading_service, the order controls of   *)
(* security_service, the five admin actions of admin_service and the       *)
(* single-order lab scenario.                                              *)
(*                                                                         *)
(* The database is seen as the committed state between requests, and       *)
(* requests run one at a time (a multi-order refresh takes one step per    *)
(* order, and no other request starts before it ends).  A request that     *)
(* raises is rolled back: it leaves nothing but the identifier it used.    *)
(* Audit rows, metadata_json and summaries are left out.                   *)
(***************************************************************************)
EXTENDS Enums, Pricing, Sequences, Functions

CONSTANTS
    Users, Stocks,
    Prices,         \* whole-won prices the feed can report, and limit prices
    Quantities,     \* quantities an order can ask for
    OpeningCash,    \* opening balance of each user's account
    HighValue,      \* settings.high_value_step_up_threshold
    Scores,         \* totals the rule engine can return
    Views,          \* what a submitting session can look like
    NoTerms,        \* the terms of an order that is not in the database
    MaxOrders,      \* bound: orders submitted
    MaxFills        \* bound: an order filled so often is not approved again

\* The web client sends a price with LIMIT orders only, and the server
\* refuses a LIMIT order without one.
Terms ==
    [user: Users, stock: Stocks, side: {"BUY", "SELL"}, quantity: Quantities,
     type: {"LIMIT"}, price: Prices]
    \cup
    [user: Users, stock: Stocks, side: {"BUY", "SELL"}, quantity: Quantities,
     type: {"MARKET"}, price: {NoPrice}]

ASSUME TradingAssumption ==
    /\ Prices \subseteq Nat \ {0}
    /\ Quantities \subseteq Nat \ {0}
    /\ OpeningCash \in [Users -> Nat]
    /\ HighAmount \in Nat /\ HighValue \in Nat
    /\ Scores \subseteq Nat
    /\ Views \subseteq SessionViews
    /\ NoTerms \notin Terms
    /\ MaxOrders \in Nat /\ MaxFills \in Nat

\* Identifiers in created_at order.
OrderIds == 1..MaxOrders

VARIABLES
    userStatus,     \* users.status
    signedIn,       \* the user has an ACTIVE auth_sessions row
    cash,           \* accounts.cash_balance
    position,       \* get_position_quantity, kept up to date
    price,          \* stocks.current_price
    terms,          \* the immutable columns of orders
    status,         \* orders.status
    event,          \* the order's risk_events row and its PENDING
                    \* additional_auth_requests rows
    executions,     \* prices of the order's executions rows, oldest first
    nextOrder,      \* next identifier
    todo,           \* orders the running refresh has still to visit
    quoted          \* stocks the running refresh has already quoted

users == <<userStatus, signedIn>>
ledger == <<cash, position, executions>>
refresh == <<todo, quoted>>
vars == <<users, ledger, price, terms, status, event, nextOrder, refresh>>

NoEvent == [decision |-> None, status |-> None, pendingAuth |-> 0]

\* Orders in the database, and the user an order belongs to.
Placed == {o \in OrderIds : status[o] # None}
Owner(o) == terms[o].user

Idle == todo = {}

\* Every price a fill can have.
FillPrices == {FillPrice(t, cur) : t \in Terms, cur \in Prices}

----------------------------------------------------------------------------
\* Execution: execute_order_if_possible and its two callers' manners

\* A mutant: the cash is compared with the quote, slippage left out.
FundedAtQuote(t, cur) ==
    IF t.side = "BUY"
    THEN cur * t.quantity <= cash[t.user]
    ELSE t.quantity <= position[t.user][t.stock]

Funded(t, cur) ==
    IF t.side = "BUY"
    THEN FillPrice(t, cur) * t.quantity <= cash[t.user]
    ELSE t.quantity <= position[t.user][t.stock]

AcceptOrder(o) ==
    /\ status' = [status EXCEPT ![o] = "ACCEPTED"]
    /\ UNCHANGED ledger

RejectOrder(o) ==
    /\ status' = [status EXCEPT ![o] = "REJECTED"]
    /\ UNCHANGED ledger

\* A mutant: the account moves by the quote, the execution has the slippage.
FillOrderAtQuote(o, t, cur) ==
    /\ status' = [status EXCEPT ![o] = "EXECUTED"]
    /\ executions' = [executions EXCEPT ![o] = Append(@, FillPrice(t, cur))]
    /\ \/ /\ t.side = "BUY"
          /\ cash' = [cash EXCEPT ![t.user] = @ - cur * t.quantity]
          /\ position' = [position EXCEPT ![t.user][t.stock] = @ + t.quantity]
       \/ /\ t.side = "SELL"
          /\ cash' = [cash EXCEPT ![t.user] = @ + cur * t.quantity]
          /\ position' = [position EXCEPT ![t.user][t.stock] = @ - t.quantity]

\* The whole quantity is filled at once.
FillOrder(o, t, cur) ==
    LET paid == FillPrice(t, cur) * t.quantity IN
    /\ status' = [status EXCEPT ![o] = "EXECUTED"]
    /\ executions' = [executions EXCEPT ![o] = Append(@, FillPrice(t, cur))]
    /\ \/ /\ t.side = "BUY"
          /\ cash' = [cash EXCEPT ![t.user] = @ - paid]
          /\ position' = [position EXCEPT ![t.user][t.stock] = @ + t.quantity]
       \/ /\ t.side = "SELL"
          /\ cash' = [cash EXCEPT ![t.user] = @ + paid]
          /\ position' = [position EXCEPT ![t.user][t.stock] = @ - t.quantity]

\* raise_on_rejection=True; where Raises holds the caller is rolled back.
Raises(t, cur) == Marketable(t, cur) /\ ~Funded(t, cur)

ExecuteOrRaise(o, t, cur) ==
    \/ ~Marketable(t, cur) /\ AcceptOrder(o)
    \/ Marketable(t, cur) /\ Funded(t, cur) /\ FillOrder(o, t, cur)

\* raise_on_rejection=False.
ExecuteOrReject(o, t, cur) ==
    \/ ExecuteOrRaise(o, t, cur)
    \/ Raises(t, cur) /\ RejectOrder(o)

----------------------------------------------------------------------------
\* Screening: the risk event the engine writes, then the order controls

\* enforce_order_security_controls asks for additional authentication.
StepUp(amount, view) ==
    \/ view.strength = "STEP_UP_REQUIRED"
    \/ view.trust \in {"WATCH", "STEP_UP_REQUIRED"} /\ amount >= HighValue
    \/ /\ view.trust \notin {"WATCH", "STEP_UP_REQUIRED"}
       /\ view.highRisk /\ amount >= HighAmount

\* The event of an order submitted without a session (by the lab).
EngineEvent(score) ==
    [decision |-> RiskBand(score).decision,
     status |-> RiskBand(score).status, pendingAuth |-> 0]

\* The event of an order submitted on a session.
ScreenedEvent(amount, score, view) ==
    IF view.trust = "BLOCKED"
    THEN [decision |-> "BLOCKED", status |-> "BLOCKED", pendingAuth |-> 0]
    ELSE IF StepUp(amount, view) /\ RiskBand(score).decision # "BLOCKED"
    THEN [decision |-> "AUTH_REQUIRED", status |-> "AUTH_REQUIRED", pendingAuth |-> 1]
    ELSE EngineEvent(score)

----------------------------------------------------------------------------
Init ==
    /\ userStatus = [u \in Users |-> "ACTIVE"]
    /\ signedIn = [u \in Users |-> FALSE]
    /\ cash = OpeningCash
    /\ position = [u \in Users |-> [s \in Stocks |-> 0]]
    /\ price \in [Stocks -> Prices]
    /\ terms = [o \in OrderIds |-> NoTerms]
    /\ status = [o \in OrderIds |-> None]
    /\ event = [o \in OrderIds |-> NoEvent]
    /\ executions = [o \in OrderIds |-> <<>>]
    /\ nextOrder = 1
    /\ todo = {}
    /\ quoted = {}

\* A login that succeeds; sessions in detail are SessionSecurity's.
Login(u) ==
    /\ Idle
    /\ userStatus[u] = "ACTIVE" /\ ~signedIn[u]
    /\ signedIn' = [signedIn EXCEPT ![u] = TRUE]
    /\ UNCHANGED <<userStatus, ledger, price, terms, status, event, nextOrder, refresh>>

\* The user's last session ends: logout, revocation, device block or expiry.
EndSession(u) ==
    /\ Idle
    /\ signedIn[u]
    /\ signedIn' = [signedIn EXCEPT ![u] = FALSE]
    /\ UNCHANGED <<userStatus, ledger, price, terms, status, event, nextOrder, refresh>>

\* create_order: insert the order and its risk event, then block it, hold it
\* or execute it; an order that cannot be paid for is rolled back with its
\* risk event.
CreateOrder(t, e) ==
    LET o == nextOrder IN
    /\ Idle /\ o \in OrderIds
    /\ nextOrder' = o + 1
    /\ \/ /\ terms' = [terms EXCEPT ![o] = t]
          /\ event' = [event EXCEPT ![o] = e]
          /\ \/ /\ e.decision = "BLOCKED"
                /\ status' = [status EXCEPT ![o] = "BLOCKED"]
                /\ UNCHANGED ledger
             \/ /\ e.decision \in {"HELD", "AUTH_REQUIRED"}
                /\ status' = [status EXCEPT ![o] = "HELD"]
                /\ UNCHANGED ledger
             \/ /\ e.decision = "ALLOW"
                /\ ExecuteOrRaise(o, t, price[t.stock])
       \/ /\ e.decision = "ALLOW" /\ Raises(t, price[t.stock])
          /\ UNCHANGED <<terms, event, status, ledger>>
    /\ UNCHANGED <<users, price, refresh>>

\* POST /orders
SubmitOrder(t, score, view) ==
    /\ signedIn[t.user]
    /\ CreateOrder(t, ScreenedEvent(OrderAmount(t, price[t.stock]), score, view))

\* The lab's market purchase on behalf of a demo user, with no session.
LabOrder(t, score) ==
    /\ t.side = "BUY" /\ t.type = "MARKET"
    /\ CreateOrder(t, EngineEvent(score))

Open == {"PENDING", "ACCEPTED"}
Cancellable == {"PENDING", "ACCEPTED", "HELD"}

\* POST /orders/{id}/cancel
CancelOrder(o) ==
    /\ Idle
    /\ o \in Placed /\ signedIn[Owner(o)]
    /\ status[o] \in Cancellable
    /\ status' = [status EXCEPT ![o] = "CANCELLED"]
    /\ UNCHANGED <<users, ledger, price, terms, event, nextOrder, refresh>>

\* GET /orders: the open orders of the user are listed ...
BeginSync(u) ==
    LET open == {o \in Placed : Owner(o) = u /\ status[o] \in Open} IN
    /\ Idle
    /\ signedIn[u]
    /\ open # {}
    /\ todo' = open
    /\ UNCHANGED <<users, ledger, price, terms, status, event, nextOrder, quoted>>

\* A mutant: the order is executed at the price from before the quote.
SyncOrderAtOldPrice(o, p) ==
    LET s == terms[o].stock IN
    /\ o \in todo /\ \A other \in todo : o <= other
    /\ s \in quoted => p = price[s]
    /\ price' = [price EXCEPT ![s] = p]
    /\ ExecuteOrReject(o, terms[o], price[s])
    /\ todo' = todo \ {o}
    /\ quoted' = IF todo' = {} THEN {} ELSE quoted \cup {s}
    /\ UNCHANGED <<users, terms, event, nextOrder>>

\* ... and visited oldest first.  The first order of a stock quotes it, which
\* sets stocks.current_price to p; a cached or failed quote leaves it alone.
SyncOrder(o, p) ==
    LET s == terms[o].stock IN
    /\ o \in todo /\ \A other \in todo : o <= other
    /\ s \in quoted => p = price[s]
    /\ price' = [price EXCEPT ![s] = p]
    /\ ExecuteOrReject(o, terms[o], p)
    /\ todo' = todo \ {o}
    /\ quoted' = IF todo' = {} THEN {} ELSE quoted \cup {s}
    /\ UNCHANGED <<users, terms, event, nextOrder>>

----------------------------------------------------------------------------
\* POST /admin/risk-events/{id}/actions.  Every order has one risk event, so
\* an event is named by its order.

SetEvent(o, decision, eventStatus) ==
    event' = [event EXCEPT ![o].decision = decision, ![o].status = eventStatus]

\* The statuses out of which an approval executes the order.
ApprovableWhenExecuted == {"HELD", "BLOCKED", "PENDING", "EXECUTED"} \* a mutant
Approvable == {"HELD", "BLOCKED", "PENDING"}

\* APPROVE.  An approval whose execution raises is rolled back whole, which
\* is no step.
Approve(o) ==
    /\ Idle
    /\ o \in Placed
    /\ SetEvent(o, "ALLOW", "APPROVED")
    /\ \/ /\ status[o] \in Approvable
          /\ Len(executions[o]) < MaxFills
          /\ ExecuteOrRaise(o, terms[o], price[terms[o].stock])
       \/ /\ status[o] \notin Approvable
          /\ UNCHANGED <<status, ledger>>
    /\ UNCHANGED <<users, price, terms, nextOrder, refresh>>

\* A mutant: an order that is not waiting keeps its status.
BlockOpenOnly(o) ==
    /\ Idle
    /\ o \in Placed
    /\ SetEvent(o, "BLOCKED", "BLOCKED")
    /\ status' = [status EXCEPT ![o] = IF @ \in Cancellable THEN "BLOCKED" ELSE @]
    /\ UNCHANGED <<users, ledger, price, terms, nextOrder, refresh>>

\* BLOCK, whatever the status of the order.
Block(o) ==
    /\ Idle
    /\ o \in Placed
    /\ SetEvent(o, "BLOCKED", "BLOCKED")
    /\ status' = [status EXCEPT ![o] = "BLOCKED"]
    /\ UNCHANGED <<users, ledger, price, terms, nextOrder, refresh>>

\* REQUEST_ADDITIONAL_AUTH: one PENDING request per event.
RequestAuth(o) ==
    /\ Idle
    /\ o \in Placed
    /\ event' = [event EXCEPT ![o] =
            [decision |-> "AUTH_REQUIRED", status |-> "AUTH_REQUIRED",
             pendingAuth |-> IF @.pendingAuth = 0 THEN 1 ELSE @.pendingAuth]]
    /\ status' = [status EXCEPT ![o] = "HELD"]
    /\ UNCHANGED <<users, ledger, price, terms, nextOrder, refresh>>

\* A mutant: the sessions of the user stay active.
LockAccountOnly(o) ==
    /\ Idle
    /\ o \in Placed
    /\ userStatus' = [userStatus EXCEPT ![Owner(o)] = "LOCKED"]
    /\ SetEvent(o, "BLOCKED", "BLOCKED")
    /\ status' = [status EXCEPT ![o] = "BLOCKED"]
    /\ UNCHANGED <<signedIn, ledger, price, terms, nextOrder, refresh>>

\* LOCK_ACCOUNT also revokes every active session of the user.
LockAccount(o) ==
    /\ Idle
    /\ o \in Placed
    /\ userStatus' = [userStatus EXCEPT ![Owner(o)] = "LOCKED"]
    /\ signedIn' = [signedIn EXCEPT ![Owner(o)] = FALSE]
    /\ SetEvent(o, "BLOCKED", "BLOCKED")
    /\ status' = [status EXCEPT ![o] = "BLOCKED"]
    /\ UNCHANGED <<ledger, price, terms, nextOrder, refresh>>

\* UNLOCK_ACCOUNT leaves the event and the order as they are.
UnlockAccount(o) ==
    /\ Idle
    /\ o \in Placed
    /\ userStatus[Owner(o)] = "LOCKED"
    /\ userStatus' = [userStatus EXCEPT ![Owner(o)] = "ACTIVE"]
    /\ UNCHANGED <<signedIn, ledger, price, terms, status, event, nextOrder, refresh>>

AdminAction(o) ==
    Approve(o) \/ Block(o) \/ RequestAuth(o) \/ LockAccount(o) \/ UnlockAccount(o)

Next ==
    \/ \E u \in Users : Login(u) \/ EndSession(u) \/ BeginSync(u)
    \/ \E t \in Terms, score \in Scores, view \in Views : SubmitOrder(t, score, view)
    \/ \E t \in Terms, score \in Scores : LabOrder(t, score)
    \/ \E o \in todo, p \in Prices : SyncOrder(o, p)
    \/ \E o \in OrderIds : CancelOrder(o) \/ AdminAction(o)

Spec == Init /\ [][Next]_vars
----------------------------------------------------------------------------
\* Types

Events ==
    [decision: RiskDecision, status: RiskEventStatus, pendingAuth: Nat] \cup {NoEvent}

\* The type invariant: every variable holds what its column can hold, no share
\* changes hands for nothing, whatever its slippage, and an identifier is in
\* the database only after it was allocated.
TypeOK ==
    /\ userStatus \in [Users -> UserStatus]
    /\ signedIn \in [Users -> BOOLEAN]
    /\ cash \in [Users -> Int]
    /\ position \in [Users -> [Stocks -> Int]]
    /\ price \in [Stocks -> Prices]
    /\ terms \in [OrderIds -> Terms \cup {NoTerms}]
    /\ status \in [OrderIds -> OrderStatus \cup {None}]
    /\ event \in [OrderIds -> Events]
    /\ executions \in [OrderIds -> Seq(Nat \ {0})]
    /\ nextOrder \in 1..(MaxOrders + 1)
    /\ todo \subseteq Placed /\ quoted \subseteq Stocks
    /\ \A o \in OrderIds : status[o] # None => o < nextOrder

----------------------------------------------------------------------------
\* Safety

\* No balance goes negative, however fills of the same user follow each other
\* (slippage, refreshes and approvals included): the check of
\* trading_service.py:74 is on the amount the fill really takes.
NoOverdraft == \A u \in Users : cash[u] >= 0

\* Nobody sells shares that are not held, when several sell orders of one
\* user wait for the same shares and are filled by different requests.
NoShortPosition == \A u \in Users, s \in Stocks : position[u][s] >= 0

\* What fills of an order with terms t at these prices bring; a purchase costs.
Proceeds(t, prices) ==
    IF t.side = "BUY" THEN - (t.quantity * SumFunction(prices))
                      ELSE t.quantity * SumFunction(prices)

\* The shares they bring; a sale takes them away.
Shares(t, prices) ==
    IF t.side = "BUY" THEN Len(prices) * t.quantity ELSE - (Len(prices) * t.quantity)

\* The cash and the shares of user u by the executions of the user's orders.
Balance(u) ==
    OpeningCash[u] + SumFunctionOnSet([o \in Placed |-> Proceeds(terms[o], executions[o])],
                                      {o \in Placed : Owner(o) = u})

Held(u, s) ==
    SumFunctionOnSet([o \in Placed |-> Shares(terms[o], executions[o])],
                     {o \in Placed : Owner(o) = u /\ terms[o].stock = s})

\* The books balance: the cash column, which every fill updates in place, is
\* the opening balance with the proceeds of the executions table, and the
\* shares held are those of that table, over every mix of fills, rejections,
\* rollbacks, cancellations and reviews.
LedgerBalanced ==
    \A u \in Users : cash[u] = Balance(u) /\ \A s \in Stocks : position[u][s] = Held(u, s)

\* orders.status and risk_events.decision are written by seven operations in
\* two tables and never contradict each other: what was accepted, filled or
\* rejected is allowed, what is blocked was decided so, and what is held
\* waits for a reviewer or for authentication.
StatusMatchesDecision ==
    \A o \in Placed :
        /\ status[o] \in {"ACCEPTED", "EXECUTED", "REJECTED"}
              => event[o].decision = "ALLOW"
        /\ status[o] = "BLOCKED" <=> event[o].decision = "BLOCKED"
        /\ status[o] = "HELD" => event[o].decision \in {"HELD", "AUTH_REQUIRED"}

\* The review queue shows the decision in force: the event status each
\* operation writes always goes with the decision it writes.
EventStatusMatchesDecision ==
    \A o \in Placed :
        \/ event[o].decision = "ALLOW" /\ event[o].status \in {"AUTO_ALLOWED", "APPROVED"}
        \/ event[o].decision = "HELD" /\ event[o].status = "OPEN"
        \/ event[o].decision \in {"BLOCKED", "AUTH_REQUIRED"}
              /\ event[o].status = event[o].decision

\* An order is never left where no request can move it on: nothing rests in
\* PENDING, an ACCEPTED order has a limit for a refresh to compare with, and
\* an order that waits for authentication has exactly one pending request.
NoStrandedOrder ==
    \A o \in Placed :
        /\ status[o] # "PENDING"
        /\ status[o] = "ACCEPTED" => terms[o].type = "LIMIT"
        /\ event[o].decision = "AUTH_REQUIRED" => event[o].pendingAuth = 1

\* Nothing trades without leave: a fill happens only as its order reaches
\* EXECUTED under an ALLOW decision, and never to an order that was executed,
\* cancelled or rejected when the request began.
FillIsAuthorised ==
    [][\A o \in OrderIds : executions'[o] # executions[o] =>
            /\ event'[o].decision = "ALLOW"
            /\ status'[o] = "EXECUTED"
            /\ status[o] \in {None, "ACCEPTED", "HELD", "BLOCKED"}]_vars

\* Locking an account freezes it: of the orders it has, only one a reviewer
\* approves out of HELD or BLOCKED can still trade, so the refreshes that
\* were going to fill the ACCEPTED ones have stopped.
LockFreezesOrders ==
    [][\A o \in Placed :
            userStatus[Owner(o)] = "LOCKED" /\ executions'[o] # executions[o]
                => status[o] \in {"HELD", "BLOCKED"}]_vars

\* A refresh ends with every order it listed where the price it used puts it:
\* what it leaves ACCEPTED is a limit order the quoted price does not meet.
RefreshIsDecisive ==
    [][\A o \in todo \ todo' :
            \/ status'[o] \in {"EXECUTED", "REJECTED"}
            \/ /\ status'[o] = "ACCEPTED"
               /\ ~Marketable(terms[o], price'[terms[o].stock])]_vars

\* The abstract brokerage: every step is one covered trade of a whole order
\* at a price the market can give, or changes no account.
Ledger == INSTANCE Brokerage WITH cash <- cash, position <- position
ImplementsBrokerage == Ledger!Spec

----------------------------------------------------------------------------
\* The strengthening under which the safety properties are inductive

\* Locking revokes the sessions of the user and a login needs an ACTIVE user.
LockedIsSignedOut == \A u \in Users : signedIn[u] => userStatus[u] = "ACTIVE"

\* A refresh visits open orders of one user, who is signed in.
RefreshListsOpenOrders ==
    \A o \in todo : status[o] \in Open /\ signedIn[Owner(o)]

PlacedHaveTerms == \A o \in Placed : terms[o] \in Terms

\* What has executions is in the database.
ExecutionsArePlaced == \A o \in OrderIds : status[o] = None => executions[o] = <<>>

OneRequestAtMost == \A o \in OrderIds : event[o].pendingAuth \in {0, 1}

\* The inductive invariant of TradingProofs: besides the safety properties,
\* an account that is locked has no session left, which is what keeps the
\* refreshes of its orders from starting or going on.
IInv ==
    /\ TypeOK
    /\ NoOverdraft /\ NoShortPosition
    /\ StatusMatchesDecision /\ EventStatusMatchesDecision /\ NoStrandedOrder
    /\ LockedIsSignedOut /\ RefreshListsOpenOrders
    /\ PlacedHaveTerms /\ OneRequestAtMost
    /\ LedgerBalanced /\ ExecutionsArePlaced

----------------------------------------------------------------------------
\* What the documents say and the code does not do

\* FEATURES.md:74 "executed quantity and unfilled quantity are tracked": the
\* quantity on an EXECUTED order, which is its whole quantity, is the sum of
\* its executions.
ExecutedQuantityTracked ==
    \A o \in Placed : status[o] = "EXECUTED" => Len(executions[o]) = 1
=============================================================================
