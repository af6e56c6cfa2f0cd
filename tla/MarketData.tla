----------------------------- MODULE MarketData -----------------------------
(***************************************************************************)
(* Quotes from the exchange to the orders that wait for them:              *)
(* market_data._build_quote behind a 5-second cache in Redis, the public   *)
(* feed behind a 5-second cache of its answers (live_market_data), the     *)
(* routes that quote, and the web client that calls them every 7 seconds,  *)
(* one after the other.                                                    *)
(*                                                                         *)
(* Time is counted in seconds.  Requests run one at a time, and what a     *)
(* request assigns to stocks.current_price is lost unless its route        *)
(* commits.  The caches and stocks.current_price are shared by all users.  *)
(* One of them is followed: her orders, limit orders that can be paid for, *)
(* and her client.  Of the others there is what they do to the shared      *)
(* state.  What else an execution does is Trading's.                       *)
(***************************************************************************)
EXTENDS Pricing, FiniteSets

CONSTANTS
    Stocks, Prices,
    Down,           \* in place of a price: the exchange does not answer
    Held,           \* stocks of which the user keeps some, whatever the orders do
    Shared,         \* stocks other users look at, and have orders for
    Orders,         \* orders waiting in the book
    Terms,          \* their terms: side, type LIMIT, price, stock
    RedisTTL,       \* setex(cache_key, 5, ...)
    FeedTTL,        \* _load_json(..., ttl_seconds=5)
    PollPeriod,     \* setInterval(..., 7000)
    MaxPolls        \* bound: polls under way at the same time

ASSUME MarketDataAssumption ==
    /\ Prices \subseteq Nat \ {0} /\ Down \notin Prices
    /\ Terms \in [Orders -> [stock: Stocks, side: {"BUY", "SELL"},
                             type: {"LIMIT"}, price: Prices]]
    /\ Held \subseteq Stocks /\ Shared \subseteq Stocks
    /\ RedisTTL \in Nat \ {0} /\ FeedTTL \in Nat /\ PollPeriod \in Nat \ {0}
    /\ MaxPolls \in Nat \ {0}

VARIABLES
    redis,      \* whether the server found a Redis when it started
    live,       \* what the exchange answers now
    answer,     \* _CACHE: the last answer for each stock and its age
    quote,      \* Redis: the quote of each stock and the seconds it has left
    price,      \* stocks.current_price
    open,       \* the orders still ACCEPTED
    moved,      \* history: stocks whose price another user's refresh has set
                \* since the last refresh of this user
    timer,      \* seconds until the client's interval fires
    request     \* by poll, the request the client waits for

caches == <<answer, quote>>
vars == <<redis, live, caches, price, open, moved, timer, request>>

NoAnswer == [price |-> Down, age |-> 0]

\* left = 0 is a key that Redis does not have.  age is that of the live
\* answer in the quote; a quote made without one has current = FALSE.
NoQuote == [price |-> Down, current |-> FALSE, age |-> 0, left |-> 0]

Polls == 1..MaxPolls

\* A poll that has got all its answers.
Done == "done"

----------------------------------------------------------------------------
\* A mutant: the answer is used one second past its time.
RemembersLonger(s) ==
    answer[s].price # Down /\ answer[s].age <= FeedTTL + 1

\* A mutant: what was once fetched is never fetched again.
RemembersForever(s) == answer[s].price # Down

\* _cache_get: an answer counts until it is older than its time.
Remembers(s) == answer[s].price # Down /\ answer[s].age <= FeedTTL

\* fetch_live_quote; NoAnswer where it raises.
Fetched(s) ==
    IF Remembers(s) THEN answer[s] ELSE [price |-> live[s], age |-> 0]

\* A stock whose quote comes from Redis.
Cached(s) == redis /\ quote[s].left > 0

\* A stock whose quote assigns stocks.current_price.
Quotes(s) == ~Cached(s) /\ Fetched(s).price # Down

\* What _build_quote leaves in Redis.
Built(s) ==
    IF Fetched(s).price # Down
    THEN [price |-> Fetched(s).price, current |-> TRUE, age |-> Fetched(s).age,
          left |-> RedisTTL]
    ELSE [price |-> price[s], current |-> FALSE, age |-> 0, left |-> RedisTTL]

\* _build_quote for some stocks, as far as the caches go.
BuildQuotes(stocks) ==
    /\ answer' = [s \in Stocks |->
            IF s \in stocks /\ Quotes(s) THEN Fetched(s) ELSE answer[s]]
    /\ quote' = [s \in Stocks |->
            IF s \in stocks /\ redis /\ ~Cached(s) THEN Built(s) ELSE quote[s]]

\* stocks.current_price, where the route commits what _build_quote assigns.
Repriced(stocks) ==
    [s \in Stocks |-> IF s \in stocks /\ Quotes(s) THEN Fetched(s).price ELSE price[s]]

----------------------------------------------------------------------------
\* Orders that were accepted: the price then did not meet their limits.
Init ==
    /\ redis \in BOOLEAN
    /\ live \in [Stocks -> Prices \cup {Down}]
    /\ answer = [s \in Stocks |-> NoAnswer]
    /\ quote = [s \in Stocks |-> NoQuote]
    /\ price \in [Stocks -> Prices]
    /\ \A o \in Orders : ~Marketable(Terms[o], price[Terms[o].stock])
    /\ open = Orders /\ moved = {}
    /\ timer = 0
    /\ request = [i \in Polls |-> Done]

\* The exchange moves, fails or comes back.
Move(s) ==
    /\ \E p \in Prices \cup {Down} : live' = [live EXCEPT ![s] = p]
    /\ UNCHANGED <<redis, caches, price, open, moved, timer, request>>

Older(entry) == [entry EXCEPT !.age = IF entry.age <= FeedTTL THEN @ + 1 ELSE @]

\* A second in the life of a quote in Redis.
Counted(entry) ==
    IF entry.left <= 1 THEN NoQuote
    ELSE [entry EXCEPT !.age = @ + 1, !.left = @ - 1]

\* A second passes.  The client answers its timer before the next one.
Tick ==
    /\ timer > 0
    /\ timer' = timer - 1
    /\ answer' = [s \in Stocks |->
            IF answer[s] = NoAnswer THEN NoAnswer ELSE Older(answer[s])]
    /\ quote' = [s \in Stocks |-> Counted(quote[s])]
    /\ UNCHANGED <<redis, live, price, open, moved, request>>

\* The interval fires and refreshDashboard begins, whether or not the last
\* one has ended.
Fire ==
    /\ timer = 0
    /\ timer' = PollPeriod
    /\ \E i \in Polls : /\ request[i] = Done
                       /\ request' = [request EXCEPT ![i] = "stocks"]
    /\ UNCHANGED <<redis, live, caches, price, open, moved>>

\* A mutant: the route of the list commits.
ListStocksCommitted(i) ==
    /\ request[i] = "stocks"
    /\ request' = [request EXCEPT ![i] = "orders"]
    /\ BuildQuotes(Stocks)
    /\ price' = Repriced(Stocks)
    /\ UNCHANGED <<redis, live, open, moved, timer>>

\* GET /market/stocks quotes every stock and does not commit.
ListStocks(i) ==
    /\ request[i] = "stocks"
    /\ request' = [request EXCEPT ![i] = "orders"]
    /\ BuildQuotes(Stocks)
    /\ UNCHANGED <<redis, live, price, open, moved, timer>>

\* A mutant: an order that waits is compared with the price from before.
RefreshOrdersAtOldPrice(i) ==
    LET quoted == {Terms[o].stock : o \in open} IN
    /\ request[i] = "orders"
    /\ request' = [request EXCEPT ![i] = "portfolio"]
    /\ BuildQuotes(quoted)
    /\ price' = Repriced(quoted)
    /\ moved' = {}
    /\ open' = {o \in open : ~Marketable(Terms[o], price[Terms[o].stock])}
    /\ UNCHANGED <<redis, live, timer>>

\* GET /orders quotes the stocks of the open orders, executes the orders the
\* price then meets, and commits.
RefreshOrders(i) ==
    LET quoted == {Terms[o].stock : o \in open} IN
    /\ request[i] = "orders"
    /\ request' = [request EXCEPT ![i] = "portfolio"]
    /\ BuildQuotes(quoted)
    /\ price' = Repriced(quoted)
    /\ moved' = {}
    /\ open' = {o \in open : ~Marketable(Terms[o], price'[Terms[o].stock])}
    /\ UNCHANGED <<redis, live, timer>>

Bought == {o \in Orders \ open : Terms[o].side = "BUY"}

\* GET /portfolio/me quotes the stocks the user holds and does not commit.
Portfolio(i) ==
    /\ request[i] = "portfolio"
    /\ request' = [request EXCEPT ![i] = Done]
    /\ BuildQuotes(Held \cup {Terms[o].stock : o \in Bought})
    /\ UNCHANGED <<redis, live, price, open, moved, timer>>

\* Another user's GET /orders: it quotes the stocks of that user's orders and
\* commits their prices, but visits no order of this user.
OtherRefreshes ==
    \E stocks \in SUBSET Shared :
        /\ BuildQuotes(stocks)
        /\ price' = Repriced(stocks)
        /\ moved' = moved \cup {s \in stocks : Quotes(s)}
        /\ UNCHANGED <<redis, live, open, timer, request>>

\* Another user's list, quote or portfolio: they leave their answers in the
\* caches and do not commit.
OtherLooks ==
    \E stocks \in SUBSET Shared :
        /\ BuildQuotes(stocks)
        /\ UNCHANGED <<redis, live, price, open, moved, timer, request>>

Answer(i) == ListStocks(i) \/ RefreshOrders(i) \/ Portfolio(i)

Next ==
    \/ \E s \in Stocks : Move(s)
    \/ Tick
    \/ Fire
    \/ \E i \in Polls : Answer(i)
    \/ OtherRefreshes \/ OtherLooks

Spec == Init /\ [][Next]_vars

\* Time passes, the client's timer fires and its requests are answered; the
\* exchange and the other users owe nothing.
FairSpec == /\ Spec /\ WF_vars(Tick) /\ WF_vars(Fire)
            /\ \A i \in Polls : WF_vars(Answer(i))
----------------------------------------------------------------------------
\* The type invariant: a cached quote has a second of its life left at
\* least, and ages only as its time runs.
TypeOK ==
    /\ redis \in BOOLEAN
    /\ live \in [Stocks -> Prices \cup {Down}]
    /\ answer \in [Stocks -> [price: Prices \cup {Down}, age: 0..(FeedTTL + 1)]]
    /\ quote \in [Stocks -> [price: Prices \cup {Down}, current: BOOLEAN,
                             age: Nat, left: 0..RedisTTL]]
    /\ price \in [Stocks -> Prices]
    /\ open \subseteq Orders /\ moved \subseteq Stocks
    /\ timer \in 0..PollPeriod
    /\ request \in [Polls -> {"stocks", "orders", "portfolio", Done}]
    /\ \A s \in Stocks : quote[s] # NoQuote => quote[s].left > 0

\* Two caches, one above the other, add up: a live price shown from Redis
\* left the exchange at most FeedTTL + RedisTTL - 1 full seconds ago.
QuoteIsRecent ==
    \A s \in Stocks : Cached(s) => quote[s].age < FeedTTL + RedisTTL

\* Looking does not trade: only a refresh of orders, this user's or another's,
\* moves the price that executions use, although the list, the quote and the
\* portfolio assign it too.
OnlyRefreshMovesPrices ==
    [][price' # price =>
            \/ \E i \in Polls : request[i] = "orders" /\ request'[i] = "portfolio"
            \/ OtherRefreshes]_vars

\* An order waits at a stored price that meets its limit only where another
\* user's refresh has set that price since its owner's last refresh: a
\* refresh sets the price for everybody and visits the orders of its caller
\* alone (order_service.py:121).
BookIsNotCrossed ==
    \A o \in open : Terms[o].stock \notin moved =>
        ~Marketable(Terms[o], price[Terms[o].stock])

Met(o) == live[Terms[o].stock] # Down /\ Marketable(Terms[o], live[Terms[o].stock])

\* FEATURES.md:73 "limit orders are executed automatically when the market
\* price meets them": an order whose limit the exchange goes on meeting is
\* executed by a client that goes on polling.
MetOrdersExecute == \A o \in Orders : <>[]Met(o) => <>(o \notin open)

\* The same without Redis, where every refresh assigns the price: although
\* the answers of the exchange are remembered for seconds and the routes
\* around the refresh roll their prices back, the order is executed.
MetOrdersExecuteUncached == ~redis => MetOrdersExecute
=============================================================================
