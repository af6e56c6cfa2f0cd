-------------------------- MODULE MarketDataProofs --------------------------
(***************************************************************************)
(* Proofs about MarketData for any stocks, prices, orders and times to     *)
(* live, and whatever other users look at and refresh: how old a quote can *)
(* be under two caches, which request moves the price orders execute at,   *)
(* and that an order waits at a stored price that meets its limit only     *)
(* where another user's refresh has set the price.                         *)
(***************************************************************************)
EXTENDS MarketData, TLAPS

\* The age of a quote and the time it has left add up.
AgesAddUp ==
    \A s \in Stocks : quote[s].left > 0 =>
        quote[s].age + quote[s].left <= FeedTTL + RedisTTL

IInv == TypeOK /\ AgesAddUp /\ BookIsNotCrossed

Answers == [price: Prices \cup {Down}, age: 0..(FeedTTL + 1)]
QuoteRecords ==
    [price: Prices \cup {Down}, current: BOOLEAN, age: Nat, left: 0..RedisTTL]

\* Times are numbers.
LEMMA Times ==
    /\ FeedTTL \in Nat /\ RedisTTL \in Nat /\ RedisTTL > 0
    /\ PollPeriod \in Nat /\ PollPeriod > 0
BY MarketDataAssumption

\* An answer is used no later than FeedTTL after it was fetched.
LEMMA FetchedIsFresh ==
    ASSUME TypeOK, NEW s \in Stocks
    PROVE  Fetched(s) \in Answers /\ Fetched(s).age <= FeedTTL
<1>1. answer[s] \in Answers /\ live[s] \in Prices \cup {Down}
    BY DEF TypeOK, Answers
<1>2. CASE Remembers(s)
    BY <1>1, <1>2 DEF Fetched, Remembers
<1>3. CASE ~Remembers(s)
    BY <1>1, <1>3, Times DEF Fetched, Answers
<1> QED
    BY <1>2, <1>3

\* The quote a request leaves in Redis.
LEMMA BuiltIsFresh ==
    ASSUME TypeOK, NEW s \in Stocks
    PROVE  /\ Built(s) \in QuoteRecords /\ Built(s).left > 0
           /\ Built(s).age + Built(s).left <= FeedTTL + RedisTTL
<1>1. Fetched(s) \in Answers /\ Fetched(s).age <= FeedTTL
    BY FetchedIsFresh
<1>2. price[s] \in Prices
    BY DEF TypeOK
<1>3. Fetched(s).price \in Prices \cup {Down} /\ Fetched(s).age \in Nat
    BY <1>1, Times DEF Answers
<1>4. CASE Fetched(s).price # Down
    BY <1>1, <1>3, <1>4, Times DEF Built, QuoteRecords
<1>5. CASE Fetched(s).price = Down
    BY <1>2, <1>5, Times DEF Built, QuoteRecords
<1> QED
    BY <1>4, <1>5

\* What the caches promise.
CachesOK ==
    /\ answer \in [Stocks -> Answers] /\ quote \in [Stocks -> QuoteRecords]
    /\ \A s \in Stocks : quote[s] # NoQuote => quote[s].left > 0
    /\ AgesAddUp

LEMMA BuildQuotesStep ==
    ASSUME TypeOK, CachesOK, NEW stocks, BuildQuotes(stocks)
    PROVE  CachesOK'
<1>1. ASSUME NEW s \in Stocks
      PROVE  /\ answer'[s] \in Answers /\ quote'[s] \in QuoteRecords
             /\ quote'[s] # NoQuote => quote'[s].left > 0
             /\ quote'[s].left > 0 => quote'[s].age + quote'[s].left <= FeedTTL + RedisTTL
    <2>1. answer'[s] \in {Fetched(s), answer[s]} /\ quote'[s] \in {Built(s), quote[s]}
        BY DEF BuildQuotes
    <2>2. answer'[s] \in Answers
        BY <2>1, FetchedIsFresh DEF CachesOK
    <2>3. CASE quote'[s] = Built(s)
        BY <2>2, <2>3, BuiltIsFresh
    <2>4. CASE quote'[s] = quote[s]
        BY <2>2, <2>4 DEF CachesOK, AgesAddUp
    <2> QED
        BY <2>1, <2>3, <2>4
<1>2. /\ answer' = [s \in Stocks |-> answer'[s]]
      /\ quote' = [s \in Stocks |-> quote'[s]]
    BY DEF BuildQuotes
<1> QED
    BY <1>1, <1>2 DEF CachesOK, AgesAddUp

LEMMA InitIInv == Init => IInv
<1> SUFFICES ASSUME Init PROVE IInv
    OBVIOUS
<1>1. NoAnswer \in Answers /\ NoQuote \in QuoteRecords /\ NoQuote.left = 0
    BY Times DEF NoAnswer, NoQuote, Answers, QuoteRecords
<1>2. TypeOK
    BY <1>1, Times DEF Init, TypeOK, Answers, QuoteRecords, Polls
<1>3. AgesAddUp /\ BookIsNotCrossed
    BY <1>1 DEF Init, AgesAddUp, BookIsNotCrossed
<1> QED
    BY <1>2, <1>3 DEF IInv

LEMMA TickStep ==
    ASSUME IInv, Tick
    PROVE  IInv'
<1>1. ASSUME NEW s \in Stocks
      PROVE  /\ answer'[s] \in Answers /\ quote'[s] \in QuoteRecords
             /\ quote'[s] # NoQuote => quote'[s].left > 0
             /\ quote'[s].left > 0 => quote'[s].age + quote'[s].left <= FeedTTL + RedisTTL
    <2>1. answer[s] \in Answers /\ quote[s] \in QuoteRecords
        BY DEF IInv, TypeOK, Answers, QuoteRecords
    <2>2. answer'[s] \in Answers
        <3>1. answer'[s] \in {NoAnswer, Older(answer[s])}
            BY DEF Tick
        <3>2. NoAnswer \in Answers
            BY Times DEF NoAnswer, Answers
        <3>3. Older(answer[s]) \in Answers
            BY <2>1, Times DEF Older, Answers
        <3> QED
            BY <3>1, <3>2, <3>3
    <2>3. quote'[s] = Counted(quote[s])
        BY DEF Tick
    <2>4. NoQuote \in QuoteRecords /\ NoQuote.left = 0
        BY Times DEF NoQuote, QuoteRecords
    <2>5. CASE quote[s].left <= 1
        BY <2>2, <2>3, <2>4, <2>5 DEF Counted
    <2>6. CASE ~(quote[s].left <= 1)
        <3>1. quote'[s] = [quote[s] EXCEPT !.age = @ + 1, !.left = @ - 1]
            BY <2>3, <2>6 DEF Counted
        <3>2. /\ quote[s].left \in Nat /\ quote[s].age \in Nat /\ quote[s].left <= RedisTTL
              /\ quote'[s].left = quote[s].left - 1 /\ quote'[s].age = quote[s].age + 1
            <4>1. quote[s].left \in Nat /\ quote[s].age \in Nat /\ quote[s].left <= RedisTTL
                BY <2>1, Times DEF QuoteRecords
            <4> QED
                BY <2>1, <3>1, <4>1 DEF QuoteRecords
        <3>3. quote[s].age + quote[s].left <= FeedTTL + RedisTTL
            BY <2>6, <3>2 DEF IInv, AgesAddUp
        <3>4. quote'[s] \in QuoteRecords
            <4>1. quote'[s].age \in Nat /\ quote'[s].left \in 0..RedisTTL
                BY <2>6, <3>2, Times
            <4> QED
                BY <2>1, <3>1, <3>2, <4>1 DEF QuoteRecords
        <3> QED
            BY <2>2, <2>6, <3>2, <3>3, <3>4, Times
    <2> QED
        BY <2>5, <2>6
<1>2. /\ answer' = [s \in Stocks |-> answer'[s]]
      /\ quote' = [s \in Stocks |-> quote'[s]]
      /\ UNCHANGED <<redis, live, price, open, moved, request>>
    BY DEF Tick
<1>3. timer' \in 0..PollPeriod
    BY Times DEF Tick, IInv, TypeOK
<1>4. TypeOK'
    BY <1>1, <1>2, <1>3 DEF IInv, TypeOK, Answers, QuoteRecords
<1>5. AgesAddUp' /\ BookIsNotCrossed'
    BY <1>1, <1>2 DEF IInv, AgesAddUp, BookIsNotCrossed
<1> QED
    BY <1>4, <1>5 DEF IInv

\* The price a committed quote leaves.
LEMMA RepricedIsPrice ==
    ASSUME TypeOK, NEW stocks
    PROVE  /\ Repriced(stocks) \in [Stocks -> Prices]
           /\ \A s \in Stocks : Repriced(stocks)[s] # price[s] => s \in stocks /\ Quotes(s)
<1>1. \A s \in Stocks : Quotes(s) => Fetched(s).price \in Prices
    BY FetchedIsFresh DEF Quotes, Answers
<1> QED
    BY <1>1 DEF Repriced, TypeOK

\* A request of this user quotes some stocks; all but the refresh of orders
\* leave the price and the book alone.
LEMMA AnswerStep ==
    ASSUME IInv, NEW i \in Polls, Answer(i)
    PROVE  IInv' /\ (price' # price => request[i] = "orders" /\ request'[i] = "portfolio")
<1>1. CachesOK
    BY DEF IInv, TypeOK, CachesOK, Answers, QuoteRecords
<1>2. CachesOK'
    BY <1>1, BuildQuotesStep DEF IInv, Answer, ListStocks, RefreshOrders, Portfolio
<1>3. /\ request' \in [Polls -> {"stocks", "orders", "portfolio", Done}]
      /\ UNCHANGED <<redis, live, timer>>
    BY DEF IInv, TypeOK, Answer, ListStocks, RefreshOrders, Portfolio
<1>4. CASE ListStocks(i) \/ Portfolio(i)
    <2>1. UNCHANGED <<price, open, moved>>
        BY <1>4 DEF ListStocks, Portfolio
    <2>2. TypeOK'
        BY <1>2, <1>3, <2>1 DEF IInv, TypeOK, CachesOK, Answers, QuoteRecords
    <2> QED
        BY <1>2, <2>1, <2>2 DEF IInv, CachesOK, BookIsNotCrossed
<1>5. CASE RefreshOrders(i)
    <2>1. /\ request[i] = "orders" /\ request'[i] = "portfolio"
        BY <1>5 DEF RefreshOrders, IInv, TypeOK
    <2>2. price' \in [Stocks -> Prices] /\ open' \subseteq Orders /\ moved' = {}
        BY <1>5, RepricedIsPrice DEF RefreshOrders, IInv, TypeOK
    <2>3. BookIsNotCrossed'
        BY <1>5 DEF RefreshOrders, BookIsNotCrossed
    <2>4. TypeOK'
        BY <1>2, <1>3, <2>2 DEF IInv, TypeOK, CachesOK, Answers, QuoteRecords
    <2> QED
        BY <1>2, <2>1, <2>3, <2>4 DEF IInv, CachesOK
<1> QED
    BY <1>4, <1>5 DEF Answer

\* A request of another user: it fills the caches, and a price it sets is
\* one it has moved.
LEMMA OtherStep ==
    ASSUME IInv, OtherRefreshes \/ OtherLooks
    PROVE  IInv' /\ (price' # price => OtherRefreshes)
<1>1. CachesOK
    BY DEF IInv, TypeOK, CachesOK, Answers, QuoteRecords
<1>2. CachesOK' /\ UNCHANGED <<redis, live, open, timer, request>>
    BY <1>1, BuildQuotesStep DEF IInv, OtherRefreshes, OtherLooks
<1>3. CASE OtherLooks
    <2>1. UNCHANGED <<price, moved>>
        BY <1>3 DEF OtherLooks
    <2>2. TypeOK'
        BY <1>2, <2>1 DEF IInv, TypeOK, CachesOK, Answers, QuoteRecords
    <2> QED
        BY <1>2, <2>1, <2>2 DEF IInv, CachesOK, BookIsNotCrossed
<1>4. CASE OtherRefreshes
    <2>1. PICK stocks \in SUBSET Shared :
              /\ price' = Repriced(stocks)
              /\ moved' = moved \cup {s \in stocks : Quotes(s)}
        BY <1>4 DEF OtherRefreshes
    <2>2. price' \in [Stocks -> Prices] /\ moved' \subseteq Stocks
        BY <2>1, RepricedIsPrice, MarketDataAssumption DEF IInv, TypeOK
    <2>3. TypeOK'
        BY <1>2, <2>2 DEF IInv, TypeOK, CachesOK, Answers, QuoteRecords
    <2>4. BookIsNotCrossed'
        <3> SUFFICES ASSUME NEW o \in open', Terms[o].stock \notin moved'
                     PROVE  ~Marketable(Terms[o], price'[Terms[o].stock])
            BY DEF BookIsNotCrossed
        <3>1. o \in open /\ o \in Orders /\ Terms[o].stock \in Stocks
            BY <1>2, MarketDataAssumption DEF IInv, TypeOK
        <3>2. price'[Terms[o].stock] = price[Terms[o].stock] /\ Terms[o].stock \notin moved
            BY <2>1, <3>1, RepricedIsPrice DEF IInv
        <3> QED
            BY <3>1, <3>2 DEF IInv, BookIsNotCrossed
    <2> QED
        BY <1>2, <1>4, <2>3, <2>4 DEF IInv, CachesOK
<1> QED
    BY <1>3, <1>4

LEMMA NextStep ==
    ASSUME IInv, [Next]_vars
    PROVE  /\ IInv'
           /\ price' # price =>
                \/ \E i \in Polls : request[i] = "orders" /\ request'[i] = "portfolio"
                \/ OtherRefreshes
<1>1. CASE UNCHANGED vars
    BY <1>1 DEF vars, caches, IInv, TypeOK, AgesAddUp, BookIsNotCrossed
<1>2. ASSUME NEW s \in Stocks, Move(s)
      PROVE  IInv' /\ price' = price
    BY <1>2 DEF Move, caches, IInv, TypeOK, AgesAddUp, BookIsNotCrossed
<1>3. CASE Tick
    BY <1>3, TickStep DEF Tick
<1>4. CASE Fire
    BY <1>4, Times DEF Fire, caches, IInv, TypeOK, AgesAddUp, BookIsNotCrossed
<1> QED
    BY <1>1, <1>2, <1>3, <1>4, AnswerStep, OtherStep DEF Next, vars

----------------------------------------------------------------------------
\* The theorems

LEMMA Invariance == Spec => []IInv
<1>1. IInv /\ [Next]_vars => IInv'
    BY NextStep
<1> QED
    BY InitIInv, <1>1, PTL DEF Spec

\* The caches and the book hold what they can hold.
THEOREM TypeCorrect == Spec => []TypeOK
<1>1. IInv => TypeOK
    BY DEF IInv
<1> QED
    BY <1>1, Invariance, PTL

\* The times of the two caches add up, and no more than that.
THEOREM Recent == Spec => []QuoteIsRecent
<1>1. IInv => QuoteIsRecent
    <2> SUFFICES ASSUME IInv, NEW s \in Stocks, Cached(s)
                 PROVE  quote[s].age < FeedTTL + RedisTTL
        BY DEF QuoteIsRecent
    <2>1. quote[s].left \in Nat /\ quote[s].age \in Nat
        BY Times DEF IInv, TypeOK
    <2> QED
        BY <2>1, Times DEF IInv, AgesAddUp, Cached
<1> QED
    BY <1>1, Invariance, PTL

\* An order is met by the stored price, and waits, only where another user's
\* refresh has set the price since its owner's last: for any other stocks they
\* refresh, in any order with the requests of the owner's client.
THEOREM NotCrossed == Spec => []BookIsNotCrossed
<1>1. IInv => BookIsNotCrossed
    BY DEF IInv
<1> QED
    BY <1>1, Invariance, PTL

\* Only a refresh of orders moves the price executions use.
THEOREM LookingDoesNotTrade == Spec => OnlyRefreshMovesPrices
<1>1. IInv /\ [Next]_vars =>
        [price' # price =>
            \/ \E i \in Polls : request[i] = "orders" /\ request'[i] = "portfolio"
            \/ OtherRefreshes]_vars
    BY NextStep
<1> QED
    BY <1>1, Invariance, PTL DEF Spec, OnlyRefreshMovesPrices
=============================================================================
