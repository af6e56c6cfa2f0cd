--------------------------- MODULE TradingProofs ---------------------------
(***************************************************************************)
(* Proofs of the safety properties of Trading, of its refinement of        *)
(* Brokerage, and of what AuditTrail adds to it, for any sets of users,    *)
(* stocks, prices and quantities and any thresholds and bounds.            *)
(*                                                                         *)
(* The inductive invariant is split by the tables it is about (LedgerOK,   *)
(* OrdersOK, UsersOK, RefreshOK, and BooksOK, which ties the ledger to the *)
(* orders), since a request writes few of them.  StepOK collects what is   *)
(* shown of every step at once: the invariant after it, and the action     *)
(* properties of it.                                                       *)
(***************************************************************************)
EXTENDS AuditTrail, SumTheorems

\* tick_size_for_price returns a positive tick.
LEMMA TickSizePositive ==
    ASSUME NEW cur \in Nat
    PROVE  TickSize(cur) \in Nat \ {0}
BY DEF TickSize

\* resolve_execution_price returns a positive price: a market sale is
\* floored at one tick, however large its slippage.
LEMMA FillPricePositive ==
    ASSUME NEW t \in Terms, NEW cur \in Prices
    PROVE  FillPrice(t, cur) \in Nat \ {0}
<1>1. cur \in Nat \ {0} /\ t.quantity \in Nat
    BY TradingAssumption DEF Terms
<1> DEFINE tick == TickSize(cur)
<1>2. tick \in Nat \ {0}
    BY <1>1, TickSizePositive
<1>3. Slippage(t, cur) \in {tick * 1, tick * 2}
    BY DEF Slippage
<1>4. Slippage(t, cur) \in Nat
    BY <1>2, <1>3
<1> HIDE DEF tick
<1>5. MarketExecutionPrice(t, cur) \in Nat \ {0}
    BY <1>1, <1>2, <1>4 DEF MarketExecutionPrice, tick
<1> QED
    BY <1>1, <1>5 DEF FillPrice

\* An amount, price times quantity, is a natural number.
LEMMA AmountNat ==
    ASSUME NEW a \in Nat, NEW b \in Nat
    PROVE  a * b \in Nat
OBVIOUS

----------------------------------------------------------------------------
\* The books: cash and shares as sums over the executions of orders.  The
\* rows P, their terms w and the executions a are parameters here, so that a
\* step can compare those before it with those after it.

CashBy(P, w, a, u) ==
    OpeningCash[u] + SumFunctionOnSet([o \in P |-> Proceeds(w[o], a[o])],
                                      {o \in P : w[o].user = u})

SharesBy(P, w, a, u, s) ==
    SumFunctionOnSet([o \in P |-> Shares(w[o], a[o])],
                     {o \in P : w[o].user = u /\ w[o].stock = s})

LEMMA BooksAre ==
    LedgerBalanced <=>
        \A u \in Users :
            /\ cash[u] = CashBy(Placed, terms, executions, u)
            /\ \A s \in Stocks : position[u][s] = SharesBy(Placed, terms, executions, u, s)
BY DEF LedgerBalanced, Balance, Held, CashBy, SharesBy, Owner

\* The same after a step.
LEMMA BooksAreNext ==
    LedgerBalanced' <=>
        \A u \in Users :
            /\ cash'[u] = CashBy(Placed', terms', executions', u)
            /\ \A s \in Stocks : position'[u][s] = SharesBy(Placed', terms', executions', u, s)
BY DEF LedgerBalanced, Balance, Held, CashBy, SharesBy, Owner

\* What executions bring is a whole number, and nothing when there are none.
LEMMA GainsTyped ==
    ASSUME NEW t \in Terms
    PROVE  /\ \A x \in Seq(Nat) : Proceeds(t, x) \in Int /\ Shares(t, x) \in Int
           /\ Proceeds(t, <<>>) = 0 /\ Shares(t, <<>>) = 0
<1>1. t.quantity \in Nat
    BY TradingAssumption DEF Terms
<1>2. \A x \in Seq(Nat) : t.quantity * SumFunction(x) \in Int /\ Len(x) * t.quantity \in Int
    BY <1>1, TapeInt, Multiply
<1>3. \A q \in Nat : q * 0 = 0 /\ 0 * q = 0 /\ -(q * 0) = 0 /\ -(0 * q) = 0
    OBVIOUS
<1>4. SumFunction(<<>>) = 0 /\ Len(<<>>) = 0
    BY SumNoElement
<1>5. Proceeds(t, <<>>) = 0 /\ Shares(t, <<>>) = 0
    BY <1>1, <1>3, <1>4 DEF Proceeds, Shares
<1>6. ASSUME NEW x \in Seq(Nat)
      PROVE  Proceeds(t, x) \in Int /\ Shares(t, x) \in Int
    BY <1>2 DEF Proceeds, Shares
<1> QED
    BY <1>5, <1>6

\* What one more execution, at price p, brings.
LEMMA GainsMore ==
    ASSUME NEW t \in Terms, NEW x \in Seq(Nat), NEW p \in Nat
    PROVE  /\ Proceeds(t, Append(x, p)) = IF t.side = "BUY" THEN Proceeds(t, x) - p * t.quantity
                                                            ELSE Proceeds(t, x) + p * t.quantity
           /\ Shares(t, Append(x, p)) = IF t.side = "BUY" THEN Shares(t, x) + t.quantity
                                                          ELSE Shares(t, x) - t.quantity
<1> DEFINE q == t.quantity
           A == SumFunction(x)
           n == Len(x)
<1>1. /\ q \in Nat /\ A \in Int /\ n \in Nat
      /\ SumFunction(Append(x, p)) = A + p /\ Len(Append(x, p)) = n + 1
    BY TradingAssumption, TapeInt DEF Terms
<1> HIDE DEF q, A, n
<1>2. /\ q * (A + p) = q * A + p * q /\ q * A \in Int /\ p * q \in Int
      /\ (n + 1) * q = n * q + q /\ n * q \in Int
    BY <1>1, Multiply
<1>3. /\ Proceeds(t, x) = IF t.side = "BUY" THEN - (q * A) ELSE q * A
      /\ Proceeds(t, Append(x, p)) = IF t.side = "BUY" THEN - (q * (A + p)) ELSE q * (A + p)
    BY <1>1 DEF Proceeds, q, A
<1>4. /\ Shares(t, x) = IF t.side = "BUY" THEN n * q ELSE - (n * q)
      /\ Shares(t, Append(x, p)) = IF t.side = "BUY" THEN (n + 1) * q ELSE - ((n + 1) * q)
    BY <1>1 DEF Shares, q, n
<1>5. Proceeds(t, Append(x, p)) = IF t.side = "BUY" THEN Proceeds(t, x) - p * q
                                                    ELSE Proceeds(t, x) + p * q
    BY <1>2, <1>3
<1>6. Shares(t, Append(x, p)) = IF t.side = "BUY" THEN Shares(t, x) + q ELSE Shares(t, x) - q
    BY <1>1, <1>2, <1>4
<1> QED
    BY <1>5, <1>6 DEF q

\* The bound on orders makes every sum one over a finite set.
LEMMA OrdersFinite ==
    ASSUME NEW S, S \subseteq OrderIds
    PROVE  IsFiniteSet(S)
<1>1. IsFiniteSet(1..MaxOrders)
    BY TradingAssumption, FS_Interval
<1> QED
    BY <1>1, FS_Subset DEF OrderIds

\* The row of order x is written, with terms t, and its executions; a row
\* that is new has had none.
RowWritten(P, w, a, v, b, x, t) ==
    /\ P \subseteq OrderIds /\ x \in OrderIds /\ t \in Terms
    /\ \A o \in P : w[o] \in Terms
    /\ \A o \in OrderIds : a[o] \in Seq(Nat) /\ b[o] \in Seq(Nat)
    /\ IF x \in P THEN w[x] = t ELSE a[x] = <<>>
    /\ v[x] = t /\ \A o \in P \ {x} : v[o] = w[o] /\ b[o] = a[o]

\* Then the balance of its user moves by what the executions bring, ...
LEMMA CashMoves ==
    ASSUME NEW P, NEW w, NEW a, NEW v, NEW b, NEW x, NEW t, RowWritten(P, w, a, v, b, x, t),
           NEW u \in Users
    PROVE  /\ CashBy(P, w, a, u) \in Int
           /\ t.user # u => CashBy(P \cup {x}, v, b, u) = CashBy(P, w, a, u)
           /\ t.user = u => CashBy(P \cup {x}, v, b, u) =
                                CashBy(P, w, a, u) + Proceeds(t, b[x]) - Proceeds(t, a[x])
<1> DEFINE Q == P \cup {x}
           f == [o \in P |-> Proceeds(w[o], a[o])]
           g == [o \in Q |-> Proceeds(v[o], b[o])]
           S == {o \in P : w[o].user = u}
           T == {o \in Q : v[o].user = u}
           old == CashBy(P, w, a, u)
           new == CashBy(Q, v, b, u)
<1>1. IsFiniteSet(S) /\ IsFiniteSet(T)
    BY OrdersFinite DEF RowWritten
<1>2. \A o \in S : f[o] \in Int
    BY GainsTyped DEF RowWritten
<1>3. \A o \in T : g[o] \in Int
    BY GainsTyped DEF RowWritten
<1>4. S \ {x} = T \ {x} /\ \A o \in T \ {x} : g[o] = f[o]
    BY DEF RowWritten
<1>5. /\ t.user # u => x \notin S /\ x \notin T
      /\ t.user = u => x \in T /\ g[x] = Proceeds(t, b[x])
      /\ t.user = u /\ x \in P => x \in S /\ f[x] = Proceeds(t, a[x])
      /\ x \notin P => x \notin S /\ Proceeds(t, a[x]) = 0
    BY GainsTyped DEF RowWritten
<1>6. OpeningCash[u] \in Int /\ Proceeds(t, b[x]) \in Int /\ Proceeds(t, a[x]) \in Int
    BY TradingAssumption, GainsTyped DEF RowWritten
<1>7. /\ old = OpeningCash[u] + SumFunctionOnSet(f, S)
      /\ new = OpeningCash[u] + SumFunctionOnSet(g, T)
    BY DEF CashBy
<1> HIDE DEF Q, f, g, S, T, old, new
<1>8. SumFunctionOnSet(g, T) = SumFunctionOnSet(f, S) + Term(g, T, x) - Term(f, S, x)
    BY <1>1, <1>2, <1>3, <1>4, SumMoves
<1>9. SumFunctionOnSet(f, S) \in Int
    BY <1>1, <1>2, SumInt
<1>10. /\ t.user # u => Term(g, T, x) = 0 /\ Term(f, S, x) = 0
       /\ t.user = u => Term(g, T, x) = Proceeds(t, b[x]) /\ Term(f, S, x) = Proceeds(t, a[x])
    BY <1>5 DEF Term
<1>11. old \in Int
    BY <1>6, <1>7, <1>9
<1>12. t.user # u => new = old
    BY <1>6, <1>7, <1>8, <1>9, <1>10
<1>13. t.user = u => new = old + Proceeds(t, b[x]) - Proceeds(t, a[x])
    BY <1>6, <1>7, <1>8, <1>9, <1>10
<1> QED
    BY <1>11, <1>12, <1>13 DEF old, new, Q

\* ... and so do the shares held of its stock.
LEMMA SharesMove ==
    ASSUME NEW P, NEW w, NEW a, NEW v, NEW b, NEW x, NEW t, RowWritten(P, w, a, v, b, x, t),
           NEW u \in Users, NEW s \in Stocks
    PROVE  /\ SharesBy(P, w, a, u, s) \in Int
           /\ t.user # u \/ t.stock # s =>
                  SharesBy(P \cup {x}, v, b, u, s) = SharesBy(P, w, a, u, s)
           /\ t.user = u /\ t.stock = s =>
                  SharesBy(P \cup {x}, v, b, u, s) =
                      SharesBy(P, w, a, u, s) + Shares(t, b[x]) - Shares(t, a[x])
<1> DEFINE Q == P \cup {x}
           f == [o \in P |-> Shares(w[o], a[o])]
           g == [o \in Q |-> Shares(v[o], b[o])]
           S == {o \in P : w[o].user = u /\ w[o].stock = s}
           T == {o \in Q : v[o].user = u /\ v[o].stock = s}
           old == SharesBy(P, w, a, u, s)
           new == SharesBy(Q, v, b, u, s)
           mine == t.user = u /\ t.stock = s
<1>1. IsFiniteSet(S) /\ IsFiniteSet(T)
    BY OrdersFinite DEF RowWritten
<1>2. \A o \in S : f[o] \in Int
    BY GainsTyped DEF RowWritten
<1>3. \A o \in T : g[o] \in Int
    BY GainsTyped DEF RowWritten
<1>4. S \ {x} = T \ {x} /\ \A o \in T \ {x} : g[o] = f[o]
    BY DEF RowWritten
<1>5. /\ ~mine => x \notin S /\ x \notin T
      /\ mine => x \in T /\ g[x] = Shares(t, b[x])
      /\ mine /\ x \in P => x \in S /\ f[x] = Shares(t, a[x])
      /\ x \notin P => x \notin S /\ Shares(t, a[x]) = 0
    BY GainsTyped DEF RowWritten
<1>6. Shares(t, b[x]) \in Int /\ Shares(t, a[x]) \in Int
    BY GainsTyped DEF RowWritten
<1>7. old = SumFunctionOnSet(f, S) /\ new = SumFunctionOnSet(g, T)
    BY DEF SharesBy
<1> HIDE DEF Q, f, g, S, T, old, new, mine
<1>8. SumFunctionOnSet(g, T) = SumFunctionOnSet(f, S) + Term(g, T, x) - Term(f, S, x)
    BY <1>1, <1>2, <1>3, <1>4, SumMoves
<1>9. SumFunctionOnSet(f, S) \in Int
    BY <1>1, <1>2, SumInt
<1>10. /\ ~mine => Term(g, T, x) = 0 /\ Term(f, S, x) = 0
       /\ mine => Term(g, T, x) = Shares(t, b[x]) /\ Term(f, S, x) = Shares(t, a[x])
    BY <1>5 DEF Term
<1>11. ~mine => new = old
    BY <1>7, <1>8, <1>9, <1>10
<1>12. mine => new = old + Shares(t, b[x]) - Shares(t, a[x])
    BY <1>6, <1>7, <1>8, <1>9, <1>10
<1> QED
    BY <1>7, <1>9, <1>11, <1>12 DEF old, new, Q, mine

----------------------------------------------------------------------------
\* The parts of the invariant

\* The three tables a fill writes, with the signs of the safety properties.
LedgerOK ==
    /\ cash \in [Users -> Nat]
    /\ position \in [Users -> [Stocks -> Nat]]
    /\ executions \in [OrderIds -> Seq(Nat \ {0})]

\* Prices that are positive are numbers.
LEMMA PricesAreNumbers ==
    ASSUME NEW x \in Seq(Nat \ {0})
    PROVE  x \in Seq(Nat)
OBVIOUS

\* The ledger moves by one fill of order o, with terms t, at price p.
Filled(o, t, p) ==
    /\ executions' = [executions EXCEPT ![o] = Append(@, p)]
    /\ cash' = [cash EXCEPT ![t.user] = IF t.side = "BUY" THEN @ - p * t.quantity
                                                          ELSE @ + p * t.quantity]
    /\ position' = [position EXCEPT ![t.user][t.stock] =
                        IF t.side = "BUY" THEN @ + t.quantity ELSE @ - t.quantity]

\* What an execution does, whichever request asks for it.
LEMMA ExecuteStep ==
    ASSUME LedgerOK, status \in [OrderIds -> OrderStatus \cup {None}],
           NEW o \in OrderIds, NEW t \in Terms, NEW cur \in Prices,
           ExecuteOrReject(o, t, cur)
    PROVE  /\ LedgerOK'
           /\ UNCHANGED ledger \/ \E p \in Nat : Filled(o, t, p)
           /\ \E x \in {"ACCEPTED", "EXECUTED", "REJECTED"} :
                 /\ status' = [status EXCEPT ![o] = x]
                 /\ x = "ACCEPTED" => ~Marketable(t, cur) /\ t.type = "LIMIT"
                 /\ executions' # executions => x = "EXECUTED"
           /\ \A other \in OrderIds \ {o} : executions'[other] = executions[other]
           /\ Ledger!Next \/ UNCHANGED <<cash, position>>
<1>1. CASE ~Marketable(t, cur) /\ AcceptOrder(o)
    BY <1>1 DEF AcceptOrder, ledger, LedgerOK, Marketable, Terms
<1>2. CASE Raises(t, cur) /\ RejectOrder(o)
    BY <1>2 DEF RejectOrder, ledger, LedgerOK
<1>3. CASE Marketable(t, cur) /\ Funded(t, cur) /\ FillOrder(o, t, cur)
    <2> DEFINE p == FillPrice(t, cur)
               paid == p * t.quantity
    <2>1. /\ t.user \in Users /\ t.stock \in Stocks
          /\ t.quantity \in Quantities /\ t.quantity \in Nat
          /\ t.side \in {"BUY", "SELL"}
        BY TradingAssumption DEF Terms
    <2>2. p \in Nat /\ p > 0 /\ p \in FillPrices
        BY FillPricePositive DEF FillPrices
    <2>3. paid \in Nat
        BY <2>1, <2>2, AmountNat
    <2>4. /\ status' = [status EXCEPT ![o] = "EXECUTED"]
          /\ executions' = [executions EXCEPT ![o] = Append(@, p)]
        BY <1>3 DEF FillOrder
    <2>5. executions' \in [OrderIds -> Seq(Nat \ {0})]
        BY <2>2, <2>4 DEF LedgerOK
    <2>6. CASE t.side = "BUY"
        <3>1. /\ paid <= cash[t.user]
              /\ cash' = [cash EXCEPT ![t.user] = @ - paid]
              /\ position' = [position EXCEPT ![t.user][t.stock] = @ + t.quantity]
            BY <1>3, <2>6 DEF Funded, FillOrder
        <3>2. cash' \in [Users -> Nat] /\ position' \in [Users -> [Stocks -> Nat]]
            BY <2>1, <2>3, <3>1 DEF LedgerOK
        <3>3. Ledger!Buy(t.user, t.stock, t.quantity, p)
            BY <3>1 DEF Ledger!Buy
        <3>4. Filled(o, t, p)
            BY <2>4, <2>6, <3>1 DEF Filled
        <3> QED
            BY <2>1, <2>2, <2>4, <2>5, <3>2, <3>3, <3>4 DEF LedgerOK, Ledger!Next
    <2>7. CASE t.side = "SELL"
        <3>1. /\ t.quantity <= position[t.user][t.stock]
              /\ cash' = [cash EXCEPT ![t.user] = @ + paid]
              /\ position' = [position EXCEPT ![t.user][t.stock] = @ - t.quantity]
            BY <1>3, <2>7 DEF Funded, FillOrder
        <3>2. cash' \in [Users -> Nat] /\ position' \in [Users -> [Stocks -> Nat]]
            BY <2>1, <2>3, <3>1 DEF LedgerOK
        <3>3. Ledger!Sell(t.user, t.stock, t.quantity, p)
            BY <3>1 DEF Ledger!Sell
        <3>4. Filled(o, t, p)
            BY <2>4, <2>7, <3>1 DEF Filled
        <3> QED
            BY <2>1, <2>2, <2>4, <2>5, <3>2, <3>3, <3>4 DEF LedgerOK, Ledger!Next
    <2> QED
        BY <2>1, <2>6, <2>7
<1> QED
    BY <1>1, <1>2, <1>3 DEF ExecuteOrReject, ExecuteOrRaise
\* An event whose three columns agree.
GoodEvent(e) ==
    /\ e \in [decision: RiskDecision, status: RiskEventStatus, pendingAuth: {0, 1}]
    /\ \/ e.decision = "ALLOW" /\ e.status \in {"AUTO_ALLOWED", "APPROVED"}
       \/ e.decision = "HELD" /\ e.status = "OPEN"
       \/ e.decision \in {"BLOCKED", "AUTH_REQUIRED"} /\ e.status = e.decision
    /\ e.decision = "AUTH_REQUIRED" => e.pendingAuth = 1

\* The engine and the order controls write events whose decision and status
\* agree, and an AUTH_REQUIRED one comes with its one pending request.
LEMMA ScreeningIsGood ==
    ASSUME NEW amount, NEW score \in Scores, NEW view
    PROVE  /\ GoodEvent(EngineEvent(score))
           /\ GoodEvent(ScreenedEvent(amount, score, view))
<1>1. score \in Nat
    BY TradingAssumption
<1>2. GoodEvent(EngineEvent(score))
    BY <1>1 DEF GoodEvent, EngineEvent, RiskBand, RiskDecision, RiskEventStatus
<1> QED
    BY <1>2 DEF GoodEvent, ScreenedEvent, RiskDecision, RiskEventStatus

\* What IInv says of one order in the database.
OrderOK(o) ==
    /\ o < nextOrder
    /\ terms[o] \in Terms
    /\ GoodEvent(event[o])
    /\ status[o] \in {"ACCEPTED", "EXECUTED", "REJECTED"} => event[o].decision = "ALLOW"
    /\ status[o] = "BLOCKED" <=> event[o].decision = "BLOCKED"
    /\ status[o] = "HELD" => event[o].decision \in {"HELD", "AUTH_REQUIRED"}
    /\ status[o] # "PENDING"
    /\ status[o] = "ACCEPTED" => terms[o].type = "LIMIT"

\* IInv arranged for the proof: the ledger, the orders, and the rest.
OrdersOK ==
    /\ terms \in [OrderIds -> Terms \cup {NoTerms}]
    /\ status \in [OrderIds -> OrderStatus \cup {None}]
    /\ event \in [OrderIds -> Events]
    /\ nextOrder \in 1..(MaxOrders + 1)
    /\ \A o \in OrderIds : status[o] # None => OrderOK(o)
    /\ OneRequestAtMost

UsersOK ==
    /\ userStatus \in [Users -> UserStatus]
    /\ signedIn \in [Users -> BOOLEAN]
    /\ LockedIsSignedOut

RefreshOK ==
    /\ price \in [Stocks -> Prices]
    /\ quoted \subseteq Stocks
    /\ todo \subseteq Placed
    /\ RefreshListsOpenOrders

BooksOK == LedgerBalanced /\ ExecutionsArePlaced

\* The inductive invariant, table by table.
LEMMA IInvParts == IInv <=> LedgerOK /\ OrdersOK /\ UsersOK /\ RefreshOK /\ BooksOK
<1>1. LedgerOK <=> /\ cash \in [Users -> Int] /\ position \in [Users -> [Stocks -> Int]]
                   /\ executions \in [OrderIds -> Seq(Nat \ {0})]
                   /\ NoOverdraft /\ NoShortPosition
    BY DEF LedgerOK, NoOverdraft, NoShortPosition
<1>2. ASSUME IInv PROVE OrdersOK /\ UsersOK /\ RefreshOK
    <2>1. ASSUME NEW o \in OrderIds, status[o] # None
          PROVE  OrderOK(o)
        <3>1. o \in Placed
            BY <2>1 DEF Placed
        <3>2. event[o] \in Events /\ event[o].pendingAuth \in {0, 1}
            BY <1>2 DEF IInv, TypeOK, OneRequestAtMost
        <3>3. event[o].decision # None
            BY <1>2, <3>1 DEF IInv, EventStatusMatchesDecision, None
        <3>4. event[o] \in [decision: RiskDecision, status: RiskEventStatus, pendingAuth: {0, 1}]
            BY <3>2, <3>3 DEF Events, NoEvent
        <3>5. GoodEvent(event[o])
            BY <1>2, <3>1, <3>4 DEF GoodEvent, IInv, EventStatusMatchesDecision, NoStrandedOrder
        <3> QED
            BY <1>2, <2>1, <3>1, <3>5 DEF OrderOK, IInv, TypeOK, StatusMatchesDecision,
               NoStrandedOrder, PlacedHaveTerms
    <2> QED
        BY <1>2, <2>1 DEF IInv, TypeOK, OrdersOK, UsersOK, RefreshOK
<1>3. ASSUME OrdersOK PROVE /\ StatusMatchesDecision /\ EventStatusMatchesDecision
                           /\ NoStrandedOrder /\ PlacedHaveTerms
    BY <1>3 DEF OrdersOK, OrderOK, GoodEvent, Placed, StatusMatchesDecision,
       EventStatusMatchesDecision, NoStrandedOrder, PlacedHaveTerms
<1>4. ASSUME OrdersOK PROVE \A o \in OrderIds : status[o] # None => o < nextOrder
    BY <1>4 DEF OrdersOK, OrderOK
<1> QED
    BY <1>1, <1>2, <1>3, <1>4 DEF IInv, TypeOK, OrdersOK, UsersOK, RefreshOK, BooksOK

\* The same of the state a step leads to.
LEMMA IInvPartsNext ==
    IInv' <=> LedgerOK' /\ OrdersOK' /\ UsersOK' /\ RefreshOK' /\ BooksOK'
BY IInvParts, PTL

\* A request that is not a refresh leaves the refresh part alone.
LEMMA IdleStep ==
    ASSUME RefreshOK, Idle, UNCHANGED <<price, refresh>>
    PROVE  RefreshOK'
BY DEF RefreshOK, Idle, refresh, RefreshListsOpenOrders, Placed

\* A request that writes the row of one order and its event.
LEMMA OneOrderStep ==
    ASSUME OrdersOK, NEW o \in OrderIds, NEW x \in OrderStatus, NEW e, NEW t \in Terms,
           GoodEvent(e),
           terms' = [terms EXCEPT ![o] = t],
           event' = [event EXCEPT ![o] = e],
           status' = [status EXCEPT ![o] = x],
           nextOrder' \in {nextOrder, nextOrder + 1}, nextOrder' <= MaxOrders + 1,
           o < nextOrder',
           x \in {"ACCEPTED", "EXECUTED", "REJECTED"} => e.decision = "ALLOW",
           x = "BLOCKED" <=> e.decision = "BLOCKED",
           x = "HELD" => e.decision \in {"HELD", "AUTH_REQUIRED"},
           x # "PENDING",
           x = "ACCEPTED" => t.type = "LIMIT"
    PROVE  OrdersOK'
<1>1. e \in Events /\ e.pendingAuth \in {0, 1}
    BY DEF GoodEvent, Events
<1>2. /\ terms' \in [OrderIds -> Terms \cup {NoTerms}]
      /\ status' \in [OrderIds -> OrderStatus \cup {None}]
      /\ event' \in [OrderIds -> Events]
      /\ nextOrder' \in 1..(MaxOrders + 1) /\ nextOrder <= nextOrder'
    BY <1>1, TradingAssumption DEF OrdersOK
<1>3. OneRequestAtMost'
    BY <1>1 DEF OrdersOK, OneRequestAtMost
<1>4. ASSUME NEW other \in OrderIds, status'[other] # None
      PROVE  OrderOK(other)'
    <2>1. CASE other = o
        BY <1>4, <2>1 DEF OrdersOK, OrderOK
    <2>2. CASE other # o
        BY <1>2, <1>4, <2>2, TradingAssumption DEF OrdersOK, OrderOK, OrderIds
    <2> QED
        BY <2>1, <2>2
<1> QED
    BY <1>2, <1>3, <1>4 DEF OrdersOK

\* A request that writes no order and trades nothing keeps the books.
LEMMA SameBooks ==
    ASSUME BooksOK, UNCHANGED <<ledger, terms, status>>
    PROVE  BooksOK'
<1>1. Placed' = Placed /\ UNCHANGED <<cash, position, executions, terms>>
    BY DEF Placed, ledger
<1>2. LedgerBalanced'
    BY <1>1, BooksAre, BooksAreNext DEF BooksOK
<1> QED
    BY <1>1, <1>2 DEF BooksOK, ExecutionsArePlaced

\* A request that writes the row of one order keeps the books if it trades
\* nothing, or only that order.
LEMMA WrittenBooks ==
    ASSUME LedgerOK, OrdersOK, BooksOK,
           NEW o \in OrderIds, NEW t \in Terms, NEW after \in OrderStatus,
           o \in Placed => terms[o] = t,
           terms' = [terms EXCEPT ![o] = t],
           status' = [status EXCEPT ![o] = after],
           UNCHANGED ledger \/ \E p \in Nat : Filled(o, t, p)
    PROVE  BooksOK'
<1> DEFINE gains == Proceeds(t, executions'[o]) - Proceeds(t, executions[o])
           brings == Shares(t, executions'[o]) - Shares(t, executions[o])
<1>1. /\ executions \in [OrderIds -> Seq(Nat)]
      /\ cash \in [Users -> Nat] /\ position \in [Users -> [Stocks -> Nat]]
    BY PricesAreNumbers DEF LedgerOK
<1>2. Placed' = Placed \cup {o}
    BY DEF OrdersOK, Placed, OrderStatus, None
<1>3. t.quantity \in Nat /\ t.user \in Users /\ t.stock \in Stocks
    BY TradingAssumption DEF Terms
<1>4. /\ executions' \in [OrderIds -> Seq(Nat)]
      /\ \A other \in OrderIds \ {o} : executions'[other] = executions[other]
  <2>1. CASE UNCHANGED ledger
      BY <1>1, <2>1 DEF ledger
  <2>2. ASSUME NEW p \in Nat, executions' = [executions EXCEPT ![o] = Append(@, p)]
        PROVE  /\ executions' \in [OrderIds -> Seq(Nat)]
               /\ \A other \in OrderIds \ {o} : executions'[other] = executions[other]
    <3>1. Append(executions[o], p) \in Seq(Nat)
        BY <1>1
    <3> QED
        BY <1>1, <2>2, <3>1
  <2> QED
      BY <2>1, <2>2 DEF Filled
<1>5. RowWritten(Placed, terms, executions, terms', executions', o, t)
    BY <1>1, <1>4 DEF RowWritten, Placed, OrdersOK, OrderOK, BooksOK, ExecutionsArePlaced
<1>6. /\ cash'[t.user] = cash[t.user] + gains
      /\ \A u \in Users \ {t.user} : cash'[u] = cash[u]
  <2>1. CASE UNCHANGED ledger
    <3>1. gains = 0
        BY <1>1, <2>1, GainsTyped DEF ledger
    <3> HIDE DEF gains
    <3> QED
        BY <1>1, <1>3, <2>1, <3>1 DEF ledger
  <2>2. ASSUME NEW p \in Nat, Filled(o, t, p)
        PROVE  /\ cash'[t.user] = cash[t.user] + gains
               /\ \A u \in Users \ {t.user} : cash'[u] = cash[u]
    <3>1. executions'[o] = Append(executions[o], p)
        BY <1>1, <2>2 DEF Filled
    <3>2. Proceeds(t, executions[o]) \in Int /\ p * t.quantity \in Int
        BY <1>1, <1>3, GainsTyped, Multiply
    <3>3. Proceeds(t, executions'[o]) = IF t.side = "BUY"
                THEN Proceeds(t, executions[o]) - p * t.quantity
                ELSE Proceeds(t, executions[o]) + p * t.quantity
      <4> DEFINE x == executions[o]
      <4>1. x \in Seq(Nat)
          BY <1>1
      <4> HIDE DEF x
      <4>2. Proceeds(t, Append(x, p)) = IF t.side = "BUY" THEN Proceeds(t, x) - p * t.quantity
                                                    ELSE Proceeds(t, x) + p * t.quantity
          BY <4>1, GainsMore
      <4> QED
          BY <3>1, <4>2 DEF x
    <3>4. cash'[t.user] = IF t.side = "BUY" THEN cash[t.user] - p * t.quantity
                                            ELSE cash[t.user] + p * t.quantity
        BY <1>1, <1>3, <2>2 DEF Filled
    <3>5. cash[t.user] \in Int
        BY <1>1, <1>3
    <3>6. \A u \in Users \ {t.user} : cash'[u] = cash[u]
        BY <1>1, <2>2 DEF Filled
    <3> QED
        BY <3>2, <3>3, <3>4, <3>5, <3>6
  <2> QED
      BY <2>1, <2>2
<1>7. /\ position'[t.user][t.stock] = position[t.user][t.stock] + brings
      /\ \A u \in Users, s \in Stocks :
            u # t.user \/ s # t.stock => position'[u][s] = position[u][s]
  <2>1. CASE UNCHANGED ledger
    <3>1. brings = 0
        BY <1>1, <2>1, GainsTyped DEF ledger
    <3> HIDE DEF brings
    <3> QED
        BY <1>1, <1>3, <2>1, <3>1 DEF ledger
  <2>2. ASSUME NEW p \in Nat, Filled(o, t, p)
        PROVE  /\ position'[t.user][t.stock] = position[t.user][t.stock] + brings
               /\ \A u \in Users, s \in Stocks :
                     u # t.user \/ s # t.stock => position'[u][s] = position[u][s]
    <3>1. executions'[o] = Append(executions[o], p)
        BY <1>1, <2>2 DEF Filled
    <3>2. Shares(t, executions[o]) \in Int
        BY <1>1, GainsTyped
    <3>3. Shares(t, executions'[o]) = IF t.side = "BUY"
                THEN Shares(t, executions[o]) + t.quantity
                ELSE Shares(t, executions[o]) - t.quantity
      <4> DEFINE x == executions[o]
      <4>1. x \in Seq(Nat)
          BY <1>1
      <4> HIDE DEF x
      <4>2. Shares(t, Append(x, p)) = IF t.side = "BUY" THEN Shares(t, x) + t.quantity
                                                    ELSE Shares(t, x) - t.quantity
          BY <4>1, GainsMore
      <4> QED
          BY <3>1, <4>2 DEF x
    <3>4. position'[t.user][t.stock] = IF t.side = "BUY"
                THEN position[t.user][t.stock] + t.quantity
                ELSE position[t.user][t.stock] - t.quantity
      <4>1. position'[t.user] = [position[t.user] EXCEPT ![t.stock] =
                IF t.side = "BUY" THEN @ + t.quantity ELSE @ - t.quantity]
          BY <1>1, <1>3, <2>2 DEF Filled
      <4>2. position[t.user] \in [Stocks -> Nat]
          BY <1>1, <1>3
      <4> QED
          BY <1>3, <4>1, <4>2
    <3>5. position[t.user][t.stock] \in Int
        BY <1>1, <1>3
    <3>6. \A u \in Users, s \in Stocks :
              u # t.user \/ s # t.stock => position'[u][s] = position[u][s]
        BY <1>1, <2>2 DEF Filled
    <3> QED
        BY <1>3, <3>2, <3>3, <3>4, <3>5, <3>6
  <2> QED
      BY <2>1, <2>2
<1>8. Proceeds(t, executions[o]) \in Int /\ Proceeds(t, executions'[o]) \in Int
    BY <1>1, <1>4, GainsTyped
<1>9. Shares(t, executions[o]) \in Int /\ Shares(t, executions'[o]) \in Int
    BY <1>1, <1>4, GainsTyped
<1>10. ASSUME NEW u \in Users
       PROVE  cash'[u] = CashBy(Placed', terms', executions', u)
  <2>1. /\ cash[u] = CashBy(Placed, terms, executions, u)
        /\ CashBy(Placed, terms, executions, u) \in Int
      BY <1>5, BooksAre, CashMoves DEF BooksOK
  <2>2. /\ t.user # u => CashBy(Placed', terms', executions', u) = cash[u]
        /\ t.user = u => CashBy(Placed', terms', executions', u) =
               cash[u] + Proceeds(t, executions'[o]) - Proceeds(t, executions[o])
      BY <1>2, <1>5, <2>1, CashMoves
  <2> QED
      BY <1>6, <1>8, <2>1, <2>2
<1>11. ASSUME NEW u \in Users, NEW s \in Stocks
       PROVE  position'[u][s] = SharesBy(Placed', terms', executions', u, s)
  <2>1. /\ position[u][s] = SharesBy(Placed, terms, executions, u, s)
        /\ SharesBy(Placed, terms, executions, u, s) \in Int
      BY <1>5, BooksAre, SharesMove DEF BooksOK
  <2>2. /\ t.user # u \/ t.stock # s =>
               SharesBy(Placed', terms', executions', u, s) = position[u][s]
        /\ t.user = u /\ t.stock = s =>
               SharesBy(Placed', terms', executions', u, s) =
                   position[u][s] + Shares(t, executions'[o]) - Shares(t, executions[o])
      BY <1>2, <1>5, <2>1, SharesMove
  <2> QED
      BY <1>7, <1>9, <2>1, <2>2
<1>12. LedgerBalanced'
    BY <1>10, <1>11, BooksAreNext
<1>13. ExecutionsArePlaced'
    BY <1>2, <1>4 DEF BooksOK, ExecutionsArePlaced, Placed
<1> QED
    BY <1>12, <1>13 DEF BooksOK

\* The initial state.
LEMMA InitIInv == Init => IInv
<1> SUFFICES ASSUME Init PROVE LedgerOK /\ OrdersOK /\ UsersOK /\ RefreshOK /\ BooksOK
    BY IInvParts
<1>1. LedgerOK
    BY TradingAssumption DEF Init, LedgerOK
<1>2. OrdersOK
    <2>1. \A o \in OrderIds : status[o] = None /\ event[o] = NoEvent
        BY DEF Init
    <2>2. event \in [OrderIds -> Events] /\ OneRequestAtMost
        BY <2>1 DEF Init, Events, OneRequestAtMost, NoEvent
    <2> QED
        BY <2>1, <2>2, TradingAssumption DEF Init, OrdersOK
<1>3. UsersOK
    BY DEF Init, UsersOK, UserStatus, LockedIsSignedOut
<1>4. RefreshOK
    BY DEF Init, RefreshOK, RefreshListsOpenOrders
<1>5. BooksOK
    <2>1. Placed = {}
        BY DEF Init, Placed
    <2>2. \A w, a, u, s : /\ CashBy({}, w, a, u) = OpeningCash[u] + 0
                          /\ SharesBy({}, w, a, u, s) = 0
        BY SumEmpty DEF CashBy, SharesBy
    <2>3. LedgerBalanced
        BY <2>1, <2>2, BooksAre, TradingAssumption DEF Init
    <2> QED
        BY <2>3 DEF BooksOK, ExecutionsArePlaced, Init
<1> QED
    BY <1>1, <1>2, <1>3, <1>4, <1>5

\* The action properties, as what one step must do.
LedgerStep == Ledger!Next \/ UNCHANGED <<cash, position>>

FillStep ==
    \A o \in OrderIds : executions'[o] # executions[o] =>
            /\ event'[o].decision = "ALLOW"
            /\ status'[o] = "EXECUTED"
            /\ status[o] \in {None, "ACCEPTED", "HELD", "BLOCKED"}

LockStep ==
    \A o \in Placed :
        userStatus[Owner(o)] = "LOCKED" /\ executions'[o] # executions[o]
            => status[o] \in {"HELD", "BLOCKED"}

RefreshStep ==
    \A o \in todo \ todo' :
        \/ status'[o] \in {"EXECUTED", "REJECTED"}
        \/ /\ status'[o] = "ACCEPTED"
           /\ ~Marketable(terms[o], price'[terms[o].stock])

StepOK == IInv' /\ LedgerStep /\ FillStep /\ LockStep /\ RefreshStep

\* A request that executes nothing, by what it writes.
LEMMA QuietStep ==
    ASSUME IInv, UNCHANGED ledger, Idle, OrdersOK', UsersOK', RefreshOK', BooksOK'
    PROVE  StepOK
<1>1. LedgerOK /\ LedgerOK'
    BY IInvParts DEF ledger, LedgerOK
<1>2. todo \ todo' = {}
    BY DEF Idle
<1> QED
    BY <1>1, <1>2, IInvPartsNext DEF StepOK, LedgerStep, FillStep, LockStep, RefreshStep, ledger

\* A request that executes the order of one row, on an ALLOW decision.
LEMMA ExecutingStep ==
    ASSUME IInv, NEW o \in OrderIds, NEW t \in Terms, NEW cur \in Prices, NEW e,
           GoodEvent(e), e.decision = "ALLOW",
           ExecuteOrReject(o, t, cur),
           terms' = [terms EXCEPT ![o] = t],
           event' = [event EXCEPT ![o] = e],
           nextOrder' \in {nextOrder, nextOrder + 1}, nextOrder' <= MaxOrders + 1,
           o < nextOrder',
           o \in Placed => terms[o] = t,
           status[o] \in {None, "ACCEPTED", "HELD", "BLOCKED"},
           status[o] \in {None, "ACCEPTED"} =>
                ~(o \in Placed /\ userStatus[Owner(o)] = "LOCKED"),
           todo \ todo' \subseteq {o}, o \in todo => t = terms[o] /\ cur = price'[t.stock],
           UsersOK', OrdersOK' => RefreshOK'
    PROVE  StepOK
<1>1. LedgerOK /\ OrdersOK /\ UsersOK /\ RefreshOK /\ BooksOK
    BY IInvParts
<1>2. status \in [OrderIds -> OrderStatus \cup {None}]
    BY <1>1 DEF OrdersOK
<1>3. PICK x \in {"ACCEPTED", "EXECUTED", "REJECTED"} :
         /\ status' = [status EXCEPT ![o] = x]
         /\ x = "ACCEPTED" => ~Marketable(t, cur) /\ t.type = "LIMIT"
         /\ executions' # executions => x = "EXECUTED"
    BY <1>1, <1>2, ExecuteStep
<1>4. /\ LedgerOK'
      /\ LedgerStep
      /\ UNCHANGED ledger \/ \E p \in Nat : Filled(o, t, p)
      /\ \A other \in OrderIds \ {o} : executions'[other] = executions[other]
    BY <1>1, <1>2, ExecuteStep DEF LedgerStep
<1>5. x \in OrderStatus /\ x \notin {"BLOCKED", "HELD", "PENDING"}
    BY DEF OrderStatus
<1>6. OrdersOK'
    BY <1>1, <1>3, <1>5, OneOrderStep
<1>7. BooksOK'
    BY <1>1, <1>3, <1>4, <1>5, WrittenBooks
<1>8. IInv'
    BY <1>4, <1>6, <1>7, IInvPartsNext
<1>9. status'[o] = x /\ event'[o] = e
    BY <1>1, <1>3 DEF OrdersOK
<1>10. FillStep
    BY <1>3, <1>4, <1>9 DEF FillStep
<1>11. LockStep
    BY <1>4 DEF LockStep, Placed
<1>12. RefreshStep
    BY <1>3, <1>9 DEF RefreshStep
<1> QED
    BY <1>4, <1>8, <1>10, <1>11, <1>12 DEF StepOK

\* create_order, whichever way the event came about.
LEMMA CreateStep ==
    ASSUME IInv, NEW t \in Terms, NEW e, GoodEvent(e), CreateOrder(t, e)
    PROVE  StepOK
<1> DEFINE o == nextOrder
           cur == price[t.stock]
<1>1. LedgerOK /\ OrdersOK /\ UsersOK /\ RefreshOK /\ BooksOK
    BY IInvParts
<1>2. /\ Idle /\ o \in OrderIds /\ nextOrder' = o + 1
      /\ UNCHANGED <<users, price, refresh>>
    BY DEF CreateOrder
<1>3. UsersOK' /\ RefreshOK'
    BY <1>1, <1>2, IdleStep DEF UsersOK, users, LockedIsSignedOut
<1>4. cur \in Prices
    BY <1>1 DEF RefreshOK, Terms
<1>5. /\ nextOrder' \in 1..(MaxOrders + 1) /\ nextOrder' <= MaxOrders + 1
      /\ o < nextOrder' /\ nextOrder' \in {nextOrder, nextOrder + 1}
    BY <1>1, <1>2, TradingAssumption DEF OrdersOK, OrderIds
<1>6. status[o] = None
    BY <1>1, <1>2, TradingAssumption DEF OrdersOK, OrderOK, OrderIds
<1>7. CASE UNCHANGED <<terms, event, status, ledger>>
    <2>1. ASSUME NEW other \in OrderIds, status'[other] # None
          PROVE  OrderOK(other)'
        BY <1>1, <1>2, <1>5, <1>7, <2>1, TradingAssumption DEF OrdersOK, OrderOK, OrderIds
    <2>2. OrdersOK'
        BY <1>1, <1>5, <1>7, <2>1 DEF OrdersOK, OneRequestAtMost
    <2>3. BooksOK'
        BY <1>1, <1>7, SameBooks
    <2> QED
        BY <1>2, <1>3, <1>7, <2>2, <2>3, QuietStep
<1>8. ASSUME terms' = [terms EXCEPT ![o] = t], event' = [event EXCEPT ![o] = e],
             NEW x \in {"BLOCKED", "HELD"}, status' = [status EXCEPT ![o] = x],
             UNCHANGED ledger,
             x = "BLOCKED" <=> e.decision = "BLOCKED",
             x = "HELD" => e.decision \in {"HELD", "AUTH_REQUIRED"}
      PROVE  StepOK
    <2>1. x \in OrderStatus /\ x \notin {"ACCEPTED", "EXECUTED", "REJECTED", "PENDING"}
        BY DEF OrderStatus
    <2>2. OrdersOK'
        BY <1>1, <1>2, <1>5, <1>8, <2>1, OneOrderStep
    <2>3. BooksOK'
        BY <1>1, <1>2, <1>6, <1>8, <2>1, WrittenBooks DEF Placed
    <2> QED
        BY <1>2, <1>3, <1>8, <2>2, <2>3, QuietStep
<1>9. ASSUME terms' = [terms EXCEPT ![o] = t], event' = [event EXCEPT ![o] = e],
             e.decision = "ALLOW", ExecuteOrRaise(o, t, cur)
      PROVE  StepOK
    <2>1. ExecuteOrReject(o, t, cur) /\ o \notin Placed /\ o \notin todo /\ todo \ todo' = {}
        BY <1>2, <1>6, <1>9 DEF ExecuteOrReject, Placed, Idle
    <2> QED
        BY <1>2, <1>3, <1>4, <1>5, <1>6, <1>9, <2>1, ExecutingStep
<1> QED
    BY <1>7, <1>8, <1>9 DEF CreateOrder

\* What an action on a placed order finds.
LEMMA PlacedFacts ==
    ASSUME IInv, NEW o \in Placed
    PROVE  /\ o \in OrderIds /\ status[o] # None /\ OrderOK(o)
           /\ terms[o] \in Terms /\ Owner(o) \in Users /\ terms[o].stock \in Stocks
           /\ terms = [terms EXCEPT ![o] = terms[o]]
           /\ event = [event EXCEPT ![o] = event[o]]
           /\ nextOrder <= MaxOrders + 1
<1>1. OrdersOK
    BY IInvParts
<1>2. o \in OrderIds /\ status[o] # None /\ OrderOK(o)
    BY <1>1 DEF Placed, OrdersOK
<1>3. terms[o] \in Terms
    BY <1>2 DEF OrderOK
<1> QED
    BY <1>1, <1>2, <1>3, TradingAssumption DEF OrdersOK, Owner, Terms

\* A request that gives one placed order another status and event, and
\* executes nothing.
LEMMA RestatusStep ==
    ASSUME IInv, Idle, NEW o \in Placed, NEW x \in OrderStatus, NEW e, GoodEvent(e),
           event' = [event EXCEPT ![o] = e],
           status' = [status EXCEPT ![o] = x],
           UNCHANGED <<ledger, price, terms, nextOrder, refresh>>,
           UsersOK',
           x \in {"ACCEPTED", "EXECUTED", "REJECTED"} => e.decision = "ALLOW",
           x = "BLOCKED" <=> e.decision = "BLOCKED",
           x = "HELD" => e.decision \in {"HELD", "AUTH_REQUIRED"},
           x # "PENDING",
           x = "ACCEPTED" => terms[o].type = "LIMIT"
    PROVE  StepOK
<1>1. LedgerOK /\ OrdersOK /\ RefreshOK /\ BooksOK
    BY IInvParts
<1>2. /\ o \in OrderIds /\ o < nextOrder /\ nextOrder <= MaxOrders + 1
      /\ terms[o] \in Terms /\ terms = [terms EXCEPT ![o] = terms[o]]
    BY PlacedFacts DEF OrderOK
<1>3. OrdersOK'
    BY <1>1, <1>2, OneOrderStep
<1>4. RefreshOK'
    BY <1>1, IdleStep
<1>5. BooksOK'
    BY <1>1, <1>2, WrittenBooks
<1> QED
    BY <1>3, <1>4, <1>5, QuietStep

\* A login, the end of the last session, and the start of a refresh.
LEMMA UserSteps ==
    ASSUME IInv, NEW u \in Users, Login(u) \/ EndSession(u) \/ BeginSync(u)
    PROVE  StepOK
<1>1. LedgerOK /\ OrdersOK /\ UsersOK /\ RefreshOK /\ BooksOK
    BY IInvParts
<1>2. OrdersOK' /\ UNCHANGED ledger /\ Idle
    BY <1>1 DEF Login, EndSession, BeginSync, OrdersOK, OrderOK, OneRequestAtMost
<1>3. BooksOK'
    BY <1>1, SameBooks DEF Login, EndSession, BeginSync
<1>4. UsersOK'
    BY <1>1 DEF Login, EndSession, BeginSync, users, UsersOK, LockedIsSignedOut
<1>5. CASE Login(u) \/ EndSession(u)
    BY <1>1, <1>2, <1>3, <1>4, <1>5, IdleStep, QuietStep DEF Login, EndSession
<1>6. CASE BeginSync(u)
    <2>1. RefreshOK'
        BY <1>1, <1>6 DEF BeginSync, RefreshOK, RefreshListsOpenOrders, users, Owner, Placed
    <2> QED
        BY <1>2, <1>3, <1>4, <2>1, QuietStep
<1> QED
    BY <1>5, <1>6

\* cancel_order.
LEMMA CancelStep ==
    ASSUME IInv, NEW o \in OrderIds, CancelOrder(o)
    PROVE  StepOK
<1>1. /\ o \in Placed /\ Idle /\ status[o] \in {"PENDING", "ACCEPTED", "HELD"}
      /\ status' = [status EXCEPT ![o] = "CANCELLED"]
      /\ UNCHANGED <<users, ledger, price, terms, event, nextOrder, refresh>>
    BY DEF CancelOrder, Cancellable
<1>2. GoodEvent(event[o]) /\ event[o].decision # "BLOCKED" /\ event' = [event EXCEPT ![o] = event[o]]
    BY <1>1, PlacedFacts DEF OrderOK
<1>3. UsersOK'
    BY <1>1, IInvParts DEF UsersOK, users, LockedIsSignedOut
<1> QED
    BY <1>1, <1>2, <1>3, RestatusStep DEF OrderStatus

\* One iteration of sync_open_orders_for_user.
LEMMA SyncStep ==
    ASSUME IInv, NEW o \in todo, NEW p \in Prices, SyncOrder(o, p)
    PROVE  StepOK
<1> DEFINE s == terms[o].stock
<1>1. LedgerOK /\ OrdersOK /\ UsersOK /\ RefreshOK
    BY IInvParts
<1>2. /\ price' = [price EXCEPT ![s] = p]
      /\ ExecuteOrReject(o, terms[o], p)
      /\ todo' = todo \ {o}
      /\ quoted' \in {{}, quoted \cup {s}}
      /\ UNCHANGED <<users, terms, event, nextOrder>>
    BY DEF SyncOrder
<1>3. o \in Placed /\ status[o] \in Open /\ signedIn[Owner(o)]
    BY <1>1 DEF RefreshOK, RefreshListsOpenOrders
<1>4. /\ o \in OrderIds /\ OrderOK(o) /\ terms[o] \in Terms /\ Owner(o) \in Users /\ s \in Stocks
      /\ terms = [terms EXCEPT ![o] = terms[o]]
      /\ event = [event EXCEPT ![o] = event[o]]
      /\ nextOrder <= MaxOrders + 1
    BY <1>3, PlacedFacts
<1>5. status[o] = "ACCEPTED" /\ event[o].decision = "ALLOW" /\ GoodEvent(event[o])
    BY <1>3, <1>4 DEF OrderOK, Open
<1>6. userStatus[Owner(o)] # "LOCKED"
    BY <1>1, <1>3, <1>4 DEF UsersOK, LockedIsSignedOut
<1>7. UsersOK'
    BY <1>1, <1>2 DEF UsersOK, users, LockedIsSignedOut
<1>8. price'[s] = p
    BY <1>1, <1>2, <1>4 DEF RefreshOK
<1>9. ASSUME OrdersOK' PROVE RefreshOK'
    <2>1. PICK x \in {"ACCEPTED", "EXECUTED", "REJECTED"} : status' = [status EXCEPT ![o] = x]
        BY <1>1, <1>2, <1>4, ExecuteStep DEF OrdersOK
    <2>2. price' \in [Stocks -> Prices] /\ quoted' \subseteq Stocks
        BY <1>1, <1>2, <1>4 DEF RefreshOK
    <2>3. \A other \in todo' : status'[other] = status[other]
        BY <1>1, <1>2, <2>1 DEF RefreshOK, Placed, OrdersOK
    <2>4. todo' \subseteq Placed'
        BY <1>1, <1>2, <2>3 DEF RefreshOK, Placed
    <2>5. RefreshListsOpenOrders'
        BY <1>1, <1>2, <2>3 DEF RefreshOK, RefreshListsOpenOrders, Owner, users
    <2> QED
        BY <2>2, <2>4, <2>5 DEF RefreshOK
<1>10. o < nextOrder' /\ nextOrder' \in {nextOrder, nextOrder + 1} /\ nextOrder' <= MaxOrders + 1
    BY <1>2, <1>4 DEF OrderOK
<1> QED
    BY <1>2, <1>4, <1>5, <1>6, <1>7, <1>8, <1>9, <1>10, ExecutingStep

\* APPROVE, whether it executes the order or finds it past that.
LEMMA ApproveStep ==
    ASSUME IInv, NEW o \in OrderIds, Approve(o)
    PROVE  StepOK
<1> DEFINE e == [event[o] EXCEPT !.decision = "ALLOW", !.status = "APPROVED"]
           cur == price[terms[o].stock]
<1>1. /\ Idle /\ o \in Placed
      /\ event' = [event EXCEPT ![o] = e]
      /\ UNCHANGED <<users, price, terms, nextOrder, refresh>>
    BY IInvParts DEF Approve, SetEvent, OrdersOK
<1>2. /\ status[o] # None /\ OrderOK(o) /\ terms[o] \in Terms /\ terms[o].stock \in Stocks
      /\ terms = [terms EXCEPT ![o] = terms[o]]
      /\ nextOrder <= MaxOrders + 1
    BY <1>1, PlacedFacts
<1>3. GoodEvent(e) /\ e.decision = "ALLOW"
    BY <1>2 DEF GoodEvent, OrderOK, RiskDecision, RiskEventStatus
<1>4. UsersOK' /\ RefreshOK'
    BY <1>1, IInvParts, IdleStep DEF UsersOK, users, LockedIsSignedOut
<1>5. CASE status[o] \in Approvable /\ ExecuteOrRaise(o, terms[o], cur)
    <2>1. status[o] \in {"HELD", "BLOCKED"}
        BY <1>2, <1>5 DEF Approvable, OrderOK
    <2>2. ExecuteOrReject(o, terms[o], cur) /\ cur \in Prices /\ todo \ todo' = {} /\ o \notin todo
        BY <1>1, <1>2, <1>5, IInvParts DEF ExecuteOrReject, RefreshOK, Idle
    <2>3. o < nextOrder' /\ nextOrder' \in {nextOrder, nextOrder + 1} /\ nextOrder' <= MaxOrders + 1
        BY <1>1, <1>2 DEF OrderOK
    <2> QED
        BY <1>1, <1>2, <1>3, <1>4, <2>1, <2>2, <2>3, ExecutingStep DEF None
<1>6. CASE status[o] \notin Approvable /\ UNCHANGED <<status, ledger>>
    <2>1. status[o] \in OrderStatus /\ status' = [status EXCEPT ![o] = status[o]]
        BY <1>2, <1>6, IInvParts DEF OrdersOK
    <2>2. status[o] \notin {"HELD", "BLOCKED", "PENDING"}
        BY <1>6 DEF Approvable
    <2> HIDE DEF e
    <2> QED
        BY <1>1, <1>2, <1>3, <1>4, <1>6, <2>1, <2>2, RestatusStep DEF OrderOK
<1> QED
    BY <1>5, <1>6 DEF Approve

\* BLOCK, and LOCK_ACCOUNT, which blocks the order as well.
LEMMA RefuseSteps ==
    ASSUME IInv, NEW o \in OrderIds, Block(o) \/ LockAccount(o)
    PROVE  StepOK
<1> DEFINE e == [event[o] EXCEPT !.decision = "BLOCKED", !.status = "BLOCKED"]
<1>1. /\ Idle /\ o \in Placed
      /\ event' = [event EXCEPT ![o] = e]
      /\ status' = [status EXCEPT ![o] = "BLOCKED"]
      /\ UNCHANGED <<ledger, price, terms, nextOrder, refresh>>
    BY IInvParts DEF Block, LockAccount, SetEvent, OrdersOK
<1>2. GoodEvent(e) /\ e.decision = "BLOCKED"
    BY <1>1, PlacedFacts DEF GoodEvent, OrderOK, RiskDecision, RiskEventStatus
<1>3. UsersOK'
    BY <1>1, PlacedFacts, IInvParts
       DEF Block, LockAccount, UsersOK, UserStatus, users, LockedIsSignedOut
<1> HIDE DEF e
<1> QED
    BY <1>1, <1>2, <1>3, RestatusStep DEF OrderStatus

\* REQUEST_ADDITIONAL_AUTH.
LEMMA RequestAuthStep ==
    ASSUME IInv, NEW o \in OrderIds, RequestAuth(o)
    PROVE  StepOK
<1> DEFINE e == [decision |-> "AUTH_REQUIRED", status |-> "AUTH_REQUIRED",
                 pendingAuth |-> IF event[o].pendingAuth = 0 THEN 1 ELSE event[o].pendingAuth]
<1>1. /\ Idle /\ o \in Placed
      /\ event' = [event EXCEPT ![o] = e]
      /\ status' = [status EXCEPT ![o] = "HELD"]
      /\ UNCHANGED <<users, ledger, price, terms, nextOrder, refresh>>
    BY IInvParts DEF RequestAuth, OrdersOK
<1>2. GoodEvent(e) /\ e.decision = "AUTH_REQUIRED"
    BY <1>1, PlacedFacts DEF GoodEvent, OrderOK, RiskDecision, RiskEventStatus
<1>3. UsersOK'
    BY <1>1, IInvParts DEF UsersOK, users, LockedIsSignedOut
<1> HIDE DEF e
<1> QED
    BY <1>1, <1>2, <1>3, RestatusStep DEF OrderStatus

\* UNLOCK_ACCOUNT.
LEMMA UnlockStep ==
    ASSUME IInv, NEW o \in OrderIds, UnlockAccount(o)
    PROVE  StepOK
<1>1. /\ Idle
      /\ UNCHANGED <<signedIn, ledger, price, terms, status, event, nextOrder, refresh>>
    BY DEF UnlockAccount
<1>2. OrdersOK'
    BY <1>1, IInvParts DEF OrdersOK, OrderOK, OneRequestAtMost
<1>3. UsersOK'
    BY <1>1, IInvParts DEF UnlockAccount, UsersOK, UserStatus, LockedIsSignedOut
<1>4. BooksOK'
    BY <1>1, IInvParts, SameBooks
<1> QED
    BY <1>1, <1>2, <1>3, <1>4, IInvParts, IdleStep, QuietStep

\* Every request satisfies the invariant after it and the step properties.
LEMMA NextStep == IInv /\ [Next]_vars => StepOK
<1> SUFFICES ASSUME IInv, [Next]_vars PROVE StepOK
    OBVIOUS
<1>1. ASSUME NEW t \in Terms, NEW score \in Scores, NEW view \in Views,
             SubmitOrder(t, score, view)
      PROVE  StepOK
    BY <1>1, ScreeningIsGood, CreateStep DEF SubmitOrder
<1>2. ASSUME NEW t \in Terms, NEW score \in Scores, LabOrder(t, score)
      PROVE  StepOK
    BY <1>2, ScreeningIsGood, CreateStep DEF LabOrder
<1>3. ASSUME NEW o \in OrderIds, AdminAction(o)
      PROVE  StepOK
    BY <1>3, ApproveStep, RefuseSteps, RequestAuthStep, UnlockStep DEF AdminAction
<1>4. CASE UNCHANGED vars
    <2>1. /\ UNCHANGED ledger /\ todo \ todo' = {} /\ todo' = todo
          /\ LedgerOK' /\ OrdersOK' /\ UsersOK' /\ RefreshOK'
        BY <1>4, IInvParts
           DEF vars, users, ledger, refresh, LedgerOK, OrdersOK, OrderOK, OneRequestAtMost,
               UsersOK, LockedIsSignedOut, RefreshOK, RefreshListsOpenOrders, Placed, Owner
    <2>2. BooksOK'
        BY <1>4, IInvParts, SameBooks DEF vars
    <2> QED
        BY <2>1, <2>2, IInvPartsNext
           DEF StepOK, LedgerStep, FillStep, LockStep, RefreshStep, ledger
<1> QED
    BY <1>1, <1>2, <1>3, <1>4, UserSteps, CancelStep, SyncStep DEF Next

----------------------------------------------------------------------------
\* The strengthened invariant holds in every reachable state: this is the
\* whole of the argument, of which the theorems below are consequences.
THEOREM Invariance == Spec => []IInv
<1>1. IInv /\ [Next]_vars => IInv'
    BY NextStep DEF StepOK
<1> QED
    BY InitIInv, <1>1, PTL DEF Spec

\* Every variable keeps the type of its column (service code as a whole).
THEOREM TypeCorrect == Spec => []TypeOK
<1>1. IInv => TypeOK
    BY DEF IInv
<1> QED
    BY Invariance, <1>1, PTL

\* execute_order_if_possible never overdraws an account, for any thresholds,
\* prices and number of orders.
THEOREM Solvency == Spec => []NoOverdraft
<1>1. IInv => NoOverdraft
    BY DEF IInv
<1> QED
    BY Invariance, <1>1, PTL

\* execute_order_if_possible never sells what is not held.
THEOREM Covered == Spec => []NoShortPosition
<1>1. IInv => NoShortPosition
    BY DEF IInv
<1> QED
    BY Invariance, <1>1, PTL

\* Every account and every holding is what the executions of the user's
\* orders make of the opening balance, through submission, refresh, review
\* and the lab's orders, whatever is rejected, cancelled or rolled back.
THEOREM LedgerBalances == Spec => []LedgerBalanced
<1>1. IInv => LedgerBalanced
    BY DEF IInv
<1> QED
    BY Invariance, <1>1, PTL

\* The status of an order and the decision on its risk event agree, through
\* submission, refresh, cancellation and every admin action.
THEOREM StatusAgrees == Spec => []StatusMatchesDecision
<1>1. IInv => StatusMatchesDecision
    BY DEF IInv
<1> QED
    BY Invariance, <1>1, PTL

\* The status and the decision of a risk event agree.
THEOREM EventAgrees == Spec => []EventStatusMatchesDecision
<1>1. IInv => EventStatusMatchesDecision
    BY DEF IInv
<1> QED
    BY Invariance, <1>1, PTL

\* No request leaves an order where nothing can move it on.
THEOREM NoneStranded == Spec => []NoStrandedOrder
<1>1. IInv => NoStrandedOrder
    BY DEF IInv
<1> QED
    BY Invariance, <1>1, PTL

\* Every fill is of an order its risk event allows, in a status from which
\* the code may execute it.
THEOREM FillsAuthorised == Spec => FillIsAuthorised
<1>1. IInv /\ [Next]_vars => [FillStep]_vars
    BY NextStep DEF StepOK
<1> QED
    BY Invariance, <1>1, PTL DEF Spec, FillIsAuthorised, FillStep

\* Once an account is locked its ACCEPTED orders are not filled any more,
\* because locking leaves it no session to refresh them from.
THEOREM LockFreezes == Spec => LockFreezesOrders
<1>1. IInv /\ [Next]_vars => [LockStep]_vars
    BY NextStep DEF StepOK
<1> QED
    BY Invariance, <1>1, PTL DEF Spec, LockFreezesOrders, LockStep

\* A refresh decides every order it visits by the price it has just set.
THEOREM RefreshDecides == Spec => RefreshIsDecisive
<1>1. IInv /\ [Next]_vars => [RefreshStep]_vars
    BY NextStep DEF StepOK
<1> QED
    BY Invariance, <1>1, PTL DEF Spec, RefreshIsDecisive, RefreshStep

\* Trading implements the abstract brokerage: whatever orders, screening and
\* review do, the accounts change by covered whole-order trades only.
THEOREM Refinement == Spec => ImplementsBrokerage
<1>1. Init => Ledger!Init
    BY DEF Init, Ledger!Init
<1>2. IInv /\ [Next]_vars => [Ledger!Next]_(Ledger!accounts)
    BY NextStep DEF StepOK, LedgerStep, Ledger!accounts
<1> QED
    BY Invariance, <1>1, <1>2, PTL DEF Spec, ImplementsBrokerage, Ledger!Spec

----------------------------------------------------------------------------
\* The audit trail and the administrator's screens tell the state of the
\* orders.  A step of AuditTrail is a step of Trading, so the invariant
\* above carries over; what is added to it is RowOK, of the row of each order.

\* The last row about an order is of its present status and decision.
RowOK(o) ==
    /\ trail[o] \in [status: OrderStatus, severity: Severities] \cup {NoRow}
    /\ \/ trail[o].status = status[o]
       \/ trail[o].status = "ACCEPTED" /\ status[o] = "REJECTED"
    /\ status[o] = "BLOCKED" => trail[o].severity = "CRITICAL"
    /\ status[o] = "HELD" /\ event[o].decision = "AUTH_REQUIRED"
          => trail[o].severity = "SUSPICIOUS"

AuditInv ==
    /\ IInv
    /\ trail \in [OrderIds -> [status: OrderStatus, severity: Severities] \cup {NoRow}]
    /\ \A o \in OrderIds : RowOK(o)

LEMMA StepIsTrading == [AuditNext]_auditVars => [Next]_vars
BY DEF AuditNext, auditVars, Next, AdminAction, UnlockAgain

LEMMA InitAudit == AuditInit => AuditInv
<1> SUFFICES ASSUME AuditInit PROVE AuditInv
    OBVIOUS
<1>1. IInv
    BY InitIInv DEF AuditInit
<1>2. \A o \in OrderIds : RowOK(o)
    BY DEF AuditInit, Init, RowOK, NoRow, None
<1>3. trail \in [OrderIds -> [status: OrderStatus, severity: Severities] \cup {NoRow}]
    BY DEF AuditInit
<1> QED
    BY <1>1, <1>2, <1>3 DEF AuditInv

\* The feed gives every row a severity.
LEMMA SeverityTyped ==
    ASSUME NEW type, NEW decision, NEW score
    PROVE  FeedSeverity(type, decision, score) \in Severities
BY DEF FeedSeverity, Severities

\* A step about one order that writes a row of the status it leaves, with a
\* severity that fits, keeps the trail.
LEMMA RowStep ==
    ASSUME AuditInv, IInv', NEW o \in OrderIds, NEW severity \in Severities,
           status'[o] \in OrderStatus,
           trail' = [trail EXCEPT ![o] = [status |-> status'[o], severity |-> severity]],
           status'[o] = "BLOCKED" => severity = "CRITICAL",
           status'[o] = "HELD" /\ event'[o].decision = "AUTH_REQUIRED"
              => severity = "SUSPICIOUS",
           \A p \in OrderIds \ {o} : status'[p] = status[p] /\ event'[p] = event[p]
    PROVE  AuditInv'
<1>1. /\ trail'[o] = [status |-> status'[o], severity |-> severity]
      /\ \A p \in OrderIds \ {o} : trail'[p] = trail[p]
    BY DEF AuditInv
<1>2. RowOK(o)'
    BY <1>1 DEF RowOK
<1>3. \A p \in OrderIds \ {o} : RowOK(p)'
    BY <1>1 DEF AuditInv, RowOK
<1>4. trail' \in [OrderIds -> [status: OrderStatus, severity: Severities] \cup {NoRow}]
    BY DEF AuditInv
<1> QED
    BY <1>2, <1>3, <1>4 DEF AuditInv

\* A step that leaves the statuses, the events and the trail alone.
LEMMA SameRows ==
    ASSUME AuditInv, IInv', UNCHANGED <<status, event, trail>>
    PROVE  AuditInv'
BY DEF AuditInv, RowOK

----------------------------------------------------------------------------
\* What an execution writes to the order's status.
LEMMA ExecutedStatus ==
    ASSUME NEW o, NEW t, NEW cur, ExecuteOrReject(o, t, cur)
    PROVE  \E x \in {"ACCEPTED", "EXECUTED", "REJECTED"} :
               /\ status' = [status EXCEPT ![o] = x]
               /\ ExecuteOrRaise(o, t, cur) => x # "REJECTED"
BY DEF ExecuteOrReject, ExecuteOrRaise, Raises, AcceptOrder, RejectOrder, FillOrder

\* POST /orders and the lab: the score of the row is the one that decided.
LEMMA CreateRow ==
    ASSUME AuditInv, IInv', NEW t \in Terms, NEW score \in Scores, NEW e,
           CreateOrder(t, e), RecordCreated(nextOrder, score),
           e.decision = "AUTH_REQUIRED" => score < 80
    PROVE  AuditInv'
<1> DEFINE o == nextOrder
<1>1. o \in OrderIds /\ score \in Nat
    BY TradingAssumption DEF CreateOrder
<1>2. /\ status \in [OrderIds -> OrderStatus \cup {None}]
      /\ event \in [OrderIds -> Events]
    BY DEF AuditInv, IInv, TypeOK
<1>3. status[o] = None
    BY <1>1, TradingAssumption DEF AuditInv, IInv, TypeOK, OrderIds
<1>4. CASE UNCHANGED <<terms, event, status, ledger>>
    <2>1. trail' = trail
        BY <1>3, <1>4 DEF RecordCreated, None
    <2> QED
        BY <1>4, <2>1, SameRows
<1>5. ASSUME NEW x \in {"BLOCKED", "HELD", "ACCEPTED", "EXECUTED"},
             status' = [status EXCEPT ![o] = x], event' = [event EXCEPT ![o] = e],
             x = "BLOCKED" => e.decision = "BLOCKED"
      PROVE  AuditInv'
    <2>1. /\ status'[o] = x /\ event'[o] = e
          /\ \A p \in OrderIds \ {o} : status'[p] = status[p] /\ event'[p] = event[p]
        BY <1>1, <1>2, <1>5
    <2>2. x \in OrderStatus /\ x # None
        BY DEF OrderStatus, None
    <2>3. CASE x = "EXECUTED"
        <3>1. Record(o, "ORDER_EXECUTED", None, 0)
            BY <2>1, <2>2, <2>3 DEF RecordCreated
        <3> QED
            BY <1>1, <2>1, <2>2, <2>3, <3>1, SeverityTyped, RowStep DEF Record
    <2>4. CASE x # "EXECUTED"
        <3> DEFINE severity == FeedSeverity("ORDER_CREATED", e.decision, score)
        <3>1. trail' = [trail EXCEPT ![o] = [status |-> status'[o], severity |-> severity]]
            BY <2>1, <2>2, <2>4 DEF RecordCreated, Record
        <3>2. x = "BLOCKED" => severity = "CRITICAL"
            BY <1>5 DEF FeedSeverity
        <3>3. e.decision = "AUTH_REQUIRED" => severity = "SUSPICIOUS"
            BY <1>1 DEF FeedSeverity
        <3>4. severity \in Severities
            BY SeverityTyped
        <3> HIDE DEF severity
        <3> QED
            BY <1>1, <2>1, <2>2, <3>1, <3>2, <3>3, <3>4, RowStep
    <2> QED
        BY <2>3, <2>4
<1>6. CASE ExecuteOrRaise(o, t, price[t.stock]) /\ event' = [event EXCEPT ![o] = e]
    BY <1>5, <1>6, ExecutedStatus DEF ExecuteOrReject
<1> QED
    BY <1>4, <1>5, <1>6 DEF CreateOrder

\* GET /orders: an order it rejects has no row of it.
LEMMA SyncRow ==
    ASSUME AuditInv, IInv', NEW o \in todo, NEW p \in Prices, SyncOrder(o, p), RecordSynced(o)
    PROVE  AuditInv'
<1>1. /\ o \in OrderIds /\ status[o] \in Open /\ status[o] # "PENDING"
      /\ status \in [OrderIds -> OrderStatus \cup {None}]
    BY DEF AuditInv, IInv, TypeOK, RefreshListsOpenOrders, NoStrandedOrder, Placed
<1>2. status[o] = "ACCEPTED" /\ trail[o].status = "ACCEPTED"
    BY <1>1 DEF Open, AuditInv, RowOK
<1>3. PICK x \in {"ACCEPTED", "EXECUTED", "REJECTED"} : status' = [status EXCEPT ![o] = x]
    BY ExecutedStatus DEF SyncOrder
<1>4. /\ status'[o] = x /\ event' = event /\ x \in OrderStatus
      /\ \A q \in OrderIds \ {o} : status'[q] = status[q]
    BY <1>1, <1>3 DEF SyncOrder, OrderStatus
<1>5. CASE x = "EXECUTED"
    <2>1. Record(o, "ORDER_EXECUTED", None, 0)
        BY <1>4, <1>5 DEF RecordSynced
    <2> QED
        BY <1>1, <1>4, <1>5, <2>1, SeverityTyped, RowStep DEF Record
<1>6. CASE x # "EXECUTED"
    <2>1. trail' = trail
        BY <1>4, <1>6 DEF RecordSynced
    <2> QED
        BY <1>2, <1>4, <1>6, <2>1 DEF AuditInv, RowOK
<1> QED
    BY <1>5, <1>6

\* Cancellation and the five reviews, UNLOCK_ACCOUNT of an active user too:
\* the decision on the row is the one in force.
LEMMA ReviewRow ==
    ASSUME AuditInv, IInv', NEW o \in OrderIds,
           \/ CancelOrder(o) /\ Record(o, "ORDER_CANCELLED", None, 0)
           \/ (AdminAction(o) \/ UnlockAgain(o)) /\ RecordReview(o)
    PROVE  AuditInv'
<1>1. /\ status \in [OrderIds -> OrderStatus \cup {None}]
      /\ event \in [OrderIds -> Events] /\ o \in Placed
    BY DEF AuditInv, IInv, TypeOK, CancelOrder, AdminAction, Approve, Block, RequestAuth,
           LockAccount, UnlockAccount, UnlockAgain
<1>2. /\ \A p \in OrderIds \ {o} : status'[p] = status[p] /\ event'[p] = event[p]
      /\ status'[o] # None
    <2>1. CASE CancelOrder(o)
        BY <1>1, <2>1 DEF CancelOrder, None
    <2>2. CASE Block(o) \/ LockAccount(o)
        BY <1>1, <2>2 DEF Block, LockAccount, SetEvent, None
    <2>3. CASE RequestAuth(o)
        BY <1>1, <2>3 DEF RequestAuth, None
    <2>4. CASE UnlockAccount(o) \/ UnlockAgain(o)
        BY <1>1, <2>4 DEF UnlockAccount, UnlockAgain, vars, Placed
    <2>5. CASE Approve(o)
        <3>1. \/ status' = status
              \/ \E x \in {"ACCEPTED", "EXECUTED", "REJECTED"} :
                    status' = [status EXCEPT ![o] = x]
            BY <2>5, ExecutedStatus DEF Approve, ExecuteOrReject
        <3> QED
            BY <1>1, <2>5, <3>1 DEF Approve, SetEvent, Placed, None
    <2> QED
        BY <2>1, <2>2, <2>3, <2>4, <2>5 DEF AdminAction
<1>3. status'[o] \in OrderStatus /\ o \in Placed'
    BY <1>2 DEF IInv, TypeOK, Placed
<1>4. status'[o] = "BLOCKED" => event'[o].decision = "BLOCKED"
    BY <1>3 DEF IInv, StatusMatchesDecision
<1>5. CASE CancelOrder(o) /\ Record(o, "ORDER_CANCELLED", None, 0)
    <2>1. status'[o] = "CANCELLED"
        BY <1>1, <1>5 DEF CancelOrder
    <2> QED
        BY <1>2, <1>3, <1>5, <2>1, SeverityTyped, RowStep DEF Record
<1>6. CASE RecordReview(o)
    <2> DEFINE severity == FeedSeverity("ADMIN_ACTION", event'[o].decision, 0)
    <2>1. trail' = [trail EXCEPT ![o] = [status |-> status'[o], severity |-> severity]]
        BY <1>6 DEF RecordReview, Record
    <2>2. /\ status'[o] = "BLOCKED" => severity = "CRITICAL"
          /\ event'[o].decision = "AUTH_REQUIRED" => severity = "SUSPICIOUS"
        BY <1>4 DEF FeedSeverity
    <2>3. severity \in Severities
        BY SeverityTyped
    <2> HIDE DEF severity
    <2> QED
        BY <1>2, <1>3, <2>1, <2>2, <2>3, RowStep
<1> QED
    BY <1>5, <1>6

LEMMA NextAudit == AuditInv /\ [AuditNext]_auditVars => AuditInv'
<1> SUFFICES ASSUME AuditInv, [AuditNext]_auditVars PROVE AuditInv'
    OBVIOUS
<1>1. IInv'
    BY StepIsTrading, NextStep DEF AuditInv, StepOK
<1>2. CASE UNCHANGED auditVars
    BY <1>1, <1>2, SameRows DEF auditVars, vars
<1>3. ASSUME NEW u \in Users, Login(u) \/ EndSession(u) \/ BeginSync(u), UNCHANGED trail
      PROVE  AuditInv'
    BY <1>1, <1>3, SameRows DEF Login, EndSession, BeginSync
<1>4. ASSUME NEW t \in Terms, NEW score \in Scores,
             LabOrder(t, score) \/ \E view \in Views : SubmitOrder(t, score, view),
             RecordCreated(nextOrder, score)
      PROVE  AuditInv'
    <2>1. PICK e : CreateOrder(t, e) /\ (e.decision = "AUTH_REQUIRED" => score < 80)
        <3>1. score \in Nat
            BY TradingAssumption
        <3>2. CASE LabOrder(t, score)
            <4>1. EngineEvent(score).decision # "AUTH_REQUIRED"
                BY DEF EngineEvent, RiskBand
            <4> QED
                BY <3>2, <4>1 DEF LabOrder
        <3>3. ASSUME NEW view \in Views, SubmitOrder(t, score, view)
              PROVE  \E e : CreateOrder(t, e) /\ (e.decision = "AUTH_REQUIRED" => score < 80)
            <4> DEFINE e == ScreenedEvent(OrderAmount(t, price[t.stock]), score, view)
            <4>1. e.decision = "AUTH_REQUIRED" => score < 80
                BY <3>1 DEF ScreenedEvent, EngineEvent, RiskBand
            <4> QED
                BY <3>3, <4>1 DEF SubmitOrder
        <3> QED
            BY <1>4, <3>2, <3>3
    <2> QED
        BY <1>1, <1>4, <2>1, CreateRow
<1> QED
    BY <1>1, <1>2, <1>3, <1>4, SyncRow, ReviewRow DEF AuditNext

----------------------------------------------------------------------------
\* The theorems

LEMMA AuditInvariance == AuditSpec => []AuditInv
BY InitAudit, NextAudit, PTL DEF AuditSpec

\* Trading with its audit rows is Trading: what is proved of the latter holds.
THEOREM AuditedTrading == AuditSpec => Spec
<1>1. AuditInit => Init
    BY DEF AuditInit
<1> QED
    BY <1>1, StepIsTrading, PTL DEF AuditSpec, Spec

\* Rows hold what their columns can hold.
THEOREM TrailTyped == AuditSpec => []TrailTypeOK
<1>1. AuditInv => TrailTypeOK
    BY DEF AuditInv, TrailTypeOK
<1> QED
    BY AuditInvariance, <1>1, PTL

\* The last audit row about an order tells its status, but for rejections by
\* a refresh.
THEOREM TrailTells == AuditSpec => []TrailTellsStatus
<1>1. AuditInv => TrailTellsStatus
    BY DEF AuditInv, RowOK, TrailTellsStatus
<1> QED
    BY AuditInvariance, <1>1, PTL

\* The feed rates what is blocked CRITICAL and what waits for authentication
\* SUSPICIOUS.
THEOREM FeedShows == AuditSpec => []FeedShowsDecision
<1>1. AuditInv => FeedShowsDecision
    BY DEF AuditInv, RowOK, FeedShowsDecision, Placed
<1> QED
    BY AuditInvariance, <1>1, PTL

\* The counts of the overview include every order that waits.
THEOREM OverviewCounts == AuditSpec => []OverviewCountsWaiting
<1>1. AuditInv => OverviewCountsWaiting
    <2> SUFFICES ASSUME IInv PROVE OverviewCountsWaiting
        BY DEF AuditInv
    <2>1. ASSUME NEW o \in Placed, status[o] \in {"HELD", "BLOCKED"}
          PROVE  event[o].status \in OpenStatuses
        BY <2>1 DEF IInv, StatusMatchesDecision, EventStatusMatchesDecision, OpenStatuses
    <2>2. ASSUME NEW o \in Placed, event[o].status = "AUTH_REQUIRED"
          PROVE  event[o].pendingAuth > 0
        BY <2>2 DEF IInv, EventStatusMatchesDecision, NoStrandedOrder
    <2> QED
        BY <2>1, <2>2 DEF OverviewCountsWaiting, OpenRiskEvents, AuthRequiredEvents,
                          PendingAdditionalAuth
<1> QED
    BY AuditInvariance, <1>1, PTL
=============================================================================
