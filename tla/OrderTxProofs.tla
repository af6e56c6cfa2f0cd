---------------------------- MODULE OrderTxProofs ----------------------------
(***************************************************************************)
(* Proofs of what overlapping requests cannot break in OrderTx, for any    *)
(* users, stocks, prices and orders and any number of requests: balances   *)
(* stay covered, money and EXECUTED come with a trade, and for a user with *)
(* one request at a time the three columns of an order agree, the balance  *)
(* is that of the executions and no share is sold that is not held.        *)
(*                                                                         *)
(* A step continues one transaction (ContinueStep) or commits it           *)
(* (CommitStep).  The lemmas on Load, Assign and Flushing say what the     *)
(* transaction has then, those on the books what an execution adds to the  *)
(* sums over a user's orders.                                              *)
(***************************************************************************)
EXTENDS OrderTx, SumTheorems

\* What MoneyMovesWithTrades says of one step.
MoneyOK ==
    \A u \in Users : db'[Cash(u)] # db[Cash(u)] =>
        \E o \in Orders : terms[o].user = u /\ executions'[o] # executions[o]

StepOK == IInv' /\ MoneyOK

----------------------------------------------------------------------------
\* Terms, requests and columns

LEMMA TermsTyped ==
    ASSUME TypeOK, NEW o \in Orders
    PROVE  /\ terms[o] \in Placeable
           /\ terms[o].user \in Users /\ terms[o].stock \in Stocks
           /\ terms[o].side \in {"BUY", "SELL"} /\ terms[o].quantity \in Nat \ {0}
           /\ terms[o].type \in {"LIMIT", "MARKET"}
<1>1. terms[o] \in Placeable
    BY OrderTxAssumption DEF TypeOK
<1> QED
    BY <1>1 DEF Placeable

LEMMA JobTyped ==
    ASSUME TypeOK, NEW r \in Requests
    PROVE  /\ Kind(r) = "refresh" => job[r].user \in Users /\ Owner(r) = job[r].user
           /\ Kind(r) # "refresh" =>
                 job[r].order \in Orders /\ Owner(r) = terms[job[r].order].user
           /\ Owner(r) \in Users
<1>1. job[r] \in Jobs
    BY DEF TypeOK
<1>2. Kind(r) = "refresh" => job[r].user \in Users
    BY <1>1 DEF Jobs, Kind
<1>3. Kind(r) # "refresh" => job[r].order \in Orders
    BY <1>1 DEF Jobs, Kind
<1> QED
    BY <1>2, <1>3, TermsTyped DEF Owner

\* The columns of the rows a request reads.
LEMMA ColumnsTyped ==
    /\ \A s \in Stocks : Price(s) \in Columns /\ TypeOfColumn(Price(s)) = Prices
    /\ \A u \in Users : Cash(u) \in Columns /\ TypeOfColumn(Cash(u)) = Int
    /\ \A o \in Orders :
          /\ ColumnsOf(o) \subseteq Columns
          /\ TypeOfColumn(Status(o)) = OrderStatus \cup {None}
          /\ TypeOfColumn(Decision(o)) = RiskDecision \cup {None}
          /\ TypeOfColumn(EventStatus(o)) = RiskEventStatus \cup {None}
BY DEF Columns, Price, Cash, Status, Decision, EventStatus, ColumnsOf, TypeOfColumn

\* No two columns are the same.
LEMMA ColumnsDiffer ==
    /\ \A s, u, o : Price(s) # Cash(u) /\ Price(s) # Status(o) /\ Cash(u) # Status(o)
                    /\ Price(s) \notin ColumnsOf(o) /\ Cash(u) \notin ColumnsOf(o)
    /\ \A o, p : Status(o) # Decision(p) /\ Status(o) # EventStatus(p)
                 /\ Decision(o) # EventStatus(p)
    /\ \A s, p : Price(s) = Price(p) => s = p
    /\ \A u, v : Cash(u) = Cash(v) => u = v
    /\ \A o, p : o # p => /\ Status(o) # Status(p) /\ Decision(o) # Decision(p)
                          /\ EventStatus(o) # EventStatus(p)
                          /\ ColumnsOf(o) \cap ColumnsOf(p) = {}
BY DEF Price, Cash, Status, Decision, EventStatus, ColumnsOf

----------------------------------------------------------------------------
\* What a session does with columns

Fields == {"step", "mem", "dirty", "written", "todo", "quoted", "fills"}

LEMMA TxnFields ==
    /\ DOMAIN NewTxn = Fields
    /\ NewTxn.step = "new" /\ NewTxn.mem = <<>> /\ NewTxn.dirty = {} /\ NewTxn.written = {}
    /\ NewTxn.todo = {} /\ NewTxn.quoted = {} /\ NewTxn.fills = <<>>
    /\ DOMAIN <<>> = {}
BY DEF NewTxn, Fields

\* A transaction that has ended holds nothing.
LEMMA EndedIs ==
    /\ DOMAIN Ended = Fields /\ Ended.step = "end" /\ DOMAIN Ended.mem = {}
    /\ Ended.dirty = {} /\ Ended.written = {} /\ Ended.todo = {} /\ Ended.quoted = {}
    /\ DOMAIN Ended.fills = {}
BY TxnFields DEF Ended, Fields

LEMMA LoadIs ==
    ASSUME NEW t, DOMAIN t = Fields, NEW S
    PROVE  LET n == Load(t, S) IN
           /\ DOMAIN n = Fields /\ n.step = t.step /\ n.dirty = t.dirty
           /\ n.written = t.written /\ n.todo = t.todo /\ n.quoted = t.quoted
           /\ n.fills = t.fills
           /\ DOMAIN n.mem = DOMAIN t.mem \cup S
           /\ \A c \in DOMAIN n.mem : n.mem[c] = IF c \in DOMAIN t.mem THEN t.mem[c] ELSE db[c]
BY DEF Load, Extended, Fields

LEMMA AssignIs ==
    ASSUME NEW t, DOMAIN t = Fields, NEW c \in DOMAIN t.mem, NEW v
    PROVE  LET n == Assign(t, c, v) IN
           /\ DOMAIN n = Fields /\ n.step = t.step
           /\ n.written = t.written /\ n.todo = t.todo /\ n.quoted = t.quoted
           /\ n.fills = t.fills
           /\ DOMAIN n.mem = DOMAIN t.mem
           /\ \A d \in DOMAIN t.mem : n.mem[d] = IF d = c THEN v ELSE t.mem[d]
           /\ t.dirty \subseteq n.dirty /\ n.dirty \subseteq t.dirty \cup {c}
           /\ c \notin n.dirty => n.mem[c] = t.mem[c]
BY DEF Assign, Fields

LEMMA FlushingIs ==
    ASSUME NEW t, DOMAIN t = Fields
    PROVE  LET n == Flushing(t) IN
           /\ DOMAIN n = Fields /\ n.mem = t.mem /\ n.dirty = t.dirty
           /\ n.written = t.written /\ n.todo = t.todo /\ n.quoted = t.quoted
           /\ n.fills = t.fills
           /\ n.step \in {"work", "flush"} /\ (n.step = "flush" <=> n.dirty # {})
BY DEF Flushing, Fields

\* A transaction goes on with its next order, or flushes.
LEMMA ProceedIs ==
    ASSUME NEW t, DOMAIN t = Fields
    PROVE  LET n == Proceed(t) IN
           /\ DOMAIN n = Fields /\ n.mem = t.mem /\ n.dirty = t.dirty
           /\ n.written = t.written /\ n.todo = t.todo /\ n.quoted = t.quoted
           /\ n.fills = t.fills
           /\ n.step \in {"work", "flush"} /\ (n.step = "flush" => n.dirty # {})
           /\ n.step = "work" /\ n.todo = {} => n.dirty = {}
BY FlushingIs DEF Proceed, Fields

----------------------------------------------------------------------------
\* The books: cash and shares as sums over the executions of orders.  The
\* terms w and the executions are parameters here, so that a step can compare
\* those before it with those after it.

MoneyOf(w, trades) ==
    [o \in Orders |-> IF w[o].side = "BUY" THEN - (w[o].quantity * SumFunction(trades[o]))
                                           ELSE w[o].quantity * SumFunction(trades[o])]

SharesOf(w, trades) ==
    [o \in Orders |-> IF w[o].side = "BUY" THEN Len(trades[o]) * w[o].quantity
                                           ELSE - (Len(trades[o]) * w[o].quantity)]

BalanceBy(w, trades, u) ==
    OpeningCash[u] + SumFunctionOnSet(MoneyOf(w, trades), {o \in Orders : w[o].user = u})

HeldBy(w, trades, u, s) ==
    OpeningShares[u][s]
        + SumFunctionOnSet(SharesOf(w, trades),
                           {o \in Orders : w[o].user = u /\ w[o].stock = s})

\* The executions with those of a session.
WithFills(trades, t) ==
    [o \in Orders |-> IF o \in DOMAIN t.fills THEN Append(trades[o], t.fills[o]) ELSE trades[o]]

\* What BooksKept says of a session t of user u.
Kept(w, trades, d, u, t) ==
    /\ Cash(u) \notin t.dirty \cup t.written =>
          (IF Cash(u) \in DOMAIN t.mem THEN t.mem[Cash(u)] ELSE d[Cash(u)]) = d[Cash(u)]
    /\ (IF Cash(u) \in DOMAIN t.mem THEN t.mem[Cash(u)] ELSE d[Cash(u)])
          = BalanceBy(w, WithFills(trades, t), u)
    /\ \A s \in Stocks : HeldBy(w, WithFills(trades, t), u, s) >= 0

LEMMA BooksAre ==
    /\ \A t : Traded(t) = WithFills(executions, t)
    /\ \A trades, u : Balance(trades, u) = BalanceBy(terms, trades, u)
    /\ \A trades, u, s : Held(trades, u, s) = HeldBy(terms, trades, u, s)
    /\ LedgerBalanced <=>
          \A u \in Undisturbed : db[Cash(u)] = BalanceBy(terms, executions, u)
    /\ NoShortPosition <=>
          \A u \in Undisturbed, s \in Stocks : HeldBy(terms, executions, u, s) >= 0
    /\ \A r, t : BooksKept(r, t) <=> Kept(terms, executions, db, Owner(r), t)
<1>1. \A t : Traded(t) = WithFills(executions, t)
    BY DEF Traded, WithFills
<1>2. \A trades, u : Balance(trades, u) = BalanceBy(terms, trades, u)
    BY DEF Balance, BalanceBy, Proceeds, MoneyOf
<1>3. \A trades, u, s : Held(trades, u, s) = HeldBy(terms, trades, u, s)
    BY DEF Held, HeldBy, Shares, SharesOf, OrdersOf
<1> QED
    BY <1>1, <1>2, <1>3
       DEF LedgerBalanced, Balanced, NoShortPosition, BooksKept, Kept, Position, Seen

\* The same after a step.
LEMMA BooksAreNext ==
    /\ LedgerBalanced' <=>
          \A u \in Undisturbed' : db'[Cash(u)] = BalanceBy(terms', executions', u)
    /\ NoShortPosition' <=>
          \A u \in Undisturbed', s \in Stocks : HeldBy(terms', executions', u, s) >= 0
    /\ \A x \in Requests :
          BooksKept(x, txn[x])' <=> Kept(terms', executions', db', Owner(x)', txn'[x])
BY DEF LedgerBalanced, Balanced, NoShortPosition, BooksKept, Kept, Position, Seen, Traded,
       WithFills, Balance, BalanceBy, Proceeds, MoneyOf, Held, HeldBy, Shares, SharesOf, OrdersOf

LEMMA OrdersFinite ==
    ASSUME NEW S \in SUBSET Orders
    PROVE  IsFiniteSet(S)
<1>1. IsFiniteSet(1..MaxOrders)
    BY OrderTxAssumption, FS_Interval
<1> QED
    BY <1>1, FS_Subset DEF Orders

\* Executions of other users' orders are not in the books of u.
LEMMA BooksAgree ==
    ASSUME NEW w, NEW a, NEW b, NEW u,
           \A o \in Orders : w[o].user = u => a[o] = b[o]
    PROVE  /\ BalanceBy(w, a, u) = BalanceBy(w, b, u)
           /\ \A s : HeldBy(w, a, u, s) = HeldBy(w, b, u, s)
<1>1. BalanceBy(w, a, u) = BalanceBy(w, b, u)
  <2> DEFINE S == {o \in Orders : w[o].user = u}
  <2>1. IsFiniteSet(S)
      BY OrdersFinite
  <2>2. \A o \in S : MoneyOf(w, a)[o] = MoneyOf(w, b)[o]
      BY DEF MoneyOf
  <2> HIDE DEF S
  <2>3. SumFunctionOnSet(MoneyOf(w, a), S) = SumFunctionOnSet(MoneyOf(w, b), S)
      BY <2>1, <2>2, SumAgree
  <2> QED
      BY <2>3 DEF BalanceBy, S
<1>2. ASSUME NEW s
      PROVE  HeldBy(w, a, u, s) = HeldBy(w, b, u, s)
  <2> DEFINE S == {o \in Orders : w[o].user = u /\ w[o].stock = s}
  <2>1. IsFiniteSet(S)
      BY OrdersFinite
  <2>2. \A o \in S : SharesOf(w, a)[o] = SharesOf(w, b)[o]
      BY DEF SharesOf
  <2> HIDE DEF S
  <2>3. SumFunctionOnSet(SharesOf(w, a), S) = SumFunctionOnSet(SharesOf(w, b), S)
      BY <2>1, <2>2, SumAgree
  <2> QED
      BY <2>3 DEF HeldBy, S
<1> QED
    BY <1>1, <1>2

\* Nor in what a session of u keeps.
LEMMA KeptAgree ==
    ASSUME NEW w, NEW a, NEW b, NEW d, NEW e, NEW u, NEW t,
           \A o \in Orders : w[o].user = u => b[o] = a[o],
           e[Cash(u)] = d[Cash(u)],
           Kept(w, a, d, u, t)
    PROVE  Kept(w, b, e, u, t)
<1> DEFINE A == WithFills(a, t)
           B == WithFills(b, t)
<1>1. \A o \in Orders : w[o].user = u => A[o] = B[o]
    BY DEF WithFills
<1> HIDE DEF A, B
<1>2. /\ BalanceBy(w, A, u) = BalanceBy(w, B, u)
      /\ \A s : HeldBy(w, A, u, s) = HeldBy(w, B, u, s)
    BY <1>1, BooksAgree
<1> QED
    BY <1>2 DEF Kept, A, B

\* How the books of u move when order x is executed once more, at price p.
BooksMove(w, a, b, u, x, p) ==
    LET q == w[x].quantity
        s == w[x].stock
    IN  /\ BalanceBy(w, a, u) \in Int
        /\ BalanceBy(w, b, u) = IF w[x].side = "BUY" THEN BalanceBy(w, a, u) - p * q
                                                     ELSE BalanceBy(w, a, u) + p * q
        /\ \A y \in Stocks : HeldBy(w, a, u, y) \in Int
        /\ \A y \in Stocks \ {s} : HeldBy(w, b, u, y) = HeldBy(w, a, u, y)
        /\ HeldBy(w, b, u, s) = IF w[x].side = "BUY" THEN HeldBy(w, a, u, s) + q
                                                     ELSE HeldBy(w, a, u, s) - q

LEMMA BooksFill ==
    ASSUME NEW w, \A o \in Orders : w[o] \in Placeable,
           NEW a, \A o \in Orders : a[o] \in Seq(Nat),
           NEW b, NEW x \in Orders, NEW p \in Nat, b[x] = Append(a[x], p),
           \A o \in Orders : o # x => b[o] = a[o],
           NEW u, u = w[x].user, w[x].stock \in Stocks,
           OpeningCash[u] \in Int, \A s \in Stocks : OpeningShares[u][s] \in Int
    PROVE  BooksMove(w, a, b, u, x, p)
<1>1. \A o \in Orders : w[o].quantity \in Nat /\ w[o].side \in {"BUY", "SELL"}
    BY DEF Placeable
<1> DEFINE q == w[x].quantity
           A == SumFunction(a[x])
           n == Len(a[x])
<1>2. /\ q \in Nat /\ A \in Int /\ n \in Nat
      /\ SumFunction(b[x]) = A + p /\ Len(b[x]) = n + 1
    BY <1>1, TapeInt
<1>3. \A o \in Orders : /\ SumFunction(a[o]) \in Int /\ Len(a[o]) \in Nat
                         /\ SumFunction(b[o]) \in Int /\ Len(b[o]) \in Nat
  <2>1. \A o \in Orders : SumFunction(a[o]) \in Int /\ Len(a[o]) \in Nat
      BY TapeInt
  <2>2. SumFunction(b[x]) \in Int /\ Len(b[x]) \in Nat
      BY <1>2
  <2> QED
      BY <2>1, <2>2
<1> HIDE DEF q, A, n
<1>4. q * (A + p) = q * A + p * q /\ q * A \in Int /\ p * q \in Int
    BY <1>2, Multiply
<1>5. (n + 1) * q = n * q + q /\ n * q \in Int
    BY <1>2, Multiply
<1> DEFINE f == MoneyOf(w, a)
           g == MoneyOf(w, b)
<1>6. \A o \in Orders : f[o] \in Int /\ g[o] \in Int
  <2>1. \A o \in Orders : /\ w[o].quantity * SumFunction(a[o]) \in Int
                         /\ w[o].quantity * SumFunction(b[o]) \in Int
      BY <1>1, <1>3, Multiply
  <2> QED
      BY <2>1 DEF MoneyOf
<1>7. \A o \in Orders : o # x => g[o] = f[o]
    BY DEF MoneyOf
<1>8. g[x] = IF w[x].side = "BUY" THEN f[x] - p * q ELSE f[x] + p * q
  <2>1. f[x] = IF w[x].side = "BUY" THEN - (q * A) ELSE q * A
      BY DEF MoneyOf, q, A
  <2>2. g[x] = IF w[x].side = "BUY" THEN - (q * (A + p)) ELSE q * (A + p)
      BY <1>2 DEF MoneyOf, q
  <2> QED
      BY <1>4, <2>1, <2>2
<1>9. /\ BalanceBy(w, a, u) \in Int
      /\ BalanceBy(w, b, u) = BalanceBy(w, a, u) + g[x] - f[x]
  <2> DEFINE S == {o \in Orders : w[o].user = u}
  <2>1. IsFiniteSet(S) /\ x \in S /\ S \subseteq Orders
      BY OrdersFinite
  <2> HIDE DEF S, f, g
  <2>2. SumFunctionOnSet(g, S) = SumFunctionOnSet(f, S) + g[x] - f[x]
      BY <1>6, <1>7, <2>1, SumChange
  <2>3. SumFunctionOnSet(f, S) \in Int
      BY <1>6, <2>1, SumInt
  <2>4. BalanceBy(w, a, u) = OpeningCash[u] + SumFunctionOnSet(f, S)
      BY DEF BalanceBy, S, f
  <2>5. BalanceBy(w, b, u) = OpeningCash[u] + SumFunctionOnSet(g, S)
      BY DEF BalanceBy, S, g
  <2> QED
      BY <1>6, <2>2, <2>3, <2>4, <2>5
<1> DEFINE h == SharesOf(w, a)
           k == SharesOf(w, b)
<1>10. \A o \in Orders : h[o] \in Int /\ k[o] \in Int
  <2>1. \A o \in Orders : /\ Len(a[o]) * w[o].quantity \in Int
                         /\ Len(b[o]) * w[o].quantity \in Int
      BY <1>1, <1>3, Multiply
  <2> QED
      BY <2>1 DEF SharesOf
<1>11. \A o \in Orders : o # x => k[o] = h[o]
    BY DEF SharesOf
<1>12. k[x] = IF w[x].side = "BUY" THEN h[x] + q ELSE h[x] - q
  <2>1. h[x] = IF w[x].side = "BUY" THEN n * q ELSE - (n * q)
      BY DEF SharesOf, n, q
  <2>2. k[x] = IF w[x].side = "BUY" THEN (n + 1) * q ELSE - ((n + 1) * q)
      BY <1>2 DEF SharesOf, q
  <2> QED
      BY <1>2, <1>5, <2>1, <2>2
<1>13. ASSUME NEW s \in Stocks
       PROVE  /\ HeldBy(w, a, u, s) \in Int
              /\ s # w[x].stock => HeldBy(w, b, u, s) = HeldBy(w, a, u, s)
              /\ s = w[x].stock => HeldBy(w, b, u, s) = HeldBy(w, a, u, s) + k[x] - h[x]
  <2> DEFINE S == {o \in Orders : w[o].user = u /\ w[o].stock = s}
  <2>1. /\ IsFiniteSet(S) /\ S \subseteq Orders
        /\ s = w[x].stock => x \in S
        /\ s # w[x].stock => x \notin S
      BY OrdersFinite
  <2> HIDE DEF S, h, k
  <2>2. s = w[x].stock => SumFunctionOnSet(k, S) = SumFunctionOnSet(h, S) + k[x] - h[x]
      BY <1>10, <1>11, <2>1, SumChange
  <2>3. s # w[x].stock => SumFunctionOnSet(k, S) = SumFunctionOnSet(h, S)
    <3>1. CASE s # w[x].stock
      <4>1. \A o \in S : k[o] = h[o]
          BY <1>11, <2>1, <3>1
      <4> QED
          BY <2>1, <4>1, SumAgree
    <3> QED
        BY <3>1
  <2>4. SumFunctionOnSet(h, S) \in Int
      BY <1>10, <2>1, SumInt
  <2>5. HeldBy(w, a, u, s) = OpeningShares[u][s] + SumFunctionOnSet(h, S)
      BY DEF HeldBy, S, h
  <2>6. HeldBy(w, b, u, s) = OpeningShares[u][s] + SumFunctionOnSet(k, S)
      BY DEF HeldBy, S, k
  <2>7. h[x] \in Int /\ k[x] \in Int /\ OpeningShares[u][s] \in Int
      BY <1>10
  <2>8. CASE s = w[x].stock
    <3>1. SumFunctionOnSet(k, S) = SumFunctionOnSet(h, S) + k[x] - h[x]
        BY <2>2, <2>8
    <3>2. HeldBy(w, a, u, s) \in Int
        BY <2>4, <2>5, <2>7
    <3>3. HeldBy(w, b, u, s) = HeldBy(w, a, u, s) + k[x] - h[x]
        BY <2>4, <2>5, <2>6, <2>7, <3>1
    <3> QED
        BY <2>8, <3>2, <3>3
  <2>9. CASE s # w[x].stock
      BY <2>3, <2>4, <2>5, <2>6, <2>7, <2>9
  <2> QED
      BY <2>8, <2>9
<1> HIDE DEF f, g, h, k
<1>14. BalanceBy(w, b, u) = IF w[x].side = "BUY" THEN BalanceBy(w, a, u) - p * q
                                                ELSE BalanceBy(w, a, u) + p * q
    BY <1>4, <1>6, <1>8, <1>9
<1> DEFINE s == w[x].stock
<1>15. HeldBy(w, b, u, s) = IF w[x].side = "BUY" THEN HeldBy(w, a, u, s) + q
                                                 ELSE HeldBy(w, a, u, s) - q
  <2>1. s \in Stocks /\ s = w[x].stock
      OBVIOUS
  <2> HIDE DEF s
  <2>2. /\ HeldBy(w, a, u, s) \in Int
        /\ HeldBy(w, b, u, s) = HeldBy(w, a, u, s) + k[x] - h[x]
      BY <1>13, <2>1
  <2> QED
      BY <1>2, <1>10, <1>12, <2>2
<1> QED
    BY <1>9, <1>13, <1>14, <1>15 DEF q, BooksMove

\* What a session keeps when it executes order x, at price p.
LEMMA KeptFill ==
    ASSUME NEW w, \A o \in Orders : w[o] \in Placeable,
           NEW trades, \A o \in Orders : trades[o] \in Seq(Nat),
           NEW x \in Orders, NEW p \in Nat, w[x].stock \in Stocks, NEW u, u = w[x].user,
           OpeningCash[u] \in Int, \A s \in Stocks : OpeningShares[u][s] \in Int,
           NEW d, NEW t, NEW n, Kept(w, trades, d, u, t),
           \A o \in DOMAIN t.fills : t.fills[o] \in Nat, x \notin DOMAIN t.fills,
           DOMAIN n.fills = DOMAIN t.fills \cup {x}, n.fills[x] = p,
           \A o \in DOMAIN t.fills : n.fills[o] = t.fills[o],
           Cash(u) \in DOMAIN t.mem, Cash(u) \in DOMAIN n.mem,
           n.mem[Cash(u)] = IF w[x].side = "BUY" THEN t.mem[Cash(u)] - p * w[x].quantity
                                                 ELSE t.mem[Cash(u)] + p * w[x].quantity,
           Cash(u) \notin n.dirty \cup n.written => n.mem[Cash(u)] = d[Cash(u)],
           w[x].side # "BUY" =>
               w[x].quantity <= HeldBy(w, WithFills(trades, t), u, w[x].stock)
    PROVE  Kept(w, trades, d, u, n)
<1> DEFINE a == WithFills(trades, t)
           b == WithFills(trades, n)
           k == Cash(u)
<1>1. \A o \in Orders : a[o] \in Seq(Nat)
  <2>1. \A o \in Orders : o \in DOMAIN t.fills => Append(trades[o], t.fills[o]) \in Seq(Nat)
      OBVIOUS
  <2> QED
      BY <2>1 DEF WithFills
<1>2. b[x] = Append(a[x], p)
    BY DEF WithFills
<1>3. \A o \in Orders : o # x => b[o] = a[o]
    BY DEF WithFills
<1>4. w[x].quantity \in Nat
    BY DEF Placeable
<1>5. t.mem[k] = BalanceBy(w, a, u) /\ \A s \in Stocks : HeldBy(w, a, u, s) >= 0
    BY DEF Kept
<1> HIDE DEF a, b, k
<1>6. BooksMove(w, a, b, u, x, p)
    BY <1>1, <1>2, <1>3, BooksFill
<1>7. n.mem[k] = BalanceBy(w, b, u)
    BY <1>5, <1>6 DEF BooksMove, k
<1>8. ASSUME NEW s \in Stocks
      PROVE  HeldBy(w, b, u, s) >= 0
  <2>1. HeldBy(w, a, u, s) \in Int /\ HeldBy(w, a, u, s) >= 0
      BY <1>5, <1>6 DEF BooksMove
  <2>2. CASE s # w[x].stock
      BY <1>6, <2>1, <2>2 DEF BooksMove
  <2>3. CASE s = w[x].stock
    <3>1. HeldBy(w, b, u, s) = IF w[x].side = "BUY" THEN HeldBy(w, a, u, s) + w[x].quantity
                                                    ELSE HeldBy(w, a, u, s) - w[x].quantity
        BY <1>6, <2>3 DEF BooksMove
    <3>2. w[x].side # "BUY" => w[x].quantity <= HeldBy(w, a, u, s)
        BY <2>3 DEF a
    <3> QED
        BY <1>4, <2>1, <3>1, <3>2
  <2> QED
      BY <2>2, <2>3
<1> QED
    BY <1>7, <1>8 DEF Kept, b, k

\* Before anything is executed the books hold what they opened with.
LEMMA BooksOpen ==
    ASSUME TypeOK, \A o \in Orders : executions[o] = <<>>, NEW u \in Users,
           OpeningCash[u] \in Nat, \A s \in Stocks : OpeningShares[u][s] \in Nat
    PROVE  /\ BalanceBy(terms, executions, u) = OpeningCash[u]
           /\ \A s \in Stocks : HeldBy(terms, executions, u, s) = OpeningShares[u][s]
<1>1. \A o \in Orders : terms[o].quantity \in Nat
    BY TermsTyped
<1>2. \A q \in Nat : q * 0 = 0 /\ 0 * q = 0 /\ -(q * 0) = 0 /\ -(0 * q) = 0
    OBVIOUS
<1>3. \A o \in Orders : MoneyOf(terms, executions)[o] = 0
    BY <1>1, <1>2, SumNoElement DEF MoneyOf
<1>4. \A o \in Orders : SharesOf(terms, executions)[o] = 0
  <2>1. Len(<<>>) = 0
      OBVIOUS
  <2> QED
      BY <1>1, <1>2, <2>1 DEF SharesOf
<1>5. \A S \in SUBSET Orders : IsFiniteSet(S)
    BY OrdersFinite
<1>6. BalanceBy(terms, executions, u) = OpeningCash[u]
  <2> DEFINE S == {o \in Orders : terms[o].user = u}
  <2>1. SumFunctionOnSet(MoneyOf(terms, executions), S) = 0
      BY <1>3, <1>5, SumZero
  <2> QED
      BY <2>1 DEF BalanceBy
<1>7. ASSUME NEW s \in Stocks
      PROVE  HeldBy(terms, executions, u, s) = OpeningShares[u][s]
  <2> DEFINE S == {o \in Orders : terms[o].user = u /\ terms[o].stock = s}
  <2>1. SumFunctionOnSet(SharesOf(terms, executions), S) = 0
      BY <1>4, <1>5, SumZero
  <2> QED
      BY <2>1 DEF HeldBy
<1> QED
    BY <1>6, <1>7

----------------------------------------------------------------------------
\* Steps that continue a transaction or commit it

\* A request that runs, or that begins, goes on as t.
LEMMA ContinueStep ==
    ASSUME IInv, NEW r \in Requests, NEW t, Continue(r, t),
           TxnTypeOK(t), TxnOK(r, t), t.step # "new",
           t.step # "end" /\ Owner(r) \in Users \ overlapped' => AloneOK(r, t),
           \/ UNCHANGED overlapped /\ (Running(r) \/ t.step = "end")
           \/ Begins(r)
    PROVE  StepOK
<1>1. /\ UNCHANGED <<terms, job, db, executions>>
      /\ txn' = [txn EXCEPT ![r] = t]
      /\ TypeOK
    BY DEF Continue, IInv
<1>2. /\ txn'[r] = t /\ \A x \in Requests \ {r} : txn'[x] = txn[x]
      /\ DOMAIN txn' = Requests
    BY <1>1 DEF TypeOK
<1>3. overlapped \subseteq overlapped' /\ overlapped' \subseteq Users
  <2>1. CASE UNCHANGED overlapped
      BY <1>1, <2>1 DEF TypeOK
  <2>2. CASE Begins(r)
    <3>1. \A x \in Requests : Owner(x) \in Users
        BY <1>1, JobTyped
    <3> QED
        BY <1>1, <2>2, <3>1 DEF Begins, TypeOK
  <2> QED
      BY <2>1, <2>2
<1>4. TypeOK'
  <2>1. \A x \in Requests : TxnTypeOK(txn'[x])
      BY <1>1, <1>2 DEF TypeOK
  <2>2. \A x \in Requests : TxnTypeOK(txn[x])'
      BY <2>1 DEF TxnTypeOK, TypeOfColumn
  <2> QED
      BY <1>1, <1>2, <1>3, <2>2 DEF TypeOK, TypeOfColumn
<1>5. NoOverdraft' /\ ExecutedHasTraded' /\ MoneyOK
    BY <1>1 DEF IInv, NoOverdraft, ExecutedHasTraded, MoneyOK
<1>6. StatusMatchesDecision' /\ LedgerBalanced' /\ NoShortPosition'
  <2>1. Undisturbed' \subseteq Undisturbed
      BY <1>3 DEF Undisturbed
  <2>2. LedgerBalanced' /\ NoShortPosition'
      BY <1>1, <2>1, BooksAre, BooksAreNext DEF IInv
  <2> QED
      BY <1>1, <2>1, <2>2 DEF IInv, StatusMatchesDecision
<1>7. \A x \in Requests : Owner(x)' = Owner(x)
    BY <1>1 DEF Owner, Kind
<1>8. \A x \in Requests : Running(x)' <=> IF x = r THEN t.step # "end" ELSE Running(x)
    BY <1>2 DEF Running
<1>9. ASSUME NEW x \in Requests
      PROVE  /\ TxnOK(x, txn[x])'
             /\ Running(x)' /\ Owner(x)' \in Undisturbed' => AloneOK(x, txn[x])'
  <2>1. TxnOK(x, txn'[x])
      BY <1>2 DEF IInv
  <2>2. TxnOK(x, txn[x])'
      BY <1>1, <1>7, <2>1 DEF TxnOK
  <2>3. Running(x)' /\ Owner(x) \in Users \ overlapped' => AloneOK(x, txn'[x])
      BY <1>2, <1>3, <1>8 DEF IInv, Undisturbed
  <2>4. AloneOK(x, txn'[x]) => AloneOK(x, txn[x])'
    <3>1. OrdersAgree(x, txn'[x]) => OrdersAgree(x, txn[x])'
        BY <1>1, <1>7 DEF OrdersAgree, Seen
    <3>2. BooksKept(x, txn'[x]) => BooksKept(x, txn[x])'
        BY <1>1, <1>7, BooksAre, BooksAreNext
    <3> QED
        BY <3>1, <3>2 DEF AloneOK
  <2> QED
      BY <1>7, <2>2, <2>3, <2>4 DEF Undisturbed
<1>10. ASSUME NEW x \in Requests, NEW y \in Requests,
              x # y, Running(x)', Running(y)', Owner(x)' = Owner(y)'
       PROVE  Owner(x)' \in overlapped'
  <2>1. CASE Running(x) /\ Running(y)
      BY <1>3, <1>7, <1>10, <2>1 DEF IInv
  <2>2. CASE ~(Running(x) /\ Running(y))
    <3>1. Begins(r) /\ ~Running(r)
        BY <1>8, <1>10, <2>2 DEF Begins, Running
    <3>2. \A z \in Requests : Running(z) /\ Owner(z) = Owner(r) => Owner(z) \in overlapped'
        BY <3>1 DEF Begins
    <3>3. (x = r /\ Running(y)) \/ (y = r /\ Running(x))
        BY <1>8, <1>10, <2>2, <3>1
    <3> QED
        BY <1>7, <1>10, <3>2, <3>3
  <2> QED
      BY <2>1, <2>2
<1> QED
    BY <1>4, <1>5, <1>6, <1>9, <1>10 DEF StepOK, IInv

\* A commit writes what the session has checked, with the executions.
LEMMA CommitStep ==
    ASSUME IInv, NEW r \in Requests, Commit(r), UNCHANGED overlapped
    PROVE  StepOK
<1> DEFINE t == txn[r]
<1>1. /\ t.step = "work" /\ t.todo = {} /\ UNCHANGED <<terms, job>>
      /\ db' = [c \in Columns |-> IF c \in t.written THEN t.mem[c] ELSE db[c]]
      /\ executions' = [o \in Orders |->
            IF o \in DOMAIN t.fills THEN Append(executions[o], t.fills[o])
                                    ELSE executions[o]]
      /\ txn' = [txn EXCEPT ![r] = Ended]
      /\ TypeOK /\ TxnTypeOK(t) /\ TxnOK(r, t)
    BY DEF Commit, Traded, IInv, TypeOK
<1>2. Running(r) /\ t.dirty = {}
    BY <1>1 DEF Running, TxnOK
<1>3. /\ txn'[r] = Ended /\ \A x \in Requests \ {r} : txn'[x] = txn[x]
      /\ DOMAIN txn' = Requests
    BY <1>1 DEF TypeOK
<1>4. executions' \in [Orders -> Seq(Nat)]
  <2>1. \A o \in Orders : o \in DOMAIN t.fills =>
            t.fills[o] \in Nat /\ executions[o] \in Seq(Nat)
      BY <1>1 DEF TypeOK, TxnTypeOK
  <2>2. \A o \in Orders : o \in DOMAIN t.fills => Append(executions[o], t.fills[o]) \in Seq(Nat)
      BY <2>1
  <2> QED
      BY <1>1, <2>2 DEF TypeOK
<1>5. \A o \in Orders :
          /\ o \in DOMAIN t.fills => executions'[o] # <<>> /\ executions'[o] # executions[o]
          /\ executions[o] # <<>> => executions'[o] # <<>>
  <2> SUFFICES ASSUME NEW o \in Orders
               PROVE  /\ o \in DOMAIN t.fills =>
                            executions'[o] # <<>> /\ executions'[o] # executions[o]
                      /\ executions[o] # <<>> => executions'[o] # <<>>
      OBVIOUS
  <2>1. CASE o \in DOMAIN t.fills
    <3>1. executions'[o] = Append(executions[o], t.fills[o])
        BY <1>1, <2>1
    <3>2. executions[o] \in Seq(Nat) /\ t.fills[o] \in Nat
        BY <1>1, <2>1 DEF TypeOK, TxnTypeOK
    <3>3. Len(executions'[o]) = Len(executions[o]) + 1 /\ Len(executions[o]) \in Nat
        BY <3>1, <3>2
    <3>4. Len(executions'[o]) # 0 /\ Len(executions'[o]) # Len(executions[o])
        BY <3>3
    <3> QED
        BY <3>4
  <2>2. CASE o \notin DOMAIN t.fills
      BY <1>1, <2>2
  <2> QED
      BY <2>1, <2>2
<1>6. TypeOK'
  <2>1. \A c \in Columns : db'[c] \in TypeOfColumn(c)
      BY <1>1 DEF TypeOK, TxnTypeOK
  <2>2. TxnTypeOK(Ended)
      BY EndedIs, TxnFields DEF TxnTypeOK
  <2>3. \A x \in Requests : TxnTypeOK(txn'[x])
      BY <1>1, <1>3, <2>2 DEF TypeOK
  <2>4. \A x \in Requests : TxnTypeOK(txn[x])'
      BY <2>3 DEF TxnTypeOK, TypeOfColumn
  <2> QED
      BY <1>1, <1>3, <1>4, <2>1, <2>4 DEF TypeOK, TypeOfColumn
<1>7. NoOverdraft'
    BY <1>1, ColumnsTyped DEF IInv, NoOverdraft, TxnOK, TxnTypeOK
<1>8. ExecutedHasTraded'
  <2> SUFFICES ASSUME NEW o \in Orders, db'[Status(o)] = "EXECUTED"
               PROVE  executions'[o] # <<>>
      BY DEF ExecutedHasTraded
  <2>1. Status(o) \in Columns
      BY ColumnsTyped DEF ColumnsOf
  <2>2. CASE Status(o) \in t.written
    <3>1. o \in DOMAIN t.fills \/ executions[o] # <<>>
        BY <1>1, <2>1, <2>2 DEF TxnOK, TxnTypeOK
    <3> QED
        BY <1>5, <3>1
  <2>3. CASE Status(o) \notin t.written
    <3>1. executions[o] # <<>>
        BY <1>1, <2>1, <2>3 DEF IInv, ExecutedHasTraded
    <3> QED
        BY <1>5, <3>1
  <2> QED
      BY <2>2, <2>3
<1>9. MoneyOK
  <2> SUFFICES ASSUME NEW u \in Users, db'[Cash(u)] # db[Cash(u)]
               PROVE  \E o \in Orders : terms[o].user = u /\ executions'[o] # executions[o]
      BY DEF MoneyOK
  <2>1. Cash(u) \in t.written
      BY <1>1, ColumnsTyped
  <2>2. \E o \in DOMAIN t.fills : terms[o].user = u
      BY <1>1, <2>1 DEF TxnOK
  <2> QED
      BY <1>1, <1>5, <2>2 DEF TxnTypeOK
<1>10. \A x \in Requests :
          /\ Owner(x)' = Owner(x)
          /\ Running(x)' <=> x # r /\ Running(x)
  <2>1. Ended.step = "end"
      BY EndedIs
  <2> QED
      BY <1>1, <1>3, <2>1 DEF Owner, Kind, Running
<1>11. \A o \in Orders :
          /\ \A c \in ColumnsOf(o) : c \in Columns /\
                db'[c] = IF terms[o].user = Owner(r) THEN (IF c \in t.written THEN t.mem[c] ELSE db[c])
                                                     ELSE db[c]
          /\ terms[o].user = Owner(r) /\ Owner(r) \in Undisturbed =>
                \A c \in ColumnsOf(o) : db'[c] = Seen(t, c)
  <2> SUFFICES ASSUME NEW o \in Orders, NEW c \in ColumnsOf(o)
               PROVE  /\ c \in Columns
                      /\ db'[c] = IF terms[o].user = Owner(r)
                                  THEN (IF c \in t.written THEN t.mem[c] ELSE db[c]) ELSE db[c]
                      /\ terms[o].user = Owner(r) /\ Owner(r) \in Undisturbed => db'[c] = Seen(t, c)
      OBVIOUS
  <2>1. c \in Columns
      BY ColumnsTyped
  <2>2. db'[c] = IF c \in t.written THEN t.mem[c] ELSE db[c]
      BY <1>1, <2>1
  <2>3. c \in t.written => c \in DOMAIN t.mem /\ terms[o].user = Owner(r)
      BY <1>1 DEF TxnOK, TxnTypeOK
  <2>4. ASSUME terms[o].user = Owner(r), Owner(r) \in Undisturbed
        PROVE  db'[c] = Seen(t, c)
    <3>1. AloneOK(r, t)
        BY <1>2, <2>4 DEF IInv
    <3>2. c \notin t.written => Seen(t, c) = db[c]
        BY <1>2, <2>4, <3>1 DEF AloneOK, OrdersAgree
    <3> QED
        BY <2>2, <2>3, <3>2 DEF Seen
  <2> QED
      BY <2>1, <2>2, <2>3, <2>4
<1>12. StatusMatchesDecision'
  <2> SUFFICES ASSUME NEW o \in Orders, terms[o].user \in Undisturbed
               PROVE  Agree(db'[Status(o)], db'[Decision(o)], db'[EventStatus(o)])
      BY <1>1 DEF StatusMatchesDecision, Undisturbed, Agree
  <2>1. {Status(o), Decision(o), EventStatus(o)} = ColumnsOf(o)
      BY DEF ColumnsOf
  <2>2. CASE terms[o].user = Owner(r)
    <3>1. AloneOK(r, t)
        BY <1>2, <2>2 DEF IInv
    <3>2. Agree(Seen(t, Status(o)), Seen(t, Decision(o)), Seen(t, EventStatus(o)))
        BY <1>1, <2>2, <3>1 DEF AloneOK, OrdersAgree
    <3> QED
        BY <1>11, <2>1, <2>2, <3>2
  <2>3. CASE terms[o].user # Owner(r)
    <3>1. Agree(db[Status(o)], db[Decision(o)], db[EventStatus(o)])
        BY DEF IInv, StatusMatchesDecision
    <3> QED
        BY <1>11, <2>1, <2>3, <3>1
  <2> QED
      BY <2>2, <2>3
<1>13. ASSUME NEW u \in Users, u # Owner(r)
       PROVE  /\ db'[Cash(u)] = db[Cash(u)]
              /\ \A o \in Orders : terms[o].user = u => executions'[o] = executions[o]
  <2>1. \A o \in DOMAIN t.fills : terms[o].user = Owner(r)
      BY <1>1 DEF TxnOK
  <2>2. Cash(u) \notin t.written
      BY <1>1, <1>13, <2>1 DEF TxnOK
  <2> QED
      BY <1>1, <1>13, <2>1, <2>2, ColumnsTyped
<1>14. LedgerBalanced' /\ NoShortPosition'
  <2> SUFFICES ASSUME NEW u \in Undisturbed
               PROVE  /\ db'[Cash(u)] = BalanceBy(terms, executions', u)
                      /\ \A s \in Stocks : HeldBy(terms, executions', u, s) >= 0
      BY <1>1, BooksAreNext DEF Undisturbed
  <2>1. u \in Users
      BY DEF Undisturbed
  <2>2. CASE u = Owner(r)
    <3>1. Kept(terms, executions, db, u, t)
        BY <1>2, <2>2, BooksAre DEF IInv, AloneOK
    <3>2. executions' = WithFills(executions, t)
        BY <1>1 DEF WithFills
    <3>3. db'[Cash(u)] = IF Cash(u) \in DOMAIN t.mem THEN t.mem[Cash(u)] ELSE db[Cash(u)]
      <4>1. db'[Cash(u)] = IF Cash(u) \in t.written THEN t.mem[Cash(u)] ELSE db[Cash(u)]
          BY <1>1, <2>1, ColumnsTyped
      <4>2. Cash(u) \in t.written => Cash(u) \in DOMAIN t.mem
          BY <1>1 DEF TxnTypeOK
      <4>3. Cash(u) \notin t.written =>
                (IF Cash(u) \in DOMAIN t.mem THEN t.mem[Cash(u)] ELSE db[Cash(u)]) = db[Cash(u)]
          BY <1>2, <3>1 DEF Kept
      <4> QED
          BY <4>1, <4>2, <4>3
    <3> QED
        BY <3>1, <3>2, <3>3 DEF Kept
  <2>3. CASE u # Owner(r)
    <3>1. /\ db[Cash(u)] = BalanceBy(terms, executions, u)
          /\ \A s \in Stocks : HeldBy(terms, executions, u, s) >= 0
        BY BooksAre DEF IInv
    <3>2. /\ BalanceBy(terms, executions', u) = BalanceBy(terms, executions, u)
          /\ \A s : HeldBy(terms, executions', u, s) = HeldBy(terms, executions, u, s)
        BY <1>13, <2>1, <2>3, BooksAgree
    <3> QED
        BY <1>13, <2>1, <2>3, <3>1, <3>2
  <2> QED
      BY <2>2, <2>3
<1>15. ASSUME NEW x \in Requests
       PROVE  /\ TxnOK(x, txn[x])'
              /\ Running(x)' /\ Owner(x)' \in Undisturbed' => AloneOK(x, txn[x])'
  <2>1. TxnOK(x, txn'[x])
      BY <1>3, EndedIs DEF IInv, TxnOK
  <2>2. TxnOK(x, txn[x])'
      BY <1>1, <1>5, <1>10, <2>1 DEF TxnOK
  <2>3. ASSUME Running(x)', Owner(x)' \in Undisturbed'
        PROVE  AloneOK(x, txn[x])'
    <3>1. /\ x # r /\ Running(x) /\ Owner(x) \in Undisturbed /\ txn'[x] = txn[x]
          /\ Owner(x)' = Owner(x)
        BY <1>3, <1>10, <2>3 DEF Undisturbed
    <3>2. AloneOK(x, txn[x])
        BY <3>1 DEF IInv
    <3>3. Owner(x) # Owner(r)
        BY <1>2, <3>1 DEF IInv, Undisturbed
    <3>4. \A o \in Orders : terms[o].user = Owner(x) =>
              \A c \in ColumnsOf(o) : Seen(txn[x], c)' = Seen(txn[x], c) /\ db'[c] = db[c]
        BY <1>11, <3>1, <3>3 DEF Seen
    <3>5. \A o \in Orders : Status(o) \in ColumnsOf(o) /\ Decision(o) \in ColumnsOf(o)
                            /\ EventStatus(o) \in ColumnsOf(o)
        BY DEF ColumnsOf
    <3>6. OrdersAgree(x, txn[x])'
        BY <1>1, <3>1, <3>2, <3>4, <3>5 DEF AloneOK, OrdersAgree
    <3>7. BooksKept(x, txn[x])'
      <4>1. Kept(terms, executions, db, Owner(x), txn[x])
          BY <3>2, BooksAre DEF AloneOK
      <4>2. Owner(x) \in Users
          BY <3>1 DEF Undisturbed
      <4>3. Kept(terms, executions', db', Owner(x), txn[x])
          BY <1>13, <3>3, <4>1, <4>2, KeptAgree
      <4> QED
          BY <1>1, <3>1, <4>3, BooksAreNext
    <3> QED
        BY <3>6, <3>7 DEF AloneOK
  <2> QED
      BY <2>2, <2>3
<1>16. ASSUME NEW x \in Requests, NEW y \in Requests,
              x # y, Running(x)', Running(y)', Owner(x)' = Owner(y)'
       PROVE  Owner(x)' \in overlapped'
    BY <1>10, <1>16 DEF IInv
<1> QED
    BY <1>6, <1>7, <1>8, <1>9, <1>12, <1>14, <1>15, <1>16 DEF StepOK, IInv

----------------------------------------------------------------------------
\* The first SELECT

\* What a transaction needs that has only read, or written columns of orders.
LEMMA Opening ==
    ASSUME IInv, NEW r \in Requests, NEW t, DOMAIN t = Fields,
           t.step \in {"work", "flush"}, DOMAIN t.fills = {}, t.quoted = {},
           t.step = "flush" => t.dirty # {},
           t.step = "work" /\ t.todo = {} => t.dirty = {},
           DOMAIN t.mem \subseteq Columns, t.dirty \cup t.written \subseteq DOMAIN t.mem,
           \A c \in t.dirty \cup t.written : \E o \in Orders : c \in ColumnsOf(o),
           \A c \in DOMAIN t.mem : t.mem[c] = db[c] \/ t.mem[c] \in TypeOfColumn(c),
           \A c \in DOMAIN t.mem : t.mem[c] # db[c] =>
                c \in t.dirty \cup t.written /\ t.mem[c] # "EXECUTED",
           \A o \in Orders : ColumnsOf(o) \cap DOMAIN t.mem # {} => terms[o].user = Owner(r),
           t.todo \subseteq Orders,
           \A o \in t.todo :
               {Status(o), Cash(terms[o].user), Price(terms[o].stock)} \subseteq DOMAIN t.mem
    PROVE  TxnTypeOK(t) /\ TxnOK(r, t)
<1>1. TypeOK
    BY DEF IInv
<1>2. \A c \in DOMAIN t.mem : t.mem[c] \in TypeOfColumn(c)
    BY <1>1 DEF TypeOK
<1>3. TxnTypeOK(t)
    BY <1>2, TxnFields DEF TxnTypeOK
<1>4. \A o \in t.todo : terms[o].user = Owner(r)
    BY DEF ColumnsOf
<1>5. \A o \in Orders : Status(o) \in DOMAIN t.mem /\ t.mem[Status(o)] = "EXECUTED" =>
          executions[o] # <<>>
    BY DEF IInv, ExecutedHasTraded
<1>6. \A u \in Users : Cash(u) \notin t.dirty \cup t.written
    BY ColumnsDiffer
<1>7. \A u \in Users : Cash(u) \in DOMAIN t.mem => t.mem[Cash(u)] = db[Cash(u)]
    BY <1>6
<1>8. \A u \in Users : Cash(u) \in DOMAIN t.mem => t.mem[Cash(u)] >= 0
    BY <1>7 DEF IInv, NoOverdraft
<1> QED
    BY <1>3, <1>4, <1>5, <1>6, <1>8 DEF TxnOK

\* Orders of which it has only read agree, and may be executed while open.
LEMMA OpeningAlone ==
    ASSUME IInv, NEW r \in Requests, NEW t, Owner(r) \in Undisturbed,
           DOMAIN t.fills = {},
           \A c \in t.dirty \cup t.written : \E o \in Orders : c \in ColumnsOf(o),
           \A c \in DOMAIN t.mem : t.mem[c] # db[c] => c \in t.dirty \cup t.written,
           \A o \in Orders : terms[o].user = Owner(r) =>
               \/ /\ ColumnsOf(o) \cap (t.dirty \cup t.written) = {}
                  /\ o \in t.todo => db[Status(o)] \in Open
               \/ IF o \in t.todo
                  THEN Seen(t, Decision(o)) = "ALLOW" /\ Seen(t, EventStatus(o)) # "BLOCKED"
                  ELSE Agree(Seen(t, Status(o)), Seen(t, Decision(o)), Seen(t, EventStatus(o)))
    PROVE  AloneOK(r, t)
<1> DEFINE u == Owner(r)
<1>1. BooksKept(r, t)
  <2>1. WithFills(executions, t) = executions
      BY DEF WithFills, IInv, TypeOK
  <2>2. Cash(u) \notin t.dirty \cup t.written
      BY ColumnsDiffer
  <2>3. (IF Cash(u) \in DOMAIN t.mem THEN t.mem[Cash(u)] ELSE db[Cash(u)]) = db[Cash(u)]
      BY <2>2
  <2>4. /\ db[Cash(u)] = BalanceBy(terms, executions, u)
        /\ \A s \in Stocks : HeldBy(terms, executions, u, s) >= 0
      BY BooksAre DEF IInv
  <2>5. Kept(terms, executions, db, u, t)
      BY <2>1, <2>3, <2>4 DEF Kept
  <2> QED
      BY <2>5, BooksAre
<1> SUFFICES ASSUME NEW o \in Orders, terms[o].user = Owner(r)
             PROVE  /\ \A c \in ColumnsOf(o) \ (t.dirty \cup t.written) : Seen(t, c) = db[c]
                    /\ IF o \in t.todo
                       THEN Seen(t, Decision(o)) = "ALLOW" /\ Seen(t, EventStatus(o)) # "BLOCKED"
                       ELSE Agree(Seen(t, Status(o)), Seen(t, Decision(o)), Seen(t, EventStatus(o)))
    BY <1>1 DEF AloneOK, OrdersAgree
<1>2. \A c \in ColumnsOf(o) \ (t.dirty \cup t.written) : Seen(t, c) = db[c]
    BY DEF Seen
<1>3. CASE /\ ColumnsOf(o) \cap (t.dirty \cup t.written) = {}
           /\ o \in t.todo => db[Status(o)] \in Open
  <2>1. Agree(db[Status(o)], db[Decision(o)], db[EventStatus(o)])
      BY DEF IInv, StatusMatchesDecision
  <2>2. /\ Seen(t, Status(o)) = db[Status(o)] /\ Seen(t, Decision(o)) = db[Decision(o)]
        /\ Seen(t, EventStatus(o)) = db[EventStatus(o)]
      BY <1>2, <1>3 DEF ColumnsOf
  <2> QED
      BY <1>2, <1>3, <2>1, <2>2 DEF Agree, Open
<1> QED
    BY <1>2, <1>3

\* A request that begins and is no other's company has an undisturbed owner.
LEMMA BeginStep ==
    ASSUME IInv, NEW r \in Requests, NEW t, Begins(r), Continue(r, t),
           TxnTypeOK(t), TxnOK(r, t), t.step # "new",
           Owner(r) \in Undisturbed /\ t.step # "end" => AloneOK(r, t)
    PROVE  StepOK
<1>1. overlapped \subseteq overlapped'
    BY DEF Begins
<1>2. Owner(r) \in Users \ overlapped' => Owner(r) \in Undisturbed
    BY <1>1 DEF Undisturbed
<1> QED
    BY <1>2, ContinueStep

LEMMA EndedOK ==
    ASSUME NEW r \in Requests
    PROVE  TxnTypeOK(Ended) /\ TxnOK(r, Ended)
BY EndedIs, TxnFields DEF TxnTypeOK, TxnOK

\* A session that has only read.
LEMMA LoadedIs ==
    ASSUME TypeOK, NEW S \in SUBSET Columns
    PROVE  LET n == Load(NewTxn, S) IN
           /\ DOMAIN n = Fields /\ n.step = "new" /\ n.dirty = {} /\ n.written = {}
           /\ n.todo = {} /\ n.quoted = {} /\ DOMAIN n.fills = {}
           /\ DOMAIN n.mem = S
           /\ \A c \in S : n.mem[c] = db[c] /\ n.mem[c] \in TypeOfColumn(c)
<1> DEFINE n == Load(NewTxn, S)
<1>1. /\ DOMAIN n = Fields /\ n.step = NewTxn.step /\ n.dirty = NewTxn.dirty
      /\ n.written = NewTxn.written /\ n.todo = NewTxn.todo /\ n.quoted = NewTxn.quoted
      /\ n.fills = NewTxn.fills
      /\ DOMAIN n.mem = DOMAIN NewTxn.mem \cup S
      /\ \A c \in DOMAIN n.mem :
            n.mem[c] = IF c \in DOMAIN NewTxn.mem THEN NewTxn.mem[c] ELSE db[c]
    BY TxnFields DEF Load, Extended, Fields
<1>2. DOMAIN NewTxn.mem = {} /\ DOMAIN NewTxn.fills = {}
    BY TxnFields
<1>3. \A c \in S : n.mem[c] = db[c] /\ db[c] \in TypeOfColumn(c)
    BY <1>1, <1>2 DEF TypeOK
<1> HIDE DEF n
<1>4. /\ DOMAIN n = Fields /\ n.step = "new" /\ n.dirty = {} /\ n.written = {}
      /\ n.todo = {} /\ n.quoted = {} /\ DOMAIN n.fills = {} /\ DOMAIN n.mem = S
    BY <1>1, <1>2, TxnFields
<1> QED
    BY <1>3, <1>4 DEF n

----------------------------------------------------------------------------
\* Requests begin

LEMMA RefreshBegins ==
    ASSUME IInv, NEW r \in Requests, BeginRefresh(r)
    PROVE  StepOK
<1> DEFINE u == job[r].user
           open == {o \in Orders : terms[o].user = u /\ db[Status(o)] \in Open}
           S == {Cash(u)} \cup {Status(o) : o \in open} \cup {Price(terms[o].stock) : o \in open}
           loaded == Load(NewTxn, S)
           t == [loaded EXCEPT !.step = "work", !.todo = open]
<1>1. Begins(r) /\ Kind(r) = "refresh" /\ Continue(r, t)
    BY DEF BeginRefresh
<1>2. TypeOK /\ u \in Users /\ Owner(r) = u
    BY <1>1, JobTyped DEF IInv
<1>3. \A o \in open : o \in Orders /\ terms[o].user = u /\ terms[o].stock \in Stocks
    BY <1>2, TermsTyped
<1>4. S \in SUBSET Columns
    BY <1>2, <1>3, ColumnsTyped DEF ColumnsOf
<1> HIDE DEF S
<1>5. /\ DOMAIN t = Fields /\ t.step = "work" /\ t.dirty = {} /\ t.written = {}
      /\ t.todo = open /\ t.quoted = {} /\ DOMAIN t.fills = {} /\ DOMAIN t.mem = S
      /\ \A c \in S : t.mem[c] = db[c]
    BY <1>2, <1>4, LoadedIs DEF Fields
<1>6. \A o \in Orders : ColumnsOf(o) \cap S # {} => terms[o].user = u
  <2> SUFFICES ASSUME NEW o \in Orders, NEW c \in ColumnsOf(o), c \in S
               PROVE  terms[o].user = u
      OBVIOUS
  <2>1. PICK p \in open : c = Status(p)
      BY ColumnsDiffer DEF S
  <2>2. o = p
      BY <2>1, ColumnsDiffer DEF ColumnsOf
  <2> QED
      BY <1>3, <2>2
<1>7. \A o \in open : {Status(o), Cash(terms[o].user), Price(terms[o].stock)} \subseteq S
    BY <1>3 DEF S
<1>8. open \subseteq Orders /\ (open = {} => TRUE)
    OBVIOUS
<1>9. \A o \in open : db[Status(o)] \in Open
    OBVIOUS
<1> HIDE DEF t, open, u
<1>10. TxnTypeOK(t) /\ TxnOK(r, t)
    BY <1>2, <1>3, <1>4, <1>5, <1>6, <1>7, <1>8, Opening
<1>11. Owner(r) \in Undisturbed => AloneOK(r, t)
    BY <1>5, <1>9, OpeningAlone
<1> QED
    BY <1>1, <1>5, <1>10, <1>11, BeginStep

LEMMA CancelBegins ==
    ASSUME IInv, NEW r \in Requests, BeginCancel(r)
    PROVE  StepOK
<1> DEFINE o == job[r].order
           c == Status(o)
           n == Load(NewTxn, {c})
           a == Assign(n, c, "CANCELLED")
           t == Flushing(a)
<1>1. Begins(r) /\ Kind(r) = "cancel" /\ Continue(r, IF db[c] \in Cancellable THEN t ELSE Ended)
    BY DEF BeginCancel
<1>2. TypeOK /\ o \in Orders /\ Owner(r) = terms[o].user
    BY <1>1, JobTyped DEF IInv
<1>3. c \in ColumnsOf(o) /\ c \in Columns /\ TypeOfColumn(c) = OrderStatus \cup {None}
    BY <1>2, ColumnsTyped DEF ColumnsOf
<1>4. /\ DOMAIN n = Fields /\ n.dirty = {} /\ n.written = {} /\ n.todo = {} /\ n.quoted = {}
      /\ DOMAIN n.fills = {} /\ DOMAIN n.mem = {c} /\ n.mem[c] = db[c]
    BY <1>2, <1>3, LoadedIs
<1> HIDE DEF n
<1>5. /\ DOMAIN a = Fields /\ a.written = {} /\ a.todo = {} /\ a.quoted = {}
      /\ DOMAIN a.fills = {} /\ DOMAIN a.mem = {c} /\ a.mem[c] = "CANCELLED"
      /\ a.dirty \subseteq {c} /\ (c \notin a.dirty => a.mem[c] = db[c])
    BY <1>4, AssignIs
<1> HIDE DEF a
<1>6. /\ DOMAIN t = Fields /\ t.written = {} /\ t.todo = {} /\ t.quoted = {}
      /\ DOMAIN t.fills = {} /\ DOMAIN t.mem = {c} /\ t.mem[c] = "CANCELLED"
      /\ t.dirty \subseteq {c} /\ (c \notin t.dirty => t.mem[c] = db[c])
      /\ t.step \in {"work", "flush"} /\ (t.step = "flush" <=> t.dirty # {})
    BY <1>5, FlushingIs
<1> HIDE DEF t, c, o
<1>7. CASE db[c] \notin Cancellable
    BY <1>1, <1>7, EndedIs, EndedOK, BeginStep
<1>8. CASE db[c] \in Cancellable
  <2>1. \A p \in Orders : ColumnsOf(p) \cap {c} # {} => p = o
      BY <1>2, <1>3, ColumnsDiffer
  <2>2. TxnTypeOK(t) /\ TxnOK(r, t)
    <3>1. \A d \in t.dirty \cup t.written : \E p \in Orders : d \in ColumnsOf(p)
        BY <1>2, <1>3, <1>6
    <3>2. \A d \in DOMAIN t.mem : t.mem[d] \in TypeOfColumn(d)
        BY <1>3, <1>6 DEF OrderStatus
    <3>3. \A d \in DOMAIN t.mem : t.mem[d] # db[d] =>
              d \in t.dirty \cup t.written /\ t.mem[d] # "EXECUTED"
        BY <1>6
    <3>4. \A p \in Orders : ColumnsOf(p) \cap DOMAIN t.mem # {} => terms[p].user = Owner(r)
        BY <1>2, <1>6, <2>1
    <3> QED
        BY <1>3, <1>6, <3>1, <3>2, <3>3, <3>4, Opening
  <2>3. ASSUME Owner(r) \in Undisturbed
        PROVE  AloneOK(r, t)
    <3>1. Agree(db[Status(o)], db[Decision(o)], db[EventStatus(o)])
        BY <1>2, <2>3 DEF IInv, StatusMatchesDecision
    <3>2. db[Decision(o)] # "BLOCKED" /\ db[EventStatus(o)] # "BLOCKED"
        BY <1>8, <3>1 DEF Agree, Cancellable, c
    <3>3. /\ Seen(t, Status(o)) = "CANCELLED" /\ Seen(t, Decision(o)) = db[Decision(o)]
          /\ Seen(t, EventStatus(o)) = db[EventStatus(o)]
        BY <1>6, ColumnsDiffer DEF Seen, c
    <3>4. Agree(Seen(t, Status(o)), Seen(t, Decision(o)), Seen(t, EventStatus(o)))
        BY <3>2, <3>3 DEF Agree
    <3>5. \A p \in Orders : p = o \/ ColumnsOf(p) \cap (t.dirty \cup t.written) = {}
        BY <1>6, <2>1
    <3>6. \A d \in t.dirty \cup t.written : \E p \in Orders : d \in ColumnsOf(p)
        BY <1>2, <1>3, <1>6
    <3> QED
        BY <1>6, <2>3, <3>4, <3>5, <3>6, OpeningAlone
  <2> QED
      BY <1>1, <1>6, <1>8, <2>2, <2>3, BeginStep
<1> QED
    BY <1>7, <1>8

\* A request begins that has read one order's rows and written the order's.
LEMMA OneOrderBegins ==
    ASSUME IInv, NEW r \in Requests, NEW o \in Orders, NEW t, Begins(r), Continue(r, t),
           Owner(r) = terms[o].user,
           DOMAIN t = Fields, t.step \in {"work", "flush"}, DOMAIN t.fills = {}, t.quoted = {},
           t.step = "flush" => t.dirty # {},
           t.step = "work" /\ t.todo = {} => t.dirty = {},
           DOMAIN t.mem = ColumnsOf(o) \cup {Price(terms[o].stock), Cash(terms[o].user)},
           t.dirty \cup t.written \subseteq ColumnsOf(o), t.todo \subseteq {o},
           \A c \in DOMAIN t.mem : t.mem[c] = db[c] \/ t.mem[c] \in TypeOfColumn(c),
           \A c \in DOMAIN t.mem : t.mem[c] # db[c] =>
                c \in t.dirty \cup t.written /\ t.mem[c] # "EXECUTED",
           IF o \in t.todo
           THEN t.mem[Decision(o)] = "ALLOW" /\ t.mem[EventStatus(o)] # "BLOCKED"
           ELSE Agree(t.mem[Status(o)], t.mem[Decision(o)], t.mem[EventStatus(o)])
    PROVE  StepOK
<1>1. /\ TypeOK /\ terms[o].user \in Users /\ terms[o].stock \in Stocks
    BY TermsTyped DEF IInv
<1>2. Status(o) \in ColumnsOf(o) /\ Decision(o) \in ColumnsOf(o) /\ EventStatus(o) \in ColumnsOf(o)
    BY DEF ColumnsOf
<1>3. \A p \in Orders : p # o => ColumnsOf(p) \cap DOMAIN t.mem = {}
    BY ColumnsDiffer
<1>4. TxnTypeOK(t) /\ TxnOK(r, t)
  <2>1. DOMAIN t.mem \subseteq Columns
      BY <1>1, ColumnsTyped
  <2>2. \A p \in Orders : ColumnsOf(p) \cap DOMAIN t.mem # {} => terms[p].user = Owner(r)
      BY <1>3
  <2>3. \A p \in t.todo :
            {Status(p), Cash(terms[p].user), Price(terms[p].stock)} \subseteq DOMAIN t.mem
      BY <1>2
  <2>4. /\ \A c \in t.dirty \cup t.written : \E p \in Orders : c \in ColumnsOf(p)
        /\ t.todo \subseteq Orders /\ t.dirty \cup t.written \subseteq DOMAIN t.mem
      OBVIOUS
  <2> QED
      BY <2>1, <2>2, <2>3, <2>4, Opening
<1>5. ASSUME Owner(r) \in Undisturbed
      PROVE  AloneOK(r, t)
  <2>1. /\ Seen(t, Status(o)) = t.mem[Status(o)] /\ Seen(t, Decision(o)) = t.mem[Decision(o)]
        /\ Seen(t, EventStatus(o)) = t.mem[EventStatus(o)]
      BY <1>2 DEF Seen
  <2>2. \A p \in Orders : p # o =>
            ColumnsOf(p) \cap (t.dirty \cup t.written) = {} /\ p \notin t.todo
      BY <1>3
  <2>3. IF o \in t.todo
        THEN Seen(t, Decision(o)) = "ALLOW" /\ Seen(t, EventStatus(o)) # "BLOCKED"
        ELSE Agree(Seen(t, Status(o)), Seen(t, Decision(o)), Seen(t, EventStatus(o)))
      BY <2>1
  <2>4. \A c \in t.dirty \cup t.written : \E p \in Orders : c \in ColumnsOf(p)
      OBVIOUS
  <2> QED
      BY <1>5, <2>2, <2>3, <2>4, OpeningAlone
<1> QED
    BY <1>4, <1>5, BeginStep

\* The review desk has read an order and set its event.
LEMMA ReviewedIs ==
    ASSUME TypeOK, NEW o \in Orders,
           NEW d, NEW e
    PROVE  LET n == SetEvent(Reviewed(o), o, d, e) IN
           /\ DOMAIN n = Fields /\ n.written = {} /\ n.todo = {} /\ n.quoted = {}
           /\ DOMAIN n.fills = {}
           /\ DOMAIN n.mem = ColumnsOf(o) \cup {Price(terms[o].stock), Cash(terms[o].user)}
           /\ n.mem[Decision(o)] = d /\ n.mem[EventStatus(o)] = e
           /\ n.dirty \subseteq {Decision(o), EventStatus(o)}
           /\ \A c \in DOMAIN n.mem : c \notin n.dirty => n.mem[c] = db[c]
<1> DEFINE S == ColumnsOf(o) \cup {Price(terms[o].stock), Cash(terms[o].user)}
           l == Reviewed(o)
           m == Assign(l, Decision(o), d)
           n == Assign(m, EventStatus(o), e)
<1>1. Decision(o) \in S /\ EventStatus(o) \in S /\ Decision(o) # EventStatus(o)
    BY ColumnsDiffer DEF ColumnsOf
<1>2. l = Load(NewTxn, S)
  <2>1. {Status(o), Decision(o), EventStatus(o), Price(terms[o].stock), Cash(terms[o].user)} = S
      BY DEF ColumnsOf
  <2> QED
      BY <2>1 DEF Reviewed
<1>3. S \in SUBSET Columns
    BY TermsTyped, ColumnsTyped
<1> HIDE DEF S, l
<1>4. /\ DOMAIN l = Fields /\ l.dirty = {} /\ l.written = {} /\ l.todo = {} /\ l.quoted = {}
      /\ DOMAIN l.fills = {} /\ DOMAIN l.mem = S /\ \A c \in S : l.mem[c] = db[c]
    BY <1>2, <1>3, LoadedIs
<1>5. /\ DOMAIN m = Fields /\ m.written = {} /\ m.todo = {} /\ m.quoted = {}
      /\ DOMAIN m.fills = {} /\ DOMAIN m.mem = S /\ m.mem[Decision(o)] = d
      /\ m.dirty \subseteq {Decision(o)}
      /\ \A c \in S : c \notin m.dirty => m.mem[c] = db[c]
    BY <1>1, <1>4, AssignIs
<1> HIDE DEF m
<1>6. /\ DOMAIN n = Fields /\ n.written = {} /\ n.todo = {} /\ n.quoted = {}
      /\ DOMAIN n.fills = {} /\ DOMAIN n.mem = S
      /\ n.mem[Decision(o)] = d /\ n.mem[EventStatus(o)] = e
      /\ n.dirty \subseteq {Decision(o), EventStatus(o)}
      /\ \A c \in S : c \notin n.dirty => n.mem[c] = db[c]
  <2>1. EventStatus(o) \in DOMAIN m.mem
      BY <1>1, <1>5
  <2>2. /\ DOMAIN n = Fields /\ n.written = m.written /\ n.todo = m.todo /\ n.quoted = m.quoted
        /\ n.fills = m.fills /\ DOMAIN n.mem = S
        /\ \A c \in S : n.mem[c] = IF c = EventStatus(o) THEN e ELSE m.mem[c]
        /\ m.dirty \subseteq n.dirty /\ n.dirty \subseteq m.dirty \cup {EventStatus(o)}
        /\ EventStatus(o) \notin n.dirty => n.mem[EventStatus(o)] = m.mem[EventStatus(o)]
      BY <1>5, <2>1, AssignIs
  <2> HIDE DEF n
  <2> QED
      BY <1>1, <1>5, <2>2
<1>7. SetEvent(Reviewed(o), o, d, e) = n
    BY DEF SetEvent, l, m
<1> QED
    BY <1>6, <1>7 DEF S

LEMMA ApproveBegins ==
    ASSUME IInv, NEW r \in Requests, BeginApprove(r)
    PROVE  StepOK
<1> DEFINE o == job[r].order
           n == SetEvent(Reviewed(o), o, "ALLOW", "APPROVED")
           w == [n EXCEPT !.step = "work", !.todo = {o}]
           f == Flushing(n)
<1>1. /\ Begins(r) /\ Kind(r) = "approve"
      /\ Continue(r, IF db[Status(o)] \in Approvable THEN w ELSE f)
    BY DEF BeginApprove
<1>2. TypeOK /\ o \in Orders /\ Owner(r) = terms[o].user
    BY <1>1, JobTyped DEF IInv
<1>3. /\ DOMAIN n = Fields /\ n.written = {} /\ n.todo = {} /\ n.quoted = {}
      /\ DOMAIN n.fills = {}
      /\ DOMAIN n.mem = ColumnsOf(o) \cup {Price(terms[o].stock), Cash(terms[o].user)}
      /\ n.mem[Decision(o)] = "ALLOW" /\ n.mem[EventStatus(o)] = "APPROVED"
      /\ n.dirty \subseteq {Decision(o), EventStatus(o)}
      /\ \A c \in DOMAIN n.mem : c \notin n.dirty => n.mem[c] = db[c]
    BY <1>2, ReviewedIs
<1> HIDE DEF n, o
<1>4. /\ Decision(o) \in ColumnsOf(o) /\ EventStatus(o) \in ColumnsOf(o)
      /\ Status(o) \in ColumnsOf(o)
      /\ Status(o) # Decision(o) /\ Status(o) # EventStatus(o)
    BY ColumnsDiffer DEF ColumnsOf
<1>5. \A c \in DOMAIN n.mem :
          /\ n.mem[c] = db[c] \/ n.mem[c] \in TypeOfColumn(c)
          /\ n.mem[c] # db[c] => c \in n.dirty \cup n.written /\ n.mem[c] # "EXECUTED"
  <2>1. "ALLOW" \in TypeOfColumn(Decision(o)) /\ "APPROVED" \in TypeOfColumn(EventStatus(o))
      BY <1>2, ColumnsTyped DEF RiskDecision, RiskEventStatus
  <2> QED
      BY <1>3, <2>1
<1>6. n.mem[Status(o)] = db[Status(o)]
    BY <1>3, <1>4
<1>7. CASE db[Status(o)] \in Approvable
  <2>1. /\ DOMAIN w = Fields /\ w.step = "work" /\ w.mem = n.mem /\ w.dirty = n.dirty
        /\ w.written = {} /\ w.todo = {o} /\ w.quoted = {} /\ w.fills = n.fills
      BY <1>3 DEF Fields
  <2> HIDE DEF w
  <2> QED
      BY <1>1, <1>2, <1>3, <1>4, <1>5, <1>7, <2>1, OneOrderBegins
<1>8. CASE db[Status(o)] \notin Approvable
  <2>1. /\ DOMAIN f = Fields /\ f.mem = n.mem /\ f.dirty = n.dirty
        /\ f.written = {} /\ f.todo = {} /\ f.quoted = {} /\ f.fills = n.fills
        /\ f.step \in {"work", "flush"} /\ (f.step = "flush" <=> f.dirty # {})
      BY <1>3, FlushingIs
  <2> HIDE DEF f
  <2>2. Agree(f.mem[Status(o)], f.mem[Decision(o)], f.mem[EventStatus(o)])
      BY <1>3, <1>6, <1>8, <2>1 DEF Agree, Approvable
  <2> QED
      BY <1>1, <1>2, <1>3, <1>4, <1>5, <1>8, <2>1, <2>2, OneOrderBegins
<1> QED
    BY <1>7, <1>8

LEMMA BlockBegins ==
    ASSUME IInv, NEW r \in Requests, BeginBlock(r)
    PROVE  StepOK
<1> DEFINE o == job[r].order
           n == SetEvent(Reviewed(o), o, "BLOCKED", "BLOCKED")
           m == Assign(n, Status(o), "BLOCKED")
           t == Flushing(m)
<1>1. Begins(r) /\ Kind(r) = "block" /\ Continue(r, t)
    BY DEF BeginBlock
<1>2. TypeOK /\ o \in Orders /\ Owner(r) = terms[o].user
    BY <1>1, JobTyped DEF IInv
<1>3. /\ DOMAIN n = Fields /\ n.written = {} /\ n.todo = {} /\ n.quoted = {}
      /\ DOMAIN n.fills = {}
      /\ DOMAIN n.mem = ColumnsOf(o) \cup {Price(terms[o].stock), Cash(terms[o].user)}
      /\ n.mem[Decision(o)] = "BLOCKED" /\ n.mem[EventStatus(o)] = "BLOCKED"
      /\ n.dirty \subseteq {Decision(o), EventStatus(o)}
      /\ \A c \in DOMAIN n.mem : c \notin n.dirty => n.mem[c] = db[c]
    BY <1>2, ReviewedIs
<1> HIDE DEF n, o
<1>4. /\ Decision(o) \in ColumnsOf(o) /\ EventStatus(o) \in ColumnsOf(o)
      /\ Status(o) \in ColumnsOf(o)
      /\ Status(o) # Decision(o) /\ Status(o) # EventStatus(o)
    BY ColumnsDiffer DEF ColumnsOf
<1>5. /\ DOMAIN m = Fields /\ m.written = {} /\ m.todo = {} /\ m.quoted = {}
      /\ DOMAIN m.fills = {} /\ DOMAIN m.mem = DOMAIN n.mem
      /\ \A c \in DOMAIN n.mem : m.mem[c] = IF c = Status(o) THEN "BLOCKED" ELSE n.mem[c]
      /\ m.dirty \subseteq ColumnsOf(o)
      /\ \A c \in DOMAIN n.mem : c \notin m.dirty => m.mem[c] = db[c]
  <2>1. Status(o) \in DOMAIN n.mem
      BY <1>3, <1>4
  <2>2. /\ DOMAIN m = Fields /\ m.written = n.written /\ m.todo = n.todo
        /\ m.quoted = n.quoted /\ m.fills = n.fills /\ DOMAIN m.mem = DOMAIN n.mem
        /\ \A c \in DOMAIN n.mem : m.mem[c] = IF c = Status(o) THEN "BLOCKED" ELSE n.mem[c]
        /\ n.dirty \subseteq m.dirty /\ m.dirty \subseteq n.dirty \cup {Status(o)}
        /\ Status(o) \notin m.dirty => m.mem[Status(o)] = n.mem[Status(o)]
      BY <1>3, <2>1, AssignIs
  <2> HIDE DEF m
  <2> QED
      BY <1>3, <1>4, <2>2
<1> HIDE DEF m
<1>6. /\ DOMAIN t = Fields /\ t.mem = m.mem /\ t.dirty = m.dirty
      /\ t.written = {} /\ t.todo = {} /\ t.quoted = {} /\ t.fills = m.fills
      /\ t.step \in {"work", "flush"} /\ (t.step = "flush" <=> t.dirty # {})
    BY <1>5, FlushingIs
<1> HIDE DEF t
<1>7. \A c \in DOMAIN t.mem :
          /\ t.mem[c] = db[c] \/ t.mem[c] \in TypeOfColumn(c)
          /\ t.mem[c] # db[c] => c \in t.dirty \cup t.written /\ t.mem[c] # "EXECUTED"
  <2>1. /\ "BLOCKED" \in TypeOfColumn(Decision(o)) /\ "BLOCKED" \in TypeOfColumn(EventStatus(o))
        /\ "BLOCKED" \in TypeOfColumn(Status(o))
      BY <1>2, ColumnsTyped DEF RiskDecision, RiskEventStatus, OrderStatus
  <2>2. \A c \in DOMAIN t.mem : c \in n.dirty => t.mem[c] = "BLOCKED"
      BY <1>3, <1>5, <1>6
  <2>3. \A c \in DOMAIN t.mem : c # Status(o) /\ c \notin n.dirty => t.mem[c] = db[c]
      BY <1>3, <1>5, <1>6
  <2> QED
      BY <1>3, <1>5, <1>6, <2>1, <2>2, <2>3
<1>8. Agree(t.mem[Status(o)], t.mem[Decision(o)], t.mem[EventStatus(o)])
    BY <1>3, <1>4, <1>5, <1>6 DEF Agree
<1> QED
    BY <1>1, <1>2, <1>3, <1>5, <1>6, <1>7, <1>8, OneOrderBegins

LEMMA SubmitBegins ==
    ASSUME IInv, NEW r \in Requests, BeginSubmit(r)
    PROVE  StepOK
<1> DEFINE o == job[r].order
           inserted == [c \in {Status(o), Decision(o), EventStatus(o)} |->
                           CASE c = Status(o) -> "PENDING"
                             [] c = Decision(o) -> "ALLOW"
                             [] c = EventStatus(o) -> "AUTO_ALLOWED"]
           S == {Price(terms[o].stock), Cash(terms[o].user)}
           l == Load(NewTxn, S)
           t == [l EXCEPT !.step = "work", !.mem = Extended(@, inserted),
                          !.written = DOMAIN inserted, !.todo = {o}]
<1>1. Begins(r) /\ Kind(r) = "submit" /\ Continue(r, t)
    BY DEF BeginSubmit
<1>2. TypeOK /\ o \in Orders /\ Owner(r) = terms[o].user
    BY <1>1, JobTyped DEF IInv
<1>3. S \in SUBSET Columns
    BY <1>2, TermsTyped, ColumnsTyped
<1>4. /\ DOMAIN l = Fields /\ l.dirty = {} /\ l.written = {} /\ l.todo = {} /\ l.quoted = {}
      /\ DOMAIN l.fills = {} /\ DOMAIN l.mem = S /\ \A c \in S : l.mem[c] = db[c]
    BY <1>2, <1>3, LoadedIs
<1> HIDE DEF l, o
<1>5. /\ Decision(o) \in ColumnsOf(o) /\ EventStatus(o) \in ColumnsOf(o)
      /\ Status(o) \in ColumnsOf(o) /\ ColumnsOf(o) \cap S = {}
      /\ Status(o) # Decision(o) /\ Status(o) # EventStatus(o) /\ Decision(o) # EventStatus(o)
    BY ColumnsDiffer DEF ColumnsOf
<1>6. /\ DOMAIN inserted = ColumnsOf(o)
      /\ inserted[Status(o)] = "PENDING" /\ inserted[Decision(o)] = "ALLOW"
      /\ inserted[EventStatus(o)] = "AUTO_ALLOWED"
    BY <1>5 DEF ColumnsOf
<1> HIDE DEF inserted
<1>7. /\ DOMAIN t = Fields /\ t.step = "work" /\ t.mem = Extended(l.mem, inserted)
      /\ t.dirty = {} /\ t.written = ColumnsOf(o) /\ t.todo = {o} /\ t.quoted = {}
      /\ t.fills = l.fills
    BY <1>4, <1>6 DEF Fields
<1> HIDE DEF t
<1>8. /\ DOMAIN t.mem = ColumnsOf(o) \cup S
      /\ \A c \in S : t.mem[c] = db[c]
      /\ \A c \in ColumnsOf(o) : t.mem[c] = inserted[c]
    BY <1>4, <1>5, <1>6, <1>7 DEF Extended
<1>9. \A c \in ColumnsOf(o) : inserted[c] \in TypeOfColumn(c) /\ inserted[c] # "EXECUTED"
  <2>1. /\ inserted[Status(o)] \in TypeOfColumn(Status(o))
        /\ inserted[Decision(o)] \in TypeOfColumn(Decision(o))
        /\ inserted[EventStatus(o)] \in TypeOfColumn(EventStatus(o))
      BY <1>2, <1>6, ColumnsTyped DEF RiskDecision, RiskEventStatus, OrderStatus
  <2> QED
      BY <1>6, <2>1 DEF ColumnsOf
<1>10. \A c \in DOMAIN t.mem :
          /\ t.mem[c] = db[c] \/ t.mem[c] \in TypeOfColumn(c)
          /\ t.mem[c] # db[c] => c \in t.dirty \cup t.written /\ t.mem[c] # "EXECUTED"
    BY <1>7, <1>8, <1>9
<1>11. t.mem[Decision(o)] = "ALLOW" /\ t.mem[EventStatus(o)] # "BLOCKED"
    BY <1>5, <1>6, <1>8
<1> QED
    BY <1>1, <1>2, <1>4, <1>7, <1>8, <1>10, <1>11, OneOrderBegins

----------------------------------------------------------------------------
\* A request works

LEMMA WorkStep ==
    ASSUME IInv, NEW r \in Requests, NEW t, Running(r), Continue(r, t), UNCHANGED overlapped,
           TxnTypeOK(t), TxnOK(r, t), t.step # "new",
           AloneOK(r, txn[r]) => AloneOK(r, t)
    PROVE  StepOK
<1>1. Owner(r) \in Users \ overlapped' => AloneOK(r, txn[r])
    BY DEF IInv, Undisturbed
<1> QED
    BY <1>1, ContinueStep

LEMMA EndStep ==
    ASSUME IInv, NEW r \in Requests, Continue(r, Ended), UNCHANGED overlapped
    PROVE  StepOK
BY EndedIs, EndedOK, ContinueStep

\* A session that executes nothing and leaves the cash it knows keeps the books.
LEMMA BooksStay ==
    ASSUME NEW r \in Requests, NEW t, NEW n, n.fills = t.fills,
           Seen(n, Cash(Owner(r))) = Seen(t, Cash(Owner(r))),
           Cash(Owner(r)) \in t.dirty \cup t.written => Cash(Owner(r)) \in n.dirty \cup n.written,
           BooksKept(r, t)
    PROVE  BooksKept(r, n)
<1>1. Traded(n) = Traded(t)
    BY DEF Traded
<1> QED
    BY <1>1 DEF BooksKept, Position

\* The session of a request: what the invariant says of it.
LEMMA SessionIs ==
    ASSUME IInv, NEW r \in Requests
    PROVE  TypeOK /\ TxnTypeOK(txn[r]) /\ TxnOK(r, txn[r]) /\ DOMAIN txn[r] = Fields
BY TxnFields DEF IInv, TypeOK, TxnTypeOK

LEMMA QuoteStep ==
    ASSUME IInv, NEW r \in Requests, Quote(r), UNCHANGED overlapped
    PROVE  StepOK
<1> DEFINE t == txn[r]
<1>1. PICK o \in Upcoming(t) :
          LET q == [t EXCEPT !.quoted = @ \cup {terms[o].stock}] IN
          /\ t.step = "work"
          /\ \/ Continue(r, q)
             \/ \E p \in Prices : Continue(r, Flushing(Assign(q, Price(terms[o].stock), p)))
    BY DEF Quote
<1> DEFINE s == terms[o].stock
           q == [t EXCEPT !.quoted = @ \cup {s}]
<1>2. TypeOK /\ TxnTypeOK(t) /\ TxnOK(r, t) /\ DOMAIN t = Fields /\ Running(r)
    BY <1>1, SessionIs DEF Running
<1>3. o \in t.todo /\ o \in Orders /\ s \in Stocks
    BY <1>2, TermsTyped DEF Upcoming, TxnTypeOK
<1>4. /\ DOMAIN q = Fields /\ q.step = "work" /\ q.mem = t.mem /\ q.dirty = t.dirty
      /\ q.written = t.written /\ q.todo = t.todo /\ q.fills = t.fills
      /\ q.quoted = t.quoted \cup {s}
    BY <1>1, <1>2 DEF Fields
<1>5. Continue(r, q) \/ \E p \in Prices : Continue(r, Flushing(Assign(q, Price(s), p)))
    BY <1>1
<1>6. Price(s) \in DOMAIN t.mem
    BY <1>2, <1>3 DEF TxnOK
<1> HIDE DEF q, s, t
<1>7. CASE Continue(r, q)
  <2>1. TxnTypeOK(q)
      BY <1>2, <1>3, <1>4 DEF TxnTypeOK, Fields
  <2>2. TxnOK(r, q)
      BY <1>2, <1>3, <1>4 DEF TxnOK
  <2>3. AloneOK(r, t) => AloneOK(r, q)
    <3>1. BooksKept(r, t) => BooksKept(r, q)
        BY <1>4, BooksStay DEF Seen
    <3> QED
        BY <1>4, <3>1 DEF AloneOK, OrdersAgree, Seen
  <2> QED
      BY <1>2, <1>4, <1>7, <2>1, <2>2, <2>3, WorkStep DEF t
<1>8. ASSUME NEW p \in Prices, Continue(r, Flushing(Assign(q, Price(s), p)))
      PROVE  StepOK
  <2> DEFINE a == Assign(q, Price(s), p)
             n == Flushing(a)
  <2>1. /\ DOMAIN a = Fields /\ a.written = t.written /\ a.todo = t.todo
        /\ a.quoted = t.quoted \cup {s} /\ a.fills = t.fills /\ DOMAIN a.mem = DOMAIN t.mem
        /\ \A d \in DOMAIN t.mem : a.mem[d] = IF d = Price(s) THEN p ELSE t.mem[d]
        /\ t.dirty \subseteq a.dirty /\ a.dirty \subseteq t.dirty \cup {Price(s)}
      BY <1>4, <1>6, AssignIs
  <2> HIDE DEF a
  <2>2. /\ DOMAIN n = Fields /\ n.mem = a.mem /\ n.dirty = a.dirty
        /\ n.written = t.written /\ n.todo = t.todo /\ n.quoted = t.quoted \cup {s}
        /\ n.fills = t.fills
        /\ n.step \in {"work", "flush"} /\ (n.step = "flush" <=> n.dirty # {})
      BY <2>1, FlushingIs
  <2> HIDE DEF n
  <2>3. \A c : (\E x \in Orders : c \in ColumnsOf(x)) \/ (\E u \in Users : c = Cash(u)) =>
            c # Price(s)
      BY ColumnsDiffer
  <2>4. TxnTypeOK(n)
    <3>1. \A d \in DOMAIN n.mem : n.mem[d] \in TypeOfColumn(d)
        BY <1>2, <1>3, <2>1, <2>2, ColumnsTyped DEF TxnTypeOK
    <3>2. n.dirty \cup n.written \subseteq DOMAIN n.mem
        BY <1>2, <1>6, <2>1, <2>2 DEF TxnTypeOK
    <3> QED
        BY <1>2, <1>3, <2>1, <2>2, <3>1, <3>2 DEF TxnTypeOK, Fields
  <2>5. \A x \in Orders : Status(x) \in ColumnsOf(x)
      BY DEF ColumnsOf
  <2>6. \A u \in Users : /\ Cash(u) \in DOMAIN n.mem => Cash(u) \in DOMAIN t.mem
                         /\ Cash(u) \in DOMAIN t.mem => n.mem[Cash(u)] = t.mem[Cash(u)]
                         /\ Cash(u) \in n.dirty => Cash(u) \in t.dirty
      BY <2>1, <2>2, <2>3
  <2>7. \A x \in Orders : /\ Status(x) \in DOMAIN t.mem => n.mem[Status(x)] = t.mem[Status(x)]
      BY <2>1, <2>2, <2>3, <2>5
  <2>8. TxnOK(r, n)
      BY <1>2, <1>3, <2>1, <2>2, <2>6, <2>7 DEF TxnOK
  <2>9. AloneOK(r, t) => AloneOK(r, n)
    <3>1. \A x \in Orders : \A c \in ColumnsOf(x) :
              Seen(n, c) = Seen(t, c) /\ (c \in n.dirty <=> c \in t.dirty)
        BY <2>1, <2>2, <2>3 DEF Seen
    <3>2. \A x \in Orders : Status(x) \in ColumnsOf(x) /\ Decision(x) \in ColumnsOf(x)
                            /\ EventStatus(x) \in ColumnsOf(x)
        BY DEF ColumnsOf
    <3>3. OrdersAgree(r, t) => OrdersAgree(r, n)
        BY <2>2, <3>1, <3>2 DEF OrdersAgree
    <3>4. Owner(r) \in Users
        BY <1>2, JobTyped
    <3>5. /\ Seen(n, Cash(Owner(r))) = Seen(t, Cash(Owner(r)))
          /\ t.dirty \cup t.written \subseteq n.dirty \cup n.written /\ n.fills = t.fills
        BY <2>1, <2>2, <2>6, <3>4 DEF Seen
    <3>6. BooksKept(r, t) => BooksKept(r, n)
        BY <3>5, BooksStay
    <3> QED
        BY <3>3, <3>6 DEF AloneOK
  <2> QED
      BY <1>2, <1>8, <2>2, <2>4, <2>8, <2>9, WorkStep DEF t, n, a
<1> QED
    BY <1>5, <1>7, <1>8

LEMMA WriteStep ==
    ASSUME IInv, NEW r \in Requests, Write(r), UNCHANGED overlapped
    PROVE  StepOK
<1> DEFINE t == txn[r]
           columns == {c \in t.dirty : Row(c) = Row(NextColumn(t))}
           left == t.dirty \ columns
           n == [t EXCEPT !.written = @ \cup columns, !.dirty = left,
                          !.step = IF left = {} THEN "work" ELSE "flush"]
<1>1. t.step = "flush" /\ Continue(r, n)
    BY DEF Write
<1>2. TypeOK /\ TxnTypeOK(t) /\ TxnOK(r, t) /\ DOMAIN t = Fields /\ Running(r)
    BY <1>1, SessionIs DEF Running
<1>3. columns \subseteq t.dirty
    OBVIOUS
<1> HIDE DEF columns
<1>4. /\ DOMAIN n = Fields /\ n.mem = t.mem /\ n.dirty \subseteq t.dirty
      /\ n.dirty \cup n.written = t.dirty \cup t.written
      /\ n.todo = t.todo /\ n.quoted = t.quoted /\ n.fills = t.fills
      /\ n.step \in {"work", "flush"} /\ (n.step = "flush" <=> n.dirty # {})
    BY <1>2, <1>3 DEF Fields
<1> HIDE DEF n, t
<1>5. TxnTypeOK(n)
    BY <1>2, <1>4 DEF TxnTypeOK, Fields
<1>6. TxnOK(r, n)
    BY <1>2, <1>4 DEF TxnOK
<1>7. AloneOK(r, t) => AloneOK(r, n)
  <2>1. BooksKept(r, t) => BooksKept(r, n)
      BY <1>4, BooksStay DEF Seen
  <2> QED
      BY <1>4, <2>1 DEF AloneOK, OrdersAgree, Seen
<1> QED
    BY <1>1, <1>2, <1>4, <1>5, <1>6, <1>7, WorkStep DEF t

\* A quote, moved by slippage and floored at a tick, is a price.
LEMMA FillPriceNat ==
    ASSUME TypeOK, NEW o \in Orders, NEW cur \in Prices
    PROVE  FillPrice(terms[o], cur) \in Nat /\ FillPrice(terms[o], cur) * terms[o].quantity \in Nat
<1> DEFINE w == terms[o]
<1>1. cur \in Nat /\ w.quantity \in Nat
    BY OrderTxAssumption, TermsTyped
<1>2. TickSize(cur) \in Nat
    BY <1>1 DEF TickSize
<1>3. Slippage(w, cur) \in Nat
    BY <1>2 DEF Slippage
<1>4. MarketExecutionPrice(w, cur) \in Nat
    BY <1>1, <1>2, <1>3 DEF MarketExecutionPrice
<1>5. FillPrice(w, cur) \in Nat
    BY <1>1, <1>4 DEF FillPrice
<1> QED
    BY <1>1, <1>5

\* The session executes order o: what it has when it is done with it.
LEMMA DoneStep ==
    ASSUME IInv, NEW r \in Requests, NEW o \in txn[r].todo, NEW n,
           Running(r), Continue(r, n), UNCHANGED overlapped,
           DOMAIN n = Fields, n.step \in {"work", "flush"},
           n.step = "flush" => n.dirty # {},
           n.step = "work" /\ n.todo = {} => n.dirty = {},
           n.todo = txn[r].todo \ {o}, n.written = txn[r].written,
           n.quoted = txn[r].quoted, DOMAIN n.mem = DOMAIN txn[r].mem,
           txn[r].dirty \subseteq n.dirty,
           n.dirty \subseteq txn[r].dirty \cup {Status(o), Cash(terms[o].user)},
           \A c \in DOMAIN n.mem :
                c # Status(o) /\ c # Cash(terms[o].user) => n.mem[c] = txn[r].mem[c],
           Status(o) \notin n.dirty => n.mem[Status(o)] = txn[r].mem[Status(o)],
           n.mem[Status(o)] \in {"ACCEPTED", "REJECTED", "EXECUTED"},
           n.mem[Cash(terms[o].user)] \in Nat,
           DOMAIN txn[r].fills \subseteq DOMAIN n.fills,
           DOMAIN n.fills \subseteq DOMAIN txn[r].fills \cup {o},
           \A p \in DOMAIN n.fills : n.fills[p] \in Nat,
           n.mem[Status(o)] = "EXECUTED" => o \in DOMAIN n.fills,
           Cash(terms[o].user) \in n.dirty =>
                o \in DOMAIN n.fills \/ Cash(terms[o].user) \in txn[r].dirty,
           BooksKept(r, txn[r]) => BooksKept(r, n)
    PROVE  StepOK
<1> DEFINE t == txn[r]
           k == Cash(terms[o].user)
<1>1. TypeOK /\ TxnTypeOK(t) /\ TxnOK(r, t)
    BY SessionIs
<1>2. /\ o \in Orders /\ terms[o].user = Owner(r) /\ terms[o].user \in Users
      /\ Status(o) \in DOMAIN t.mem /\ k \in DOMAIN t.mem
      /\ Status(o) \in ColumnsOf(o)
    BY <1>1, TermsTyped DEF TxnTypeOK, TxnOK, ColumnsOf
<1>3. \A p \in Orders : /\ p # o => Status(o) \notin ColumnsOf(p)
                        /\ k \notin ColumnsOf(p) /\ k # Status(p)
                        /\ Status(p) \in ColumnsOf(p)
    BY <1>2, ColumnsDiffer DEF ColumnsOf
<1>4. \A u \in Users : Cash(u) = k => u = terms[o].user
    BY ColumnsDiffer
<1>5. \A u \in Users : Cash(u) # Status(o)
    BY ColumnsDiffer
<1>6. TxnTypeOK(n)
  <2>1. \A d \in DOMAIN n.mem : n.mem[d] \in TypeOfColumn(d)
    <3>1. n.mem[k] \in TypeOfColumn(k)
        BY <1>2, ColumnsTyped
    <3>2. n.mem[Status(o)] \in TypeOfColumn(Status(o))
        BY <1>2, ColumnsTyped DEF OrderStatus
    <3> QED
        BY <1>1, <3>1, <3>2 DEF TxnTypeOK
  <2>2. n.dirty \cup n.written \subseteq DOMAIN n.mem
      BY <1>1, <1>2 DEF TxnTypeOK
  <2>3. n.todo \subseteq Orders /\ n.quoted \subseteq Stocks /\ DOMAIN n.fills \subseteq Orders
      BY <1>1, <1>2 DEF TxnTypeOK
  <2> QED
      BY <1>1, TxnFields, <2>1, <2>2, <2>3 DEF TxnTypeOK
<1> HIDE DEF k
<1>7. TxnOK(r, n)
  <2>1. \A p \in n.todo :
          /\ {Status(p), Cash(terms[p].user), Price(terms[p].stock)} \subseteq DOMAIN n.mem
          /\ terms[p].user = Owner(r) /\ p \notin DOMAIN n.fills
      BY <1>1 DEF TxnOK
  <2>2. \A p \in DOMAIN n.fills : terms[p].user = Owner(r)
      BY <1>1, <1>2 DEF TxnOK
  <2>3. \A p \in Orders :
          /\ ColumnsOf(p) \cap DOMAIN n.mem # {} => terms[p].user = Owner(r)
          /\ Status(p) \in DOMAIN n.mem /\ n.mem[Status(p)] = "EXECUTED" =>
                p \in DOMAIN n.fills \/ executions[p] # <<>>
    <3> SUFFICES ASSUME NEW p \in Orders, Status(p) \in DOMAIN n.mem, n.mem[Status(p)] = "EXECUTED"
                 PROVE  p \in DOMAIN n.fills \/ executions[p] # <<>>
        BY <1>1 DEF TxnOK
    <3>1. CASE p = o
        BY <3>1
    <3>2. CASE p # o
      <4>1. n.mem[Status(p)] = t.mem[Status(p)]
          BY <1>3, <3>2 DEF k
      <4> QED
          BY <1>1, <4>1 DEF TxnOK
    <3> QED
        BY <3>1, <3>2
  <2>4. \A u \in Users : Cash(u) \in DOMAIN n.mem => n.mem[Cash(u)] >= 0
    <3> SUFFICES ASSUME NEW u \in Users, Cash(u) \in DOMAIN n.mem
                 PROVE  n.mem[Cash(u)] >= 0
        OBVIOUS
    <3>1. CASE Cash(u) = k
        BY <3>1 DEF k
    <3>2. CASE Cash(u) # k
      <4>1. n.mem[Cash(u)] = t.mem[Cash(u)]
          BY <1>5, <3>2 DEF k
      <4> QED
          BY <1>1, <4>1 DEF TxnOK
    <3> QED
        BY <3>1, <3>2
  <2>5. \A u \in Users : Cash(u) \in n.dirty \cup n.written =>
            \E p \in DOMAIN n.fills : terms[p].user = u
    <3> SUFFICES ASSUME NEW u \in Users, Cash(u) \in n.dirty \cup n.written
                 PROVE  \E p \in DOMAIN n.fills : terms[p].user = u
        OBVIOUS
    <3>1. CASE Cash(u) \in t.dirty \cup t.written
        BY <1>1, <3>1 DEF TxnOK
    <3>2. CASE Cash(u) \notin t.dirty \cup t.written
      <4>1. Cash(u) = k
          BY <1>5, <3>2 DEF k
      <4> QED
          BY <1>4, <3>2, <4>1 DEF k
    <3> QED
        BY <3>1, <3>2
  <2> QED
      BY <2>1, <2>2, <2>3, <2>4, <2>5 DEF TxnOK
<1>8. ASSUME OrdersAgree(r, t)
      PROVE  OrdersAgree(r, n)
  <2> SUFFICES ASSUME NEW p \in Orders, terms[p].user = Owner(r)
               PROVE  /\ \A c \in ColumnsOf(p) \ (n.dirty \cup n.written) : Seen(n, c) = db[c]
                      /\ IF p \in n.todo
                         THEN Seen(n, Decision(p)) = "ALLOW" /\ Seen(n, EventStatus(p)) # "BLOCKED"
                         ELSE Agree(Seen(n, Status(p)), Seen(n, Decision(p)), Seen(n, EventStatus(p)))
      BY DEF OrdersAgree
  <2>1. /\ \A c \in ColumnsOf(p) \ (t.dirty \cup t.written) : Seen(t, c) = db[c]
        /\ IF p \in t.todo
           THEN Seen(t, Decision(p)) = "ALLOW" /\ Seen(t, EventStatus(p)) # "BLOCKED"
           ELSE Agree(Seen(t, Status(p)), Seen(t, Decision(p)), Seen(t, EventStatus(p)))
      BY <1>8 DEF OrdersAgree
  <2>2. \A c \in ColumnsOf(p) : c # Status(o) => Seen(n, c) = Seen(t, c)
      BY <1>3 DEF Seen, k
  <2>3. Status(o) \notin n.dirty => Seen(n, Status(o)) = Seen(t, Status(o))
      BY DEF Seen
  <2>4. \A c \in ColumnsOf(p) \ (n.dirty \cup n.written) : Seen(n, c) = db[c]
      BY <2>1, <2>2, <2>3
  <2>5. /\ Decision(p) \in ColumnsOf(p) /\ EventStatus(p) \in ColumnsOf(p)
        /\ Status(p) \in ColumnsOf(p)
        /\ Decision(p) # Status(o) /\ EventStatus(p) # Status(o)
      BY ColumnsDiffer DEF ColumnsOf
  <2>6. CASE p = o
    <3>1. Seen(n, Decision(p)) = "ALLOW" /\ Seen(n, EventStatus(p)) # "BLOCKED"
        BY <2>1, <2>2, <2>5, <2>6
    <3>2. Seen(n, Status(p)) \in {"ACCEPTED", "REJECTED", "EXECUTED"}
        BY <1>2, <2>6 DEF Seen
    <3>3. Agree(Seen(n, Status(p)), Seen(n, Decision(p)), Seen(n, EventStatus(p)))
        BY <3>1, <3>2 DEF Agree
    <3> QED
        BY <2>4, <2>6, <3>3
  <2>7. CASE p # o
    <3>1. Status(p) # Status(o)
        BY <1>3, <2>5, <2>7
    <3>2. /\ Seen(n, Status(p)) = Seen(t, Status(p)) /\ Seen(n, Decision(p)) = Seen(t, Decision(p))
          /\ Seen(n, EventStatus(p)) = Seen(t, EventStatus(p))
        BY <2>2, <2>5, <3>1
    <3> QED
        BY <2>1, <2>4, <2>7, <3>2
  <2> QED
      BY <2>6, <2>7
<1> QED
    BY <1>6, <1>7, <1>8, WorkStep DEF AloneOK

\* An order that is not executed gets a status and the session goes on.
LEMMA StatusStep ==
    ASSUME IInv, NEW r \in Requests, NEW o \in txn[r].todo, txn[r].step = "work",
           NEW status \in {"ACCEPTED", "REJECTED"}, UNCHANGED overlapped,
           Continue(r, Proceed(Assign([txn[r] EXCEPT !.todo = @ \ {o}], Status(o), status)))
    PROVE  StepOK
<1> DEFINE t == txn[r]
           d == [t EXCEPT !.todo = @ \ {o}]
           a == Assign(d, Status(o), status)
           n == Proceed(a)
<1>1. /\ TypeOK /\ TxnTypeOK(t) /\ TxnOK(r, t) /\ DOMAIN t = Fields /\ Running(r)
    BY SessionIs DEF Running
<1>2. /\ o \in Orders /\ Status(o) \in DOMAIN t.mem /\ Cash(terms[o].user) \in DOMAIN t.mem
      /\ terms[o].user \in Users /\ Cash(terms[o].user) # Status(o)
    BY <1>1, TermsTyped, ColumnsDiffer DEF TxnOK, TxnTypeOK
<1>3. /\ DOMAIN d = Fields /\ d.mem = t.mem /\ d.dirty = t.dirty /\ d.written = t.written
      /\ d.todo = t.todo \ {o} /\ d.quoted = t.quoted /\ d.fills = t.fills
    BY <1>1 DEF Fields
<1> HIDE DEF d, t
<1>4. /\ DOMAIN a = Fields /\ a.written = t.written /\ a.todo = t.todo \ {o}
      /\ a.quoted = t.quoted /\ a.fills = t.fills /\ DOMAIN a.mem = DOMAIN t.mem
      /\ \A c \in DOMAIN t.mem : a.mem[c] = IF c = Status(o) THEN status ELSE t.mem[c]
      /\ t.dirty \subseteq a.dirty /\ a.dirty \subseteq t.dirty \cup {Status(o)}
      /\ Status(o) \notin a.dirty => a.mem[Status(o)] = t.mem[Status(o)]
    BY <1>2, <1>3, AssignIs
<1> HIDE DEF a
<1>5. /\ DOMAIN n = Fields /\ n.mem = a.mem /\ n.dirty = a.dirty
      /\ n.written = t.written /\ n.todo = t.todo \ {o} /\ n.quoted = t.quoted
      /\ n.fills = t.fills
      /\ n.step \in {"work", "flush"} /\ (n.step = "flush" => n.dirty # {})
      /\ n.step = "work" /\ n.todo = {} => n.dirty = {}
    BY <1>4, ProceedIs
<1>6. Continue(r, n)
    BY DEF n, a, d, t
<1> HIDE DEF n
<1>7. n.mem[Cash(terms[o].user)] \in Nat
  <2>1. t.mem[Cash(terms[o].user)] \in Int /\ t.mem[Cash(terms[o].user)] >= 0
      BY <1>1, <1>2, ColumnsTyped DEF TxnTypeOK, TxnOK
  <2> QED
      BY <1>2, <1>4, <1>5, <2>1
<1>8. DOMAIN t.fills = DOMAIN n.fills /\ \A p \in DOMAIN n.fills : n.fills[p] \in Nat
    BY <1>1, <1>5 DEF TxnTypeOK
<1>9. n.mem[Status(o)] = status
    BY <1>2, <1>4, <1>5
<1>10. Cash(terms[o].user) \in n.dirty => Cash(terms[o].user) \in t.dirty
    BY <1>2, <1>4, <1>5
<1>11. \A c \in DOMAIN n.mem : c # Status(o) => n.mem[c] = t.mem[c]
    BY <1>4, <1>5
<1>12. n.dirty \subseteq t.dirty \cup {Status(o), Cash(terms[o].user)}
       /\ t.dirty \subseteq n.dirty /\ DOMAIN n.mem = DOMAIN t.mem
       /\ (Status(o) \notin n.dirty => n.mem[Status(o)] = t.mem[Status(o)])
    BY <1>4, <1>5
<1>13. BooksKept(r, t) => BooksKept(r, n)
  <2>1. Owner(r) = terms[o].user
      BY <1>1 DEF TxnOK, t
  <2>2. Seen(n, Cash(Owner(r))) = Seen(t, Cash(Owner(r)))
      BY <1>2, <1>4, <1>5, <2>1 DEF Seen
  <2>3. n.fills = t.fills /\ t.dirty \cup t.written \subseteq n.dirty \cup n.written
      BY <1>5, <1>12
  <2> QED
      BY <2>2, <2>3, BooksStay
<1> QED
    BY <1>1, <1>5, <1>6, <1>7, <1>8, <1>9, <1>10, <1>11, <1>12, <1>13, DoneStep DEF t

\* An order that is executed debits what the session has checked.
LEMMA FillStep ==
    ASSUME IInv, NEW r \in Requests, NEW o \in txn[r].todo, txn[r].step = "work",
           UNCHANGED overlapped, NEW d, d = [txn[r] EXCEPT !.todo = @ \ {o}],
           NEW cur, cur = d.mem[Price(terms[o].stock)],
           Funded(d, terms[o], cur), Continue(r, Fill(d, o, cur))
    PROVE  StepOK
<1> DEFINE t == txn[r]
           k == Cash(terms[o].user)
           paid == FillPrice(terms[o], cur) * terms[o].quantity
           cash == IF terms[o].side = "BUY" THEN d.mem[k] - paid ELSE d.mem[k] + paid
           b == Assign(d, k, cash)
           a == Assign(b, Status(o), "EXECUTED")
           e == [a EXCEPT !.fills = Extended(@, [x \in {o} |-> FillPrice(terms[o], cur)])]
           n == Flushing(e)
<1>1. Continue(r, n)
    BY DEF Fill
<1>2. /\ TypeOK /\ TxnTypeOK(t) /\ TxnOK(r, t) /\ DOMAIN t = Fields /\ Running(r)
    BY SessionIs DEF Running
<1>3. /\ o \in Orders /\ Status(o) \in DOMAIN t.mem /\ k \in DOMAIN t.mem
      /\ Price(terms[o].stock) \in DOMAIN t.mem
      /\ terms[o].user \in Users /\ terms[o].stock \in Stocks /\ k # Status(o)
    BY <1>2, TermsTyped, ColumnsDiffer DEF TxnOK, TxnTypeOK
<1>4. /\ DOMAIN d = Fields /\ d.mem = t.mem /\ d.dirty = t.dirty /\ d.written = t.written
      /\ d.todo = t.todo \ {o} /\ d.quoted = t.quoted /\ d.fills = t.fills
    BY <1>2 DEF Fields
<1>5. FillPrice(terms[o], cur) \in Nat /\ paid \in Nat
  <2>1. cur \in Prices
      BY <1>2, <1>3, <1>4, ColumnsTyped DEF TxnTypeOK
  <2> QED
      BY <1>2, <1>3, <2>1, FillPriceNat
<1>6. cash \in Nat
  <2>1. d.mem[k] \in Int /\ d.mem[k] >= 0
      BY <1>2, <1>3, <1>4, ColumnsTyped DEF TxnTypeOK, TxnOK
  <2>2. terms[o].side = "BUY" => paid <= d.mem[k]
      BY DEF Funded
  <2> QED
      BY <1>5, <2>1, <2>2
<1> HIDE DEF t, cash, paid
<1>7. /\ DOMAIN b = Fields /\ b.written = t.written /\ b.todo = t.todo \ {o}
      /\ b.quoted = t.quoted /\ b.fills = t.fills /\ DOMAIN b.mem = DOMAIN t.mem
      /\ \A c \in DOMAIN t.mem : b.mem[c] = IF c = k THEN cash ELSE t.mem[c]
      /\ t.dirty \subseteq b.dirty /\ b.dirty \subseteq t.dirty \cup {k}
      /\ k \notin b.dirty => b.mem[k] = t.mem[k]
  <2>1. k \in DOMAIN d.mem
      BY <1>3, <1>4
  <2>2. /\ DOMAIN b = Fields /\ b.written = d.written /\ b.todo = d.todo
        /\ b.quoted = d.quoted /\ b.fills = d.fills /\ DOMAIN b.mem = DOMAIN d.mem
        /\ \A c \in DOMAIN d.mem : b.mem[c] = IF c = k THEN cash ELSE d.mem[c]
        /\ d.dirty \subseteq b.dirty /\ b.dirty \subseteq d.dirty \cup {k}
        /\ k \notin b.dirty => b.mem[k] = d.mem[k]
      BY <1>4, <2>1 DEF Assign, Fields
  <2> HIDE DEF b
  <2> QED
      BY <1>4, <2>2
<1> HIDE DEF b
<1>8. /\ DOMAIN a = Fields /\ a.written = t.written /\ a.todo = t.todo \ {o}
      /\ a.quoted = t.quoted /\ a.fills = t.fills /\ DOMAIN a.mem = DOMAIN t.mem
      /\ \A c \in DOMAIN t.mem : a.mem[c] = IF c = Status(o) THEN "EXECUTED" ELSE b.mem[c]
      /\ b.dirty \subseteq a.dirty /\ a.dirty \subseteq b.dirty \cup {Status(o)}
      /\ Status(o) \notin a.dirty => a.mem[Status(o)] = b.mem[Status(o)]
    BY <1>3, <1>7, AssignIs
<1> HIDE DEF a
<1>9. /\ DOMAIN e = Fields /\ e.mem = a.mem /\ e.dirty = a.dirty /\ e.written = t.written
      /\ e.todo = t.todo \ {o} /\ e.quoted = t.quoted
      /\ e.fills = Extended(t.fills, [x \in {o} |-> FillPrice(terms[o], cur)])
    BY <1>8 DEF Fields
<1> HIDE DEF e
<1>10. /\ DOMAIN n = Fields /\ n.mem = a.mem /\ n.dirty = a.dirty /\ n.written = t.written
       /\ n.todo = t.todo \ {o} /\ n.quoted = t.quoted /\ n.fills = e.fills
       /\ n.step \in {"work", "flush"} /\ (n.step = "flush" <=> n.dirty # {})
    BY <1>9, FlushingIs
<1> HIDE DEF n
<1> DEFINE p == FillPrice(terms[o], cur)
           one == [x \in {o} |-> p]
<1>11. /\ DOMAIN n.fills = DOMAIN t.fills \cup {o}
       /\ \A x \in DOMAIN t.fills : n.fills[x] = t.fills[x] /\ t.fills[x] \in Nat
       /\ n.fills[o] = p
       /\ \A x \in DOMAIN n.fills : n.fills[x] \in Nat
  <2>1. DOMAIN one = {o} /\ one[o] = p
      OBVIOUS
  <2>2. n.fills = Extended(t.fills, one)
      BY <1>9, <1>10
  <2> HIDE DEF one, p
  <2>3. /\ DOMAIN n.fills = DOMAIN t.fills \cup {o}
        /\ \A x \in DOMAIN t.fills \cup {o} :
              n.fills[x] = IF x \in DOMAIN t.fills THEN t.fills[x] ELSE one[x]
      BY <2>1, <2>2 DEF Extended
  <2>4. o \notin DOMAIN t.fills
      BY <1>2 DEF TxnOK, t
  <2>5. \A x \in DOMAIN t.fills : t.fills[x] \in Nat
      BY <1>2 DEF TxnTypeOK
  <2>6. p \in Nat
      BY <1>5 DEF p
  <2> QED
      BY <2>1, <2>3, <2>4, <2>5, <2>6
<1> HIDE DEF one, p
<1>12. /\ n.mem[Status(o)] = "EXECUTED" /\ n.mem[k] = cash
       /\ \A c \in DOMAIN n.mem : c # Status(o) /\ c # k => n.mem[c] = t.mem[c]
       /\ DOMAIN n.mem = DOMAIN t.mem
    BY <1>3, <1>7, <1>8, <1>10
<1>13. /\ t.dirty \subseteq n.dirty /\ n.dirty \subseteq t.dirty \cup {Status(o), k}
       /\ Status(o) \notin n.dirty => n.mem[Status(o)] = t.mem[Status(o)]
    BY <1>3, <1>7, <1>8, <1>10
<1>14. BooksKept(r, t) => BooksKept(r, n)
  <2> SUFFICES ASSUME Kept(terms, executions, db, Owner(r), t)
               PROVE  Kept(terms, executions, db, Owner(r), n)
      BY BooksAre
  <2> DEFINE u == Owner(r)
             w == terms[o]
  <2>1. /\ w.user = u /\ u \in Users /\ o \notin DOMAIN t.fills
        /\ k = Cash(u)
      BY <1>2, <1>3 DEF TxnOK, t
  <2>2. /\ \A x \in Orders : executions[x] \in Seq(Nat)
        /\ \A x \in Orders : terms[x] \in Placeable
      BY <1>2, TermsTyped DEF TypeOK
  <2>3. OpeningCash[u] \in Int /\ \A s \in Stocks : OpeningShares[u][s] \in Int
      BY <2>1, OrderTxAssumption
  <2>4. n.mem[k] = IF w.side = "BUY" THEN t.mem[k] - p * w.quantity
                                     ELSE t.mem[k] + p * w.quantity
      BY <1>4, <1>12 DEF cash, paid, p
  <2>5. k \in DOMAIN t.mem /\ k \in DOMAIN n.mem
      BY <1>3, <1>12
  <2>6. k \notin n.dirty \cup n.written => n.mem[k] = db[k]
    <3>1. k \notin n.dirty => n.mem[k] = t.mem[k]
        BY <1>3, <1>7, <1>8, <1>10, <1>12
    <3>2. k \notin t.dirty \cup t.written => t.mem[k] = db[k]
        BY <1>3, <2>1 DEF Kept
    <3> QED
        BY <1>10, <1>13, <3>1, <3>2
  <2>7. w.side # "BUY" =>
            w.quantity <= HeldBy(terms, WithFills(executions, t), u, w.stock)
    <3>1. WithFills(executions, d) = WithFills(executions, t)
        BY <1>4 DEF WithFills
    <3> QED
        BY <2>1, <3>1, BooksAre DEF Funded, Position
  <2>8. p \in Nat
      BY <1>5 DEF p
  <2>9. /\ DOMAIN n.fills = DOMAIN t.fills \cup {o} /\ n.fills[o] = p
        /\ \A x \in DOMAIN t.fills : n.fills[x] = t.fills[x]
        /\ \A x \in DOMAIN t.fills : t.fills[x] \in Nat
      BY <1>11
  <2> HIDE DEF u, k
  <2> SUFFICES Kept(terms, executions, db, u, n)
      BY DEF u
  <2>10. Kept(terms, executions, db, u, t)
      BY DEF u
  <2> QED
      BY <1>3, <2>1, <2>2, <2>3, <2>4, <2>5, <2>6, <2>7, <2>8, <2>9, <2>10, KeptFill
<1> QED
    BY <1>1, <1>2, <1>6, <1>10, <1>11, <1>12, <1>13, <1>14, DoneStep DEF t, k

LEMMA ExecuteStep ==
    ASSUME IInv, NEW r \in Requests, Execute(r), UNCHANGED overlapped
    PROVE  StepOK
<1>1. PICK o \in Upcoming(txn[r]) :
          LET w == terms[o]
              d == [txn[r] EXCEPT !.todo = @ \ {o}]
              cur == d.mem[Price(w.stock)]
          IN  /\ txn[r].step = "work"
              /\ \/ ~Marketable(w, cur) /\ Continue(r, Proceed(Assign(d, Status(o), "ACCEPTED")))
                 \/ Marketable(w, cur) /\ Funded(d, w, cur) /\ Continue(r, Fill(d, o, cur))
                 \/ /\ Marketable(w, cur) /\ ~Funded(d, w, cur)
                    /\ Continue(r, IF Kind(r) = "refresh"
                                   THEN Proceed(Assign(d, Status(o), "REJECTED"))
                                   ELSE Ended)
    BY DEF Execute
<1> DEFINE d == [txn[r] EXCEPT !.todo = @ \ {o}]
           cur == d.mem[Price(terms[o].stock)]
<1>2. o \in txn[r].todo /\ txn[r].step = "work"
    BY <1>1 DEF Upcoming
<1>3. CASE Continue(r, Proceed(Assign(d, Status(o), "ACCEPTED")))
    BY <1>2, <1>3, StatusStep
<1>4. CASE Funded(d, terms[o], cur) /\ Continue(r, Fill(d, o, cur))
    BY <1>2, <1>4, FillStep
<1>5. CASE Continue(r, Proceed(Assign(d, Status(o), "REJECTED")))
    BY <1>2, <1>5, StatusStep
<1>6. CASE Continue(r, Ended)
    BY <1>6, EndStep
<1> QED
    BY <1>1, <1>3, <1>4, <1>5, <1>6

----------------------------------------------------------------------------
\* Every behaviour

LEMMA InitOK == Init => IInv
<1> SUFFICES ASSUME Init PROVE IInv
    OBVIOUS
<1>1. PICK start \in [Orders -> Waiting], market \in [Stocks -> Prices] :
          db = Database(start, market)
    BY DEF Init
<1>2. \A r \in Requests : txn[r] = NewTxn
    BY DEF Init
<1>3. \A c \in Columns : db[c] \in TypeOfColumn(c)
  <2>1. \A s \in Stocks : db[Price(s)] = market[s]
      BY <1>1 DEF Database, Columns, Price
  <2>2. \A u \in Users : db[Cash(u)] = OpeningCash[u]
      BY <1>1 DEF Database, Columns, Cash
  <2>3. \A o \in Orders : /\ db[Status(o)] = start[o].status
                          /\ db[Decision(o)] = start[o].decision
                          /\ db[EventStatus(o)] = start[o].event
      BY <1>1 DEF Database, Columns, Status, Decision, EventStatus
  <2>4. \A o \in Orders : /\ start[o].status \in OrderStatus \cup {None}
                          /\ start[o].decision \in RiskDecision \cup {None}
                          /\ start[o].event \in RiskEventStatus \cup {None}
      BY DEF Waiting, OrderStatus, RiskDecision, RiskEventStatus
  <2> QED
      BY <2>1, <2>2, <2>3, <2>4, ColumnsTyped, OrderTxAssumption DEF Columns
<1>4. TypeOK
  <2>1. TxnTypeOK(NewTxn)
      BY TxnFields DEF TxnTypeOK
  <2>2. DOMAIN db = Columns
      BY <1>1 DEF Database
  <2>3. executions \in [Orders -> Seq(Nat)]
      BY DEF Init
  <2> QED
      BY <1>2, <1>3, <2>1, <2>2, <2>3 DEF TypeOK, Init
<1>5. NoOverdraft
  <2>1. \A u \in Users : db[Cash(u)] = OpeningCash[u]
      BY <1>1 DEF Database, Columns, Cash
  <2> QED
      BY <2>1, OrderTxAssumption DEF NoOverdraft
<1>6. ExecutedHasTraded /\ StatusMatchesDecision
  <2>1. \A o \in Orders : /\ db[Status(o)] = start[o].status
                          /\ db[Decision(o)] = start[o].decision
                          /\ db[EventStatus(o)] = start[o].event
      BY <1>1 DEF Database, Columns, Status, Decision, EventStatus
  <2>2. \A x \in Waiting : x.status # "EXECUTED" /\ Agree(x.status, x.decision, x.event)
      BY DEF Waiting, Agree, None
  <2>3. \A o \in Orders : /\ start[o].status # "EXECUTED"
                          /\ Agree(start[o].status, start[o].decision, start[o].event)
      BY <2>2
  <2>4. ExecutedHasTraded
      BY <2>1, <2>3 DEF ExecutedHasTraded
  <2>5. StatusMatchesDecision
      BY <2>1, <2>3 DEF StatusMatchesDecision
  <2> QED
      BY <2>4, <2>5
<1>7. \A r \in Requests : TxnOK(r, txn[r]) /\ ~Running(r)
    BY <1>2, TxnFields DEF TxnOK, Running
<1>8. LedgerBalanced /\ NoShortPosition
  <2>1. \A o \in Orders : executions[o] = <<>>
      BY DEF Init
  <2>2. \A u \in Users : db[Cash(u)] = OpeningCash[u]
      BY <1>1 DEF Database, Columns, Cash
  <2>3. \A u \in Users : /\ OpeningCash[u] \in Nat
                         /\ \A s \in Stocks : OpeningShares[u][s] \in Nat
      BY OrderTxAssumption
  <2>4. \A u \in Users : /\ BalanceBy(terms, executions, u) = OpeningCash[u]
                         /\ \A s \in Stocks : HeldBy(terms, executions, u, s) = OpeningShares[u][s]
      BY <1>4, <2>1, <2>3, BooksOpen
  <2>5. Undisturbed \subseteq Users /\ \A n \in Nat : n >= 0
      BY DEF Undisturbed
  <2>6. LedgerBalanced
      BY <2>2, <2>4, <2>5, BooksAre
  <2>7. NoShortPosition
      BY <2>3, <2>4, <2>5, BooksAre
  <2> QED
      BY <2>6, <2>7
<1> QED
    BY <1>4, <1>5, <1>6, <1>7, <1>8 DEF IInv

\* One step per action.
LEMMA NextOK == IInv /\ [Next]_vars => StepOK
<1> SUFFICES ASSUME IInv, [Next]_vars PROVE StepOK
    OBVIOUS
<1>1. ASSUME NEW r \in Requests, Begin(r)
      PROVE  StepOK
    BY <1>1, RefreshBegins, CancelBegins, ApproveBegins, BlockBegins, SubmitBegins DEF Begin
<1>2. ASSUME NEW r \in Requests, Work(r)
      PROVE  StepOK
    BY <1>2, QuoteStep, ExecuteStep, WriteStep, CommitStep DEF Work
<1>3. ASSUME NEW r \in Requests, AbortDeadlocked(r)
      PROVE  StepOK
    BY <1>3, EndStep DEF AbortDeadlocked
<1>4. CASE UNCHANGED vars
  <2>1. /\ UNCHANGED <<terms, job, db, executions, txn, overlapped>>
      BY <1>4 DEF vars
  <2>2. TypeOK'
      BY <2>1 DEF IInv, TypeOK
  <2>3. (NoOverdraft /\ ExecutedHasTraded /\ StatusMatchesDecision)' /\ MoneyOK
      BY <2>1 DEF IInv, NoOverdraft, ExecutedHasTraded, StatusMatchesDecision, Undisturbed, MoneyOK
  <2>4. (LedgerBalanced /\ NoShortPosition)'
      BY <2>1, BooksAre, BooksAreNext DEF IInv, Undisturbed
  <2>5. \A r \in Requests : Owner(r)' = Owner(r)
      BY <2>1 DEF Owner, Kind
  <2>6. \A r \in Requests : BooksKept(r, txn[r]) => BooksKept(r, txn[r])'
      BY <2>1, <2>5, BooksAre, BooksAreNext
  <2>7. \A r \in Requests :
            (TxnOK(r, txn[r]))' /\ (Running(r) /\ Owner(r) \in Undisturbed => AloneOK(r, txn[r]))'
    <3>1. \A r \in Requests : TxnOK(r, txn[r])'
        BY <2>1 DEF IInv, TxnOK, Owner, Kind
    <3>2. \A r \in Requests : OrdersAgree(r, txn[r]) => OrdersAgree(r, txn[r])'
        BY <2>1 DEF OrdersAgree, Seen, Owner, Kind
    <3>3. \A r \in Requests :
              (Running(r) /\ Owner(r) \in Undisturbed)' => Running(r) /\ Owner(r) \in Undisturbed
        BY <2>1, <2>5 DEF Running, Undisturbed
    <3> QED
        BY <2>6, <3>1, <3>2, <3>3 DEF IInv, AloneOK
  <2>8. (\A r, other \in Requests :
            r # other /\ Running(r) /\ Running(other) /\ Owner(r) = Owner(other)
                => Owner(r) \in overlapped)'
      BY <2>1 DEF IInv, Owner, Kind, Running
  <2> QED
      BY <2>2, <2>3, <2>4, <2>7, <2>8 DEF StepOK, IInv
<1> QED
    BY <1>1, <1>2, <1>3, <1>4 DEF Next, AllEnded

----------------------------------------------------------------------------
\* Nobody is stuck.  Liveness is out of reach of the proofs, but not that some
\* request that runs can always go on, on which it rests.

\* Request r has an action of its own to take: the guards of Commit, Quote,
\* Execute and Write, which is ENABLED Work(r) written out.
CanWork(r) ==
    LET t == txn[r] IN
    \/ t.step = "work" /\ t.todo = {}
    \/ /\ t.step = "work" /\ Kind(r) = "refresh"
       /\ \E o \in Upcoming(t) : terms[o].stock \notin t.quoted
    \/ /\ t.step = "work"
       /\ \E o \in Upcoming(t) : Kind(r) = "refresh" => terms[o].stock \in t.quoted
    \/ t.step = "flush" /\ \A other \in Requests : ~WaitsFor(r, other)

\* While requests run, one of them can work or is in a cycle of waits, which
\* the database breaks: row locks alone never stop everybody.
SomebodyMoves ==
    (\E r \in Requests : Running(r)) =>
        \E r \in Requests : Running(r) /\ (CanWork(r) \/ Deadlocked(r))

\* A request that does not run has no row locked.
LocksReleased == \A r \in Requests : ~Running(r) => txn[r].written = {}

\* A transaction that is not over has a next order while it has any.
LEMMA UpcomingExists ==
    ASSUME NEW t, t.todo \subseteq Orders, t.todo # {}
    PROVE  \E o \in t.todo : o \in Upcoming(t)
<1> DEFINE T == {1..n : n \in t.todo}
<1>1. T \in SUBSET (SUBSET Orders) /\ T # {} /\ IsFiniteSet(Orders)
  <2>1. \A n \in t.todo : 1..n \in SUBSET Orders
      BY OrderTxAssumption DEF Orders
  <2>2. IsFiniteSet(Orders)
      BY OrdersFinite
  <2> QED
      BY <2>1, <2>2
<1>2. \A A \in T : \E n \in t.todo : A = 1..n
    OBVIOUS
<1>3. \A n \in t.todo : 1..n \in T
    OBVIOUS
<1> HIDE DEF T
<1>4. PICK A \in T : \A B \in T : B \subseteq A => B = A
    BY <1>1, LeastSubset
<1>5. PICK n \in t.todo : A = 1..n
    BY <1>2
<1>6. ASSUME NEW m \in t.todo
      PROVE  n <= m
  <2>1. n \in Nat /\ m \in Nat /\ 1 <= n
      BY OrderTxAssumption DEF Orders
  <2> SUFFICES ASSUME m < n PROVE FALSE
      BY <2>1
  <2>2. 1..m \subseteq 1..n /\ n \in 1..n /\ n \notin 1..m
      BY <2>1
  <2> QED
      BY <1>3, <1>4, <1>5, <2>2
<1> QED
    BY <1>6 DEF Upcoming

\* Requests each of which waits for another of them have a cycle among them:
\* in a least set of that kind every one is waited for as well.
LEMMA WaitsHaveACycle ==
    ASSUME IsFiniteSet(Requests), NEW W \in SUBSET Requests, W # {},
           \A x \in W : \E y \in W : WaitsFor(x, y)
    PROVE  \E r \in W : Deadlocked(r)
<1> DEFINE Closed(A) == A # {} /\ \A x \in A : \E y \in A : WaitsFor(x, y)
           T == {A \in SUBSET W : Closed(A)}
<1>1. T \in SUBSET (SUBSET Requests) /\ W \in T
    OBVIOUS
<1>2. \A A : A \in T <=> A \in SUBSET W /\ Closed(A)
    OBVIOUS
<1> HIDE DEF T
<1>3. PICK A \in T : \A B \in T : B \subseteq A => B = A
    BY <1>1, LeastSubset
<1>4. A \subseteq W /\ Closed(A)
    BY <1>2
<1>5. ASSUME NEW x \in A
      PROVE  \E y \in A : WaitsFor(y, x)
  <2> SUFFICES ASSUME \A y \in A : ~WaitsFor(y, x) PROVE FALSE
      OBVIOUS
  <2>1. \A y \in A \ {x} : \E z \in A \ {x} : WaitsFor(y, z)
      BY <1>4
  <2>2. A \ {x} # {}
      BY <1>4 DEF WaitsFor
  <2>3. A \ {x} \in T
      BY <1>2, <1>4, <2>1, <2>2
  <2> QED
      BY <1>3, <2>3
<1>6. PICK r \in A : TRUE
    BY <1>4
<1>7. Deadlocked(r)
    BY <1>4, <1>5, <1>6 DEF Deadlocked
<1> QED
    BY <1>4, <1>6, <1>7

\* What a step makes of a transaction: it runs, or holds nothing.
LEMMA LocksKept ==
    ASSUME LocksReleased, TypeOK, NEW r \in Requests, NEW n, txn' = [txn EXCEPT ![r] = n],
           n.step \in {"work", "flush"} \/ n = Ended
    PROVE  LocksReleased'
<1>1. txn'[r] = n /\ \A x \in Requests \ {r} : txn'[x] = txn[x]
    BY DEF TypeOK
<1> QED
    BY <1>1, EndedIs DEF LocksReleased, Running

\* Loading and assigning leave a session its fields, and it flushes or works on.
LEMMA FieldsKept ==
    ASSUME NEW t, DOMAIN t = Fields
    PROVE  /\ \A S : DOMAIN Load(t, S) = Fields
           /\ \A c, v : DOMAIN Assign(t, c, v) = Fields
           /\ Flushing(t).step \in {"work", "flush"}
           /\ Proceed(t).step \in {"work", "flush"}
<1>1. \A S : DOMAIN Load(t, S) = Fields
    BY DEF Load
<1>2. \A c, v : DOMAIN Assign(t, c, v) = Fields
    BY DEF Assign
<1> QED
    BY <1>1, <1>2, FlushingIs, ProceedIs

\* A request begins by running, or is over at once.
LEMMA LocksBegin ==
    ASSUME LocksReleased, TypeOK, NEW r \in Requests, Begin(r)
    PROVE  LocksReleased'
<1> SUFFICES \E n : txn' = [txn EXCEPT ![r] = n] /\ (n.step \in {"work", "flush"} \/ n = Ended)
    BY LocksKept
<1> DEFINE o == job[r].order
<1>1. DOMAIN NewTxn = Fields /\ "step" \in Fields
    BY TxnFields DEF Fields
<1>2. \A S : DOMAIN Load(NewTxn, S) = Fields
    BY <1>1, FieldsKept
<1>3. CASE BeginRefresh(r)
  <2>1. \A S, w : [Load(NewTxn, S) EXCEPT !.step = "work", !.todo = w].step = "work"
      BY <1>1, <1>2
  <2> QED
      BY <1>3, <2>1 DEF BeginRefresh, Continue
<1>4. CASE BeginCancel(r)
  <2> DEFINE t == Assign(Load(NewTxn, {Status(o)}), Status(o), "CANCELLED")
  <2>1. Flushing(t).step \in {"work", "flush"}
      BY <1>2, FieldsKept
  <2>2. txn' = [txn EXCEPT ![r] = Flushing(t)] \/ txn' = [txn EXCEPT ![r] = Ended]
      BY <1>4 DEF BeginCancel, Continue
  <2> QED
      BY <2>1, <2>2
<1>5. \A decision, eventStatus : DOMAIN SetEvent(Reviewed(o), o, decision, eventStatus) = Fields
  <2>1. DOMAIN Reviewed(o) = Fields
      BY <1>2 DEF Reviewed
  <2> QED
      BY <2>1, FieldsKept DEF SetEvent
<1>6. CASE BeginApprove(r)
  <2> DEFINE e == SetEvent(Reviewed(o), o, "ALLOW", "APPROVED")
  <2>1. txn' = [txn EXCEPT ![r] = [e EXCEPT !.step = "work", !.todo = {o}]]
        \/ txn' = [txn EXCEPT ![r] = Flushing(e)]
      BY <1>6 DEF BeginApprove, Continue
  <2>2. DOMAIN e = Fields
      BY <1>5
  <2> HIDE DEF e
  <2>3. [e EXCEPT !.step = "work", !.todo = {o}].step = "work"
      BY <1>1, <2>2
  <2> QED
      BY <2>1, <2>2, <2>3, FieldsKept
<1>7. CASE BeginBlock(r)
  <2> DEFINE b == Assign(SetEvent(Reviewed(o), o, "BLOCKED", "BLOCKED"), Status(o), "BLOCKED")
  <2>1. txn' = [txn EXCEPT ![r] = Flushing(b)]
      BY <1>7 DEF BeginBlock, Continue
  <2>2. DOMAIN b = Fields
      BY <1>5, FieldsKept
  <2> HIDE DEF b
  <2> QED
      BY <2>1, <2>2, FieldsKept
<1>8. CASE BeginSubmit(r)
  <2> DEFINE inserted == [c \in {Status(o), Decision(o), EventStatus(o)} |->
                             CASE c = Status(o) -> "PENDING"
                               [] c = Decision(o) -> "ALLOW"
                               [] c = EventStatus(o) -> "AUTO_ALLOWED"]
             l == Load(NewTxn, {Price(terms[o].stock), Cash(terms[o].user)})
             n == [l EXCEPT !.step = "work", !.mem = Extended(@, inserted),
                            !.written = DOMAIN inserted, !.todo = {o}]
  <2>1. Continue(r, n)
      BY <1>8 DEF BeginSubmit
  <2>2. DOMAIN l = Fields
      BY <1>2
  <2> HIDE DEF l, inserted
  <2>3. n.step = "work"
      BY <1>1, <2>2
  <2> HIDE DEF n
  <2> QED
      BY <2>1, <2>3 DEF Continue
<1> QED
    BY <1>3, <1>4, <1>6, <1>7, <1>8 DEF Begin

\* A step of a transaction that goes on leaves it running, one that ends it
\* releases what it holds.
LEMMA LocksStep ==
    ASSUME LocksReleased, TypeOK, NEW r \in Requests, Work(r) \/ AbortDeadlocked(r)
    PROVE  LocksReleased'
<1> SUFFICES \E n : txn' = [txn EXCEPT ![r] = n] /\ (n.step \in {"work", "flush"} \/ n = Ended)
    BY LocksKept
<1>1. DOMAIN txn[r] = Fields
    BY TxnFields DEF TypeOK, TxnTypeOK
<1>2. CASE Quote(r)
  <2>1. PICK s : \/ Continue(r, [txn[r] EXCEPT !.quoted = txn[r].quoted \cup {s}])
                 \/ \E p \in Prices :
                       Continue(r, Flushing(Assign([txn[r] EXCEPT !.quoted = txn[r].quoted \cup {s}],
                                                   Price(s), p)))
      BY <1>2 DEF Quote
  <2>2. txn[r].step = "work"
      BY <1>2 DEF Quote
  <2> DEFINE q == [txn[r] EXCEPT !.quoted = txn[r].quoted \cup {s}]
  <2>3. DOMAIN q = Fields /\ q.step = "work"
      BY <1>1, <2>2 DEF Fields
  <2> HIDE DEF q
  <2>4. \A p : Flushing(Assign(q, Price(s), p)).step \in {"work", "flush"}
      BY <2>3, FieldsKept
  <2>5. Continue(r, q) \/ \E p \in Prices : Continue(r, Flushing(Assign(q, Price(s), p)))
      BY <2>1 DEF q
  <2> QED
      BY <2>3, <2>4, <2>5 DEF Continue
<1>3. CASE Execute(r)
  <2>1. PICK o : \/ Continue(r, Proceed(Assign([txn[r] EXCEPT !.todo = txn[r].todo \ {o}],
                                               Status(o), "ACCEPTED")))
                 \/ \E cur : Continue(r, Fill([txn[r] EXCEPT !.todo = txn[r].todo \ {o}], o, cur))
                 \/ Continue(r, Proceed(Assign([txn[r] EXCEPT !.todo = txn[r].todo \ {o}],
                                               Status(o), "REJECTED")))
                 \/ Continue(r, Ended)
      BY <1>3 DEF Execute
  <2> DEFINE d == [txn[r] EXCEPT !.todo = txn[r].todo \ {o}]
  <2>2. DOMAIN d = Fields
      BY <1>1
  <2> HIDE DEF d
  <2>3. \A v : Proceed(Assign(d, Status(o), v)).step \in {"work", "flush"}
      BY <2>2, FieldsKept
  <2>4. \A cur : Fill(d, o, cur).step \in {"work", "flush"}
    <3> TAKE cur
    <3> DEFINE f(a) == [a EXCEPT !.fills =
                    Extended(a.fills, [x \in {o} |-> FillPrice(terms[o], cur)])]
    <3>1. \E c, v : Fill(d, o, cur) =
                        Flushing(f(Assign(Assign(d, c, v), Status(o), "EXECUTED")))
        BY DEF Fill
    <3>2. \A a : DOMAIN f(a) = DOMAIN a
        OBVIOUS
    <3> HIDE DEF f
    <3> QED
        BY <2>2, <3>1, <3>2, FieldsKept
  <2>5. \/ Continue(r, Proceed(Assign(d, Status(o), "ACCEPTED")))
        \/ \E cur : Continue(r, Fill(d, o, cur))
        \/ Continue(r, Proceed(Assign(d, Status(o), "REJECTED")))
        \/ Continue(r, Ended)
      BY <2>1 DEF d
  <2> QED
      BY <2>3, <2>4, <2>5 DEF Continue
<1>4. CASE Write(r)
  <2>1. \A S, T : \A w \in {"work", "flush"} :
            [txn[r] EXCEPT !.written = S, !.dirty = T, !.step = w].step = w
      BY <1>1 DEF Fields
  <2> QED
      BY <1>4, <2>1 DEF Write, Continue
<1>5. CASE Commit(r)
    BY <1>5 DEF Commit
<1>6. CASE AbortDeadlocked(r)
    BY <1>6 DEF AbortDeadlocked, Continue
<1> QED
    BY <1>2, <1>3, <1>4, <1>5, <1>6 DEF Work

\* Every step keeps that only requests that run hold rows.
LEMMA LocksNext ==
    ASSUME IInv, LocksReleased, [Next]_vars
    PROVE  LocksReleased'
<1>0. TypeOK
    BY DEF IInv
<1>1. CASE UNCHANGED vars
    BY <1>1 DEF vars, LocksReleased, Running
<1>2. CASE \E r \in Requests : Begin(r)
    BY <1>0, <1>2, LocksBegin
<1>3. CASE \E r \in Requests : Work(r) \/ AbortDeadlocked(r)
    BY <1>0, <1>3, LocksStep
<1> QED
    BY <1>1, <1>2, <1>3 DEF Next, AllEnded

\* A request that cannot go on waits to flush.
LEMMA StoppedFlushes ==
    ASSUME TypeOK, NEW r \in Requests, Running(r), ~CanWork(r)
    PROVE  txn[r].step = "flush" /\ \E other \in Requests : WaitsFor(r, other)
<1> DEFINE t == txn[r]
<1>1. t.step \in {"work", "flush"} /\ t.todo \subseteq Orders
    BY DEF TypeOK, TxnTypeOK, Running
<1>2. ASSUME t.step = "work" PROVE FALSE
  <2>1. t.todo # {}
      BY <1>2 DEF CanWork
  <2>2. PICK o \in t.todo : o \in Upcoming(t)
      BY <1>1, <2>1, UpcomingExists
  <2> QED
      BY <1>2, <2>2 DEF CanWork
<1> QED
    BY <1>1, <1>2 DEF CanWork

\* While some request runs, either one that runs has an action to take or the
\* database has a deadlock to break.
LEMMA Moving ==
    ASSUME IsFiniteSet(Requests), TypeOK, LocksReleased
    PROVE  SomebodyMoves
<1> SUFFICES ASSUME \E r \in Requests : Running(r),
                    \A r \in Requests : Running(r) => ~CanWork(r) /\ ~Deadlocked(r)
             PROVE  FALSE
    BY DEF SomebodyMoves
<1> DEFINE W == {r \in Requests : Running(r)}
<1>1. W \in SUBSET Requests /\ W # {}
    OBVIOUS
<1>2. ASSUME NEW x \in W
      PROVE  \E y \in W : WaitsFor(x, y)
  <2>1. PICK y \in Requests : WaitsFor(x, y)
      BY StoppedFlushes
  <2>2. txn[y].written # {}
      BY <2>1 DEF WaitsFor, Holds
  <2>3. y \in W
      BY <2>2 DEF LocksReleased
  <2> QED
      BY <2>1, <2>3
<1> HIDE DEF W
<1>3. \E r \in W : Deadlocked(r)
    BY <1>1, <1>2, WaitsHaveACycle
<1> QED
    BY <1>3 DEF W

----------------------------------------------------------------------------
\* The inductive invariant holds in every behaviour: the type invariant, and
\* what the sessions of overlapping requests have of the rows they share.
THEOREM Invariance == Spec => []IInv
<1>1. IInv /\ [Next]_vars => IInv'
    BY NextOK DEF StepOK
<1> QED
    BY InitOK, <1>1, PTL DEF Spec

\* No balance goes negative: every session checks the balance it writes.
THEOREM NeverOverdrawn == Spec => []NoOverdraft
<1>1. IInv => NoOverdraft
    BY DEF IInv
<1> QED
    BY Invariance, <1>1, PTL

\* An order shown as EXECUTED has an execution, whatever overlapped.
THEOREM ExecutedTraded == Spec => []ExecutedHasTraded
<1>1. IInv => ExecutedHasTraded
    BY DEF IInv
<1> QED
    BY Invariance, <1>1, PTL

\* Order status, decision and event status agree for every user about whom
\* no two requests have overlapped, whatever others do.
THEOREM StatusAgrees == Spec => []StatusMatchesDecision
<1>1. IInv => StatusMatchesDecision
    BY DEF IInv
<1> QED
    BY Invariance, <1>1, PTL

\* The balance that the sessions of one user overwrite, each with what it
\* computed from what it loaded, is the opening balance with the executions
\* of the user's orders, unless two requests about the user have overlapped;
\* requests about other users, and refreshes that write the same prices, do
\* not matter.
THEOREM LedgerBalances == Spec => []LedgerBalanced
<1>1. IInv => LedgerBalanced
    BY DEF IInv
<1> QED
    BY Invariance, <1>1, PTL

\* No user sells more shares than the opening holding and the executions
\* bring, unless two requests about the user have overlapped.
THEOREM NeverShort == Spec => []NoShortPosition
<1>1. IInv => NoShortPosition
    BY DEF IInv
<1> QED
    BY Invariance, <1>1, PTL

\* A step that changes a balance commits an execution of the same user.
THEOREM MoneyMoves == Spec => MoneyMovesWithTrades
<1>1. IInv /\ [Next]_vars => [MoneyOK]_vars
    BY NextOK DEF StepOK
<1> QED
    BY Invariance, <1>1, PTL DEF Spec, MoneyMovesWithTrades, MoneyOK

\* However many requests overlap and whatever rows they hold, they never all
\* stand still: while one runs, one of them has an action to take, or waits in
\* a cycle that the database breaks.
THEOREM NobodyIsStuck ==
    ASSUME IsFiniteSet(Requests)
    PROVE  Spec => []SomebodyMoves
<1>1. Init => LocksReleased
  <2>1. Init => \A r \in Requests : txn[r] = NewTxn
      BY DEF Init
  <2> QED
      BY <2>1, TxnFields DEF LocksReleased
<1>2. IInv /\ LocksReleased /\ [Next]_vars => LocksReleased'
    BY LocksNext
<1>3. IInv /\ LocksReleased => SomebodyMoves
    BY Moving DEF IInv
<1> QED
    BY <1>1, <1>2, <1>3, Invariance, PTL DEF Spec
=============================================================================
