----------------------------- MODULE LabProofs -----------------------------
(***************************************************************************)
(* Proofs of the properties of Lab, for any users, devices, stocks, sizes  *)
(* of the windows and bounds: the rules that never hit, the pairs that are *)
(* noticed, and what becomes of the orders of a transaction.               *)
(*                                                                         *)
(* Steps are grouped by what they do to the table of orders: nothing,      *)
(* submit one (Evaluate), end a transaction (EndOf), change a status.      *)
(***************************************************************************)
EXTENDS Lab, FiniteSetTheorems, TLAPS

----------------------------------------------------------------------------
\* The rules and the score

\* Reasons too long for the column belong to an order that is blocked.
LEMMA TooManyReasonsBlock ==
    ASSUME NEW hits, ~SummaryFits(hits)
    PROVE  Decision(hits) = "BLOCKED"
<1>1. SumOver(hits, ReasonLength) > 258
    <2>1. SumOver(hits, ReasonLength) \in Int
        BY DEF SumOver, ReasonLength
    <2> QED
        BY <2>1 DEF SummaryFits
<1>2. TotalScore(hits) \in Int /\ TotalScore(hits) >= 80
    BY <1>1 DEF TotalScore, SumOver, ReasonLength, Score
<1> QED
    BY <1>2 DEF Decision, RiskBand

\* A large order on the watchlist is blocked, whatever else hits it.
LEMMA LargeWatchlistOrderBlocked ==
    ASSUME NEW hits, "WATCHLIST_STOCK_ORDER" \in hits, "HIGH_AMOUNT_SPIKE" \in hits
    PROVE  Decision(hits) = "BLOCKED"
<1>1. TotalScore(hits) \in Int /\ TotalScore(hits) >= 80
    BY DEF TotalScore, SumOver, Score
<1> QED
    BY <1>1 DEF Decision, RiskBand

\* The decision is one of three, and each gives the order a status that the
\* rules count for its peers.
LEMMA OutcomesAreListed ==
    ASSUME NEW hits, NEW onSession \in BOOLEAN
    PROVE  Outcomes(Decision(hits), onSession) \subseteq Listed
BY DEF Outcomes, Decision, RiskBand, Listed

\* A table of no rows counts to zero.
LEMMA NoneCounted ==
    ASSUME NoFailureKept, NEW u, NEW window
    PROVE  Recent(u, "LOGIN_FAILED", window) = 0
<1>1. {r \in rows : r.user = u /\ r.kind = "LOGIN_FAILED" /\ now - r.at <= window} = {}
    BY DEF NoFailureKept
<1> QED
    BY <1>1, FS_EmptySet DEF Recent

\* One peer is enough.
LEMMA PeerCounts ==
    ASSUME NEW u, NEW d, NEW s, NEW ip, NEW abnormal, NEW amount, NEW tx,
           NEW a \in Peers(u, s, ip, tx)
    PROVE  "SAME_IP_MULTI_ACCOUNT"
               \in Hits(EvidenceOn(u, d, s, ip, abnormal, amount, tx))
<1> DEFINE peers == Peers(u, s, ip, tx)
<1>1. MaxOrders \in Nat
    BY ScreeningInstance
<1>2. IsFiniteSet(OrderIds)
    BY <1>1, FS_Interval DEF OrderIds
<1>3. IsFiniteSet(peers)
    BY <1>2, FS_Subset DEF Peers
<1>4. Cardinality(peers) \in Nat /\ Cardinality(peers) # 0
    BY <1>3, FS_CardinalityType, FS_EmptySet
<1> QED
    BY <1>4 DEF Hits, Fires, EvidenceOn, Rules

\* Two rules need evidence no order on a session comes with.
LEMMA TwoRulesIdle ==
    ASSUME NoFailureKept, SessionsAreSeen,
           NEW u, NEW d, <<u, d>> \in session,
           NEW s, NEW ip, NEW abnormal, NEW amount, NEW tx
    PROVE  Hits(EvidenceOn(u, d, s, ip, abnormal, amount, tx))
               \cap {"NEW_DEVICE_HIGH_AMOUNT", "FAILED_LOGIN_THEN_ORDER"} = {}
<1>1. <<u, d>> \in seen
    BY DEF SessionsAreSeen
<1>2. Recent(u, "LOGIN_FAILED", FailureWindow) = 0
    BY NoneCounted
<1> DEFINE e == EvidenceOn(u, d, s, ip, abnormal, amount, tx)
<1>3. e.newDevice = FALSE /\ e.failures = 0
    BY <1>1, <1>2 DEF EvidenceOn
<1>4. ~Fires("NEW_DEVICE_HIGH_AMOUNT", e)
    BY <1>3 DEF Fires
<1>5. ~Fires("FAILED_LOGIN_THEN_ORDER", e)
    BY <1>3 DEF Fires
<1> QED
    BY <1>4, <1>5 DEF Hits

----------------------------------------------------------------------------
\* The invariant at the start, and under the steps that leave orders alone

LEMMA InitIInv == LabInit => IInv
<1> SUFFICES ASSUME LabInit PROVE IInv
    OBVIOUS
<1>1. MaxOrders \in Nat /\ MaxTime \in Nat
    BY ScreeningInstance
<1>2. \A o \in OrderIds : order[o] = NoOrder /\ o \notin In("LOST")
    BY DEF LabInit, Init, In, NoOrder, None
<1>3. TypeOK
    BY <1>1, <1>2, FS_EmptySet DEF LabInit, Init, TypeOK, Times, OrderIds
<1>4. IdleRules /\ HeldIsNeverLost /\ OrdersAreScreened /\ PairsAreSeen
    BY <1>2 DEF IdleRules, HeldIsNeverLost, OrdersAreScreened, PairsAreSeen, In
<1>5. SessionsAreSeen /\ NoFailureKept /\ ScenarioOwnsItsOrders
    BY <1>2 DEF LabInit, Init, SessionsAreSeen, NoFailureKept, ScenarioOwnsItsOrders
<1> QED
    BY <1>3, <1>4, <1>5 DEF IInv

\* What the conjuncts about orders read.
OrderVars == <<order, nextOrder, met, withdrawn, lab, finished>>

\* A step that leaves the orders alone has only the evidence to keep in order.
LEMMA EvidenceStep ==
    ASSUME IInv, UNCHANGED OrderVars,
           now' \in Times, now <= now',
           seen \subseteq seen', seen' \subseteq Users \X Devices,
           session' \subseteq seen', succeeded' \subseteq Users,
           IsFiniteSet(rows'),
           \A r \in rows' : \/ r \in rows
                            \/ /\ r \in [id: Nat, kind: RowKinds, user: Users, at: Times]
                               /\ r.kind # "LOGIN_FAILED"
    PROVE  IInv'
<1>1. TypeOK'
    BY DEF IInv, TypeOK, OrderVars
<1>2. IdleRules' /\ HeldIsNeverLost'
    BY DEF IInv, OrderVars, IdleRules, HeldIsNeverLost, In
<1>3. SessionsAreSeen' /\ NoFailureKept'
    BY DEF IInv, SessionsAreSeen, NoFailureKept
<1>4. OrdersAreScreened'
    BY DEF IInv, OrderVars, OrdersAreScreened
<1>5. PairsAreSeen'
    BY DEF IInv, OrderVars, PairsAreSeen, Paired
<1>6. ScenarioOwnsItsOrders'
    BY DEF IInv, OrderVars, ScenarioOwnsItsOrders
<1> QED
    BY <1>1, <1>2, <1>3, <1>4, <1>5, <1>6 DEF IInv

----------------------------------------------------------------------------
\* Steps on the table of orders

\* The action property, as a step predicate.
Stops ==
    \A o \in OrderIds :
        o \in Kept' \ Kept /\ order'[o].user = trader /\ ~order'[o].onSession
            => order'[o].status \in {"BLOCKED", "HELD"}

StepOK == IInv' /\ Stops

\* The columns of an order nobody writes again.
SameColumns(o) ==
    /\ order'[o] # NoOrder <=> order[o] # NoOrder
    /\ order[o] # NoOrder =>
          /\ order'[o] \in Orders
          /\ order'[o].tx = order[o].tx /\ order'[o].onSession = order[o].onSession
          /\ order'[o].user = order[o].user /\ order'[o].stock = order[o].stock
          /\ order'[o].ip = order[o].ip /\ order'[o].at = order[o].at
          /\ order'[o].hits = order[o].hits

LEMMA PlacedIsRecord ==
    ASSUME TypeOK, NEW o \in OrderIds
    PROVE  order[o] # NoOrder => /\ order[o] \in Orders /\ o < nextOrder
                                 /\ order[o].phase # None
BY DEF TypeOK, NoOrder, None, Orders

LEMMA PhaseMeansPlaced ==
    ASSUME NEW phase \in {"FLUSHED", "COMMITTED", "LOST"}, NEW o \in In(phase)
    PROVE  o \in OrderIds /\ order[o] # NoOrder /\ order[o].phase = phase
BY DEF In, NoOrder, None

\* A new status of a committed order.
LEMMA StatusStep ==
    ASSUME IInv, NEW o \in In("COMMITTED"), NEW st \in OrderStatus, SetStatus(o, st),
           st \in Listed \cup {"CANCELLED", "REJECTED"},
           UNCHANGED <<now, seen, succeeded, session, nextOrder, met, lab, finished>>,
           IsFiniteSet(rows'),
           \A r \in rows' : \/ r \in rows
                            \/ /\ r \in [id: Nat, kind: RowKinds, user: Users, at: Times]
                               /\ r.kind # "LOGIN_FAILED"
    PROVE  StepOK
<1>1. o \in OrderIds /\ order[o] # NoOrder /\ order[o].phase = "COMMITTED"
    BY PhaseMeansPlaced
<1>2. /\ order[o] \in Orders /\ order \in [OrderIds -> Orders \cup {NoOrder}]
      /\ \A p \in OrderIds : order[p] # NoOrder => order[p] \in Orders
    BY <1>1, PlacedIsRecord DEF IInv, TypeOK
<1>3. order' = [order EXCEPT ![o] = [order[o] EXCEPT !.status = st]]
    BY <1>2 DEF SetStatus
<1>4. /\ order'[o] = [order[o] EXCEPT !.status = st]
      /\ \A p \in OrderIds \ {o} : order'[p] = order[p]
    BY <1>1, <1>2, <1>3
<1>5. order'[o] \in Orders /\ order'[o].status = st /\ order'[o].phase = "COMMITTED"
    BY <1>1, <1>2, <1>4 DEF Orders
<1>6. order'[o] # NoOrder
    BY <1>5 DEF NoOrder, None
<1>7. \A p \in OrderIds : SameColumns(p) /\ order'[p].phase = order[p].phase
    <2>1. SameColumns(o) /\ order'[o].phase = order[o].phase
        BY <1>1, <1>2, <1>4, <1>5, <1>6 DEF SameColumns, Orders
    <2> QED
        BY <1>2, <1>4, <2>1 DEF SameColumns
<1>8. \A phase : In(phase)' = In(phase)
    BY <1>7 DEF In
<1>9. /\ withdrawn \subseteq withdrawn' /\ withdrawn' \subseteq OrderIds
      /\ st \notin Listed => o \in withdrawn'
    BY <1>1 DEF SetStatus, IInv, TypeOK, Listed
<1>10. TypeOK'
    BY <1>1, <1>2, <1>3, <1>5, <1>7, <1>9 DEF IInv, TypeOK, SameColumns
<1>11. IdleRules'
    BY <1>7 DEF IInv, IdleRules, SameColumns
<1>12. HeldIsNeverLost'
    <2>1. \A p \in In("LOST") : p # o
        BY <1>1, PhaseMeansPlaced
    <2> QED
        BY <1>4, <1>8, <2>1, PhaseMeansPlaced DEF IInv, HeldIsNeverLost
<1>13. SessionsAreSeen' /\ NoFailureKept'
    BY DEF IInv, SessionsAreSeen, NoFailureKept
<1>14. OrdersAreScreened'
    <2> SUFFICES ASSUME NEW p \in OrderIds, order'[p] # NoOrder
                 PROVE  /\ order'[p].tx <= p
                        /\ order'[p].onSession => order'[p].tx = p
                        /\ p \notin withdrawn' => order'[p].status \in Listed
                        /\ order'[p].phase \in {"FLUSHED", "LOST"} =>
                              order'[p].status \in Outcomes(Decision(order'[p].hits), order'[p].onSession)
                        /\ order'[p].phase = "FLUSHED" /\ order'[p].user = trader /\ ~order'[p].onSession
                              => order'[p].status \in {"BLOCKED", "HELD"}
        BY DEF OrdersAreScreened
    <2>1. CASE p = o
        BY <1>1, <1>5, <1>7, <1>9, <2>1 DEF IInv, OrdersAreScreened, SameColumns
    <2>2. CASE p # o
        BY <1>4, <1>9, <2>2 DEF IInv, OrdersAreScreened
    <2> QED
        BY <2>1, <2>2
<1>15. PairsAreSeen'
    BY <1>7, <1>9 DEF IInv, PairsAreSeen, Paired, SameColumns
<1>16. ScenarioOwnsItsOrders'
    <2>1. lab # NoLab => lab.tx \in OrderIds
        BY DEF IInv, TypeOK
    <2> QED
        BY <1>7, <2>1 DEF IInv, ScenarioOwnsItsOrders, SameColumns
<1>17. Stops
    BY <1>8 DEF Stops, Kept
<1> QED
    BY <1>10, <1>11, <1>12, <1>13, <1>14, <1>15, <1>16, <1>17 DEF IInv, StepOK

\* An order that raises is one the market would fill or the rules block.
LEMMA RaisesIsFilledOrBlocked ==
    ASSUME IInv, NEW o \in In("FLUSHED"), Raises(o)
    PROVE  order[o].status \in {"EXECUTED", "BLOCKED"}
<1>1. o \in OrderIds /\ order[o] # NoOrder /\ order[o].phase = "FLUSHED"
    BY PhaseMeansPlaced
<1>2. order[o].status \in Outcomes(Decision(order[o].hits), order[o].onSession)
    BY <1>1 DEF IInv, OrdersAreScreened
<1>3. CASE ~SummaryFits(order[o].hits)
    BY <1>2, <1>3, TooManyReasonsBlock DEF Outcomes
<1> QED
    BY <1>3 DEF Raises

\* What the end of transaction tx does to every order.
Ends(tx, phase, p) ==
    /\ SameColumns(p)
    /\ order[p] # NoOrder => order'[p].status = order[p].status
    /\ p \in InTx(tx) => order'[p].phase = phase
    /\ p \notin InTx(tx) => order'[p] = order[p]

\* The orders of a transaction are committed or lost together; it is lost
\* where one of them raised.
LEMMA EndStep ==
    ASSUME IInv, NEW tx, NEW phase \in {"COMMITTED", "LOST"}, EndOf(tx, phase),
           phase = "LOST" => \E o \in InTx(tx) : Raises(o),
           UNCHANGED <<now, evidence, nextOrder, history>>
    PROVE  /\ \A p \in OrderIds : Ends(tx, phase, p)
           /\ order' \in [OrderIds -> Orders \cup {NoOrder}]
           /\ IdleRules' /\ HeldIsNeverLost' /\ SessionsAreSeen' /\ NoFailureKept'
           /\ OrdersAreScreened' /\ PairsAreSeen' /\ Stops
<1>1. order' = [p \in OrderIds |-> IF p \in InTx(tx)
                    THEN [order[p] EXCEPT !.phase = phase] ELSE order[p]]
    BY DEF EndOf, InTx
<1>2. ASSUME NEW p \in OrderIds, p \in InTx(tx)
      PROVE  Ends(tx, phase, p) /\ order'[p] # NoOrder
    <2>1. order[p] # NoOrder /\ order[p] \in Orders /\ order[p].phase = "FLUSHED"
        BY <1>2, PhaseMeansPlaced, PlacedIsRecord DEF InTx, IInv
    <2>2. order'[p] = [order[p] EXCEPT !.phase = phase]
        BY <1>1, <1>2
    <2>3. order'[p] \in Orders /\ order'[p].phase = phase
        BY <2>1, <2>2 DEF Orders
    <2>4. order'[p] # NoOrder
        BY <2>3 DEF NoOrder, None
    <2> QED
        BY <1>2, <2>1, <2>2, <2>3, <2>4 DEF Ends, SameColumns, Orders
<1>3. ASSUME NEW p \in OrderIds, p \notin InTx(tx)
      PROVE  Ends(tx, phase, p)
    BY <1>1, <1>3, PlacedIsRecord DEF Ends, SameColumns, IInv
<1>4. \A p \in OrderIds : Ends(tx, phase, p)
    BY <1>2, <1>3
<1>5. order' \in [OrderIds -> Orders \cup {NoOrder}]
    <2>1. \A p \in OrderIds : order'[p] \in Orders \cup {NoOrder}
        BY <1>4 DEF Ends, SameColumns
    <2> QED
        BY <1>1, <2>1
<1>6. IdleRules'
    BY <1>4 DEF IInv, IdleRules, Ends, SameColumns
<1>7. \A p \in OrderIds : p \in InTx(tx) <=>
            order[p] # NoOrder /\ order[p].phase = "FLUSHED" /\ order[p].tx = tx
    BY PhaseMeansPlaced DEF InTx, In
<1>8. HeldIsNeverLost'
    <2> SUFFICES ASSUME NEW o \in In("LOST")'
                 PROVE  \E q \in In("LOST")' : /\ order'[q].tx = order'[o].tx
                                               /\ order'[q].status \in {"EXECUTED", "BLOCKED"}
        BY DEF HeldIsNeverLost
    <2>1. o \in OrderIds /\ order'[o] # NoOrder /\ order'[o].phase = "LOST"
        BY DEF In, NoOrder, None
    <2>2. CASE o \in InTx(tx)
        <3>1. phase = "LOST" /\ order'[o].tx = tx
            BY <1>4, <1>7, <2>1, <2>2 DEF Ends, SameColumns
        <3>2. PICK q \in InTx(tx) : Raises(q)
            BY <3>1
        <3>3. q \in OrderIds /\ order[q] # NoOrder /\ order[q].tx = tx
            BY <1>7 DEF InTx, In
        <3>4. order[q].status \in {"EXECUTED", "BLOCKED"}
            BY <3>2, RaisesIsFilledOrBlocked DEF InTx
        <3>5. order'[q].tx = tx /\ order'[q].phase = "LOST" /\ order'[q].status = order[q].status
            BY <1>4, <3>1, <3>3 DEF Ends, SameColumns
        <3> QED
            BY <3>1, <3>3, <3>4, <3>5 DEF In
    <2>3. CASE o \notin InTx(tx)
        <3>1. order'[o] = order[o] /\ o \in In("LOST")
            BY <1>4, <2>1, <2>3 DEF Ends, In
        <3>2. PICK q \in In("LOST") : /\ order[q].tx = order[o].tx
                                      /\ order[q].status \in {"EXECUTED", "BLOCKED"}
            BY <3>1 DEF IInv, HeldIsNeverLost
        <3>3. q \in OrderIds /\ q \notin InTx(tx)
            BY <1>7, PhaseMeansPlaced
        <3>4. order'[q] = order[q]
            BY <1>4, <3>3 DEF Ends
        <3> QED
            BY <3>1, <3>2, <3>3, <3>4 DEF In
    <2> QED
        BY <2>2, <2>3
<1>9. SessionsAreSeen' /\ NoFailureKept'
    BY DEF IInv, SessionsAreSeen, NoFailureKept, evidence
<1>10. OrdersAreScreened'
    BY <1>4, <1>7 DEF IInv, OrdersAreScreened, Ends, SameColumns, history
<1>11. PairsAreSeen'
    <2> SUFFICES ASSUME NEW a \in OrderIds, NEW b \in OrderIds,
                        order'[a] # NoOrder, order'[b] # NoOrder, order'[a].phase # "LOST",
                        Paired(a, b)', <<a, b>> \notin met', a \notin withdrawn'
                 PROVE  "SAME_IP_MULTI_ACCOUNT" \in order'[b].hits
        BY DEF PairsAreSeen
    <2>1. SameColumns(a) /\ SameColumns(b)
        BY <1>4 DEF Ends
    <2>2. Paired(a, b)
        BY <2>1 DEF Paired, SameColumns
    <2>3. order[a].phase # "LOST"
        BY <1>4, <1>7 DEF Ends
    <2> QED
        BY <2>1, <2>2, <2>3 DEF IInv, PairsAreSeen, SameColumns, history
<1>12. Stops
    <2> SUFFICES ASSUME NEW o \in OrderIds, o \in Kept', o \notin Kept,
                        order'[o].user = trader, ~order'[o].onSession
                 PROVE  order'[o].status \in {"BLOCKED", "HELD"}
        BY DEF Stops
    <2>1. o \in InTx(tx)
        BY <1>4 DEF Ends, Kept, In
    <2> QED
        BY <1>4, <1>7, <2>1 DEF Ends, SameColumns, IInv, OrdersAreScreened
<1> QED
    BY <1>4, <1>5, <1>6, <1>8, <1>9, <1>10, <1>11, <1>12

\* An order is evaluated and flushed in transaction tx, on a session or by
\* the lab.
LEMMA EvaluateStep ==
    ASSUME IInv,
           NEW u \in Users, NEW d \in Devices \cup {labDevice}, NEW s \in Stocks,
           NEW ip \in Ips, NEW abnormal, NEW amount \in Nat,
           NEW tx \in OrderIds, tx <= nextOrder, NEW onSession \in BOOLEAN,
           Evaluate(u, d, s, ip, amount,
               Hits(EvidenceOn(u, d, s, ip, abnormal, amount, tx)), tx, onSession),
           UNCHANGED <<now, evidence, withdrawn>>,
           onSession => tx = nextOrder /\ <<u, d>> \in session,
           ~onSession /\ u = trader => s \in Watchlist /\ amount >= SpikeAmount
    PROVE  /\ nextOrder \in OrderIds /\ nextOrder' = nextOrder + 1
           /\ order[nextOrder] = NoOrder
           /\ order'[nextOrder] \in Orders
           /\ order'[nextOrder].phase = "FLUSHED"
           /\ order'[nextOrder].tx = tx /\ order'[nextOrder].onSession = onSession
           /\ \A p \in OrderIds \ {nextOrder} : order'[p] = order[p]
           /\ order' \in [OrderIds -> Orders \cup {NoOrder}]
           /\ met' \subseteq OrderIds \X OrderIds
           /\ IdleRules' /\ HeldIsNeverLost' /\ SessionsAreSeen' /\ NoFailureKept'
           /\ OrdersAreScreened' /\ PairsAreSeen' /\ Stops
<1> DEFINE n == nextOrder
           hits == Hits(EvidenceOn(u, d, s, ip, abnormal, amount, tx))
<1>1. PICK st \in Outcomes(Decision(hits), onSession) :
          order' = [order EXCEPT ![n] =
              [phase |-> "FLUSHED", tx |-> tx, onSession |-> onSession, user |-> u,
               device |-> d, stock |-> s, ip |-> ip, amount |-> amount, at |-> now,
               hits |-> hits, status |-> st]]
    BY DEF Evaluate
<1>2. /\ n \in OrderIds /\ nextOrder' = n + 1 /\ order[n] = NoOrder
      /\ order \in [OrderIds -> Orders \cup {NoOrder}] /\ now \in Times
      /\ \A p \in OrderIds : order[p] # NoOrder => p < n /\ order[p] \in Orders
      /\ n \in Nat
    <2>1. n \in OrderIds /\ nextOrder' = n + 1
        BY DEF Evaluate, Open
    <2>2. n \in 1..(MaxOrders + 1) /\ n \in Nat
        BY ScreeningInstance DEF IInv, TypeOK
    <2>3. \A p \in OrderIds : order[p] # NoOrder <=> p < n
        BY DEF IInv, TypeOK
    <2>4. /\ order \in [OrderIds -> Orders \cup {NoOrder}] /\ now \in Times
        BY DEF IInv, TypeOK
    <2> QED
        BY <2>1, <2>2, <2>3, <2>4
<1>3. order'[n] = [phase |-> "FLUSHED", tx |-> tx, onSession |-> onSession, user |-> u,
               device |-> d, stock |-> s, ip |-> ip, amount |-> amount, at |-> now,
               hits |-> hits, status |-> st]
    BY <1>1, <1>2
<1>4. \A p \in OrderIds \ {n} : order'[p] = order[p]
    BY <1>1, <1>2
<1>5. hits \subseteq Rules /\ st \in Listed /\ Listed \subseteq OrderStatus
    BY OutcomesAreListed DEF Hits, Listed, OrderStatus
<1>6. order'[n] \in Orders /\ order'[n] # NoOrder
    <2>1. order'[n] \in Orders
        BY <1>2, <1>3, <1>5 DEF Orders
    <2> QED
        BY <1>3, <2>1 DEF NoOrder, None
<1>7. order' \in [OrderIds -> Orders \cup {NoOrder}]
    BY <1>1, <1>2, <1>4, <1>6
<1>8. /\ met \subseteq met' /\ met' \subseteq OrderIds \X OrderIds
      /\ \A f \in In("FLUSHED") : order[f].tx # tx => <<f, n>> \in met'
    BY <1>2 DEF Evaluate, IInv, TypeOK, In
<1> HIDE DEF hits
<1>9. IdleRules'
    <2>1. onSession => hits \cap {"NEW_DEVICE_HIGH_AMOUNT", "FAILED_LOGIN_THEN_ORDER"} = {}
        BY TwoRulesIdle DEF hits, IInv
    <2> QED
        BY <1>3, <1>4, <2>1 DEF IInv, IdleRules
<1>10. HeldIsNeverLost'
    <2>1. \A p \in OrderIds : p \in In("LOST")' => p # n /\ order'[p] = order[p] /\ p \in In("LOST")
        BY <1>3, <1>4 DEF In
    <2>2. \A p \in In("LOST") : p # n /\ p \in OrderIds
        BY <1>2, PhaseMeansPlaced
    <2>3. \A p \in In("LOST") : p \in In("LOST")' /\ order'[p] = order[p]
        BY <1>4, <2>2 DEF In
    <2> QED
        BY <2>1, <2>3 DEF IInv, HeldIsNeverLost, In
<1>11. SessionsAreSeen' /\ NoFailureKept'
    BY DEF IInv, SessionsAreSeen, NoFailureKept, evidence
<1>12. ~onSession /\ u = trader => st \in {"BLOCKED", "HELD"}
    <2> SUFFICES ASSUME ~onSession, u = trader PROVE st \in {"BLOCKED", "HELD"}
        OBVIOUS
    <2> DEFINE e == EvidenceOn(u, d, s, ip, abnormal, amount, tx)
    <2>1. e.watchlist = TRUE /\ e.amount = amount
        BY DEF EvidenceOn
    <2>2. Fires("WATCHLIST_STOCK_ORDER", e) /\ Fires("HIGH_AMOUNT_SPIKE", e)
        BY <2>1 DEF Fires
    <2>3. "WATCHLIST_STOCK_ORDER" \in hits /\ "HIGH_AMOUNT_SPIKE" \in hits
        BY <2>2 DEF hits, Hits, Rules
    <2> QED
        BY <2>3, LargeWatchlistOrderBlocked DEF Outcomes
<1>13. OrdersAreScreened'
    <2> SUFFICES ASSUME NEW p \in OrderIds, order'[p] # NoOrder
                 PROVE  /\ order'[p].tx <= p
                        /\ order'[p].onSession => order'[p].tx = p
                        /\ p \notin withdrawn' => order'[p].status \in Listed
                        /\ order'[p].phase \in {"FLUSHED", "LOST"} =>
                              order'[p].status \in Outcomes(Decision(order'[p].hits), order'[p].onSession)
                        /\ order'[p].phase = "FLUSHED" /\ order'[p].user = trader /\ ~order'[p].onSession
                              => order'[p].status \in {"BLOCKED", "HELD"}
        BY DEF OrdersAreScreened
    <2>1. CASE p = n
        BY <1>3, <1>5, <1>12, <2>1
    <2>2. CASE p # n
        BY <1>4, <2>2 DEF IInv, OrdersAreScreened
    <2> QED
        BY <2>1, <2>2
<1>14. PairsAreSeen'
    <2> SUFFICES ASSUME NEW a \in OrderIds, NEW b \in OrderIds,
                        order'[a] # NoOrder, order'[b] # NoOrder, order'[a].phase # "LOST",
                        Paired(a, b)', <<a, b>> \notin met', a \notin withdrawn'
                 PROVE  "SAME_IP_MULTI_ACCOUNT" \in order'[b].hits
        BY DEF PairsAreSeen
    <2>1. a < b
        BY DEF Paired
    <2>2. a # n
        BY <1>2, <1>4, <2>1 DEF OrderIds
    <2>3. order'[a] = order[a]
        BY <1>4, <2>2
    <2>4. CASE b # n
        <3>1. order'[b] = order[b]
            BY <1>4, <2>4
        <3>2. Paired(a, b)
            BY <2>3, <3>1 DEF Paired
        <3> QED
            BY <1>8, <2>3, <3>1, <3>2 DEF IInv, PairsAreSeen
    <2>5. CASE b = n
        <3>1. /\ order[a].user # u /\ order[a].stock = s /\ order[a].ip = ip
              /\ now - order[a].at <= PeerWindow
            BY <1>3, <2>3, <2>5 DEF Paired
        <3>2. order[a].phase \in {"FLUSHED", "COMMITTED"} /\ order[a].status \in Listed
            BY <1>2, <2>3 DEF Orders, IInv, OrdersAreScreened
        <3>3. order[a].phase = "FLUSHED" => order[a].tx = tx
            BY <1>8, <2>5 DEF In
        <3>4. a \in Peers(u, s, ip, tx)
            BY <3>1, <3>2, <3>3 DEF Peers, Visible
        <3> QED
            BY <1>3, <2>5, <3>4, PeerCounts DEF hits
    <2> QED
        BY <2>4, <2>5
<1>15. Stops
    <2>1. Kept' \subseteq Kept
        BY <1>3, <1>4 DEF Kept, In
    <2> QED
        BY <2>1 DEF Stops
<1> QED
    BY <1>2, <1>3, <1>4, <1>6, <1>7, <1>8, <1>9, <1>10, <1>11, <1>13, <1>14, <1>15

----------------------------------------------------------------------------
\* The actions

\* The types after an order was submitted.
LEMMA NewOrderTypes ==
    ASSUME IInv, nextOrder \in OrderIds, nextOrder' = nextOrder + 1,
           order'[nextOrder] \in Orders, order' \in [OrderIds -> Orders \cup {NoOrder}],
           \A p \in OrderIds \ {nextOrder} : order'[p] = order[p],
           met' \subseteq OrderIds \X OrderIds,
           UNCHANGED <<now, evidence, withdrawn, finished>>,
           lab' \in [scenario: Scenarios, tx: OrderIds, left: {0, 1}] \cup {NoLab}
    PROVE  TypeOK'
<1>1. nextOrder' \in 1..(MaxOrders + 1)
    BY ScreeningInstance DEF OrderIds
<1>2. order'[nextOrder] # NoOrder
    BY DEF Orders, NoOrder, None
<1>3. \A p \in OrderIds : order'[p] # NoOrder <=> p < nextOrder'
    BY <1>2 DEF IInv, TypeOK, OrderIds
<1> QED
    BY <1>1, <1>3 DEF IInv, TypeOK, evidence

\* The state of the scenarios does not change with the API's.
LEMMA SubmitStep ==
    ASSUME IInv, NEW u \in Users, NEW d \in Devices, NEW s \in Stocks, NEW ip \in Ips,
           NEW amount \in Amounts, NEW abnormal \in Regions,
           Submit(u, d, s, ip, abnormal, amount), UNCHANGED labVars
    PROVE  StepOK
<1> DEFINE n == nextOrder
<1>1. amount \in Nat /\ n \in OrderIds /\ n <= n
    BY ScreeningInstance DEF Submit, Evaluate, Open, OrderIds
<1>2. /\ nextOrder' = n + 1 /\ order[n] = NoOrder
      /\ order'[n] \in Orders /\ order'[n].phase = "FLUSHED"
      /\ order'[n].tx = n /\ order'[n].onSession
      /\ \A p \in OrderIds \ {n} : order'[p] = order[p]
      /\ order' \in [OrderIds -> Orders \cup {NoOrder}]
      /\ met' \subseteq OrderIds \X OrderIds
      /\ IdleRules' /\ HeldIsNeverLost' /\ SessionsAreSeen' /\ NoFailureKept'
      /\ OrdersAreScreened' /\ PairsAreSeen' /\ Stops
    BY <1>1, EvaluateStep DEF Submit
<1>3. TypeOK'
    <2>1. lab' \in [scenario: Scenarios, tx: OrderIds, left: {0, 1}] \cup {NoLab}
        BY DEF IInv, TypeOK, labVars
    <2>2. UNCHANGED <<now, evidence, withdrawn, finished>>
        BY DEF Submit, labVars
    <2> QED
        BY <1>1, <1>2, <2>1, <2>2, NewOrderTypes
<1>4. ScenarioOwnsItsOrders'
    <2>1. lab # NoLab => lab.tx \in OrderIds /\ lab.tx < n
        BY DEF IInv, TypeOK, ScenarioOwnsItsOrders
    <2>2. ASSUME lab # NoLab
          PROVE  /\ order'[lab.tx] # NoOrder /\ ~order'[lab.tx].onSession
                 /\ order'[lab.tx].tx = lab.tx
                 /\ \A o \in OrderIds :
                      order'[o] # NoOrder /\ order'[o].tx = lab.tx => order'[o].phase = "FLUSHED"
        BY <1>2, <2>1, <2>2 DEF IInv, ScenarioOwnsItsOrders
    <2>3. ASSUME NEW f \in finished
          PROVE  /\ f.tx \in 0..(nextOrder' - 1)
                 /\ lab # NoLab => f.tx # lab.tx
                 /\ \A o \in OrderIds :
                      order'[o] # NoOrder /\ ~order'[o].onSession /\ order'[o].tx = f.tx
                        => order'[o].phase = IF f.done THEN "COMMITTED" ELSE "LOST"
        BY <1>1, <1>2 DEF IInv, ScenarioOwnsItsOrders, OrderIds
    <2> QED
        BY <2>2, <2>3 DEF ScenarioOwnsItsOrders, labVars
<1> QED
    BY <1>2, <1>3, <1>4 DEF IInv, StepOK

\* The same of an order of the lab, which has no session.
LEMMA LabOrderStep ==
    ASSUME IInv, NEW u \in Users, NEW s \in Stocks, NEW abnormal, NEW amount \in Nat,
           NEW tx \in OrderIds, tx <= nextOrder,
           LabOrder(u, s, abnormal, amount, tx), UNCHANGED <<now, evidence, withdrawn>>,
           u = trader => s \in Watchlist /\ amount >= SpikeAmount
    PROVE  /\ nextOrder' = nextOrder + 1 /\ order[nextOrder] = NoOrder
           /\ order'[nextOrder] \in Orders
           /\ order'[nextOrder].phase = "FLUSHED"
           /\ order'[nextOrder].tx = tx /\ ~order'[nextOrder].onSession
           /\ \A p \in OrderIds \ {nextOrder} : order'[p] = order[p]
           /\ order' \in [OrderIds -> Orders \cup {NoOrder}]
           /\ met' \subseteq OrderIds \X OrderIds
           /\ IdleRules' /\ HeldIsNeverLost' /\ SessionsAreSeen' /\ NoFailureKept'
           /\ OrdersAreScreened' /\ PairsAreSeen' /\ Stops
<1> DEFINE none == FALSE
<1>1. Evaluate(u, labDevice, s, labIp, amount,
          Hits(EvidenceOn(u, labDevice, s, labIp, abnormal, amount, tx)), tx, none)
    BY DEF LabOrder
<1>2. /\ none \in BOOLEAN /\ none = FALSE
      /\ labDevice \in Devices \cup {labDevice} /\ labIp \in Ips
    BY LabAssumption
<1> HIDE DEF none
<1>3. /\ none => tx = nextOrder /\ <<u, labDevice>> \in session
      /\ ~none /\ u = trader => s \in Watchlist /\ amount >= SpikeAmount
    BY <1>2
<1> QED
    BY <1>1, <1>2, <1>3, EvaluateStep

\* The orders of a scenario: its first, in a transaction of its own.
LEMMA LabStartStep ==
    ASSUME IInv, WatchlistHighValue \/ SameIpMultiAccount
    PROVE  StepOK
<1> DEFINE n == nextOrder
<1>1. PICK scenario \in Scenarios, left \in {0, 1} : Start(scenario, left)
    BY DEF WatchlistHighValue, SameIpMultiAccount, Scenarios
<1>2. /\ lab = NoLab /\ lab' = [scenario |-> scenario, tx |-> n, left |-> left]
      /\ UNCHANGED <<now, evidence, withdrawn, finished>>
    BY <1>1 DEF Start
<1>3. n \in OrderIds /\ n <= n
    <2>1. n \in OrderIds
        BY DEF WatchlistHighValue, SameIpMultiAccount, LabOrder, Evaluate, Open
    <2> QED
        BY <2>1, ScreeningInstance DEF OrderIds
<1>4. /\ nextOrder' = n + 1 /\ order[n] = NoOrder
      /\ order'[n] \in Orders /\ order'[n].phase = "FLUSHED"
      /\ order'[n].tx = n /\ ~order'[n].onSession
      /\ \A p \in OrderIds \ {n} : order'[p] = order[p]
      /\ order' \in [OrderIds -> Orders \cup {NoOrder}]
      /\ met' \subseteq OrderIds \X OrderIds
      /\ IdleRules' /\ HeldIsNeverLost' /\ SessionsAreSeen' /\ NoFailureKept'
      /\ OrdersAreScreened' /\ PairsAreSeen' /\ Stops
    <2>1. /\ {trader, analyst} \subseteq Users /\ trader # analyst
          /\ {plain, watched} \subseteq Stocks /\ watched \in Watchlist
          /\ LabAmount \in Nat /\ SmallAmount \in Nat /\ LabAmount >= SpikeAmount
        BY LabAssumption, ScreeningInstance, LabOrderIsLarge
    <2>2. UNCHANGED <<now, evidence, withdrawn>>
        BY <1>2
    <2>3. CASE LabOrder(trader, watched, TRUE, LabAmount, n)
        BY <1>3, <2>1, <2>2, <2>3, LabOrderStep
    <2>4. CASE LabOrder(analyst, plain, FALSE, SmallAmount, n)
        BY <1>3, <2>1, <2>2, <2>4, LabOrderStep
    <2> QED
        BY <2>3, <2>4 DEF WatchlistHighValue, SameIpMultiAccount
<1>5. lab' # NoLab /\ lab'.tx = n /\ lab' \in [scenario: Scenarios, tx: OrderIds, left: {0, 1}]
    <2>1. lab' \in [scenario: Scenarios, tx: OrderIds, left: {0, 1}] /\ lab'.tx = n
        BY <1>2, <1>3
    <2> QED
        BY <1>2, <2>1 DEF NoLab, Scenarios, None
<1>6. TypeOK'
    BY <1>2, <1>3, <1>4, <1>5, NewOrderTypes
<1>7. \A o \in OrderIds : order[o] # NoOrder => o < n /\ order[o].tx # n
    BY <1>3 DEF IInv, TypeOK, OrdersAreScreened, Orders, OrderIds
<1>8. ScenarioOwnsItsOrders'
    <2>1. /\ order'[n] # NoOrder /\ ~order'[n].onSession
          /\ \A o \in OrderIds :
                order'[o] # NoOrder /\ order'[o].tx = n => order'[o].phase = "FLUSHED"
        <3>1. order'[n] # NoOrder
            BY <1>4 DEF Orders, NoOrder, None
        <3> QED
            BY <1>4, <1>7, <3>1
    <2>2. ASSUME NEW f \in finished
          PROVE  /\ f.tx \in 0..(nextOrder' - 1) /\ f.tx # n
                 /\ \A o \in OrderIds :
                      order'[o] # NoOrder /\ ~order'[o].onSession /\ order'[o].tx = f.tx
                        => order'[o].phase = IF f.done THEN "COMMITTED" ELSE "LOST"
        BY <1>3, <1>4 DEF IInv, ScenarioOwnsItsOrders, OrderIds
    <2> QED
        BY <1>2, <1>3, <1>4, <1>5, <2>1, <2>2 DEF ScenarioOwnsItsOrders
<1> QED
    BY <1>4, <1>6, <1>8 DEF IInv, StepOK

\* ... and its second, in the same transaction.
LEMMA SecondOrderStep ==
    ASSUME IInv, SameIpSecondOrder
    PROVE  StepOK
<1> DEFINE n == nextOrder
<1>1. /\ lab \in [scenario: Scenarios, tx: OrderIds, left: {0, 1}] /\ lab # NoLab
      /\ lab' = [lab EXCEPT !.left = 0]
      /\ UNCHANGED <<now, evidence, withdrawn, finished>>
    BY DEF SameIpSecondOrder, IInv, TypeOK
<1>2. /\ lab' \in [scenario: Scenarios, tx: OrderIds, left: {0, 1}]
      /\ lab'.tx = lab.tx /\ lab'.scenario = lab.scenario
    BY <1>1
<1>3. n \in OrderIds
    BY DEF SameIpSecondOrder, LabOrder, Evaluate, Open
<1>4. /\ nextOrder' = n + 1 /\ order[n] = NoOrder
      /\ order'[n] \in Orders /\ order'[n].phase = "FLUSHED"
      /\ order'[n].tx = lab.tx /\ ~order'[n].onSession
      /\ \A p \in OrderIds \ {n} : order'[p] = order[p]
      /\ order' \in [OrderIds -> Orders \cup {NoOrder}]
      /\ met' \subseteq OrderIds \X OrderIds
      /\ IdleRules' /\ HeldIsNeverLost' /\ SessionsAreSeen' /\ NoFailureKept'
      /\ OrdersAreScreened' /\ PairsAreSeen' /\ Stops
    <2>1. /\ trader \in Users /\ watched \in Stocks /\ watched \in Watchlist
          /\ LabAmount \in Nat /\ LabAmount >= SpikeAmount
        BY LabAssumption, ScreeningInstance, LabOrderIsLarge
    <2>2. lab.tx \in OrderIds /\ lab.tx <= n
        BY <1>1, <1>3 DEF IInv, TypeOK, ScenarioOwnsItsOrders, OrderIds
    <2>3. /\ LabOrder(trader, watched, TRUE, LabAmount, lab.tx)
          /\ UNCHANGED <<now, evidence, withdrawn>>
        BY <1>1 DEF SameIpSecondOrder
    <2> QED
        BY <2>1, <2>2, <2>3, LabOrderStep
<1>5. TypeOK'
    BY <1>1, <1>2, <1>3, <1>4, NewOrderTypes
<1>6. ScenarioOwnsItsOrders'
    <2>1. lab.tx # n /\ lab.tx \in OrderIds
        BY <1>1, <1>4 DEF IInv, ScenarioOwnsItsOrders
    <2>2. order'[n] # NoOrder
        BY <1>4 DEF Orders, NoOrder, None
    <2>3. /\ order'[lab.tx] # NoOrder /\ ~order'[lab.tx].onSession
          /\ order'[lab.tx].tx = lab.tx
          /\ \A o \in OrderIds :
                order'[o] # NoOrder /\ order'[o].tx = lab.tx => order'[o].phase = "FLUSHED"
        BY <1>1, <1>4, <2>1 DEF IInv, ScenarioOwnsItsOrders
    <2>4. ASSUME NEW f \in finished
          PROVE  /\ f.tx \in 0..(nextOrder' - 1) /\ f.tx # lab.tx
                 /\ \A o \in OrderIds :
                      order'[o] # NoOrder /\ ~order'[o].onSession /\ order'[o].tx = f.tx
                        => order'[o].phase = IF f.done THEN "COMMITTED" ELSE "LOST"
        BY <1>1, <1>3, <1>4 DEF IInv, ScenarioOwnsItsOrders, OrderIds
    <2> QED
        BY <1>1, <1>2, <2>3, <2>4 DEF ScenarioOwnsItsOrders
<1> QED
    BY <1>4, <1>5, <1>6 DEF IInv, StepOK

\* The end of a transaction keeps the types.
LEMMA EndTypes ==
    ASSUME IInv, NEW tx, NEW phase,
           \A p \in OrderIds : Ends(tx, phase, p),
           order' \in [OrderIds -> Orders \cup {NoOrder}],
           UNCHANGED <<now, evidence, nextOrder, history>>,
           lab' \in {lab, NoLab},
           \A f \in finished' : f.scenario \in Scenarios /\ f.done \in BOOLEAN
    PROVE  TypeOK'
<1>1. \A o \in OrderIds : order'[o] # NoOrder <=> o < nextOrder'
    BY DEF IInv, TypeOK, Ends, SameColumns
<1> QED
    BY <1>1 DEF IInv, TypeOK, evidence, history

\* The end of a request on a session.
LEMMA RequestEndStep ==
    ASSUME IInv, NEW o \in OrderIds, Commit(o) \/ Lose(o), UNCHANGED labVars
    PROVE  StepOK
<1>1. PICK phase \in {"COMMITTED", "LOST"} :
          EndOf(o, phase) /\ (phase = "LOST" => Raises(o))
    BY DEF Commit, Lose
<1>2. /\ o \in In("FLUSHED") /\ order[o].onSession
      /\ UNCHANGED <<now, evidence, nextOrder, history>>
    BY DEF Commit, Lose, history
<1>3. order[o] # NoOrder /\ order[o].tx = o /\ o \in InTx(o)
    BY <1>2, PhaseMeansPlaced DEF IInv, OrdersAreScreened, InTx
<1>4. /\ \A p \in OrderIds : Ends(o, phase, p)
      /\ order' \in [OrderIds -> Orders \cup {NoOrder}]
      /\ IdleRules' /\ HeldIsNeverLost' /\ SessionsAreSeen' /\ NoFailureKept'
      /\ OrdersAreScreened' /\ PairsAreSeen' /\ Stops
    <2>1. phase = "LOST" => \E q \in InTx(o) : Raises(q)
        BY <1>1, <1>3
    <2> QED
        BY <1>1, <1>2, <2>1, EndStep
<1>5. TypeOK'
    <2>1. /\ lab' \in {lab, NoLab}
          /\ \A f \in finished' : f.scenario \in Scenarios /\ f.done \in BOOLEAN
        BY DEF IInv, TypeOK, labVars
    <2> QED
        BY <1>2, <1>4, <2>1, EndTypes
<1>6. \A p \in InTx(o) : order[p].phase = "FLUSHED" /\ order[p].tx = o /\ order[p] # NoOrder
    BY PhaseMeansPlaced DEF InTx
<1>7. ScenarioOwnsItsOrders'
    <2>1. ASSUME lab # NoLab
          PROVE  /\ order'[lab.tx] # NoOrder /\ ~order'[lab.tx].onSession
                 /\ order'[lab.tx].tx = lab.tx
                 /\ \A p \in OrderIds :
                      order'[p] # NoOrder /\ order'[p].tx = lab.tx => order'[p].phase = "FLUSHED"
        <3>1. lab.tx \in OrderIds
            BY <2>1 DEF IInv, TypeOK
        <3>2. lab.tx # o
            BY <1>2, <2>1 DEF IInv, ScenarioOwnsItsOrders
        <3> QED
            BY <1>4, <1>6, <2>1, <3>1, <3>2 DEF IInv, ScenarioOwnsItsOrders, Ends, SameColumns
    <2>2. ASSUME NEW f \in finished, NEW p \in OrderIds,
                 order'[p] # NoOrder, ~order'[p].onSession, order'[p].tx = f.tx
          PROVE  order'[p].phase = IF f.done THEN "COMMITTED" ELSE "LOST"
        <3>1. order[p].phase = IF f.done THEN "COMMITTED" ELSE "LOST"
            BY <1>4, <2>2 DEF IInv, ScenarioOwnsItsOrders, Ends, SameColumns
        <3>2. p \notin InTx(o)
            BY <1>6, <3>1
        <3> QED
            BY <1>4, <3>1, <3>2 DEF Ends
    <2> QED
        BY <1>2, <2>1, <2>2 DEF IInv, ScenarioOwnsItsOrders, labVars
<1> QED
    BY <1>4, <1>5, <1>7 DEF IInv, StepOK

\* The end of a scenario, and of its transaction.
LEMMA LabEndStep ==
    ASSUME IInv, LabCommit \/ LabRaises
    PROVE  StepOK
<1>1. PICK phase \in {"COMMITTED", "LOST"}, done \in BOOLEAN :
          /\ EndOf(lab.tx, phase) /\ Ended(done)
          /\ done <=> phase = "COMMITTED"
          /\ phase = "LOST" => \E o \in InTx(lab.tx) : Raises(o)
    <2>1. CASE LabCommit
        BY <2>1 DEF LabCommit
    <2>2. CASE LabRaises
        BY <2>2 DEF LabRaises
    <2> QED
        BY <2>1, <2>2
<1>2. /\ lab \in [scenario: Scenarios, tx: OrderIds, left: {0, 1}] /\ lab # NoLab
      /\ UNCHANGED <<now, evidence, nextOrder, history>>
    BY DEF LabCommit, LabRaises, history, IInv, TypeOK
<1>3. /\ lab' = NoLab
      /\ finished' = finished \cup {[scenario |-> lab.scenario, tx |-> lab.tx, done |-> done]}
    BY <1>1 DEF Ended
<1>4. /\ \A p \in OrderIds : Ends(lab.tx, phase, p)
      /\ order' \in [OrderIds -> Orders \cup {NoOrder}]
      /\ IdleRules' /\ HeldIsNeverLost' /\ SessionsAreSeen' /\ NoFailureKept'
      /\ OrdersAreScreened' /\ PairsAreSeen' /\ Stops
    BY <1>1, <1>2, EndStep
<1>5. TypeOK'
    <2>1. \A f \in finished' : f.scenario \in Scenarios /\ f.done \in BOOLEAN
        BY <1>2, <1>3 DEF IInv, TypeOK
    <2> QED
        BY <1>2, <1>3, <1>4, <2>1, EndTypes
<1>6. \A p \in OrderIds : p \in InTx(lab.tx) <=> order[p] # NoOrder /\ order[p].tx = lab.tx
    BY <1>2, PhaseMeansPlaced DEF InTx, In, IInv, ScenarioOwnsItsOrders
<1>7. ScenarioOwnsItsOrders'
    <2>1. lab.tx \in 0..(nextOrder - 1)
        BY <1>2, ScreeningInstance DEF IInv, TypeOK, ScenarioOwnsItsOrders, OrderIds
    <2>2. ASSUME NEW f \in finished', NEW p \in OrderIds,
                 order'[p] # NoOrder, ~order'[p].onSession, order'[p].tx = f.tx
          PROVE  order'[p].phase = IF f.done THEN "COMMITTED" ELSE "LOST"
        <3>1. order[p] # NoOrder /\ ~order[p].onSession /\ order[p].tx = f.tx
            BY <1>4, <2>2 DEF Ends, SameColumns
        <3>2. CASE f \in finished
            <4>1. p \notin InTx(lab.tx)
                BY <1>2, <1>6, <3>1, <3>2 DEF IInv, ScenarioOwnsItsOrders
            <4> QED
                BY <1>4, <3>1, <3>2, <4>1 DEF IInv, ScenarioOwnsItsOrders, Ends
        <3>3. CASE f = [scenario |-> lab.scenario, tx |-> lab.tx, done |-> done]
            BY <1>1, <1>4, <1>6, <3>1, <3>3 DEF Ends
        <3> QED
            BY <1>3, <3>2, <3>3
    <2>3. \A f \in finished' : f.tx \in 0..(nextOrder' - 1)
        BY <1>2, <1>3, <2>1 DEF IInv, ScenarioOwnsItsOrders
    <2> QED
        BY <1>3, <2>2, <2>3 DEF ScenarioOwnsItsOrders
<1> QED
    BY <1>4, <1>5, <1>7 DEF IInv, StepOK

\* A scenario that ends before it has an order.
LEMMA StuffingStep ==
    ASSUME IInv, CredentialStuffing
    PROVE  StepOK
<1> DEFINE f0 == [scenario |-> "credential_stuffing_then_trade", tx |-> 0, done |-> FALSE]
<1>1. UNCHANGED vars /\ lab' = lab /\ finished' = finished \cup {f0}
    BY DEF CredentialStuffing
<1>2. f0.tx = 0 /\ f0.scenario \in Scenarios /\ f0.done \in BOOLEAN
    BY DEF Scenarios
<1> HIDE DEF f0
<1>3. TypeOK'
    BY <1>1, <1>2 DEF IInv, TypeOK, vars, evidence, history
<1>4. ScenarioOwnsItsOrders'
    <2>1. \A o \in OrderIds : order[o] # NoOrder => order[o].tx # 0
        BY PlacedIsRecord DEF IInv, Orders, OrderIds
    <2>2. 0 \in 0..(nextOrder - 1) /\ 0 \notin OrderIds
        BY ScreeningInstance DEF IInv, TypeOK, OrderIds
    <2> QED
        BY <1>1, <1>2, <2>1, <2>2 DEF IInv, TypeOK, ScenarioOwnsItsOrders, vars
<1>5. Stops
    BY <1>1 DEF Stops, Kept, In, vars
<1>6. IdleRules' /\ HeldIsNeverLost' /\ SessionsAreSeen' /\ NoFailureKept'
    BY <1>1 DEF IInv, IdleRules, HeldIsNeverLost, In, SessionsAreSeen, NoFailureKept,
                vars, evidence
<1>7. OrdersAreScreened' /\ PairsAreSeen'
    BY <1>1 DEF IInv, OrdersAreScreened, PairsAreSeen, Paired, vars, history
<1> QED
    BY <1>3, <1>4, <1>5, <1>6, <1>7 DEF IInv, StepOK

\* A cancellation writes a row of its own kind.
LEMMA WrittenRow ==
    ASSUME IInv, NEW o \in OrderIds, order[o] # NoOrder
    PROVE  /\ Written(order[o].user, "ORDER_CANCELLED")
                 \in [id: Nat, kind: RowKinds, user: Users, at: Times]
           /\ Written(order[o].user, "ORDER_CANCELLED").kind # "LOGIN_FAILED"
<1>1. order[o].user \in Users /\ now \in Times
    BY PlacedIsRecord DEF IInv, TypeOK, Orders
<1>2. Cardinality(rows) \in Nat
    BY FS_CardinalityType DEF IInv, TypeOK
<1> QED
    BY <1>1, <1>2 DEF Written, RowKinds

\* Cancellations, fills and reviews.
LEMMA RestatusStep ==
    ASSUME IInv, NEW o \in OrderIds, CancelOrder(o) \/ Refresh(o) \/ Review(o),
           UNCHANGED labVars
    PROVE  StepOK
<1>1. o \in In("COMMITTED")
    BY DEF CancelOrder, Refresh, Review
<1>2. order[o] # NoOrder
    BY <1>1, PhaseMeansPlaced
<1>3. PICK st \in {"CANCELLED", "EXECUTED", "REJECTED", "BLOCKED", "HELD", "ACCEPTED"} :
          SetStatus(o, st)
    BY DEF CancelOrder, Refresh, Review
<1>4. /\ st \in OrderStatus /\ st \in Listed \cup {"CANCELLED", "REJECTED"}
      /\ UNCHANGED <<now, seen, succeeded, session, nextOrder, met, lab, finished>>
    BY DEF CancelOrder, Refresh, Review, OrderStatus, Listed, labVars, evidence
<1>5. /\ IsFiniteSet(rows')
      /\ \A r \in rows' : \/ r \in rows
                           \/ /\ r \in [id: Nat, kind: RowKinds, user: Users, at: Times]
                              /\ r.kind # "LOGIN_FAILED"
    <2>1. rows' = rows \/ rows' = rows \cup {Written(order[o].user, "ORDER_CANCELLED")}
        BY DEF CancelOrder, Refresh, Review, evidence
    <2> QED
        BY <1>2, <2>1, WrittenRow, FS_AddElement DEF IInv, TypeOK
<1> QED
    BY <1>1, <1>3, <1>4, <1>5, StatusStep

\* Logins, sessions that end, and time.
LEMMA EvidenceSteps ==
    ASSUME IInv, UNCHANGED labVars,
           \/ Tick
           \/ \E u \in Users : WrongPassword(u)
           \/ \E u \in Users, d \in Devices : Login(u, d) \/ EndSession(u, d)
           \/ UNCHANGED vars
    PROVE  StepOK
<1>1. UNCHANGED OrderVars
    BY DEF Tick, WrongPassword, Login, EndSession, vars, history, labVars, OrderVars
<1>2. now' \in Times /\ now <= now'
    <2>1. now \in Times /\ now \in Nat
        BY ScreeningInstance DEF IInv, TypeOK, Times
    <2>2. CASE Tick
        BY <2>1, <2>2, ScreeningInstance DEF Tick, Times
    <2>3. CASE now' = now
        BY <2>1, <2>3
    <2> QED
        BY <2>2, <2>3 DEF WrongPassword, Login, EndSession, vars
<1>3. /\ seen \subseteq seen' /\ seen' \subseteq Users \X Devices
      /\ succeeded' \subseteq Users /\ session' \subseteq seen'
    <2>1. /\ seen \subseteq Users \X Devices /\ succeeded \subseteq Users
          /\ session \subseteq seen
        BY DEF IInv, TypeOK, SessionsAreSeen
    <2>2. CASE \E u \in Users, d \in Devices : Login(u, d) \/ EndSession(u, d)
        BY <2>1, <2>2 DEF Login, EndSession
    <2>3. CASE UNCHANGED evidence
        BY <2>1, <2>3 DEF evidence
    <2> QED
        BY <2>2, <2>3 DEF Tick, WrongPassword, vars
<1>4. rows' = rows /\ IsFiniteSet(rows')
    BY DEF Tick, WrongPassword, Login, EndSession, vars, evidence, IInv, TypeOK
<1>5. IInv'
    BY <1>1, <1>2, <1>3, <1>4, EvidenceStep
<1>6. Stops
    BY <1>1 DEF OrderVars, Stops, Kept, In
<1> QED
    BY <1>5, <1>6 DEF StepOK

\* Every step keeps the invariant and the action property.
LEMMA NextStep == IInv /\ [LabNext]_allVars => StepOK
<1> SUFFICES ASSUME IInv, [LabNext]_allVars PROVE StepOK
    OBVIOUS
<1>1. CASE UNCHANGED allVars
    BY <1>1, EvidenceSteps DEF allVars
<1>2. CASE ApiNext /\ UNCHANGED labVars
    <2>1. ASSUME NEW o \in OrderIds,
                 Commit(o) \/ Lose(o) \/ CancelOrder(o) \/ Refresh(o) \/ Review(o)
          PROVE  StepOK
        BY <1>2, <2>1, RequestEndStep, RestatusStep
    <2>2. ASSUME NEW u \in Users, NEW d \in Devices, NEW s \in Stocks, NEW ip \in Ips,
                 NEW amount \in Amounts, NEW abnormal \in Regions,
                 Submit(u, d, s, ip, abnormal, amount)
          PROVE  StepOK
        BY <1>2, <2>2, SubmitStep
    <2> QED
        BY <1>2, <2>1, <2>2, EvidenceSteps DEF ApiNext
<1> QED
    BY <1>1, <1>2, LabStartStep, SecondOrderStep, LabEndStep, StuffingStep DEF LabNext

----------------------------------------------------------------------------
\* The theorems

\* The inductive invariant holds of every reachable state.
THEOREM Invariance == LabSpec => []IInv
<1>1. IInv /\ [LabNext]_allVars => IInv'
    BY NextStep DEF StepOK
<1> QED
    BY InitIInv, <1>1, PTL DEF LabSpec

\* Every table holds what its columns can hold.
THEOREM TypeCorrect == LabSpec => []TypeOK
<1>1. IInv => TypeOK
    BY DEF IInv
<1> QED
    BY Invariance, <1>1, PTL

\* NEW_DEVICE_HIGH_AMOUNT and FAILED_LOGIN_THEN_ORDER hit no order that is
\* submitted on a session.
THEOREM RulesStayIdle == LabSpec => []IdleRules
<1>1. IInv => IdleRules
    BY DEF IInv
<1> QED
    BY Invariance, <1>1, PTL

\* Of two accounts that order one stock from one address within the window,
\* the second is hit, unless their transactions overlapped or the first order
\* was withdrawn.
THEOREM Noticed == LabSpec => []PairsAreNoticed
<1>1. IInv => PairsAreNoticed
    <2> SUFFICES ASSUME IInv, NEW a \in Kept, NEW b \in Kept,
                        Paired(a, b), <<a, b>> \notin met, a \notin withdrawn
                 PROVE  "SAME_IP_MULTI_ACCOUNT" \in order[b].hits
        BY DEF PairsAreNoticed
    <2>1. /\ a \in OrderIds /\ order[a] # NoOrder /\ order[a].phase = "COMMITTED"
          /\ b \in OrderIds /\ order[b] # NoOrder
        BY PhaseMeansPlaced DEF Kept
    <2> QED
        BY <2>1 DEF IInv, PairsAreSeen
<1> QED
    BY Invariance, <1>1, PTL

\* A scenario's orders are recorded together or not at all.
THEOREM Whole == LabSpec => []ScenarioIsWhole
<1>1. IInv => ScenarioIsWhole
    BY DEF IInv, ScenarioOwnsItsOrders, ScenarioIsWhole, Kept, In
<1> QED
    BY Invariance, <1>1, PTL

\* Only what the rules block or the market would fill is ever rolled back.
THEOREM NoHeldOrderLost == LabSpec => []HeldIsNeverLost
<1>1. IInv => HeldIsNeverLost
    BY DEF IInv
<1> QED
    BY Invariance, <1>1, PTL

\* The high-value order on the watchlist waits for a reviewer.
THEOREM ScenarioStopped == LabSpec => ScenarioOrderStopped
<1>1. IInv /\ [LabNext]_allVars =>
        [\A o \in OrderIds :
            o \in Kept' \ Kept /\ order'[o].user = trader /\ ~order'[o].onSession
                => order'[o].status \in {"BLOCKED", "HELD"}]_allVars
    BY NextStep DEF StepOK, Stops
<1> QED
    BY Invariance, <1>1, PTL DEF LabSpec, ScenarioOrderStopped
=============================================================================
