-------------------------------- MODULE Lab --------------------------------
(***************************************************************************)
(* The attack scenarios of lab_service on top of Screening: each is one    *)
(* transaction of an administrator that submits orders for the demo users  *)
(* without a session, while the demo users and others trade.               *)
(*                                                                         *)
(* A scenario is cut where it evaluates an order and where it commits.     *)
(* What is stated of Screening is stated here, where both run.             *)
(***************************************************************************)
EXTENDS Screening

CONSTANTS
    trader, analyst,        \* the demo users
    plain, watched,         \* the stocks ordered: 005930, and 051910 or 035420
    labIp,                  \* the address of the scenario's orders
    labDevice,              \* a device nobody signs in from
    LabAmount,              \* five shares of the watched stock
    SmallAmount,            \* three shares of the plain stock
    LockThreshold,          \* settings.login_failure_lock_threshold
    MaxRuns                 \* bound: scenarios executed

Scenarios == {"watchlist_high_value", "credential_stuffing_then_trade", "same_ip_multi_account"}

ASSUME LabAssumption ==
    /\ {trader, analyst} \subseteq Users /\ trader # analyst
    /\ plain \in Stocks \ Watchlist /\ watched \in Watchlist
    /\ labIp \in Ips /\ labDevice \notin Devices
    /\ {LabAmount, SmallAmount, MaxRuns} \subseteq Nat
    /\ LockThreshold \in 1..5

\* Five shares at the seed price of 348,000 won are far above three average
\* orders of 250,000.  The price is live: the assumption is that the stock
\* does not fall below 150,000.
ASSUME LabOrderIsLarge == LabAmount >= SpikeAmount

VARIABLES
    lab,            \* the scenario under way: which, its first order, those to come
    finished        \* history: scenarios ended, with their orders

labVars == <<lab, finished>>
allVars == <<vars, labVars>>

NoLab == [scenario |-> None]
LabInit == Init /\ lab = NoLab /\ finished = {}

\* _execute_order: no session, so no order controls.
LabOrder(u, s, abnormal, amount, tx) ==
    Evaluate(u, labDevice, s, labIp, amount,
        Hits(EvidenceOn(u, labDevice, s, labIp, abnormal, amount, tx)), tx, FALSE)

Start(scenario, left) ==
    /\ lab = NoLab /\ Cardinality(finished) < MaxRuns
    /\ nextOrder + left \in OrderIds
    /\ lab' = [scenario |-> scenario, tx |-> nextOrder, left |-> left]
    /\ UNCHANGED <<now, evidence, withdrawn, finished>>

WatchlistHighValue ==
    /\ Start("watchlist_high_value", 0)
    /\ LabOrder(trader, watched, TRUE, LabAmount, nextOrder)

\* Of five wrong passwords in one transaction, the one that reaches the
\* threshold raises PermissionError, which nothing catches: no order is made.
CredentialStuffing ==
    /\ lab = NoLab /\ Cardinality(finished) < MaxRuns
    /\ finished' = finished \cup
           {[scenario |-> "credential_stuffing_then_trade", tx |-> 0, done |-> FALSE]}
    /\ UNCHANGED <<vars, lab>>

SameIpMultiAccount ==
    /\ Start("same_ip_multi_account", 1)
    /\ LabOrder(analyst, plain, FALSE, SmallAmount, nextOrder)

SameIpSecondOrder ==
    /\ lab # NoLab /\ lab.left = 1
    /\ Storable(lab.tx)
    /\ LabOrder(trader, watched, TRUE, LabAmount, lab.tx)
    /\ lab' = [lab EXCEPT !.left = 0]
    /\ UNCHANGED <<now, evidence, withdrawn, finished>>

Ended(done) ==
    /\ lab' = NoLab
    /\ finished' = finished \cup {[scenario |-> lab.scenario, tx |-> lab.tx, done |-> done]}

\* The route commits.
LabCommit ==
    /\ lab # NoLab /\ lab.left = 0
    /\ Storable(lab.tx)
    /\ EndOf(lab.tx, "COMMITTED")
    /\ Ended(TRUE)
    /\ UNCHANGED <<now, evidence, nextOrder, history>>

\* The order the scenario submitted last.
Latest(o) == \A other \in InTx(lab.tx) : other <= o

\* A mutant: the orders submitted before the one that raised are kept.
LabRaisesHalfway ==
    /\ lab # NoLab /\ \E o \in InTx(lab.tx) : Latest(o) /\ Raises(o)
    /\ order' = [o \in OrderIds |->
            IF o \in InTx(lab.tx)
            THEN [order[o] EXCEPT !.phase = IF Latest(o) THEN "LOST" ELSE "COMMITTED"]
            ELSE order[o]]
    /\ Ended(FALSE)
    /\ UNCHANGED <<now, evidence, nextOrder, history>>

\* An order that cannot be covered or recorded takes the scenario with it.
LabRaises ==
    /\ lab # NoLab /\ \E o \in InTx(lab.tx) : Latest(o) /\ Raises(o)
    /\ EndOf(lab.tx, "LOST")
    /\ Ended(FALSE)
    /\ UNCHANGED <<now, evidence, nextOrder, history>>

LabNext ==
    \/ ApiNext /\ UNCHANGED labVars
    \/ WatchlistHighValue \/ CredentialStuffing
    \/ SameIpMultiAccount \/ SameIpSecondOrder
    \/ LabCommit \/ LabRaises

LabSpec == LabInit /\ [][LabNext]_allVars

----------------------------------------------------------------------------
Kept == In("COMMITTED")

Orders ==
    [phase: {"FLUSHED", "COMMITTED", "LOST"}, tx: OrderIds, onSession: BOOLEAN,
     user: Users, device: Devices \cup {labDevice}, stock: Stocks, ip: Ips, amount: Nat,
     at: Times, hits: SUBSET Rules, status: OrderStatus]

\* The type invariant of both modules.
TypeOK ==
    /\ now \in Times
    /\ seen \subseteq Users \X Devices /\ succeeded \subseteq Users
    /\ session \subseteq Users \X Devices
    /\ IsFiniteSet(rows) /\ rows \subseteq [id: Nat, kind: RowKinds, user: Users, at: Times]
    /\ nextOrder \in 1..(MaxOrders + 1)
    /\ order \in [OrderIds -> Orders \cup {NoOrder}]
    /\ \A o \in OrderIds : order[o] # NoOrder <=> o < nextOrder
    /\ met \subseteq OrderIds \X OrderIds /\ withdrawn \subseteq OrderIds
    /\ lab \in [scenario: Scenarios, tx: OrderIds, left: {0, 1}] \cup {NoLab}
    /\ \A f \in finished : f.scenario \in Scenarios /\ f.done \in BOOLEAN

\* Two of the seven rules never hit an order sent to the API, whatever the
\* logins before it: a request must come from the device of its session,
\* which its login put on record, and no failed login is ever on record.
IdleRules ==
    \A o \in OrderIds :
        order[o] # NoOrder /\ order[o].onSession =>
            order[o].hits \cap {"NEW_DEVICE_HIGH_AMOUNT", "FAILED_LOGIN_THEN_ORDER"} = {}

Paired(a, b) ==
    /\ a < b
    /\ order[a].user # order[b].user
    /\ order[a].stock = order[b].stock /\ order[a].ip = order[b].ip
    /\ order[b].at - order[a].at <= PeerWindow

\* Two accounts that order one stock from one address are noticed, however
\* the first order is filled, held or blocked by then and whoever submits
\* the two, unless their transactions overlap (neither sees the other) or
\* the first was cancelled or rejected.
PairsAreNoticed ==
    \A a, b \in Kept :
        Paired(a, b) /\ <<a, b>> \notin met /\ a \notin withdrawn
            => "SAME_IP_MULTI_ACCOUNT" \in order[b].hits

\* The orders of one scenario are all recorded or all lost, also where the
\* second cannot be covered after the first was executed.
ScenarioIsWhole ==
    \A f \in finished :
        LET made == {o \in OrderIds : order[o] # NoOrder /\ ~order[o].onSession
                                        /\ order[o].tx = f.tx}
        IN  /\ f.done => made \subseteq Kept
            /\ ~f.done => made \cap Kept = {}

\* README.md:45 "Every evaluation creates a persisted `risk_event`": where the
\* order and its event are lost after all, because the reasons of too many
\* rules do not fit the column or the account does not cover the order, the
\* market would have filled an order of the request or the rules blocked it.
\* No order that was to wait for a price or a reviewer is lost.
HeldIsNeverLost ==
    \A o \in In("LOST") : \E p \in In("LOST") :
        order[p].tx = order[o].tx /\ order[p].status \in {"EXECUTED", "BLOCKED"}

\* lab_service.py:31 "blocked or held, then reviewed": the high-value order on
\* the watchlist never trades before an administrator has dealt with it, with
\* or without a login of the trader and whatever else is going on.
ScenarioOrderStopped ==
    [][\A o \in OrderIds :
            o \in Kept' \ Kept /\ order'[o].user = trader /\ ~order'[o].onSession
                => order'[o].status \in {"BLOCKED", "HELD"}]_allVars

----------------------------------------------------------------------------
\* The strengthening under which the properties are inductive

\* A login puts the device of its session on record.
SessionsAreSeen == session \subseteq seen

\* The row of a failed attempt is rolled back with it.
NoFailureKept == \A r \in rows : r.kind # "LOGIN_FAILED"

OrdersAreScreened ==
    \A o \in OrderIds : order[o] # NoOrder =>
        /\ order[o].tx <= o
        /\ order[o].onSession => order[o].tx = o
        /\ o \notin withdrawn => order[o].status \in Listed
        /\ order[o].phase \in {"FLUSHED", "LOST"} =>
              order[o].status \in Outcomes(Decision(order[o].hits), order[o].onSession)
        /\ order[o].phase = "FLUSHED" /\ order[o].user = trader /\ ~order[o].onSession
              => order[o].status \in {"BLOCKED", "HELD"}

\* Of every pair that still counts, the second was evaluated with the first
\* in sight, whether they are committed or not.
PairsAreSeen ==
    \A a, b \in OrderIds :
        /\ order[a] # NoOrder /\ order[b] # NoOrder
        /\ order[a].phase # "LOST"
        /\ Paired(a, b) /\ <<a, b>> \notin met /\ a \notin withdrawn
        => "SAME_IP_MULTI_ACCOUNT" \in order[b].hits

\* The orders of the scenario under way are flushed, and those of one that
\* has ended ended with it.
ScenarioOwnsItsOrders ==
    /\ lab # NoLab =>
          /\ order[lab.tx] # NoOrder /\ ~order[lab.tx].onSession
          /\ order[lab.tx].tx = lab.tx
          /\ \A o \in OrderIds :
                order[o] # NoOrder /\ order[o].tx = lab.tx => order[o].phase = "FLUSHED"
    /\ \A f \in finished :
          /\ f.tx \in 0..(nextOrder - 1)
          /\ lab # NoLab => f.tx # lab.tx
          /\ \A o \in OrderIds :
                order[o] # NoOrder /\ ~order[o].onSession /\ order[o].tx = f.tx
                    => order[o].phase = IF f.done THEN "COMMITTED" ELSE "LOST"

\* The inductive invariant of LabProofs.
IInv ==
    /\ TypeOK /\ IdleRules /\ HeldIsNeverLost
    /\ SessionsAreSeen /\ NoFailureKept
    /\ OrdersAreScreened /\ PairsAreSeen /\ ScenarioOwnsItsOrders
=============================================================================
