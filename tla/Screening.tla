----------------------------- MODULE Screening -----------------------------
(***************************************************************************)
(* The evidence the rules of FraudRules read and the orders they judge:    *)
(* fds/engine.evaluate_order_risk and risk_service inside create_order,    *)
(* with the logins, cancellations and reviews that write what it counts.   *)
(*                                                                         *)
(* A submission is two steps.  Evaluate reads what is committed, and what  *)
(* its own transaction has flushed; Commit makes the order and its risk    *)
(* event visible, or Lose rolls both back.  In between other requests run, *)
(* each with a transaction of its own (READ COMMITTED).  The other         *)
(* requests are single steps.  Time is a clock, for the windows.           *)
(***************************************************************************)
EXTENDS FraudRules

CONSTANTS
    Users, Devices, Stocks, Ips,
    Watchlist,      \* stocks with is_watchlist
    Amounts,        \* amounts of orders
    Regions,        \* of BOOLEAN: whether requests come from abnormal regions
    PeerWindow,     \* settings.multi_account_window_minutes
    CancelWindow,   \* settings.order_cancel_window_minutes
    FailureWindow,  \* settings.login_failure_window_minutes
    MaxOrders,      \* bound: orders submitted; what nobody reads any more, once
                    \* the last is evaluated, no longer changes
    MaxSubmits,     \* bound: those of them submitted on a session
    MaxCancels,     \* bound: cancellations
    MaxTime         \* bound: the clock

ASSUME ScreeningInstance ==
    /\ Watchlist \subseteq Stocks /\ Amounts \subseteq Nat /\ Regions \subseteq BOOLEAN
    /\ {PeerWindow, CancelWindow, FailureWindow} \subseteq Nat
    /\ {MaxOrders, MaxSubmits, MaxCancels, MaxTime} \subseteq Nat

OrderIds == 1..MaxOrders
Times == 0..MaxTime

\* The rows the engine counts: login_history without success, and the
\* ORDER_CANCELLED rows of audit_logs (nothing writes ORDER_MODIFIED).
RowKinds == {"LOGIN_FAILED", "ORDER_CANCELLED"}

VARIABLES
    now,
    seen,           \* device_history, as pairs of user and device
    succeeded,      \* users with a successful row in login_history
    session,        \* ACTIVE auth_sessions, as pairs of user and device
    rows,           \* committed rows of both tables
    order,          \* orders and the rules that hit them
    nextOrder,      \* next identifier
    met,            \* history: pairs of orders whose transactions overlapped
    withdrawn       \* history: orders once CANCELLED or REJECTED

history == <<met, withdrawn>>
evidence == <<seen, succeeded, session, rows>>
vars == <<now, evidence, order, nextOrder, history>>

NoOrder == [phase |-> None]
\* The bound on orders leaves someone to read what a step changes.
Open == nextOrder \in OrderIds

In(phase) == {o \in OrderIds : order[o].phase = phase}

\* What a SELECT in transaction tx sees of order o.
Visible(o, tx) ==
    \/ order[o].phase = "COMMITTED"
    \/ order[o].phase = "FLUSHED" /\ order[o].tx = tx

Written(user, kind) ==
    [id |-> Cardinality(rows), kind |-> kind, user |-> user, at |-> now]

Recent(u, kind, window) ==
    Cardinality({r \in rows : r.user = u /\ r.kind = kind /\ now - r.at <= window})

----------------------------------------------------------------------------
Init ==
    /\ now = 0
    /\ seen = {} /\ succeeded = {} /\ session = {}
    /\ rows = {}
    /\ order = [o \in OrderIds |-> NoOrder]
    /\ nextOrder = 1
    /\ met = {} /\ withdrawn = {}

\* A mutant: the session is committed before the device history.
LoginWithoutHistory(u, d) ==
    /\ Open
    /\ session' = session \cup {<<u, d>>}
    /\ succeeded' = succeeded \cup {u}
    /\ UNCHANGED <<now, seen, rows, order, nextOrder, history>>

\* POST /auth/login: one transaction writes the login, the device and the
\* session.
Login(u, d) ==
    /\ Open
    /\ session' = session \cup {<<u, d>>}
    /\ succeeded' = succeeded \cup {u}
    /\ seen' = seen \cup {<<u, d>>}
    /\ UNCHANGED <<now, rows, order, nextOrder, history>>

\* Logout, expiry or revocation.
EndSession(u, d) ==
    /\ Open /\ <<u, d>> \in session
    /\ session' = session \ {<<u, d>>}
    /\ UNCHANGED <<now, seen, succeeded, rows, order, nextOrder, history>>

\* A mutant: the route keeps the row of the failed attempt.
WrongPasswordKept(u) ==
    /\ Open /\ Recent(u, "LOGIN_FAILED", MaxTime) < 3
    /\ rows' = rows \cup {Written(u, "LOGIN_FAILED")}
    /\ UNCHANGED <<now, seen, succeeded, session, order, nextOrder, history>>

\* POST /auth/login with a wrong password: the row is flushed and the route
\* rolls it back.
WrongPassword(u) ==
    /\ Open
    /\ UNCHANGED vars

----------------------------------------------------------------------------
Listed == {"ACCEPTED", "HELD", "BLOCKED", "EXECUTED"}

\* A mutant: an order that was filled no longer counts.
PeersUnfilled(u, s, ip, tx) ==
    {o \in OrderIds :
        /\ Visible(o, tx)
        /\ order[o].user # u /\ order[o].stock = s /\ order[o].ip = ip
        /\ now - order[o].at <= PeerWindow
        /\ order[o].status \in Listed \ {"EXECUTED"}}

Peers(u, s, ip, tx) ==
    {o \in OrderIds :
        /\ Visible(o, tx)
        /\ order[o].user # u /\ order[o].stock = s /\ order[o].ip = ip
        /\ now - order[o].at <= PeerWindow
        /\ order[o].status \in Listed}

EvidenceOn(u, d, s, ip, abnormal, amount, tx) ==
    [amount |-> amount, newDevice |-> <<u, d>> \notin seen,
     loggedIn |-> u \in succeeded, abnormal |-> abnormal,
     failures |-> Recent(u, "LOGIN_FAILED", FailureWindow),
     cancels |-> Recent(u, "ORDER_CANCELLED", CancelWindow),
     watchlist |-> s \in Watchlist, peers |-> Cardinality(Peers(u, s, ip, tx))]

\* What create_order makes of the decision.  The controls of the session may
\* hold what the rules allow; which of the two an allowed order becomes is up
\* to the market.
Outcomes(decision, onSession) ==
    IF decision = "ALLOW"
    THEN {"ACCEPTED", "EXECUTED"} \cup (IF onSession THEN {"HELD"} ELSE {})
    ELSE {decision}

\* create_order up to its flushes; the order is the next, in transaction tx.
Evaluate(u, d, s, ip, amount, hits, tx, onSession) ==
    /\ Open
    /\ \E st \in Outcomes(Decision(hits), onSession) :
          order' = [order EXCEPT ![nextOrder] =
              [phase |-> "FLUSHED", tx |-> tx, onSession |-> onSession, user |-> u,
               device |-> d, stock |-> s, ip |-> ip, amount |-> amount, at |-> now,
               hits |-> hits, status |-> st]]
    /\ nextOrder' = nextOrder + 1
    /\ met' = met \cup {<<o, nextOrder>> : o \in {f \in In("FLUSHED") : order[f].tx # tx}}

\* POST /orders on a session: the request must come from its device.
Submit(u, d, s, ip, abnormal, amount) ==
    /\ <<u, d>> \in session
    /\ Cardinality({o \in OrderIds \ In(None) : order[o].onSession}) < MaxSubmits
    /\ Evaluate(u, d, s, ip, amount,
           Hits(EvidenceOn(u, d, s, ip, abnormal, amount, nextOrder)), nextOrder, TRUE)
    /\ UNCHANGED <<now, evidence, withdrawn>>

\* The orders of a transaction end together.
EndOf(tx, phase) ==
    order' = [o \in OrderIds |->
        IF o \in In("FLUSHED") /\ order[o].tx = tx
        THEN [order[o] EXCEPT !.phase = phase] ELSE order[o]]

InTx(tx) == {o \in In("FLUSHED") : order[o].tx = tx}

\* The INSERT of every event of the transaction succeeds.
Storable(tx) == InTx(tx) # {} /\ \A o \in InTx(tx) : SummaryFits(order[o].hits)

\* An order raises where its event does not fit, or where the market would
\* fill it and the account does not cover it.
Raises(o) == ~SummaryFits(order[o].hits) \/ order[o].status = "EXECUTED"

Commit(o) ==
    /\ o \in In("FLUSHED") /\ order[o].onSession
    /\ Storable(o)
    /\ EndOf(o, "COMMITTED")
    /\ UNCHANGED <<now, evidence, nextOrder, history>>

Lose(o) ==
    /\ o \in In("FLUSHED") /\ order[o].onSession
    /\ Raises(o)
    /\ EndOf(o, "LOST")
    /\ UNCHANGED <<now, evidence, nextOrder, history>>

----------------------------------------------------------------------------
\* A committed order afterwards

SetStatus(o, st) ==
    /\ order' = [order EXCEPT ![o].status = st]
    /\ withdrawn' = IF st \in {"CANCELLED", "REJECTED"} THEN withdrawn \cup {o} ELSE withdrawn

\* POST /orders/{id}/cancel, on a session of the owner.
CancelOrder(o) ==
    LET u == order[o].user IN
    /\ Open /\ o \in In("COMMITTED") /\ order[o].status \in {"ACCEPTED", "HELD"}
    /\ \E d \in Devices : <<u, d>> \in session
    /\ Cardinality({r \in rows : r.kind = "ORDER_CANCELLED"}) < MaxCancels
    /\ SetStatus(o, "CANCELLED")
    /\ rows' = rows \cup {Written(u, "ORDER_CANCELLED")}
    /\ UNCHANGED <<now, seen, succeeded, session, nextOrder, met>>

\* GET /orders of the owner fills an accepted order or rejects it.
Refresh(o) ==
    /\ Open /\ o \in In("COMMITTED") /\ order[o].status = "ACCEPTED"
    /\ \E d \in Devices : <<order[o].user, d>> \in session
    /\ SetStatus(o, "EXECUTED") \/ SetStatus(o, "REJECTED")
    /\ UNCHANGED <<now, evidence, nextOrder, met>>

\* POST /admin/risk-events/{id}/actions on the event of o: BLOCK or
\* LOCK_ACCOUNT, REQUEST_ADDITIONAL_AUTH, whatever the status; APPROVE.
Review(o) ==
    /\ Open /\ o \in In("COMMITTED")
    /\ \/ SetStatus(o, "BLOCKED")
       \/ SetStatus(o, "HELD")
       \/ /\ order[o].status \in {"HELD", "BLOCKED"}
          /\ SetStatus(o, "ACCEPTED") \/ SetStatus(o, "EXECUTED")
    /\ UNCHANGED <<now, evidence, nextOrder, met>>

Tick ==
    /\ Open /\ now < MaxTime
    /\ now' = now + 1
    /\ UNCHANGED <<evidence, order, nextOrder, history>>

ApiNext ==
    \/ Tick
    \/ \E u \in Users : WrongPassword(u)
    \/ \E u \in Users, d \in Devices :
          \/ Login(u, d) \/ EndSession(u, d)
          \/ \E s \in Stocks, ip \in Ips, amount \in Amounts, abnormal \in Regions :
                Submit(u, d, s, ip, abnormal, amount)
    \/ \E o \in OrderIds : Commit(o) \/ Lose(o) \/ CancelOrder(o) \/ Refresh(o) \/ Review(o)

Next == ApiNext
Spec == Init /\ [][Next]_vars
=============================================================================
