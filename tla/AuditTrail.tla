----------------------------- MODULE AuditTrail -----------------------------
(***************************************************************************)
(* Trading with the audit_logs rows its requests write, and what the       *)
(* administrator's screens make of them: the security feed, which rates    *)
(* every row, and the counts of the overview.                              *)
(*                                                                         *)
(* Of the rows about an order the last is kept: the order status it tells  *)
(* and the severity the feed gives it.  A row is written in the            *)
(* transaction of its request and goes with it.                            *)
(***************************************************************************)
EXTENDS Trading

VARIABLE trail      \* the last audit row about each order

auditVars == <<vars, trail>>

NoRow == [status |-> None, severity |-> None]
Severities == {"CRITICAL", "SUSPICIOUS", "CAUTION", "NORMAL"}

\* _feed_severity of the rows about orders: the last row of a request is none
\* of the ORDER_SECURITY ones.
FeedSeverity(type, decision, score) ==
    IF decision = "BLOCKED" \/ score >= 80 THEN "CRITICAL"
    ELSE IF decision = "AUTH_REQUIRED" \/ score >= 40 THEN "SUSPICIOUS"
    ELSE IF score >= 20 \/ type # "ADMIN_ACTION" THEN "CAUTION"
    ELSE "NORMAL"

\* record_audit
Record(o, type, decision, score) ==
    trail' = [trail EXCEPT ![o] =
        [status |-> status'[o], severity |-> FeedSeverity(type, decision, score)]]

----------------------------------------------------------------------------
AuditInit == Init /\ trail = [o \in OrderIds |-> NoRow]

\* A mutant: an order that is filled at once has no row of the fill's.
RecordCreatedOnly(o, score) ==
    trail' = IF status'[o] \in {None, "EXECUTED"} THEN trail
             ELSE [trail EXCEPT ![o] =
                [status |-> status'[o],
                 severity |-> FeedSeverity("ORDER_CREATED", event'[o].decision, score)]]

\* create_order: ORDER_CREATED with the decision and the score, and after it
\* ORDER_EXECUTED, which has neither; an order that raises has no rows.
RecordCreated(o, score) ==
    \/ status'[o] = None /\ UNCHANGED trail
    \/ status'[o] = "EXECUTED" /\ Record(o, "ORDER_EXECUTED", None, 0)
    \/ /\ status'[o] \notin {None, "EXECUTED"}
       /\ Record(o, "ORDER_CREATED", event'[o].decision, score)

\* A refresh records what it fills, not what it rejects.
RecordSynced(o) ==
    \/ status'[o] = "EXECUTED" /\ Record(o, "ORDER_EXECUTED", None, 0)
    \/ status'[o] # "EXECUTED" /\ UNCHANGED trail

\* Every admin action has its row, with the decision it leaves.
RecordReview(o) == Record(o, "ADMIN_ACTION", event'[o].decision, 0)

\* UNLOCK_ACCOUNT of a user who is not locked is recorded too.
UnlockAgain(o) ==
    /\ Idle /\ o \in Placed /\ userStatus[Owner(o)] = "ACTIVE"
    /\ UNCHANGED vars

AuditNext ==
    \/ /\ \E u \in Users : Login(u) \/ EndSession(u) \/ BeginSync(u)
       /\ UNCHANGED trail
    \/ \E t \in Terms, score \in Scores :
          /\ LabOrder(t, score) \/ \E view \in Views : SubmitOrder(t, score, view)
          /\ RecordCreated(nextOrder, score)
    \/ \E o \in todo, p \in Prices : SyncOrder(o, p) /\ RecordSynced(o)
    \/ \E o \in OrderIds :
          \/ CancelOrder(o) /\ Record(o, "ORDER_CANCELLED", None, 0)
          \/ (AdminAction(o) \/ UnlockAgain(o)) /\ RecordReview(o)

AuditSpec == AuditInit /\ [][AuditNext]_auditVars

----------------------------------------------------------------------------
\* get_security_overview
OpenStatuses == {"OPEN", "AUTH_REQUIRED", "BLOCKED"}
OpenRiskEvents == {o \in Placed : event[o].status \in OpenStatuses}
AuthRequiredEvents == {o \in Placed : event[o].status = "AUTH_REQUIRED"}
PendingAdditionalAuth == {o \in Placed : event[o].pendingAuth > 0}

----------------------------------------------------------------------------
TrailTypeOK ==
    trail \in [OrderIds -> [status: OrderStatus, severity: Severities] \cup {NoRow}]

\* The audit trail knows the fate of every order: its last row tells the
\* status the order has, though seven operations in three services write the
\* status and the rows, some in the same request and some after a rollback.
\* The one change nobody records is a refresh that rejects an order.
TrailTellsStatus ==
    \A o \in OrderIds :
        \/ trail[o].status = status[o]
        \/ trail[o].status = "ACCEPTED" /\ status[o] = "REJECTED"

\* FEATURES.md:209 "forensic observation linked with the audit log": the last
\* row about an order that is blocked is CRITICAL in the feed, about one that
\* waits for authentication SUSPICIOUS, whoever decided so.
FeedShowsDecision ==
    \A o \in Placed :
        /\ status[o] = "BLOCKED" => trail[o].severity = "CRITICAL"
        /\ status[o] = "HELD" /\ event[o].decision = "AUTH_REQUIRED"
              => trail[o].severity = "SUSPICIOUS"

\* The overview misses nothing that waits: an order that is held or blocked
\* is among its open events, and an event that requires authentication among
\* its pending requests (the latter also counts what was approved since).
OverviewCountsWaiting ==
    /\ {o \in Placed : status[o] \in {"HELD", "BLOCKED"}} \subseteq OpenRiskEvents
    /\ AuthRequiredEvents \subseteq PendingAdditionalAuth
=============================================================================
