----------------------------- MODULE FraudRules -----------------------------
(***************************************************************************)
(* The rule catalogue and the score of backend/app/fds: what the engine    *)
(* makes of the evidence it has collected about one order.                 *)
(*                                                                         *)
(* Evidence is the part of RuleContext the conditions read.  Severities    *)
(* and wording are left out, except for the length of the joined reasons,  *)
(* which has to fit a column.                                              *)
(***************************************************************************)
EXTENDS Enums, Integers, FiniteSets

CONSTANTS
    HighAmount,     \* settings.high_amount_threshold
    SpikeAmount,    \* average_order_amount * settings.order_spike_multiplier
    CancelBurst     \* settings.order_cancel_burst_threshold

\* average_order_amount is written at registration only, so SpikeAmount is
\* one number.
ASSUME FraudRulesAssumption ==
    HighAmount \in Nat /\ SpikeAmount \in Nat /\ CancelBurst \in Nat

Rules == {"NEW_DEVICE_HIGH_AMOUNT", "FOREIGN_IP_FAST_ORDER", "FAILED_LOGIN_THEN_ORDER",
          "HIGH_AMOUNT_SPIKE", "BURST_ORDER_ACTIVITY", "WATCHLIST_STOCK_ORDER",
          "SAME_IP_MULTI_ACCOUNT"}

Evidence ==
    [amount: Nat,           \* order_amount
     newDevice: BOOLEAN,    \* no device_history row of the user and device
     loggedIn: BOOLEAN,     \* a successful login of the user, however old
     abnormal: BOOLEAN,     \* the request's region is an abnormal one
     failures: Nat,         \* recent_failed_logins
     cancels: Nat,          \* recent_cancel_or_modify_count
     watchlist: BOOLEAN,    \* stocks.is_watchlist
     peers: Nat]            \* same_ip_peer_orders

Fires(rule, e) ==
    \/ /\ rule = "NEW_DEVICE_HIGH_AMOUNT"
       /\ e.newDevice /\ e.amount >= HighAmount
    \/ rule = "FOREIGN_IP_FAST_ORDER" /\ e.loggedIn /\ e.abnormal
    \/ rule = "FAILED_LOGIN_THEN_ORDER" /\ e.failures >= 3
    \/ rule = "HIGH_AMOUNT_SPIKE" /\ e.amount >= SpikeAmount
    \/ rule = "BURST_ORDER_ACTIVITY" /\ e.cancels >= CancelBurst
    \/ rule = "WATCHLIST_STOCK_ORDER" /\ e.watchlist
    \/ rule = "SAME_IP_MULTI_ACCOUNT" /\ e.peers >= 1

Hits(e) == {rule \in Rules : Fires(rule, e)}

----------------------------------------------------------------------------
Score ==
    [NEW_DEVICE_HIGH_AMOUNT |-> 35, FOREIGN_IP_FAST_ORDER |-> 45,
     FAILED_LOGIN_THEN_ORDER |-> 30, HIGH_AMOUNT_SPIKE |-> 40,
     BURST_ORDER_ACTIVITY |-> 30, WATCHLIST_STOCK_ORDER |-> 50,
     SAME_IP_MULTI_ACCOUNT |-> 55]

\* The characters of each reason, the shortest device id and IP address in it,
\* and of the " | " that joins it to the next.
ReasonLength ==
    [NEW_DEVICE_HIGH_AMOUNT |-> 48, FOREIGN_IP_FAST_ORDER |-> 43,
     FAILED_LOGIN_THEN_ORDER |-> 45, HIGH_AMOUNT_SPIKE |-> 69,
     BURST_ORDER_ACTIVITY |-> 46, WATCHLIST_STOCK_ORDER |-> 40,
     SAME_IP_MULTI_ACCOUNT |-> 68]

\* The sum of a table over the rules that hit.
SumOver(hits, table) ==
    LET Of(rule) == IF rule \in hits THEN table[rule] ELSE 0
    IN  Of("NEW_DEVICE_HIGH_AMOUNT") + Of("FOREIGN_IP_FAST_ORDER")
        + Of("FAILED_LOGIN_THEN_ORDER") + Of("HIGH_AMOUNT_SPIKE")
        + Of("BURST_ORDER_ACTIVITY") + Of("WATCHLIST_STOCK_ORDER")
        + Of("SAME_IP_MULTI_ACCOUNT")

\* A mutant: only the worst of the hits counts.
TotalScoreOfWorst(hits) ==
    IF hits = {} THEN 0
    ELSE CHOOSE n \in {Score[rule] : rule \in hits} : \A rule \in hits : Score[rule] <= n

TotalScore(hits) == SumOver(hits, Score)

\* A mutant: the column is shorter.
SummaryFitsShortColumn(hits) == SumOver(hits, ReasonLength) - 3 <= 100

\* The joined reasons fit risk_events.summary; where they do not, the INSERT
\* of the event fails and takes the order with it.
SummaryFits(hits) == SumOver(hits, ReasonLength) - 3 <= 255

Decision(hits) == RiskBand(TotalScore(hits)).decision
=============================================================================
