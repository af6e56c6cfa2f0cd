------------------------------- MODULE Enums -------------------------------
(***************************************************************************)
(* The enumerations of backend/app/core/enums.py that more than one module *)
(* uses, the risk bands of backend/app/fds/engine.py, and what an order    *)
(* request can see of the session it arrives on.                           *)
(***************************************************************************)
EXTENDS Naturals

\* The value of a column that has not been written yet.
None == "NONE"

UserStatus == {"ACTIVE", "LOCKED"}

DeviceTrustStatus == {"TRUSTED", "WATCH", "STEP_UP_REQUIRED", "BLOCKED"}

\* ADMIN_APPROVED is declared in the source and assigned nowhere.
AuthStrength == {"PASSWORD_ONLY", "PASSWORD_PLUS_DEVICE", "STEP_UP_REQUIRED"}

OrderStatus == {"PENDING", "ACCEPTED", "HELD", "BLOCKED",
                "EXECUTED", "CANCELLED", "REJECTED"}

RiskDecision == {"ALLOW", "HELD", "BLOCKED", "AUTH_REQUIRED"}

\* RESOLVED is declared in the source and assigned nowhere.
RiskEventStatus == {"AUTO_ALLOWED", "OPEN", "APPROVED", "BLOCKED", "AUTH_REQUIRED"}

----------------------------------------------------------------------------
\* The decision and the event status the engine attaches to a total score.
\* The severity is left out: nothing that changes state reads it.
RiskBand(score) ==
    IF score >= 80 THEN [decision |-> "BLOCKED", status |-> "BLOCKED"]
    ELSE IF score >= 60 THEN [decision |-> "HELD", status |-> "OPEN"]
    ELSE [decision |-> "ALLOW", status |-> "AUTO_ALLOWED"]

\* What order screening reads of a session: the present trust of its device,
\* the strength fixed at login, and whether its risk score reaches 60.
SessionView == [trust: DeviceTrustStatus, strength: AuthStrength, highRisk: BOOLEAN]

\* A device is WATCH only from its first login to the first admin action, so
\* its sessions are PASSWORD_ONLY; a device score that makes a session reach
\* 60 always comes with a trust status that makes the login STEP_UP_REQUIRED.
SessionViews ==
    {v \in SessionView :
        /\ v.trust = "WATCH" => v.strength = "PASSWORD_ONLY"
        /\ v.highRisk => v.strength = "STEP_UP_REQUIRED"}
=============================================================================
