-------------------------- MODULE SessionSecurity --------------------------
(***************************************************************************)
(* Logins, devices and sessions: auth_service.authenticate_user and        *)
(* logout_user, the device and session part of security_service, and the   *)
(* account locks of admin_service.                                         *)
(*                                                                         *)
(* As in Trading the state is the committed database and requests run one  *)
(* at a time.  A login that raises is rolled back by its route.  Login and *)
(* device histories and audit rows are left out; time appears as the step  *)
(* that makes a session expire.                                            *)
(***************************************************************************)
EXTENDS Enums, Integers, FiniteSets

CONSTANTS
    Users,
    Devices,        \* x-device-id values; a device row belongs to one user
    Concurrency,    \* settings.session_concurrency_threshold
    LockThreshold,  \* settings.login_failure_lock_threshold
    MaxSessions,    \* bound: sessions created
    MaxWrong        \* bound: wrong passwords in a row

ASSUME SessionAssumption ==
    /\ Concurrency \in Nat
    /\ LockThreshold \in Nat \ {0}
    /\ MaxSessions \in Nat /\ MaxWrong \in Nat

SessionIds == 1..MaxSessions

VARIABLES
    userStatus,     \* users.status
    device,         \* security_devices by user and device id
    session,        \* auth_sessions
    nextSession,    \* next session id
    wrong           \* history: wrong passwords since the last login

vars == <<userStatus, device, session, nextSession, wrong>>

NoDevice == [trust |-> None, risk |-> 0, primary |-> FALSE]
NoSession == [user |-> None, device |-> None, strength |-> None,
              risk |-> 0, status |-> None, expired |-> FALSE]

Created == 1..(nextSession - 1)

Known(u) == {d \in Devices : device[u][d] # NoDevice}

Active(s) == session[s].status = "ACTIVE"

\* What _validate_session lets through; it does not look at the user.
Live(s) == Active(s) /\ ~session[s].expired

\* The device row of a session, and what order screening reads of the two.
DeviceOf(s) == device[session[s].user][session[s].device]

View(s) == [trust |-> DeviceOf(s).trust, strength |-> session[s].strength,
            highRisk |-> session[s].risk >= 60]

----------------------------------------------------------------------------
AtLeast(risk, floor) == IF risk < floor THEN floor ELSE risk
AtMost(risk, ceiling) == IF risk > ceiling THEN ceiling ELSE risk

\* A device row whose trust and score are rewritten.
Rated(row, trust, risk) ==
    [trust |-> trust, risk |-> risk, primary |-> row.primary]

\* upsert_security_device, for a login from a normal or an abnormal region:
\* the row the login leaves.
FirstSeen(u, abnormal) ==
    [trust |-> IF abnormal THEN "STEP_UP_REQUIRED" ELSE "WATCH",
     risk |-> IF abnormal THEN 55 ELSE 25,
     primary |-> Known(u) = {}]

\* A mutant: a known device keeps its score when it is distrusted.
SeenAgainSameRisk(row, abnormal) ==
    IF abnormal /\ row.trust # "BLOCKED"
    THEN Rated(row, "STEP_UP_REQUIRED", row.risk)
    ELSE row

SeenAgain(row, abnormal) ==
    IF abnormal /\ row.trust # "BLOCKED"
    THEN Rated(row, "STEP_UP_REQUIRED", AtLeast(row.risk, 55))
    ELSE row

Upsert(u, d, abnormal) ==
    IF d \in Known(u) THEN SeenAgain(device[u][d], abnormal) ELSE FirstSeen(u, abnormal)

\* A mutant: only a blocked device asks for step-up.
StrengthOfBlocked(trust) ==
    IF trust = "TRUSTED" THEN "PASSWORD_PLUS_DEVICE"
    ELSE IF trust = "BLOCKED" THEN "STEP_UP_REQUIRED"
    ELSE "PASSWORD_ONLY"

\* create_authenticated_session on a device row.
Strength(trust) ==
    IF trust = "TRUSTED" THEN "PASSWORD_PLUS_DEVICE"
    ELSE IF trust \in {"STEP_UP_REQUIRED", "BLOCKED"} THEN "STEP_UP_REQUIRED"
    ELSE "PASSWORD_ONLY"

LiveSessions(u) == {s \in Created : session[s].user = u /\ Live(s)}

NewSession(u, d, row) ==
    [user |-> u, device |-> d, strength |-> Strength(row.trust),
     risk |-> row.risk + (IF Cardinality(LiveSessions(u)) >= Concurrency THEN 15 ELSE 0),
     status |-> "ACTIVE", expired |-> FALSE]

\* A mutant: a revoked session is also stripped of its owner.
RevokedOwnerless(row) == [row EXCEPT !.status = "REVOKED", !.user = None]

Revoked(row) == [row EXCEPT !.status = "REVOKED"]

----------------------------------------------------------------------------
Init ==
    /\ userStatus = [u \in Users |-> "ACTIVE"]
    /\ device = [u \in Users |-> [d \in Devices |-> NoDevice]]
    /\ session = [s \in SessionIds |-> NoSession]
    /\ nextSession = 1
    /\ wrong = [u \in Users |-> 0]

\* POST /auth/login with the right password.  On a LOCKED user or a BLOCKED
\* device the login raises and its route rolls everything back.
Login(u, d, abnormal) ==
    LET row == Upsert(u, d, abnormal) IN
    /\ userStatus[u] = "ACTIVE"
    /\ row.trust # "BLOCKED"
    /\ nextSession \in SessionIds
    /\ device' = [device EXCEPT ![u][d] = row]
    /\ session' = [session EXCEPT ![nextSession] = NewSession(u, d, row)]
    /\ nextSession' = nextSession + 1
    /\ wrong' = [wrong EXCEPT ![u] = 0]
    /\ UNCHANGED userStatus

\* POST /auth/login with a wrong password.  The service counts the failure
\* in the user's behavior profile and locks the user at the threshold, then
\* raises; the route rolls back, so the database stays as it was.
WrongPassword(u) ==
    /\ wrong[u] < MaxWrong
    /\ wrong' = [wrong EXCEPT ![u] = @ + 1]
    /\ UNCHANGED <<userStatus, device, session, nextSession>>

\* POST /auth/logout on session s.
Logout(s) ==
    /\ Live(s)
    /\ session' = [session EXCEPT ![s] = Revoked(@)]
    /\ UNCHANGED <<userStatus, device, nextSession, wrong>>

\* expires_at passes.  The status EXPIRED that _validate_session then assigns
\* is lost with the request, which ends in a 401 and no commit.
Expire(s) ==
    /\ Live(s)
    /\ session' = [session EXCEPT ![s].expired = TRUE]
    /\ UNCHANGED <<userStatus, device, nextSession, wrong>>

\* POST /admin/security/sessions/{id}/revoke, whatever the session's status.
RevokeSession(s) ==
    /\ s \in Created
    /\ session' = [session EXCEPT ![s] = Revoked(@)]
    /\ UNCHANGED <<userStatus, device, nextSession, wrong>>

\* POST /admin/security/devices/{id}/actions: TRUST, STEP_UP ...
TrustDevice(u, d) ==
    /\ d \in Known(u)
    /\ device' = [device EXCEPT ![u][d] = Rated(@, "TRUSTED", AtMost(@.risk, 10))]
    /\ UNCHANGED <<userStatus, session, nextSession, wrong>>

StepUpDevice(u, d) ==
    /\ d \in Known(u)
    /\ device' = [device EXCEPT ![u][d] = Rated(@, "STEP_UP_REQUIRED", AtLeast(@.risk, 45))]
    /\ UNCHANGED <<userStatus, session, nextSession, wrong>>

\* A mutant: the sessions of the device stay active.
BlockDeviceOnly(u, d) ==
    /\ d \in Known(u)
    /\ device' = [device EXCEPT ![u][d] = Rated(@, "BLOCKED", AtLeast(@.risk, 90))]
    /\ UNCHANGED <<userStatus, session, nextSession, wrong>>

\* ... and BLOCK, which revokes the active sessions of the device.
BlockDevice(u, d) ==
    /\ d \in Known(u)
    /\ device' = [device EXCEPT ![u][d] = Rated(@, "BLOCKED", AtLeast(@.risk, 90))]
    /\ session' = [s \in SessionIds |->
            IF Active(s) /\ session[s].user = u /\ session[s].device = d
            THEN Revoked(session[s]) ELSE session[s]]
    /\ UNCHANGED <<userStatus, nextSession, wrong>>

\* A mutant: the sessions of the user stay active.
LockAccountOnly(u) ==
    /\ userStatus' = [userStatus EXCEPT ![u] = "LOCKED"]
    /\ UNCHANGED <<device, session, nextSession, wrong>>

\* LOCK_ACCOUNT and UNLOCK_ACCOUNT, as far as the user and the sessions go.
LockAccount(u) ==
    /\ userStatus' = [userStatus EXCEPT ![u] = "LOCKED"]
    /\ session' = [s \in SessionIds |->
            IF Active(s) /\ session[s].user = u
            THEN Revoked(session[s]) ELSE session[s]]
    /\ UNCHANGED <<device, nextSession, wrong>>

UnlockAccount(u) ==
    /\ userStatus' = [userStatus EXCEPT ![u] = "ACTIVE"]
    /\ UNCHANGED <<device, session, nextSession, wrong>>

Next ==
    \/ \E u \in Users, d \in Devices :
          \/ \E abnormal \in BOOLEAN : Login(u, d, abnormal)
          \/ TrustDevice(u, d) \/ StepUpDevice(u, d) \/ BlockDevice(u, d)
    \/ \E u \in Users : WrongPassword(u) \/ LockAccount(u) \/ UnlockAccount(u)
    \/ \E s \in SessionIds : Logout(s) \/ Expire(s) \/ RevokeSession(s)

Spec == Init /\ [][Next]_vars

----------------------------------------------------------------------------
DeviceRows == [trust: DeviceTrustStatus, risk: Nat, primary: BOOLEAN]
SessionRows == [user: Users, device: Devices, strength: AuthStrength, risk: Nat,
                status: {"ACTIVE", "REVOKED"}, expired: BOOLEAN]

\* The type invariant: the columns hold what they can hold and exactly the
\* session ids handed out are in the table.
TypeOK ==
    /\ userStatus \in [Users -> UserStatus]
    /\ device \in [Users -> [Devices -> DeviceRows \cup {NoDevice}]]
    /\ nextSession \in 1..(MaxSessions + 1)
    /\ session \in [SessionIds -> SessionRows \cup {NoSession}]
    /\ \A s \in SessionIds : session[s] # NoSession <=> s < nextSession
    /\ wrong \in [Users -> Nat]

\* A lock takes effect on requests already possible, not only on the next
\* login: no request authenticates as a LOCKED user, although
\* _validate_session never reads users.status, because locking revokes what
\* is active and a login needs an ACTIVE user.
LockedUserIsOut ==
    \A s \in SessionIds : Active(s) => userStatus[session[s].user] = "ACTIVE"

\* SECURITY_ARCHITECTURE.md:47: blocking a device takes back its sessions,
\* and while it stays blocked none comes back.
BlockedDeviceIsOut ==
    \A s \in SessionIds : Active(s) => DeviceOf(s).trust # "BLOCKED"

\* Every active session belongs to a device that is on record, so order
\* screening always has a trust status to look at.
SessionHasDevice ==
    \A s \in SessionIds : Active(s) => DeviceOf(s) # NoDevice

RiskFits(row) ==
    /\ row.trust = "TRUSTED" => row.risk <= 10
    /\ row.trust = "WATCH" => row.risk = 25
    /\ row.trust = "STEP_UP_REQUIRED" => row.risk >= 45
    /\ row.trust = "BLOCKED" => row.risk >= 90

\* The risk score of a device agrees with its trust however first sightings,
\* logins from abnormal regions and admin actions follow each other.
RiskMatchesTrust == \A u \in Users : \A d \in Known(u) : RiskFits(device[u][d])

\* What Trading assumes of the sessions orders arrive on: a session that
\* reaches risk 60 is a step-up session (so the third branch of the order
\* controls never decides), and a WATCH device has PASSWORD_ONLY sessions.
ScreeningAssumption ==
    \A s \in SessionIds : Active(s) => View(s) \in SessionViews

\* A user who has devices has exactly one primary device, the first.
OnePrimaryDevice ==
    \A u \in Users :
        /\ Known(u) # {} => \E d \in Known(u) : device[u][d].primary
        /\ \A d, e \in Known(u) :
              device[u][d].primary /\ device[u][e].primary => d = e

\* The properties above hold one another up: what a session shows depends on
\* the device it has, whose score depends on its trust, and so on.  Together
\* they are inductive.
IInv ==
    /\ TypeOK
    /\ LockedUserIsOut /\ BlockedDeviceIsOut /\ SessionHasDevice
    /\ RiskMatchesTrust /\ ScreeningAssumption /\ OnePrimaryDevice

----------------------------------------------------------------------------
\* SECURITY_ARCHITECTURE.md:18 "the account is locked when login failures
\* accumulate"; the policy catalog says the same (security_service.py:257).
FailuresLockAccount ==
    \A u \in Users : wrong[u] >= LockThreshold => userStatus[u] = "LOCKED"
=============================================================================
