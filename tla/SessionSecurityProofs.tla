----------------------- MODULE SessionSecurityProofs -----------------------
(***************************************************************************)
(* Proofs of the safety properties of SessionSecurity, for any sets of     *)
(* users and devices and any bounds.  A step changes at most one device    *)
(* row and adds at most one session; DeviceStep is about the first,        *)
(* KeptSessions about the sessions that were there before.                 *)
(***************************************************************************)
EXTENDS SessionSecurity, TLAPS

\* The fields of IInv that are about the devices only.
DevicesOK ==
    /\ device \in [Users -> [Devices -> DeviceRows \cup {NoDevice}]]
    /\ RiskMatchesTrust /\ OnePrimaryDevice

\* A row written over device d of user u that fits the table.
Fits(u, d, row) ==
    /\ row \in DeviceRows /\ RiskFits(row)
    /\ row.primary = IF d \in Known(u) THEN device[u][d].primary ELSE Known(u) = {}

\* The columns of a session that are read by order screening.
Identity(row) == <<row.user, row.device, row.strength, row.risk>>

\* No session becomes active, and those that stay active stay what they are.
Keeps == \A s \in SessionIds :
            session'[s].status = "ACTIVE"
                => Active(s) /\ Identity(session'[s]) = Identity(session[s])

\* A device row is told from the absence of one by its trust status.
LEMMA RowIsKnown ==
    ASSUME NEW row \in DeviceRows
    PROVE  row # NoDevice /\ row.trust \in DeviceTrustStatus
BY DEF DeviceRows, NoDevice, DeviceTrustStatus, None

\* A known device has a row.
LEMMA KnownRow ==
    ASSUME device \in [Users -> [Devices -> DeviceRows \cup {NoDevice}]],
           NEW u \in Users, NEW d \in Known(u)
    PROVE  d \in Devices /\ device[u][d] \in DeviceRows
BY DEF Known

\* An active session is a row of the table, so its columns have their types.
LEMMA ActiveRow ==
    ASSUME TypeOK, NEW s \in SessionIds, Active(s)
    PROVE  session[s] \in SessionRows
BY DEF TypeOK, Active, NoSession, None

\* Writing a row that fits keeps every property of the devices: login,
\* TRUST, STEP_UP and BLOCK all end here.
LEMMA DeviceStep ==
    ASSUME DevicesOK, NEW u \in Users, NEW d \in Devices, NEW row,
           Fits(u, d, row), device' = [device EXCEPT ![u][d] = row]
    PROVE  DevicesOK'
<1>1. row \in DeviceRows /\ row # NoDevice
    BY RowIsKnown DEF Fits
<1>2. device' \in [Users -> [Devices -> DeviceRows \cup {NoDevice}]]
    BY <1>1 DEF DevicesOK
<1>3. /\ Known(u)' = Known(u) \cup {d}
      /\ device'[u][d] = row
      /\ \A e \in Devices \ {d} : device'[u][e] = device[u][e]
      /\ \A v \in Users \ {u} : Known(v)' = Known(v) /\ device'[v] = device[v]
    BY <1>1 DEF DevicesOK, Known
<1>4. RiskMatchesTrust'
  <2> SUFFICES ASSUME NEW v \in Users, NEW e \in Known(v)'
               PROVE  RiskFits(device'[v][e])
      BY DEF RiskMatchesTrust, RiskFits
  <2>1. CASE v = u /\ e = d
      BY <1>3, <2>1 DEF Fits
  <2>2. CASE ~(v = u /\ e = d)
      BY <1>3, <2>2 DEF DevicesOK, RiskMatchesTrust, Known
  <2> QED
      BY <2>1, <2>2
<1>5. OnePrimaryDevice'
  <2> SUFFICES ASSUME NEW v \in Users
               PROVE  /\ Known(v)' # {} => \E e \in Known(v)' : device'[v][e].primary
                      /\ \A e, f \in Known(v)' :
                            device'[v][e].primary /\ device'[v][f].primary => e = f
      BY DEF OnePrimaryDevice
  <2>1. CASE v # u
      BY <1>3, <2>1 DEF DevicesOK, OnePrimaryDevice
  <2>2. CASE v = u /\ d \in Known(u)
    <3>1. Known(u)' = Known(u)
        BY <1>3, <2>2
    <3>2. \A e \in Known(u) : device'[u][e].primary = device[u][e].primary
        BY <1>3, <2>2 DEF Fits, Known
    <3> QED
        BY <2>2, <3>1, <3>2 DEF DevicesOK, OnePrimaryDevice
  <2>3. CASE v = u /\ d \notin Known(u) /\ Known(u) = {}
    <3>1. Known(u)' = {d} /\ device'[u][d].primary = TRUE
        BY <1>3, <2>3 DEF Fits
    <3> QED
        BY <2>3, <3>1
  <2>4. CASE v = u /\ d \notin Known(u) /\ Known(u) # {}
    <3>1. device'[u][d].primary = FALSE
        BY <1>3, <2>4 DEF Fits
    <3>2. \A e \in Known(u) : device'[u][e].primary = device[u][e].primary
        BY <1>3, <2>4 DEF Known
    <3> QED
        BY <1>3, <2>4, <3>1, <3>2 DEF DevicesOK, OnePrimaryDevice
  <2> QED
      BY <2>1, <2>2, <2>3, <2>4
<1> QED
    BY <1>2, <1>4, <1>5 DEF DevicesOK

\* A step that writes no device keeps every property of the devices.
LEMMA DeviceSame ==
    ASSUME DevicesOK, UNCHANGED device
    PROVE  DevicesOK'
BY DEF DevicesOK, RiskMatchesTrust, OnePrimaryDevice, RiskFits, Known

\* The row upsert_security_device leaves fits the table, and it is WATCH
\* only if the device is new or was WATCH.
LEMMA UpsertRow ==
    ASSUME DevicesOK, NEW u \in Users, NEW d \in Devices, NEW abnormal \in BOOLEAN
    PROVE  /\ Fits(u, d, Upsert(u, d, abnormal))
           /\ Upsert(u, d, abnormal).trust = "WATCH"
                => d \notin Known(u) \/ device[u][d].trust = "WATCH"
<1>1. CASE d \in Known(u)
  <2> DEFINE old == device[u][d]
  <2>1. old \in DeviceRows /\ RiskFits(old)
      BY <1>1, KnownRow DEF DevicesOK, RiskMatchesTrust
  <2>2. Upsert(u, d, abnormal) = SeenAgain(old, abnormal)
      BY <1>1 DEF Upsert
  <2>3. CASE abnormal /\ old.trust # "BLOCKED"
    <3>1. Upsert(u, d, abnormal)
            = [trust |-> "STEP_UP_REQUIRED", risk |-> AtLeast(old.risk, 55),
               primary |-> old.primary]
        BY <2>2, <2>3 DEF SeenAgain, Rated
    <3>2. AtLeast(old.risk, 55) \in Nat /\ AtLeast(old.risk, 55) >= 45
        BY <2>1 DEF AtLeast, DeviceRows
    <3>3. old.primary \in BOOLEAN
        BY <2>1 DEF DeviceRows
    <3>4. Upsert(u, d, abnormal) \in DeviceRows
        BY <3>1, <3>2, <3>3 DEF DeviceRows, DeviceTrustStatus
    <3>5. RiskFits(Upsert(u, d, abnormal))
        BY <3>1, <3>2 DEF RiskFits
    <3> QED
        BY <1>1, <3>1, <3>4, <3>5 DEF Fits
  <2>4. CASE ~(abnormal /\ old.trust # "BLOCKED")
    <3>1. SeenAgain(old, abnormal) = old
        BY <2>4 DEF SeenAgain
    <3> QED
        BY <1>1, <2>1, <2>2, <3>1 DEF Fits
  <2> QED
      BY <2>3, <2>4
<1>2. CASE d \notin Known(u)
  <2>1. Upsert(u, d, abnormal) = FirstSeen(u, abnormal)
      BY <1>2 DEF Upsert
  <2>2. FirstSeen(u, abnormal) \in DeviceRows /\ RiskFits(FirstSeen(u, abnormal))
      BY DEF FirstSeen, DeviceRows, RiskFits, DeviceTrustStatus
  <2>3. FirstSeen(u, abnormal).primary = (Known(u) = {})
      BY DEF FirstSeen
  <2> QED
      BY <1>2, <2>1, <2>2, <2>3 DEF Fits
<1> QED
    BY <1>1, <1>2

----------------------------------------------------------------------------
\* What IInv says of one session.
SessionOK(s) ==
    Active(s) =>
        /\ userStatus[session[s].user] = "ACTIVE"
        /\ DeviceOf(s).trust # "BLOCKED" /\ DeviceOf(s) # NoDevice
        /\ View(s) \in SessionViews

\* No device row disappears, and none goes back to WATCH.
DevicesKept == \A u \in Users : \A d \in Known(u) :
    device'[u][d] # NoDevice /\ (device'[u][d].trust = "WATCH" => device[u][d].trust = "WATCH")

\* IInv by table: types, devices, sessions.
LEMMA IInvParts == IInv <=> TypeOK /\ DevicesOK /\ \A s \in SessionIds : SessionOK(s)
BY DEF IInv, TypeOK, DevicesOK, SessionOK, LockedUserIsOut, BlockedDeviceIsOut,
       SessionHasDevice, ScreeningAssumption

\* The same of the state a step leads to.
LEMMA IInvPartsNext ==
    IInv' <=> TypeOK' /\ DevicesOK' /\ \A s \in SessionIds : SessionOK(s)'
BY DEF IInv, TypeOK, DevicesOK, SessionOK, LockedUserIsOut, BlockedDeviceIsOut,
       SessionHasDevice, ScreeningAssumption

\* A session that was active shows order screening what it may show after
\* the step as well, if its user is still active and its device not blocked.
LEMMA KeptSession ==
    ASSUME IInv, TypeOK', DevicesKept, NEW s \in SessionIds,
           Active(s), Active(s)', Identity(session'[s]) = Identity(session[s]),
           userStatus'[session[s].user] = "ACTIVE",
           device'[session[s].user][session[s].device].trust # "BLOCKED"
    PROVE  SessionOK(s)'
<1> DEFINE u == session[s].user
           d == session[s].device
<1>1. session[s] \in SessionRows /\ u \in Users /\ d \in Devices
    BY ActiveRow, IInvParts DEF SessionRows
<1>2. SessionOK(s)
    BY IInvParts
<1>3. d \in Known(u)
    BY <1>1, <1>2 DEF SessionOK, DeviceOf, Known
<1>4. /\ device'[u][d] # NoDevice
      /\ device'[u][d].trust = "WATCH" => device[u][d].trust = "WATCH"
    BY <1>1, <1>3 DEF DevicesKept
<1>5. device'[u][d] \in DeviceRows
    BY <1>1, <1>4 DEF TypeOK
<1>6. /\ session'[s].user = u /\ session'[s].device = d
      /\ session'[s].strength = session[s].strength
      /\ session'[s].risk = session[s].risk
    BY DEF Identity
<1>7. View(s)' = [View(s) EXCEPT !.trust = device'[u][d].trust]
    BY <1>6 DEF View, DeviceOf
<1>8. View(s)' \in SessionViews
  <2>1. View(s) \in SessionViews /\ View(s).trust = device[u][d].trust
      BY <1>2 DEF SessionOK, View, DeviceOf
  <2>2. device'[u][d].trust \in DeviceTrustStatus
      BY <1>5, RowIsKnown
  <2> QED
      BY <1>4, <1>7, <2>1, <2>2 DEF SessionViews, SessionView
<1> QED
    BY <1>4, <1>6, <1>8 DEF SessionOK, DeviceOf

\* A step that opens no session: the invariant is kept if the sessions that
\* stay active have an active user and a device that is not blocked.
LEMMA KeepingStep ==
    ASSUME IInv, TypeOK', DevicesOK', DevicesKept, Keeps,
           \A s \in SessionIds : session'[s].status = "ACTIVE" =>
                /\ userStatus'[session[s].user] = "ACTIVE"
                /\ device'[session[s].user][session[s].device].trust # "BLOCKED"
    PROVE  IInv'
<1> SUFFICES ASSUME NEW s \in SessionIds, Active(s)'
             PROVE  SessionOK(s)'
    BY IInvPartsNext DEF SessionOK
<1>1. Active(s) /\ Identity(session'[s]) = Identity(session[s])
    BY DEF Keeps, Active
<1> QED
    BY <1>1, KeptSession DEF Active

\* Revoking the sessions of a set leaves a table in which only the others
\* are active: logout, expiry, revocation, LOCK_ACCOUNT and BLOCK of a device.
LEMMA RevokeStep ==
    ASSUME TypeOK, NEW S \in SUBSET SessionIds, \A s \in S : session[s] # NoSession,
           session' = [s \in SessionIds |-> IF s \in S THEN Revoked(session[s]) ELSE session[s]],
           nextSession' = nextSession
    PROVE  /\ session' \in [SessionIds -> SessionRows \cup {NoSession}]
           /\ \A s \in SessionIds : session'[s] # NoSession <=> s < nextSession'
           /\ Keeps
           /\ \A s \in S : session'[s].status # "ACTIVE"
<1>1. \A s \in S : /\ Revoked(session[s]) \in SessionRows
                   /\ Revoked(session[s]).status = "REVOKED"
    BY DEF TypeOK, Revoked, SessionRows
<1>2. \A s \in S : Revoked(session[s]) # NoSession
    BY <1>1 DEF NoSession, None
<1>3. \A s \in SessionIds \ S : session'[s] = session[s]
    OBVIOUS
<1> QED
    BY <1>1, <1>2, <1>3 DEF TypeOK, Keeps, Active, Identity

\* The database a fresh deployment starts from, before any login.
LEMMA InitIInv == Init => IInv
<1> SUFFICES ASSUME Init PROVE IInv
    OBVIOUS
<1>1. TypeOK
    BY SessionAssumption DEF Init, TypeOK, UserStatus, SessionIds
<1>2. DevicesOK
    BY DEF Init, DevicesOK, RiskMatchesTrust, OnePrimaryDevice, Known
<1>3. \A s \in SessionIds : ~Active(s)
    BY DEF Init, Active, NoSession, None
<1> QED
    BY <1>1, <1>2, <1>3, IInvParts DEF SessionOK

\* Logout, revocation and expiry of one session.
LEMMA EndOne ==
    ASSUME IInv, NEW s \in SessionIds,
           Logout(s) \/ RevokeSession(s) \/ Expire(s)
    PROVE  IInv'
<1>1. TypeOK /\ DevicesOK /\ \A x \in SessionIds : SessionOK(x)
    BY IInvParts
<1>2. session[s] # NoSession
    BY <1>1 DEF Logout, RevokeSession, Expire, Live, Active, Created, TypeOK, NoSession, None
<1>3. session[s] \in SessionRows
    BY <1>1, <1>2 DEF TypeOK
<1>4. UNCHANGED <<userStatus, device, nextSession>> /\ wrong' = wrong
    BY DEF Logout, RevokeSession, Expire
<1>5. DevicesOK' /\ DevicesKept
    BY <1>1, <1>4, DeviceSame DEF DevicesKept, Known
<1>6. /\ session' \in [SessionIds -> SessionRows \cup {NoSession}]
      /\ \A x \in SessionIds : session'[x] # NoSession <=> x < nextSession'
      /\ Keeps
  <2>1. CASE Logout(s) \/ RevokeSession(s)
    <3>1. session' = [x \in SessionIds |->
                IF x \in {s} THEN Revoked(session[x]) ELSE session[x]]
        BY <1>1, <2>1 DEF Logout, RevokeSession, TypeOK
    <3>2. {s} \in SUBSET SessionIds /\ \A x \in {s} : session[x] # NoSession
        BY <1>2
    <3> QED
        BY <1>1, <1>4, <3>1, <3>2, RevokeStep
  <2>2. CASE Expire(s)
    <3>1. session' = [session EXCEPT ![s] = [session[s] EXCEPT !.expired = TRUE]]
        BY <2>2 DEF Expire
    <3>2. /\ [session[s] EXCEPT !.expired = TRUE] \in SessionRows
          /\ [session[s] EXCEPT !.expired = TRUE].status = "ACTIVE"
        BY <1>3, <2>2 DEF SessionRows, Expire, Live, Active
    <3>3. [session[s] EXCEPT !.expired = TRUE] # NoSession
        BY <3>2 DEF NoSession, None
    <3>4. Identity(session'[s]) = Identity(session[s])
        BY <1>1, <1>3, <3>1 DEF Identity, TypeOK, SessionRows
    <3>5. Active(s)
        BY <2>2 DEF Expire, Live
    <3> QED
        BY <1>1, <1>2, <1>4, <3>1, <3>2, <3>3, <3>4, <3>5 DEF TypeOK, Keeps, Active, Identity
  <2> QED
      BY <2>1, <2>2
<1>7. TypeOK'
    BY <1>1, <1>4, <1>6 DEF TypeOK
<1>8. \A x \in SessionIds : session'[x].status = "ACTIVE" =>
            /\ userStatus'[session[x].user] = "ACTIVE"
            /\ device'[session[x].user][session[x].device].trust # "BLOCKED"
    BY <1>1, <1>4, <1>6 DEF Keeps, SessionOK, DeviceOf
<1> QED
    BY <1>5, <1>6, <1>7, <1>8, KeepingStep

\* TRUST and STEP_UP: the sessions stay, the device changes under them.
LEMMA RetrustStep ==
    ASSUME IInv, NEW u \in Users, NEW d \in Devices,
           TrustDevice(u, d) \/ StepUpDevice(u, d)
    PROVE  IInv'
<1>1. TypeOK /\ DevicesOK /\ \A x \in SessionIds : SessionOK(x)
    BY IInvParts
<1> DEFINE row == device'[u][d]
<1>2. d \in Known(u) /\ device[u][d] \in DeviceRows
    BY <1>1, KnownRow DEF TrustDevice, StepUpDevice, DevicesOK
<1>3. /\ Fits(u, d, row) /\ row.trust \in {"TRUSTED", "STEP_UP_REQUIRED"}
      /\ device' = [device EXCEPT ![u][d] = row]
  <2>1. CASE TrustDevice(u, d)
    <3> DEFINE new == [trust |-> "TRUSTED", risk |-> AtMost(device[u][d].risk, 10),
                       primary |-> device[u][d].primary]
    <3>1. device' = [device EXCEPT ![u][d] = new]
        BY <2>1 DEF TrustDevice, Rated
    <3>2. AtMost(device[u][d].risk, 10) \in Nat /\ AtMost(device[u][d].risk, 10) <= 10
        BY <1>2 DEF AtMost, DeviceRows
    <3>3. device[u][d].primary \in BOOLEAN
        BY <1>2 DEF DeviceRows
    <3>4. new \in DeviceRows
        BY <3>2, <3>3 DEF DeviceRows, DeviceTrustStatus
    <3>5. row = new
        BY <1>1, <3>1 DEF DevicesOK
    <3>6. RiskFits(new)
        BY <3>2 DEF RiskFits
    <3>7. Fits(u, d, new)
        BY <1>2, <3>4, <3>6 DEF Fits
    <3> HIDE DEF new
    <3>8. new.trust \in {"TRUSTED", "STEP_UP_REQUIRED"}
        BY DEF new
    <3> QED
        BY <3>1, <3>5, <3>7, <3>8
  <2>2. CASE StepUpDevice(u, d)
    <3> DEFINE new == [trust |-> "STEP_UP_REQUIRED", risk |-> AtLeast(device[u][d].risk, 45),
                       primary |-> device[u][d].primary]
    <3>1. device' = [device EXCEPT ![u][d] = new]
        BY <2>2 DEF StepUpDevice, Rated
    <3>2. AtLeast(device[u][d].risk, 45) \in Nat /\ AtLeast(device[u][d].risk, 45) >= 45
        BY <1>2 DEF AtLeast, DeviceRows
    <3>3. device[u][d].primary \in BOOLEAN
        BY <1>2 DEF DeviceRows
    <3>4. new \in DeviceRows
        BY <3>2, <3>3 DEF DeviceRows, DeviceTrustStatus
    <3>5. row = new
        BY <1>1, <3>1 DEF DevicesOK
    <3>6. RiskFits(new)
        BY <3>2 DEF RiskFits
    <3>7. Fits(u, d, new)
        BY <1>2, <3>4, <3>6 DEF Fits
    <3> HIDE DEF new
    <3>8. new.trust \in {"TRUSTED", "STEP_UP_REQUIRED"}
        BY DEF new
    <3> QED
        BY <3>1, <3>5, <3>7, <3>8
  <2> QED
      BY <2>1, <2>2
<1>4. UNCHANGED <<userStatus, session, nextSession, wrong>>
    BY DEF TrustDevice, StepUpDevice
<1>5. DevicesOK'
    BY <1>1, <1>3, DeviceStep
<1> HIDE DEF row
<1>6. /\ DevicesKept
      /\ \A v \in Users, e \in Devices :
            device[v][e].trust # "BLOCKED" => device'[v][e].trust # "BLOCKED"
    BY <1>1, <1>3, RowIsKnown DEF DevicesKept, Known, Fits, DevicesOK
<1>7. TypeOK'
    BY <1>1, <1>4, <1>5 DEF TypeOK, DevicesOK
<1>8. Keeps
    BY <1>4 DEF Keeps, Active
<1>9. \A x \in SessionIds : session'[x].status = "ACTIVE" =>
            /\ userStatus'[session[x].user] = "ACTIVE"
            /\ device'[session[x].user][session[x].device].trust # "BLOCKED"
    BY <1>1, <1>4, <1>6, ActiveRow DEF SessionOK, DeviceOf, SessionRows, Active
<1> QED
    BY <1>5, <1>6, <1>7, <1>8, <1>9, KeepingStep

\* BLOCK of a device: its sessions end as its row becomes BLOCKED.
LEMMA BlockDeviceStep ==
    ASSUME IInv, NEW u \in Users, NEW d \in Devices, BlockDevice(u, d)
    PROVE  IInv'
<1>1. TypeOK /\ DevicesOK /\ \A x \in SessionIds : SessionOK(x)
    BY IInvParts
<1> DEFINE new == [trust |-> "BLOCKED", risk |-> AtLeast(device[u][d].risk, 90),
                   primary |-> device[u][d].primary]
           S == {s \in SessionIds : Active(s) /\ session[s].user = u /\ session[s].device = d}
<1>2. d \in Known(u) /\ device[u][d] \in DeviceRows
    BY <1>1, KnownRow DEF BlockDevice, DevicesOK
<1>3. Fits(u, d, new) /\ device' = [device EXCEPT ![u][d] = new]
  <2>1. device' = [device EXCEPT ![u][d] = new]
      BY DEF BlockDevice, Rated
  <2>2. AtLeast(device[u][d].risk, 90) \in Nat /\ AtLeast(device[u][d].risk, 90) >= 90
      BY <1>2 DEF AtLeast, DeviceRows
  <2>3. device[u][d].primary \in BOOLEAN
      BY <1>2 DEF DeviceRows
  <2>4. new \in DeviceRows
      BY <2>2, <2>3 DEF DeviceRows, DeviceTrustStatus
  <2>5. RiskFits(new)
      BY <2>2 DEF RiskFits
  <2> QED
      BY <1>2, <2>1, <2>4, <2>5 DEF Fits
<1>4. DevicesOK'
    BY <1>1, <1>3, DeviceStep
<1>5. /\ UNCHANGED <<userStatus, nextSession, wrong>>
      /\ session' = [s \in SessionIds |->
            IF s \in S THEN Revoked(session[s]) ELSE session[s]]
    BY DEF BlockDevice
<1>6. /\ session' \in [SessionIds -> SessionRows \cup {NoSession}]
      /\ \A x \in SessionIds : session'[x] # NoSession <=> x < nextSession'
      /\ Keeps
      /\ \A x \in S : session'[x].status # "ACTIVE"
  <2>1. \A s \in S : session[s] # NoSession
      BY DEF Active, NoSession, None
  <2> QED
      BY <1>1, <1>5, <2>1, RevokeStep
<1>7. TypeOK'
    BY <1>1, <1>4, <1>5, <1>6 DEF TypeOK, DevicesOK
<1>8. DevicesKept
    BY <1>1, <1>3, RowIsKnown DEF DevicesKept, Known, Fits, DevicesOK
<1>9. \A x \in SessionIds : session'[x].status = "ACTIVE" =>
            /\ userStatus'[session[x].user] = "ACTIVE"
            /\ device'[session[x].user][session[x].device].trust # "BLOCKED"
  <2> SUFFICES ASSUME NEW x \in SessionIds, session'[x].status = "ACTIVE"
               PROVE  /\ userStatus'[session[x].user] = "ACTIVE"
                      /\ device'[session[x].user][session[x].device].trust # "BLOCKED"
      OBVIOUS
  <2>1. Active(x) /\ x \notin S /\ SessionOK(x)
      BY <1>1, <1>6 DEF Keeps
  <2>2. session[x].user # u \/ session[x].device # d
      BY <2>1
  <2>3. session[x].user \in Users /\ session[x].device \in Devices
      BY <1>1, <2>1, ActiveRow DEF SessionRows
  <2>4. device'[session[x].user][session[x].device] = device[session[x].user][session[x].device]
      BY <1>1, <1>3, <2>2, <2>3 DEF DevicesOK
  <2> QED
      BY <1>5, <2>1, <2>4 DEF SessionOK, DeviceOf
<1> QED
    BY <1>4, <1>6, <1>7, <1>8, <1>9, KeepingStep

\* LOCK_ACCOUNT: every session of the user ends as the user becomes LOCKED.
LEMMA LockStep ==
    ASSUME IInv, NEW u \in Users, LockAccount(u)
    PROVE  IInv'
<1>1. TypeOK /\ DevicesOK /\ \A x \in SessionIds : SessionOK(x)
    BY IInvParts
<1> DEFINE S == {s \in SessionIds : Active(s) /\ session[s].user = u}
<1>2. /\ userStatus' = [userStatus EXCEPT ![u] = "LOCKED"]
      /\ UNCHANGED <<device, nextSession, wrong>>
      /\ session' = [s \in SessionIds |->
            IF s \in S THEN Revoked(session[s]) ELSE session[s]]
    BY DEF LockAccount
<1>3. DevicesOK' /\ DevicesKept
    BY <1>1, <1>2, DeviceSame DEF DevicesKept, Known
<1>4. /\ session' \in [SessionIds -> SessionRows \cup {NoSession}]
      /\ \A x \in SessionIds : session'[x] # NoSession <=> x < nextSession'
      /\ Keeps
      /\ \A x \in S : session'[x].status # "ACTIVE"
  <2>1. \A s \in S : session[s] # NoSession
      BY DEF Active, NoSession, None
  <2> QED
      BY <1>1, <1>2, <2>1, RevokeStep
<1>5. TypeOK'
    BY <1>1, <1>2, <1>4 DEF TypeOK, UserStatus
<1>6. \A x \in SessionIds : session'[x].status = "ACTIVE" =>
            /\ userStatus'[session[x].user] = "ACTIVE"
            /\ device'[session[x].user][session[x].device].trust # "BLOCKED"
  <2> SUFFICES ASSUME NEW x \in SessionIds, session'[x].status = "ACTIVE"
               PROVE  /\ userStatus'[session[x].user] = "ACTIVE"
                      /\ device'[session[x].user][session[x].device].trust # "BLOCKED"
      OBVIOUS
  <2>1. Active(x) /\ x \notin S /\ SessionOK(x)
      BY <1>1, <1>4 DEF Keeps
  <2>2. session[x].user \in Users \ {u}
      BY <1>1, <2>1, ActiveRow DEF SessionRows
  <2> QED
      BY <1>1, <1>2, <2>1, <2>2 DEF SessionOK, DeviceOf, TypeOK
<1> QED
    BY <1>3, <1>4, <1>5, <1>6, KeepingStep

\* A wrong password, whose request is rolled back, and UNLOCK_ACCOUNT: no
\* device and no session changes.
LEMMA UserStep ==
    ASSUME IInv, NEW u \in Users, WrongPassword(u) \/ UnlockAccount(u)
    PROVE  IInv'
<1>1. TypeOK /\ DevicesOK /\ \A x \in SessionIds : SessionOK(x)
    BY IInvParts
<1>2. /\ UNCHANGED <<device, session, nextSession>>
      /\ \A v \in Users : userStatus[v] = "ACTIVE" => userStatus'[v] = "ACTIVE"
      /\ userStatus' \in [Users -> UserStatus] /\ wrong' \in [Users -> Nat]
  <2>1. CASE WrongPassword(u)
    <3>1. wrong[u] \in Nat /\ wrong' = [wrong EXCEPT ![u] = wrong[u] + 1]
        BY <1>1, <2>1 DEF WrongPassword, TypeOK
    <3>2. UNCHANGED <<userStatus, device, session, nextSession>>
        BY <2>1 DEF WrongPassword
    <3> QED
        BY <1>1, <3>1, <3>2 DEF TypeOK
  <2>2. CASE UnlockAccount(u)
      BY <1>1, <2>2 DEF UnlockAccount, TypeOK, UserStatus
  <2> QED
      BY <2>1, <2>2
<1>3. DevicesOK' /\ DevicesKept /\ Keeps
    BY <1>1, <1>2, DeviceSame DEF DevicesKept, Known, Keeps, Active
<1>4. TypeOK'
    BY <1>1, <1>2 DEF TypeOK
<1>5. \A x \in SessionIds : session'[x].status = "ACTIVE" =>
            /\ userStatus'[session[x].user] = "ACTIVE"
            /\ device'[session[x].user][session[x].device].trust # "BLOCKED"
    BY <1>1, <1>2, ActiveRow DEF SessionOK, DeviceOf, SessionRows, Active
<1> QED
    BY <1>3, <1>4, <1>5, KeepingStep

\* A login: the row it leaves fits, and the session it opens on that row
\* shows order screening a view the enumeration allows.
LEMMA LoginStep ==
    ASSUME IInv, NEW u \in Users, NEW d \in Devices, NEW abnormal \in BOOLEAN,
           Login(u, d, abnormal)
    PROVE  IInv'
<1> DEFINE row == Upsert(u, d, abnormal)
           new == NewSession(u, d, row)
           n == nextSession
<1>1. TypeOK /\ DevicesOK /\ \A x \in SessionIds : SessionOK(x)
    BY IInvParts
<1>2. /\ userStatus[u] = "ACTIVE" /\ row.trust # "BLOCKED" /\ n \in SessionIds
      /\ device' = [device EXCEPT ![u][d] = row]
      /\ session' = [session EXCEPT ![n] = new]
      /\ nextSession' = n + 1 /\ wrong' = [wrong EXCEPT ![u] = 0]
      /\ userStatus' = userStatus
    BY DEF Login
<1>3. /\ Fits(u, d, row)
      /\ row.trust = "WATCH" => d \notin Known(u) \/ device[u][d].trust = "WATCH"
    BY <1>1, UpsertRow
<1>4. row \in DeviceRows /\ row # NoDevice /\ RiskFits(row)
    BY <1>3, RowIsKnown DEF Fits
<1> HIDE DEF row
<1>5. DevicesOK'
    BY <1>1, <1>2, <1>3, DeviceStep
<1>6. /\ DevicesKept /\ device'[u][d] = row
      /\ \A v \in Users, e \in Devices :
            device[v][e].trust # "BLOCKED" => device'[v][e].trust # "BLOCKED"
    BY <1>1, <1>2, <1>3, <1>4 DEF DevicesKept, Known, DevicesOK
<1>7. /\ new \in SessionRows /\ new.status = "ACTIVE" /\ new # NoSession
      /\ new.user = u /\ new.device = d /\ new.strength = Strength(row.trust)
      /\ new.risk <= row.risk + 15
  <2>1. Strength(row.trust) \in AuthStrength
      BY DEF Strength, AuthStrength
  <2>2. new.risk \in {row.risk, row.risk + 15} /\ row.risk \in Nat
      BY <1>4 DEF NewSession, DeviceRows
  <2>3. new.status = "ACTIVE" /\ new.expired = FALSE
      BY DEF NewSession
  <2>4. new = [user |-> u, device |-> d, strength |-> Strength(row.trust),
               risk |-> new.risk, status |-> "ACTIVE", expired |-> FALSE]
      BY DEF NewSession
  <2>5. new.user = u /\ new.device = d /\ new.strength = Strength(row.trust)
      BY DEF NewSession
  <2> HIDE DEF new
  <2>6. new \in SessionRows
    <3>1. new.risk \in Nat
        BY <2>2
    <3> DEFINE r == new.risk
    <3>2. r \in Nat /\ new = [user |-> u, device |-> d, strength |-> Strength(row.trust),
                              risk |-> r, status |-> "ACTIVE", expired |-> FALSE]
        BY <2>4, <3>1
    <3> HIDE DEF r
    <3> QED
        BY <2>1, <3>2 DEF SessionRows
  <2>7. new # NoSession
      BY <2>3 DEF NoSession, None
  <2>8. new.risk <= row.risk + 15
      BY <2>2
  <2> QED
      BY <2>3, <2>5, <2>6, <2>7, <2>8
<1> HIDE DEF new
<1>8. TypeOK'
  <2>1. n \in 1..MaxSessions /\ n + 1 \in 1..(MaxSessions + 1)
      BY <1>2, SessionAssumption DEF SessionIds
  <2>2. \A s \in SessionIds : session'[s] # NoSession <=> s < n + 1
      BY <1>1, <1>2, <1>7, <2>1, SessionAssumption DEF TypeOK, SessionIds
  <2> QED
      BY <1>1, <1>2, <1>5, <1>7, <2>1, <2>2 DEF TypeOK, DevicesOK
<1>9. SUFFICES ASSUME NEW s \in SessionIds, Active(s)'
               PROVE  SessionOK(s)'
    BY <1>5, <1>8, IInvPartsNext DEF SessionOK
<1>10. CASE s = n
  <2>1. session'[s] = new
      BY <1>1, <1>2, <1>10 DEF TypeOK
  <2>2. DeviceOf(s)' = row
      BY <1>6, <1>7, <2>1 DEF DeviceOf
  <2>3. View(s)' = [trust |-> row.trust, strength |-> Strength(row.trust),
                    highRisk |-> new.risk >= 60]
      BY <1>7, <2>1, <2>2 DEF View
  <2>4. Strength(row.trust) \in AuthStrength /\ row.trust \in DeviceTrustStatus
      BY <1>4, RowIsKnown DEF Strength, AuthStrength
  <2>5. row.trust = "WATCH" => Strength(row.trust) = "PASSWORD_ONLY"
      BY DEF Strength
  <2>6. new.risk >= 60 => Strength(row.trust) = "STEP_UP_REQUIRED"
    <3>1. new.risk \in Nat /\ row.risk \in Nat
        BY <1>4, <1>7 DEF SessionRows, DeviceRows
    <3>2. row.trust \in {"TRUSTED", "WATCH"} => row.risk <= 25
        BY <1>4, <3>1 DEF RiskFits
    <3> QED
        BY <1>7, <2>4, <3>1, <3>2 DEF Strength, DeviceTrustStatus
  <2>7. View(s)' \in SessionViews
    <3> DEFINE high == new.risk >= 60
    <3>1. high \in BOOLEAN /\ (high => Strength(row.trust) = "STEP_UP_REQUIRED")
        BY <2>6
    <3>2. View(s)' = [trust |-> row.trust, strength |-> Strength(row.trust), highRisk |-> high]
        BY <2>3
    <3> HIDE DEF high
    <3> QED
        BY <2>4, <2>5, <3>1, <3>2 DEF SessionViews, SessionView
  <2>8. userStatus'[session'[s].user] = "ACTIVE"
      BY <1>2, <1>7, <2>1
  <2>9. DeviceOf(s)'.trust # "BLOCKED" /\ DeviceOf(s)' # NoDevice
      BY <1>2, <1>4, <2>2
  <2> QED
      BY <2>7, <2>8, <2>9 DEF SessionOK
<1>11. CASE s # n
  <2>1. session'[s] = session[s]
      BY <1>1, <1>2, <1>11 DEF TypeOK
  <2>2. Active(s) /\ Identity(session'[s]) = Identity(session[s])
      BY <1>9, <2>1 DEF Active, Identity
  <2>3. /\ userStatus'[session[s].user] = "ACTIVE"
        /\ device'[session[s].user][session[s].device].trust # "BLOCKED"
      BY <1>1, <1>2, <1>6, <2>2, ActiveRow DEF SessionOK, DeviceOf, SessionRows
  <2> QED
      BY <1>6, <1>8, <1>9, <2>2, <2>3, KeptSession
<1> QED
    BY <1>10, <1>11

\* Every request keeps the invariant.
LEMMA NextStep == IInv /\ [Next]_vars => IInv'
<1> SUFFICES ASSUME IInv, [Next]_vars PROVE IInv'
    OBVIOUS
<1>1. ASSUME NEW u \in Users, NEW d \in Devices, NEW abnormal \in BOOLEAN,
             Login(u, d, abnormal)
      PROVE  IInv'
    BY <1>1, LoginStep
<1>2. ASSUME NEW u \in Users, NEW d \in Devices,
             TrustDevice(u, d) \/ StepUpDevice(u, d)
      PROVE  IInv'
    BY <1>2, RetrustStep
<1>3. ASSUME NEW u \in Users, NEW d \in Devices, BlockDevice(u, d)
      PROVE  IInv'
    BY <1>3, BlockDeviceStep
<1>4. ASSUME NEW u \in Users, WrongPassword(u) \/ UnlockAccount(u)
      PROVE  IInv'
    BY <1>4, UserStep
<1>5. ASSUME NEW u \in Users, LockAccount(u)
      PROVE  IInv'
    BY <1>5, LockStep
<1>6. ASSUME NEW s \in SessionIds, Logout(s) \/ RevokeSession(s) \/ Expire(s)
      PROVE  IInv'
    BY <1>6, EndOne
<1>7. CASE UNCHANGED vars
  <2>1. TypeOK /\ DevicesOK /\ \A s \in SessionIds : SessionOK(s)
      BY IInvParts
  <2>2. TypeOK' /\ \A s \in SessionIds : SessionOK(s)'
      BY <1>7, <2>1 DEF vars, TypeOK, SessionOK, Active, DeviceOf, View
  <2>3. DevicesOK'
      BY <1>7, <2>1, DeviceSame DEF vars
  <2> QED
      BY <2>2, <2>3, IInvPartsNext
<1> QED
    BY <1>1, <1>2, <1>3, <1>4, <1>5, <1>6, <1>7 DEF Next

----------------------------------------------------------------------------
\* Every reachable state satisfies the invariant.
THEOREM Invariance == Spec => []IInv
BY InitIInv, NextStep, PTL DEF Spec

\* The columns always hold what they can hold, for any users and devices.
THEOREM TypeCorrect == Spec => []TypeOK
<1>1. IInv => TypeOK
    BY DEF IInv
<1> QED
    BY <1>1, Invariance, PTL

\* The device of an active session is on record.
THEOREM DeviceOnRecord == Spec => []SessionHasDevice
<1>1. IInv => SessionHasDevice
    BY DEF IInv
<1> QED
    BY <1>1, Invariance, PTL

\* The risk score of a device follows its trust status.
THEOREM RiskFollowsTrust == Spec => []RiskMatchesTrust
<1>1. IInv => RiskMatchesTrust
    BY DEF IInv
<1> QED
    BY <1>1, Invariance, PTL

\* No request authenticates as a locked user, though _validate_session does
\* not read users.status.
THEOREM LockedStaysOut == Spec => []LockedUserIsOut
<1>1. IInv => LockedUserIsOut
    BY DEF IInv
<1> QED
    BY <1>1, Invariance, PTL

\* No session of a blocked device is active, and none becomes so while the
\* device is blocked.
THEOREM BlockedStaysOut == Spec => []BlockedDeviceIsOut
<1>1. IInv => BlockedDeviceIsOut
    BY DEF IInv
<1> QED
    BY <1>1, Invariance, PTL

\* The assumption about sessions under which Trading enumerates the views of
\* its orders holds of every active session.
THEOREM ViewsAreSound == Spec => []ScreeningAssumption
<1>1. IInv => ScreeningAssumption
    BY DEF IInv
<1> QED
    BY <1>1, Invariance, PTL

\* A user with devices has exactly one primary device.
THEOREM PrimaryIsUnique == Spec => []OnePrimaryDevice
<1>1. IInv => OnePrimaryDevice
    BY DEF IInv
<1> QED
    BY <1>1, Invariance, PTL
=============================================================================
