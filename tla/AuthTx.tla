------------------------------- MODULE AuthTx -------------------------------
(***************************************************************************)
(* The requests of SessionSecurity, and registrations, as transactions     *)
(* that overlap (PostgreSQL, READ COMMITTED): authenticate_user,           *)
(* register_user, apply_device_action and the account locks of             *)
(* apply_admin_action, cut where they read what another may have changed   *)
(* since.                                                                  *)
(*                                                                         *)
(* A SELECT sees what is committed.  An UPDATE writes the columns that     *)
(* were changed, with the values computed from what was read.  What a      *)
(* request flushes and commits with no SELECT in between is one step.  A   *)
(* login reads once more after its flush, so it holds the row of its       *)
(* device (or the entry of the unique index) from there to its commit.     *)
(* Revocations of one session and its expiry write a constant and stay     *)
(* single steps; histories, profiles and audit rows are left out.          *)
(***************************************************************************)
EXTENDS SessionSecurity

CONSTANTS
    Slots,          \* bound: requests under way at the same time
    Emails,         \* those that are registered
    Seeded,         \* users there are from the start
    Idle,           \* a slot with nothing under way
    MaxRequests     \* bound: requests begun

ASSUME AuthTxAssumption ==
    /\ Slots \subseteq Nat /\ IsFiniteSet(Slots) /\ IsFiniteSet(Emails)
    /\ Seeded \in Nat /\ MaxRequests \in Nat

VARIABLES
    job,            \* the request in each slot
    account,        \* number of the account registered for each email, or 0
    begun,          \* requests begun
    crossed,        \* history: users about whom two things went on at the same time
    raced           \* history: for each session, what overlapped its login

tables == <<userStatus, device, session, nextSession, account>>
auxiliary == <<wrong, begun, crossed, raced>>
allVars == <<vars, job, account, begun, crossed, raced>>

DeviceKinds == {"trust", "step_up", "block"}
UserKinds == {"lock", "unlock"}

Under(kind) == {i \in Slots : job[i] # Idle /\ job[i].kind = kind}

Registered == {e \in Emails : account[e] # 0}

\* A mutant: the users are counted once.
CountOfSeeded == Seeded

CountOfUsers == Seeded + Cardinality(Registered)

----------------------------------------------------------------------------
TxInit ==
    /\ Init
    /\ job = [i \in Slots |-> Idle]
    /\ account = [e \in Emails |-> 0]
    /\ begun = 0
    /\ crossed = {}
    /\ raced = [s \in SessionIds |-> {}]

\* What a request remembers: its kind, its subject (a user or an email), how
\* far it is, what it loaded and what it makes of it.
Request(kind, subject, d, step) ==
    [kind |-> kind, subject |-> subject, device |-> d, step |-> step, abnormal |-> FALSE,
     loaded |-> NoDevice, row |-> NoDevice, opens |-> NoSession, status |-> None,
     revokes |-> {}, number |-> 0, met |-> {}]

\* A request remembers the others about its subject that were under way when
\* it was; to a registration every other counts.
About(a, b) == a.subject = b.subject \/ {a.kind, b.kind} = {"register"}
Trace(r) == <<r.kind, r.subject, r.device>>

Begin(i, request) ==
    LET others == {k \in Slots \ {i} : job[k] # Idle /\ About(job[k], request)} IN
    /\ job[i] = Idle /\ \A k \in Slots : k < i => job[k] # Idle
    /\ begun < MaxRequests
    /\ begun' = begun + 1
    /\ job' = [k \in Slots |->
            IF k = i THEN [request EXCEPT !.met = {Trace(job[o]) : o \in others}]
            ELSE IF k \in others THEN [job[k] EXCEPT !.met = @ \cup {Trace(request)}]
            ELSE job[k]]
    /\ crossed' = IF others # {} THEN crossed \cup ({request.subject} \cap Users) ELSE crossed
    /\ UNCHANGED <<tables, wrong, raced>>

\* The job goes on, or its request is over.
Goes(i, next) == job' = [job EXCEPT ![i] = next]
Ends(i) == Goes(i, Idle)

\* A flushed login holds the row of its device.
Held(u, d) ==
    \E k \in Slots : /\ job[k] # Idle /\ job[k].kind = "login" /\ job[k].step = "flushed"
                     /\ job[k].subject = u /\ job[k].device = d

\* An UPDATE of the columns in which the row differs from what was loaded.
Column(now, loaded, wanted) == IF wanted = loaded THEN now ELSE wanted

\* A mutant: every column is written back.
UpdatedWhole(row, loaded, wanted) == wanted

Updated(row, loaded, wanted) ==
    [trust |-> Column(row.trust, loaded.trust, wanted.trust),
     risk |-> Column(row.risk, loaded.risk, wanted.risk),
     primary |-> Column(row.primary, loaded.primary, wanted.primary)]

----------------------------------------------------------------------------
\* POST /auth/login with the right password: the user is read, ...
BeginLogin(i, u, d, abnormal) ==
    /\ userStatus[u] = "ACTIVE"
    /\ nextSession + Cardinality(Under("login")) \in SessionIds
    /\ Begin(i, [Request("login", u, d, "user") EXCEPT !.abnormal = abnormal])

\* A mutant: a blocked device is looked at when the session is used.
ReadDeviceUnchecked(i) ==
    LET j == job[i] IN
    /\ i \in Under("login") /\ j.step = "user"
    /\ Goes(i, [j EXCEPT !.step = "device", !.loaded = device[j.subject][j.device],
                         !.row = Upsert(j.subject, j.device, j.abnormal)])
    /\ UNCHANGED <<tables, auxiliary>>

\* ... then the device, and whether the user has others; a blocked one
\* raises, ...
ReadDevice(i) ==
    LET j == job[i]
        row == Upsert(j.subject, j.device, j.abnormal)
    IN
    /\ i \in Under("login") /\ j.step = "user"
    /\ \/ row.trust = "BLOCKED" /\ Ends(i)
       \/ /\ row.trust # "BLOCKED"
          /\ Goes(i, [j EXCEPT !.step = "device", !.loaded = device[j.subject][j.device],
                               !.row = row])
    /\ UNCHANGED <<tables, auxiliary>>

\* ... is flushed, where a device inserted meanwhile is a unique violation,
\* and the sessions are counted.
FlushLogin(i) ==
    LET j == job[i]
        u == j.subject
        d == j.device
    IN
    /\ i \in Under("login") /\ j.step = "device"
    /\ ~Held(u, d)
    /\ \/ j.loaded = NoDevice /\ d \in Known(u) /\ Ends(i)
       \/ /\ j.loaded = NoDevice => d \notin Known(u)
          /\ Goes(i, [j EXCEPT !.step = "flushed", !.opens = NewSession(u, d, j.row)])
    /\ UNCHANGED <<tables, auxiliary>>

CommitLogin(i) ==
    LET j == job[i]
        u == j.subject
        d == j.device
    IN
    /\ i \in Under("login") /\ j.step = "flushed"
    /\ device' = [device EXCEPT ![u][d] = Updated(@, j.loaded, j.row)]
    /\ session' = [session EXCEPT ![nextSession] = j.opens]
    /\ nextSession' = nextSession + 1
    /\ wrong' = [wrong EXCEPT ![u] = 0]
    /\ raced' = [raced EXCEPT ![nextSession] = j.met]
    /\ Ends(i)
    /\ UNCHANGED <<userStatus, account, begun, crossed>>

----------------------------------------------------------------------------
\* POST /admin/security/devices/{id}/actions: the row is read, ...
BeginDevice(i, kind, u, d) ==
    /\ d \in Known(u)
    /\ Begin(i, [Request(kind, u, d, "row") EXCEPT !.loaded = device[u][d]])

Wanted(kind, row) ==
    CASE kind = "trust" -> Rated(row, "TRUSTED", AtMost(row.risk, 10))
      [] kind = "step_up" -> Rated(row, "STEP_UP_REQUIRED", AtLeast(row.risk, 45))
      [] kind = "block" -> Rated(row, "BLOCKED", AtLeast(row.risk, 90))

\* POST /admin/risk-events/{id}/actions: LOCK_ACCOUNT and UNLOCK_ACCOUNT read
\* the user, ...
BeginUser(i, kind, u) ==
    Begin(i, [Request(kind, u, None, "row") EXCEPT !.status = userStatus[u]])

\* The sessions a block or a lock is about.
Concerns(j, s) ==
    session[s].user = j.subject /\ (j.kind = "block" => session[s].device = j.device)

\* ... a block or a lock lists the active sessions, ...
ListSessions(i) ==
    LET j == job[i] IN
    /\ i \in Under("block") \cup Under("lock") /\ j.step = "row"
    /\ Goes(i, [j EXCEPT !.step = "listed",
                !.revokes = {s \in SessionIds : Active(s) /\ Concerns(j, s)}])
    /\ UNCHANGED <<tables, auxiliary>>

Ready(j) == j.step = IF j.kind \in {"block", "lock"} THEN "listed" ELSE "row"

RevokedAll(ids) ==
    [s \in SessionIds |-> IF s \in ids THEN Revoked(session[s]) ELSE session[s]]

\* ... and what has changed is written; the row of a device waits for the
\* login that holds it.
CommitDevice(i) ==
    LET j == job[i]
        wanted == Wanted(j.kind, j.loaded)
    IN
    /\ i \in UNION {Under(kind) : kind \in DeviceKinds} /\ Ready(j)
    /\ wanted # j.loaded => ~Held(j.subject, j.device)
    /\ device' = [device EXCEPT ![j.subject][j.device] = Updated(@, j.loaded, wanted)]
    /\ session' = RevokedAll(j.revokes)
    /\ Ends(i)
    /\ UNCHANGED <<userStatus, nextSession, account, auxiliary>>

CommitUser(i) ==
    LET j == job[i] IN
    /\ i \in UNION {Under(kind) : kind \in UserKinds} /\ Ready(j)
    /\ userStatus' = [userStatus EXCEPT ![j.subject] =
            Column(@, j.status, IF j.kind = "lock" THEN "LOCKED" ELSE "ACTIVE")]
    /\ session' = RevokedAll(j.revokes)
    /\ Ends(i)
    /\ UNCHANGED <<device, nextSession, account, auxiliary>>

\* Logout, revocation by an administrator, expiry.
SessionEnds(s) ==
    /\ RevokeSession(s) \/ Expire(s)
    /\ crossed' = crossed \cup
            {u \in Users : u = session[s].user
                           /\ \E i \in Slots : job[i] # Idle /\ job[i].subject = u}
    /\ UNCHANGED <<job, account, begun, raced>>

----------------------------------------------------------------------------
\* POST /auth/register: an email in use is refused, ...
BeginRegister(i, e) ==
    /\ account[e] = 0
    /\ Begin(i, Request("register", e, None, "checked"))

\* ... looked up once more, where one registered meanwhile is answered as if
\* it were the new one, and the users are counted.
CountUsers(i) ==
    LET j == job[i] IN
    /\ i \in Under("register") /\ j.step = "checked"
    /\ \/ account[j.subject] # 0 /\ Ends(i)
       \/ /\ account[j.subject] = 0
          /\ Goes(i, [j EXCEPT !.step = "counted", !.number = CountOfUsers + 1])
    /\ UNCHANGED <<tables, auxiliary>>

\* A mutant: the number of an account is not unique.
TakenEmailOnly(e, n) == account[e] # 0

\* The unique columns users.email and accounts.account_number.
Taken(e, n) == account[e] # 0 \/ n <= Seeded \/ \E f \in Registered : account[f] = n

\* The user and the account are inserted; a unique violation, which the route
\* does not catch, leaves neither.
CommitRegister(i) ==
    LET j == job[i] IN
    /\ i \in Under("register") /\ j.step = "counted"
    /\ account' = IF Taken(j.subject, j.number) THEN account
                  ELSE [account EXCEPT ![j.subject] = j.number]
    /\ Ends(i)
    /\ UNCHANGED <<userStatus, device, session, nextSession, auxiliary>>

----------------------------------------------------------------------------
Step(i) ==
    \/ ReadDevice(i) \/ FlushLogin(i) \/ CommitLogin(i)
    \/ ListSessions(i) \/ CommitDevice(i) \/ CommitUser(i)
    \/ CountUsers(i) \/ CommitRegister(i)

TxNext ==
    \/ \E i \in Slots :
          \/ \E u \in Users, d \in Devices :
                \/ \E abnormal \in BOOLEAN : BeginLogin(i, u, d, abnormal)
                \/ \E kind \in DeviceKinds : BeginDevice(i, kind, u, d)
          \/ \E u \in Users, kind \in UserKinds : BeginUser(i, kind, u)
          \/ \E e \in Emails : BeginRegister(i, e)
          \/ Step(i)
    \/ \E s \in SessionIds : SessionEnds(s)

TxSpec == TxInit /\ [][TxNext]_allVars

----------------------------------------------------------------------------
Subjects == Users \cup Emails
Kinds == {"login", "register"} \cup DeviceKinds \cup UserKinds

Requests ==
    [kind: Kinds, subject: Subjects, device: Devices \cup {None},
     step: {"user", "device", "flushed", "row", "listed", "checked", "counted"},
     abnormal: BOOLEAN, loaded: DeviceRows \cup {NoDevice}, row: DeviceRows \cup {NoDevice},
     opens: SessionRows \cup {NoSession}, status: UserStatus \cup {None},
     revokes: SUBSET SessionIds, number: Nat,
     met: SUBSET (Kinds \X Subjects \X (Devices \cup {None}))]

ASSUME IdleIsNoRequest == Idle \notin Requests

\* The type invariant: the tables, whatever overlaps, and the jobs.
TxTypeOK ==
    /\ TypeOK
    /\ job \in [Slots -> Requests \cup {Idle}]
    /\ account \in [Emails -> Nat]
    /\ begun \in Nat
    /\ crossed \subseteq Users
    /\ raced \in [SessionIds -> SUBSET (Kinds \X Subjects \X (Devices \cup {None}))]
    /\ nextSession + Cardinality(Under("login")) <= MaxSessions + 1

\* A locked user has an active session, or a blocked device one, only where
\* the login that opened it overlapped a lock or a block: no login that starts
\* after one was committed gets in, and none misses a session that was there
\* when it started.
OnlyRacedSurvive ==
    \A s \in SessionIds : Active(s) =>
        LET u == session[s].user  d == session[s].device IN
        /\ userStatus[u] = "LOCKED" => <<"lock", u, None>> \in raced[s]
        /\ device[u][d].trust = "BLOCKED" => <<"block", u, d>> \in raced[s]

\* A blocked device stays blocked until an administrator trusts it or steps it
\* up, or until a login from an abnormal region that overlapped the block
\* writes the trust it computed before; a login from elsewhere never does.
BlockIsLifted ==
    [][\A u \in Users, d \in Devices :
        device[u][d].trust = "BLOCKED" /\ device'[u][d].trust # "BLOCKED" =>
            \E i \in Slots :
                /\ job[i] # Idle /\ job[i].subject = u /\ job[i].device = d /\ job'[i] = Idle
                /\ \/ job[i].kind \in {"trust", "step_up"}
                   \/ /\ job[i].kind = "login" /\ job[i].abnormal
                      /\ <<"block", u, d>> \in job[i].met]_allVars

\* Account numbers run from 1 without a gap or a repetition, however
\* registrations overlap: the count a number is made from is stale only where
\* the number is taken.
NumbersAreDense ==
    {account[e] : e \in Registered} = (Seeded + 1)..CountOfUsers

\* While no two requests about one user overlap, a step of a transaction is a
\* step of SessionSecurity or none.
UncrossedIsSerial == [][crossed' = {} => [Next]_vars]_allVars

\* A registration ends without the account it was for only where another was
\* under way with it, for the same email if the email is taken: by a 500, or
\* answered with an account it did not make.
RegistersAlone ==
    [][\A i \in Under("register") :
        LET j == job[i] IN
        job'[i] = Idle /\ account' = account =>
            IF account[j.subject] # 0 THEN Trace(j) \in j.met ELSE j.met # {}]_allVars

----------------------------------------------------------------------------
\* The strengthening under which the properties are inductive

\* The request in slot i, if there is one.
At(i) == {job[i]} \ {Idle}

\* Of two requests about one subject, or two registrations, each has met the
\* other.
OverlapsAreMet ==
    \A i, k \in Slots : \A a \in At(i), b \in At(k) :
        i # k /\ About(a, b) => Trace(b) \in a.met

\* The row of a device waits for one login at a time.
OneHolder ==
    \A i, k \in Slots : \A a \in At(i), b \in At(k) :
        /\ a.kind = "login" /\ b.kind = "login"
        /\ a.step = "flushed" /\ b.step = "flushed"
        /\ a.subject = b.subject /\ a.device = b.device
        => i = k

\* A lock or block that a login does not see overlaps it, and the row that a
\* login inserts is not there until it commits.
LoginOK(j) ==
    LET u == j.subject  d == j.device IN
    /\ u \in Users /\ d \in Devices /\ j.step \in {"user", "device", "flushed"}
    /\ userStatus[u] = "LOCKED" => <<"lock", u, None>> \in j.met
    /\ j.step # "user" =>
          /\ j.row \in DeviceRows /\ j.row.trust # "BLOCKED"
          /\ j.loaded # NoDevice => d \in Known(u)
          /\ j.loaded # NoDevice /\ ~j.abnormal => j.row = j.loaded
          /\ device[u][d].trust = "BLOCKED" => <<"block", u, d>> \in j.met
    /\ j.step = "flushed" =>
          /\ j.opens \in SessionRows /\ j.opens.user = u /\ j.opens.device = d
          /\ j.loaded = NoDevice => d \notin Known(u)

\* A lock or block has listed every session that is still active, save for
\* those of logins that overlap it; no other request revokes.
RevokesOK(j) ==
    /\ j.step \in {"row", "listed"}
    /\ \A s \in j.revokes : s < nextSession
    /\ j.kind \notin {"block", "lock"} => j.step = "row"
    /\ j.step = "row" => j.revokes = {}
    /\ j.step = "listed" =>
          \A s \in SessionIds :
              Active(s) /\ Concerns(j, s) => s \in j.revokes \/ Trace(j) \in raced[s]

DeviceJobOK(j) ==
    /\ j.subject \in Users /\ j.device \in Known(j.subject) /\ j.loaded \in DeviceRows
    /\ RevokesOK(j)

UserJobOK(j) ==
    /\ j.subject \in Users /\ j.device = None /\ j.status \in UserStatus
    /\ RevokesOK(j)

\* The number of a registration is the next one, or another has overlapped it.
RegisterOK(j) ==
    /\ j.subject \in Emails /\ j.device = None /\ j.step \in {"checked", "counted"}
    /\ account[j.subject] # 0 => Trace(j) \in j.met
    /\ j.step = "counted" =>
          /\ j.number \in (Seeded + 1)..(CountOfUsers + 1)
          /\ j.met = {} => j.number = CountOfUsers + 1

JobOK(j) ==
    /\ j.kind = "login" => LoginOK(j)
    /\ j.kind \in DeviceKinds => DeviceJobOK(j)
    /\ j.kind \in UserKinds => UserJobOK(j)
    /\ j.kind = "register" => RegisterOK(j)

\* What a request remembers is still so.
Current(j) ==
    LET u == j.subject  d == j.device IN
    /\ j.kind = "login" =>
          /\ userStatus[u] = "ACTIVE"
          /\ j.step # "user" => j.loaded = device[u][d] /\ j.row = Upsert(u, d, j.abnormal)
          /\ j.step = "flushed" => j.opens = NewSession(u, d, j.row)
    /\ j.kind \in DeviceKinds => j.loaded = device[u][d]
    /\ j.kind \in UserKinds => j.status = userStatus[u]
    /\ j.step = "listed" => j.revokes = {s \in SessionIds : Active(s) /\ Concerns(j, s)}

\* While no two requests about one user have overlapped.
UncrossedOK ==
    crossed = {} =>
        /\ IInv
        /\ \A i \in Slots : \A j \in At(i) : Current(j)
        /\ \A i, k \in Slots : \A a \in At(i), b \in At(k) :
              i # k /\ a.subject = b.subject => a.subject \notin Users

\* The inductive invariant of AuthTxProofs.
TxInv ==
    /\ TxTypeOK
    /\ OnlyRacedSurvive /\ NumbersAreDense
    /\ OverlapsAreMet /\ OneHolder
    /\ \A i \in Slots : \A j \in At(i) : JobOK(j)
    /\ UncrossedOK
=============================================================================
