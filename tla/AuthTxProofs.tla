---------------------------- MODULE AuthTxProofs ----------------------------
(***************************************************************************)
(* Proofs of the safety and action properties of AuthTx, for any users,    *)
(* devices and emails and any number of requests under way: what a lock or *)
(* a block misses, what lifts a block, what registrations leave, and that  *)
(* a transaction that overlaps no other about its user is a step of        *)
(* SessionSecurity, whose invariant then carries over.                     *)
(*                                                                         *)
(* A step moves one request on (Advance), begins one (BeginStep), or       *)
(* commits one (CommitStep).  What the others remember survives a commit   *)
(* because of what the two have met (OthersStay), and stays current where  *)
(* they are not about one user (CurrentStays).                             *)
(***************************************************************************)
EXTENDS AuthTx, SessionSecurityProofs, FiniteSetTheorems

\* What BlockIsLifted and RegistersAlone say of one step.
LiftOK ==
    \A u \in Users, d \in Devices :
        device[u][d].trust = "BLOCKED" /\ device'[u][d].trust # "BLOCKED" =>
            \E i \in Slots :
                /\ job[i] # Idle /\ job[i].subject = u /\ job[i].device = d /\ job'[i] = Idle
                /\ \/ job[i].kind \in {"trust", "step_up"}
                   \/ /\ job[i].kind = "login" /\ job[i].abnormal
                      /\ <<"block", u, d>> \in job[i].met
AloneOK ==
    \A i \in Under("register") :
        LET j == job[i] IN
        job'[i] = Idle /\ account' = account =>
            IF account[j.subject] # 0 THEN Trace(j) \in j.met ELSE j.met # {}

StepOK ==
    /\ TxInv'
    /\ crossed' = {} => [Next]_vars
    /\ LiftOK /\ AloneOK

----------------------------------------------------------------------------
\* Types

\* A request has its fields.
LEMMA RequestFields ==
    ASSUME NEW j \in Requests
    PROVE  /\ j.kind \in Kinds /\ j.subject \in Subjects /\ j.device \in Devices \cup {None}
           /\ j.abnormal \in BOOLEAN
           /\ j.loaded \in DeviceRows \cup {NoDevice} /\ j.row \in DeviceRows \cup {NoDevice}
           /\ j.opens \in SessionRows \cup {NoSession}
           /\ j.status \in UserStatus \cup {None} /\ j.revokes \in SUBSET SessionIds
           /\ j.number \in Nat
           /\ j.met \in SUBSET (Kinds \X Subjects \X (Devices \cup {None}))
BY DEF Requests

\* The request in a slot is one, and what the invariant says of it holds.
LEMMA AtSlot ==
    ASSUME TxInv, NEW i \in Slots, job[i] # Idle
    PROVE  /\ job[i] \in Requests /\ job[i] \in At(i) /\ JobOK(job[i])
           /\ crossed = {} => Current(job[i])
<1>1. job[i] \in Requests /\ job[i] \in At(i)
    BY DEF TxInv, TxTypeOK, At
<1>2. \A j \in At(i) : JobOK(j)
    BY DEF TxInv
<1>3. crossed = {} => \A j \in At(i) : Current(j)
    BY DEF TxInv, UncrossedOK
<1> QED
    BY <1>1, <1>2, <1>3

\* The row a login leaves is one, and of an unblocked trust only if the row
\* it found was.
LEMMA UpsertTyped ==
    ASSUME TypeOK, NEW u \in Users, NEW d \in Devices, NEW abnormal \in BOOLEAN
    PROVE  /\ Upsert(u, d, abnormal) \in DeviceRows
           /\ device[u][d].trust = "BLOCKED" => Upsert(u, d, abnormal).trust = "BLOCKED"
           /\ d \in Known(u) /\ ~abnormal => Upsert(u, d, abnormal) = device[u][d]
           /\ d \in Known(u) => Upsert(u, d, abnormal).primary = device[u][d].primary
<1>1. CASE d \in Known(u)
  <2> DEFINE row == device[u][d]
  <2>1. row \in DeviceRows
      BY <1>1, KnownRow DEF TypeOK
  <2>2. row.risk \in Nat /\ AtLeast(row.risk, 55) \in Nat /\ row.primary \in BOOLEAN
      BY <2>1 DEF DeviceRows, AtLeast
  <2>3. Rated(row, "STEP_UP_REQUIRED", AtLeast(row.risk, 55)) \in DeviceRows
      BY <2>2 DEF Rated, DeviceRows, DeviceTrustStatus
  <2> QED
      BY <1>1, <2>1, <2>3 DEF Upsert, SeenAgain, Rated
<1>2. CASE d \notin Known(u)
  <2>1. FirstSeen(u, abnormal) \in DeviceRows
      BY DEF FirstSeen, DeviceRows, DeviceTrustStatus
  <2>2. device[u][d].trust # "BLOCKED"
      BY <1>2 DEF Known, NoDevice, None
  <2> QED
      BY <1>2, <2>1, <2>2 DEF Upsert
<1> QED
    BY <1>1, <1>2

\* The session a login opens is a row of its table.
LEMMA NewSessionTyped ==
    ASSUME NEW u \in Users, NEW d \in Devices, NEW row \in DeviceRows
    PROVE  /\ NewSession(u, d, row) \in SessionRows
           /\ NewSession(u, d, row).user = u /\ NewSession(u, d, row).device = d
<1>1. row.risk \in Nat
    BY DEF DeviceRows
<1>2. row.risk + (IF Cardinality(LiveSessions(u)) >= Concurrency THEN 15 ELSE 0) \in Nat
    BY <1>1
<1>3. Strength(row.trust) \in AuthStrength
    BY DEF Strength, AuthStrength
<1> QED
    BY <1>2, <1>3 DEF NewSession, SessionRows

----------------------------------------------------------------------------
\* What a step leaves alone

\* Where the tables stay, what is said of a request stays.
LEMMA TablesSame ==
    ASSUME UNCHANGED <<userStatus, device, session, nextSession, account, raced>>, NEW j
    PROVE  JobOK(j)' = JobOK(j) /\ Current(j)' = Current(j)
<1>1. JobOK(j)' = JobOK(j)
    BY DEF JobOK, LoginOK, DeviceJobOK, UserJobOK, RevokesOK, RegisterOK, Known, Active,
           Concerns, Trace, CountOfUsers, Registered
<1>2. Current(j)' = Current(j)
    BY DEF Current, Upsert, SeenAgain, FirstSeen, Known, NewSession, LiveSessions, Created,
           Live, Active, Concerns
<1> QED
    BY <1>1, <1>2

\* The invariant of SessionSecurity goes by its variables.
LEMMA SerialSame ==
    ASSUME UNCHANGED vars
    PROVE  IInv' = IInv /\ TypeOK' = TypeOK
BY DEF vars, IInv, TypeOK, LockedUserIsOut, BlockedDeviceIsOut, SessionHasDevice,
       RiskMatchesTrust, RiskFits, ScreeningAssumption, OnePrimaryDevice, Active, DeviceOf,
       View, Known

\* A change of session takes the number of logins under way along.
LEMMA LoginsCounted ==
    /\ IsFiniteSet(Under("login")) /\ Cardinality(Under("login")) \in Nat
    /\ \A S : S \subseteq Under("login") =>
          IsFiniteSet(S) /\ Cardinality(S) \in Nat /\ Cardinality(S) <= Cardinality(Under("login"))
<1>1. IsFiniteSet(Under("login"))
    BY AuthTxAssumption, FS_Subset DEF Under
<1> QED
    BY <1>1, FS_Subset, FS_CardinalityType

\* Users are counted by a number.
LEMMA UsersCounted ==
    IsFiniteSet(Registered) /\ CountOfUsers \in Nat /\ CountOfUsers >= Seeded /\ Seeded \in Nat
<1>1. IsFiniteSet(Registered)
    BY AuthTxAssumption, FS_Subset DEF Registered
<1> QED
    BY <1>1, FS_CardinalityType, AuthTxAssumption DEF CountOfUsers

\* A step that moves one request on or ends it, and writes no table.
LEMMA Advance ==
    ASSUME TxInv, NEW i \in Slots, job[i] # Idle, NEW new,
           job' = [job EXCEPT ![i] = new], UNCHANGED <<tables, auxiliary>>,
           \/ new = Idle
           \/ /\ new \in Requests /\ Trace(new) = Trace(job[i]) /\ new.met = job[i].met
              /\ JobOK(new) /\ (crossed = {} => Current(new))
              /\ new.kind = "login" /\ new.step = "flushed" =>
                    \A k \in Slots \ {i} : \A b \in At(k) :
                        ~ /\ b.kind = "login" /\ b.step = "flushed"
                          /\ b.subject = new.subject /\ b.device = new.device
    PROVE  /\ TxInv'
           /\ crossed' = {} => [Next]_vars
           /\ LiftOK
<1> DEFINE old == job[i]
<1>1. /\ TxTypeOK /\ old \in Requests /\ old \in At(i)
      /\ UNCHANGED <<userStatus, device, session, nextSession, account, raced>>
      /\ UNCHANGED <<wrong, begun, crossed>> /\ UNCHANGED vars
    BY AtSlot DEF TxInv, tables, auxiliary, vars
<1>2. /\ job' \in [Slots -> Requests \cup {Idle}]
      /\ At(i)' = {new} \ {Idle}
      /\ \A k \in Slots \ {i} : At(k)' = At(k)
    BY <1>1 DEF TxTypeOK, At
<1>3. new # Idle =>
        /\ new.kind = old.kind /\ new.subject = old.subject /\ new.device = old.device
    BY DEF Trace
<1>4. TxTypeOK'
  <2>1. Under("login")' \subseteq Under("login")
      BY <1>1, <1>2, <1>3 DEF Under, TxTypeOK
  <2>2. Cardinality(Under("login"))' <= Cardinality(Under("login"))
        /\ Cardinality(Under("login"))' \in Nat /\ Cardinality(Under("login")) \in Nat
      BY <2>1, LoginsCounted
  <2>3. nextSession \in Int /\ MaxSessions \in Int
      BY <1>1, SessionAssumption DEF TxTypeOK, TypeOK
  <2>4. (nextSession + Cardinality(Under("login")) <= MaxSessions + 1)'
      BY <1>1, <2>2, <2>3 DEF TxTypeOK
  <2>5. TypeOK'
      BY <1>1, SerialSame DEF TxTypeOK
  <2> QED
      BY <1>1, <1>2, <2>4, <2>5 DEF TxTypeOK
<1>5. OnlyRacedSurvive' /\ NumbersAreDense'
    BY <1>1 DEF TxInv, OnlyRacedSurvive, NumbersAreDense, Active, Registered, CountOfUsers
<1>6. OverlapsAreMet'
  <2> SUFFICES ASSUME NEW x \in Slots, NEW y \in Slots, NEW a \in At(x)', NEW b \in At(y)',
                      x # y, About(a, b)
               PROVE  Trace(b) \in a.met
      BY DEF OverlapsAreMet, About, Trace
  <2>1. CASE x = i
    <3>1. a = new /\ b \in At(y)
        BY <1>2, <2>1
    <3>2. About(old, b)
        BY <1>2, <1>3, <2>1 DEF About
    <3> QED
        BY <1>1, <1>2, <2>1, <3>1, <3>2 DEF TxInv, OverlapsAreMet
  <2>2. CASE y = i
    <3>1. b = new /\ a \in At(x)
        BY <1>2, <2>2
    <3>2. About(a, old) /\ Trace(b) = Trace(old)
        BY <1>2, <1>3, <2>2 DEF About
    <3> QED
        BY <1>1, <1>2, <2>2, <3>1, <3>2 DEF TxInv, OverlapsAreMet
  <2>3. CASE x # i /\ y # i
      BY <1>2, <2>3 DEF TxInv, OverlapsAreMet
  <2> QED
      BY <2>1, <2>2, <2>3
<1>7. OneHolder'
    BY <1>2 DEF TxInv, OneHolder
<1>8. ASSUME NEW k \in Slots, NEW j \in At(k)'
      PROVE  JobOK(j)' /\ (crossed = {} => Current(j)')
  <2>1. JobOK(j) /\ (crossed = {} => Current(j))
      BY <1>2, <1>8 DEF TxInv, UncrossedOK
  <2> QED
      BY <1>1, <2>1, TablesSame
<1>9. UncrossedOK'
  <2> SUFFICES ASSUME crossed = {}
               PROVE  /\ IInv'
                      /\ \A k \in Slots : \A j \in At(k)' : Current(j)'
                      /\ \A x, y \in Slots : \A a \in At(x)', b \in At(y)' :
                            x # y /\ a.subject = b.subject => a.subject \notin Users
      BY <1>1 DEF UncrossedOK
  <2>1. IInv'
      BY <1>1, SerialSame DEF TxInv, UncrossedOK
  <2>2. ASSUME NEW x \in Slots, NEW y \in Slots, NEW a \in At(x)', NEW b \in At(y)',
               x # y, a.subject = b.subject
        PROVE  a.subject \notin Users
    <3>1. \E p \in At(x) : p.subject = a.subject
        BY <1>1, <1>2, <1>3
    <3>2. \E q \in At(y) : q.subject = b.subject
        BY <1>1, <1>2, <1>3
    <3> QED
        BY <2>2, <3>1, <3>2 DEF TxInv, UncrossedOK
  <2> QED
      BY <1>8, <2>1, <2>2
<1>10. LiftOK
    BY <1>1 DEF LiftOK
<1> QED
    BY <1>1, <1>4, <1>5, <1>6, <1>7, <1>8, <1>9, <1>10 DEF TxInv

----------------------------------------------------------------------------
\* The steps that read

\* A step of another request leaves registrations alone.
LEMMA OthersAlone ==
    ASSUME NEW i \in Slots, job[i].kind # "register", NEW new,
           \A k \in Slots \ {i} : job'[k] = job[k]
    PROVE  AloneOK
<1> SUFFICES ASSUME NEW k \in Under("register")
             PROVE  job'[k] # Idle
    BY DEF AloneOK
<1> QED
    BY DEF Under

\* ReadDevice: a blocked row ends the login, another is remembered.
LEMMA ReadDeviceStep ==
    ASSUME TxInv, NEW i \in Slots, ReadDevice(i)
    PROVE  StepOK
<1> DEFINE j == job[i]
           row == Upsert(j.subject, j.device, j.abnormal)
           new == [j EXCEPT !.step = "device", !.loaded = device[j.subject][j.device], !.row = row]
<1>1. /\ j \in Requests /\ j # Idle /\ j.kind = "login" /\ j.step = "user" /\ LoginOK(j)
      /\ crossed = {} => Current(j)
      /\ TypeOK /\ UNCHANGED <<tables, auxiliary>>
    BY AtSlot DEF ReadDevice, Under, TxInv, TxTypeOK, JobOK
<1>2. j.subject \in Users /\ j.device \in Devices /\ j.abnormal \in BOOLEAN
    BY <1>1, RequestFields DEF LoginOK
<1>3. CASE row.trust = "BLOCKED" /\ Ends(i)
  <2>1. job' = [job EXCEPT ![i] = Idle]
      BY <1>3 DEF Ends, Goes
  <2> QED
      BY <1>1, <2>1, Advance, OthersAlone DEF StepOK, TxInv, TxTypeOK
<1>4. CASE row.trust # "BLOCKED" /\ Goes(i, new)
  <2>1. /\ row \in DeviceRows /\ device[j.subject][j.device].trust # "BLOCKED"
        /\ j.device \in Known(j.subject) /\ ~j.abnormal => row = device[j.subject][j.device]
      BY <1>1, <1>2, <1>4, UpsertTyped
  <2>2. device[j.subject][j.device] \in DeviceRows \cup {NoDevice}
      BY <1>1, <1>2 DEF TypeOK
  <2>3. /\ new \in Requests /\ Trace(new) = Trace(j) /\ new.met = j.met
        /\ new.kind = "login" /\ new.step = "device" /\ new.subject = j.subject
        /\ new.device = j.device /\ new.row = row /\ new.abnormal = j.abnormal
        /\ new.loaded = device[j.subject][j.device]
      BY <1>1, <2>1, <2>2 DEF Requests, Trace
  <2>4. LoginOK(new)
      BY <1>1, <1>2, <1>4, <2>1, <2>3 DEF LoginOK, Known
  <2>5. JobOK(new)
      BY <2>3, <2>4 DEF JobOK, DeviceKinds, UserKinds
  <2>6. crossed = {} => Current(new)
      BY <1>1, <2>3 DEF Current, DeviceKinds, UserKinds
  <2>7. job' = [job EXCEPT ![i] = new]
      BY <1>4 DEF Goes
  <2> HIDE DEF new
  <2> QED
      BY <1>1, <2>3, <2>5, <2>6, <2>7, Advance, OthersAlone DEF StepOK, TxInv, TxTypeOK
<1> QED
    BY <1>3, <1>4 DEF ReadDevice

\* FlushLogin: the row waits for no other login, and its insert finds none.
LEMMA FlushLoginStep ==
    ASSUME TxInv, NEW i \in Slots, FlushLogin(i)
    PROVE  StepOK
<1> DEFINE j == job[i]
           opens == NewSession(j.subject, j.device, j.row)
           new == [j EXCEPT !.step = "flushed", !.opens = opens]
<1>1. /\ j \in Requests /\ j # Idle /\ j.kind = "login" /\ j.step = "device" /\ LoginOK(j)
      /\ crossed = {} => Current(j)
      /\ ~Held(j.subject, j.device)
      /\ UNCHANGED <<tables, auxiliary>>
    BY AtSlot DEF FlushLogin, Under, TxInv, TxTypeOK, JobOK
<1>2. CASE Ends(i)
  <2>1. job' = [job EXCEPT ![i] = Idle]
      BY <1>2 DEF Ends, Goes
  <2> QED
      BY <1>1, <2>1, Advance, OthersAlone DEF StepOK, TxInv, TxTypeOK
<1>3. CASE (j.loaded = NoDevice => j.device \notin Known(j.subject)) /\ Goes(i, new)
  <2>1. opens \in SessionRows /\ opens.user = j.subject /\ opens.device = j.device
      BY <1>1, NewSessionTyped DEF LoginOK
  <2>2. /\ new \in Requests /\ Trace(new) = Trace(j) /\ new.met = j.met
        /\ new.kind = "login" /\ new.step = "flushed" /\ new.subject = j.subject
        /\ new.device = j.device /\ new.row = j.row /\ new.abnormal = j.abnormal
        /\ new.loaded = j.loaded /\ new.opens = opens
      BY <1>1, <2>1 DEF Requests, Trace
  <2>3. LoginOK(new)
      BY <1>1, <1>3, <2>1, <2>2 DEF LoginOK
  <2>4. JobOK(new)
      BY <2>2, <2>3 DEF JobOK, DeviceKinds, UserKinds
  <2>5. crossed = {} => Current(new)
      BY <1>1, <2>2 DEF Current, DeviceKinds, UserKinds
  <2>6. \A k \in Slots \ {i} : \A b \in At(k) :
            ~ /\ b.kind = "login" /\ b.step = "flushed"
              /\ b.subject = new.subject /\ b.device = new.device
      BY <1>1, <2>2 DEF Held, At
  <2>7. job' = [job EXCEPT ![i] = new]
      BY <1>3 DEF Goes
  <2> HIDE DEF new
  <2> QED
      BY <1>1, <2>2, <2>4, <2>5, <2>6, <2>7, Advance, OthersAlone DEF StepOK, TxInv, TxTypeOK
<1> QED
    BY <1>2, <1>3 DEF FlushLogin

\* ListSessions: all that is active is listed.
LEMMA ListSessionsStep ==
    ASSUME TxInv, NEW i \in Slots, ListSessions(i)
    PROVE  StepOK
<1> DEFINE j == job[i]
           listed == {s \in SessionIds : Active(s) /\ Concerns(j, s)}
           new == [j EXCEPT !.step = "listed", !.revokes = listed]
<1>1. /\ j \in Requests /\ j # Idle /\ j.kind \in {"block", "lock"} /\ j.step = "row"
      /\ JobOK(j) /\ (crossed = {} => Current(j))
      /\ TypeOK /\ UNCHANGED <<tables, auxiliary>> /\ job' = [job EXCEPT ![i] = new]
    BY AtSlot DEF ListSessions, Under, TxInv, TxTypeOK, Goes
<1>2. \A s \in listed : s < nextSession
    BY <1>1 DEF TypeOK, Active, NoSession, None
<1>3. /\ new \in Requests /\ Trace(new) = Trace(j) /\ new.met = j.met
      /\ new.kind = j.kind /\ new.step = "listed" /\ new.subject = j.subject
      /\ new.device = j.device /\ new.loaded = j.loaded /\ new.status = j.status
      /\ new.revokes = listed
    BY <1>1 DEF Requests, Trace
<1>4. \A s \in SessionIds : Concerns(new, s) <=> Concerns(j, s)
    BY <1>3 DEF Concerns
<1> HIDE DEF new
<1>5. RevokesOK(new)
    BY <1>1, <1>2, <1>3, <1>4 DEF RevokesOK
<1>6. JobOK(new)
    BY <1>1, <1>3, <1>5 DEF JobOK, DeviceJobOK, UserJobOK, DeviceKinds, UserKinds
<1>7. crossed = {} => Current(new)
    BY <1>1, <1>3, <1>4 DEF Current, DeviceKinds, UserKinds
<1> QED
    BY <1>1, <1>3, <1>6, <1>7, Advance, OthersAlone DEF StepOK, TxInv, TxTypeOK

\* CountUsers: an email that is taken by now was taken by another request,
\* and the number is the next one.
LEMMA CountUsersStep ==
    ASSUME TxInv, NEW i \in Slots, CountUsers(i)
    PROVE  StepOK
<1> DEFINE j == job[i]
           new == [j EXCEPT !.step = "counted", !.number = CountOfUsers + 1]
<1>1. /\ j \in Requests /\ j # Idle /\ j.kind = "register" /\ j.step = "checked"
      /\ RegisterOK(j) /\ (crossed = {} => Current(j))
      /\ UNCHANGED <<tables, auxiliary>>
    BY AtSlot DEF CountUsers, Under, TxInv, TxTypeOK, JobOK
<1>2. CountOfUsers \in Nat /\ CountOfUsers >= Seeded /\ Seeded \in Nat
    BY UsersCounted
<1>3. CASE account[j.subject] # 0 /\ Ends(i)
  <2>1. job' = [job EXCEPT ![i] = Idle]
      BY <1>3 DEF Ends, Goes
  <2>2. AloneOK
    <3> SUFFICES ASSUME NEW k \in Under("register"), job'[k] = Idle
                 PROVE  k = i
        BY <1>1, <1>3 DEF AloneOK, RegisterOK
    <3> QED
        BY <2>1 DEF Under, TxInv, TxTypeOK
  <2> QED
      BY <1>1, <2>1, <2>2, Advance DEF StepOK
<1>4. CASE Goes(i, new)
  <2>1. /\ new \in Requests /\ Trace(new) = Trace(j) /\ new.met = j.met
        /\ new.kind = "register" /\ new.step = "counted" /\ new.subject = j.subject
        /\ new.device = j.device /\ new.number = CountOfUsers + 1
    <3>1. CountOfUsers + 1 \in Nat
        BY <1>2
    <3> HIDE DEF CountOfUsers
    <3> QED
        BY <1>1, <3>1 DEF Requests, Trace
  <2>2. RegisterOK(new)
      BY <1>1, <1>2, <2>1 DEF RegisterOK, Trace
  <2>3. JobOK(new) /\ (crossed = {} => Current(new))
      BY <2>1, <2>2 DEF JobOK, Current, DeviceKinds, UserKinds
  <2>4. job' = [job EXCEPT ![i] = new]
      BY <1>4 DEF Goes
  <2>5. AloneOK
    <3> SUFFICES ASSUME NEW k \in Under("register"), job'[k] = Idle,
                        account' = account
                 PROVE  IF account[job[k].subject] # 0 THEN Trace(job[k]) \in job[k].met
                                                       ELSE job[k].met # {}
        BY DEF AloneOK
    <3>1. k = i /\ new = Idle
        BY <2>4 DEF Under, TxInv, TxTypeOK
    <3>2. FALSE
        BY <2>1, <3>1, IdleIsNoRequest
    <3> QED
        BY <3>2
  <2> HIDE DEF new
  <2> QED
      BY <1>1, <2>1, <2>3, <2>4, <2>5, Advance DEF StepOK
<1> QED
    BY <1>3, <1>4 DEF CountUsers

----------------------------------------------------------------------------
\* A request begins

\* To have met more changes nothing else.
LEMMA MetMore ==
    ASSUME NEW j \in Requests, NEW M \in SUBSET (Kinds \X Subjects \X (Devices \cup {None})),
           j.met \subseteq M, JobOK(j), NEW n, n = [j EXCEPT !.met = M]
    PROVE  /\ n \in Requests /\ Trace(n) = Trace(j) /\ n.met = M
           /\ n.kind = j.kind /\ n.subject = j.subject /\ n.device = j.device
           /\ n.step = j.step
           /\ JobOK(n) /\ Current(n) = Current(j)
<1>1. /\ n \in Requests /\ Trace(n) = Trace(j) /\ n.met = M
      /\ n.kind = j.kind /\ n.subject = j.subject /\ n.device = j.device
      /\ n.step = j.step /\ n.abnormal = j.abnormal /\ n.loaded = j.loaded
      /\ n.row = j.row /\ n.opens = j.opens /\ n.status = j.status
      /\ n.revokes = j.revokes /\ n.number = j.number
    BY DEF Requests, Trace
<1>2. \A s : Concerns(n, s) = Concerns(j, s)
    BY <1>1 DEF Concerns
<1>3. Current(n) = Current(j)
    BY <1>1, <1>2 DEF Current
<1>4. JobOK(n)
  <2>1. LoginOK(j) => LoginOK(n)
      BY <1>1 DEF LoginOK
  <2>2. RevokesOK(j) => RevokesOK(n)
      BY <1>1, <1>2 DEF RevokesOK
  <2>3. (DeviceJobOK(j) => DeviceJobOK(n)) /\ (UserJobOK(j) => UserJobOK(n))
      BY <1>1, <2>2 DEF DeviceJobOK, UserJobOK
  <2>4. RegisterOK(j) => RegisterOK(n)
      BY <1>1 DEF RegisterOK
  <2> QED
      BY <1>1, <2>1, <2>3, <2>4 DEF JobOK
<1> QED
    BY <1>1, <1>3, <1>4

\* A request is remembered by those it is about, and remembers them.
LEMMA BeginStep ==
    ASSUME TxInv, NEW i \in Slots, NEW request \in Requests, Begin(i, request),
           request.met = {}, JobOK(request), crossed = {} => Current(request),
           request.step # "flushed",
           request.kind = "login" => nextSession + Cardinality(Under("login")) \in SessionIds
    PROVE  StepOK
<1> DEFINE others == {k \in Slots \ {i} : job[k] # Idle /\ About(job[k], request)}
           Traces == Kinds \X Subjects \X (Devices \cup {None})
           new == [request EXCEPT !.met = {Trace(job[o]) : o \in others}]
           more(k) == [job[k] EXCEPT !.met = @ \cup {Trace(request)}]
<1>1. /\ TxTypeOK /\ job[i] = Idle
      /\ job' = [k \in Slots |-> IF k = i THEN new
                                 ELSE IF k \in others THEN more(k) ELSE job[k]]
      /\ crossed' = IF others # {} THEN crossed \cup ({request.subject} \cap Users)
                                   ELSE crossed
      /\ begun' = begun + 1
      /\ UNCHANGED <<userStatus, device, session, nextSession, account, raced>>
      /\ UNCHANGED vars
    BY DEF TxInv, Begin, tables, vars
<1>2. \A k \in Slots : job[k] # Idle =>
            job[k] \in Requests /\ JobOK(job[k]) /\ (crossed = {} => Current(job[k]))
    BY AtSlot
<1>3. \A j \in Requests : Trace(j) \in Traces /\ j.met \subseteq Traces
    BY DEF Requests, Trace
<1>4. /\ new \in Requests /\ Trace(new) = Trace(request)
      /\ new.met = {Trace(job[o]) : o \in others}
      /\ new.kind = request.kind /\ new.subject = request.subject
      /\ new.device = request.device /\ new.step = request.step
      /\ JobOK(new) /\ Current(new) = Current(request)
  <2> DEFINE M == {Trace(job[o]) : o \in others}
  <2>1. \A o \in others : job[o] \in Requests
      BY <1>2
  <2>2. \A o \in others : Trace(job[o]) \in Traces
      BY <1>3, <2>1
  <2> HIDE DEF others
  <2>3. M \in SUBSET Traces
      BY <2>2
  <2>4. new = [request EXCEPT !.met = M]
      OBVIOUS
  <2> HIDE DEF M, new
  <2>5. /\ new \in Requests /\ Trace(new) = Trace(request) /\ new.met = M
        /\ new.kind = request.kind /\ new.subject = request.subject
        /\ new.device = request.device /\ new.step = request.step
        /\ JobOK(new) /\ Current(new) = Current(request)
      BY <2>3, <2>4, MetMore
  <2> QED
      BY <2>5 DEF M
<1> HIDE DEF new
<1>5. ASSUME NEW k \in Slots \ {i}, job[k] # Idle
      PROVE  /\ job'[k] \in Requests /\ Trace(job'[k]) = Trace(job[k])
             /\ job'[k].met = IF k \in others THEN job[k].met \cup {Trace(request)}
                                             ELSE job[k].met
             /\ job'[k].kind = job[k].kind /\ job'[k].subject = job[k].subject
             /\ job'[k].device = job[k].device /\ job'[k].step = job[k].step
             /\ JobOK(job'[k]) /\ (crossed = {} => Current(job'[k]))
  <2>1. job[k] \in Requests /\ JobOK(job[k]) /\ (crossed = {} => Current(job[k]))
      BY <1>2, <1>5
  <2>2. CASE k \notin others
      BY <1>1, <2>1, <2>2
  <2>3. CASE k \in others
    <3>1. job[k].met \cup {Trace(request)} \in SUBSET Traces
        BY <1>3, <2>1
    <3>2. job'[k] = [job[k] EXCEPT !.met = job[k].met \cup {Trace(request)}]
        BY <1>1, <2>3
    <3> HIDE DEF others, Traces
    <3> DEFINE now == job[k]
               then == job'[k]
               M == job[k].met \cup {Trace(request)}
    <3>3. now \in Requests /\ JobOK(now) /\ now.met \subseteq M /\ then = [now EXCEPT !.met = M]
        BY <2>1, <3>2
    <3>4. M \in SUBSET Traces
        BY <3>1
    <3> HIDE DEF now, then, M
    <3>5. /\ then \in Requests /\ Trace(then) = Trace(now) /\ then.met = M
          /\ then.kind = now.kind /\ then.subject = now.subject /\ then.device = now.device
          /\ then.step = now.step /\ JobOK(then) /\ Current(then) = Current(now)
        BY <3>3, <3>4, MetMore DEF Traces
    <3> QED
        BY <2>1, <2>3, <3>5 DEF now, then, M
  <2> QED
      BY <2>2, <2>3
<1>6. \A k \in Slots \ {i} : job[k] = Idle => job'[k] = Idle
    BY <1>1
<1>7. /\ job'[i] = new /\ new # Idle
      /\ \A k \in Slots \ {i} : job'[k] # Idle <=> job[k] # Idle
    BY <1>1, <1>4, <1>5, <1>6, IdleIsNoRequest
<1>8. ASSUME NEW k \in Slots, NEW a \in At(k)'
      PROVE  /\ a = job'[k] /\ a \in Requests
             /\ k # i => job[k] # Idle
             /\ k = i => a = new
  <2>1. a = job'[k] /\ a # Idle
      BY <1>8 DEF At
  <2>2. CASE k = i
      BY <1>4, <1>7, <2>1, <2>2
  <2>3. CASE k # i
      BY <1>5, <1>7, <2>1, <2>3
  <2> QED
      BY <2>1, <2>2, <2>3
<1>9. TxTypeOK'
  <2>1. job' \in [Slots -> Requests \cup {Idle}]
      BY <1>1, <1>4, <1>5, <1>6, <1>7
  <2>2. (nextSession + Cardinality(Under("login")) <= MaxSessions + 1)'
    <3>1. Under("login")' = IF request.kind = "login" THEN Under("login") \cup {i}
                                                      ELSE Under("login")
      <4>1. \A k \in Slots \ {i} : k \in Under("login")' <=> k \in Under("login")
          BY <1>5, <1>6, <1>7 DEF Under
      <4>2. i \in Under("login")' <=> request.kind = "login"
          BY <1>4, <1>7 DEF Under
      <4>3. i \notin Under("login")
          BY <1>1 DEF Under
      <4> QED
          BY <4>1, <4>2, <4>3 DEF Under
    <3>2. i \notin Under("login") /\ IsFiniteSet(Under("login"))
          /\ Cardinality(Under("login")) \in Nat
        BY <1>1, LoginsCounted DEF Under
    <3>3. Cardinality(Under("login") \cup {i}) = Cardinality(Under("login")) + 1
        BY <3>2, FS_AddElement
    <3>4. nextSession \in Int /\ MaxSessions \in Int
        BY <1>1, SessionAssumption DEF TxTypeOK, TypeOK
    <3> DEFINE n == Cardinality(Under("login"))
               m == Cardinality(Under("login") \cup {i})
    <3>5. n \in Nat /\ m = n + 1
        BY <3>2, <3>3
    <3>6. Cardinality(Under("login"))' = IF request.kind = "login" THEN m ELSE n
        BY <3>1
    <3>7. request.kind = "login" => nextSession + n <= MaxSessions
        BY <3>4, <3>5 DEF SessionIds
    <3>8. nextSession + n <= MaxSessions + 1
        BY <1>1 DEF TxTypeOK
    <3> HIDE DEF n, m
    <3> QED
        BY <1>1, <3>4, <3>5, <3>6, <3>7, <3>8
  <2>3. TypeOK'
      BY <1>1, SerialSame DEF TxTypeOK
  <2>4. begun' \in Nat /\ crossed' \subseteq Users
      BY <1>1 DEF TxTypeOK
  <2> QED
      BY <1>1, <2>1, <2>2, <2>3, <2>4 DEF TxTypeOK
<1>10. OnlyRacedSurvive' /\ NumbersAreDense'
    BY <1>1 DEF TxInv, OnlyRacedSurvive, NumbersAreDense, Active, Registered, CountOfUsers
<1>11. OverlapsAreMet'
  <2> SUFFICES ASSUME NEW x \in Slots, NEW y \in Slots, NEW a \in At(x)', NEW b \in At(y)',
                      x # y, About(a, b)
               PROVE  Trace(b) \in a.met
      BY DEF OverlapsAreMet, About, Trace
  <2>1. CASE x = i
    <3>1. y # i /\ a = new /\ b = job'[y] /\ job[y] # Idle
        BY <1>8, <2>1
    <3>2. b.kind = job[y].kind /\ b.subject = job[y].subject /\ Trace(b) = Trace(job[y])
        BY <1>5, <3>1
    <3>3. About(job[y], request)
        BY <1>4, <3>1, <3>2 DEF About
    <3>4. y \in others
        BY <3>1, <3>3
    <3> HIDE DEF others
    <3> QED
        BY <1>4, <3>1, <3>2, <3>4
  <2>2. CASE y = i
    <3>1. x # i /\ b = new /\ a = job'[x] /\ job[x] # Idle
        BY <1>8, <2>2
    <3>2. a.kind = job[x].kind /\ a.subject = job[x].subject
        BY <1>5, <3>1
    <3>3. About(job[x], request)
        BY <1>4, <3>1, <3>2 DEF About
    <3>4. x \in others
        BY <3>1, <3>3
    <3> HIDE DEF others
    <3> QED
        BY <1>4, <1>5, <3>1, <3>4
  <2>3. CASE x # i /\ y # i
    <3>1. job[x] # Idle /\ job[y] # Idle /\ a = job'[x] /\ b = job'[y]
        BY <1>8, <2>3
    <3>2. About(job[x], job[y])
        BY <1>5, <2>3, <3>1 DEF About
    <3>3. Trace(job[y]) \in job[x].met
        BY <3>1, <3>2 DEF TxInv, OverlapsAreMet, At
    <3> QED
        BY <1>5, <2>3, <3>1, <3>3
  <2> QED
      BY <2>1, <2>2, <2>3
<1>12. OneHolder'
  <2> SUFFICES ASSUME NEW x \in Slots, NEW y \in Slots, NEW a \in At(x)', NEW b \in At(y)',
                      a.kind = "login", b.kind = "login",
                      a.step = "flushed", b.step = "flushed",
                      a.subject = b.subject, a.device = b.device
               PROVE  x = y
      BY DEF OneHolder
  <2>1. x # i /\ y # i
      BY <1>4, <1>8
  <2>2. job[x] # Idle /\ job[y] # Idle /\ a = job'[x] /\ b = job'[y]
      BY <1>8, <2>1
  <2>3. job[x] \in At(x) /\ job[y] \in At(y)
      BY <2>2 DEF At
  <2>4. /\ job[x].kind = a.kind /\ job[x].step = a.step
        /\ job[x].subject = a.subject /\ job[x].device = a.device
      BY <1>5, <2>1, <2>2
  <2>5. /\ job[y].kind = b.kind /\ job[y].step = b.step
        /\ job[y].subject = b.subject /\ job[y].device = b.device
      BY <1>5, <2>1, <2>2
  <2> QED
      BY <2>3, <2>4, <2>5 DEF TxInv, OneHolder
<1>13. ASSUME NEW k \in Slots, NEW j \in At(k)'
       PROVE  JobOK(j)' /\ (crossed' = {} => Current(j)')
  <2>1. JobOK(j) /\ (crossed = {} => Current(j))
    <3>1. CASE k = i
        BY <1>4, <1>8, <1>13, <3>1
    <3>2. CASE k # i
      <4>1. j = job'[k] /\ job[k] # Idle
          BY <1>8, <1>13, <3>2
      <4> QED
          BY <1>5, <3>2, <4>1
    <3> QED
        BY <3>1, <3>2
  <2>2. crossed' = {} => crossed = {}
      BY <1>1
  <2> QED
      BY <1>1, <2>1, <2>2, TablesSame
<1>14. UncrossedOK'
  <2> SUFFICES ASSUME crossed' = {}
               PROVE  /\ IInv'
                      /\ \A k \in Slots : \A j \in At(k)' : Current(j)'
                      /\ \A x, y \in Slots : \A a \in At(x)', b \in At(y)' :
                            x # y /\ a.subject = b.subject => a.subject \notin Users
      BY DEF UncrossedOK
  <2>1. crossed = {} /\ (others = {} \/ request.subject \notin Users)
      BY <1>1
  <2>2. IInv'
      BY <1>1, <2>1, SerialSame DEF TxInv, UncrossedOK
  <2>3. ASSUME NEW x \in Slots, NEW y \in Slots, NEW a \in At(x)', NEW b \in At(y)',
               x # y, a.subject = b.subject
        PROVE  a.subject \notin Users
    <3>1. CASE x = i
      <4>1. y # i /\ a = new /\ b = job'[y] /\ job[y] # Idle
          BY <1>8, <2>3, <3>1
      <4>2. job[y].subject = request.subject /\ a.subject = request.subject
          BY <1>4, <1>5, <2>3, <4>1
      <4>3. y \in others
          BY <4>1, <4>2 DEF About
      <4> QED
          BY <2>1, <4>2, <4>3
    <3>2. CASE y = i
      <4>1. x # i /\ b = new /\ a = job'[x] /\ job[x] # Idle
          BY <1>8, <2>3, <3>2
      <4>2. job[x].subject = request.subject /\ a.subject = request.subject
          BY <1>4, <1>5, <2>3, <4>1
      <4>3. x \in others
          BY <4>1, <4>2 DEF About
      <4> QED
          BY <2>1, <4>2, <4>3
    <3>3. CASE x # i /\ y # i
      <4>1. job[x] # Idle /\ job[y] # Idle /\ a = job'[x] /\ b = job'[y]
          BY <1>8, <3>3
      <4>2. a.subject = job[x].subject /\ b.subject = job[y].subject
          BY <1>5, <3>3, <4>1
      <4> QED
          BY <2>1, <2>3, <4>1, <4>2 DEF TxInv, UncrossedOK, At
    <3> QED
        BY <3>1, <3>2, <3>3
  <2> QED
      BY <1>13, <2>2, <2>3
<1>15. LiftOK
    BY <1>1 DEF LiftOK
<1>16. AloneOK
    BY <1>1, <1>7 DEF AloneOK, Under
<1> QED
    BY <1>1, <1>9, <1>10, <1>11, <1>12, <1>13, <1>14, <1>15, <1>16 DEF StepOK, TxInv

\* What each kind of request begins with.
LEMMA BeginSteps ==
    ASSUME TxInv, NEW i \in Slots,
           \/ \E u \in Users, d \in Devices :
                 \/ \E abnormal \in BOOLEAN : BeginLogin(i, u, d, abnormal)
                 \/ \E kind \in DeviceKinds : BeginDevice(i, kind, u, d)
           \/ \E u \in Users, kind \in UserKinds : BeginUser(i, kind, u)
           \/ \E e \in Emails : BeginRegister(i, e)
    PROVE  StepOK
<1> USE DEF Kinds, DeviceKinds, UserKinds, Subjects
<1>1. TxTypeOK /\ TypeOK
    BY DEF TxInv, TxTypeOK
<1>2. ASSUME NEW u \in Users, NEW d \in Devices, NEW abnormal \in BOOLEAN,
             BeginLogin(i, u, d, abnormal)
      PROVE  StepOK
  <2> DEFINE r == [Request("login", u, d, "user") EXCEPT !.abnormal = abnormal]
  <2>1. /\ r \in Requests /\ r.kind = "login" /\ r.subject = u /\ r.device = d
        /\ r.step = "user" /\ r.met = {}
      BY DEF Request, Requests
  <2>2. /\ userStatus[u] = "ACTIVE" /\ Begin(i, r)
        /\ nextSession + Cardinality(Under("login")) \in SessionIds
      BY <1>2 DEF BeginLogin
  <2> HIDE DEF r
  <2>3. JobOK(r) /\ Current(r)
      BY <2>1, <2>2 DEF JobOK, LoginOK, Current
  <2> QED
      BY <2>1, <2>2, <2>3, BeginStep
<1>3. ASSUME NEW u \in Users, NEW d \in Devices, NEW kind \in DeviceKinds,
             BeginDevice(i, kind, u, d)
      PROVE  StepOK
  <2> DEFINE r == [Request(kind, u, d, "row") EXCEPT !.loaded = device[u][d]]
  <2>1. d \in Known(u) /\ device[u][d] \in DeviceRows /\ Begin(i, r)
      BY <1>1, <1>3, KnownRow DEF BeginDevice, TypeOK
  <2>2. /\ r \in Requests /\ r.kind = kind /\ r.subject = u /\ r.device = d
        /\ r.step = "row" /\ r.met = {} /\ r.loaded = device[u][d] /\ r.revokes = {}
      BY <2>1 DEF Request, Requests
  <2> HIDE DEF r
  <2>3. JobOK(r) /\ Current(r)
      BY <2>1, <2>2 DEF JobOK, DeviceJobOK, RevokesOK, Current
  <2> QED
      BY <2>1, <2>2, <2>3, BeginStep
<1>4. ASSUME NEW u \in Users, NEW kind \in UserKinds, BeginUser(i, kind, u)
      PROVE  StepOK
  <2> DEFINE r == [Request(kind, u, None, "row") EXCEPT !.status = userStatus[u]]
  <2>1. userStatus[u] \in UserStatus /\ Begin(i, r)
      BY <1>1, <1>4 DEF BeginUser, TypeOK
  <2>2. /\ r \in Requests /\ r.kind = kind /\ r.subject = u /\ r.device = None
        /\ r.step = "row" /\ r.met = {} /\ r.status = userStatus[u] /\ r.revokes = {}
      BY <2>1 DEF Request, Requests
  <2> HIDE DEF r
  <2>3. JobOK(r) /\ Current(r)
      BY <2>1, <2>2 DEF JobOK, UserJobOK, RevokesOK, Current
  <2> QED
      BY <2>1, <2>2, <2>3, BeginStep
<1>5. ASSUME NEW e \in Emails, BeginRegister(i, e)
      PROVE  StepOK
  <2> DEFINE r == Request("register", e, None, "checked")
  <2>1. account[e] = 0 /\ Begin(i, r)
      BY <1>5 DEF BeginRegister
  <2>2. /\ r \in Requests /\ r.kind = "register" /\ r.subject = e /\ r.device = None
        /\ r.step = "checked" /\ r.met = {}
      BY DEF Request, Requests
  <2> HIDE DEF r
  <2>3. JobOK(r) /\ Current(r)
      BY <2>1, <2>2 DEF JobOK, RegisterOK, Current
  <2> QED
      BY <2>1, <2>2, <2>3, BeginStep
<1> QED
    BY <1>2, <1>3, <1>4, <1>5

----------------------------------------------------------------------------
\* A request commits

\* What is left to show of a step that ends requests, or none.
LEMMA CommitStep ==
    ASSUME TxInv, \A k \in Slots : job'[k] \in {job[k], Idle},
           job' = [k \in Slots |-> job'[k]],
           TypeOK', account' \in [Emails -> Nat], begun' = begun,
           raced' \in [SessionIds -> SUBSET (Kinds \X Subjects \X (Devices \cup {None}))],
           crossed \subseteq crossed', crossed' \subseteq Users,
           (nextSession + Cardinality(Under("login")) <= MaxSessions + 1)',
           OnlyRacedSurvive', NumbersAreDense',
           \A k \in Slots : \A j \in At(k)' : JobOK(j)',
           crossed' = {} => /\ [Next]_vars
                            /\ \A k \in Slots : \A j \in At(k)' : Current(j)',
           LiftOK, AloneOK
    PROVE  StepOK
<1>1. \A k \in Slots : At(k)' \subseteq At(k)
    BY DEF At
<1>2. TxTypeOK'
    BY DEF TxTypeOK, TxInv
<1>3. OverlapsAreMet'
    BY <1>1 DEF TxInv, OverlapsAreMet, About, Trace
<1>4. OneHolder'
    BY <1>1 DEF TxInv, OneHolder
<1>5. UncrossedOK'
  <2> SUFFICES ASSUME crossed' = {}
               PROVE  /\ IInv'
                      /\ \A x, y \in Slots : \A a \in At(x)', b \in At(y)' :
                            x # y /\ a.subject = b.subject => a.subject \notin Users
      BY DEF UncrossedOK
  <2>1. crossed = {}
      OBVIOUS
  <2>2. IInv'
      BY <2>1, NextStep DEF TxInv, UncrossedOK
  <2> QED
      BY <1>1, <2>1, <2>2 DEF TxInv, UncrossedOK
<1> QED
    BY <1>2, <1>3, <1>4, <1>5 DEF StepOK, TxInv

\* A commit keeps what is remembered by a request under way, if what it makes
\* true of the subject of that request the request has met.
LEMMA OthersStay ==
    ASSUME NEW j \in Requests, JobOK(j), TypeOK, TypeOK',
           LET u == j.subject  d == j.device IN
           /\ u \in Users =>
                 /\ userStatus'[u] = "LOCKED" =>
                       userStatus[u] = "LOCKED" \/ <<"lock", u, None>> \in j.met
                 /\ Known(u) \subseteq Known(u)'
                 /\ d \in Devices /\ device'[u][d].trust = "BLOCKED" =>
                       device[u][d].trust = "BLOCKED" \/ <<"block", u, d>> \in j.met
                 /\ j.kind = "login" /\ j.step = "flushed" /\ j.loaded = NoDevice =>
                       d \notin Known(u)',
           nextSession <= nextSession',
           \A s \in SessionIds : Active(s)' /\ Concerns(j, s)' =>
               \/ Active(s) /\ Concerns(j, s) /\ raced'[s] = raced[s]
               \/ Trace(j) \in raced'[s],
           j.kind = "register" =>
               /\ account'[j.subject] # 0 => account[j.subject] # 0 \/ Trace(j) \in j.met
               /\ CountOfUsers \in Nat /\ CountOfUsers' \in Nat
               /\ CountOfUsers <= CountOfUsers'
               /\ j.met = {} => CountOfUsers' = CountOfUsers
    PROVE  JobOK(j)'
<1>1. j.kind = "login" /\ LoginOK(j) => LoginOK(j)'
    BY DEF LoginOK
<1>2. RevokesOK(j) => RevokesOK(j)'
  <2> SUFFICES ASSUME RevokesOK(j)
               PROVE  RevokesOK(j)'
      OBVIOUS
  <2>1. j.revokes \subseteq Nat /\ nextSession \in Nat /\ nextSession' \in Nat
      BY SessionAssumption DEF Requests, SessionIds, TypeOK
  <2>2. \A s \in j.revokes : s < nextSession'
      BY <2>1 DEF RevokesOK
  <2> QED
      BY <2>2 DEF RevokesOK, Trace
<1>3. DeviceJobOK(j) => DeviceJobOK(j)'
    BY <1>2 DEF DeviceJobOK
<1>4. UserJobOK(j) => UserJobOK(j)'
    BY <1>2 DEF UserJobOK
<1>5. j.kind = "register" /\ RegisterOK(j) => RegisterOK(j)'
  <2> HIDE DEF CountOfUsers
  <2>1. Seeded \in Nat /\ j.number \in Nat
      BY AuthTxAssumption DEF Requests
  <2> QED
      BY <2>1 DEF RegisterOK, Trace
<1> QED
    BY <1>1, <1>3, <1>4, <1>5 DEF JobOK

\* What a request remembers about one user does not depend on another's rows.
LEMMA CurrentStays ==
    ASSUME NEW j \in Requests, JobOK(j), Current(j), TypeOK, TypeOK',
           LET u == j.subject IN
           u \in Users =>
               /\ userStatus'[u] = userStatus[u] /\ device'[u] = device[u]
               /\ \A s \in SessionIds :
                     \/ session'[s] = session[s]
                     \/ session'[s].user # u /\ (session[s].user # u \/ ~Active(s))
    PROVE  Current(j)'
<1>1. CASE j.kind = "register"
    BY <1>1 DEF Current, JobOK, RegisterOK, DeviceKinds, UserKinds
<1>2. CASE j.kind # "register"
  <2> DEFINE u == j.subject
             d == j.device
  <2>1. u \in Users
      BY <1>2, RequestFields DEF JobOK, LoginOK, DeviceJobOK, UserJobOK, Kinds
  <2>2. userStatus'[u] = userStatus[u] /\ device'[u] = device[u]
      BY <2>1
  <2>3. \A s \in SessionIds :
            /\ \/ session'[s] = session[s]
               \/ session'[s].user # u /\ (session[s].user # u \/ ~Active(s))
            /\ (s < nextSession <=> session[s] # NoSession)
            /\ (s < nextSession' <=> session'[s] # NoSession)
      BY <2>1 DEF TypeOK
  <2>4. LiveSessions(u)' = LiveSessions(u)
    <3>1. nextSession \in 1..(MaxSessions + 1) /\ nextSession' \in 1..(MaxSessions + 1)
          /\ MaxSessions \in Nat
        BY SessionAssumption DEF TypeOK
    <3>2. Created \subseteq SessionIds /\ Created' \subseteq SessionIds
      <4> DEFINE n == nextSession
                 m == nextSession'
      <4>1. n \in 1..(MaxSessions + 1) /\ m \in 1..(MaxSessions + 1) /\ MaxSessions \in Nat
          BY <3>1
      <4> HIDE DEF n, m
      <4>2. 1..(n - 1) \subseteq 1..MaxSessions /\ 1..(m - 1) \subseteq 1..MaxSessions
          BY <4>1
      <4> QED
          BY <4>2 DEF Created, SessionIds, n, m
    <3>3. \A s \in SessionIds : session[s].user = u /\ Active(s) => (s \in Created <=> s \in Created')
      <4> SUFFICES ASSUME NEW s \in SessionIds, session[s].user = u, Active(s)
                   PROVE  s \in Created <=> s \in Created'
          OBVIOUS
      <4>1. session'[s] = session[s]
          BY <2>3
      <4>2. s < nextSession <=> s < nextSession'
          BY <2>3, <4>1
      <4>3. s \in Int /\ s >= 1
          BY DEF SessionIds
      <4> DEFINE n == nextSession
                 m == nextSession'
      <4>4. n \in Int /\ m \in Int /\ (s < n <=> s < m)
          BY <3>1, <4>2
      <4> HIDE DEF n, m
      <4>5. s \in 1..(n - 1) <=> s \in 1..(m - 1)
          BY <4>3, <4>4
      <4> QED
          BY <4>5 DEF Created, n, m
    <3>4. \A s \in SessionIds :
              session[s].user = u /\ Active(s) <=> session'[s].user = u /\ Active(s)'
        BY <2>3 DEF Active
    <3> QED
        BY <2>3, <3>2, <3>3, <3>4 DEF LiveSessions, Live, Active
  <2>5. {s \in SessionIds : Active(s) /\ Concerns(j, s)}
            = {s \in SessionIds : Active(s)' /\ Concerns(j, s)'}
      BY <2>3 DEF Active, Concerns
  <2>6. Known(u)' = Known(u)
      BY <2>2 DEF Known
  <2>7. \A abnormal : Upsert(u, d, abnormal)' = Upsert(u, d, abnormal)
      BY <2>2, <2>6 DEF Upsert, SeenAgain, FirstSeen
  <2>8. \A row : NewSession(u, d, row)' = NewSession(u, d, row)
      BY <2>4 DEF NewSession
  <2> QED
      BY <2>1, <2>2, <2>5, <2>7, <2>8 DEF Current
<1> QED
    BY <1>1, <1>2

\* The request in slot i ends: the others stay, each of which has met it if it
\* is about the same, and there is one login less if it was one.
LEMMA EndStep ==
    ASSUME TxInv, NEW i \in Slots, job[i] # Idle, Ends(i)
    PROVE  /\ \A k \in Slots : job'[k] \in {job[k], Idle}
           /\ job' = [k \in Slots |-> job'[k]]
           /\ \A k \in Slots : \A j \in At(k)' :
                 /\ k # i /\ j = job[k] /\ j \in At(k)
                 /\ j \in Requests /\ JobOK(j) /\ (crossed = {} => Current(j))
                 /\ About(j, job[i]) => Trace(job[i]) \in j.met /\ Trace(j) \in job[i].met
                 /\ crossed = {} /\ j.subject \in Users => j.subject # job[i].subject
           /\ \A n \in Int :
                 n <= (IF job[i].kind = "login" THEN nextSession + 1 ELSE nextSession)
                    => n + Cardinality(Under("login"))' <= MaxSessions + 1
<1>1. /\ job' = [job EXCEPT ![i] = Idle] /\ TxTypeOK
      /\ job \in [Slots -> Requests \cup {Idle}]
    BY DEF Ends, Goes, TxInv, TxTypeOK
<1>2. ASSUME NEW k \in Slots, NEW j \in At(k)'
      PROVE  /\ k # i /\ j = job[k] /\ j \in At(k)
             /\ j \in Requests /\ JobOK(j) /\ (crossed = {} => Current(j))
             /\ About(j, job[i]) => Trace(job[i]) \in j.met /\ Trace(j) \in job[i].met
             /\ crossed = {} /\ j.subject \in Users => j.subject # job[i].subject
  <2>1. k # i /\ j = job[k] /\ job[k] # Idle /\ j \in At(k)
      BY <1>1, <1>2 DEF At
  <2>2. j \in Requests /\ JobOK(j) /\ (crossed = {} => Current(j))
      BY <2>1, AtSlot
  <2>3. job[i] \in At(i)
      BY DEF At
  <2>4. About(j, job[i]) => About(job[i], j)
      BY DEF About
  <2>5. About(j, job[i]) => Trace(job[i]) \in j.met /\ Trace(j) \in job[i].met
      BY <2>1, <2>3, <2>4 DEF TxInv, OverlapsAreMet
  <2>6. crossed = {} /\ j.subject \in Users => j.subject # job[i].subject
      BY <2>1, <2>3 DEF TxInv, UncrossedOK
  <2> QED
      BY <2>1, <2>2, <2>5, <2>6
<1>3. ASSUME NEW n \in Int,
             n <= (IF job[i].kind = "login" THEN nextSession + 1 ELSE nextSession)
      PROVE  n + Cardinality(Under("login"))' <= MaxSessions + 1
  <2>1. Under("login")' = Under("login") \ {i}
      BY <1>1 DEF Under
  <2> DEFINE c == Cardinality(Under("login"))
             e == Cardinality(Under("login") \ {i})
  <2>2. c \in Nat /\ e \in Nat /\ e <= c
      BY LoginsCounted
  <2>3. job[i].kind = "login" => e = c - 1
    <3>1. job[i].kind = "login" => i \in Under("login")
        BY DEF Under
    <3> QED
        BY <3>1, LoginsCounted, FS_RemoveElement
  <2>4. nextSession \in Int /\ MaxSessions \in Int /\ nextSession + c <= MaxSessions + 1
      BY <1>1, SessionAssumption DEF TxTypeOK, TypeOK
  <2>5. Cardinality(Under("login"))' = e
      BY <2>1
  <2> HIDE DEF c, e
  <2> QED
      BY <1>3, <2>2, <2>3, <2>4, <2>5
<1>4. \A k \in Slots : job'[k] \in {job[k], Idle}
    BY <1>1
<1>5. job' = [k \in Slots |-> job'[k]]
    BY <1>1
<1> QED
    BY <1>2, <1>3, <1>4, <1>5

\* CommitRegister: the number is the next one, or it is taken.
LEMMA CommitRegisterStep ==
    ASSUME TxInv, NEW i \in Slots, CommitRegister(i)
    PROVE  StepOK
<1> DEFINE o == job[i]
           e == o.subject
<1>1. /\ o \in Requests /\ o # Idle /\ o.kind = "register" /\ o.step = "counted"
      /\ RegisterOK(o) /\ e \in Emails /\ o.number \in (Seeded + 1)..(CountOfUsers + 1)
      /\ UNCHANGED <<userStatus, device, session, nextSession, wrong, begun, crossed, raced>>
      /\ UNCHANGED vars /\ Ends(i)
      /\ account' = IF Taken(e, o.number) THEN account ELSE [account EXCEPT ![e] = o.number]
    BY AtSlot DEF CommitRegister, Under, JobOK, RegisterOK, auxiliary, vars
<1>2. /\ TxTypeOK /\ TypeOK /\ account \in [Emails -> Nat]
      /\ crossed \subseteq Users /\ nextSession \in Int
      /\ raced \in [SessionIds -> SUBSET (Kinds \X Subjects \X (Devices \cup {None}))]
      /\ Seeded \in Nat
    BY AuthTxAssumption DEF TxInv, TxTypeOK, TypeOK
<1>3. IsFiniteSet(Registered) /\ CountOfUsers \in Nat /\ CountOfUsers >= Seeded
    BY UsersCounted
<1>4. o.number \in Nat /\ o.number # 0
  <2> HIDE DEF CountOfUsers
  <2> QED
      BY <1>1, <1>2, <1>3
<1>5. ~Taken(e, o.number) =>
        /\ account[e] = 0 /\ o.number = CountOfUsers + 1
        /\ Registered' = Registered \cup {e} /\ CountOfUsers' = CountOfUsers + 1
  <2> SUFFICES ASSUME ~Taken(e, o.number)
               PROVE  /\ account[e] = 0 /\ o.number = CountOfUsers + 1
                      /\ Registered' = Registered \cup {e} /\ CountOfUsers' = CountOfUsers + 1
      OBVIOUS
  <2>1. account[e] = 0 /\ ~(o.number <= Seeded) /\ \A f \in Registered : account[f] # o.number
      BY DEF Taken
  <2>2. o.number \notin (Seeded + 1)..CountOfUsers
      BY <2>1 DEF TxInv, NumbersAreDense
  <2>3. o.number = CountOfUsers + 1
    <3> HIDE DEF CountOfUsers
    <3> QED
        BY <1>1, <1>2, <1>3, <1>4, <2>2
  <2>4. Registered' = Registered \cup {e} /\ e \notin Registered
      BY <1>1, <1>2, <1>4, <2>1 DEF Registered
  <2>5. Cardinality(Registered \cup {e}) = Cardinality(Registered) + 1
      BY <1>3, <2>4, FS_AddElement
  <2>6. Cardinality(Registered) \in Nat
      BY <1>3, FS_CardinalityType
  <2>7. CountOfUsers' = CountOfUsers + 1
    <3>1. CountOfUsers' = Seeded + Cardinality(Registered \cup {e})
        BY <2>4 DEF CountOfUsers
    <3> QED
        BY <1>2, <2>5, <2>6, <3>1 DEF CountOfUsers
  <2> QED
      BY <2>1, <2>3, <2>4, <2>7
<1>6. Taken(e, o.number) => UNCHANGED <<account, Registered, CountOfUsers>>
    BY <1>1 DEF CountOfUsers, Registered
<1>7. account' \in [Emails -> Nat]
    BY <1>1, <1>2, <1>4
<1>8. NumbersAreDense'
  <2>1. CASE Taken(e, o.number)
      BY <1>6, <2>1 DEF TxInv, NumbersAreDense
  <2>2. CASE ~Taken(e, o.number)
    <3>1. {account'[f] : f \in Registered'} = {account[f] : f \in Registered} \cup {o.number}
        BY <1>1, <1>2, <1>5, <2>2 DEF Registered
    <3>2. {account[f] : f \in Registered} = (Seeded + 1)..CountOfUsers
        BY DEF TxInv, NumbersAreDense
    <3> HIDE DEF CountOfUsers
    <3>3. (Seeded + 1)..CountOfUsers \cup {CountOfUsers + 1} = (Seeded + 1)..(CountOfUsers + 1)
        BY <1>2, <1>3
    <3> QED
        BY <1>5, <2>2, <3>1, <3>2, <3>3 DEF NumbersAreDense
  <2> QED
      BY <2>1, <2>2
<1>9. OnlyRacedSurvive' /\ LiftOK
    BY <1>1 DEF TxInv, OnlyRacedSurvive, Active, LiftOK
<1>10. ASSUME NEW k \in Slots, NEW j \in At(k)'
       PROVE  JobOK(j)' /\ (crossed' = {} => Current(j)')
  <2>1. /\ j \in Requests /\ JobOK(j) /\ (crossed = {} => Current(j))
        /\ About(j, o) => Trace(o) \in j.met
      BY <1>1, <1>10, EndStep
  <2>2. j.kind = "register" => Trace(o) \in j.met
      BY <1>1, <2>1 DEF About
  <2>3. j.kind = "register" => j.subject \in Emails /\ j.device = None
      BY <2>1 DEF JobOK, RegisterOK
  <2>4. j.kind = "register" /\ account'[j.subject] # 0
            => account[j.subject] # 0 \/ Trace(j) \in j.met
      BY <1>1, <1>2, <2>2, <2>3 DEF Trace, RegisterOK
  <2>5. CountOfUsers' \in Nat /\ CountOfUsers <= CountOfUsers'
    <3> HIDE DEF CountOfUsers
    <3> QED
        BY <1>3, <1>5, <1>6
  <2>6. TypeOK' /\ nextSession \in Int
      BY <1>1, <1>2, SerialSame
  <2>7. \A s \in SessionIds : Active(s)' /\ Concerns(j, s)' =>
            Active(s) /\ Concerns(j, s) /\ raced'[s] = raced[s]
      BY <1>1 DEF Active, Concerns
  <2>8. \A u : Known(u)' = Known(u)
      BY <1>1 DEF Known
  <2>9. JobOK(j)'
    <3>1. LET u == j.subject  d == j.device IN
          u \in Users =>
             /\ userStatus'[u] = "LOCKED" =>
                   userStatus[u] = "LOCKED" \/ <<"lock", u, None>> \in j.met
             /\ Known(u) \subseteq Known(u)'
             /\ d \in Devices /\ device'[u][d].trust = "BLOCKED" =>
                   device[u][d].trust = "BLOCKED" \/ <<"block", u, d>> \in j.met
             /\ j.kind = "login" /\ j.step = "flushed" /\ j.loaded = NoDevice =>
                   d \notin Known(u)'
        BY <1>1, <2>1, <2>8 DEF JobOK, LoginOK
    <3>2. nextSession <= nextSession'
        BY <1>1, <2>6
    <3>3. j.kind = "register" => j.met # {}
        BY <2>2
    <3> HIDE DEF CountOfUsers
    <3> QED
        BY <1>2, <1>3, <2>1, <2>4, <2>5, <2>6, <2>7, <3>1, <3>2, <3>3, OthersStay
  <2>10. crossed' = {} => Current(j)'
    <3>1. LET u == j.subject IN
          u \in Users =>
              /\ userStatus'[u] = userStatus[u] /\ device'[u] = device[u]
              /\ \A s \in SessionIds :
                    session'[s] = session[s] \/ (session'[s].user # u /\ session[s].user # u)
      <4>1. UNCHANGED <<userStatus, device, session>>
          BY <1>1
      <4> QED
          BY <4>1
    <3>2. crossed' = {} => Current(j)
        BY <1>1, <2>1
    <3> QED
        BY <1>2, <2>1, <2>6, <3>1, <3>2, CurrentStays
  <2> QED
      BY <2>9, <2>10
<1>11. AloneOK
  <2> SUFFICES ASSUME NEW k \in Under("register"), job'[k] = Idle, account' = account
               PROVE  IF account[job[k].subject] # 0 THEN Trace(job[k]) \in job[k].met
                                                     ELSE job[k].met # {}
      BY DEF AloneOK
  <2>1. k = i
      BY <1>1 DEF Ends, Goes, Under, TxInv, TxTypeOK
  <2>2. CASE account[e] # 0
      BY <1>1, <2>1, <2>2 DEF RegisterOK
  <2>3. CASE account[e] = 0
    <3>1. Taken(e, o.number)
        BY <1>1, <1>2, <1>4, <2>3
    <3>2. o.number \in (Seeded + 1)..CountOfUsers
        BY <1>1, <1>2, <1>3, <1>4, <2>3, <3>1 DEF Taken, TxInv, NumbersAreDense
    <3>3. o.number # CountOfUsers + 1
      <4> HIDE DEF CountOfUsers
      <4> QED
          BY <1>2, <1>3, <3>2
    <3> QED
        BY <1>1, <2>1, <2>3, <3>3 DEF RegisterOK
  <2> QED
      BY <2>1, <2>2, <2>3
<1>12. (nextSession + Cardinality(Under("login")) <= MaxSessions + 1)'
    BY <1>1, <1>2, EndStep
<1> QED
    BY <1>1, <1>2, <1>7, <1>8, <1>9, <1>10, <1>11, <1>12, EndStep, SerialSame, CommitStep

\* Updated writes the columns of a row.
LEMMA UpdatedRow ==
    ASSUME NEW now \in DeviceRows \cup {NoDevice}, NEW loaded \in DeviceRows \cup {NoDevice},
           NEW wanted \in DeviceRows, loaded = NoDevice => now = NoDevice
    PROVE  /\ now \in DeviceRows => Updated(now, loaded, wanted) \in DeviceRows
           /\ now = loaded => Updated(now, loaded, wanted) = wanted
           /\ Updated(now, loaded, wanted).trust
                 = IF wanted.trust = loaded.trust THEN now.trust ELSE wanted.trust
           /\ loaded = NoDevice => Updated(now, loaded, wanted) = wanted
<1> DEFINE row == Updated(now, loaded, wanted)
<1>1. /\ row = [trust |-> row.trust, risk |-> row.risk, primary |-> row.primary]
      /\ row.trust = IF wanted.trust = loaded.trust THEN now.trust ELSE wanted.trust
      /\ row.risk = IF wanted.risk = loaded.risk THEN now.risk ELSE wanted.risk
      /\ row.primary = IF wanted.primary = loaded.primary THEN now.primary ELSE wanted.primary
    BY DEF Updated, Column
<1>2. /\ wanted = [trust |-> wanted.trust, risk |-> wanted.risk, primary |-> wanted.primary]
      /\ wanted.trust \in DeviceTrustStatus /\ wanted.risk \in Nat /\ wanted.primary \in BOOLEAN
    BY DEF DeviceRows
<1>3. now \in DeviceRows =>
        now.trust \in DeviceTrustStatus /\ now.risk \in Nat /\ now.primary \in BOOLEAN
    BY DEF DeviceRows
<1> HIDE DEF row
<1>4. now \in DeviceRows => row \in DeviceRows
  <2>1. now \in DeviceRows =>
          row.trust \in DeviceTrustStatus /\ row.risk \in Nat /\ row.primary \in BOOLEAN
      BY <1>1, <1>2, <1>3
  <2> QED
      BY <1>1, <2>1 DEF DeviceRows
<1>5. now = loaded => row = wanted
    BY <1>1, <1>2
<1> QED
    BY <1>1, <1>4, <1>5 DEF row

\* Sessions that were handed out are revoked: none becomes active, and those
\* that stay so stay what they are.
LEMMA RevokedAllOK ==
    ASSUME TypeOK, NEW S \in SUBSET SessionIds, \A s \in S : s < nextSession,
           session' = RevokedAll(S), nextSession' = nextSession
    PROVE  /\ session' \in [SessionIds -> SessionRows \cup {NoSession}]
           /\ \A s \in SessionIds : session'[s] # NoSession <=> s < nextSession'
           /\ \A s \in SessionIds : s \notin S => session'[s] = session[s]
           /\ \A s \in SessionIds : s \in S => ~Active(s)'
           /\ \A s \in SessionIds : session'[s].user = session[s].user
<1>1. \A s \in S : session[s] # NoSession
    BY DEF TypeOK
<1>2. session' = [s \in SessionIds |-> IF s \in S THEN Revoked(session[s]) ELSE session[s]]
    BY DEF RevokedAll
<1>3. \A s \in S : session'[s].status # "ACTIVE"
    BY <1>1, <1>2, RevokeStep
<1>4. \A s \in S : session[s] \in SessionRows /\ session'[s] = Revoked(session[s])
    BY <1>1, <1>2 DEF TypeOK
<1>5. \A s \in S : session'[s].user = session[s].user
    BY <1>4 DEF SessionRows, Revoked
<1>6. \A s \in SessionIds : s \notin S => session'[s] = session[s]
    BY <1>2
<1>7. \A s \in SessionIds : session'[s].user = session[s].user
    BY <1>5, <1>6
<1>8. \A s \in SessionIds : s \in S => ~Active(s)'
    BY <1>3 DEF Active
<1>9. /\ session' \in [SessionIds -> SessionRows \cup {NoSession}]
      /\ \A s \in SessionIds : session'[s] # NoSession <=> s < nextSession'
    BY <1>1, <1>2, RevokeStep
<1> QED
    BY <1>6, <1>7, <1>8, <1>9

\* CommitUser: what a lock has not listed, its login overlapped.
LEMMA CommitUserStep ==
    ASSUME TxInv, NEW i \in Slots, CommitUser(i)
    PROVE  StepOK
<1> DEFINE o == job[i]
           v == o.subject
           written == Column(userStatus[v], o.status, IF o.kind = "lock" THEN "LOCKED" ELSE "ACTIVE")
<1>1. /\ o \in Requests /\ o # Idle /\ o.kind \in UserKinds /\ Ready(o)
      /\ JobOK(o) /\ UserJobOK(o) /\ RevokesOK(o) /\ (crossed = {} => Current(o))
      /\ v \in Users /\ o.device = None /\ o.status \in UserStatus
    BY AtSlot DEF CommitUser, Under, JobOK, UserJobOK
<1>2. /\ UNCHANGED <<device, nextSession, account, wrong, begun, crossed, raced>> /\ Ends(i)
      /\ session' = RevokedAll(o.revokes)
      /\ userStatus' = [userStatus EXCEPT ![v] = written]
    BY DEF CommitUser, auxiliary
<1>3. /\ TxTypeOK /\ TypeOK /\ account \in [Emails -> Nat]
      /\ crossed \subseteq Users /\ nextSession \in Int
      /\ raced \in [SessionIds -> SUBSET (Kinds \X Subjects \X (Devices \cup {None}))]
      /\ userStatus \in [Users -> UserStatus]
    BY DEF TxInv, TxTypeOK, TypeOK
<1>4. /\ session' \in [SessionIds -> SessionRows \cup {NoSession}]
      /\ \A s \in SessionIds : session'[s] # NoSession <=> s < nextSession'
      /\ \A s \in SessionIds : s \notin o.revokes => session'[s] = session[s]
      /\ \A s \in SessionIds : s \in o.revokes => ~Active(s)'
      /\ \A s \in SessionIds : session'[s].user = session[s].user
  <2>1. o.revokes \in SUBSET SessionIds /\ \A s \in o.revokes : s < nextSession
      BY <1>1, RequestFields DEF RevokesOK
  <2> HIDE DEF o
  <2> QED
      BY <1>2, <1>3, <2>1, RevokedAllOK
<1>5. \A s \in SessionIds : Active(s)' => s \notin o.revokes /\ session'[s] = session[s] /\ Active(s)
    BY <1>4 DEF Active
<1>6. written \in UserStatus /\ (written = "LOCKED" => userStatus[v] = "LOCKED" \/ o.kind = "lock")
    BY <1>1, <1>3 DEF Column, UserStatus
<1>7. TypeOK'
    BY <1>2, <1>3, <1>4, <1>6 DEF TypeOK
<1>8. OnlyRacedSurvive'
  <2> SUFFICES ASSUME NEW s \in SessionIds, Active(s)'
               PROVE  LET u == session'[s].user  d == session'[s].device IN
                      /\ userStatus'[u] = "LOCKED" => <<"lock", u, None>> \in raced[s]
                      /\ device[u][d].trust = "BLOCKED" => <<"block", u, d>> \in raced[s]
      BY <1>2 DEF OnlyRacedSurvive
  <2> DEFINE u == session[s].user
             d == session[s].device
  <2>1. /\ s \notin o.revokes /\ session'[s] = session[s] /\ Active(s)
        /\ userStatus[u] = "LOCKED" => <<"lock", u, None>> \in raced[s]
        /\ device[u][d].trust = "BLOCKED" => <<"block", u, d>> \in raced[s]
      BY <1>5 DEF TxInv, OnlyRacedSurvive
  <2>2. ASSUME userStatus'[u] = "LOCKED", userStatus[u] # "LOCKED"
        PROVE  <<"lock", u, None>> \in raced[s]
    <3>1. u = v /\ o.kind = "lock"
        BY <1>2, <1>3, <1>6, <2>2
    <3>2. o.step = "listed" /\ Concerns(o, s)
        BY <1>1, <3>1 DEF Ready, Concerns
    <3>3. Trace(o) \in raced[s]
        BY <1>1, <2>1, <3>2 DEF RevokesOK
    <3> QED
        BY <1>1, <3>1, <3>3 DEF Trace
  <2> QED
      BY <2>1, <2>2
<1>9. NumbersAreDense' /\ LiftOK
    BY <1>2 DEF TxInv, NumbersAreDense, Registered, CountOfUsers, LiftOK
<1>10. ASSUME NEW k \in Slots, NEW j \in At(k)'
       PROVE  JobOK(j)' /\ (crossed' = {} => Current(j)')
  <2>1. /\ j \in Requests /\ JobOK(j) /\ (crossed = {} => Current(j))
        /\ About(j, o) => Trace(o) \in j.met
        /\ crossed = {} /\ j.subject \in Users => j.subject # v
      BY <1>1, <1>2, <1>10, EndStep
  <2>2. j.subject \in Users /\ userStatus'[j.subject] = "LOCKED" =>
            userStatus[j.subject] = "LOCKED" \/ <<"lock", j.subject, None>> \in j.met
    <3> SUFFICES ASSUME j.subject \in Users, userStatus'[j.subject] = "LOCKED",
                        userStatus[j.subject] # "LOCKED"
                 PROVE  <<"lock", j.subject, None>> \in j.met
        OBVIOUS
    <3>1. j.subject = v /\ o.kind = "lock"
        BY <1>2, <1>3, <1>6
    <3> QED
        BY <1>1, <2>1, <3>1 DEF About, Trace
  <2>3. \A s \in SessionIds : Active(s)' /\ Concerns(j, s)' =>
            Active(s) /\ Concerns(j, s) /\ raced'[s] = raced[s]
      BY <1>2, <1>5 DEF Concerns
  <2>4. \A u : Known(u)' = Known(u)
      BY <1>2 DEF Known
  <2>5. JobOK(j)'
    <3>1. LET u == j.subject  d == j.device IN
          u \in Users =>
             /\ userStatus'[u] = "LOCKED" =>
                   userStatus[u] = "LOCKED" \/ <<"lock", u, None>> \in j.met
             /\ Known(u) \subseteq Known(u)'
             /\ d \in Devices /\ device'[u][d].trust = "BLOCKED" =>
                   device[u][d].trust = "BLOCKED" \/ <<"block", u, d>> \in j.met
             /\ j.kind = "login" /\ j.step = "flushed" /\ j.loaded = NoDevice =>
                   d \notin Known(u)'
        BY <1>2, <2>1, <2>2, <2>4 DEF JobOK, LoginOK
    <3>2. nextSession <= nextSession'
        BY <1>2, <1>3
    <3>3. CountOfUsers' = CountOfUsers /\ CountOfUsers \in Nat
        BY <1>2, UsersCounted DEF CountOfUsers, Registered
    <3> HIDE DEF CountOfUsers
    <3> QED
        BY <1>2, <1>3, <1>7, <2>1, <2>3, <3>1, <3>2, <3>3, OthersStay
  <2>6. crossed' = {} => Current(j)'
    <3> SUFFICES ASSUME crossed = {}
                 PROVE  Current(j)'
        BY <1>2
    <3>1. LET u == j.subject IN
          u \in Users =>
              /\ userStatus'[u] = userStatus[u] /\ device'[u] = device[u]
              /\ \A s \in SessionIds :
                    session'[s] = session[s] \/ (session'[s].user # u /\ session[s].user # u)
      <4>1. ASSUME NEW s \in SessionIds, session'[s] # session[s]
            PROVE  session[s].user = v /\ session'[s].user = v
        <5>1. s \in o.revokes
            BY <1>4, <4>1
        <5>2. o.step = "listed"
            BY <1>1, <5>1 DEF RevokesOK
        <5> QED
            BY <1>1, <1>4, <5>1, <5>2 DEF Current, Concerns
      <4>2. j.subject # v \/ j.subject \notin Users
          BY <2>1
      <4> QED
          BY <1>2, <1>3, <4>1, <4>2
    <3> QED
        BY <1>3, <1>7, <2>1, <3>1, CurrentStays
  <2> QED
      BY <2>5, <2>6
<1>11. ASSUME crossed' = {}
       PROVE  [Next]_vars
  <2>1. Current(o)
      BY <1>1, <1>2, <1>11
  <2>2. o.status = userStatus[v] /\ written = IF o.kind = "lock" THEN "LOCKED" ELSE "ACTIVE"
      BY <1>1, <2>1 DEF Current, Column
  <2>3. CASE o.kind = "lock"
    <3>1. o.revokes = {s \in SessionIds : Active(s) /\ session[s].user = v}
        BY <1>1, <2>1, <2>3 DEF Ready, Current, Concerns
    <3>2. session' = [s \in SessionIds |-> IF Active(s) /\ session[s].user = v
                                           THEN Revoked(session[s]) ELSE session[s]]
        BY <1>2, <3>1 DEF RevokedAll
    <3>3. LockAccount(v)
        BY <1>2, <2>2, <2>3, <3>2 DEF LockAccount
    <3> QED
        BY <1>1, <3>3 DEF Next
  <2>4. CASE o.kind = "unlock"
    <3>1. o.revokes = {}
        BY <1>1, <2>4 DEF Ready, RevokesOK
    <3>2. session' = session
        BY <1>2, <1>3, <3>1 DEF RevokedAll, TypeOK
    <3>3. UnlockAccount(v)
        BY <1>2, <2>2, <2>4, <3>2 DEF UnlockAccount
    <3> QED
        BY <1>1, <3>3 DEF Next
  <2> QED
      BY <1>1, <2>3, <2>4 DEF UserKinds
<1>12. (nextSession + Cardinality(Under("login")) <= MaxSessions + 1)'
  <2>1. nextSession' = nextSession /\ o.kind # "login"
      BY <1>1, <1>2 DEF UserKinds
  <2> QED
      BY <1>1, <1>2, <1>3, <2>1, EndStep
<1>13. AloneOK
    BY <1>1, <1>2 DEF AloneOK, Under, UserKinds, Ends, Goes, TxInv, TxTypeOK
<1> QED
    BY <1>1, <1>2, <1>3, <1>7, <1>8, <1>9, <1>10, <1>11, <1>12, <1>13, EndStep, CommitStep

\* CommitDevice: what a block has not listed, its login overlapped.
LEMMA CommitDeviceStep ==
    ASSUME TxInv, NEW i \in Slots, CommitDevice(i)
    PROVE  StepOK
<1> DEFINE o == job[i]
           v == o.subject
           c == o.device
           now == device[v][c]
           wanted == Wanted(o.kind, o.loaded)
           written == Updated(now, o.loaded, wanted)
<1>1. /\ o \in Requests /\ o # Idle /\ o.kind \in DeviceKinds /\ Ready(o)
      /\ JobOK(o) /\ DeviceJobOK(o) /\ RevokesOK(o) /\ (crossed = {} => Current(o))
      /\ v \in Users /\ c \in Known(v) /\ o.loaded \in DeviceRows
    BY AtSlot DEF CommitDevice, Under, JobOK, DeviceJobOK
<1>2. /\ UNCHANGED <<userStatus, nextSession, account, wrong, begun, crossed, raced>> /\ Ends(i)
      /\ session' = RevokedAll(o.revokes)
      /\ device' = [device EXCEPT ![v][c] = written]
    BY DEF CommitDevice, auxiliary
<1>3. /\ TxTypeOK /\ TypeOK /\ account \in [Emails -> Nat]
      /\ crossed \subseteq Users /\ nextSession \in Int
      /\ raced \in [SessionIds -> SUBSET (Kinds \X Subjects \X (Devices \cup {None}))]
      /\ device \in [Users -> [Devices -> DeviceRows \cup {NoDevice}]]
      /\ c \in Devices /\ now \in DeviceRows
    BY <1>1, KnownRow DEF TxInv, TxTypeOK, TypeOK
<1>4. /\ session' \in [SessionIds -> SessionRows \cup {NoSession}]
      /\ \A s \in SessionIds : session'[s] # NoSession <=> s < nextSession'
      /\ \A s \in SessionIds : s \notin o.revokes => session'[s] = session[s]
      /\ \A s \in SessionIds : s \in o.revokes => ~Active(s)'
      /\ \A s \in SessionIds : session'[s].user = session[s].user
  <2>1. o.revokes \in SUBSET SessionIds /\ \A s \in o.revokes : s < nextSession
      BY <1>1, RequestFields DEF RevokesOK
  <2> HIDE DEF o
  <2> QED
      BY <1>2, <1>3, <2>1, RevokedAllOK
<1>5. \A s \in SessionIds : Active(s)' => s \notin o.revokes /\ session'[s] = session[s] /\ Active(s)
    BY <1>4 DEF Active
<1>6. /\ wanted \in DeviceRows
      /\ wanted.trust = "BLOCKED" <=> o.kind = "block"
  <2>1. o.loaded.risk \in Nat /\ o.loaded.primary \in BOOLEAN
      BY <1>1 DEF DeviceRows
  <2>2. /\ AtMost(o.loaded.risk, 10) \in Nat /\ AtLeast(o.loaded.risk, 45) \in Nat
        /\ AtLeast(o.loaded.risk, 90) \in Nat
      BY <2>1 DEF AtMost, AtLeast
  <2>3. CASE o.kind = "trust"
      BY <2>1, <2>2, <2>3 DEF Wanted, Rated, DeviceRows, DeviceTrustStatus
  <2>4. CASE o.kind = "step_up"
      BY <2>1, <2>2, <2>4 DEF Wanted, Rated, DeviceRows, DeviceTrustStatus
  <2>5. CASE o.kind = "block"
      BY <2>1, <2>2, <2>5 DEF Wanted, Rated, DeviceRows, DeviceTrustStatus
  <2> QED
      BY <1>1, <2>3, <2>4, <2>5 DEF DeviceKinds
<1>7. /\ written \in DeviceRows /\ (now = o.loaded => written = wanted)
      /\ written.trust = IF wanted.trust = o.loaded.trust THEN now.trust ELSE wanted.trust
  <2>1. o.loaded # NoDevice
      BY <1>1, RowIsKnown
  <2> HIDE DEF o, now, wanted
  <2> QED
      BY <1>1, <1>3, <1>6, <2>1, UpdatedRow
<1> HIDE DEF now, wanted, written
<1>8. /\ device'[v][c] = written
      /\ \A u \in Users, d \in Devices : u # v \/ d # c => device'[u][d] = device[u][d]
      /\ \A u \in Users : u # v => device'[u] = device[u]
      /\ device' \in [Users -> [Devices -> DeviceRows \cup {NoDevice}]]
    BY <1>1, <1>2, <1>3, <1>7
<1>9. \A u \in Users : Known(u)' = Known(u)
  <2>1. written # NoDevice /\ now # NoDevice
      BY <1>3, <1>7, RowIsKnown
  <2> QED
      BY <1>3, <1>8, <2>1 DEF Known, now
<1>10. TypeOK'
    BY <1>2, <1>3, <1>4, <1>8 DEF TypeOK
<1>11. ASSUME NEW u \in Users, NEW d \in Devices,
              device'[u][d].trust = "BLOCKED", device[u][d].trust # "BLOCKED"
       PROVE  u = v /\ d = c /\ o.kind = "block"
  <2>1. u = v /\ d = c
      BY <1>8, <1>11
  <2> QED
      BY <1>6, <1>7, <1>8, <1>11, <2>1 DEF now
<1>12. OnlyRacedSurvive'
  <2> SUFFICES ASSUME NEW s \in SessionIds, Active(s)'
               PROVE  LET u == session'[s].user  d == session'[s].device IN
                      /\ userStatus[u] = "LOCKED" => <<"lock", u, None>> \in raced[s]
                      /\ device'[u][d].trust = "BLOCKED" => <<"block", u, d>> \in raced[s]
      BY <1>2 DEF OnlyRacedSurvive
  <2> DEFINE u == session[s].user
             d == session[s].device
  <2>1. /\ s \notin o.revokes /\ session'[s] = session[s] /\ Active(s)
        /\ userStatus[u] = "LOCKED" => <<"lock", u, None>> \in raced[s]
        /\ device[u][d].trust = "BLOCKED" => <<"block", u, d>> \in raced[s]
      BY <1>5 DEF TxInv, OnlyRacedSurvive
  <2>2. u \in Users /\ d \in Devices
      BY <1>3, <2>1, ActiveRow DEF SessionRows
  <2>3. ASSUME device'[u][d].trust = "BLOCKED", device[u][d].trust # "BLOCKED"
        PROVE  <<"block", u, d>> \in raced[s]
    <3>1. u = v /\ d = c /\ o.kind = "block"
        BY <1>11, <2>2, <2>3
    <3>2. o.step = "listed" /\ Concerns(o, s)
        BY <1>1, <3>1 DEF Ready, Concerns
    <3>3. Trace(o) \in raced[s]
        BY <1>1, <2>1, <3>2 DEF RevokesOK
    <3> QED
        BY <3>1, <3>3 DEF Trace
  <2> QED
      BY <2>1, <2>3
<1>13. NumbersAreDense'
    BY <1>2 DEF TxInv, NumbersAreDense, Registered, CountOfUsers
<1>14. LiftOK
  <2> SUFFICES ASSUME NEW u \in Users, NEW d \in Devices,
                      device[u][d].trust = "BLOCKED", device'[u][d].trust # "BLOCKED"
               PROVE  \E k \in Slots :
                          /\ job[k] # Idle /\ job[k].subject = u /\ job[k].device = d
                          /\ job'[k] = Idle /\ job[k].kind \in {"trust", "step_up"}
      BY DEF LiftOK
  <2>1. u = v /\ d = c
      BY <1>8
  <2>2. o.kind # "block"
      BY <1>6, <1>7, <1>8, <2>1 DEF now
  <2>3. job'[i] = Idle
      BY <1>2, <1>3 DEF Ends, Goes, TxTypeOK
  <2> QED
      BY <1>1, <2>1, <2>2, <2>3 DEF DeviceKinds
<1>15. ASSUME NEW k \in Slots, NEW j \in At(k)'
       PROVE  JobOK(j)' /\ (crossed' = {} => Current(j)')
  <2>1. /\ j \in Requests /\ JobOK(j) /\ (crossed = {} => Current(j))
        /\ About(j, o) => Trace(o) \in j.met
        /\ crossed = {} /\ j.subject \in Users => j.subject # v
      BY <1>1, <1>2, <1>15, EndStep
  <2>2. ASSUME j.subject \in Users, j.device \in Devices,
               device'[j.subject][j.device].trust = "BLOCKED",
               device[j.subject][j.device].trust # "BLOCKED"
        PROVE  <<"block", j.subject, j.device>> \in j.met
    <3>1. j.subject = v /\ j.device = c /\ o.kind = "block"
        BY <1>11, <2>2
    <3> QED
        BY <2>1, <3>1 DEF About, Trace
  <2>3. \A s \in SessionIds : Active(s)' /\ Concerns(j, s)' =>
            Active(s) /\ Concerns(j, s) /\ raced'[s] = raced[s]
      BY <1>2, <1>5 DEF Concerns
  <2>4. JobOK(j)'
    <3>1. LET u == j.subject  d == j.device IN
          u \in Users =>
             /\ userStatus'[u] = "LOCKED" =>
                   userStatus[u] = "LOCKED" \/ <<"lock", u, None>> \in j.met
             /\ Known(u) \subseteq Known(u)'
             /\ d \in Devices /\ device'[u][d].trust = "BLOCKED" =>
                   device[u][d].trust = "BLOCKED" \/ <<"block", u, d>> \in j.met
             /\ j.kind = "login" /\ j.step = "flushed" /\ j.loaded = NoDevice =>
                   d \notin Known(u)'
        BY <1>2, <1>9, <2>1, <2>2 DEF JobOK, LoginOK
    <3>2. nextSession <= nextSession'
        BY <1>2, <1>3
    <3>3. CountOfUsers' = CountOfUsers /\ CountOfUsers \in Nat
        BY <1>2, UsersCounted DEF CountOfUsers, Registered
    <3>4. j.kind = "register" =>
              /\ account'[j.subject] # 0 => account[j.subject] # 0 \/ Trace(j) \in j.met
              /\ CountOfUsers \in Nat /\ CountOfUsers' \in Nat
              /\ CountOfUsers <= CountOfUsers'
              /\ j.met = {} => CountOfUsers' = CountOfUsers
      <4> HIDE DEF CountOfUsers
      <4> QED
          BY <1>2, <3>3
    <3>5. TypeOK /\ TypeOK' /\ j \in Requests /\ JobOK(j)
        BY <1>3, <1>10, <2>1
    <3>6. \A s \in SessionIds : Active(s)' /\ Concerns(j, s)' =>
              \/ Active(s) /\ Concerns(j, s) /\ raced'[s] = raced[s]
              \/ Trace(j) \in raced'[s]
        BY <2>3
    <3> QED
        BY <3>1, <3>2, <3>4, <3>5, <3>6, OthersStay
  <2>5. crossed' = {} => Current(j)'
    <3> SUFFICES ASSUME crossed = {}
                 PROVE  Current(j)'
        BY <1>2
    <3>1. LET u == j.subject IN
          u \in Users =>
              /\ userStatus'[u] = userStatus[u] /\ device'[u] = device[u]
              /\ \A s \in SessionIds :
                    session'[s] = session[s] \/ (session'[s].user # u /\ session[s].user # u)
      <4>1. ASSUME NEW s \in SessionIds, session'[s] # session[s]
            PROVE  session[s].user = v /\ session'[s].user = v
        <5>1. s \in o.revokes
            BY <1>4, <4>1
        <5>2. o.step = "listed"
            BY <1>1, <5>1 DEF RevokesOK
        <5> QED
            BY <1>1, <1>4, <5>1, <5>2 DEF Current, Concerns
      <4>2. j.subject # v \/ j.subject \notin Users
          BY <2>1
      <4> QED
          BY <1>2, <1>8, <4>1, <4>2
    <3> QED
        BY <1>3, <1>10, <2>1, <3>1, CurrentStays
  <2> QED
      BY <2>4, <2>5
<1>16. ASSUME crossed' = {}
       PROVE  [Next]_vars
  <2>1. Current(o)
      BY <1>1, <1>2, <1>16
  <2>2. o.loaded = now
      BY <1>1, <2>1 DEF Current, now
  <2>3. device' = [device EXCEPT ![v][c] = Wanted(o.kind, @)]
      BY <1>1, <1>2, <1>3, <1>7, <2>2 DEF now, wanted
  <2>4. o.kind # "block" => session' = session
    <3> SUFFICES ASSUME o.kind # "block"
                 PROVE  session' = session
        OBVIOUS
    <3>1. o.revokes = {}
        BY <1>1 DEF Ready, RevokesOK, DeviceKinds
    <3> QED
        BY <1>2, <1>3, <3>1 DEF RevokedAll, TypeOK
  <2>5. CASE o.kind = "trust"
    <3>1. TrustDevice(v, c)
        BY <1>1, <1>2, <2>3, <2>4, <2>5 DEF TrustDevice, Wanted
    <3> QED
        BY <1>1, <1>3, <3>1 DEF Next
  <2>6. CASE o.kind = "step_up"
    <3>1. StepUpDevice(v, c)
        BY <1>1, <1>2, <2>3, <2>4, <2>6 DEF StepUpDevice, Wanted
    <3> QED
        BY <1>1, <1>3, <3>1 DEF Next
  <2>7. CASE o.kind = "block"
    <3>1. o.revokes = {s \in SessionIds :
                          Active(s) /\ session[s].user = v /\ session[s].device = c}
        BY <1>1, <2>1, <2>7 DEF Ready, Current, Concerns
    <3>2. session' = [s \in SessionIds |->
                          IF Active(s) /\ session[s].user = v /\ session[s].device = c
                          THEN Revoked(session[s]) ELSE session[s]]
        BY <1>2, <3>1 DEF RevokedAll
    <3>3. BlockDevice(v, c)
        BY <1>1, <1>2, <2>3, <2>7, <3>2 DEF BlockDevice, Wanted
    <3> QED
        BY <1>1, <1>3, <3>3 DEF Next
  <2> QED
      BY <1>1, <2>5, <2>6, <2>7 DEF DeviceKinds
<1>17. (nextSession + Cardinality(Under("login")) <= MaxSessions + 1)'
  <2>1. nextSession' = nextSession /\ o.kind # "login"
      BY <1>1, <1>2 DEF DeviceKinds
  <2> QED
      BY <1>1, <1>2, <1>3, <2>1, EndStep
<1>18. AloneOK
    BY <1>1, <1>2 DEF AloneOK, Under, DeviceKinds, Ends, Goes, TxInv, TxTypeOK
<1> QED
    BY <1>1, <1>2, <1>3, <1>10, <1>12, <1>13, <1>14, <1>15, <1>16, <1>17, <1>18,
       EndStep, CommitStep

\* SessionEnds: a session ends; no request does.
LEMMA SessionEndsStep ==
    ASSUME TxInv, NEW s \in SessionIds, SessionEnds(s)
    PROVE  StepOK
<1>1. /\ UNCHANGED <<userStatus, device, nextSession, wrong, job, account, begun, raced>>
      /\ RevokeSession(s) \/ Expire(s)
      /\ crossed' = crossed \cup {u \in Users : u = session[s].user
                                     /\ \E i \in Slots : job[i] # Idle /\ job[i].subject = u}
    BY DEF SessionEnds, RevokeSession, Expire
<1>2. /\ TxTypeOK /\ TypeOK /\ account \in [Emails -> Nat]
      /\ crossed \subseteq Users /\ nextSession \in Int
      /\ raced \in [SessionIds -> SUBSET (Kinds \X Subjects \X (Devices \cup {None}))]
      /\ job \in [Slots -> Requests \cup {Idle}]
    BY DEF TxInv, TxTypeOK, TypeOK
<1>3. session[s] \in SessionRows /\ s < nextSession
  <2>1. session[s] # NoSession
      BY <1>1, <1>2 DEF RevokeSession, Expire, Live, Active, Created, TypeOK, NoSession, None
  <2> QED
      BY <1>2, <2>1 DEF TypeOK
<1> DEFINE row == session'[s]
<1>4. /\ session' = [session EXCEPT ![s] = row]
      /\ row \in SessionRows
      /\ row.user = session[s].user /\ row.device = session[s].device
      /\ row.status = "ACTIVE" => Active(s)
  <2>1. CASE RevokeSession(s)
      BY <1>2, <1>3, <2>1 DEF RevokeSession, Revoked, SessionRows, TypeOK, Active
  <2>2. CASE Expire(s)
      BY <1>2, <1>3, <2>2 DEF Expire, SessionRows, TypeOK, Active, Live
  <2> QED
      BY <1>1, <2>1, <2>2
<1> HIDE DEF row
<1>5. \A t \in SessionIds :
          /\ t # s => session'[t] = session[t]
          /\ session'[t].user = session[t].user /\ session'[t].device = session[t].device
          /\ Active(t)' => Active(t)
    BY <1>2, <1>4 DEF Active, TypeOK
<1>6. TypeOK'
  <2>1. \A t \in SessionIds : session'[t] # NoSession <=> session[t] # NoSession
    <3>1. row # NoSession /\ session[s] # NoSession /\ session'[s] = row
        BY <1>2, <1>3, <1>4 DEF TypeOK, NoSession, None, SessionRows
    <3> QED
        BY <1>5, <3>1
  <2>2. session' \in [SessionIds -> SessionRows \cup {NoSession}]
      BY <1>2, <1>4 DEF TypeOK
  <2> QED
      BY <1>1, <1>2, <2>1, <2>2 DEF TypeOK
<1>7. OnlyRacedSurvive' /\ NumbersAreDense' /\ LiftOK
    BY <1>1, <1>5 DEF TxInv, OnlyRacedSurvive, NumbersAreDense, Registered, CountOfUsers, LiftOK
<1>8. ASSUME NEW k \in Slots, NEW j \in At(k)'
      PROVE  JobOK(j)' /\ (crossed' = {} => Current(j)')
  <2>1. j = job[k] /\ job[k] # Idle
      BY <1>1, <1>8 DEF At
  <2>2. j \in Requests /\ JobOK(j) /\ (crossed = {} => Current(j))
      BY <2>1, AtSlot
  <2>3. JobOK(j)'
    <3>1. LET u == j.subject  d == j.device IN
          u \in Users =>
             /\ userStatus'[u] = "LOCKED" =>
                   userStatus[u] = "LOCKED" \/ <<"lock", u, None>> \in j.met
             /\ Known(u) \subseteq Known(u)'
             /\ d \in Devices /\ device'[u][d].trust = "BLOCKED" =>
                   device[u][d].trust = "BLOCKED" \/ <<"block", u, d>> \in j.met
             /\ j.kind = "login" /\ j.step = "flushed" /\ j.loaded = NoDevice =>
                   d \notin Known(u)'
        BY <1>1, <2>2 DEF JobOK, LoginOK, Known
    <3>2. nextSession <= nextSession'
        BY <1>1, <1>2
    <3>3. CountOfUsers' = CountOfUsers /\ CountOfUsers \in Nat
        BY <1>1, UsersCounted DEF CountOfUsers, Registered
    <3>4. \A t \in SessionIds : Active(t)' /\ Concerns(j, t)' =>
              Active(t) /\ Concerns(j, t) /\ raced'[t] = raced[t]
        BY <1>1, <1>5 DEF Concerns
    <3> HIDE DEF CountOfUsers
    <3> QED
        BY <1>1, <1>2, <1>6, <2>2, <3>1, <3>2, <3>3, <3>4, OthersStay
  <2>4. crossed' = {} => Current(j)'
    <3> SUFFICES ASSUME crossed' = {}
                 PROVE  Current(j)'
        OBVIOUS
    <3>1. j.subject # session[s].user \/ j.subject \notin Users
        BY <1>1, <2>1
    <3>2. LET u == j.subject IN
          u \in Users =>
              /\ userStatus'[u] = userStatus[u] /\ device'[u] = device[u]
              /\ \A t \in SessionIds :
                    session'[t] = session[t] \/ (session'[t].user # u /\ session[t].user # u)
        BY <1>1, <1>5, <3>1
    <3> QED
        BY <1>1, <1>2, <1>6, <2>2, <3>2, CurrentStays
  <2> QED
      BY <2>3, <2>4
<1>9. [Next]_vars
    BY <1>1 DEF Next
<1>10. AloneOK
    BY <1>1 DEF AloneOK, Under
<1>11. (nextSession + Cardinality(Under("login")) <= MaxSessions + 1)'
    BY <1>1, <1>2 DEF TxTypeOK, Under
<1>12. /\ \A k \in Slots : job'[k] \in {job[k], Idle}
       /\ job' = [k \in Slots |-> job'[k]]
       /\ crossed \subseteq crossed' /\ crossed' \subseteq Users
    BY <1>1, <1>2
<1> QED
    BY <1>1, <1>2, <1>6, <1>7, <1>8, <1>9, <1>10, <1>11, <1>12, CommitStep

\* CommitLogin: the row waited for no other and the session remembers what
\* the login has met.
LEMMA CommitLoginStep ==
    ASSUME TxInv, NEW i \in Slots, CommitLogin(i)
    PROVE  StepOK
<1> DEFINE o == job[i]
           v == o.subject
           c == o.device
           n == nextSession
           now == device[v][c]
           written == Updated(now, o.loaded, o.row)
<1>1. /\ o \in Requests /\ o # Idle /\ o.kind = "login" /\ o.step = "flushed"
      /\ LoginOK(o) /\ (crossed = {} => Current(o))
      /\ v \in Users /\ c \in Devices /\ o.row \in DeviceRows /\ o.row.trust # "BLOCKED"
      /\ o.loaded \in DeviceRows \cup {NoDevice} /\ o.abnormal \in BOOLEAN
      /\ o.loaded # NoDevice <=> c \in Known(v)
      /\ o.opens \in SessionRows /\ o.opens.user = v /\ o.opens.device = c
    BY AtSlot, RequestFields DEF CommitLogin, Under, JobOK, LoginOK
<1>2. /\ UNCHANGED <<userStatus, account, begun, crossed>> /\ Ends(i)
      /\ device' = [device EXCEPT ![v][c] = written]
      /\ session' = [session EXCEPT ![n] = o.opens]
      /\ nextSession' = n + 1
      /\ wrong' = [wrong EXCEPT ![v] = 0]
      /\ raced' = [raced EXCEPT ![n] = o.met]
    BY DEF CommitLogin
<1>3. /\ TxTypeOK /\ TypeOK /\ account \in [Emails -> Nat]
      /\ crossed \subseteq Users /\ n \in Nat
      /\ raced \in [SessionIds -> SUBSET (Kinds \X Subjects \X (Devices \cup {None}))]
      /\ session \in [SessionIds -> SessionRows \cup {NoSession}]
      /\ device \in [Users -> [Devices -> DeviceRows \cup {NoDevice}]]
      /\ now \in DeviceRows \cup {NoDevice}
    BY <1>1, SessionAssumption DEF TxInv, TxTypeOK, TypeOK
<1>4. (nextSession + Cardinality(Under("login")) <= MaxSessions + 1)'
    BY <1>1, <1>2, <1>3, EndStep
<1>5. n \in SessionIds
  <2>1. i \in Under("login")
      BY <1>1 DEF Under
  <2> DEFINE m == Cardinality(Under("login"))
  <2>2. m \in Nat /\ m # 0
      BY <2>1, LoginsCounted, FS_EmptySet
  <2>3. n + m <= MaxSessions + 1 /\ n \in 1..(MaxSessions + 1) /\ MaxSessions \in Nat
      BY <1>3, SessionAssumption DEF TxTypeOK, TypeOK
  <2> HIDE DEF n, m
  <2> QED
      BY <2>2, <2>3 DEF SessionIds
<1>6. /\ written \in DeviceRows
      /\ now = o.loaded => written = o.row
      /\ written.trust = IF o.row.trust = o.loaded.trust THEN now.trust ELSE o.row.trust
  <2>1. /\ o.loaded = NoDevice => now = NoDevice
        /\ o.loaded # NoDevice => now \in DeviceRows
      BY <1>1, <1>3 DEF Known
  <2> HIDE DEF o, now
  <2> QED
      BY <1>1, <1>3, <2>1, UpdatedRow
<1> HIDE DEF now, written
<1>7. /\ device'[v][c] = written
      /\ \A u \in Users, d \in Devices : u # v \/ d # c => device'[u][d] = device[u][d]
      /\ \A u \in Users : u # v => device'[u] = device[u]
      /\ device' \in [Users -> [Devices -> DeviceRows \cup {NoDevice}]]
    BY <1>1, <1>2, <1>3, <1>6
<1>8. \A u \in Users :
          /\ Known(u) \subseteq Known(u)'
          /\ \A d \in Known(u)' : d \in Known(u) \/ (u = v /\ d = c)
  <2>1. written # NoDevice
      BY <1>6, RowIsKnown
  <2> QED
      BY <1>7, <2>1 DEF Known
<1>9. ASSUME NEW u \in Users, NEW d \in Devices, device'[u][d].trust = "BLOCKED"
      PROVE  device[u][d].trust = "BLOCKED"
    BY <1>1, <1>6, <1>7, <1>9 DEF now
<1>10. /\ session'[n] = o.opens /\ raced'[n] = o.met
       /\ \A s \in SessionIds : s # n => session'[s] = session[s] /\ raced'[s] = raced[s]
       /\ session[n] = NoSession
    BY <1>2, <1>3, <1>5 DEF TypeOK
<1>11. TypeOK'
  <2>1. session' \in [SessionIds -> SessionRows \cup {NoSession}]
      BY <1>1, <1>2, <1>3
  <2>2. \A s \in SessionIds : session'[s] # NoSession <=> s < nextSession'
    <3> SUFFICES ASSUME NEW s \in SessionIds
                 PROVE  session'[s] # NoSession <=> s < nextSession'
        OBVIOUS
    <3>1. CASE s = n
      <4>1. o.opens # NoSession
          BY <1>1 DEF SessionRows, NoSession, None
      <4> QED
          BY <1>2, <1>3, <1>10, <3>1, <4>1
    <3>2. CASE s # n
      <4>1. session[s] # NoSession <=> s < n
          BY <1>3 DEF TypeOK
      <4>2. s \in Int
          BY DEF SessionIds
      <4>3. n \in Int /\ s # n
          BY <1>3, <3>2
      <4> HIDE DEF n
      <4>4. s < n <=> s < n + 1
          BY <4>2, <4>3
      <4> QED
          BY <1>2, <1>10, <3>2, <4>1, <4>4
    <3> QED
        BY <3>1, <3>2
  <2>3. nextSession' \in 1..(MaxSessions + 1)
      BY <1>2, <1>5, SessionAssumption DEF SessionIds
  <2>4. wrong' \in [Users -> Nat] /\ userStatus' \in [Users -> UserStatus]
      BY <1>2, <1>3 DEF TypeOK
  <2> QED
      BY <1>7, <2>1, <2>2, <2>3, <2>4 DEF TypeOK
<1>12. raced' \in [SessionIds -> SUBSET (Kinds \X Subjects \X (Devices \cup {None}))]
  <2>1. o.met \in SUBSET (Kinds \X Subjects \X (Devices \cup {None}))
      BY <1>1, RequestFields
  <2> QED
      BY <1>2, <1>3, <2>1
<1>13. OnlyRacedSurvive'
  <2> SUFFICES ASSUME NEW s \in SessionIds, Active(s)'
               PROVE  LET u == session'[s].user  d == session'[s].device IN
                      /\ userStatus[u] = "LOCKED" => <<"lock", u, None>> \in raced'[s]
                      /\ device'[u][d].trust = "BLOCKED" => <<"block", u, d>> \in raced'[s]
      BY <1>2 DEF OnlyRacedSurvive
  <2>1. CASE s = n
      BY <1>1, <1>9, <1>10, <2>1 DEF LoginOK
  <2>2. CASE s # n
    <3>1. session'[s] = session[s] /\ raced'[s] = raced[s] /\ Active(s)
        BY <1>10, <2>2 DEF Active
    <3>2. session[s].user \in Users /\ session[s].device \in Devices
        BY <1>3, <3>1, ActiveRow DEF SessionRows
    <3> QED
        BY <1>9, <3>1, <3>2 DEF TxInv, OnlyRacedSurvive
  <2> QED
      BY <2>1, <2>2
<1>14. NumbersAreDense'
    BY <1>2 DEF TxInv, NumbersAreDense, Registered, CountOfUsers
<1>15. LiftOK
  <2> SUFFICES ASSUME NEW u \in Users, NEW d \in Devices,
                      device[u][d].trust = "BLOCKED", device'[u][d].trust # "BLOCKED"
               PROVE  \E k \in Slots :
                          /\ job[k] # Idle /\ job[k].subject = u /\ job[k].device = d
                          /\ job'[k] = Idle
                          /\ job[k].kind = "login" /\ job[k].abnormal
                          /\ <<"block", u, d>> \in job[k].met
      BY DEF LiftOK
  <2>1. u = v /\ d = c
      BY <1>7
  <2>2. o.row # o.loaded
      BY <1>6, <1>7, <2>1 DEF now
  <2>3. c \in Known(v)
      BY <2>1 DEF Known, NoDevice, None
  <2>4. o.abnormal /\ <<"block", u, d>> \in o.met
      BY <1>1, <2>1, <2>2, <2>3 DEF LoginOK
  <2>5. job'[i] = Idle
      BY <1>2, <1>3 DEF Ends, Goes, TxTypeOK
  <2> QED
      BY <1>1, <2>1, <2>4, <2>5
<1>16. ASSUME NEW k \in Slots, NEW j \in At(k)'
       PROVE  JobOK(j)' /\ (crossed' = {} => Current(j)')
  <2>1. /\ j \in Requests /\ JobOK(j) /\ (crossed = {} => Current(j))
        /\ About(j, o) => Trace(j) \in o.met
        /\ crossed = {} /\ j.subject \in Users => j.subject # v
        /\ k # i /\ j \in At(k)
      BY <1>1, <1>2, <1>16, EndStep
  <2>2. \A s \in SessionIds : Active(s)' /\ Concerns(j, s)' =>
            \/ Active(s) /\ Concerns(j, s) /\ raced'[s] = raced[s]
            \/ Trace(j) \in raced'[s]
    <3> SUFFICES ASSUME NEW s \in SessionIds, Active(s)', Concerns(j, s)'
                 PROVE  \/ Active(s) /\ Concerns(j, s) /\ raced'[s] = raced[s]
                        \/ Trace(j) \in raced'[s]
        OBVIOUS
    <3>1. CASE s = n
      <4>1. j.subject = v
          BY <1>1, <1>10, <3>1 DEF Concerns
      <4> QED
          BY <1>10, <2>1, <3>1, <4>1 DEF About
    <3>2. CASE s # n
        BY <1>10, <3>2 DEF Active, Concerns
    <3> QED
        BY <3>1, <3>2
  <2>3. j.kind = "login" /\ j.step = "flushed" /\ j.loaded = NoDevice =>
            j.subject \in Users /\ j.device \notin Known(j.subject)'
    <3> SUFFICES ASSUME j.kind = "login", j.step = "flushed", j.loaded = NoDevice
                 PROVE  j.subject \in Users /\ j.device \notin Known(j.subject)'
        OBVIOUS
    <3>1. j.subject \in Users /\ j.device \notin Known(j.subject)
        BY <2>1 DEF JobOK, LoginOK
    <3>2. ~(j.subject = v /\ j.device = c)
        BY <1>1, <2>1 DEF TxInv, OneHolder, At
    <3> QED
        BY <1>8, <3>1, <3>2
  <2>4. JobOK(j)'
    <3>1. LET u == j.subject  d == j.device IN
          u \in Users =>
             /\ userStatus'[u] = "LOCKED" =>
                   userStatus[u] = "LOCKED" \/ <<"lock", u, None>> \in j.met
             /\ Known(u) \subseteq Known(u)'
             /\ d \in Devices /\ device'[u][d].trust = "BLOCKED" =>
                   device[u][d].trust = "BLOCKED" \/ <<"block", u, d>> \in j.met
             /\ j.kind = "login" /\ j.step = "flushed" /\ j.loaded = NoDevice =>
                   d \notin Known(u)'
        BY <1>2, <1>8, <1>9, <2>3
    <3>2. nextSession <= nextSession'
        BY <1>2, <1>3
    <3>3. CountOfUsers' = CountOfUsers /\ CountOfUsers \in Nat
        BY <1>2, UsersCounted DEF CountOfUsers, Registered
    <3>4. j.kind = "register" =>
              /\ account'[j.subject] # 0 => account[j.subject] # 0 \/ Trace(j) \in j.met
              /\ CountOfUsers \in Nat /\ CountOfUsers' \in Nat
              /\ CountOfUsers <= CountOfUsers'
              /\ j.met = {} => CountOfUsers' = CountOfUsers
      <4> HIDE DEF CountOfUsers
      <4> QED
          BY <1>2, <3>3
    <3>5. TypeOK /\ TypeOK' /\ j \in Requests /\ JobOK(j)
        BY <1>3, <1>11, <2>1
    <3> QED
        BY <2>2, <3>1, <3>2, <3>4, <3>5, OthersStay
  <2>5. crossed' = {} => Current(j)'
    <3> SUFFICES ASSUME crossed = {}
                 PROVE  Current(j)'
        BY <1>2
    <3>1. LET u == j.subject IN
          u \in Users =>
              /\ userStatus'[u] = userStatus[u] /\ device'[u] = device[u]
              /\ \A s \in SessionIds :
                    \/ session'[s] = session[s]
                    \/ session'[s].user # u /\ (session[s].user # u \/ ~Active(s))
      <4> SUFFICES ASSUME j.subject \in Users
                   PROVE  LET u == j.subject IN
                          /\ userStatus'[u] = userStatus[u] /\ device'[u] = device[u]
                          /\ \A s \in SessionIds :
                                \/ session'[s] = session[s]
                                \/ session'[s].user # u /\ (session[s].user # u \/ ~Active(s))
          OBVIOUS
      <4>1. j.subject # v
          BY <2>1
      <4>2. session'[n].user # j.subject /\ ~Active(n)
          BY <1>1, <1>10, <4>1 DEF NoSession, Active, None
      <4> QED
          BY <1>2, <1>7, <1>10, <4>1, <4>2
    <3> QED
        BY <1>3, <1>11, <2>1, <3>1, CurrentStays
  <2> QED
      BY <2>4, <2>5
<1>17. ASSUME crossed' = {}
       PROVE  [Next]_vars
  <2>1. Current(o)
      BY <1>1, <1>2, <1>17
  <2>2. /\ userStatus[v] = "ACTIVE" /\ o.loaded = now
        /\ o.row = Upsert(v, c, o.abnormal) /\ o.opens = NewSession(v, c, o.row)
      BY <1>1, <2>1 DEF Current, now
  <2>3. device' = [device EXCEPT ![v][c] = o.row]
      BY <1>2, <1>6, <2>2
  <2>4. Login(v, c, o.abnormal)
      BY <1>1, <1>2, <1>5, <2>2, <2>3 DEF Login
  <2> QED
      BY <1>1, <2>4 DEF Next
<1>18. AloneOK
    BY <1>1, <1>2 DEF AloneOK, Under, Ends, Goes, TxInv, TxTypeOK
<1> QED
    BY <1>1, <1>2, <1>3, <1>4, <1>11, <1>12, <1>13, <1>14, <1>15, <1>16, <1>17, <1>18,
       EndStep, CommitStep

----------------------------------------------------------------------------
\* The theorems

LEMMA TxInitOK == TxInit => TxInv
<1> SUFFICES ASSUME TxInit
             PROVE  TxInv
    OBVIOUS
<1>1. IInv /\ TypeOK
    BY InitIInv DEF TxInit, IInv
<1>2. \A i \in Slots : At(i) = {}
    BY DEF TxInit, At
<1>3. Under("login") = {} /\ Registered = {}
    BY DEF TxInit, Under, Registered
<1>4. Cardinality(Under("login")) = 0 /\ Cardinality(Registered) = 0
    BY <1>3, FS_EmptySet
<1>5. \A s \in SessionIds : ~Active(s)
    BY DEF TxInit, Init, Active, NoSession, None
<1>6. nextSession = 1 /\ MaxSessions \in Nat /\ Seeded \in Nat
    BY SessionAssumption, AuthTxAssumption DEF TxInit, Init
<1>7. TxTypeOK
    BY <1>1, <1>4, <1>6 DEF TxInit, TxTypeOK
<1>8. NumbersAreDense
    BY <1>3, <1>4, <1>6 DEF NumbersAreDense, CountOfUsers
<1> QED
    BY <1>1, <1>2, <1>5, <1>7, <1>8
       DEF TxInv, OnlyRacedSurvive, OverlapsAreMet, OneHolder, UncrossedOK

\* A step that changes nothing.
LEMMA StutterStep ==
    ASSUME TxInv, UNCHANGED allVars
    PROVE  StepOK
<1>1. /\ UNCHANGED <<userStatus, device, session, nextSession, wrong, job, account, begun,
                     crossed, raced>>
      /\ UNCHANGED vars
    BY DEF allVars, vars
<1>2. TxTypeOK'
    BY <1>1, SerialSame DEF TxInv, TxTypeOK, Under
<1>3. ASSUME NEW i \in Slots, NEW j \in At(i)'
      PROVE  JobOK(j)' /\ (crossed' = {} => Current(j)')
  <2>1. j = job[i] /\ job[i] # Idle
      BY <1>1, <1>3 DEF At
  <2> QED
      BY <1>1, <2>1, AtSlot, TablesSame
<1>4. OnlyRacedSurvive' /\ NumbersAreDense'
    BY <1>1 DEF TxInv, OnlyRacedSurvive, NumbersAreDense, Active, Registered, CountOfUsers
<1>5. LiftOK /\ AloneOK
    BY <1>1 DEF LiftOK, AloneOK, Under
<1>6. /\ \A k \in Slots : job'[k] \in {job[k], Idle}
      /\ job' = [k \in Slots |-> job'[k]]
    BY <1>1 DEF TxInv, TxTypeOK
<1> QED
    BY <1>1, <1>2, <1>3, <1>4, <1>5, <1>6, CommitStep DEF TxInv, TxTypeOK

\* Every step keeps the invariant and is as the action properties say.
LEMMA TxNextStep == TxInv /\ [TxNext]_allVars => StepOK
<1> SUFFICES ASSUME TxInv, [TxNext]_allVars
             PROVE  StepOK
    OBVIOUS
<1>1. CASE \E i \in Slots :
              \/ \E u \in Users, d \in Devices :
                    \/ \E abnormal \in BOOLEAN : BeginLogin(i, u, d, abnormal)
                    \/ \E kind \in DeviceKinds : BeginDevice(i, kind, u, d)
              \/ \E u \in Users, kind \in UserKinds : BeginUser(i, kind, u)
              \/ \E e \in Emails : BeginRegister(i, e)
    BY <1>1, BeginSteps
<1>2. CASE \E i \in Slots : Step(i)
  <2> SUFFICES ASSUME NEW i \in Slots, Step(i)
               PROVE  StepOK
      BY <1>2
  <2> QED
      BY ReadDeviceStep, FlushLoginStep, CommitLoginStep, ListSessionsStep, CommitDeviceStep,
         CommitUserStep, CountUsersStep, CommitRegisterStep DEF Step
<1>3. CASE \E s \in SessionIds : SessionEnds(s)
    BY <1>3, SessionEndsStep
<1>4. CASE UNCHANGED allVars
    BY <1>4, StutterStep
<1> QED
    BY <1>1, <1>2, <1>3, <1>4 DEF TxNext

\* What requests that overlap remember of one another is enough, whatever the
\* number of them, of users, devices and emails.
THEOREM TxInvariance == TxSpec => []TxInv
<1>1. TxInv /\ [TxNext]_allVars => TxInv'
    BY TxNextStep DEF StepOK
<1> QED
    BY <1>1, TxInitOK, PTL DEF TxSpec

\* A session outlives a lock or a block only if its login overlapped it.
THEOREM RacedOnly == TxSpec => []OnlyRacedSurvive
<1>1. TxInv => OnlyRacedSurvive
    BY DEF TxInv
<1> QED
    BY <1>1, TxInvariance, PTL

\* Account numbers have no gap and no repetition, however registrations
\* overlap.
THEOREM DenseNumbers == TxSpec => []NumbersAreDense
<1>1. TxInv => NumbersAreDense
    BY DEF TxInv
<1> QED
    BY <1>1, TxInvariance, PTL

\* Only an administrator, or a login from an abnormal region that overlapped
\* the block, lifts a block.
THEOREM BlockLifts == TxSpec => BlockIsLifted
<1>1. TxInv /\ [TxNext]_allVars => [LiftOK]_allVars
    BY TxNextStep DEF StepOK
<1> QED
    BY <1>1, TxInvariance, PTL DEF TxSpec, BlockIsLifted, LiftOK

\* A registration fails only where it overlapped another.
THEOREM AloneRegisters == TxSpec => RegistersAlone
<1>1. TxInv /\ [TxNext]_allVars => [AloneOK]_allVars
    BY TxNextStep DEF StepOK
<1> QED
    BY <1>1, TxInvariance, PTL DEF TxSpec, RegistersAlone, AloneOK

\* A transaction that overlaps no other about its user is a step of
\* SessionSecurity or none.
THEOREM UncrossedSerial == TxSpec => UncrossedIsSerial
<1>1. TxInv /\ [TxNext]_allVars => [crossed' = {} => [Next]_vars]_allVars
    BY TxNextStep DEF StepOK
<1> QED
    BY <1>1, TxInvariance, PTL DEF TxSpec, UncrossedIsSerial

\* So, while none have overlapped, all that is proved of SessionSecurity
\* holds: locked users and blocked devices are out, scores fit, one device is
\* primary.
THEOREM UncrossedSound == TxSpec => [](crossed = {} => IInv)
<1>1. TxInv => (crossed = {} => IInv)
    BY DEF TxInv, UncrossedOK
<1> QED
    BY <1>1, TxInvariance, PTL
=============================================================================
