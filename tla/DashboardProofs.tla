--------------------------- MODULE DashboardProofs ---------------------------
(***************************************************************************)
(* Theorems about Dashboard: the type invariant, and that the queue of     *)
(* risk events is with a token that is not an administrator's in two ways  *)
(* only, for any number of users, sign-ins, refreshes under way and        *)
(* events.                                                                 *)
(*                                                                         *)
(* The inductive invariant IInv adds what a refresh under way may say: it  *)
(* goes by a token that was issued, it speaks of events that were raised,  *)
(* and an answer that lists events was made for an administrator's token.  *)
(* The last, and that a sign-in under way finds no token to take the       *)
(* queue over from, are what QueueFollowsToken rests on.                   *)
(***************************************************************************)
EXTENDS Dashboard, TLAPS

States == {"unused", "active", "revoked", "expired"}
Afters == [do: {"nothing", "load", "select"}, event: Event]
Handlers(n) ==
    [kind: {"login", "logout", "review", "submit", "lab"},
     event: 0..n, token: Tokens, selected: 0..n]
Closures(n) == [token: Tokens \cup {NoToken}, selected: 0..n]
Requests(n) == [pane: Panes, event: 1..n]

\* RefreshOK of the sessions s and of n events raised.
Sound(r, s, n) ==
    /\ s[r.token] # "unused"
    /\ r.selected <= n /\ r.after.event <= n
    /\ r.after.do = "load" => r.after.event > 0
    /\ r.answer # Unanswered =>
          /\ r.answer <= n
          /\ r.answer > 0 => Owner[r.token] \in Admins

SlotsSound(f, s, n) ==
    /\ f \in [Slots -> RefreshRecords \cup {Idle}]
    /\ \A i \in Slots : f[i] # Idle => Sound(f[i], s, n)

\* What every step does to the server: a token that was issued stays issued,
\* and no event goes.
Grows ==
    /\ session' \in [Tokens -> States]
    /\ \A t \in Tokens : session[t] # "unused" => session'[t] # "unused"
    /\ raised' \in Event /\ raised <= raised'

\* IInv's words on the handler.
HandlerOK ==
    /\ handler # Idle /\ handler.kind = "review" => handler.event > 0
    /\ handler # Idle /\ handler.kind = "login" => token = NoToken

----------------------------------------------------------------------------
\* Refreshes

\* A slot in use holds a record that is sound, in IInv's words and in these.
LEMMA SlotsOfIInv ==
    ASSUME IInv
    PROVE  SlotsSound(refresh, session, raised)
<1>1. refresh \in [Slots -> RefreshRecords \cup {Idle}]
    BY DEF IInv, TypeOK
<1>2. ASSUME NEW i \in Slots, refresh[i] # Idle
      PROVE  Sound(refresh[i], session, raised)
  <2>1. refresh[i] \in RefreshRecords
      BY <1>1, <1>2
  <2>2. RefreshOK(refresh[i])
      BY <1>2, <2>1 DEF IInv
  <2> QED
      BY <2>2 DEF RefreshOK, Sound
<1> QED
    BY <1>1, <1>2 DEF SlotsSound

LEMMA SlotsToIInv ==
    ASSUME SlotsSound(refresh, session, raised)
    PROVE  /\ refresh \in [Slots -> RefreshRecords \cup {Idle}]
           /\ \A i \in Slots : refresh[i] # Idle => session[refresh[i].token] # "unused"
           /\ \A i \in Slots, r \in RefreshRecords :
                 refresh[i] = r /\ r # Idle => RefreshOK(r)
    BY DEF SlotsSound, Sound, RefreshOK

\* What is sound stays so as the server's state grows.
LEMMA SoundStays ==
    ASSUME NEW f, NEW s, NEW n \in Nat, NEW s1, NEW n1 \in Nat, n <= n1,
           \A t \in Tokens : s[t] # "unused" => s1[t] # "unused",
           SlotsSound(f, s, n)
    PROVE  SlotsSound(f, s1, n1)
<1>1. ASSUME NEW i \in Slots, f[i] # Idle
      PROVE  Sound(f[i], s1, n1)
  <2> DEFINE r == f[i]
  <2>1. r \in RefreshRecords /\ Sound(r, s, n)
      BY <1>1 DEF SlotsSound
  <2>2. r.token \in Tokens /\ r.selected \in Nat /\ r.after.event \in Nat /\ r.answer \in Nat
      BY <2>1, DashboardAssumption DEF RefreshRecords, Event, Unanswered
  <2> HIDE DEF r
  <2>3. Sound(r, s1, n1)
      BY <2>1, <2>2 DEF Sound
  <2> QED
      BY <2>3 DEF r
<1> QED
    BY <1>1 DEF SlotsSound

\* A refresh that begins.
LEMMA BegunSound ==
    ASSUME NEW f, NEW s, NEW n, NEW r \in RefreshRecords,
           SlotsSound(f, s, n), Sound(r, s, n)
    PROVE  SlotsSound(Begun(f, r), s, n)
<1> DEFINE j == CHOOSE i \in Slots : f[i] = Idle
<1> HIDE DEF j
<1>1. SlotsSound([f EXCEPT ![j] = r], s, n)
    BY DEF SlotsSound
<1> QED
    BY <1>1 DEF Begun, j

\* A refresh that ends.
LEMMA FreedSound ==
    ASSUME NEW f, NEW s, NEW n, NEW j, SlotsSound(f, s, n)
    PROVE  SlotsSound([f EXCEPT ![j] = Idle], s, n)
    BY DEF SlotsSound

\* A refresh that nobody has answered is sound.
LEMMA RefreshingSound ==
    ASSUME NEW s, NEW n \in Event,
           NEW t \in Tokens, s[t] # "unused",
           NEW sel \in 0..n, NEW silent \in BOOLEAN,
           NEW after \in Afters, after.event <= n,
           after.do = "load" => after.event > 0
    PROVE  /\ Refreshing(t, sel, silent, after) \in RefreshRecords
           /\ Sound(Refreshing(t, sel, silent, after), s, n)
<1>1. sel \in Event /\ Unanswered \in 0..Unanswered
    BY DashboardAssumption DEF Event, Unanswered
<1>2. Refreshing(t, sel, silent, after) \in RefreshRecords
    BY <1>1 DEF Refreshing, RefreshRecords, Afters
<1>3. sel <= n
    BY DashboardAssumption DEF Event
<1>4. Sound(Refreshing(t, sel, silent, after), s, n)
    BY <1>3 DEF Refreshing, Sound
<1> QED
    BY <1>2, <1>4

LEMMA AfterNothing ==
    /\ Nothing \in Afters /\ Nothing.event = 0 /\ Nothing.do # "load"
    BY DashboardAssumption DEF Nothing, Afters, Event

----------------------------------------------------------------------------
\* The effects of a render

LEMMA OnTokenSound ==
    ASSUME NEW f, OnToken(f),
           raised' \in Event,
           SlotsSound(f, session', raised'),
           token' \in Tokens \cup {NoToken},
           token' # NoToken => session'[token'] # "unused",
           selected' \in 0..raised',
           closure \in Closures(raised'),
           closure.token # NoToken => session'[closure.token] # "unused"
    PROVE  /\ SlotsSound(refresh', session', raised')
           /\ closure' \in Closures(raised')
           /\ closure'.token # NoToken => session'[closure'.token] # "unused"
<1>1. SlotsSound(refresh', session', raised')
  <2>1. CASE token' # token /\ token' # NoToken
    <3> DEFINE r == Refreshing(token', selected', FALSE, Nothing)
    <3>1. r \in RefreshRecords /\ Sound(r, session', raised')
      <4> DEFINE none == FALSE
      <4>1. none \in BOOLEAN
          OBVIOUS
      <4>2. Nothing.event <= raised'
          BY AfterNothing, DashboardAssumption DEF Event
      <4>3. token' \in Tokens
          BY <2>1
      <4> HIDE DEF none
      <4>4. /\ Refreshing(token', selected', none, Nothing) \in RefreshRecords
            /\ Sound(Refreshing(token', selected', none, Nothing), session', raised')
          BY <2>1, <4>1, <4>2, <4>3, AfterNothing, RefreshingSound
      <4> QED
          BY <4>4 DEF none
    <3>2. refresh' = Begun(f, r)
        BY <2>1 DEF OnToken
    <3> HIDE DEF r
    <3> QED
        BY <3>1, <3>2, BegunSound
  <2>2. CASE ~(token' # token /\ token' # NoToken)
      BY <2>2 DEF OnToken
  <2> QED
      BY <2>1, <2>2
<1>2. /\ closure' \in Closures(raised')
      /\ closure'.token # NoToken => session'[closure'.token] # "unused"
  <2>1. CASE token' = token
      BY <2>1 DEF OnToken
  <2>2. CASE token' # token
    <3>1. closure' = [token |-> token', selected |-> selected']
        BY <2>2 DEF OnToken
    <3> QED
        BY <3>1 DEF Closures
  <2> QED
      BY <2>1, <2>2
<1> QED
    BY <1>1, <1>2

LEMMA OnSelectionTyped ==
    ASSUME NEW contents, NEW requests, OnSelection(contents, requests),
           raised' \in Nat, selected' \in 0..raised',
           contents \in [Panes -> 0..raised'],
           requests \subseteq Requests(raised')
    PROVE  /\ shown' \in [Panes -> 0..raised']
           /\ loads' \subseteq Requests(raised')
<1>1. [p \in Panes |-> 0] \in [Panes -> 0..raised']
    OBVIOUS
<1>2. shown' \in {contents, [p \in Panes |-> 0]}
    BY DEF OnSelection
<1>3. CASE loads' = requests
    BY <1>1, <1>2, <1>3
<1>4. CASE selected' # 0 /\ loads' = requests \cup {[pane |-> p, event |-> selected'] : p \in Panes}
  <2>1. selected' \in 1..raised'
      BY <1>4
  <2>2. {[pane |-> p, event |-> selected'] : p \in Panes} \subseteq Requests(raised')
      BY <2>1 DEF Requests
  <2> QED
      BY <1>1, <1>2, <1>4, <2>2
<1> QED
    BY <1>3, <1>4 DEF OnSelection

----------------------------------------------------------------------------
\* The invariant in parts

\* What of the state says how many events were raised or which tokens were
\* issued is still true of the server as it grows.
LEMMA StateStays ==
    ASSUME IInv, Grows
    PROVE  /\ SlotsSound(refresh, session', raised')
           /\ token \in Tokens \cup {NoToken}
           /\ token # NoToken => session'[token] # "unused"
           /\ user \in Users \cup {NoUser} /\ loading \in BOOLEAN /\ astray \in BOOLEAN
           /\ queue \in 0..raised' /\ selected \in 0..raised'
           /\ shown \in [Panes -> 0..raised']
           /\ closure \in Closures(raised')
           /\ closure.token # NoToken => session'[closure.token] # "unused"
           /\ handler # Idle => handler \in Handlers(raised')
           /\ HandlerOK
           /\ loads \subseteq Requests(raised')
           /\ QueueFollowsToken
<1>1. raised \in Nat /\ raised' \in Nat /\ raised <= raised'
    BY DashboardAssumption DEF IInv, TypeOK, Grows, Event
<1>2. 0..raised \subseteq 0..raised' /\ 1..raised \subseteq 1..raised'
    BY <1>1
<1>3. SlotsSound(refresh, session', raised')
    BY <1>1, SlotsOfIInv, SoundStays DEF Grows
<1>4. /\ token \in Tokens \cup {NoToken}
      /\ token # NoToken => session'[token] # "unused"
    BY DashboardAssumption DEF IInv, TypeOK, Grows
<1>5. shown \in [Panes -> 0..raised']
    BY <1>2 DEF IInv, TypeOK
<1>6. /\ closure \in Closures(raised')
      /\ closure.token # NoToken => session'[closure.token] # "unused"
    BY <1>2 DEF IInv, TypeOK, Closures, Grows
<1>7. handler # Idle => handler \in Handlers(raised')
    BY <1>2 DEF IInv, TypeOK, Handlers
<1>8. loads \subseteq Requests(raised')
    BY <1>2 DEF IInv, TypeOK, Requests
<1>9. queue \in 0..raised' /\ selected \in 0..raised'
    BY <1>2 DEF IInv, TypeOK
<1>10. user \in Users \cup {NoUser} /\ loading \in BOOLEAN /\ astray \in BOOLEAN
    BY DEF IInv, TypeOK
<1>11. HandlerOK /\ QueueFollowsToken
    BY DEF IInv, HandlerOK
<1> QED
    BY <1>3, <1>4, <1>5, <1>6, <1>7, <1>8, <1>9, <1>10, <1>11

\* The parts that make the invariant of the next state.
LEMMA PartsToIInv ==
    ASSUME Grows,
           SlotsSound(refresh', session', raised'),
           token' \in Tokens \cup {NoToken},
           token' # NoToken => session'[token'] # "unused",
           user' \in Users \cup {NoUser}, loading' \in BOOLEAN, astray' \in BOOLEAN,
           queue' \in 0..raised', selected' \in 0..raised',
           shown' \in [Panes -> 0..raised'],
           closure' \in Closures(raised'),
           closure'.token # NoToken => session'[closure'.token] # "unused",
           handler' # Idle => handler' \in Handlers(raised'),
           HandlerOK',
           loads' \subseteq Requests(raised'),
           QueueFollowsToken'
    PROVE  IInv'
<1>1. /\ refresh' \in [Slots -> RefreshRecords \cup {Idle}]
      /\ \A i \in Slots : refresh'[i] # Idle => session'[refresh'[i].token] # "unused"
      /\ \A i \in Slots, r \in RefreshRecords :
            refresh'[i] = r /\ r # Idle => RefreshOK(r)'
    BY DEF SlotsSound, Sound, RefreshOK
<1>2. TypeOK'
    BY <1>1 DEF TypeOK, Grows, States, Closures, Handlers, Requests
<1> QED
    BY <1>1, <1>2 DEF IInv, HandlerOK

\* A step that leaves the server alone.
LEMMA ServerStays ==
    ASSUME IInv, UNCHANGED server
    PROVE  Grows /\ raised' = raised /\ session' = session /\ raised' \in Nat
    BY DashboardAssumption DEF IInv, TypeOK, Grows, States, server, Event

----------------------------------------------------------------------------
\* The steps

\* A handler that starts, or gives up: nothing else moves but the flag.
LEMMA HandlerMoves ==
    ASSUME IInv, UNCHANGED server,
           UNCHANGED <<token, user, queue, astray, selected, shown, closure, refresh, loads>>,
           loading' \in BOOLEAN,
           handler' # Idle => handler' \in Handlers(raised),
           HandlerOK'
    PROVE  IInv'
<1>1. Grows /\ raised' = raised
    BY ServerStays
<1>2. QueueFollowsToken'
    BY <1>1, StateStays DEF QueueFollowsToken
<1> QED
    BY <1>1, <1>2, StateStays, PartsToIInv

LEMMA HandlerTyped ==
    ASSUME IInv, NEW kind \in {"login", "logout", "review", "submit", "lab"},
           NEW e \in 0..raised, NEW t \in Tokens,
           handler' = [kind |-> kind, event |-> e, token |-> t, selected |-> selected],
           token' = token,
           kind = "review" => e > 0,
           kind = "login" => token = NoToken
    PROVE  handler' \in Handlers(raised) /\ HandlerOK'
    BY DEF IInv, TypeOK, Handlers, HandlerOK

LEMMA UserStarts ==
    ASSUME IInv,
           \/ \E t \in Tokens : Login(t)
           \/ Logout \/ Review \/ Submit \/ Lab \/ HandlerFailed
    PROVE  IInv'
<1>1. /\ 0 \in 0..raised /\ loading \in BOOLEAN
      /\ token # NoToken => token \in Tokens
    BY DashboardAssumption DEF IInv, TypeOK, Event
<1>2. ASSUME NEW t \in Tokens, Login(t) PROVE IInv'
    BY <1>1, <1>2, HandlerTyped, HandlerMoves DEF Login, server
<1>3. CASE Logout
    BY <1>1, <1>3, HandlerTyped, HandlerMoves DEF Logout, Handle, server, screen
<1>4. CASE Review
  <2>1. Console \in 0..raised /\ Console > 0
      BY <1>4, DashboardAssumption DEF IInv, TypeOK, Event, Review, Console
  <2> QED
      BY <1>1, <1>4, <2>1, HandlerTyped, HandlerMoves DEF Review, Handle, server
<1>5. CASE Submit
    BY <1>1, <1>5, HandlerTyped, HandlerMoves DEF Submit, Handle, server
<1>6. CASE Lab
    BY <1>1, <1>6, HandlerTyped, HandlerMoves DEF Lab, Handle, server, screen
<1>7. CASE HandlerFailed
  <2>1. (handler.kind = "lab" /\ loading) \in BOOLEAN
      OBVIOUS
  <2>2. HandlerOK'
      BY <1>7 DEF HandlerFailed, HandlerOK
  <2> QED
      BY <1>7, <2>1, <2>2, HandlerMoves DEF HandlerFailed, server
<1> QED
    BY <1>2, <1>3, <1>4, <1>5, <1>6, <1>7

\* A step that changes the token or the selection, and the effects that
\* follow it.
LEMMA EffectsFollow ==
    ASSUME IInv, Grows, NEW f, NEW contents, NEW requests,
           OnToken(f), OnSelection(contents, requests),
           SlotsSound(f, session', raised'),
           contents \in [Panes -> 0..raised'],
           requests \subseteq Requests(raised'),
           token' \in Tokens \cup {NoToken},
           token' # NoToken => session'[token'] # "unused",
           user' \in Users \cup {NoUser}, loading' \in BOOLEAN, astray' \in BOOLEAN,
           queue' \in 0..raised', selected' \in 0..raised',
           handler' = Idle \/ (handler' = handler /\ token' \in {token, NoToken}),
           QueueFollowsToken'
    PROVE  IInv'
<1>1. raised' \in Event /\ raised' \in Nat
    BY DashboardAssumption DEF Grows, Event
<1>2. /\ closure \in Closures(raised')
      /\ closure.token # NoToken => session'[closure.token] # "unused"
      /\ handler # Idle => handler \in Handlers(raised')
      /\ HandlerOK
    BY StateStays
<1>3. /\ SlotsSound(refresh', session', raised')
      /\ closure' \in Closures(raised')
      /\ closure'.token # NoToken => session'[closure'.token] # "unused"
    BY <1>1, <1>2, OnTokenSound
<1>4. /\ shown' \in [Panes -> 0..raised']
      /\ loads' \subseteq Requests(raised')
    BY <1>1, OnSelectionTyped
<1>5. (handler' # Idle => handler' \in Handlers(raised')) /\ HandlerOK'
    BY <1>2 DEF HandlerOK
<1> QED
    BY <1>3, <1>4, <1>5, PartsToIInv

LEMMA SigningAndSelecting ==
    ASSUME IInv, LoginAnswered \/ LogoutAnswered \/ SelectEvent
    PROVE  IInv'
<1>1. /\ raised \in Event /\ raised \in Nat
      /\ session \in [Tokens -> States]
      /\ handler # Idle => handler.token \in Tokens
      /\ token # NoToken => token \in Tokens
    BY DashboardAssumption DEF IInv, TypeOK, States, Event
<1>2. CASE LoginAnswered
  <2>1. handler.token \in Tokens
      BY <1>1, <1>2 DEF LoginAnswered
  <2>2. Grows
      BY <1>1, <1>2, <2>1 DEF LoginAnswered, Grows, States
  <2>3. /\ token' \in Tokens \cup {NoToken}
        /\ token' # NoToken => session'[token'] # "unused"
    <3>1. CASE token' = handler.token /\ session' = [session EXCEPT ![handler.token] = "active"]
        BY <1>1, <2>1, <3>1
    <3>2. CASE token' = token
        BY <2>2, <3>2, StateStays
    <3> QED
        BY <1>2, <3>1, <3>2 DEF LoginAnswered
  <2>4. /\ loading' \in BOOLEAN /\ handler' = Idle
        /\ UNCHANGED <<user, queue, astray, selected>>
      BY <1>2 DEF LoginAnswered
  <2>5. OnToken(refresh) /\ OnSelection(shown, loads)
      BY <1>2 DEF LoginAnswered
  <2>6. QueueFollowsToken'
    <3>1. token = NoToken
        BY <1>2, <2>2, StateStays DEF LoginAnswered, HandlerOK
    <3> QED
        BY <2>2, <2>4, <3>1, StateStays DEF QueueFollowsToken
  <2> QED
      BY <2>2, <2>3, <2>4, <2>5, <2>6, StateStays, EffectsFollow
<1>3. CASE LogoutAnswered
  <2>1. handler.token \in Tokens
      BY <1>1, <1>3 DEF LogoutAnswered
  <2>2. Grows
      BY <1>1, <1>3, <2>1 DEF LogoutAnswered, Grows, States
  <2>3. /\ token' = NoToken /\ user' = NoUser /\ queue' = 0 /\ selected' = 0
        /\ handler' = Idle /\ raised' = raised /\ loading' = loading
        /\ astray' \in BOOLEAN
      BY <1>3 DEF LogoutAnswered
  <2>4. OnToken(refresh) /\ OnSelection([p \in Panes |-> 0], loads)
      BY <1>3 DEF LogoutAnswered
  <2>5. [p \in Panes |-> 0] \in [Panes -> 0..raised'] /\ 0 \in 0..raised' /\ ~(0 > 0)
      BY <1>1, <2>3
  <2> DEFINE empty == [p \in Panes |-> 0]
  <2>6. OnSelection(empty, loads) /\ empty \in [Panes -> 0..raised']
      BY <2>4, <2>5
  <2> HIDE DEF empty
  <2>7. QueueFollowsToken'
      BY <2>3, <2>5 DEF QueueFollowsToken
  <2> QED
      BY <2>2, <2>3, <2>4, <2>5, <2>6, <2>7, StateStays, EffectsFollow
<1>4. CASE SelectEvent
  <2>1. Grows /\ raised' = raised
      BY <1>4, ServerStays DEF SelectEvent, server
  <2>2. selected' \in 0..raised'
      BY <1>1, <1>4, <2>1 DEF SelectEvent, IInv, TypeOK
  <2>3. UNCHANGED <<token, user, loading, queue, astray, handler>>
      BY <1>4 DEF SelectEvent
  <2>4. OnToken(refresh) /\ OnSelection(shown, loads)
      BY <1>4 DEF SelectEvent
  <2>5. QueueFollowsToken'
      BY <2>1, <2>3, StateStays DEF QueueFollowsToken
  <2> QED
      BY <2>1, <2>2, <2>3, <2>4, <2>5, StateStays, EffectsFollow
<1> QED
    BY <1>2, <1>3, <1>4

\* A step that begins a refresh, or answers one.
LEMMA RefreshMoves ==
    ASSUME IInv, Grows, SlotsSound(refresh', session', raised'),
           UNCHANGED <<token, user, queue, astray, selected, shown, closure, loads>>,
           loading' \in BOOLEAN,
           handler' = handler \/ handler' = Idle
    PROVE  IInv'
<1>1. (handler' # Idle => handler' \in Handlers(raised')) /\ HandlerOK'
    BY StateStays DEF HandlerOK
<1>2. QueueFollowsToken'
    BY StateStays DEF QueueFollowsToken
<1> QED
    BY <1>1, <1>2, StateStays, PartsToIInv

LEMMA RefreshBegins ==
    ASSUME IInv, HandlerAnswered \/ Reload \/ Poll
    PROVE  IInv'
<1> DEFINE yes == TRUE
           no == FALSE
<1>1. /\ yes \in BOOLEAN /\ no \in BOOLEAN /\ raised \in Nat /\ MaxEvents \in Nat
    BY DashboardAssumption DEF IInv, TypeOK, Event
<1>2. CASE HandlerAnswered
  <2> DEFINE r == Refreshing(handler.token, handler.selected, no, After(handler))
  <2>1. /\ handler # Idle /\ handler.kind \in {"review", "submit", "lab"}
        /\ session[handler.token] = "active" /\ handler' = Idle
        /\ loading' \in BOOLEAN
        /\ UNCHANGED <<session, token, user, queue, astray, selected, shown, closure, loads>>
      BY <1>2 DEF HandlerAnswered
  <2>2. Grows
    <3>1. raised' \in Event /\ raised <= raised'
      <4>1. raised' = raised \/ (raised < MaxEvents /\ raised' = raised + 1)
          BY <1>2 DEF HandlerAnswered
      <4>2. raised \in 0..MaxEvents
          BY DEF IInv, TypeOK, Event
      <4> QED
          BY <1>1, <4>1, <4>2 DEF Event
    <3> QED
        BY <2>1, <3>1 DEF Grows, IInv, TypeOK, States
  <2>3. raised' \in Event /\ raised' \in Nat
      BY <2>2, DashboardAssumption DEF Grows, Event
  <2>4. /\ handler.token \in Tokens /\ handler.selected \in 0..raised'
        /\ handler.event \in 0..raised'
        /\ handler.kind = "review" => handler.event > 0
      BY <2>1, <2>2, StateStays DEF Handlers, HandlerOK
  <2>5. /\ After(handler) \in Afters /\ After(handler).event <= raised'
        /\ After(handler).do = "load" => After(handler).event > 0
    <3>1. 0..raised' \subseteq Event
        BY <1>1, <2>3 DEF Event
    <3>2. CASE handler.kind = "review"
      <4>1. After(handler) = LoadDetail(handler.event)
          BY <3>2 DEF After
      <4>2. handler.event \in Event /\ handler.event <= raised' /\ handler.event > 0
          BY <2>3, <2>4, <3>1, <3>2
      <4> QED
          BY <4>1, <4>2 DEF LoadDetail, Afters
    <3>3. CASE handler.kind = "lab"
      <4>1. After(handler) = Select(raised')
          BY <3>3 DEF After
      <4>2. raised' <= raised'
          BY <2>3
      <4> QED
          BY <2>3, <4>1, <4>2 DEF Select, Afters
    <3>4. CASE handler.kind = "submit"
      <4>1. After(handler) = Nothing
          BY <3>4 DEF After
      <4>2. Nothing.event <= raised'
          BY <2>3, AfterNothing
      <4> QED
          BY <4>1, <4>2, AfterNothing
    <3> QED
        BY <2>1, <3>2, <3>3, <3>4
  <2>6. session'[handler.token] # "unused"
      BY <2>1
  <2> HIDE DEF no
  <2>7. r \in RefreshRecords /\ Sound(r, session', raised')
      BY <1>1, <2>3, <2>4, <2>5, <2>6, RefreshingSound
  <2>8. refresh' = Begun(refresh, r)
      BY <1>2 DEF HandlerAnswered, no
  <2> HIDE DEF r
  <2>9. SlotsSound(refresh', session', raised')
      BY <2>2, <2>7, <2>8, StateStays, BegunSound
  <2> QED
      BY <2>1, <2>2, <2>9, RefreshMoves
<1>3. ASSUME NEW t \in Tokens, session[t] # "unused",
             NEW sel \in 0..raised, NEW silent \in BOOLEAN,
             UNCHANGED <<server, token, user, queue, astray, selected, shown, closure, loads,
                         handler>>,
             loading' \in BOOLEAN,
             refresh' = Begun(refresh, Refreshing(t, sel, silent, Nothing))
      PROVE  IInv'
  <2> DEFINE r == Refreshing(t, sel, silent, Nothing)
  <2>1. Grows /\ raised' = raised /\ session' = session
      BY <1>3, ServerStays
  <2>2. raised \in Event /\ Nothing.event <= raised
      BY <1>1, AfterNothing DEF IInv, TypeOK
  <2>3. r \in RefreshRecords /\ Sound(r, session, raised)
      BY <1>3, <2>2, AfterNothing, RefreshingSound
  <2> HIDE DEF r
  <2>4. SlotsSound(refresh', session', raised')
      BY <1>3, <2>1, <2>3, SlotsOfIInv, BegunSound DEF r
  <2> QED
      BY <1>3, <2>1, <2>4, RefreshMoves
<1>4. CASE Reload
  <2>1. PICK sel \in {closure.selected, selected} :
            refresh' = Begun(refresh, Refreshing(token, sel, no, Nothing))
      BY <1>4 DEF Reload
  <2>2. sel \in 0..raised /\ token \in Tokens /\ session[token] # "unused"
      BY <1>4 DEF Reload, IInv, TypeOK
  <2>3. /\ UNCHANGED <<server, token, user, queue, astray, selected, shown, closure, loads,
                         handler>>
        /\ loading' \in BOOLEAN
      BY <1>4 DEF Reload, server
  <2> HIDE DEF no
  <2> QED
      BY <1>1, <1>3, <2>1, <2>2, <2>3
<1>5. CASE Poll
  <2>1. /\ refresh' = Begun(refresh, Refreshing(closure.token, closure.selected, yes, Nothing))
        /\ UNCHANGED <<server, token, user, queue, astray, selected, shown, closure, loads,
                         handler>>
        /\ loading' = loading
      BY <1>5 DEF Poll, server, screen
  <2>2. /\ closure.selected \in 0..raised /\ closure.token \in Tokens
        /\ session[closure.token] # "unused" /\ loading \in BOOLEAN
      BY <1>5 DEF Poll, IInv, TypeOK
  <2> HIDE DEF yes
  <2> QED
      BY <1>1, <1>3, <2>1, <2>2
<1> QED
    BY <1>2, <1>4, <1>5

\* The answer of a refresh: of an administrator's token, every event.
LEMMA ReadStep ==
    ASSUME IInv, NEW i \in Slots, Read(i)
    PROVE  IInv'
<1>1. Grows /\ raised' = raised /\ session' = session /\ raised \in Nat
    BY ServerStays DEF Read
<1>2. refresh[i] # Idle /\ refresh[i] \in RefreshRecords /\ Sound(refresh[i], session, raised)
    BY SlotsOfIInv DEF Read, Asks, SlotsSound
<1> DEFINE listed == Owner[refresh[i].token] \in Admins
           n == IF listed THEN raised ELSE 0
<1>3. /\ refresh' = [refresh EXCEPT ![i].answer = n]
      /\ n \in {raised, 0}
      /\ n > 0 => Owner[refresh[i].token] \in Admins
  <2>1. refresh' = [refresh EXCEPT ![i].answer = n]
      BY DEF Read
  <2>2. n \in {raised, 0} /\ (n > 0 => listed)
      OBVIOUS
  <2> QED
      BY <2>1, <2>2
<1> HIDE DEF n
<1> DEFINE r == refresh[i]
           a == [r EXCEPT !.answer = n]
<1>4. n \in 0..Unanswered /\ n <= raised
    BY <1>1, <1>3, DashboardAssumption DEF IInv, TypeOK, Event, Unanswered
<1>5. r \in RefreshRecords /\ Sound(r, session, raised)
    BY <1>2
<1>6. refresh' = [refresh EXCEPT ![i] = a]
    BY <1>3
<1>7. n > 0 => Owner[r.token] \in Admins
    BY <1>3
<1> HIDE DEF r
<1>8. /\ a \in RefreshRecords /\ a.answer = n /\ a.token = r.token
      /\ a.selected = r.selected /\ a.after = r.after
    BY <1>4, <1>5 DEF RefreshRecords
<1> HIDE DEF a
<1>9. Sound(a, session, raised)
    BY <1>4, <1>5, <1>7, <1>8 DEF Sound
<1>10. SlotsSound(refresh', session', raised')
    BY <1>1, <1>6, <1>8, <1>9, SlotsOfIInv DEF SlotsSound
<1>11. UNCHANGED <<token, user, queue, astray, selected, shown, closure, loads, handler,
                    loading>>
    BY DEF Read, screen
<1>12. loading' \in BOOLEAN
    BY <1>11 DEF IInv, TypeOK
<1> QED
    BY <1>1, <1>10, <1>11, <1>12, RefreshMoves

\* A refresh ends and its handler goes on, whatever it has shown.
LEMMA RefreshEnds ==
    ASSUME IInv, NEW i \in Slots, refresh[i] # Idle,
           UNCHANGED server, UNCHANGED handler,
           NEW sel \in 0..raised, Ends(i, sel),
           token' = token \/ token' = NoToken,
           user' \in Users \cup {NoUser},
           queue' \in 0..raised, astray' \in BOOLEAN,
           QueueFollowsToken'
    PROVE  IInv'
<1> DEFINE r == refresh[i]
           freed == [refresh EXCEPT ![i] = Idle]
           requests == IF r.after.do = "load"
                       THEN loads \cup {[pane |-> p, event |-> r.after.event]
                                         : p \in Panes \cap {"detail"}}
                       ELSE loads
<1>1. Grows /\ raised' = raised /\ session' = session /\ raised \in Nat
    BY ServerStays
<1>2. r \in RefreshRecords /\ Sound(r, session, raised)
    BY SlotsOfIInv DEF SlotsSound
<1>3. /\ loading' = LoadingAfter(r)
      /\ selected' = IF r.after.do = "select" THEN r.after.event ELSE sel
      /\ OnToken(freed) /\ OnSelection(shown, requests)
    BY DEF Ends
<1>4. SlotsSound(freed, session', raised')
    BY <1>1, SlotsOfIInv, FreedSound
<1> HIDE DEF r, freed
<1>5. /\ r.after.event \in 0..raised
      /\ r.after.do = "load" => r.after.event \in 1..raised
    BY <1>1, <1>2, DashboardAssumption DEF RefreshRecords, Event, Sound
<1>6. requests \subseteq Requests(raised)
  <2>1. loads \subseteq Requests(raised)
      BY <1>1, StateStays
  <2>2. CASE r.after.do = "load"
    <3>1. {[pane |-> p, event |-> r.after.event] : p \in Panes \cap {"detail"}}
              \subseteq Requests(raised)
        BY <1>5, <2>2 DEF Requests
    <3> QED
        BY <2>1, <2>2, <3>1
  <2>3. CASE r.after.do # "load"
      BY <2>1, <2>3
  <2> QED
      BY <2>2, <2>3
<1> HIDE DEF requests
<1>7. selected' \in 0..raised'
    BY <1>1, <1>3, <1>5
<1>8. loading' \in BOOLEAN /\ handler' = handler /\ token' \in {token, NoToken}
    BY <1>3 DEF LoadingAfter
<1>9. /\ token' \in Tokens \cup {NoToken}
      /\ token' # NoToken => session'[token'] # "unused"
      /\ shown \in [Panes -> 0..raised']
    BY <1>1, StateStays
<1>10. OnToken(freed) /\ OnSelection(shown, requests) /\ requests \subseteq Requests(raised')
       /\ queue' \in 0..raised'
    BY <1>1, <1>3, <1>6
<1> QED
    BY <1>1, <1>4, <1>7, <1>8, <1>9, <1>10, EffectsFollow

\* An answer that lists events is an administrator's: where it was made to
\* the token held, its holder is one.
LEMMA ApplyStep ==
    ASSUME IInv, NEW i \in Slots, Apply(i)
    PROVE  IInv'
<1> DEFINE r == refresh[i]
           sel == IF Owner[r.token] \in Admins THEN Kept(r) ELSE selected
<1>1. /\ r # Idle /\ r.answer # Unanswered
      /\ user' = Owner[r.token] /\ queue' = r.answer
      /\ astray' = (r.token # token)
      /\ UNCHANGED <<server, token, handler>>
      /\ Ends(i, sel)
    BY DEF Apply
<1>2. r \in RefreshRecords /\ Sound(r, session, raised)
    BY <1>1, SlotsOfIInv DEF SlotsSound
<1>3. raised \in Nat /\ selected \in 0..raised
    BY ServerStays, <1>1, DashboardAssumption DEF IInv, TypeOK, Event
<1>4. refresh[i] # Idle
    BY <1>1
<1> HIDE DEF r
<1>5. /\ r.answer \in 0..raised
      /\ r.answer > 0 => Owner[r.token] \in Admins
      /\ Owner[r.token] \in Users /\ r.token # NoToken
    BY <1>1, <1>2, <1>3, DashboardAssumption DEF RefreshRecords, Unanswered, Sound
<1>6. sel \in 0..raised
    BY <1>3, <1>5 DEF Kept
<1> HIDE DEF sel
<1>7. /\ user' \in Users \cup {NoUser} /\ queue' \in 0..raised /\ astray' \in BOOLEAN
      /\ UNCHANGED server /\ UNCHANGED handler /\ token' = token
    BY <1>1, <1>5
<1>8. QueueFollowsToken'
    BY <1>1, <1>5, <1>7 DEF QueueFollowsToken
<1> QED
    BY <1>1, <1>4, <1>6, <1>7, <1>8, RefreshEnds

LEMMA RejectOrFail ==
    ASSUME IInv, NEW i \in Slots, Reject(i) \/ Fail(i)
    PROVE  IInv'
<1>1. /\ refresh[i] # Idle /\ Ends(i, selected)
      /\ UNCHANGED server /\ UNCHANGED handler /\ UNCHANGED <<user, queue>>
      /\ token' = token \/ token' = NoToken
    BY DEF Reject, Fail, Asks
<1>2. /\ selected \in 0..raised /\ user' \in Users \cup {NoUser}
      /\ queue' \in 0..raised
    BY <1>1 DEF IInv, TypeOK
<1>3. /\ astray' \in BOOLEAN
      /\ ~astray' => ~astray /\ token' = token
    BY DEF Reject, Fail, IInv, TypeOK
<1>4. QueueFollowsToken'
    BY <1>1, <1>3 DEF IInv, QueueFollowsToken
<1> QED
    BY <1>1, <1>2, <1>3, <1>4, RefreshEnds

LEMMA LoadStep ==
    ASSUME IInv, LoadAnswered
    PROVE  IInv'
<1>1. PICK l \in loads :
          /\ loads' = loads \ {l}
          /\ shown' \in {shown, [shown EXCEPT ![l.pane] = l.event]}
          /\ UNCHANGED <<server, token, user, loading, queue, astray, selected,
                         closure, handler, refresh>>
    BY DEF LoadAnswered
<1>2. Grows /\ raised' = raised /\ raised \in Nat
    BY <1>1, ServerStays
<1>3. l.event \in 0..raised
    BY <1>2 DEF IInv, TypeOK
<1>4. shown' \in [Panes -> 0..raised] /\ loads' \subseteq Requests(raised)
    BY <1>1, <1>3 DEF IInv, TypeOK, Requests
<1>5. QueueFollowsToken' /\ HandlerOK'
    BY <1>1, <1>2, StateStays DEF QueueFollowsToken, HandlerOK
<1> QED
    BY <1>1, <1>2, <1>4, <1>5, StateStays, PartsToIInv

\* The server moves by itself, or nothing does.
LEMMA ServerMoves ==
    ASSUME IInv, Raise \/ (\E t \in Tokens : EndSession(t)) \/ UNCHANGED vars
    PROVE  IInv'
<1>1. raised \in 0..MaxEvents /\ MaxEvents \in Nat /\ session \in [Tokens -> States]
    BY DashboardAssumption DEF IInv, TypeOK, Event, States
<1>2. Grows
  <2>1. CASE Raise
      BY <1>1, <2>1 DEF Raise, Grows, Event
  <2>2. ASSUME NEW t \in Tokens, EndSession(t) PROVE Grows
      BY <1>1, <2>2 DEF EndSession, Grows, Event, States
  <2>3. CASE UNCHANGED vars
      BY <1>1, <2>3 DEF vars, server, Grows, Event
  <2> QED
      BY <2>1, <2>2, <2>3
<1>3. UNCHANGED <<screen, handler, refresh, loads>>
    BY DEF Raise, EndSession, vars
<1>4. QueueFollowsToken' /\ HandlerOK'
    BY <1>2, <1>3, StateStays DEF QueueFollowsToken, HandlerOK, screen
<1> QED
    BY <1>2, <1>3, <1>4, StateStays, PartsToIInv DEF screen

----------------------------------------------------------------------------
LEMMA InitIInv ==
    ASSUME Init
    PROVE  IInv
<1> DEFINE idle == [j \in Slots |-> Idle]
           no == FALSE
<1>1. /\ raised \in Event /\ raised \in Nat /\ 0 \in 0..raised /\ ~(0 > 0)
      /\ session \in [Tokens -> States]
      /\ token \in Tokens \cup {NoToken} /\ NoToken \notin Tokens
      /\ token # NoToken => session[token] # "unused"
    BY DashboardAssumption DEF Init, Event, States
<1>2. SlotsSound(idle, session, raised)
    BY DEF SlotsSound
<1>3. SlotsSound(refresh, session, raised)
  <2>1. CASE token = NoToken
      BY <1>2, <2>1 DEF Init
  <2>2. CASE token # NoToken
    <3> DEFINE r == Refreshing(token, 0, no, Nothing)
    <3>1. no \in BOOLEAN /\ Nothing.event <= raised
        BY <1>1, AfterNothing
    <3>2. refresh = Begun(idle, r)
        BY <2>2 DEF Init
    <3> HIDE DEF no, idle
    <3>3. r \in RefreshRecords /\ Sound(r, session, raised)
        BY <1>1, <2>2, <3>1, AfterNothing, RefreshingSound
    <3> HIDE DEF r
    <3> QED
        BY <1>2, <3>2, <3>3, BegunSound
  <2> QED
      BY <2>1, <2>2
<1>4. /\ user = NoUser /\ queue = 0 /\ astray = FALSE /\ selected = 0 /\ handler = Idle /\ loads = {}
      /\ shown = [p \in Panes |-> 0] /\ loading = (token # NoToken)
      /\ closure = [token |-> token, selected |-> 0]
    BY DEF Init
<1>5. loading \in BOOLEAN
    BY <1>4
<1>6. TypeOK
    BY <1>1, <1>3, <1>4, <1>5, SlotsToIInv DEF TypeOK, States
<1> QED
    BY <1>1, <1>3, <1>4, <1>6, SlotsToIInv DEF IInv, QueueFollowsToken

LEMMA StepIInv ==
    ASSUME IInv, [Next]_vars
    PROVE  IInv'
    BY UserStarts, SigningAndSelecting, RefreshBegins, ReadStep, ApplyStep,
       RejectOrFail, LoadStep, ServerMoves
       DEF Next, UserActs, HandlerEnds

\* The inductive invariant: whatever is under way speaks of events that were
\* raised, by tokens that were issued, and lists events for administrators.
THEOREM Invariance == Spec => []IInv
<1>1. Init => IInv
    BY InitIInv
<1>2. IInv /\ [Next]_vars => IInv'
    BY StepIInv
<1> QED
    BY <1>1, <1>2, PTL DEF Spec

\* Type correctness: no pane, selection or request names an event that was
\* not raised, and no request goes by a token that was not issued.
THEOREM TypeCorrect == Spec => []TypeOK
<1>1. IInv => TypeOK
    BY DEF IInv
<1> QED
    BY <1>1, Invariance, PTL

\* However answers overtake sign-ins and sign-outs, the queue is with a token
\* that is not an administrator's only where an answer to another token or an
\* expired token has left it there.
THEOREM QueueIsPrivate == Spec => []QueueFollowsToken
<1>1. IInv => QueueFollowsToken
    BY DEF IInv
<1> QED
    BY <1>1, Invariance, PTL
=============================================================================
