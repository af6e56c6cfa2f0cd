------------------------------ MODULE Dashboard ------------------------------
(***************************************************************************)
(* One tab of the web client (frontend/src/App.jsx) and what the server    *)
(* answers it: who is signed in, the queue of risk events, the selected    *)
(* event, the panes that show it, and the requests under way.  A refresh   *)
(* is a run of refreshDashboard, a handler an onClick that awaits a POST   *)
(* before it refreshes; both keep the state of the render that created     *)
(* them.  A batch of setters, the render and its effects are one step.     *)
(*                                                                         *)
(* Risk events are numbered in the order they were raised; the queue lists *)
(* the newest first and every one, so its length says what it shows, and 0 *)
(* stands for no event.  Left out: lists that are set and cleared together *)
(* with the queue, the order form, the charts, error messages.             *)
(***************************************************************************)
EXTENDS Naturals, FiniteSets

CONSTANTS
    Users, Admins,
    Tokens,         \* bound: sign-ins
    Owner,          \* the user each token is issued to
    NoToken, NoUser,
    Buttons,        \* bound: the handlers the user starts, but for signing in and out
    Panes,          \* what loads the selected event: detail, timeline
    Slots,          \* bound: refreshes under way at the same time
    MaxEvents,      \* bound: risk events
    Idle            \* a slot, or the user, with nothing under way

ASSUME DashboardAssumption ==
    /\ Admins \subseteq Users /\ NoUser \notin Users
    /\ Owner \in [Tokens -> Users] /\ NoToken \notin Tokens
    /\ Buttons \subseteq {"review", "submit", "lab"}
    /\ Panes \subseteq {"detail", "timeline"}
    /\ MaxEvents \in Nat

VARIABLES
    session,    \* server: what became of the session of each token
    raised,     \* server: number of risk events
    token, user, loading,
    queue,      \* riskEvents
    astray,     \* history: what the screen shows was answered to a token other
                \* than the one held, or left on it by a token that expired
    selected,   \* selectedRiskEventId
    shown,      \* selectedRiskDetail, selectedIncidentTimeline
    closure,    \* state the effects of the last change of token closed over
    handler,    \* the handler that awaits its POST
    refresh,    \* the refresh in each slot
    loads       \* requests of the panes

server == <<session, raised>>
screen == <<token, user, loading, queue, astray, selected, shown, closure>>
vars == <<server, screen, handler, refresh, loads>>

Event == 0..MaxEvents

\* What a handler does once its refresh has ended.
Nothing == [do |-> "nothing", event |-> 0]
LoadDetail(e) == [do |-> "load", event |-> e]
Select(e) == [do |-> "select", event |-> e]

\* The server has not answered yet.
Unanswered == MaxEvents + 1

Refreshing(t, sel, silent, after) ==
    [token |-> t, selected |-> sel, silent |-> silent, after |-> after,
     answer |-> Unanswered]

IsAdmin == user \in Admins

\* selectedRiskSummary, the event the buttons of the response console act on.
Console == IF selected \in 1..queue THEN selected ELSE queue

HasRoom == \E i \in Slots : refresh[i] = Idle

\* A refresh takes a free slot.
Begun(slots, r) == [slots EXCEPT ![CHOOSE i \in Slots : slots[i] = Idle] = r]

----------------------------------------------------------------------------
\* The effects of a render

\* A mutant: the interval is set up once.
EffectsOnToken(slots) ==
    /\ closure' = closure
    /\ refresh' = IF token' # token /\ token' # NoToken
                  THEN Begun(slots, Refreshing(token', selected', FALSE, Nothing))
                  ELSE slots

\* On a change of token: refresh, and set the interval and F5 up anew.
OnToken(slots) ==
    /\ closure' = IF token' = token THEN closure
                  ELSE [token |-> token', selected |-> selected']
    /\ refresh' = IF token' # token /\ token' # NoToken
                  THEN Begun(slots, Refreshing(token', selected', FALSE, Nothing))
                  ELSE slots

\* On a change of the role, the token or the selected event: load the panes
\* of an administrator, or clear them.
OnSelection(contents, requests) ==
    LET watched == <<IsAdmin, token, selected>>
        shows == IsAdmin' /\ token' # NoToken /\ selected' # 0
        changed == watched' # watched
    IN  /\ shown' = IF changed /\ ~shows THEN [p \in Panes |-> 0] ELSE contents
        /\ loads' = IF changed /\ shows
                    THEN requests \cup {[pane |-> p, event |-> selected'] : p \in Panes}
                    ELSE requests

----------------------------------------------------------------------------
\* A tab is opened; localStorage may hold a token, whatever became of it.
Init ==
    /\ raised \in Event
    /\ token \in Tokens \cup {NoToken}
    /\ session \in {s \in [Tokens -> {"unused", "active", "revoked", "expired"}] :
                       \A t \in Tokens : s[t] = "unused" <=> t # token}
    /\ user = NoUser /\ queue = 0 /\ astray = FALSE /\ selected = 0
    /\ shown = [p \in Panes |-> 0]
    /\ loading = (token # NoToken)
    /\ closure = [token |-> token, selected |-> 0]
    /\ handler = Idle
    /\ LET idle == [i \in Slots |-> Idle] IN
       refresh = IF token = NoToken THEN idle
                 ELSE Begun(idle, Refreshing(token, 0, FALSE, Nothing))
    /\ loads = {}

----------------------------------------------------------------------------
\* What the user does, one handler at a time

Handle(kind, e) ==
    /\ handler = Idle
    /\ handler' = [kind |-> kind, event |-> e, token |-> token, selected |-> selected]

\* handleLogin; the server issues a token that is new.
Login(t) ==
    /\ token = NoToken /\ session[t] = "unused"
    /\ handler = Idle
    /\ handler' = [kind |-> "login", event |-> 0, token |-> t, selected |-> selected]
    /\ loading' = TRUE
    /\ UNCHANGED <<server, token, user, queue, astray, selected, shown, closure, refresh,
                   loads>>

LoginAnswered ==
    /\ handler # Idle /\ handler.kind = "login" /\ HasRoom
    /\ handler' = Idle
    /\ \/ /\ token' = handler.token /\ loading' = TRUE
          /\ session' = [session EXCEPT ![handler.token] = "active"]
       \/ /\ token' = token /\ loading' = FALSE
          /\ session' = session
    /\ UNCHANGED <<raised, user, queue, astray, selected>>
    /\ OnToken(refresh) /\ OnSelection(shown, loads)

Logout ==
    /\ token # NoToken
    /\ Handle("logout", 0)
    /\ UNCHANGED <<server, screen, refresh, loads>>

\* handleLogout: whatever the server answers, the screen is cleared, and the
\* requests under way go on.
LogoutAnswered ==
    /\ handler # Idle /\ handler.kind = "logout"
    /\ handler' = Idle
    /\ \/ session' = session
       \/ /\ session[handler.token] = "active"
          /\ session' = [session EXCEPT ![handler.token] = "revoked"]
    /\ token' = NoToken /\ user' = NoUser /\ queue' = 0 /\ selected' = 0
    /\ astray' = FALSE
    /\ UNCHANGED <<raised, loading>>
    /\ OnToken(refresh) /\ OnSelection([p \in Panes |-> 0], loads)

\* A mutant: the buttons of the response console work without an event.
ReviewOfNothing ==
    /\ token # NoToken /\ IsAdmin
    /\ "review" \in Buttons /\ Handle("review", Console)
    /\ loading' = TRUE
    /\ UNCHANGED <<server, token, user, queue, astray, selected, shown, closure, refresh,
                   loads>>

\* A button of the response console.
Review ==
    /\ token # NoToken /\ IsAdmin /\ queue > 0
    /\ "review" \in Buttons /\ Handle("review", Console)
    /\ loading' = TRUE
    /\ UNCHANGED <<server, token, user, queue, astray, selected, shown, closure, refresh,
                   loads>>

\* handleSubmitOrder, handleDeviceAction, handleSessionRevoke.
Submit ==
    /\ token # NoToken
    /\ "submit" \in Buttons /\ Handle("submit", 0)
    /\ loading' = TRUE
    /\ UNCHANGED <<server, token, user, queue, astray, selected, shown, closure, refresh,
                   loads>>

\* handleExecuteLabScenario has a flag of its own.
Lab ==
    /\ token # NoToken /\ IsAdmin
    /\ "lab" \in Buttons /\ Handle("lab", 0)
    /\ UNCHANGED <<server, screen, refresh, loads>>

After(h) ==
    CASE h.kind = "review" -> LoadDetail(h.event)
      [] h.kind = "lab" -> Select(raised')
      [] h.kind = "submit" -> Nothing

\* The POST succeeds and the handler refreshes with the state it closed over;
\* a lab scenario raises an event.
HandlerAnswered ==
    /\ handler # Idle /\ handler.kind \in {"review", "submit", "lab"}
    /\ session[handler.token] = "active" /\ HasRoom
    /\ handler.kind = "lab" => raised < MaxEvents
    /\ raised' = IF handler.kind = "lab" THEN raised + 1 ELSE raised
    /\ refresh' = Begun(refresh, Refreshing(handler.token, handler.selected, FALSE,
                                            After(handler)))
    /\ handler' = Idle
    /\ loading' = TRUE
    /\ UNCHANGED <<session, token, user, queue, astray, selected, shown, closure, loads>>

HandlerFailed ==
    /\ handler # Idle /\ handler.kind \in {"review", "submit", "lab"}
    /\ handler' = Idle
    /\ loading' = (handler.kind = "lab" /\ loading)
    /\ UNCHANGED <<server, token, user, queue, astray, selected, shown, closure, refresh,
                   loads>>

\* A row of the queue.
SelectEvent ==
    /\ token # NoToken /\ IsAdmin
    /\ \E e \in 1..queue : selected' = e
    /\ UNCHANGED <<server, token, user, loading, queue, astray, handler>>
    /\ OnToken(refresh) /\ OnSelection(shown, loads)

\* F5 has closed over what the interval has, the button over what it shows.
Reload ==
    /\ token # NoToken /\ HasRoom
    /\ \E sel \in {closure.selected, selected} :
        refresh' = Begun(refresh, Refreshing(token, sel, FALSE, Nothing))
    /\ loading' = TRUE
    /\ UNCHANGED <<server, token, user, queue, astray, selected, shown, closure, handler,
                   loads>>

----------------------------------------------------------------------------
\* Refreshes

\* The interval fires.
Poll ==
    /\ closure.token # NoToken /\ HasRoom
    /\ refresh' = Begun(refresh, Refreshing(closure.token, closure.selected, TRUE, Nothing))
    /\ UNCHANGED <<server, screen, handler, loads>>

Asks(i) == refresh[i] # Idle /\ refresh[i].answer = Unanswered

\* The server reads what refresh i asks for, its GETs taken as one; only for
\* an administrator does it ask for the queue.
Read(i) ==
    /\ Asks(i) /\ session[refresh[i].token] = "active"
    /\ refresh' = [refresh EXCEPT ![i].answer =
                        IF Owner[refresh[i].token] \in Admins THEN raised ELSE 0]
    /\ UNCHANGED <<server, screen, handler, loads>>

\* The selection the refresh knew, if the event is still listed, or the newest.
Kept(r) == IF r.selected \in 1..r.answer THEN r.selected ELSE r.answer

\* A mutant: the flag is left to the next refresh.
LoadingLeft(r) == loading

LoadingAfter(r) == loading /\ r.silent

\* A refresh ends and its handler goes on.
Ends(i, sel) ==
    LET r == refresh[i] IN
    /\ loading' = LoadingAfter(r)
    /\ selected' = IF r.after.do = "select" THEN r.after.event ELSE sel
    /\ OnToken([refresh EXCEPT ![i] = Idle])
    /\ OnSelection(shown, IF r.after.do = "load"
                          THEN loads \cup {[pane |-> p, event |-> r.after.event]
                                            : p \in Panes \cap {"detail"}}
                          ELSE loads)

\* A mutant: the queue is set for administrators only.
ApplyToAdmins(i) ==
    LET r == refresh[i]
        listed == Owner[r.token] \in Admins
    IN  /\ r # Idle /\ r.answer # Unanswered
        /\ user' = Owner[r.token]
        /\ queue' = IF listed THEN r.answer ELSE queue
        /\ astray' = (r.token # token)
        /\ UNCHANGED <<server, token, handler>>
        /\ Ends(i, IF listed THEN Kept(r) ELSE selected)

\* The answers of refresh i are shown, whoever has signed in or out since.
Apply(i) ==
    LET r == refresh[i]
        listed == Owner[r.token] \in Admins
    IN  /\ r # Idle /\ r.answer # Unanswered
        /\ user' = Owner[r.token]
        /\ queue' = r.answer
        /\ astray' = (r.token # token)
        /\ UNCHANGED <<server, token, handler>>
        /\ Ends(i, IF listed THEN Kept(r) ELSE selected)

\* The session is over.  Of an expired token the server says "Invalid token",
\* which takes whatever token is held and leaves the rest of the screen; of a
\* revoked one "Session is not active".
Reject(i) ==
    /\ Asks(i) /\ session[refresh[i].token] \in {"revoked", "expired"}
    /\ token' = IF session[refresh[i].token] = "expired" THEN NoToken ELSE token
    /\ astray' = (astray \/ token' # token)
    /\ UNCHANGED <<server, user, queue, handler>>
    /\ Ends(i, selected)

\* The network or the server fails; a session found expired in the second
\* before its token is answers like that too.
Fail(i) ==
    /\ Asks(i)
    /\ UNCHANGED <<server, token, user, queue, astray, handler>>
    /\ Ends(i, selected)

\* A pane's request is answered, or fails.
LoadAnswered ==
    \E l \in loads :
        /\ loads' = loads \ {l}
        /\ shown' \in {shown, [shown EXCEPT ![l.pane] = l.event]}
        /\ UNCHANGED <<server, token, user, loading, queue, astray, selected,
                       closure, handler, refresh>>

----------------------------------------------------------------------------
\* What goes on at the server

Raise ==
    /\ raised < MaxEvents
    /\ raised' = raised + 1
    /\ UNCHANGED <<session, screen, handler, refresh, loads>>

EndSession(t) ==
    /\ session[t] = "active"
    /\ session' \in {[session EXCEPT ![t] = s] : s \in {"revoked", "expired"}}
    /\ UNCHANGED <<raised, screen, handler, refresh, loads>>

UserActs ==
    \/ \E t \in Tokens : Login(t)
    \/ Logout \/ Review \/ Submit \/ Lab \/ SelectEvent \/ Reload

HandlerEnds == LoginAnswered \/ LogoutAnswered \/ HandlerAnswered \/ HandlerFailed

Next ==
    \/ UserActs \/ HandlerEnds
    \/ Poll
    \/ \E i \in Slots : Read(i) \/ Apply(i) \/ Reject(i) \/ Fail(i)
    \/ LoadAnswered
    \/ Raise
    \/ \E t \in Tokens : EndSession(t)

Spec == Init /\ [][Next]_vars

\* The browser fires its interval and runs what awaits, a request ends one
\* way or the other, and the network does not fail every time; the user owes
\* nothing.
Fairness ==
    /\ WF_vars(Poll) /\ WF_vars(HandlerEnds)
    /\ \A i \in Slots : WF_vars(Read(i) \/ Reject(i) \/ Fail(i) \/ Apply(i))
    /\ SF_vars(\E i \in Slots : Read(i) \/ Reject(i))

FairSpec == Spec /\ Fairness
----------------------------------------------------------------------------
RefreshRecords ==
    [token: Tokens, selected: Event, silent: BOOLEAN,
     after: [do: {"nothing", "load", "select"}, event: Event],
     answer: 0..Unanswered]

\* The type invariant: what is shown, selected or loaded is an event that
\* was raised, and every request is under a token that was issued.
TypeOK ==
    /\ session \in [Tokens -> {"unused", "active", "revoked", "expired"}]
    /\ raised \in Event
    /\ token \in {t \in Tokens : session[t] # "unused"} \cup {NoToken}
    /\ user \in Users \cup {NoUser}
    /\ loading \in BOOLEAN /\ astray \in BOOLEAN
    /\ queue \in 0..raised /\ selected \in 0..raised
    /\ shown \in [Panes -> 0..raised]
    /\ closure \in [token: Tokens \cup {NoToken}, selected: 0..raised]
    /\ handler # Idle =>
        handler \in [kind: {"login", "logout", "review", "submit", "lab"},
                     event: 0..raised, token: Tokens, selected: 0..raised]
    /\ refresh \in [Slots -> RefreshRecords \cup {Idle}]
    /\ \A i \in Slots : refresh[i] # Idle => session[refresh[i].token] # "unused"
    /\ loads \subseteq [pane: Panes, event: 1..raised]

\* The queue of risk events stays with an administrator's token in every way
\* but two: a refresh is answered after its token was given up
\* (App.jsx:333-337), or "Invalid token" takes the token and not the queue
\* (App.jsx:362-363).  Sign-ins, sign-outs, handlers, polls, failures and a
\* holder's own refreshes, in any order, add no third.
QueueFollowsToken ==
    queue > 0 /\ ~astray => token # NoToken /\ Owner[token] \in Admins

\* "Loading" ends: it is set by eight handlers and cleared by the end of a
\* refresh or by a failure.
LoadingEnds == loading ~> ~loading

\* Refreshes overtake each other, outlive the session they were started in
\* and overwrite what a later one has shown.  Still, once a session lasts,
\* the screen comes to show its user, with every event to an administrator
\* and with none to anybody else, whatever was left of an earlier session.
ScreenCatchesUp ==
    \A t \in Tokens :
        <>[](token = t /\ session[t] = "active")
            => <>[](/\ user = Owner[t]
                    /\ queue = IF Owner[t] \in Admins THEN raised ELSE 0)

----------------------------------------------------------------------------
\* What is under way speaks of events that were raised and of tokens that
\* were issued, and an answer that lists events was made for an administrator.
RefreshOK(r) ==
    /\ session[r.token] # "unused"
    /\ r.selected <= raised /\ r.after.event <= raised
    /\ r.after.do = "load" => r.after.event > 0
    /\ r.answer # Unanswered =>
          /\ r.answer <= raised
          /\ r.answer > 0 => Owner[r.token] \in Admins

\* The inductive invariant of DashboardProofs.
IInv ==
    /\ TypeOK /\ QueueFollowsToken
    /\ \A i \in Slots, r \in RefreshRecords : refresh[i] = r /\ r # Idle => RefreshOK(r)
    /\ handler # Idle /\ handler.kind = "review" => handler.event > 0
    /\ handler # Idle /\ handler.kind = "login" => token = NoToken
    /\ closure.token # NoToken => session[closure.token] # "unused"
=============================================================================
