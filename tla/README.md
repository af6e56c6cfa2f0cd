# A TLA+ verification of the VERVE FDS trading back end

The repository is a small brokerage demonstrator: a FastAPI back end over one
SQL database, with a fraud-detection engine (FDS) between the submission of an
order and its execution, device and session security around it, a review desk
for administrators, and a React client that polls. This directory models the
part of it that moves money and decides who may: TLA+ modules translated from
`src/backend/app`, the TLC configurations that check them on small instances,
and TLAPS proofs of the properties for every instance.

    tlc -config MCTradingReview.cfg MCTrading     # one of the runs below
    tlapm TradingProofs.tla                       # the proofs

## Inventory

| component | state it keeps | operations | interacts with |
|---|---|---|---|
| Order lifecycle (`order_service`, `trading_service`, `routes/orders`) | `orders`, `executions`, `accounts.cash_balance` | submit, refresh open orders (inside `GET /orders`), cancel, execute | engine and order controls on submission, market data on refresh, review desk |
| Risk engine (`fds/`, `risk_service`) | `risk_events`, `rule_hits` | evaluate an order from login history, devices, audit log and peer orders | called by submission |
| Order security controls (`security_service.enforce_...`) | `additional_auth_requests`, decision of the event | block, or ask for step-up authentication | reads the session and its device |
| Review desk (`admin_service.apply_admin_action`) | order status, event decision and status, `users.status`, sessions | APPROVE, BLOCK, REQUEST_ADDITIONAL_AUTH, LOCK_ACCOUNT, UNLOCK_ACCOUNT | executes orders, revokes sessions |
| Authentication and sessions (`auth_service`, `dependencies`, `security_service`) | `users`, `accounts.account_number`, `security_devices`, `auth_sessions`, behaviour profile, login history | login, logout, validation, session revocation, device TRUST / STEP_UP / BLOCK, registration | every request passes `_validate_session` |
| Market data (`market_data`, `live_market_data`, Redis) | `stocks.current_price`, 5-second quote cache | quote | refresh, portfolio, stock list |
| Security lab (`lab_service`) | none of its own | three scenarios that submit orders for demo users | `create_order`, `authenticate_user` |
| Portfolio (`portfolio_service`) | none; sums `executions` | position, valuation | execution reads the position |
| Audit log and security feed (`audit_service`, `admin_service`, `security_service`) | `audit_logs` | append, list, feed with severities, overview counts | one rule counts cancellations in it |
| Charts, health, catalogues | none | read only | |
| Web client (`frontend/src/App.jsx`) | token, user, last answers, selected event; what its closures keep | signs in and out, polls every 7 s, submits, reviews | all of the above |

What makes it correct, by component:

* orders and ledger: no overdraft, no short position, cash and positions agree
  with the executions, every execution is one covered trade of a whole order,
  at a price above zero;
* orders and review: order status, decision and event status agree across
  seven writers; nothing trades without an ALLOW decision; nothing is stranded;
* locks and sessions: a locked user and a blocked device have no usable
  session, whatever happened in between; a lock stops the refreshes;
* rules: which of the seven can hit an order of the API at all; two accounts on
  one address are noticed unless their transactions overlap; a scenario of the
  lab is recorded whole or not at all, and no order that was to wait for a
  price or a reviewer is lost with its evaluation;
* audit trail: the last row about an order tells its status;
* order screening: what it reads of a session (strength and score fixed at
  login, trust read now) stays within the combinations its branches expect;
* overlapping transactions: what of the above survives requests that overlap
  under READ COMMITTED (solvency, EXECUTED means traded, money moves with
  trades), and that all of it survives for a user whose own requests do not
  overlap; deadlocked requests end;
* overlapping logins, locks, device actions and registrations: a session
  survives a lock or a block, and a block is lifted, only by a login that
  overlapped it; a transaction without overlap is a step of the serial model;
  account numbers stay dense;
* market data: a quote has a bounded age, only a refresh of orders moves the
  price orders trade at, an order waits at a stored price that meets it only
  where the refresh of another user has stored that price, and a limit order
  the exchange goes on meeting is executed in the end;
* web client: an administrator's queue can come under someone else's token in
  two ways only (an answer that outlives its session, a token taken by an
  error), and the screen catches up with who holds the session.

What is hard in this code: no row is locked and no version is checked, so
requests that overlap read what others are about to change; a request that
raises loses everything it flushed (which is intended for money and not for
evaluations and failure counts); the same tables are written by client,
refresh and review desk in any order; thresholds and tick sizes meet slippage
at boundaries; prices arrive through a cache; the client's handlers, interval and effects keep
the state of the render that made them, and nothing orders their answers. `PROJECT.json` lists the hazards
at their lines.

## Modules

| module | models | of |
|---|---|---|
| `Enums` | the enumerations, the risk bands, `SessionViews` | `core/enums.py`, `fds/engine.py` |
| `Brokerage` | the abstract specification: accounts that change only by covered trades | what `trading_service` promises |
| `Pricing` | ticks, slippage, execution prices | `trading_service` |
| `Trading` | orders from submission to fill, refresh, review, locks | `order_service`, `trading_service`, `security_service.enforce_order_security_controls`, `admin_service.apply_admin_action` |
| `OrderTx` | requests about orders as overlapping transactions | `order_service`, `trading_service`, `admin_service` on SQLAlchemy and PostgreSQL |
| `SessionSecurity` | users, devices and sessions | `auth_service`, `security_service`, `dependencies` |
| `MarketData` | quotes, their two caches, the routes that quote, the polling client | `market_data`, `live_market_data`, `routes`, `App.jsx` |
| `FraudRules` | the seven rules, their scores, the length of the joined reasons | `fds/rules.py`, `fds/engine.py`, `risk_event.py` |
| `Screening` | what the rules count, and orders from evaluation to commit and after | `fds/engine.py`, `risk_service`, `order_service`, `auth_service`, `admin_service` |
| `Lab` | the three scenarios, on top of `Screening` | `lab_service`, `routes/admin` |
| `AuthTx` | requests about users, devices and accounts as overlapping transactions | `auth_service`, `security_service`, `admin_service` on SQLAlchemy and PostgreSQL |
| `AuditTrail` | the audit rows about orders, the feed and the overview, on top of `Trading` | `audit_service`, `order_service`, `trading_service`, `admin_service` |
| `Dashboard` | one tab of the web client and the answers it waits for | `App.jsx`, `dependencies` |
| `MCTrading`, `MCOrderTx`, `MCSessionSecurity`, `MCAuthTx`, `MCLab`, `MCMarketData`, `MCDashboard` | the instances for TLC | |
| `SumTheorems` | theorems about sums of integers over finite sets and sequences | |
| `TradingProofs`, `SessionSecurityProofs`, `OrderTxProofs`, `AuthTxProofs`, `LabProofs`, `MarketDataProofs`, `DashboardProofs` | theorems and proofs | |

Three modules build on another by EXTENDS: `AuditTrail` adds a variable and a
conjunct per action to `Trading`, `Lab` adds actions to `Screening`, and
`AuthTx` cuts the actions of `SessionSecurity`, whose definitions it uses and
whose specification it implements as long as nothing overlaps.

### Trading

The state is the committed database. One action is one request, because
`autoflush=False` sessions commit once at the end and a request that raises
leaves nothing; the exception is `GET /orders`, whose loop over the open
orders is one step per order (`BeginSync`, `SyncOrder`), so that the price
moves within it as the quotes do. `Idle` keeps other requests out meanwhile.

| variable | column | written by |
|---|---|---|
| `cash`, `position`, `executions` | `accounts.cash_balance`, the sum `get_position_quantity` computes, `executions.price` | `FillOrder` |
| `status`, `terms` | `orders` | submission, refresh, cancel, review |
| `event` | `risk_events.decision`, `.status`, count of PENDING `additional_auth_requests` | submission, review |
| `userStatus`, `signedIn` | `users.status`, an ACTIVE session exists | login, locks |
| `price` | `stocks.current_price` | `SyncOrder` (the quote) |
| `todo`, `quoted` | `open_orders`, `quote_cache` of the running refresh | refresh |

Execution has its two modes: `ExecuteOrRaise` is not enabled where the code
raises (`Raises`), and the caller says what a rollback leaves; `ExecuteOrReject`
rejects instead. `CreateOrder` lets the rolled-back order use up an identifier
so that what its evaluation left behind can be asked about. The rules of the
engine enter as the totals they can return (`Scores`); the session as a
`view` of the three things the controls read, taken from `SessionViews`.

`SessionViews` is an assumption of `Trading`. `SessionSecurity` discharges it:
`ScreeningAssumption` is checked there and proved (`ViewsAreSound`).

### AuditTrail

`trail[o]` is the last audit row about order `o`: the status it tells and the
severity the feed gives it (`_feed_severity`). Each action is one of `Trading`
with the `record_audit` of its handler, in the place the handler has it: a
request that raises takes its rows with it, a refresh that fills writes one
and a refresh that rejects writes none. `OpenRiskEvents` and its neighbours
are the counts of the overview.

### Screening, FraudRules and Lab

`Trading` leaves the rules open (`Scores`); here they are the subject, and the
money is left open. `FraudRules` maps the evidence about one order to the
rules that hit, their total and the length of the joined reasons.

| variable | what it is |
|---|---|
| `seen`, `succeeded`, `session`, `rows` | `device_history`, users with a successful login, ACTIVE sessions, and the rows of `login_history` and `audit_logs` that are counted within a window |
| `now` | the clock the windows are measured against |
| `order` | of each order: its transaction and phase (FLUSHED, COMMITTED, LOST), who, where, what, the rules that hit it, its status |
| `met`, `withdrawn` | history: pairs of orders whose transactions overlapped; orders once cancelled or rejected |
| `lab`, `finished` | the scenario under way with its first order and those to come; history: scenarios ended |

A submission is two steps: `Submit` evaluates the rules on what is committed
(and on what its own transaction has flushed) and `Commit` makes the order
visible, or `Lose` rolls it back, where the reasons do not fit their column or
the account does not cover a fill. A scenario is one transaction around one or
two such evaluations, without a session (`onSession` is FALSE), so that
neither the order controls nor the check of the device apply.

### OrderTx

The same requests, cut where the code talks to the database. The routes are
plain `def` functions, so FastAPI runs them in threads, each with a session of
its own (`get_db`) on the PostgreSQL of `docker-compose.yml` at its default
isolation level, READ COMMITTED.

| variable | what it is |
|---|---|
| `db`, `executions` | the committed columns, and the committed rows of `executions` |
| `terms`, `job` | the columns of orders that never change; what each request asks for |
| `txn[r].mem` | the identity map of the request's session: the first value it loaded of a column, or the value it assigned; no later SELECT refreshes it |
| `txn[r].dirty` | columns assigned a different value since the last flush |
| `txn[r].written` | columns flushed: their rows are locked until the transaction ends |
| `txn[r].todo`, `.quoted`, `.fills` | orders still to execute, stocks quoted, executions inserted |
| `overlapped` | history: users about whom two requests have run at the same time |

A request begins with its SELECT (`BeginRefresh`, `BeginCancel`,
`BeginApprove`, `BeginBlock`, `BeginSubmit`), quotes and executes order by
order, flushes one row per step in the order of the unit of work (`Write`
waits while another transaction holds the row) and commits. Position is a
SELECT of its own and sees what is committed when it runs; cash is what the
session loaded. `AbortDeadlocked` is PostgreSQL's detector. Requests begin in
states between which any history of serial requests may lie: each order is
new, in the book or under review.

What a user has is not a column but a sum: `Held` adds what the executions of
each order bring to the opening holding, and `Position` is that sum over the
executions the transaction sees (`Traded`), as `get_position_quantity` computes
it; `Balance` is what the cash column should be by the same executions.

The properties come in three groups: those that no overlap can break; those
that hold for a user who is not in `overlapped`, although requests about other
users overlap and lock the same stock rows; and a sentence of the documents
that overlaps do break. The second group (`LedgerBalanced`, `NoShortPosition`, `StatusMatchesDecision`)
says what a lock per user (or a version column on accounts and orders) would be
enough for, and says nothing of the user whose requests do overlap: for her a
debit is lost (`lost_debit`); two overlapping `POST /orders` sell the same shares,
since each sums the executions that are committed when it runs
(trading_service.py:90), and the portfolio leaves the negative position out
(portfolio_service.py:60); a cancel or a block is overwritten by a refresh; and an
APPROVE that overlaps a BLOCK leaves decision and status of an event apart. The
last three are behaviours of the model that no property forbids.

### SessionSecurity

A device row per user and device id, a session table, and the steps of login
(with the region normal or abnormal), logout, revocation, expiry and the
admin's device and account actions. Time is the step `Expire`. A wrong
password changes only a history variable: the service counts it and may lock
the user, and the route rolls both back.

### AuthTx

The same requests and registration, cut where they read what another may
change before they write. `job[i]` is the request in slot `i`: how far it is,
the row it loaded, the row it makes of it, the sessions it listed, the number
it counted. `Updated` writes the columns that differ from what was loaded and
leaves the others as they are by then, as SQLAlchemy's UPDATE does. A login
has flushed its device row before it counts the sessions: from there to its
commit it holds that row (`Held`), and an insert of the same row fails.

`met` (in a job) and `raced` are history: which requests about the same subject
overlapped a request, or the login that opened a session. `crossed` are the
users about whom two things went on at the same time. While it is empty, every
step is a step of `SessionSecurity` or a stutter (`UncrossedIsSerial`), so the
theorems of the serial module hold of what overlaps only across users.

### MarketData

| variable | what it is |
|---|---|
| `live` | what Yahoo answers now, `Down` where it fails; moves at will |
| `answer` | `_CACHE` of `live_market_data`, with the age of each answer |
| `redis`, `quote` | whether the server found a Redis when it started; the quotes in it, the seconds each has left and the age of the live answer inside |
| `price` | `stocks.current_price` as committed |
| `open` | the limit orders still ACCEPTED |
| `timer`, `request` | the client's `setInterval`, and where in `refreshDashboard` each poll is |

The caches and `stocks.current_price` are shared by all users. One of them is
followed, with her orders and her client; of the others there is what they do
to the shared state. `OtherRefreshes` is another user's `GET /orders`: it
quotes the stocks of that user's orders (some of `Shared`), commits their
prices and visits no order of the user followed. `OtherLooks` is a list, a
quote or a portfolio of theirs, which fills the caches and commits nothing. A
price another user's refresh has set can meet an order that goes on waiting
until its owner's next refresh; `moved` is history, the stocks whose price was
set in that way since then, and `BookIsNotCrossed` says that there is no other.

`Tick` is a second. `ListStocks`, `RefreshOrders` and `Portfolio` are the three
requests of a poll that quote, each awaited before the next; only the second
route commits. A poll may still wait for an answer when the interval fires
again, so up to `MaxPolls` are under way.

### Dashboard

| variable | what it is |
|---|---|
| `session`, `raised` | at the server: what became of each token's session; the number of risk events |
| `astray` | history: what is on the screen was answered to another token than the one held, or the token was taken from under it |
| `token`, `user`, `loading`, `queue`, `selected`, `shown` | the React state: `riskEvents`, `selectedRiskEventId`, `selectedRiskDetail` and `selectedIncidentTimeline` |
| `closure` | the token and the selection that the 7-second interval and F5 closed over when the token last changed |
| `handler` | the handler that awaits its POST, with the token and the selection of its render |
| `refresh` | the runs of `refreshDashboard` under way, each with what it closed over, what its handler does afterwards and what the server answered |
| `loads` | the requests of the panes under way |

An answer is read (`Read`) and applied (`Apply`) in two steps, so refreshes
overtake each other and outlive the session they were started in. A batch of
setters is one step with the effects of the render that follows it: `OnToken`
refreshes anew and renews `closure`, `OnSelection` loads or clears the panes.
`Kept` is where the stale closure bites: the selection a refresh restores is
the one it knew, so every poll takes an administrator back to the newest event
(App.jsx:356). Only "Invalid token" signs the user out; the other errors of an
ended session leave the screen as it is (App.jsx:362).

Who may see the queue is asked of the owner of the token held, not of the
`user` shown, which the answer that fills the queue sets too. By that measure
the queue does come to a trader: an administrator's refresh that is answered
after a trader has signed in puts her name and her queue on his tab
(App.jsx:333-337), and an expired token is taken without what it showed
(App.jsx:362-363), which is still there at the next sign-in. Both are behaviours
of the model; a trader's token under her queue is seven states from an initial
one. `QueueFollowsToken` says that these two ways are all there are, and
`ScreenCatchesUp` that a session that lasts gets its own screen in the end.

## Runs

| run | instance | states | question |
|---|---|---|---|
| `trading_review` | 1 user, 1 stock at 10 or 10000, 2 orders of 1 or 2 shares, every session view, scores of each band | 387 k | do orders, events, sessions, ledger and audit trail stay consistent through every review; does a lock stop the user's other order; overdraft, overselling, decisive refreshes |
| `overlap` | 2 requests of any kind, 4 books of 2 orders, 2 users, 2 stocks | 158 k | what no overlap breaks, what holds without overlap within a user, does every request end |
| `sessions` | 1 user, 2 device ids, 3 sessions, concurrency threshold 2 | 192 k | locks and blocks leave no usable session; what screening reads of a session |
| `auth_overlap` | 1 user, 2 device ids, 2 sessions, 2 emails; 2 requests at a time, 4 in all | 2.3 M | what survives a lock or a block, what lifts a block, what registrations leave; is it the serial model where nothing overlaps |
| `lab` | 2 users on a device each, 2 stocks, 1 address, 3 orders, 1 scenario | 2.5 M | which rules can hit, when are two accounts on one address missed, what does a scenario leave, which orders are lost |
| `quotes` | 1 stock, a purchase and a sale, 2 polls under way, other users on the same stock, with and without Redis, the times of the code | 586 k | age of quotes, who moves prices, whose refresh can cross a waiting order, met orders execute without Redis |
| `dashboard` | an administrator's and a trader's token, 2 refreshes under way, 1 event, every handler | 820 k | in which ways can the queue part from an administrator's token |
| `dashboard_live` | the same without the panes and the review buttons | 222 k | the loading flag falls, the screen catches up |
| `twice_filled`, `lockout`, `lost_debit`, `limit_orders_starve` | small instances of the same | | sentences of the documents that the code does not keep |

`IInv` in a run is the inductive invariant of its module: the type invariant
and the properties the proofs carry along (in `trading_review` prices of executions above zero, solvency, the
ledger, the status of events and that no order is stranded; in `overlap` what
the sessions have in hand; in `sessions` that every session has a device on record, that
scores follow trust, and that a user has one primary device).

Bounds. Two orders are what a review of one order against another needs
(locking through one, refreshing the other); two sales that compete for the
shares of one purchase would need a third, and `overlap` has them against
shares held already, the proofs for any number. At 10000 won two shares reach
`HighAmount`, where slippage doubles; at 10 a sale hits the floor of one tick.
The opening cash pays for some orders and not for all. `MaxFills` keeps the
approval of an order that was filled before from repeating for ever: two is
the first repetition. `MaxSessions` is one more than the concurrency
threshold. Orders and sessions refer to users by their rows only, so one user
is enough for their properties; the price of a stock is everybody's, so
`quotes` has other users on its stock (`Shared`), of whom nothing is bounded.
`limit_orders_starve` has none: there the user is alone with her client. The books of `OrderTx` have two where users
share a stock row. Two requests are the least that overlap and that deadlock;
the four books are the ways in which two orders compete: for cash, for cash
with slippage, for shares, and for a stock row. Two polls are one more than a
client has that is answered in time. Two refreshes are
the least that overtake each other; one tab runs one handler at a time besides
(`handler`), `Buttons` says which ones the user starts, and the second token
is the least that changes hands. In `auth_overlap` two requests are the least
that overlap; four in all (`MaxRequests`) are a first login, what is done to
its device, and two more that overlap; a threshold of one makes the second
session carry the concurrency surcharge. In `lab` three orders (`MaxOrders`)
are the two of the largest scenario and one beside it, two of them may be
submitted on a session (`MaxSubmits`); one cancellation (`MaxCancels`) is what
`CancelBurst` asks for in this instance, one tick of the clock (`MaxTime`)
leaves the peer window and not the others, and one scenario (`MaxRuns`) ends.
`Open` stops what nobody reads any more after the last order. The proofs do not depend on any of these.
Permuting users or device ids changes no action of `SessionSecurity`, which is
what its symmetry set uses; no liveness is checked under symmetry.

Fairness is assumed in three runs. In `OrderTx`, weak fairness of the steps of
each request that has begun (a thread of the server runs) and of the deadlock
detector (`deadlock_timeout`); nobody owes a request. `AllEnded` is the
only stutter, so TLC's deadlock check still reports a wait that nothing ends.
In `MarketData`, weak fairness of time, of the client's interval and of the
answers to its requests; the exchange and the other users owe nothing, and the property asks
something only of behaviours in which it goes on meeting the limit.
In `Dashboard`, weak fairness of the interval, of the handlers' answers and of
the end of each request, one way or the other, and strong fairness of the
server's answers: the network does not fail every time. The user owes nothing,
and `ScreenCatchesUp` asks something only of behaviours in which a session
lasts. A tab that is signed out, with the instance's tokens and events used
up, has nothing left to do: the `MCDashboard` runs do not check deadlock.
Nor do `auth_overlap` and `lab`, which stop when the requests, orders and
scenarios of the instance are used up; a transaction of theirs waits for
nothing but a login that can always commit.

The runs that find a violation:

* `twice_filled`: an EXECUTED order that is blocked or held by a reviewer
  afterwards and then approved is executed again (FEATURES.md:74 promises that
  filled and unfilled quantities are tracked).
* `lost_debit`: two overlapping `GET /orders` list one ACCEPTED order, both
  execute it, and the second overwrites the balance the first wrote: two
  executions, one debit (FEATURES.md:75, changes of status are reflected in the
  balance).
* `limit_orders_starve`: with Redis, the client's `listStocks` (App.jsx:292)
  puts every quote into the 5-second cache just before its `listOrders`, whose
  quotes then return before `stocks.current_price` is assigned; `listStocks`
  itself does not commit, so the stored price never moves and a met limit
  order waits (FEATURES.md:73, limit orders are executed automatically).
* `lockout`: five wrong passwords lock nothing (SECURITY_ARCHITECTURE.md:18).

Some sentences of the documents the models answer without a run of their own,
because the model has the code's behaviour as an action and a run would only
repeat it:

* README.md:45 and FEATURES.md:169 (every evaluation leaves a persisted risk
  event): an order that raises loses its event (`Lose`). `HeldIsNeverLost` says
  how far this goes: such a transaction has an order the market would have
  filled, or one the rules blocked. The latter is where the joined reasons exceed
  the 255 characters of `risk_events.summary`, which PostgreSQL refuses. With the
  shortest device id and address (`ReasonLength`) four rules fit, five do unless
  HIGH_AMOUNT_SPIKE and SAME_IP_MULTI_ACCOUNT are both among them, and six do
  not; a longer device id or address only lengthens them. An order the rules
  hold has two reasons at most, so it fits at any length, with the sentence
  the order controls add (security_service.py:164, :201) as well.
* FEATURES.md:13-25 (the trader uses the HTS screen, the administrator the control
  screen with the queue of risk events): an administrator signs out while a
  refresh of hers is under way, a trader signs in on the tab, and the refresh is
  answered: his tab shows her queue (`Apply`), until a refresh of his own is
  answered (`QueueFollowsToken`, `ScreenCatchesUp`).
* trading_service.py:102 ("Insufficient holdings", a sale of more than is held is
  refused): not where two sales of one user overlap (see OrderTx).
* FEATURES.md:175 (orders from a new device are found): the rule for new
  devices never hits an order of the API, nor does the one for failed logins
  (`IdleRules`).
* lab_service.py:43-45 (two accounts order on one address): the scenario
  orders two different stocks, the rule asks for one.
* lab_service.py:38 (the failed logins end in a high-risk event): the fifth
  wrong password raises and the scenario ends without an order
  (`CredentialStuffing`).
* FEATURES.md:103 (the analysis and the response console are linked): of two
  details asked for in quick succession the answer that comes last is shown,
  whichever event is selected (`LoadAnswered`).
* A registration whose email is taken between its two look-ups answers 201 with
  the account that took it (auth_service.py:35; `RegistersAlone` allows it to
  overlapping registrations only).
* A login from an abnormal region that overlaps a BLOCK of its device writes
  STEP_UP_REQUIRED over it (`BlockIsLifted` allows it to such logins only), and
  one that overlaps a TRUST leaves a TRUSTED device with a score of 55, which
  is outside the `SessionViews` that `Trading` assumes.
* A refresh that rejects an order leaves no audit row (`TrailTellsStatus`).

## Proofs

`TradingProofs` proves, from `TradingAssumption` alone (positive prices and
quantities, natural thresholds, an opening balance that is not negative, views
within `SessionViews`), every safety and action property of `Trading` that the
runs check, and the refinement of `Brokerage`. The
argument is one inductive invariant, `IInv`. The properties are not inductive
alone: that a locked account does not trade rests on `LockedIsSignedOut` (a
lock revokes, a login needs an ACTIVE user) and on `RefreshListsOpenOrders`
(a refresh in progress belongs to a signed-in user); `NoStrandedOrder` on
`OneRequestAtMost`. The proof has one lemma per action; each goes through
`StepOK`, which holds the invariant after the step and every action property
of the step, so that an action is analysed once. `ExecuteStep` is the heart:
whatever the caller, an execution accepts, rejects, or makes one covered trade.

`LedgerBalanced` says that the cash and every position are the opening balance
and the sums of what the executions brought. Its part of the invariant is
`BooksOK`: only orders that were placed have executions (`ExecutionsArePlaced`),
so the terms a submission writes belong to no execution yet. A request writes
the row of one order (`RowWritten`), so one term of each sum moves, by what one
more execution brings (`GainsMore`) or not at all, and the column moves by the
same amount (`WrittenBooks`); the sums of other users and stocks do not contain
the order.

`SumTheorems` holds what these proofs need of sums. Sums are `SumFunctionOnSet`
and `SumFunction` of the community modules, folds of which the libraries prove
nothing that could be cited, and the induction theorems take an
operator no installed prover can instantiate. The induction is made by hand
over one set at a time: a family of subsets of a finite set has a least member
(`LeastSubset`, from the well-founded order of finite sets), and applied to the
family of subsets that break an equation it leaves none. From that follow that a
sum splits at an element (`SumSplit`), that it moves by as much as its
one changed term (`SumMoves`), and that a sequence of prices with one more adds it
(`SumAppend`). They hold for integers and any finite set.

The end of `TradingProofs` proves `AuditSpec => Spec`, so that all of that holds of the
audited system, and with it `TrailTellsStatus`, that a blocked order is CRITICAL
in the feed and one that waits for authentication SUSPICIOUS
(`FeedShowsDecision`), and that the overview counts every order that waits
(`OverviewCountsWaiting`).

`SessionSecurityProofs` proves all the safety properties of `SessionSecurity`
from `SessionAssumption`; there the properties together are inductive. A step
writes one device row (`DeviceStep`) and adds at most one session
(`LoginStep`); for the sessions that stay, `KeptSession` shows that a device
that changes under a session never takes its view out of `SessionViews`: no
row goes back to WATCH.

`OrderTxProofs` proves, from `OrderTxAssumption`, what no overlap breaks in
`OrderTx`, and of a user about whom no two requests overlapped that the
columns of orders agree, that the balance is that of the executions
(`LedgerBalances`) and that no share is sold that is not held (`NeverShort`),
for any number of requests. The invariant `IInv` says what a session may have in hand when it
commits: a balance that is covered, EXECUTED only with an execution, and money
only with a trade (`TxnOK`), whatever has been committed since it read. Alone
with its user, it has what is still in the database of the columns it has not
written, leaves each order it is done with in agreement (`OrdersAgree`), and has a
balance and holdings in keeping with the executions it sees (`BooksKept`),
which become the committed ones when it commits; that two
requests about one user show in `overlapped` keeps this true across the commits
of others. A step continues one transaction (`ContinueStep`) or commits it
(`CommitStep`); the five beginnings, the quote and the execution are shown to
continue it with a session of that kind. A fill moves the balance the session
holds and the sum over what it sees by the same trade (`KeptFill`), and another
session's commit changes neither, since its executions are of another user
(`BooksAgree`).

`NobodyIsStuck` is the part of `EveryRequestEnds` that needs no fairness: while
requests run, one of them has an action of its own (`CanWork`, the guards of
`Work` written out) or is in a cycle of waits, which `AbortDeadlocked` breaks. A
request that cannot go on waits to flush (`StoppedFlushes`), a row is held only by
a request that runs (`LocksReleased`), and among finitely many requests of which each
waits for another, a least set of that kind is a cycle (`WaitsHaveACycle`). It
is the one theorem of the module that assumes the requests are finitely many.

`AuthTxProofs` proves every property the `auth_overlap` run checks, for any
number of requests under way (`AuthTxAssumption`: the slots and the emails are
finite, which `Cardinality` needs). The invariant `TxInv` is what the requests
remember of one another: of two about one subject, each has met the other
(`OverlapsAreMet`); a lock or block a login does not know of, it has met
(`LoginOK`); an active session a lock or block has not listed, its login met
(`RevokesOK`); a count that is stale belongs to a registration that met another
(`RegisterOK`); and one login at a time holds a row (`OneHolder`). A step moves
one request on (`Advance`), begins one (`BeginStep`) or commits one
(`CommitStep`); what the others remember survives a commit by what they have met
(`OthersStay`). Where none about one user overlapped, what a request remembers
is still so (`UncrossedOK`, `CurrentStays`), so its commit is a step of
`SessionSecurity`, and `NextStep` of `SessionSecurityProofs` gives the serial
invariant (`UncrossedSound`).

`LabProofs` proves every property the `lab` run checks, from the assumptions of
the three modules. `LabOrderIsLarge` is the one with numbers in it: five shares at
348,000 won are above three times the average order of 250,000. The 348,000 are
the seed price of the stock, and the price is live once a refresh has stored
one; the assumption, and `ScenarioOrderStopped` with it, hold while the stock
trades at 150,000 or more. What makes
the properties inductive: sessions are opened on devices on record, no row of
a failed login is ever there, an order's status is one its decision allows
until it is committed, and of two orders that still count the later one was
evaluated with the earlier in sight, committed or not (`PairsAreSeen`). That
reasons too long for their column belong to an order that is blocked
(`TooManyReasonsBlock`) is arithmetic over the table of rules.

`MarketDataProofs` proves how old a quote can be (its age and the time it has
left add up to no more than the two times to live), that only a refresh of
orders moves prices, and that a waiting order is met by the stored price only
where another user's refresh has set it since its owner's last (`NotCrossed`):
her own refresh executes what the price it sets meets, and no other request of
hers stores one.

`DashboardProofs` proves that the queue of risk events parts from an
administrator's token in the two ways above only (`QueueIsPrivate`), for any
number of refreshes, users and sign-ins. What makes it inductive is that an
answer under way that lists events was made for an administrator's token, and
that a sign-in starts from a tab without a token, which a sign-out has cleared
or "Invalid token" has left astray.

Every invariant and every action property that a run checks is a theorem. Only
model-checked is liveness (`EveryRequestEnds`, `MetOrdersExecuteUncached`,
`LoadingEnds`, `ScreenCatchesUp`), which needs fairness and ENABLED. The
violations of the other four runs are TLC's, too: a proof shows what holds.

## Not modelled, and why

* In `OrderTx`: REQUEST_ADDITIONAL_AUTH (BLOCK with other values), the
  account actions, orders that screening holds or blocks, `metadata_json`, the
  connection pool, and SQLite (the fallback of `core/config.py`, which the
  tests use), which locks the whole database.
* In `AuthTx`: the behaviour profile, the login history and the audit rows of a
  login, which nothing reads back but the rules of `Screening`; overlaps of
  logins with orders, which meet in `sessions` and `SessionViews` only.
* In `Screening`: the balance that decides whether a fill is covered (an
  allowed order may be filled, wait or raise); DST and clock skew.
* Audit rows about logins, devices and sessions, the headlines of the feed and
  the incident timeline: they are written and formatted, and nothing but the
  screen reads them.
* The candles and the chart cache; the parsing of the feed's answers.
* Of the web client: the order form, the charts, the lists set and cleared
  together with the queue, the wording of errors, several tabs.
* Charts, catalogues, listings, valuation, health: they read and format.
* Hashing of passwords and tokens, and the signature of the token.
* Prices are whole won; the database keeps two decimals. A client that sends a
  price with a MARKET order (the web client does not) changes only the amount
  the screening compares.

## Where it could go from here

`Screening` could take its fills from `Trading`
and its sessions from `AuthTx`; each pair meets in an assumption today
(`Scores`, `SessionViews`, a session comes from a login that put its device on
record).
