# Verification of the copy-trading platform

TLA+ specifications of the platform under `src/whitelabel-copytrade`, checked
with TLC, and theorems about them proved with TLAPS. Paths below are relative
to that directory; `TC` stands for `libs/trading-core/wlct_trading`, `W` for
`apps/api/src/modules/worker`, `I` for `apps/api/src/infrastructure/coordination`.

## 1. The system

The platform copies the orders of trading strategies to the exchange accounts
of its tenants' users. A Python library (`TC`) holds the trading core, three
Python services run it, a NestJS API and its workers manage tenants, users and
money, and web and mobile front ends use the API.

| Component | State it keeps | Operations | What must hold |
|---|---|---|---|
| Order (`TC/orders.py`, `enums.py`) | status, fills | `transition_to`, `try_transition_to`, `apply_fill` | a final status is final; each trade counts once |
| Execution engine (`TC/execution/engine.py`) | none of its own: it drives the store, the locks, the position and the adapter | `submit`, `cancel`, `apply_external_fill` | an intent is transmitted at most once, whatever is lost; an order of unknown fate is marked before the request leaves |
| Reconciliation (`TC/execution/reconciliation.py`) | a pass in progress | `reconcile_account`, `resolve_unknown_order` | the record catches up with the venue and never gets ahead of it; every unknown order is resolved |
| Order store (`TC/execution/store.py`; Postgres: `services/execution-engine/app/store_sql.py`) | reservations, orders, fills, reconciliation states | reserve, save, record a fill, set a state, list | a reservation is given once; a fill is recorded once |
| Locks (`TC/execution/locks.py`) | holder, token, expiry; a fencing counter | acquire, release, extend, validate | one holder at a time; a holder that lost its lock does no harm |
| Binance adapter (`TC/exchanges/binance/trading.py`) | connections | place, cancel, query, list | an ambiguous outcome is reported as such |
| Worker coordination (`W/worker-coordination.service.ts` over `I/lease.ts`, `membership.ts`, `partitions.ts`) | claims and heartbeats in Redis; the partitions held, when that was last confirmed, the fleet last seen | tick (ping, claim, renew), verdict `holds`, shutdown | a worker that takes a partition for its own has the claim; a dead worker's partitions come to somebody |
| Trade execution consumer (`W/trade-execution.processor.ts`) | accounts in flight, deferrals of a job | admit, defer, answer of the engine | the owner of the partition alone admits; every job ends, and a failing one fails for a reason |
| Coordination, Python (`TC/coordination`) | leases, partition claims, member heartbeats in Redis; the elector's belief | campaign, renew, resign; claim, release, reconcile; ping | one leader; the lease outlasts the belief; a failed leader lets another try |
| Risk (`TC/risk`) | budget reservations, in memory or in Redis; rate windows; protections | evaluate, reserve, release | no more is reserved than the budget, by however many engines; what is reserved is counted, and who is refused would have crossed a ceiling |
| Market data (`TC/order_book.py`, `orderbook_sync.py`, `net/feed.py`, `transport`) | order books, sequence numbers, buffers, the queue of resynchronisations, connection state | apply an update, buffer, resynchronise, reconnect | what is shown is the venue's book at some moment, never across a gap, and while it is shown it only moves forward; no book waits for ever |
| Strategies, signals (`TC/strategies`, `TC/idempotency.py`) | lifecycle of an instance, seen signals | start, pause, stop; on market event | a signal acts once |
| Other API queues (`apps/api/src/modules/queue`) | job leases, retries | claim, complete, fail | a job has one owner, is retried, is not lost |
| API: authentication, tenancy | sessions, refresh-token families | login, refresh, revoke | a reused token revokes its family |
| API: orders, copy trading, custody, billing, governance, compliance, partners | workflows over Postgres | request, approve, execute, settle | an approval precedes the effect; money moves once |
| Backtest, paper, datasets, SLO, observability; front ends; packages; infrastructure | | | not part of the concurrent core |

How they interact. A service calls `ExecutionEngine.submit` for an intent; the
engine reserves the client order id in the store, marks the order unknown,
transmits it through the adapter and interprets the answer. The private stream
of the exchange reports trades to `apply_external_fill`. A background loop
calls `ReconciliationService.reconcile_account`, which compares the store with
the venue and repairs the record. All of these run as asyncio tasks of one
process and share the `Order` objects of the store; a task is suspended only
where it waits for a lock or for the venue. Before an intent reaches the engine's
locks, `submit` takes a slot of the account's rate windows and a reservation of its
budget, from a ledger in memory or in Redis, and gives them back when the order fails
early. No service of the repository gives its gate either ledger; only tests do.

In production the store is Postgres, and more than one process runs the service.
Every operation then works on an `Order` of its own, decoded from the row, and
writes the whole row back; the locks, which are in memory, exclude nobody in
another process, and a process may die between any two transactions.

The market data feed keeps the books strategies read: the socket's handler applies
updates, one worker fetches snapshots for the books that lost their place, and the
connection's events throw all books back to the start. Singleton duties of the
services are led by whoever holds a lease in Redis.

Above the engine, the API's trading workers take commands from one queue. Every
worker may be handed any job; it forwards the job to the engine if it holds the
partition of the job's account and defers it otherwise. Who wants a partition
follows from the fleet a worker believes in, who has it from a key in Redis
that expires, and what a worker goes by, `holds()`, is a copy of the last
answers: three views that only time and renewals keep together.

What is hard. The answer to a request may be lost after the venue acted; a
request given up by its caller may still arrive; the stream and the passes
report the same trades again, in any order and late; a lock may expire under
its holder; a pass applies a listing that is older than the record; a check
made before a wait is stale after it. In the workers, a claim expires while its
holder believes in it, a renewal is lost with or without effect, a worker dies
or restarts under its old name, the fleets that workers believe in differ, and
a partition changes hands under a command in flight. Over Postgres, a process
dies between the ledger and the row, and a stale object is written over a newer
row. A script that reserves budget may have run although its caller saw an error, or
have broken off halfway.
A snapshot arrives after the connection it was asked for is gone, older than the
buffer or newer than the last update. A leader's renewal answers late, while its
lease runs out, and may be told to stop while it waits. `PROJECT.json` lists each of these
hazards at the line where it bites, with the properties that cover it.

## 2. Modules

| Module | Models | From |
|---|---|---|
| `OrderLifecycle` | statuses, transition table, transitions, fills | `orders.py`, `enums.py` |
| `Venue` | the exchange and the connection to it (external), as the adapter presents it | `binance/trading.py` |
| `Execution` | engine, reconciliation, in-memory store and locks; extends the two above | `execution/*.py` |
| `TradeLedger` | what a user is promised: the abstract specification of `Execution` | |
| `MCExecution` | small instances for TLC | |
| `ExecutionProofs`, `LedgerProofs` | theorems | |
| `WorkerCoordination` | the workers, their ticks and the claims | `W/worker-coordination.service.ts`, `I/*.ts` |
| `TradeJobs` | the queue's jobs over the workers; extends the above | `W/trade-execution.processor.ts` |
| `Ownership` | what a claim or a lease is for: the abstract specification of `WorkerCoordination` and `LeaderLease` | |
| `MCWorkers`, `MCJobs` | small instances for TLC | |
| `WorkerProofs`, `JobProofs` | theorems | |
| `BookView` | what a reader of a book is promised: the abstract specification | |
| `OrderBookSync` | books, synchronisers, the resync worker, the connection | `TC/order_book.py`, `orderbook_sync.py`, `net/feed.py` |
| `RiskReservations` | the two budget ledgers, the rate windows, the submissions around them | `TC/risk/ledger.py`, `rate_limits.py`, `evaluator.py`, `execution/engine.py` |
| `LeaderLease` | an elector over the Redis lock | `TC/coordination/lease.py`, `execution/locks.py` |
| `DurableExecution` | engine, cancellation and passes of several processes over Postgres; extends `OrderLifecycle` and `Venue` | `services/execution-engine/app/store_sql.py`, `routers/internal.py`, `execution/*.py` |
| `MCBooks`, `MCRisk`, `MCLeader`, `MCDurable` | small instances for TLC | |
| `BookProofs`, `RiskProofs`, `LeaseProofs`, `DurableProofs` | theorems | |

**Orders.** An order is executed by the venue in the trades of the constant
set `Trades`, whose quantities sum to the order's: "filled quantity reaches the
order's quantity" is "every trade is recorded". Prices and fees are left out.
`TryTransition` is both `try_transition_to` and `_safe_transition`, which leave
an order as it is when the target is not legal.

**Venue.** A request lies in `inbox` from the moment it is transmitted and is
handled at any later time, or lost. An answer reaches the caller only while its
connection (`reply`) is open. The venue trades, cancels and expires orders as it
likes. A venue order keeps the trades it was executed in, and its client order
id is not reused.

**Execution.** Each task is a program counter and what its frame remembers:
`sub` for `submit`, `can` for `cancel`, `pass` for `reconcile_account`. The
in-memory store and a free lock never suspend a task (their coroutines contain
no await that yields), so everything between two waits is one action:
`SubmitTransmits` is the code of `_submit_under_lock` from the reservation to
the request; `SubmitAccepted`, `SubmitRejected`, `SubmitRefused` and
`SubmitUnknown` are the four handlers of its outcome; `CancelNow`,
`CancelWaits` and `CancelResumes` are `cancel` with a free and with a taken
order lock; a pass is the listing of the local and of the venue's open orders,
one action for each listed order, a query and its application for each missing
one, then the flagged orders one by one. `LockExpires` frees any held lock at
any time: no holder of the code extends its lock or checks it. All orders are
of one account, so there is one account lock and one reconciliation lock, and
every canceller may pick any order.

**WorkerCoordination.** `lease` is the Redis key of each partition (owner and
time left), `fleet` the registry as a reader sees it, `wkr` the processes. One
action is one Redis command: `PingAnswered`, `SetAnswered`, `RenewAnswered`; the
`...Fails` actions are the same commands without an answer, carried out or not.
`TickEnds` writes `held` and its date. A tick that throws changes nothing, which
is a tick that has not begun. `Stop`, `Resign`, `Release`, `Exit` are
`onModuleDestroy`, during which the properties leave out what is released
already (`GivenBack`) and nothing else; `Crash` may come at any point and `Start` brings the worker
back under its id. `TimePasses` shortens every claim and ages every verdict by a
unit, and is the only action with a bound: a tick takes at most `Slow` units, a
parameter the code does not have (section 4 says what it is good for). Heartbeats expire at any time instead of by the clock, which allows
more than the registry does. The rendezvous hash is the table `Score`, any one
with ties broken. Each worker reads a configuration of its own, since the
documentation promises that a mistaken list does no harm. Not in the model: a
command of a dead process that reaches Redis after its restart.

**TradeJobs.** A step of the workers (`CoordinationStep`) leaves the jobs of a
process that ends behind; the others leave the workers alone. The queue is
external: it hands a waiting job to any consumer, gives a job of a dead consumer
out again `MaxStalled` times, and takes `moveToDelayed` for what the comment in
`defer` says of it. A consumer runs as long as its process: nothing in
`apps/api/src` closes it before `onModuleDestroy`.

**OrderBookSync.** The venue numbers its updates; the levels of a book are
the updates it contains, a diff is a range of them, a snapshot all up to its
number. So "the book is right" is "it contains every update up to its own number".
Handlers of the socket run without interruption on one loop; the only points where
something can come between are the awaits of the resync worker: it takes a
request, fetches a snapshot, applies it together with the buffered updates, waits
before another attempt. Frames may be lost, and a connection may break at any
time. `BookView` is the promise to a reader: what is shown is the venue's book at
some update, and from one showing to the next the same or a later one, as long as the
book is not hidden in between. Left out: snapshots in the stream
(no caller in the feed) and venues that chain updates by
`previous_final_update_id`.

**RiskReservations.** `ledger` is the `LocalReservationLedger` of one process, `budget`
the account's hash in Redis; the constant `Local` says which submissions use the
first. Each Lua script is one step, and a call may fail before its script has run or
after. Every order adds one unit to each bucket it uses, where the code adds its
notional, and counts as one open order; `One` units make one unit of the quote currency.
The scripts are modelled with the arguments they read, which are not those their
caller means. `try_reserve` sends the open orders to add, their ceiling and the TTL
behind 3n + 1 other arguments; the script looks for them one place earlier. So it takes
the ceiling of the last bucket in sorted order, always that of the symbol, for the open orders
to add (`OpenAdd`); `add_open_orders`, which is 1, for their ceiling; and the ceiling
of open orders for the TTL in milliseconds (`HashExpires`, at any time). A symbol ceiling
that is not a whole number breaks off in HINCRBY, a missing ceiling of open orders in
PEXPIRE, both after the HINCRBYFLOATs (`ScriptBreaks`). The release script takes the last
amount held for the open orders to take away (`ScriptReturned`). A bucket without a ceiling
is one with ceiling 0: both ledgers refuse a positive addition to it. A missing
ceiling of open orders is `OpenCeiling` = 0. A submission is a program counter with what it
holds; it may die anywhere and release nothing. A process that restarts forgets its
local ledger, its reservations with it (`ProcessRestarts`).

**LeaderLease.** A command to Redis is three steps: it is sent, carried out, and
answered; a call without an answer was carried out by then or never will be.
`Orphan` stands for a lease whose token nobody remembers, `Busy` for the longest
time between two looks of a leader at its lease (`on_promote`, the sleep and
what it overshoots). `is_leader` is the property of the code, which compares the clock
with nothing. The task of `run` may be cancelled at any of its awaits. In a sleep
that is `Stop`. Inside a call or a callback it is `Cancelled`: CancelledError is no
LockError, so nothing but the `finally` sees it, and an elector whose renewal or
callback was under way resigns with its handle still set. A resigning elector leads
until its release is carried out; between that and the answer, when `is_leader` is still
true, the properties leave it out. Left out are the exception of `on_promote` that `run`
raises again at its end, and a second cancellation inside the release of the `finally`,
which would leave the handle, and `is_leader`, set for good in an elector that no longer
runs. No service of the repository runs the elector.

**DurableExecution.** A process has one program counter, since one that is idle
remembers nothing: what an operation knows is the object it loaded. Each call of
the store is one transaction, except `save_order`, which under READ COMMITTED reads
the reconciliation state (`ReadsMark`) and then writes the whole row (`Writes`). The
memory locks exclude nobody here, and none is modelled. A query carries the trades
of the order, as the paper adapter's does; the flagged part of a pass raises on this
store and is not there. `apply_external_fill` has no caller in the service. A
process may die at any step and comes back with an empty memory.

## 3. Runs

The execution instances use one order executed in two trades, which is enough
for an order to be partly and fully filled, to receive trades out of order and to
miss one. Two orders meet only in the account lock and in the loop of a pass, and
the theorems hold for any number of orders and tasks. Two submitters are what it takes to race for one
intent, two cancellers for one order lock. Trades are interchangeable, and so
are the submitters of one intent and the cancellers, which makes `TradeSymmetry` and
`TaskSymmetry` sound for the safety runs; the liveness runs do without. No counter needs a bound: every variable is finite because an intent
is transmitted once, which is one of the properties.

| Run | Shows |
|---|---|
| `ExecutionRaces` | two submitters of one intent, two cancellers and a reconciler: types, at most one transmission, books that agree, marked requests, final statuses that are the venue's, filled orders with their trades, and the refinement of `TradeLedger` |
| `ExecutionLive` | every unknown order is resolved |
| `WorkersTakeOver` | two workers and the registry: types, verdicts that agree with Redis, the inductive invariant behind them, the refinement of `Ownership`, and the partition that belongs to a worker that is gone comes to the one left, again and again |
| `JobsSettle` | jobs are admitted by the owner of their partition, stay within their limits, spend something of them with every change, and are completed or failed in the end |
| `BooksInSync` | the feed implements `BookView`, no waiting book is forgotten, and each becomes live or is given up while the connection lasts |
| `BudgetHolds` | the local ledger counts what is held and keeps its ceilings, the hash in Redis never counts more of a bucket than is held, and the rate windows hold for all submissions together |
| `LeaderLeads` | one leader at a time, whose lease outlasts its belief; the refinement of `Ownership`; a candidate left alone leads again and again |
| `DurableCrashes` | two processes that die anywhere: one transmission, a marked row while it is in flight, final statuses that are the venue's, a ledger ahead of its row, and no order that stays open for ever unseen |

`ViewCarriesFills` says whether an order query returns the trades. It does in
`ExecutionRaces`, which `FilledHasItsFills` needs and `_adopt_venue_state` relies
on. It does not in `ExecutionLive`, as with the Binance adapter
(`trading.py:965`): there a pass may call an order FILLED whose trades the stream
lost. The other properties do not depend on it, and the theorems cover both.

The workers' instances have two workers, one to lose what the other gains, and one
partition; the theorems hold for any number of both. In `WorkersTakeOver` the partition
is by its scores that of the worker that comes and goes, so the survivor wants it only while the
other has no heartbeat, and gets it only once the other's claim has expired: a
heartbeat that never expires violates `SurvivorTakesOver`. The durations of
`WorkersTakeOver` and `JobsSettle` are the least with each positive that satisfy
`LeaseTTL > Slow + StaleAfter`: 3, 1, 1. `JobsOverlap` needs less (2, 0, 1). The code's defaults are 15 s and 5 s, with ticks of up to
10 s. Ages and durations saturate or are bounded by these constants, so no other
bound is needed. `JobsSettle` has one job with two deferrals, two attempts and one
recovery, so that each limit is met and a retry follows a deferral; two jobs of one
account meet in `JobsOverlap`.

`BooksInSync` has two books, which share the worker, the queue and the connection;
one more update than a gap and its repair need (three and one), two connections, one lost
frame, two attempts and a buffer of two, so that a buffer overflows and a book is given up.
`BudgetHolds` has two submissions with the local ledger, so that the ceiling of 1 of
their symbol refuses one, and two over Redis: one whose symbol ceiling of one quote unit
the script lets pass once, one whose ceiling of half a unit breaks it off. Two
orders fit each window, and a minute is 2 s long so that both windows turn. Submissions
that left nothing behind come again, so leaks add up only to the number of names.
`RefusesBelowCeiling` has whole ceilings, above one unit, and no local ledger.
`LeaderLeads` has two electors, of whom the second's duty may fail to start; the
durations are the least with each positive and the renewal twice below the TTL: TTL 7 >
`Busy` 3 + 3 · `Slow` 1, and a TTL of 6 violates `LeaseOutlastsBelief`.
`DurableCrashes` has two processes and one order of one
trade, so FILLED is the first fill; the way through PARTIALLY_FILLED is covered by the
runs of `Execution`, and the theorems hold for any number.

Deadlock is checked except where the bounds or the end of the work stop the system:
`BooksInSync` and `BookOfDeadConnection`, whose updates and connections are
bounded, and `DurableCrashes`, where an order with a final row leaves nothing to do.

**Fairness** (`FairSpec`). Weak fairness of each reconciler's steps: asyncio
keeps running a task that can run, and the reconciliation loop keeps starting
passes. Strong fairness of the four steps that are a venue's answer to a pass:
a venue that is asked again and again answers in the end. Nothing is assumed of
submissions, cancellations, the stream, requests in flight or the venue's own
steps.

In `WorkersTakeOver`: time passes, a dead worker's heartbeat expires, the timer of
the survivor fires and its tick goes on (weak); and a ping or claim that is sent
again and again does not fail every time (strong), without which a survivor cut
off from Redis would rightly hold nothing. The instance lets one worker come, go
and die at will and asks what the other gets once it is alone for good. In
`JobsSettle`: weak fairness of the queue and of the engine's answer to each job
(the internal client gives up after 30 s), none of the workers or their claims.

In `OrderBookSync` weak fairness of the feed's start and of the resync worker: its
task keeps running and each of its awaits has a timeout. In `RiskReservations` none, since
nothing is said there of what must happen. In `LeaderLeads`: time passes and each elector's loop goes on (weak); a claim
sent again and again is carried out and answered now and then, and a duty that is
started again and again starts once (strong). In `DurableCrashes` weak fairness of
each process's current operation and of its starting passes; crashes need no
assumption, since `OverIsSeen` excuses itself when processes go on dying for ever.

### Disagreements the runs show

Each of these runs checks one property that the code or its documentation states
and finds it violated; `PROJECT.json` quotes the sentence.

| Run | Statement | What happens |
|---|---|---|
| `PassFailsLiveOrder` | a venue that does not know an order never got it | the pass asks while the placement is on its way, marks the order FAILED, and the venue accepts it |
| `JobsOverlap` | one account, one worker at a time | a claim lapses under a command in flight, the next owner admits the next command |
| `BookOfDeadConnection` | leaving CONNECTED invalidates the books synchronously | after the reconnection a book of the old connection is shown until the worker takes its request |
| `RefusesBelowCeiling` | the acquire script refuses an addition that would cross a ceiling, with the layout of its caller | it takes the ceiling of the symbol for the open orders to add and 1 for their ceiling: the first order of an account is denied |

Noticed while modelling and kept without a run, each visible where it is written:

* Execution. `resolve_unknown_order` overwrites the DIVERGED it has just set with
  IN_SYNC. An order that ended before a pass looks is not asked about, so a trade the
  stream lost stays lost. A listing older than the record flags DIVERGED, which
  nothing clears. An `AdapterError` about one missing order ends the pass for those
  after it. `submit` raises when the stream delivers a trade before the answer is found
  lost. The check of `cancel` for an unknown fate precedes the wait for the lock.
* Risk ledgers. Beside the denial that `RefusesBelowCeiling` shows, the shifted arguments
  have these consequences. A symbol ceiling that is a fraction, as one in BTC, or a missing
  ceiling of open orders, makes every reservation an error after its amounts have been
  added, in a hash that no grant has ever given an expiry: they stay for good. A
  hash that has one expires after as many milliseconds as there may be open orders, so
  that the Redis ledger forgets what is held and its ceilings do not hold. A release
  takes the last notional from the open orders. Of the intended layout, too: only the failure
  paths of `submit` release a ticket, though `ledger.py:14-15` says that release happens on
  terminal order events, so that of an accepted order is held until it expires or, locally,
  until the process ends; and every grant sets the expiry of the whole hash anew.
* Books. A fetch may bring a snapshot of any age when nothing has been buffered since
  the gap or the reconnection, so a reader may then see a book older than the one
  that was hidden.
* Workers. One renewal without an answer leaves a partition out of `held`, though a
  blip is said not to evict. `reconcile` releases nothing that is no longer wanted. Any
  worker's deferral counts towards the ceiling of a job, also while the owner runs, and
  "consecutive" deferrals are counted across an admission. A tick as long as the
  claim less the trusted age outlives the claim. A shutdown releases the claims before
  it clears `held`: a partition given back is claimed by `holds` until the last is.
* Leader. A `run` cancelled again while its `finally` resigns keeps its handle:
  `is_leader` stays true (`lease.py:407-408`). A leader whose `on_promote` raised campaigns again at once; the exception
  comes to light only when the loop is stopped (`lease.py:398-403`).
* Durable store. A cancellation that loaded the row before it became final writes
  CANCEL_REQUESTED over the final status (`docs/PART13_DURABLE_STORE.md` §6 item 2:
  "no replay can resurrect history"). A stale pass may write PENDING over SUBMITTED, after
  which the row of a filled order stays PENDING; every pass flags it DIVERGED, while
  the saves of two passes may overwrite each other's flag, which is why `OverIsSeen`
  says "again and again". A pass may FAIL a row whose submission is under way. A redelivered submit is answered DUPLICATE
  and resumes nothing (item 4 says it does). Nothing but the handlers of `submit`
  clears UNKNOWN on Postgres, so an order whose answer was lost cannot be
  cancelled through the platform.
* API, read and not modelled. The counters of plan limits expire 300 s after their
  last change (`usage.counter.ts:9`) and no longer count older subscriptions. `stopCopy`
  and then `cancelSubscription` release a slot twice. Resuming, pausing and
  stopping a subscription read its state and then write it unconditionally.

## 4. Proofs

`ExecutionProofs` proves type correctness (`TypeCorrect`), one lemma for each
kind of task. Of the order itself it proves `FillsAreOneStep` and `FillsCommute`: the code
applies the fills of an answer in a loop over `apply_fill`, the model in one step
(`ApplyFills`), and one more turn of the loop is one more trade for `ApplyFills`,
whatever the order's status; so neither the order nor the repetition of reports matters. `LedgerProofs` proves, for any sets of orders, trades, tasks:

* `NeverSentTwice`: `Spec => []AtMostOnceSent`;
* `BookedOnce`: `Spec => []FillsBookedOnce`;
* `ImplementsLedger`: `Spec => Ledger!Spec`, the refinement;
* `MarkedInFlight`: `Spec => []InFlightIsMarked`;
* `FinalIsTrue`: `Spec => []FinalIsVenueTruth`;
* `FilledShowsItsFills`: `ViewCarriesFills` implies `Spec => []FilledHasItsFills`.

The inductive invariant of the first three is `LedgerInv`. Its two conjuncts that the theorems are
about are not inductive alone. That a step settles an order that was placed
needs `WorkIsOnSent`: the task that takes it works on a transmitted order. That
in turn needs `UnsentIsUntouched`: an order not transmitted has no mark, no
request and nothing at the venue, so that no pass, cancellation or stream message
picks it up. `SettleLemma` is the centre of the proof: an order that keeps a final
status and takes trades with `Book` makes a `Settle` step of `TradeLedger`; each
action of the engine and of the passes is brought to it, except the transmission
(`Place`) and the dry run (`Discard`).

The last three follow from `TruthInv`, inductive together with `LedgerInv`. Its idea is
that whatever the engine learns of the venue is old: an answer on its connection, a
listing or a query's result in a pass lies in the venue's past (`RepliesArePast`,
`PassesArePast`), so its trades are still there and a final status in it is final. A
placement on its way is the only one and finds nothing at the venue
(`PlacementsAreFirst`), which keeps the mark until it has arrived. `OrdersAreTrue`
brings both to the orders. The proofs assume `ExecutionAssumption` and
`TradesAssumption` only.

`WorkerProofs` proves, for any workers, partitions, scores, configurations and
durations, `WorkersTypeCorrect` and, from `LeaseTTL > Slow + StaleAfter`,

* `ClaimsOutlast`: `Spec => []ClaimsOutlastVerdicts`, the inductive invariant: what
  a tick has won so far is claimed for `LeaseTTL` less the time the tick has
  taken, what a worker trusts for `LeaseTTL - Slow` less the age of the verdict;
* `VerdictsAreTrue`: `Spec => []HoldsItsClaims`, which follows from it.

The hypothesis is used in one lemma (`TimeBacks`) and is needed: with equal sides
(4, 2, 2) TLC finds a verdict without its claim. The code does
not check it: `packages/config/src/env.schema.ts` relates neither the TTL to the
retry interval nor a tick's duration to either. The workers' beliefs about the
fleet play no part in the proof, which is the promise that membership only
decides who wants a partition.

`WorkersImplementOwnership`, from the same hypothesis, says that the workers implement
`Ownership`, where a partition is taken only while nobody takes it for its own. It
follows from the invariant at both ends of a step: who takes a partition for its own has
the key, and a key has one owner; that no step replaces one owner by another takes a
case for each action. What the fleet does decide is proved apart, of the
rendezvous hash: `EveryPartitionOnce` ("every partition appears exactly once",
`I/partitions.ts`) and `OnlyItsOwnMove` ("adding or removing one worker moves exactly
the partitions that worker won or lost", `docs/PART11_HANDOVER_FULL_SOURCE.md`), for
every table of scores whose ties are broken. That a fleet has a best member at all
rests on the well-foundedness of the number of members above it.

`JobProofs` adds `JobsTypeCorrect` and, from the same
hypothesis, `JobsAreAdmittedByTheOwner`: admission is an action property over the
invariant of the workers, whose steps are all a job's steps do to them
(`JobsRunOnWorkers`: `JobSpec => Spec`, so that every theorem about the workers holds
under the jobs). `JobsOnlyWearOut` is the safety half of termination: with every change a
job comes nearer to its end by a measure in the naturals (`Distance`), and a job at
its end does not change. What remains for the liveness property `JobsSettle` is that
changes happen, which is fairness.

`BookProofs` proves, for any symbols, buffer and number of attempts, `BooksTyped`,
`NeverForgotten` (a book that waits for a snapshot is queued or in the worker's hands:
inductive with the state of the worker) and `FeedImplementsView`. The refinement needs of every book
that is live that it contains all updates up to its number, of the buffer that its
updates lie in order behind those, and of a fetched snapshot that it is a prefix of
the venue's updates. A book only moves forward while it is shown because a live one takes
nothing but the next updates, and a snapshot is taken by a book that is hidden.

`RiskProofs` proves `RiskTyped`, `RatesHold`, `HoldsAreCounted` and `CeilingsHold` for any
submissions, buckets, ceilings and limits, with no hypothesis on durations. A window's
counter is the number of slots taken in it and not given back, and the local ledger's
the number of orders that hold something of it; each step that changes one changes the other
by the same order. `HoldsAreCounted` bounds the hash in Redis from above only: an expiry takes
away the amounts of those who still hold them, and the release of one of them those of somebody
else. `CeilingsHold` is about the local ledger. For the Redis ledger no ceiling is
claimed, since none holds.

`LeaseProofs` proves `LeadersTyped`, `LeaseBacksBelief` and `OneLeaderAtATime` from
`TTL > Busy + 3 * Slow`. The invariant accounts for the age of each command: the last
claim or renewal was carried out at most `Slow` before its answer, the leader's next look
comes at most `Busy` after the answer, the renewal it then sends may take `Slow` without
being carried out, and when it is cancelled at the end of that the release takes `Slow` more
(`CancelledResigns`). The code checks only that two
renewals fit the TTL, not what a duty or a slow command takes of it.
`ElectorsImplementOwnership` refines `Ownership` of one thing, the role, and takes
the same invariant.

`DurableProofs` proves `DurableTyped`, `SentOnce`, `LedgerFirst`, `MarkedOnItsWay` and
`FinalRowIsTrue` for any number of processes and trades, assuming only that there is one order. `SendingInv` says that at most one
operation may still transmit and only if none has, the one whose reservation
the unique index admitted; before the row there is no request. `LedgerInv` says that no object lists a
trade the ledger lacks, and that what is on its way from the venue lies in
its past. Both are inductive without locks: they hold between processes because of the database's
unique keys alone. The last two theorems need `TruthInv`: as long as the order may
still reach the venue, no process has read a row without a mark in `save_order`, nor stands
where it would clear it (`MarksInv`); and a final status in the row, an object, a view
or an answer is the venue's (`StatusInv`).

Only model-checked: the liveness properties (`UnknownIsResolved`, `SurvivorTakesOver`,
`JobsSettle`, `Settles`, `SurvivorLeads`, `OverIsSeen`), which are out of
the prover's reach. All invariants and action properties of the passing runs are proved.

## 5. Plan

Done, in this order: the engine with its passes and the proof that it implements
`TradeLedger`; the workers and their jobs; the books; the risk budget; the
leader lease; the durable store; the proofs of all their invariants. What is left, in the order of its worth:

1. `ExecutionLock`: the fenced manager, whose token is drawn after the lock is taken
   (`locks.py:467`); refinement of a lock with one rightful holder.
2. Copy trading in the API: slots of plan limits, the states of a subscription, the
   fan-out of an order to its followers.
3. Payment webhooks; refresh-token families; approval workflows; the other job queues.
4. Strategy lifecycle and signal idempotency.

## 6. Not modelled

What precedes the account lock in `submit` (validation, safety gates, placement
review) only reads and refuses; the risk budget taken there is `RiskReservations`. Balances, positions and unexpected venue
orders are compared and reported. Prices, fees, precision, signing, parsing,
events, metrics and logs are data the properties do not tell apart. Of the workers,
the boot gate, the metrics and the validation of payloads are left out. The other
components are in `PROJECT.json` with the reason for each.
