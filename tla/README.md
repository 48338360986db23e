# A verification project for order-sync

order-sync receives order and payment webhooks, stores them in PostgreSQL and
delivers paid orders to SAP through a transactional outbox, the table
`sync_jobs`. The modules here model its state machines one by one and the whole
service composed of them, check them with TLC on small instances, and prove the
safety of each component, and of the service, for every instance with TLAPS.
Paths below are relative to `src/`.

## Inventory

| Component | State | Operations | Talks to | What makes it correct |
|---|---|---|---|---|
| Webhook services `internal/shop`, `internal/payment`, `internal/orders` | none of their own; one database transaction per request | `processShop`, `reconcilePayment`, `processPayment`, `cancelPayment`, `completePayment`, `MarkPaidAndSchedule` | repositories in one transaction | an order is paid, linked and scheduled together; terminal payments are final; a 2xx means the effect is stored |
| Repositories and queries `internal/infrastructure/postgres` | `orders`, `order_items`, `payments`, `webhook_events`, `sync_jobs` | inserts with `ON CONFLICT`, `SELECT ... FOR UPDATE`, upserts with a `WHERE` | PostgreSQL, READ COMMITTED | row locks and key conflicts serialise what matters |
| Transaction runner `internal/db/transaction.go` | an open transaction | `Run` | pool | all writes of a request or none |
| Job repository `sync_job_repository.go` | `sync_jobs` rows, the LISTEN connection | `ClaimDue`, `NextWake`, `Watch`, `MarkSynced`, `MarkFailed` | PostgreSQL | a claim is a lease of two minutes |
| Sync worker `internal/sync/worker.go` | loop position, timer, reconnect delay, the job in hand | `Start`, `Stop`, `loop`, `drainDue`, `deliver` | job repository, SAP client | no job lost, none called too often, no wakeup lost |
| SKU classifier `sku_classifier_repository.go` | the catalog, written by migrations | `HasHardware` | PostgreSQL | hardware orders wait and may be cancelled |
| SAP client `internal/infrastructure/sap` | map of calls in flight | `SyncOrder`, `startCall`, `postOrder`, `parseResponse`, `parseRetryAfter` | SAP over HTTP | one request per key at a time; an answer goes to the order it is about; no delay from an overflow |
| Lifecycle `internal/app/lifecycle.go` | how far the hooks have come | migrate, listen, `worker.Start`; `worker.Stop`, `Shutdown`, close the pool | server, worker, pool | a stop in time closes the pool on nobody, a late one on nobody who can do harm; work taken in while stopping is not lost |
| Admin command `cmd/order-sync-admin` | none | `replayDeadJob`, `verifySchema` | PostgreSQL | only a DEAD job is reset |
| Router, config, logging, pool, migration, Swagger text | request counter | decode, validate, answer, show an order's status | the services | mostly I/O and wiring |

The parts share the database and nothing else. A webhook transaction commits a
`sync_jobs` row; a trigger notifies the workers' LISTEN connections; a worker
claims the row, calls SAP, and writes the outcome by the row's id. Several
processes may run against one database.

What is hard here: transactions that do not see each other's uncommitted rows;
a lease that no write checks; a process that dies, or is stopped, between a
committed claim and the write that ends it; a database answer lost after the
write; SAP answers that are late or lost; calls that share a request; a loop
that sleeps on a timer, a one-place channel and a connection that may break;
prices and items that come back from the database otherwise than they went in.
`PROJECT.json` lists these as hazards, each at its line and with the properties that watch it.

## Modules

| Module | Models |
|---|---|
| `SyncJobs` | the rows of `sync_jobs`, the workers that claim and deliver them, SAP, the operator, process death, time |
| `Outbox` | what delivery promises, without workers, leases or time |
| `SyncJobsProofs`, `SyncJobsLeaseProofs` | theorems about `SyncJobs`: types and SYNCED; the lease and what rests on it: the budget, the action properties, the refinement of `Outbox` |
| `OrderPayload` | the content of an order: what the database keeps of it, `sameOrderPayload`, the hardware test |
| `Webhooks` | the webhook transactions statement by statement, with row locks; extends `OrderPayload` |
| `WorkerLoop` | when a worker looks for work: timer, wakeups, reconnects |
| `SapClient` | calls that share a request by idempotency key, the classification of answers, retry delays at the width of the integers |
| `OrderPayloadProofs`, `WebhooksProofs`, `WorkerLoopProofs`, `SapClientProofs` | theorems about these |
| `LeastNaturals` | a non-empty set of natural numbers has a least element: the induction of the proofs |
| `OrderSync` | the service: `Webhooks` and `SyncJobs` over one database, under the hooks of the lifecycle |
| `OrderSyncProofs` | theorems about the service, from those about its components |
| `MCSyncJobs`, `MCWebhooks`, `MCWorkerLoop`, `MCSapClient`, `MCOrderSync` | the instances that TLC checks |

Definitions named `Faulty...` are variants of the definition that follows them
with a bug somebody could write. No action uses them; `PROJECT.json` pairs each
with the property that detects it.

### SyncJobs

`job` is the table, one row per order: status, time until `due_at`, attempts,
age of `locked_at`, age of `waiting_since`. `worker` is the copy of the job that
`ClaimDue` returned and how far `deliver` has come; `ctx` is the state of the
process: down, live, or cancelled by `Stop`. `sent`, `accepted` and `sapIds` say
what SAP may see, what it has taken and which orders carry a SAP id; `calls`
counts the calls since a job was scheduled or replayed.

Time is relative, so there is no clock to bound: a due time counts down, an age
counts up to the only threshold it is compared with. `Tick` alone lets time
pass. The attempts counter stops one above the limit that it is compared with.

Each statement that can fail has an action for the success and one for the
failure. A statement fails when the worker's context is cancelled, or when
`Disturbances` has `dbfail`. With `ackloss` a write may take place and still be
reported as failed. `MaxHold` bounds the time from a claim to the last write
that follows it, which the code does not: with the default settings the call
takes at most 3 s and the lease is 120 s, but `SAP_TIMEOUT_MS` is free and a
paused process or a slow database write has no limit; nor has the wait of
`MarkSynced` for an order that a webhook transaction has locked. Runs and theorems say
which of `MaxHold < StaleAfter` and its opposite they assume.

`deliver` also skips a job whose status is DEAD; no claim returns one, so this
has no action. `Schedule` leaves any part of the hardware delay, because `due_at`
counts from the start of the transaction that writes it. Cancellation of an
order is in `Webhooks`: it refuses rows that are PROCESSING, and `ClaimJob` leaves cancelled orders alone.

### Webhooks

A transaction is a program counter, the request, what it has found and what it
has written; its writes stay private until `Commit` installs them. `lock` holds
the rows it has locked and the keys it has inserted. A step is a statement that
may wait or that reads what others may change, with the statements behind it
that only touch rows already locked. The opening comment of the module states
when each kind of statement waits and what it sees. `Abort` covers a failing
statement, a client that goes away, the death of the process and a deadlock
victim; `CommitLost` is a commit whose answer is lost. Requests may arrive any
number of times. `Wants` names the row or key that the next statement locks and
`Runs` makes every statement wait for it; `StatusCode` is the router's answer,
and `acked` collects the requests that got a 2xx. `FindStatus` is the view that
`GET /api/orders/{orderId}` shows.

Three things the model makes plain about the locks. A cycle is possible: a payment
webhook that found no payment row holds the order and waits for the payment,
while a later one holds the payment and waits for the order; PostgreSQL aborts
one of them, and `OnlyPaymentsDeadlock` says that a shop webhook is never the
victim. Two first COMPLETED events that overlap get a 200 and a 409, although
the status is the same: the second passes `Payments.Find` before the first
commits and is stopped by the upsert's `WHERE` (`payment_repository.go:27`);
its retry gets the 200. And the refusal of `Orders.Cancel` because of the job's status is
never taken: an order has a job only once its payment is COMPLETED, which the
cancellation meets first. The branch is modelled as the code has it; so the
cancelling of a pending job that `docs/domain.md:39` speaks of never applies,
and `CancelledIsQuiet` says it: a cancelled order never had a job.

`RetryNotRefused` is about the step that refuses a request. As an invariant (no
transaction that has failed is about a request in `acked`) it would be false with
two orders: a shop webhook that reuses the event id of another order is refused
while its own order does not exist; before that answer is out, the order may come
with an event id of its own and a second copy of the first webhook be accepted.
At the moment of the refusal nothing was acknowledged.

`JobMoves` lets the workers put a job in any status, one that is not cancelled
and whose cancellation is not being written. That a worker does not write over
a cancelled job rests on `OneClaimant` of `SyncJobs`: a cancellation is refused
while the row is PROCESSING, and only a holder whose lease was taken over could
write later. In `OrderSync` the real workers take its place.

### OrderPayload

A price is a number of `Fractions` of a cent; `StoredPrice` rounds it as
NUMERIC(12, 2) does. `Listings` are the orders in which `FindItems`, which has
no ORDER BY, may return the rows. `Matches` is the nested loop of
`sameOrderPayload`: it succeeds if some run of the loop, `Rounds`, pairs every
listed row with an incoming item, each taking the first free one that equals it.
`MatchesAsBags` says that this is equality of bags; theorem `MatchesBags` proves
it for all lists, and `MatchingAssumption` in `MCWebhooks` evaluates it over the
lists of up to three of four items. `HasHardware` is the test of `MarkPaidAndSchedule` and of
`cancelPayment`: the catalog is asked about the items without an override.

### WorkerLoop

`pc` follows `loop`; `wake` is the time until each row can be claimed, by its
due time or at the end of a lease. `listening` says that the loop's channel is
not nil, `conn` that the goroutine behind it still runs; `notified` is a
notification on its way and `token` the content of the channel. `Elsewhere` is
any other process changing a row. `Arm` and `Select` are separate steps, so a
change may fall between the NextWake query and the select.

### SapClient

`inflight` is the client's map, `calls` the `syncOrderCall` objects, and
`callers` the goroutines inside `SyncOrder`. An object is reused when no caller
refers to it, so the model needs only as many as there are callers. The end of
the owner's exchange and the deferred function that publishes it are one step: a
caller that comes between the two finds the entry as it would before both, and
nothing else is visible in between. Every kind of transport error, status and
response is classified as the code does it. A duration is a number up to
`MaxInt`; `Wrapped` is what a product leaves of it. `RetryAfterAssumption` in
`MCSapClient` checks `ParseRetryAfter` over a range of headers around the
overflow, and the run sends three through callers and followers: one below the
cap that is no backoff, one above the cap, and one whose product wraps around to
a delay below the cap.

### OrderSync

The variables of `Webhooks` and `SyncJobs` side by side, with `sync_jobs` shared:
`Intake` sees the status of the rows that `Delivery` has. `proc` follows the
hooks: down, listening (requests, no worker yet), running, stopping (worker
cancelled, requests still served), draining (listener closed, open requests end),
closing (the pool is closed), down. While it is stopping or draining the stop
deadline may pass (`StopDeadline`): `worker.Stop` or `Shutdown` returns an error,
which `OnStop` only collects, and the pool is closed with the worker and open
requests possibly left (overrun). What is left goes on. `pool.Close` rejects who
asks for a connection now and leaves one that is in use to its user, so an open
transaction may still commit or abort and no other begins; a worker that reaches
this phase was cancelled when the stop began, so its statements fail whether the
pool is open or not, its SAP call may still return, and its loop may exit.
`ProcessEnds` is the return of `main`: when all connections are back, or at any
moment of an overrun, because fx does not wait for a hook past its deadline.
`Crash` is death at any moment. In both, PostgreSQL rolls back what the process
had open, and its delivery is gone. A deadline may pass in the runs and
instances that have crashes. The components meet in four places, each an action here: a commit that schedules a job sets its due
time from the order's content and from the age of the transaction; `ClaimDue`
leaves cancelled orders alone; `MarkSynced` waits for a lock on the order; and
the hooks start and stop both sides. A commit that cancels a job would be a
fifth; `OnlyPaidSent` and `CancelledIsQuiet` say that no transaction asks for
one, so it has no action. `since` and `age` count ticks up to `HardwareDelay`,
the only value they are compared with. `IntakeAssumption` and
`DeliveryAssumption` repeat what the two components assume of their constants, so
that their theorems can be used of the instances and TLC evaluates them in run
`system`.

## Runs

| Run | Instance | Result |
|---|---|---|
| `contention` | 2 workers, 1 job, 4 attempts, lease 3, hold 2, all disturbances, fairness | pass: `OneClaimant`, `HolderOwnsRow`, `AttemptBudget`, `SyncedIsTrue`, `DispatchAllowed`, `DeadJustified`, `WindowNeverRestarts`, `ImplementsOutbox`, `Settles` |
| `stalled_claims` | 2 workers, 1 job, hold 3 beyond lease 2, no other disturbance | violation of `OneClaimant` |
| `shutdown` | 1 worker, 1 job, stops only | violation of `CancelledCallGoesDead` |
| `concurrent` | 2 transactions at a time, 7 requests about 1 order of 2 items | pass: `PaidIffScheduled`, `CancelledIsQuiet`, `AckedTookEffect`, `RetryNotRefused`, `OnlyPaymentsDeadlock`, `TerminalIsFinal`, `OrderNeverReverts` |
| `skew` | 2 transactions, shop, pending and completed payment | violation of `Reconciled` |
| `digital` | a cancellation and a digital order, one at a time | violation of `DigitalNeverCancelled` |
| `override` | a cancellation and an order of a catalog SKU with a false override | violation of `CatalogHardwareCancellable` |
| `rounding` | one shop webhook with a price between two cents | violation of `RetryNotRefused` |
| `wakeups` | 2 rows, query failures, restarts; in the end process and connection stay up | pass: `NoLostWakeup`, `DueIsClaimed` |
| `no_listener` | 1 row, queries that never fail, nothing assumed of the listener | violation of `DueIsClaimed` |
| `sap_client` | 3 callers, one key and the empty one, 2 bodies, 31 the largest duration, Retry-After below the cap, above it and beyond a duration | pass: `OneRequestPerKey`, `EntryHasOwner`, `AnswerIsMine`, `RetryAfterHonoured`, `CallsReturn` |
| `system` | 1 process, 1 webhook at a time, a hardware order, its completed and its cancelled payment, 2 attempts, all disturbances, fairness | pass: `OnlyPaidSent`, `Reconciled`, `HardwareWaits`, `ClosedPoolIsQuiet`, `ConfirmedIsSettled` |

Bounds. Jobs do not influence each other except by sharing a worker, so one row
is enough; that a worker busy with one row comes to the other is the fairness of
its claims. Two workers suffice for a race on
a row. Four attempts with two before WAITING make a job wait, be retried while
waiting, exhaust its attempts, and let its window of three ticks expire first.
The lease of three ticks and a hold of two make the last moment of a delivery
and the first moment of a stale claim adjacent. Webhooks of different orders
touch disjoint rows, apart from a reused event id, whose table key is the
conflict the single order already meets; two transactions are enough for every
pair of statements to interleave, and slots are interchangeable, hence the
symmetry set in `concurrent`, whose invariants and action properties do not
tell slots apart; no run with liveness uses symmetry. The order of `concurrent` has two
items that differ in their override alone, comes in both orders and with one
item twice, which is what tells matching as bags from its neighbours. Three
callers are an owner, a follower and one that comes after either has left. In
`system` one process is enough for what the hooks do, because processes share
only the database and `contention` has two workers on it; a hardware delay of
two ticks lets a transaction use up none, some or all of it. Its two attempts
are a first call and a retry before DEAD; WAITING and its window are left to
`contention`. Horizon 4 and reconnect
delays up to 3 in `wakeups` let a timer armed for a retry be both shorter and
longer than the time a row has left.

### What the violations show

1. `skew`: a shop webhook and a payment webhook for a new order that overlap
   both commit without seeing each other. The order stays PENDING, the payment
   is COMPLETED and unlinked, no job exists, and later events are answered as
   repeats (`internal/shop/service.go:127`, `internal/payment/service.go:94`;
   `docs/domain.md:35`). `Reconciled` also fails on a PENDING payment that is left
unlinked this way, so the trace that TLC prints may be that one. `system` shows that nothing else is needed: with one
   transaction at a time `Reconciled` holds, and a confirmed order is settled.
   `SerialReconciled` proves it for any number of transactions, if no two of them
   are about one order.
2. `digital`: a cancellation that precedes its digital order cancels the order
   (`internal/shop/service.go:139`; `docs/domain.md:39`).
3. `override`: `isHardware: false` takes a catalog SKU out of the hardware test,
   so its order cannot be cancelled and is not delayed
   (`internal/payment/service.go:204`, `internal/orders/service.go:51`;
   `docs/domain.md:31`).
4. `rounding`: a price with more than two decimals is stored rounded, and the
   retry of its webhook is refused as another order
   (`internal/shop/service.go:95`; `docs/ngrok-live-interview.md:77`).
5. `stalled_claims`: a delivery longer than the lease has company
   (`sync_job_queries.go:4`; `docs/architecture.md:49`).
6. `shutdown`: a call cancelled by a shutdown leaves the row PROCESSING, because
   the write shares the cancelled context (`internal/sync/worker.go:222`;
   `docs/domain.md:45`). The job is delivered again after the lease, which is
   the safer outcome; `DeadJustified` states it as a property and holds.
7. `no_listener`: without a listener the loop never drains
   (`internal/sync/worker.go:104`; `docs/architecture.md:27`).

### Fairness

`SyncJobs`: the Go scheduler runs a ready goroutine (weak fairness of a
worker's steps), the HTTP client has a timeout (weak fairness of some failing
reply), the process is restarted by its supervisor (`Start`), time passes
(`Tick`). Strong fairness is assumed of two things: a row that is claimable again
and again is claimed, because `ClaimJob` orders by due time and takes the oldest;
and a job for which DEAD must be written is not stopped or crashed each time
before the write. Crashes, stops and failing queries may come for ever, a
database that fails every time may not: nothing could be settled then.

`OrderSync` takes these over and adds that a transaction that has begun ends,
that a process that is down is started, that it does not die each time between
its listener and its worker, and that one that stops goes on stopping or passes
its deadline, and ends. Nothing
is assumed of the providers: `ConfirmedIsSettled` speaks of webhooks that were
answered. It says that again and again a confirmed order is settled, rather than
once, so that a replay or a process that stops for good is not passed over.
`CallsReturn` is of the same form. `SapClient` assumes that an exchange ends, by its timeout, and that
goroutines run.

`WorkerLoop`: loop, listener and clock do not stand still, and a claim that is
tried again and again does not fail each time. `wakeups` adds that in the end
the process stays up, Watch succeeds and the connection stays up; `no_listener`
drops what is assumed of the listener, and has no crashes or failing queries
that could be blamed instead.

## Proofs

The theorems hold for every value of the constants that satisfies the named
ASSUMEs: limits, lease and the width of a cent are positive, delays and `MaxHold`
natural numbers, requests are shop or payment webhooks, there are as many call
objects as callers, and `Null` is none of the values it stands beside. TLC
evaluates them in each run. Three groups of theorems have a hypothesis besides,
and a run that violates the property without it: `MaxHold < StaleAfter` where
said below (`stalled_claims`), prices of whole cents in `RetriesAccepted`
(`rounding`), and one webhook of an order at a time in `SerialReconciled` (`skew`).

### SyncJobs

* `TypeCorrect`: `Spec => []TypeOK`. `TypeOK` is inductive with its part
  `WorkersOK` (a busy worker has a job, and its `now` is not older than its
  claim). One lemma per row operation says that it returns a row; the guard of
  `Tick` bounds a delivery's age.
* `SyncedSafe`: `Spec => []SyncedIsTrue`, without a bound on deliveries. The
  strengthening `SyncInv` adds that a worker has a success in hand only for an
  order that SAP has taken, which no other worker can undo.
* `ClaimExclusive` and `LeaseSafe`: if `MaxHold < StaleAfter` then
  `Spec => []OneClaimant` and `Spec => []HolderOwnsRow`, from their conjunction
  `LeaseInv`. `OneClaimant` is not inductive: a claim must be known to find
  no row that is in somebody's hands. `HolderOwnsRow` supplies it: a held row is
  PROCESSING and its lock is exactly as old as the holder's delivery, hence
  younger than the lease, hence not claimable. In turn `HolderOwnsRow` needs
  `OneClaimant`, or the end of one delivery would disturb another. Four lemmas
  cover the shapes of steps: a delivery ends, goes on, a free row changes, time
  passes.
* `BudgetSafe`: under the same hypothesis `Spec => []AttemptBudget`. The
  strengthening `BudgetInv` says that calls never exceed the attempts that the
  row has recorded and that a worker which has claimed and not yet called has
  one attempt in hand. It rests on the lease: with two claimants one could
  spend what the other has counted.
* `WindowSafe`: `Spec => WindowNeverRestarts`, with no bound on deliveries.
* `DispatchSafe`, `DeathSafe`: under the hypothesis `Spec => DispatchAllowed` and
  `Spec => DeadJustified`. `DeliveryInv` says that the copy which `deliver`
  decides from is not stale, that an answer was preceded by a call, and that a
  call counts as cancelled only for a worker that was stopped.
* `OutboxImplemented`: under the hypothesis `Spec => ImplementsOutbox`, the
  refinement of `Outbox`. The abstract phase of a job is a function of its
  status, `calls` is shared; claims, failed writes, crashes and time
  are stutters. That SAP is called for an open job within the limit is `LeaseInv`
  and `BudgetInv`; that a settled row is left only by the operator or by a writer
  of SYNCED whose answer was lost is `DeliveryInv`.

The hypothesis is needed: run `stalled_claims` is the counterexample to
`ClaimExclusive` without it.

### SapClient

* `TypeCorrect`, `RequestsExclusive`, `EntriesOwned`, `AnswersMine`: `TypeOK`,
  `OneRequestPerKey`, `EntryHasOwner` and `AnswerIsMine` always hold. One
  invariant, `CallInv`, ties the parts together: the owner of a call has it in
  the map under its key (`OwnerOK`); who refers to a call has its body
  (`ReferenceOK`); a follower's call has an owner with the follower's key or is
  over with an answer about the follower's order (`FollowerOK`). The last is why
  an object that is reused after it was collected cannot give somebody another order's answer. That there is always an
  object to take is a counting argument over `Callers` and `CallIds`.
* `DelaysHonoured`: `RetryAfterHonoured` always holds, from `HeaderInv` (the
  answers that are kept still have the delay of their header) and lemmas on
  `ParseRetryAfter` for every `MaxInt`, `Second` and header.

### WorkerLoop

* `TypeCorrect`, and `WakeupsKept`: `NoLostWakeup` always holds. It becomes
  inductive by stating it from the moment the timer is armed, before the loop has reached
  its select (`WakeupInv`), and with the fact that a loop which has a listener
  has gone back to the shortest reconnect delay (`DelayInv`). That the timer is
  armed for the earliest row is the least element of a set of numbers.

### OrderPayload and Webhooks

* `MatchesBags`: `sameOrderPayload` accepts two lists exactly if they are equal
  as bags, whatever their length and however the rows are listed, with no
  hypothesis. The two halves: a run of the loop that has paired everything is a
  bijection between positions of equal items; and if the bags are equal the loop,
  which takes the first free equal item and never goes back, is never stuck,
  since the copies of an item that are taken are fewer than those there are.
* `TypeCorrect`, `OutboxConsistent`, `CancellationQuiet`, `TerminalKept`,
  `OrdersKept`, `AckedEffective`: `TypeOK`, `PaidIffScheduled`,
  `CancelledIsQuiet`, `TerminalIsFinal`, `OrderNeverReverts` and
  `AckedTookEffect`, for any number of orders, requests and open transactions.
  All rest on `IntakeInv`. Its part about the tables says that the
  rows of an order agree (`RowsOK`), that a stored event is processed and has
  taken effect (`EventOK`), and that what was acknowledged is stored (`AckedOK`).
  Its part about an open transaction, `SlotInv`, says that what it has read is
  locked and so still true, that each of its writes is made under a lock and over
  a row that allows it, that the writes for an order belong together, and that at
  its commit the effect of its request is among them or in the tables. A step
  of one transaction leaves the `SlotInv` of the others alone because it touches
  only rows that it has locked: one lemma says so for commits, one for the
  statements before it, one for `JobMoves`.
* `RetriesAccepted`: if the prices in shop webhooks are whole cents, then
  `Spec => RetryNotRefused`. An acknowledged shop webhook is stored as a bag of
  its items, so its repeat is found equal by `MatchesBags`; a payment webhook is
  met by its own event. Run `rounding` is the counterexample without the
  hypothesis.
* `ShopNeverDeadlocks`: `OnlyPaymentsDeadlock` always holds. `LocksInv` says that
  a transaction holds keys of its own request only, none before it has recorded
  its event, and that a shop webhook holds its order before it asks for its
  payment. So everybody in a circle waits for an order or a payment, and whoever
  waits for a shop webhook waits for the order that it has created and not
  committed. Only another shop webhook waits for such a row, and that one has
  nothing yet that anybody waits for.
* `SerialReconciled`: `Spec /\ []OneAtATime => []Reconciled`. `OneAtATime` says
  that no two open transactions are about the same order; the code does not see
  to it, and run `skew` shows what happens otherwise, so it is a hypothesis about
  the traffic. `AgreeInv` adds to `Reconciled` what an open transaction has
  learned: an order that it has not found is still not there, and at its commit
  the rows as they will be agree. Transactions about other orders may
  overlap in any way; that their steps leave this alone is `IntakeInv`.

### OrderSync

The components' theorems are used, not repeated: `OrderSyncProofs` takes
instances of `WebhooksProofs` and `SyncJobsLeaseProofs` and proves first that they
speak of the same rows and steps as the instances in `OrderSync`.

* `DeliveryImplemented`: `Spec => Delivery!Spec`. Each step of the service is a
  step of `SyncJobs` or leaves its variables alone: a commit that schedules is
  `Schedule` with a due time within the hardware delay, the hooks are `Start`,
  `Stop` and `Exit`, a process that dies is `Crash`.
* `IntakeInService`: `PaidIffScheduled`, `CancelledIsQuiet`, `AckedTookEffect` and
  `OnlyPaymentsDeadlock` hold in the service. It does not implement the
  specification of `Webhooks` step by step, because one death ends several
  transactions. So `WebhooksProofs` proves its invariants also for `ServiceStep`, which is a step of `Webhooks`, a move of jobs
  that are there (`JobsMove`), or the loss of a set of transactions (`Dropped`).
* `LeasesInService`: if `MaxHold < StaleAfter`, then `OneClaimant`,
  `HolderOwnsRow`, `AttemptBudget` and the refinement of `Outbox` hold in the
  service.
* `TypeCorrect`, `PoolSafe`, `PaidSafe`, `HardwareSafe`: `TypeOK`,
  `ClosedPoolIsQuiet`, `OnlyPaidSent` and `HardwareWaits`, for any number of
  processes, requests and orders. Their inductive invariant, `ServiceInv`, is the
  components' invariants and what ties them together. `ProcessOK`: the phase of
  the hooks determines the worker's context, a worker whose process is down has
  nothing in hand, a process that has waited for its worker and its requests
  before it closed the pool has neither, and one whose pool is closed has a worker
  that is cancelled or gone. Lemma `CancelledIsHarmless` takes `ClosedPoolIsQuiet`
  from there: such a worker claims nothing and, over all the ways in which its
  delivery may end, leaves the row to the next claimant. `SentOK`:
  a job in hand or at SAP is there, so its order is paid by `PaidIffScheduled`.
  `WaitOK` and `BusyWaited`: a hardware order has waited, or it is PENDING with a
  due time that makes up for the rest, and who holds a job holds one that has
  waited. `HardwareWaits` alone is not inductive: a job that is claimed again
  after a crash is due by its lease, not by its due time, and only the fact that
  it was claimed before says that it has waited.
* `SerialReconciled`: `Reconciled` in the service, if webhooks of one order do not
  overlap. In the instance of run `system`, which has one slot, that hypothesis
  holds; a server with more does not see to it.

### What is not proved

Liveness under fairness is outside what the prover handles: `Settles`,
`DueIsClaimed`, `CallsReturn` and `ConfirmedIsSettled` stay with TLC. Every safety
property that a passing run checks has a theorem. The library's induction theorems
take an operator as parameter and cannot be used; where a proof needs induction
it takes the least counterexample, by `LeastNatural` in `LeastNaturals`.

## Not modelled

Decoding, validation messages, authentication, request ids and health check of
the router, none of which changes state; the text of answers; parsing of the
environment; logging; the pool; running the migration; `verifySchema` and the
flags of the admin command; the Swagger text; JSON encoding of an order, and its
failure. A failing `server.Serve` is logged and nothing reacts. In `OrderSync`
the client and the loop are left at what `SyncJobs` says of them: a call returns
something, and a due row is claimed.

## Plan

Done: the models of all components and their composition, and the proofs of all
their safety properties. Left, if the code moves on:

1. Compose `WorkerLoop` and `SapClient` with `OrderSync` in place of what
   `SyncJobs` says of them, if the loop or the client gets state that delivery
   depends on.
2. If the webhook handlers are changed to lock an order before they look for its
   payment, replace the hypothesis `OneAtATime` of `SerialReconciled` by that lock
   and turn run `skew` into a passing one.
