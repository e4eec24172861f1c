# Seat reservation: TLA+ models, model checks and proofs

The repository is a small seat-booking system: an **auth** service, a
**seat-reservation** service, a **payment** service, each with its own PostgreSQL
database, RabbitMQ between the last two, and a web page. This directory models
the parts in which something can go wrong that a unit test would hardly reach:
transactions that race, messages that come twice, late or in the wrong order,
processes that crash between two statements. `PROJECT.json` records, for every
definition, the source lines it stands for.

Paths below are relative to `src/apps/` unless they start with `docs/`,
`packages/` or name a file of this directory.

## 1. Inventory of the system

| Component | State it keeps | Operations | Interacts through | What makes it correct |
|---|---|---|---|---|
| Seat holds and seat map (`seat-reservation/src/holds`, `seats`) | `seats.status`, `holds`, `outbox`, `consumed_events` | hold, cancel, sweep, reserve, release | HTTP, sweeper timer, payment events | one HELD row per seat and user; `seats.status` agrees with `holds`; outbox rows are true; finished holds stay finished; every hold ends |
| Payment event consumer (`seat-reservation/src/events`) | none of its own | `payment.succeeded` → reserve, `payment.failed` → release, invalid → dead-letter | queue from payment | duplicates reserve once; an acknowledged event was applied |
| Outbox worker (one per service, same code) | `outbox.state`, `attempts`, `next_attempt_at`; a claimed batch in memory | recover, claim, publish, delete, retry, give up | table shared by replicas; broker confirms | at-least-once: a row disappears only after the broker has the event; DEAD only after real failures |
| RabbitMQ connection (`*/src/events/rabbit.service.ts`) | `conn`, `pubChannel`, `connecting` | connect, publish, consume | all producers and consumers; readiness probe | one connection for all callers; a caller gets a result or an error; topology before use |
| Service bootstrap (`*/src/main.ts`, `health`) | the process | migrate, start workers, subscribe, listen, exit | database, broker, operator | ends up serving on a complete schema and topology, or exits |
| Checkout (`payment/src/checkout`) | `payment_intents` | look up key, call PSP, insert | HTTP, PSP | one intent per idempotency key |
| Webhook intake and reprocessor (`payment/src/webhooks`) | `webhook_inbox`, `setImmediate` tasks | acknowledge, apply, mark processed, reprocess | PSP, timer | each intent settled once and announced truthfully; acknowledged webhooks are processed |
| Seat event consumer (`payment/src/events`) | none of its own | `seat.released` → fail PENDING intents of the seat | queue from seat-reservation | cancels the intents of that hold |
| Reservation saga | both databases and the two queues | the composition of the above | - | reserved only if paid, across databases |
| Sessions (`auth/src/sessions`, `auth/src/auth`) | `refresh_tokens`, `users.token_version` | login, refresh (rotate / grace / reuse), logout, logout-all | HTTP | one valid token per family; a revoked session stays revoked |
| Circuit breaker (`payment/src/psps/circuit-breaker.ts`) | state, failure count, open-since | call, success, failure | concurrent PSP calls | closed exactly below the threshold; after a failure series the provider is left alone for the reset time |
| Rate limiter (`*/src/common/rate-limit.guard.ts`) | a sorted set of stamps by key, in Redis | purge, add, count, expire | HTTP, Redis | at most `max` accepted requests per window |
| Migration runner (`*/src/migrations/run.ts`) | applied migrations | apply pending files | several replicas at start | each file applied once, in order, or not at all |
| Live seat feed (`seat-reservation/src/seats/seat-event.bus.ts`, SSE) | subscribers | emit, refetch | browser | the browser ends up showing the table |
| Audit log, metrics, health, logging, configuration, nginx | append-only or none | - | - | no state the protocol depends on |

### What is hard

* **Transactions that interleave.** Hold requests, the sweeper, cancellations and
  two message consumers write the same rows; only row locks, two partial unique
  indexes and `WHERE status = ...` conditions order them.
* **State read before an await and used after it.** `release` looks a hold up and
  releases it in another transaction; `processRow` counts from the `attempts` its
  claim read; a checkout looks its key up, calls the PSP, then inserts.
* **Crashes between two steps.** After the broker's confirm and before the DELETE;
  after a webhook was acknowledged and before it was processed.
* **Delivery.** Events are delivered at least once, in no order, and the two
  consumers deduplicate differently (one by `consumed_events`, one not at all).
* **Time.** Holds expire between checkout and webhook; claims are judged old by a
  timestamp the claim does not write; the limiter's stamp is taken before a
  command that Redis executes later.
* **Starting.** Replicas migrate one database at the same time; the outbox timer and
  the probe call `connect()` while the consumer's first call still dials; nothing
  ever replaces a promise that was rejected or a connection that was closed.
* **Calls in flight.** Results of the payment provider reach the breaker in a state
  that other calls have changed since.

`PROJECT.json` lists each of these under `hazards`, at its line, with the
properties that would notice it going wrong, or the reason none covers it yet.

## 2. Modules

| Module | Models | Kind |
|---|---|---|
| `SeatService` | seat-reservation service over `seat_db` | component |
| `PaymentService` | payment service over `payment_db` | component |
| `OutboxRelay` | the outbox worker, several replicas | component |
| `RelayClaims` | `OutboxRelay` with the age of the claims as history | component, for one run |
| `EventDelivery` | what an outbox promises: at-least-once delivery | abstract specification |
| `SeatLease` | what the seat service promises: seats as leases | abstract specification |
| `BookingContract` | what both services promise a customer, read as one party | abstract specification |
| `LoginSession` | what a token family promises: a login session | abstract specification |
| `SchemaRollout` | what migrations and `bootstrap()` promise: one history of the schema | abstract specification |
| `ReservationSaga` | both services and their queues | composition |
| `AuthSessions` | refresh tokens of the auth service | component |
| `MigrationRunner` | `run.ts`, in several replicas over one database | component |
| `RabbitConnection` | `RabbitService`: its three fields, `connect`, `doConnect` | component |
| `ServiceBoot` | `bootstrap()`: migrations, workers, connection, port; extends the two above | composition |
| `RateLimiter` | `RateLimitGuard` over one Redis key | component |
| `CircuitBreaker` | `CircuitBreaker.exec` | component |
| `CheckoutGate` | the way of `POST checkout` to the provider; extends the two above | composition |
| `MCSeatService`, `MCPaymentService`, `MCOutboxRelay`, `MCReservationSaga`, `MCAuthSessions`, `MCServiceBoot`, `MCCheckoutGate` | instances for TLC | model checking |
| `SeatServiceProofs`, `OutboxRelayProofs`, `PaymentServiceProofs`, `AuthSessionsProofs`, `ServiceBootProofs`, `CheckoutGateProofs`, `ReservationSagaProofs` | theorems | proofs |

`ReservationSaga` instantiates `SeatService` (with idempotency keys for event
ids) and `PaymentService` over its own variables and drives them with deliveries
out of each other's outbox. It does not carry the relay's internals: `OutboxRelay`
is shown to implement `EventDelivery`, and what the saga assumes of delivery
(an event committed to an outbox may be delivered, any number of times, in any
order, never one that was not committed) is weaker than that.

Definitions named *faulty variant* are not part of any specification. They are
plausible mistakes; each property is known to fail when one of them replaces the
definition that follows it.

The abstract specifications have no queries, requests, messages, tasks or retries.
Each is a handful of actions whose guards are the promise; the detailed module
instantiates it over expressions of its own state, and the property
`...!...Spec` says that every step of the code is one of these actions or invisible:

| Property | Instantiated in | Mapping |
|---|---|---|
| `AtLeastOnce` | `OutboxRelay` | who is responsible for an event, from the row's `state` |
| `SeatsAreLeased` | `SeatService` | the tenants of a seat are its HELD rows with their users; `over` is `expired`, `shown` is the column `seats.status` |
| `ContractKept` | `ReservationSaga` | the stage of a hold is its row's status, a payment is its intent's status and hold, `spent` is `consumed_events` |
| `FamiliesAreSessions` | `AuthSessions` | the valid tokens of a session are its family's tokens with `revoked_at IS NULL`; it is forked if a rotation came too late (`late`) and has ended if it is `Dead` |
| `OneSchemaHistory` | `ServiceBoot` | `done` is `_migrations`, `open` the processes past `runMigrations` |

What these specifications allow is as telling as what they forbid, and where the code
promises less than one would like they say so: a lease may start on a seat that was
sold (`seat_oversold`), a payment may complete for a hold that was given up
(`saga_paid_released`), a session may fork when an exchange overlaps another one or
a logout.

### SeatService

State: `seats` (status by seat), `holds` (row by id), `expired` (holds with
`held_until < NOW()`), `outbox` (all rows ever appended; the relay deletes rows
later), `consumed` (`consumed_events`), `cancelling` (holds a release request has
read and not yet written).

Actions: `insertHoldTx` (with the lazy cleanup and both unique indexes),
`FindHoldToCancel` / `CancelHold` (the two statements of
`POST /seats/:id/release`), `Sweep` (one tick: any set of expired HELD rows up to
the limit, because of `SKIP LOCKED` and a query without `ORDER BY`),
`reserveHold`, `OnPaymentFailed`, and `HoldExpires` for the clock. Each database
transaction is one action; the module's header says why these transactions are
serialisable. A transaction that aborts, a 409 and a no-op change nothing and are
stuttering steps.

### PaymentService

State: `intents` by idempotency key, `checkouts` (requests between the PSP call
and the INSERT), `inbox`, `tasks` (running `processEvent` or reprocessor calls
with the step they are at), `payOutbox`, `lostTasks`.

Actions: `StartCheckout` / `createIntent`, `webhook` (store and acknowledge),
`processEvent` (up to its last await), `markWebhookProcessed`, `reprocess` (one
row of a tick, also one whose first task still runs), `TaskLost` (crash or a
query that throws), `markFailedBySeatId`. The PSP (outside the repository's
control) is modelled by what the code relies on: it derives the intent from the
idempotency key and reports, any number of times and in contradicting ways, on
intents whose client secret was handed out. A webhook for an intent without a row is left out: the client secret
that a payment needs is handed out after the INSERT, and the code would store such a
webhook, find no row to update and mark it processed. `reprocess` takes any
unprocessed row, where the query takes the 50 oldest: more behaviours for the safety
properties, and for liveness an assumption that fewer than 50 rows fail again and
again. A row of `payOutbox` has `nth` in place of its id, so that a second
event about an intent would count as one. Amounts, currency, signatures and the
freshness check only reject requests before any write and are left out. Events
carry the one bit of `traceId` the consumer tells apart: whether it is a UUID.

### OutboxRelay and EventDelivery

State: the rows' `state`, `attempts` and age class of `next_attempt_at`; per
replica `pc`, `batch`, the `attempts` it read (`snap`) and the row in hand with
its confirm (`cur`). History: `published`, `failures`.

Actions: `Recover`, `LockBatch` and `MarkProcessing` (the claim: its `SELECT ... FOR
UPDATE SKIP LOCKED` and its `UPDATE` with the `COMMIT`), `Publish`, `processRow`,
`Crash` of a replica (which rolls an unfinished claim back); `Append` of the business
transaction; `Age` for the clock. A claim passes over the rows that another
replica has locked, and `processRow` waits for a row that is locked. Both
services have their own copy of this worker; the copies differ in logging only,
and the map names lines of both.

`EventDelivery` keeps who is responsible for an event (`custody`) and what the
broker has. The mapping is `custody == CustodyOf(state[r])`. Its `Resume` step is
there because the code needs it: a slower replica with a stale count can turn a
DEAD row PENDING again.

The table does not record when a row was claimed. `RelayClaims` adds the history
`recent`, the PROCESSING rows whose claim is under five minutes old, so that
`RequeueOnlyOldClaims` can compare what the recovery takes with what its comment says
it takes.

### ReservationSaga

`SeatStep` and `PaymentStep` are the steps of one service alone (the client
checks out with a hold that exists and its seat, as the web page does);
`OnPaymentSucceeded`, `OnPaymentFailed`, `OnInvalid` and `OnSeatReleased` deliver
a committed event. `delivered` and `dlq` record what the seat service has
acknowledged and rejected. Events stay available, so each may be delivered again
at any later time.

### AuthSessions

State: `tokens` (rows of `refresh_tokens` by id, with the family, the user, the
`rotated_to` link and whether the grace window is unset, open or over), `reqs` (what
each request decided when it read its row) and `late` (history: families in which
a rotation wrote a row that had been revoked since it was read).

Actions: `issueNewFamily` (login), `refresh` (read and decide, `RefreshBranch`),
then `rotate` or `revokeFamily`; `logout` (read), then `revoke` or
`revokeAllForUser`; `GraceEnds` for the clock; `RequestLost`. Expired and unknown
tokens, wrong passwords and the retry inside the grace window write nothing and
are stuttering steps. `users.token_version` is left out: it is copied into access
tokens and compared nowhere.

`revokeFamily` and `revokeAllForUser` are one action each. In PostgreSQL a row that a
rotation inserts while the UPDATE runs escapes it; here that rotation comes after the
revocation, as a late one, and leaves the same rows.

The comment at `auth/src/sessions/sessions.repository.ts:55` says that the rotation
"Throws if old row is already revoked"; `rotate` locks the row and does not ask.
Two refreshes that read the same row both rotate it, and a refresh that read it
before a logout revives the session. `late` marks exactly these families, so
that `OneLiveToken` says, and its proof shows, that nothing else can do it.

### MigrationRunner, RabbitConnection and ServiceBoot

State: per replica the query `runMigrations` is at (`mig`) and the files it found
missing (`todo`); of the database, whether `_migrations` exists, its rows
(`recorded`) and how often each file took effect (`effects`). Per instance of
`RabbitService` the fields `conn`, `pubChannel` and `connecting` (the promise with
how far its `doConnect` has come), the failed attempts and the number of
`doConnect` calls; of the broker, whether it is up, the exchange and the bound
queue exist. Per process the phase of `bootstrap()` and whether a publication or a
probe waits in `connect()`.

Actions: the queries of `runMigrations` one by one (`CheckTable`, `CreateTable`,
`ReadApplied`, `runSqlBlock`, `RecordAndCommit`), each of which may fail
(`DatabaseFails`); the awaits of `doConnect` (`DialFails`, `Dial`, `CreateChannel`,
`AssertExchanges`, `BindQueue`); `StartWorkers`, `ConsumerConnected`, `Subscribe`,
`BootFails`, `Stop`; `publish` / `PublishResumes` and `ready` / `ProbeResumes` up to
and after their wait for `connect()`. External and modelled from how the code uses
them: PostgreSQL (a file and its row are one transaction; a second transaction
that creates the same objects waits for the first; `CREATE TABLE IF NOT EXISTS`
can fail on the catalog's index), amqplib (a lost connection is reported to the
calls in flight; a connection error without a listener ends the process, an
orderly close does not) and a durable broker. An outage turns every open connection
`lost`; each client notices at a time of its own (`OutageNoticed`), and the broker may
be back, and another client connected to it, before that.

A process has two instances of `RabbitService`, since `HealthModule` provides its
own. The consumer and the outbox worker share the other. The module follows the
payment and the seat service, which differ in names only; auth's `bootstrap()` is
the migrations and the port. The three copies of `run.ts` are the same file, and
the map names lines of each.

### RateLimiter, CircuitBreaker and CheckoutGate

State: the clock, the place and stamp of each request of one client, the sorted
set and its expiry, the requests let through; the breaker's `state`, `failures` and
`openedAt` and (history) the time of the last failure.

Actions: `Arrive` (the stamp is taken and the MULTI sent), `Limit` (Redis executes
it, in order and at most `Delay` later), `LimiterFails`, `Expire` (PEXPIRE), `Tick`;
`AnsweredEarly`, `CircuitOpen`, `CallPsp` (the breaker lets the call start) and
`PspAnswers` (its result, error or timeout, whatever the breaker's state is by
then); `Restart`, which forgets the breaker but not the window.

## 3. Runs

| Run | cfg | Expectation | Shows |
|---|---|---|---|
| `seat_service` | `SeatService.cfg` | pass | consistency of the four tables, refinement of `SeatLease`, and `EveryHoldEnds` |
| `seat_oversold` | `SeatServiceOversold.cfg` | violation | a reserved seat can be sold again |
| `relay` | `OutboxRelay.cfg` | pass | no event lost, DEAD only after real failures, refinement of `EventDelivery`, every row published or parked |
| `relay_requeue` | `RelayClaims.cfg` | violation | one replica's recovery takes a row that another, live one has just claimed |
| `payment_service` | `PaymentService.cfg` | pass | one truthful event per settled intent; webhooks are processed in the end |
| `saga_safety` | `ReservationSaga.cfg` | pass | reserved only if paid; each service sees only behaviours its own specification allows; refinement of `BookingContract` |
| `saga_paid_released` | `SagaPaidReleased.cfg` | violation | paid, and the hold is gone |
| `saga_wrong_cancel` | `SagaWrongCancel.cfg` | violation | a late release cancels the next user's payment |
| `saga_dead_letter` | `SagaDeadLetter.cfg` | violation | a reprocessed payment ends in the dead-letter queue |
| `auth_sessions` | `AuthSessions.cfg` | pass | rotation chains, one valid token per family, refinement of `LoginSession` |
| `service_boot` | `ServiceBoot.cfg` | pass | refinement of `SchemaRollout`, one connection, nothing serves before its queue is bound, no boot and no caller of `connect()` hangs |
| `checkout_gate` | `CheckoutGate.cfg` | pass | the window's limit; the breaker's count fits its state and it leaves a failing provider alone |

### Properties of the passing runs

* `OneActiveHold`, `SeatMirrorsHolds`: however the five writers interleave, a seat
  and a user have one HELD row, and the status the browser sees is right.
* `OutboxTellsTheTruth`, `SilentReleaseIsTakeover`: what is announced happened,
  what happened is announced, with one exception that is made precise (the lazy
  cleanup).
* `OneEventPerReservation`, `FinishedHoldsNeverChange`: duplicates and late
  requests have no second effect.
* `SeatsAreLeased`: hold requests, cancellations, sweeps and payment events,
  however they interleave, never take a seat from a tenant whose time is not over,
  give a seat or a user a second lease, or show a seat as HELD without one.
* `NoEventLost`, `DeadOnlyAfterRetries`, `MemoryIsSound`, `AtLeastOnce`,
  `EventuallySettled`: the relay under crashes, overlap and lost confirms.
* `EventsMatchIntents`, `ProcessedMeansSettled`, `CompletedOnlyIfPaid`,
  `SettledIntentsNeverChange`, `WebhooksEventuallyProcessed`: the payment tables
  under duplicated and contradicting webhooks, lost tasks and the reprocessor.
* `ReservedOnlyIfPaid`, `AcknowledgedMeansApplied`, `ServicesImplemented`: across
  the two databases.
* `ContractKept`: with the two databases read as one, no hold and no payment makes a
  step that a single party seeing both would not have allowed; above all, a
  reservation spends, once, a completed payment for the very hold it turns RESERVED.
* `ChainsWellFormed`, `OneLiveToken`, `FamiliesAreSessions`: refresh tokens under
  overlapping refreshes, reuse detection, logout and logout-all. The last one
  includes that neither a retry in the grace window nor any other late request
  revives a session that has ended (`DeadFamiliesStayDead`, which is also a theorem).
* `OneSchemaHistory`: replicas that race from lists read too early, fail or die in the
  middle of a file. It implies `MigrationsAtomic`, `AppliedInOrder` and
  `ServesMigratedSchema`, which are theorems of their own.
* `SingleConnection`, `BoundBeforeServing`, `BootEnds`, `NoCallWaitsForever`: the
  callers of `connect()` under outages, closed connections and rejected promises.
  The code never reconnects; what the properties say is that everybody is told.
* `WindowLimit`: no window holds more accepted requests than the limit, although
  stamps, execution, purge and expiry of the key go by different clocks. The
  window it speaks of is shortened by `Delay`, see section 4.
* `ClosedBelowThreshold`, `BacksOff`: calls that overlap the breaker's transitions.

### Bounds, and why they are enough

* Seats, 2 seats, 2 users, 3 holds, 2 events, batches of 1: two users can race for
  one seat and one user for two seats, a third hold can take over an expired one,
  and two expired holds exceed a batch. `EveryHoldEnds` is about finitely many holds:
  an endless supply of newly expired ones could keep the sweeper, whose query has
  no order, from a given one for ever.
* Relay, 2 rows, 2 replicas, batches of 1, 2 attempts, 2 crashes: replicas overlap on
  a row after recovery, one with a stale count; one row can be given up while the
  other is published; the due rows exceed a batch; each replica can crash.
* Payment, 1 key, 2 holds, 2 webhooks, 1 lost task: two checkouts with one key and
  different holds race, two webhooks contradict each other, and a reprocessed
  task overlaps the first one.
* Saga, 1 seat, 1 user, 2 holds, 2 keys, 1 webhook: a hold ends and another starts
  on the seat while events of the first are under way, with a payment each.
  Task loss is left to `PaymentService` and to `SagaDeadLetter.cfg`.
* Auth, 2 users, 4 tokens, 2 requests: two refreshes overlap on one token, or a
  refresh with a logout, while a second session of the same or another user is
  alive; a chain can grow past the token whose reuse is detected.
* Boot, 2 replicas, 2 files, 2 dial attempts, 3 starts, 1 outage: both replicas race for
  every file, one can overtake the other's list, a dead one can come back while
  the other serves, and an outage can exhaust the attempts or hit any await.
* Gate, 4 requests, a limit of 2 in a window of 3 ticks, delay 1, threshold 3, reset
  time 1, 5 ticks, 1 restart: a full window slides by, the key expires while a
  MULTI is on its way, and calls in flight report before, during and after the
  breaker's open phase. One request more takes TLC past the time it is worth.
* Symmetry is declared only in runs without liveness properties, over sets whose
  members the modules never tell apart.

`CHECK_DEADLOCK FALSE` is set where the bounded supply of holds, keys and webhooks
ends; the services themselves may simply be idle. The relay always can tick, and
its runs check for deadlock. The number of starts and of clock ticks is bounded too.

### Fairness

* `SeatService`: a hold's time passes, and the sweeper's `setInterval` keeps
  firing. Users and the payment service promise nothing.
* `OutboxRelay`: time passes and a replica's timer and event loop go on. Nothing
  is assumed of the broker: `EventuallySettled` holds because failures lead to
  DEAD.
* `ServiceBoot`: the database answers, the timers of the dial loop fire, a lost connection
  is noticed in the end, and the event loop resumes what was awaited. Nothing is
  assumed of the broker, which may stay down, or of the operator, who need not
  restart anything.
* `PaymentService`: the reprocessor's timer keeps firing, and a task that is not
  lost goes on. Losses are bounded by `MaxFailures`, as a task cannot be lost for
  ever if the process is ever up long enough.

## 4. Disagreements between code and documents

1. **Overselling** (`seat_oversold`). `insertHoldTx` writes `seats.status = 'HELD'`
   without reading it, and the unique indexes cover HELD rows only. The rule that
   only AVAILABLE seats can be held is in `web/index.html:123` alone.
2. **Early re-queue** (`relay_requeue`). "re-queue PROCESSING rows that have been
   stuck for > 5 min" measures `next_attempt_at`, which the claim does not set. In the
   run a replica claims a row that has been due for long, and the recovery of
   another one puts the row back to PENDING although the claim is new and the first
   replica is alive. The effect is a duplicate publication.
3. **Paid but released** (`saga_paid_released`). Nothing relates the completion of a
   payment to the state of its hold, and nothing refunds.
4. **Wrong cancellation** (`saga_wrong_cancel`). `seat.released` is applied by seat,
   without deduplication, so it can hit the intent of a later hold.
5. **Dead-lettered payment** (`saga_dead_letter`). The reprocessor's `traceId` is not a
   UUID, the contract requires one, and the seat service rejects the event.

Met while modelling, without a run of their own:

* **Silent failures.** `payment/src/events/seat-events.consumer.ts:17` promises
  `payment.failed.v1`; `markFailedBySeatId` fails every PENDING intent of the seat and
  announces the first. Its only consumer ignores the event once the hold is gone.
* **Sticky readiness.** The repository's README (line 245) says the probe checks
  RabbitMQ. It asks for a connection once: afterwards it answers ok although the
  connection is lost, or degraded although the broker is back, and it watches a
  connection that neither the consumer nor the outbox worker uses.
* **Scaling a fresh database.** README:91 offers `--scale seat-reservation=3`. On an
  empty database the replicas that lose the race for `_migrations` or for a file
  exit with 1, and the compose file restarts nothing. `BootEnds` counts an exit as
  an end; `OneSchemaHistory` shows that the race does no harm to the schema.
* **A shorter window.** `WindowLimit` is false for the full window. A MULTI executed late
  sets the key's expiry and purges by a clock that is ahead of stamps taken
  earlier, so a window loses as much as Redis was late. Replicas in front of one
  Redis, whose MULTIs need not arrive in the order of their stamps, can exceed the
  limit further; the model has one process.
* **A late success** closes an open breaker at once, before the reset time. `BacksOff`
  is about series of failures only.

## 5. Proofs

TLC checks small instances; the theorems below hold for any sets of seats, users, holds,
keys, webhooks, rows and replicas and any values of the numeric constants that satisfy
the modules' `ASSUME`s (finite sets of hold and event ids, positive limits, natural
bounds).

**SeatServiceProofs.** `TypeCorrect`, `ActiveHoldsUnique`, `SeatMapCorrect`,
`EventsTruthful`, `SilentReleases`, `ReservationsIdempotent`, `FinishedHoldsFinal`,
`LeasesImplemented`. `StepCases` reduces every step to one of four effects on `holds`
(insert, release of a set, reserve, none), described row by row by `InsertEffect`,
`ReleaseEffect` and `ReserveEffect`; each invariant then needs one case per effect.
`SeatMirrorsHolds` is not inductive alone: that a reservation takes the only HELD row
off its seat needs `OneActiveHold`. `OneEventPerReservation` counts with the cardinality
theorems, which is where finiteness is used. `LeasesImplemented` refines `SeatLease`
case by case: `InsertLets`, `ReleaseVacates`, `ReserveSells` and `ExpiryIsTimeOver` map
the four effects to `Let`, `Vacate`, `Sell` and `TimeOver`. It needs `OneActiveHold`:
the tenants of a seat are one at most, so that a release or a reservation, which write
the seat's status from one row, end all there is on the seat.

**OutboxRelayProofs.** `TypeCorrect`, `EventsNotLost`, `DeadRowsWereTried`,
`RelayImplementsDelivery`. The inductive invariant is `IInv == TypeOK /\ MemoryIsSound
/\ NoEventLost /\ DeadOnlyAfterRetries`. `MemoryIsSound` is the strengthening: what a
replica remembers from before its last await (the confirm, the attempts count, which
rows exist) is still true although other replicas have written the row since. Its part
`LocksExclude` says that no two claims hold the same row and that a row held by one is
still PENDING; without it a claim could turn a row PROCESSING that has been deleted. The
run `relay` checks it too. `MemoryStaysSound` states that part by itself. The refinement
maps each step to a step of `EventDelivery` or a stutter.

**PaymentServiceProofs.** `TypeCorrect`, `EventsTruthful`, `ProcessedIsSettled`,
`CompletedIsPaid`, `SettledIntentsFinal`. Every step that writes intents is reduced
(`StepCases`) to `Settle` (a set of PENDING intents leaves PENDING and one is announced)
or to an INSERT. The strengthening `TasksAreBacked` links a task to its stored webhook,
the webhook to its intent, and says that a task which has only its mark to make has had
its effect.

**AuthSessionsProofs.** `TypeCorrect`, `ChainsCorrect`, `OneLiveTokenPerFamily`,
`DeadFamiliesFinal`, `SessionsImplemented`. `StepCases` reduces a step to one of the
effects on the table (a token issued, a grace window over, a rotation, a revoked set,
nothing). A new family has no other token because of `ChainsWellFormed` (each family's
name is a stored token), which is the strengthening `OneLiveToken` needs.
`SessionsImplemented` refines `LoginSession`: `IssueLogsIn`, `RotationExchanges` and
`RevocationCloses` map the effects to `Login`, to `Exchange` (or `LateExchange`, when
the token was revoked after it was read) and to `Logout`, `Close` or `CloseAll`, and
`DeadStep` (also behind `DeadFamiliesFinal`) discharges the abstract `Finish`: what has
ended stays ended. That a rotation keeps to the family and user of its old row is
`ChainsWellFormed`. The assumptions are that the empty link is no token and the owner of
a token that was never issued (the mapping's "nobody") no user.

**ServiceBootProofs.** `TypeCorrect`, `MigrationsStayAtomic`, `MigrationsStayInOrder`,
`SchemaComplete`, `OneConnection`, `QueueBound`, `RolloutImplemented`. `MigrationSteps`
and `ConnectionSteps` reduce a step of the whole to a step of one runner or of one
`RabbitService`. The strengthening of `MigrationInv`: a replica's list contains every
file that is not recorded, so that the predecessors of its first file are recorded and
an empty list means a complete schema. `ConnectionInv`: `doConnect` has run once exactly
when the promise is set, and a promise resolves only after the binding. `SequenceInv`
ties the phase of `bootstrap()` to both. `RolloutImplemented` refines `SchemaRollout`:
of all a replica does in `runMigrations` only the COMMIT is visible (`OnlyCommitsShow`),
and by the same strengthening it commits the successor of exactly what is recorded;
`WorkersFindSchema` is the guard of `Open`. The assumptions are that a process has two
instances and tries to dial at least once.

**CheckoutGateProofs.** `TypeCorrect`, `LimitHolds`, `BreakerClosedBelowThreshold`,
`BreakerBacksOff`. For the limiter, `LimiterInv` says that an accepted request which is
no longer in the sorted set is too old, by the clock and by every stamp under way, for a
window shortened by `Delay`; `Windows` then counts, with the cardinality theorems, for
all windows and not only those up to now. For the breaker, `BreakerInv` says that one
which is not closed was opened at the last failure and is half open only after the reset
time.

**ReservationSagaProofs.** `TypeCorrect`, `ReservedIsPaid`, `AcknowledgedIsApplied`,
`ServicesCarryOver`, `ContractIsKept`, `SeatTheoremsCarryOver`,
`PaymentTheoremsCarryOver`, `SeatsTraceToPayments`. `SagaInv` follows a reservation back
across the databases: a used event id has a COMPLETED intent and reserved its hold
(`ConsumedReserved`), an event tells of an existing intent and its hold
(`EventsBacked`), and a hold that an intent or a checkout names has a row
(`HoldsKnown`). None of these is ever taken back, and that is why duplicates, delays and
reordering do no harm: `SeatChange` and `IntentsKept` say what a step of one service
leaves alone, and each delivery keeps `SagaInv` by one of `SeatSideKeeps`,
`PaymentSideKeeps` and `ReservationKeeps`. `AcknowledgedIsApplied` needs
`ConsumedReserved`: a known event id is acknowledged without a write, and its hold is
not HELD because that id reserved it. `HoldsKnown` rests on the clients' checking out
with a hold that exists; the checkout handler does not ask. `ServicesCarryOver` maps
each step of the saga to a step or a stutter of either service, so the safety theorems
of `SeatServiceProofs` and `PaymentServiceProofs` hold of the tables in the saga too.
That step is carried out: the proof modules of the services are instantiated over the
saga's variables (`SeatProofs`, `PayProofs`), their assumptions follow from the saga's
(`SeatConstants`, `PaymentConstants`), and `SeatTheoremsCarryOver` and
`PaymentTheoremsCarryOver` state all their invariants as theorems of the saga.
`SeatsTraceToPayments` joins them: a seat that is shown RESERVED has a reserved hold
(`SeatMirrorsHolds`), the hold a COMPLETED intent of its own (`ReservedOnlyIfPaid`), the
intent an announced event (`EventsMatchIntents`) and a stored webhook "succeeded"
(`CompletedOnlyIfPaid`). No service can state it alone. `ContractIsKept` refines
`BookingContract`, with one lemma per side: `SeatStepContract` (the effects of
`StepCases`, as `PlaceHold` and `GiveUp`), `IntentContract` (`Order`, `Pay`, `Cancel`)
and `ReserveContract`. The guard of `Reserve` speaks of a payment in the other database
at the time of the delivery; it holds because of `EventsBacked`: what an event says of a
payment is still so, however late or often it is delivered. The assumptions are those of
the two services (`SagaAssumption`).

**Only model-checked.** The liveness properties (`EveryHoldEnds`, `EventuallySettled`,
`WebhooksEventuallyProcessed`, `BootEnds`, `NoCallWaitsForever`): the prover does not
handle fairness.

## 6. Not modelled, and what could follow

Left out:

* **Live seat feed.** An in-process emitter that nothing on the server reads back. A
  notification only makes the browser fetch the seats table, which `SeatService`
  has. The sweeper notifies before its COMMIT, so a browser can fetch the old status
  and keep it until the next notification; the hazard is listed without a property.
* **Audit log.** Inserts that nothing reads.
* **Registration and `users.token_version`.** One INSERT under a unique index, and a
  counter that is copied into access tokens and compared nowhere.
* **Configuration, metrics, logging, correlation ids, nginx, rendering.** No state the
  protocol depends on.
* **What the readiness probe answers**, beyond its call of `connect()`.
* **Amounts, prices, signatures, passwords.** They reject a request before any write.

What could follow: the saga under fairness, where a paid hold ends RESERVED unless it is
released first; the browser's view of the seats as a component of its own.
