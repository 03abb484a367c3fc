# EventCart: a formal model

EventCart is a learning backend for event-driven order processing: a FastAPI
service writes orders and events to PostgreSQL in one transaction, and a
dispatcher drains the outbox table through local handlers that reserve stock,
authorise payments, write invoices, send notifications and decide the order.
This directory holds TLA+ modules of its core, TLC configurations that check
them on small instances, and TLAPS proofs of what holds on all instances.
Paths below are relative to the repository; `src/eventcart/` is its package.

## 1. The system

### Components, their state and operations

| Component | Source | State | Operations | Modelled in |
|---|---|---|---|---|
| Transactional outbox | `modules/events/{models,repository}.py` | `outbox_events`: type, cause, status, `failure_count`, `next_attempt_at` | insert, `fetch_pending`, `mark_published`, `mark_retryable_failure`, `mark_failed` | `Dispatcher` |
| Brokerless dispatcher | `workers/brokerless_dispatcher.py` | the fetched batch, held by the session | `dispatch_pending_batch` (`run_once`, `dispatch_until_idle`) | `Dispatcher`, `EventCatalog` |
| Consumer inbox | `modules/idempotency/inbox.py` | `inbox_events`, keyed by consumer and event | `has_processed`, `process_once` | `Dispatcher` |
| Attempts and retry policy | `events/repository.py`, dispatcher | `event_processing_attempts` | `record_failure`, `next_attempt_number`, backoff | `Dispatcher` |
| Dead letters and replay | `events/repository.py`, `workers/dead_letter_replay.py` | `dead_letter_events` | `move_to_dead_letter`, `replay` | `Dispatcher` |
| Order workflow | `workers/*_worker.py` | `inventory_items`, `payments`, `invoices`, `notifications`, `orders.status` | seven handlers | `OrderSaga` |
| Order API | `modules/orders/` | `orders`, `order_items` | `create_order`, `get_order` | `OrderSaga`, `ApiIdempotency`, `Checkout` |
| API idempotency | `modules/idempotency/{models,service}.py`, `orders/routes.py` | `idempotency_keys` | `start_request`, `store_response`, expiry | `ApiIdempotency` |
| NATS publisher | `workers/outbox_publisher.py`, `events/publisher.py` | rows of the batch; the broker's stream and window | `publish_pending_batch` (`run_once`) | `NatsPublisher` |
| Inventory admin API | `modules/inventory/` | `inventory_items` | `create_inventory_item` | `OrderSaga` |
| Migrations | `migrations/env.py`, `migrations/versions/` | the schema, `alembic_version` | upgrade, downgrade | `Migrations` |
| Event envelope | `events/schemas.py` | none | copies a row | a message of `NatsPublisher` |
| Notification hint, configuration, observability, middleware | `events/notify.py`, `config.py`, `shared/`, `app.py` | none of the workflow's | | no (section 6) |

### How they interact

The API and the workers never call each other: a transaction leaves an outbox
row, and the dispatcher later calls the handler registered for its type in the
same session.  The handler commits *its* effects, its follow-up event and its
inbox row in one transaction; `mark_published` is a second one.  Everything
else is shared tables: two dispatchers meet in `outbox_events`,
`inbox_events`, `event_processing_attempts` and `inventory_items`; the replay
command meets the dispatcher in `dead_letter_events` and `outbox_events`;
concurrent API requests meet in `idempotency_keys`; publishers and dispatchers,
which nothing keeps from running side by side, meet in `outbox_events`.  No table is locked
explicitly and no row has a version column.

### What is hard

* Two commits per event, and a crash or a missing connection between them
  (redelivery).
* Rows read before and written after other processes' commits: the session is
  created with `expire_on_commit=False`, so it never reads a fetched row again.
* The `except` block continues in the session that failed, without a rollback.
* A replayed dead letter is a new event for the inbox.
* Stock is decremented in Python and written as an absolute value.
* The API commits the order and the stored response separately; expired keys
  are deleted by key.
* The NATS publisher commits once per batch, after awaiting every publication.
* The idempotency of the API and that of the workers use different identities
  and meet in one commit.
* The tests never run the migrations a deployment is built with.

The complete list, each at its line and with the properties that answer it, is
under `hazards` in `PROJECT.json`.

### What makes each component correct

* Outbox, dispatcher, inbox: effects of an event exactly once; no event
  published without its effects or failed without a dead letter; one follow-up
  per event; retries counted and bounded; the queue drains.
* Replay: a dead letter has had no effect, and is replayed once.
* Workflow: stock conserved and never oversold; nobody charged twice; a decision
  has its paper trail, is final, and is reached.
* API: one order per key, except in a race for an expired one; replies agree;
  only a crash leaves a key stuck; every request is answered.
* API and workflow together: one command, at most one charge and one
  notification; what a client was told of is decided.
* NATS publisher: nothing is PUBLISHED that was not delivered; the copies of a
  message are bounded; the queue drains.
* Migrations: the schema depends on the revision alone, the head serves the
  models, releases can be taken back, upgrades lose no rows.

## 2. Modules

```
EventCatalog     event types, registered handlers, follow-ups   (constants)
EventLifecycle   abstract: the life of one business fact
Dispatcher       outbox + dispatcher + inbox + dead letters + replay
  MCDispatcher       instances; Dispatcher implements EventLifecycle
  DeliveryProofs     types, exactly-once effects, nothing lost, one follow-up,
                     verdicts stay
  ReliableProofs     one dispatcher: retries counted, settled rows final, dead letters
                     clean, a fact applied once; Dispatcher implements EventLifecycle;
                     what a batch cut off costs when look-ups fail too; any number
                     of dispatchers: retries bounded
OrderSaga        EXTENDS Dispatcher: workers and business tables
  MCOrderSaga        instances with the real handlers
  SagaProofs         OrderSaga implements Dispatcher; chains stay separate
  WorkflowProofs     types, charged once, decisions justified and final, stock
ApiIdempotency   POST /orders with an Idempotency-Key   (checked directly)
  ApiProofs          types, duplicates only in a race, replies and rows agree,
                     stuck keys cost crashes
Checkout         EXTENDS OrderSaga, INSTANCEs ApiIdempotency: client to decision
  MCCheckout         instance with the real handlers
  CheckoutProofs     types, Checkout implements both; one order per unexpired key,
                     charged once
NatsPublisher    EXTENDS Dispatcher: the outbox publisher and JetStream
  MCNatsPublisher    instance
  NatsProofs         types, published means delivered, bounded copies
Migrations       revisions up and down, compared with the models
  MigrationsProofs   tables of a revision, the head serves the models, downgrades
                     possible, upgrades blocked by dead letters alone, rows survive
```

### Dispatcher

`outbox`, `attempts`, `inbox` and `deadLetters` are the tables; rows are
numbered in the order of `occurred_at`.  `batch[d]` is what dispatcher `d`
has fetched and not finished, each event with the part of its row the session
still believes in.  `effects` is a history variable that counts committed
handler runs.  One action stands for each stretch of code between two points
where another process can get in:

| Action | Code |
|---|---|
| `Submit` | `create_order`'s commit (or any outside transaction) |
| `Fetch` | `fetch_pending` |
| `RejectUnsupported` | no handler is registered: the `except` block |
| `ConnectionFails` | `process_once` gets no connection for its look-up after the previous event's commit; the `except` block counts it as a failure |
| `SkipProcessed`, `StartHandler` | `process_once`: the inbox row is there, or not |
| `HandlerRaises` | a Python exception in the handler |
| `HandlerCommits` | effects, follow-up and inbox row commit |
| `FlushRefused` | the database refuses them; the session is then unusable and the batch aborts |
| `PublishEvent` | `mark_published` and the loop's commit |
| `RecordFailure` | `next_attempt_number` reads the number |
| `ScheduleRetry`, `MoveToDeadLetter` | the commit of a failure |
| `Interrupt` | the batch is cut off: the process dies, or a connection is missing where nothing catches it; what is not committed is gone |
| `ReplayRead`, `ReplayCommit`, `ReplayAbandoned` | the replay command, read and commit apart |
| `BackoffElapses` | the clock passes `next_attempt_at` |

Data that is abstracted: payloads, errors and timestamps; `next_attempt_at` is
"none", "later" or "due"; `origin` stands for the content a replayed copy shares
with its original; dead-letter rows refer to the outbox row they copy.  An empty
batch and a refused replay change nothing and are stutters.  The handlers
(`ConsumerOf`, `Outcomes`) are constants, as they are parameters of
`dispatch_pending_batch`.  A Python exception in a handler comes before its
first change, which holds of every shipped handler for every payload the program
builds.  Commit order and `occurred_at` order are taken to be the same.  UPDATE
statements write the attributes that differ from the cached row
(`ClearDelay`, and the unchanged status in `MarkRetryableFailure`).  That a
slower dispatcher does not write the status back to PENDING hangs on it:
`SettledStaysSettled`.

### OrderSaga

Every action is a `Dispatcher` action together with what it does to the
business tables: `BeginHandler` (`StartHandler` and the stock the handler
reads), then one action per outcome of a handler (`ReserveInventory`,
`RefuseReservation`, `AuthorizePayment`, `DeclinePayment`,
`ReleaseInventory`, `CreateInvoice`, `SendNotification`,
`CompleteOrder`, `CancelOrder`).  `DeliveryStep` is the machinery of one
dispatcher that leaves the tables alone.  `subject[e]` is the order id in an
event's payload; `loaded[d]` the quantities `d` has read, so that a lost
update is possible when two dispatchers run.  Prices and amounts are left out,
except that an amount may not fit its column (`Unstorable`).
`CreateInventoryItem` is the admin API: `stock` is empty at first, an item is
created once, with the quantity `InitialStock` gives it, and an order that names an
item that is not there is refused (`Listed`).  `PaymentMayFail` stands for `payment_should_fail`, which only tests put in a
payload.  "SKU not found" during a reservation cannot happen: `create_order`
has checked it and nothing deletes items.

### ApiIdempotency

A request goes through the look-up of its key (`FindFree`, `FindRow`), the
insert (`InsertKey`, `InsertFails`), the order (`RejectOrder`,
`CommitOrder`) and the stored response (`StoreResponse`, `StoreFails`), or
dies (`Crash`).  `Holders` are transactions with an uncommitted key row: an
insert of the same key waits for them.  PostgreSQL's READ COMMITTED rules decide
what a DELETE by key hits after such a wait; both outcomes the timing allows are
there.  Two history variables say what happened: `epoch` counts the expiries of a
key, `seen` how many orders were committed when a request looked.
`DuplicatesOverlap` uses both to say when a key can make a second order at all: it
has expired, and the second request looked at the expired row before the first
order was committed.

### Checkout

The endpoint and the workflow share one transaction.  `PlaceOrder` is
`CommitOrder` of `ApiIdempotency` and `SubmitOrder` of `OrderSaga` in one step,
`RefuseOrder` the 404; `KeyStep`, `ClientStep` and `WorkflowStep` belong to
one of the two and leave the other's tables alone.  `ApiIdempotency` is
instantiated with the baskets as bodies, so a mapping of names is all the
refinement needs.  Every request carries a key; requests without one are
`OrderSaga`'s.

### NatsPublisher

`fetched[p]` is the batch of publisher `p`, `marks[p]` what its session has
changed and not committed.  `PublisherFetch`, one `PublishAcked` or
`PublishRaises` per event, `PublisherCommit`, or `PublisherInterrupt` at any
point: the process dies, or the commit gets no connection.  JetStream is external: `stream` is what it has stored, `window` the
`Nats-Msg-Id`s it remembers, `ForgetId` the end of the window; a publication
that raises may have been stored all the same.  The module sits on the outbox of
`Dispatcher`, with dispatchers beside it, because no command reads
`event_transport`.

### Migrations

`schema` maps table names to what decides whether a statement is accepted:
columns by whether an INSERT must give them, may omit them or may set NULL; keys;
referenced tables.  `filled` are the tables with rows.  Each revision is the list of
statements of its `upgrade()` and of its `downgrade()`; `Migrate(n)` executes
the statements between two revisions in one transaction (`env.py`), `Write(t)` is
an INSERT of the application at the code of the head.  `Models` restates the ORM
models, file by file, so that the two can be compared.

### EventLifecycle

The abstract promise: a fact is recorded, waits, is applied at most once
(perhaps recording its follow-up in the same step), is then published, or is
buried and perhaps resubmitted.  The mapping `Stage` in `Dispatcher` sends an
event with all its replayed copies to one fact.

## 3. Runs

Deadlock is not checked: the system may stop when every event is settled, every
request answered and no operator active.  All bounds are constants
(`MaxSeeds` outside events, `MaxReplays` copies, `MaxInterruptions` batches cut
off, `MaxCrashes` requests whose process dies, `MaxExpiries` expired key rows) and
appear only in the guards of the environment's actions.

| Run | Instance | Shows |
|---|---|---|
| `dispatcher_one` | 1 dispatcher, 1 operator, 2 orders, batches of 2, 2 attempts, 2 replays, 1 interruption, a refused flush | type invariant, dead letters not applied, a fact applied once, replay once, retry accounting, settled rows final, refinement of `EventLifecycle` |
| `dispatcher_two` | 2 dispatchers, 1 order and its two follow-ups, the second without a handler, look-ups without a connection, 1 interruption, 2 attempts | effects exactly once, nothing lost, one follow-up, retries bounded, verdicts stay; the queue drains, facts settle |
| `saga_one` | real handlers, 2 SKUs, 1 dispatcher, 1 operator, 2 orders (one of two lines) for the last 2 units, payment may fail, 1 replay, 1 interruption | stock conserved and never oversold, charged once, decisions justified, final and reached |
| `api_keys` | 3 requests, 2 keys, 2 bodies, 1 crash, 1 expiry | types, duplicates only in a race for an expired key, replies agree, the row matches its order, stuck keys cost crashes, every request ends |
| `nats_publisher` | 2 publishers, 1 dispatcher, 1 order and its follow-up, 1 attempt, 1 interruption | types, published means delivered, bounded copies, the queue drains |
| `checkout` | 2 requests with 1 key for the last ticket, 1 dispatcher, 1 operator, 1 server crash, 1 interruption, 1 replay | one order in both components, one charge and one notification, what the client is told of is decided |
| `migrations` | all 12 revisions, all 11 tables | the schema of a revision, the head serves the models, downgrades never refused, upgrades only for dead letters, rows survive upgrades |

Five runs show where the code departs from what its documentation or a test
says of it; `findings` in `PROJECT.json` quotes the lines.

| Run | Property violated | What happens |
|---|---|---|
| `dispatcher_replay_race` | `ReplayedOnce` | two operators replay one dead letter; both commit |
| `dispatcher_poison` | `QueueDrains` | a refused flush aborts every batch before the failure is counted |
| `saga_refused` | `RefusedOrdersCancelled` | `InventoryReservationFailed` has no handler; the order stays PENDING |
| `saga_oversold` | `NeverOversold` | two lines for one SKU are checked one by one and taken together |
| `api_expired_race` | `OneOrderPerKey` | two requests have seen one expired row; the second deletes by key after the first has committed its fresh row; two orders |

Two more disagreements are stated by what still holds: a slower dispatcher can
write PUBLISHED over a FAILED row that `retry-dead-letter-replay.md` calls
preserved (`SettledStaysSettled` says: only if the event was applied), and a
crash between the endpoint's two commits leaves a key "in progress" for a day
although `idempotency.md` says that of a running request (`StuckOnlyByCrash`).

Why the bounds are enough.  A race on a row needs two processes and one row; the
follow-up is the second row of a batch, at which a look-up can find no
connection; retries need `MaxAttempts` 2 for a failure that is not the last;
batches of two need two seeds; a redelivery needs one interruption; after a first
replay, a second lets the operator come back to the same dead letter and be refused
(`repository.py:155`), or replay the copy.  Three requests allow a winner, a
loser and a late retry.  In `saga_one` one attempt is allowed per event, so that
every failure is final and a replay is the retry; retries proper are
`dispatcher_one`'s subject.  In `nats_publisher` two publishers, one interruption
and a window that may end at any time give every way to a second copy; the
follow-up gives batches of two.  In `checkout` the second request is the retry, before or
after the crash, and may be the first to reach the database; the key does not expire,
which is `api_keys`'s subject.  `migrations` has no bound: its state space is
finite.

A missing connection is modelled by its two effects.  Where `process_once` looks up
the inbox first thing after a commit, the exception is caught and counted as a failure
of the event (`ConnectionFails`, allowed by `ConnectionsFail`).  Everywhere else
nothing catches it: the query of `record_failure`, and the loop's own
`session.commit()` (`brokerless_dispatcher.py:149`), which flushes the UPDATE of
`mark_published` after the handler's commit gave the connection back.  There
`dispatch_pending_batch` is left as it is by a crash, so `Interrupt` stands for both
and `interruptions` counts both.

Assumptions of single runs.  `dispatcher_one` and `saga_one` have one
dispatcher whose batches may be cut off and whose look-ups find a connection.  If
they do not, an event that was applied in a batch cut off before `mark_published`
was committed can use up its attempts without the inbox being asked, become a dead
letter, and be applied again by its replay: with `ConnectionsFail = TRUE` TLC finds
`DeadLettersNotApplied` violated in `dispatcher_one`'s instance.  No process has to
die for that: connections missing at `:149` and then at the look-ups of the later
batches are enough.  The repository's `retry-dead-letter-replay.md` ("Replay
Risks") warns of repeated effects, so it is an assumption here; that it costs one
repetition at most for each batch cut off is proved (section 4).  With two
dispatchers `RetryAccounting`, stock and the finality of rows depend on updates that
are lost; what survives of the accounting is `RetriesBounded`, of the finality
`SettledStaysSettled`, both in `dispatcher_two`.  A request is shorter than 24 hours.
`migrations` is about PostgreSQL, whose DDL is transactional, and about writes by
the code of the head.

### Fairness

`FairSpec` and `FairSagaSpec`: each dispatcher keeps taking steps and
`next_attempt_at` is reached.  The repository deploys no long-running worker
(its README, "Current Runtime Status"): the dispatcher is a command that
somebody runs again and again, and that is what weak fairness on
`DispatcherStep(d)` says.  Nothing forces a submission, an
interruption or a replay (interruptions are finitely many in every run), and which outcome a handler has is never fair: an event that
fails every time must end as a dead letter, not succeed.  The API is fair to the
requests it has received.  `FairNatsSpec` is fair to the publisher command and to
time, not to the dispatcher: the publishers alone drain the queue.  An event that
is FAILED after one raise counts as drained there: the publisher has no retry and no
dead letter, although `transactional-outbox.md` speaks of a later retry.
`FairCheckoutSpec` is the conjunction of the API's and the workflow's fairness.

## 4. Proofs

Every safety invariant and every action property of the passing runs is a theorem
for all values of the constants that satisfy the assumptions below (`Migrations` has
no constants).

Assumptions on constants: `TypesAssumption`, `BoundsAssumption`, `FactsAssumption`,
`SagaAssumption`, `ApiAssumption`, `CheckoutAssumption`, `PublishersAssumption`:
typing facts and finiteness of sets, which TLC evaluates in the runs.

Hypotheses of single theorems.  Where a promise depends on the deployment, the
theorem names what it needs:

| Hypothesis | Meaning | Needed by, and why |
|---|---|---|
| none | any dispatchers, operators, interruptions, look-ups | the types, `ExactlyOnceEffects`, `NoEventLost`, `SingleFollowUp`, `VerdictsStay`, both implementations of components, everything about the API and the publishers |
| `OneOperator` | at most one replay command at a time | `ReplaysCounted`: two operators replay one dead letter twice (`dispatcher_replay_race`) |
| `IsFiniteSet(Dispatchers)` | finitely many dispatchers | `RetriesAreBounded`: its bounds are their number |
| `OneDispatcher` | at most one dispatcher | `RetriesCounted`, `SettledRowsFinal`, `StockIsConserved`: rows have no version, so two dispatchers lose each other's counts and decrements; `InterruptionsStrand`, `DirtyDeadLettersCostInterruptions`: a second dispatcher may fail what the first has just applied |
| `OneDispatcher /\ OneOperator` | both | `CopyInvariant`, `EffectsPerInterruption`, `OnceUntilInterrupted` |
| `Reliable` | one dispatcher, and `~ConnectionsFail`: its handlers' look-ups get their connections | `DeadLettersClean`: after an interruption failing look-ups can get an applied event buried unasked (section 3) |
| `Reliable /\ OneOperator` | both | `FactsAppliedOnce`, `DispatcherImplements` |
| `SafeReplays` | nobody replays, or `Reliable /\ OneOperator` | `ChargesOnce`, `DecisionsJustified`, `DecisionsFinal`, `ClientsChargedOnce`: any number of dispatchers with any interruptions and failing look-ups, unless dead letters are replayed |
| `OneLinePerItem` | no order names an item twice | `ShelfNeverNegative`: otherwise false (`saga_oversold`) |

The passing run of a property satisfies its theorem's hypotheses; where a run has
more (one dispatcher in `saga_one`), the theorem says what it does not need.

### The outbox (`DeliveryProofs`)

* `TypeCorrect`: `TypeOK` is inductive.  One lemma per action, over lemmas on what
  appending and updating rows does to the tables.
* `DeliveryInvariant`: the inductive invariant is
  `TypeOK /\ MarkingApplied /\ EffectsExactlyOnce /\ NothingLost /\ OneFollowUp`.
  `MarkingApplied` (a dispatcher about to mark an event published has seen or
  written its inbox row) is what `NothingLost` needs when `mark_published`
  commits; `EffectsExactlyOnce` rests on the inbox key at the commit;
  `OneFollowUp` on the cause of a new row not having been applied before.
  `ExactlyOnceEffects`, `NoEventLost` and `SingleFollowUp` follow.
* `VerdictsStay`: `SettledStaysSettled` from the same invariant.  An UPDATE does not
  write a status that the session believes unchanged, so nothing makes a settled
  row PENDING again; only `MarkingApplied` events turn from FAILED to PUBLISHED.

### Dispatchers and replays (`ReliableProofs`)

* `SessionInvariant`: with one dispatcher the rows it has cached are what the table
  says (`CacheFresh`), and the attempt number it has read is still the next one
  (`AttemptFresh`); a settled row waits for nothing (`SettledNotDelayed`), and what is
  buried is settled, so it is not buried again (`BuriedFailed`, `BuriedOnce`).  With
  them `RetryAccounting` is inductive (`RetriesCounted`), and no action finds a
  settled row to write (`SettledRowsFinal`).  `RowChange` and `BatchChange` reduce
  the actions to what each does to one row and one cached row.
* `InterruptionsStrand`: an event is `Stranded` when it was applied, is not PUBLISHED
  and is not about to be.  Whatever comes between the handler's commit and the commit
  of `mark_published`, the death of the process or the lack of a connection, cuts the
  batch off and is counted, and it strands the one event the dispatcher was about to
  mark.
* `ReliableInvariant`: a failing event has not been applied (`FailingNotApplied`),
  because its handler was started by a look-up that found no inbox row or was never
  called.  What is buried was failing, and is never worked on again
  (`DeadLettersNotApplied`, `DeadLettersClean`).
* `DirtyDeadLettersCostInterruptions`: when look-ups fail, a dead letter whose event
  was applied is a stranded event, so there are at most as many as interruptions.
* `ReplaysCounted`: the dead letter an operator has loaded is still unreplayed
  (`LoadedFresh`), so each commit adds one copy and one replayed dead letter of one
  origin; the sets of `ReplayedOnce` grow together.
* `CopyInvariant`: an event is spent when its dead letter was replayed; of an event
  and its copies exactly one is unspent (`OneUnspent`).  The spent events of a fact
  that were applied lie in the dead-letter table, so a fact has its effects at most
  once more than there were interruptions (`EffectsPerInterruption`), and once until
  the first (`OnceUntilInterrupted`).  TLC checked the counts on `dispatcher_one`'s
  instance with `ConnectionsFail = TRUE` and one replay before they were proved (29797
  states), and reaches them.
* `FactInvariant`: with `ReliableInvariant` a spent event has not been applied at all,
  so `FactsAppliedOnce` follows.
* `DispatcherImplements`: `StageTable` restates the refinement mapping by the
  events of a fact; each step moves one fact by one step of `EventLifecycle`, and
  leaves all others where they are.
* `SafeReplaysApplyOnce`: without operators there are no copies (`NoCopies`), and a
  fact is one event.
* `RetriesAreBounded`, for any finite number of dispatchers: the attempt numbers of an
  event have no gap (`Gapless`); whoever is about to record a number read it before
  anybody's commit of the next (`ClaimsLeft`: the records of a number and the
  dispatchers that may still write it are at most the dispatchers); and whoever
  still holds an event that has left the queue can add one attempt and one dead
  letter (`HoldersLeft`, a budget like that of the publishers).  Together they are
  inductive (`AttemptsInvariant`); TLC reaches the bounds.

### The workflow (`SagaProofs`, `WorkflowProofs`)

* `SagaImplementsDispatcher`: every step of the workflow is a step of `Dispatcher`
  or leaves its variables alone; hence `SagaDelivers`, and `SagaSpec` inherits every
  theorem above.
* `ChainsStaySeparate`: `SameOrder` is inductive together with the typing of
  `orders` and `subject`; each step keeps the chains or adds one event that is
  about its cause's, its original's, or a new order.
* `SagaTypeCorrect`: `SagaTypeOK` needs that an order names only items that exist
  and that a handler that has begun has read all of its order's (`LoadedListed`).
* `ChainInvariant`: every type has one type that leads to it (`TypesLead`).  If two
  events of one type about one order told different facts, so would their causes,
  up to the one `OrderCreated` of the order; a step can only break that with a
  follow-up, and then the same fact was applied twice (`OneFactPerType`).  A payment
  is authorised or declined (`OneBranch`) because one application has one outcome.
* `ChargesOnce`, `DecisionsJustified`, `DecisionsFinal`: the ledger of an order is
  a function of which types of event exist about it (`Trail`, `LedgerTells`), and a
  decided status of the event that was its reason (`StatusTells`).
* `StockIsConserved`: with one dispatcher the quantities a handler has read are
  those on the shelf (`ShelfFresh`), and shelf plus what unreleased orders hold is
  the initial stock (`Balance`).  The sums are folds of the community modules,
  restated as `Total`; what a sum becomes when one member changes, enters or leaves
  is proved by taking a smallest set of which it fails (`SmallestSubset`), which
  needs no induction theorem.
* `ShelfNeverNegative`: for any number of dispatchers, stock is never negative if
  no order has two lines for an item: the handler checks each line against what it
  has read and writes the difference.  `saga_one`'s orders have one line per item, and
  `saga_oversold` shows that the hypothesis is needed.

### The API (`ApiProofs`)

* `ApiInvariant`: the inductive invariant relates each request, row
  and order to the epoch of its key.  `DuplicatesOverlap` at `CommitOrder` is the
  heart of it: a request that found the key free holds it while there is no row
  (`Holding`), so there is no earlier order of the key at all (`OrderOK`); a request
  that found an expired row looked before any order of this epoch (`Taking`), because
  the orders of an expired row belong to earlier epochs (`KeyOK`).  The primary key
  enters as `Exclusive`, and `Storing` says that the row a request comes back to
  with its response may be another's, but of the same epoch.  `ApiTypeCorrect`,
  `OnlyOverlapsDuplicate`, `ClientsAgree` and `RowsAgree` follow.
* `StuckKeysCostCrashes`: with `Unordered` (no order before the first commit), a
  step that stops answering a key has answered it, lost it to an expiry or is a
  crash, so the stuck keys never outnumber the crashes.

### The composition (`CheckoutProofs`)

* `CheckoutImplementsApi`, `CheckoutImplementsSaga`: each step of
  the composition maps to a step or a stutter of either component, so everything
  above holds of it (`CheckoutKeysHold`, `CheckoutDelivers`).  `OneTableOfOrders`:
  the two never disagree about the orders and what was ordered.  `NewKeysBuyOnce`
  puts both together: one unexpired key, one order in the workflow.  The module
  with the API's proofs is instantiated beside `Api`; `SameEndpoint` shows that the
  two instances are the same.
* `ClientsChargedOnce`: one order bought with an unexpired key (`NewKeysBuyOnce`),
  whose ledger has at most one entry of a kind (`ChargesOnce`), so the sums over
  the orders of a key are at most one.

### The publishers (`NatsProofs`)

* `NatsInvariant`: what a publisher has marked it has sent (`MarkedSent`), which
  gives `PublishedIsDelivered`.  `CopiesBounded` is a budget: the messages of an
  event and the publishers that may still send it (`MaySend`) are together at most
  the publishers and the interruptions (`MessagesLeft`), since sending takes the
  publisher out of `MaySend` and only an interruption puts one back.
* `PublishersDoNoHarm`: publishers on a dispatcher's outbox break neither its
  exactly-once effects nor the single follow-up (`BesideDispatchers`).

### The migrations (`MigrationsProofs`)

`MigrationsInvariant`: `schema = SchemaAt(revision)`, `revision` is one of the
thirteen, and only tables that exist have rows.  The rows belong to it
because they decide whether a statement is accepted; `SchemaAt` gives the tables of a
revision directly, while `Built` in `SchemaOfRevision` executes the statements.  TLC
checked `MigrationsInv` on the run's 4222 states before it was proved.  The proof
gives the reason where the run enumerates:

* A command is a path of statements executed one by one, and the community modules
  define that by recursive functions (`FoldLeft`, `FlattenSeq`).  That such a function
  exists, and is unique, is shown by induction over a set of numbers (`Climb`), since
  the library's induction theorems cannot be used.
* One lemma per kind of statement says what it does to the tables; `OneUp` and
  `OneDown` apply them to each revision: `upgrade()` makes the tables of the next
  revision of those of this one, `downgrade()` gives them back.
* `Upgraded` and `Downgraded` carry that along any path, with the rows that survive
  it and the one statement that rows can stop: the NOT NULL column that revision
  0012 adds to `dead_letter_events`.
* `TablesOfRevision`, `HeadServesTheModels`, `DowngradesArePossible`,
  `OnlyDeadLettersBlock` and `RowsSurviveUpgrades` follow.

### Only model-checked

Liveness and what needs ENABLED: `QueueDrains`, `FactsSettle`, `OrdersDecided`,
`EveryRequestEnds`, `ToldIsDecided`.  The prover has no rules for fairness.
`ImplementsLifecycle` is the safety part of the refinement; that facts settle is
`FactsSettle`.

## 5. Plan

Done: every module above, and every safety property the runs check is proved.  What
could follow:

1. The ledger of an order when one dispatcher's batches are cut off and its look-ups
   fail: `EffectsPerInterruption` bounds how often a fact is applied; how many charges
   an order can get from that is not stated.
2. An abstract life of a fact that may be applied again after an interruption, and
   `Dispatcher` with failing look-ups as its implementation.

## 6. Not modelled

* The notification hint (`events/notify.py`): `pg_notify` goes out with the
  transaction, and nothing in the repository listens.
* Logging, metrics, tracing, the HTTP middleware (`shared/`, `app.py`): no
  step of the workflow depends on their state.
* Configuration, engine and entry points (`config.py`, `database.py`,
  `main.py`): values and wiring.  What of it matters is an assumption of the
  models: `expire_on_commit=False`, `autoflush=False`, one session per request
  or batch, and that `event_transport` is never read.
* Handlers that raise after their first change: no shipped handler does, for any
  payload the program builds, so no reachable state shows the missing rollback;
  handlers passed to `dispatch_pending_batch` by somebody else could.
* Validation of the envelope: every row the program writes satisfies it.
* Consumers of the JetStream: the repository wires none up.
