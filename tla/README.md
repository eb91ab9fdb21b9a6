# posnet-adapter in TLA+

A stock hub stands between a shop's point of sale (POS) and the online channels
that sell the shop's goods. It pulls the catalog and stock of the POS, keeps the
stock per variant and warehouse, reserves stock for channel orders, writes those
orders back to the POS, and pushes every change of stock to the channels.

This directory models the parts of the hub whose correctness depends on what
runs at the same time, on what is lost, repeated or late, and on what a crash
leaves behind. TLC checks each model on a small instance; TLAPS proves the most
important invariants for every instance.

    cd tla
    tlc -workers 2 -config MCInventory.cfg MCInventory     # one run
    tlapm InventoryProofs.tla                              # one proof module

`PROJECT.json` lists the components, the runs, one seeded fault ("mutant") per
checked property, the source lines of every definition, and the hazards of the
code with the properties aimed at them.

## 1. Inventory of the system

Paths are relative to `src/`; `core` is `services/core/app`.

| Component | State it keeps | Operations | Interacts with | What makes it correct |
|---|---|---|---|---|
| Stock (`core/domain/inventory.py`, `core/api/v1/inventory.py`) | `inventory` (qty, reserved_qty, version), `stock_movements` | five kinds of movement, transfer | writes the outbox in its transaction | no oversell, no lost update, the journal explains the level, all or nothing |
| Order ingest (`core/sync/order_ingest.py`) | `channel_orders` | ingest: record, plan, reserve, reject | stock, webhooks | one decision per order, all lines or none |
| POS pull (`core/sync/pos_ingest.py`) | `products`, `variants`, levels | create or update every product of the POS | stock, catalog | the reported stock is what is stored; reservations survive |
| Event bus (`libs/eventbus`, `core/idempotency.py`, `core/eventbus_workers.py`) | `outbox_events`, the pgmq queue, `idempotency_keys`, the DLQ | enqueue, relay, read, handle, retry, dead-letter | every writer, the dispatcher | queued exactly once, applied once, nothing lost, everything settled while it is served |
| Dispatcher (`core/sync/dispatcher.py`, `canonical.py`, `channel_config.py`) | `channel_listings` | push a listing, a stock figure, a price | event bus, channels | a channel ends up showing what it may sell |
| Reconciliation (`core/sync/reconcile.py`) | nothing of its own | compare, repair | channels, listings, stock | drift does not last |
| Channel guard (`libs/adapter/rate_limit.py`, `circuit_breaker.py`, `core/sync/guard.py`) | a token bucket and a breaker per channel, in memory | acquire, call, record the outcome | every push | rate kept, breaker opens, nobody starves |
| Webhook ingress (`core/api/v1/webhooks.py`) | nothing of its own | decide, write back, acknowledge | order ingest, POS, channels | written once, the channel told the truth |
| Shifts (`core/domain/shift.py`, `core/api/v1/shifts.py`) | `shifts`, `cash_movements` | open, close, book cash | nothing | one open shift per cashier, final counts |
| Pricing (`core/domain/pricing.py`) | base prices, timed overrides | resolve, set override | dispatcher, reconciliation | the price in force is the one shown |
| Catalog (`core/domain/catalog.py`) | products, variants, `online_published` | create, add a variant, publish, look up | dispatcher | every published variant is listed; a scan finds one variant |
| Accounts (`core/domain/onboarding.py`, `identity.py`, `feature_flags.py`) | tenants, users, roles, assignments, flag overrides | onboard (API, seed script), create, assign, set | authentication, every call's tenant | a subject belongs to one tenant; nothing refers to another tenant's rows |
| Tenant isolation (`core/infrastructure/db/tenant.py`, `core/api/deps.py`) | role and tenant of a pooled connection, set with `SET LOCAL` per transaction | resolve the caller's tenant, scope the session, commit after the answer | every query | no row of another tenant is seen or written, whatever the connection did before |
| Signing keys (`libs/auth/jwks.py`, `verifier.py`) | the realm's key set in Redis, with a lifetime, shared by all processes | load, one refetch for an unknown key | authentication | a rotated key is found, a withdrawn one dies |
| Adapters and mocks (`core/adapters`, `mocks/`) | the store of a channel | push, pull, acknowledge | dispatcher, webhooks, POS pull | each channel's words mean the same to the hub |
| Wiring, libraries, schema, backups, admin web | see `PROJECT.json` | | | |

**What is hard here.** Sessions of the API, webhook deliveries, pulls and the
relay and consumer tasks run against one PostgreSQL database at READ COMMITTED:
what a transaction has read without a lock may be stale when it writes. Row
locks are taken in whatever order a request names its rows, so transactions
deadlock. Events are delivered at least once, delayed and out of order. A push
to a channel is an HTTP call inside a transaction that may roll back while the
push stays. Processes die between a commit and the calls that follow it. The API answers
before it commits. Connections are pooled: what a transaction sets on one must
not outlive it. Unique indexes and foreign keys look past row level security.

## 2. The modules

    Inventory ----- implements --> StockLedger
       |  \
       |   PosIngest                  (EXTENDS Inventory)
       OrderIngest -- implements --> OrderBook     (EXTENDS Inventory)
                                        ^ its single step is the decision in
    WebhookIngress  --------------------+
    EventBus                          (its consumer side is the feed of)
    ChannelSync                       (the dispatcher)
       Reconcile                      (EXTENDS ChannelSync)
    ChannelGuard                      Shift              SigningKeys

    TenantSession                     (one API transaction)
       Accounts  Catalog  Trade       (the endpoints; each EXTENDS TenantSession)
       Api                            (EXTENDS all three: requests of all kinds together)

| Module | Source | State and actions |
|---|---|---|
| `Inventory` | `inventory.py` (domain, API) | `levels` and `journal` are the committed tables, `draft` the uncommitted row of the transaction that holds its lock (`holder`); a session runs `todo`, its movements, through `select`, `insert`, `apply`, `commit`. `SelectForUpdate`, `FindNoRow`, `InsertRow`, `ApplyMovement`, `Commit`, `Refuse`, `Crash`, `AbortDeadlock`. |
| `StockLedger` | docstrings of `inventory.py` | what a reader of the committed tables may see: rows change one committed movement at a time, versions grow, a row never disappears |
| `OrderIngest` | `order_ingest.py` | one transaction per delivery on the tables of `Inventory`: `RecordOrder` waits for the unique key, `PlanLine` reads levels without a lock, `ReserveMovement` is `apply_movement`, `Reject` is the rollback to the savepoint, `CommitOrder`, `CrashOrder`, `AbortOrderDeadlock` |
| `OrderBook` | `OrderIngest` seen from outside | an order goes from `none` to `reserved` with all its units or to `rejected` with none, once |
| `PosIngest` | `pos_ingest.py` | a pull as one transaction over the products of an answer; `cached` is the SQLAlchemy identity map: `GetInventory` loads a level as an object, and the later `SELECT ... FOR UPDATE` returns that object |
| `EventBus` | `outbox.py`, `relay.py`, `consumer.py`, `pgmq.py`, `idempotency.py`, `eventbus_workers.py` | outbox rows are sequence numbers; `SelectBatch`, `Send`, `MarkPublished`; `Read`, `StartHandler`, `Handled`, `HandlerFails`, `DeadLetter`, `Reschedule`, `Reappear`; `TaskDies`, `Restart` |
| `ChannelSync` | `dispatcher.py`, `canonical.py`, `channel_config.py`, `pricing.py`, `catalog.py`, an adapter and the store behind it | `feed` is the queue as the dispatcher sees it, `work` the event it handles, `draft` the listings of its transaction, `shown` the stock and price each channel displays. `MovementApplied`, `SetOverride`, `Publish` write events; `WindowTurns`, `PosPriceChanges`, `PublishUnaware` change what a channel ought to show and write none. `Take` reads what is to be told, `Push` is one HTTP call, `EventDone` the commit |
| `Reconcile` | `reconcile.py` | `ReadFigures`, `FetchListing`, `Repair` of the stock, then of the price, per channel, in a process of its own, next to the dispatcher |
| `ChannelGuard` | `rate_limit.py`, `circuit_breaker.py`, `guard.py` | the bucket with its `asyncio.Lock` and the breaker of one channel, shared by tasks |
| `Shift` | `shift.py` | open, close and cash requests on the rows and the partial unique index of one cashier |
| `WebhookIngress` | `webhooks.py`, the adapters and servers of two channels | a delivery: `Reserve`, `Reject`, `Duplicate`, `Refuse`, then the write to the POS and the acknowledgement; `sale` is the channel's own record of the order in its own words (`Code`, `StateFor`, `SaleToOrder`, `StatusOf`); the next pull |
| `SigningKeys` | `jwks.py`, `verifier.py` | `stage` is the realm's keys, `cached` and `age` the entry in Redis; a request is `Verify`, `LoadCached`, `Fetch`, `Store`, `Decode`, and `Unavailable` at any step; `Tick`, `Evict` |
| `TenantSession` | `deps.py`, `tenant.py`, `rbac.py`, `outbox.py`, the policies and indexes of the migrations | `rows` are the committed rows of all tables, `own` what each open transaction has written, `scope` the role and tenant in force on a connection. `Admit`, `EnterTenant`, `EnterSystem`, `NoTenant`, `Forbid`; `Insert` waits for and fails on unique keys and references; `Update`, `Read`, `Refuse`, `Reply`, `Commit`, `Crash` |
| `Accounts` | `onboarding.py`, `identity.py`, `feature_flags.py`, their routers, `scripts/seed_data.py` | `Onboard`, `Seed`, `CreateUser`, `CreateRole`, `AssignRole`, `SetFlag`, lists |
| `Catalog` | `catalog.py`, `channels.py` | `CreateProduct`, `AddVariant`, `SetOnlinePublished`, `LookUp`, `Detail`, lists |
| `Trade` | `pricing.py`, `inventory.py`, `shift.py` and their routers | `SetOverride`, `ResolvePrice`, `CreateWarehouse`, `Move`, `OpenShift`, `CloseShift`, `RecordCash`, reads: which rows they look up, write and wait for. The quantities are `Inventory`'s, the price is `ChannelSync`'s, the drawer is `Shift`'s |
| `Api` | the API as a whole | any request of any tenant, next to any other, on shared connections |

`MC<Module>` gives the constants of `<Module>` their values for TLC. A
definition whose comment starts with "Mutant:" is a plausible fault in the
definition that follows it; nothing uses it unless it is put in that one's place.

### Conventions

* **A level without a row** has version 0. The first movement inserts it: of two
  sessions that both find no row one loses on the unique key and is rolled back.
* **Journal.** `stock_movements` is kept as the totals per row, `journal`.
* **Outbox.** A sequence number is drawn when the event is enqueued, so numbers
  are skipped by a rollback and commits are not in their order.
* **Locks.** READ COMMITTED; a row lock lasts to the end of the transaction or
  to the rollback to the savepoint it was taken in. A lock has a queue; a ring of
  waiters is broken by aborting one of them (`AbortDeadlock`).
* **Order lines.** The quantity of a line is any integer, as in
  `CanonicalOrderLine`, which does not check it. A line of nothing or less
  reserves nothing, and the order is accepted; one line of the instance is so.
* **UPDATE** writes the columns the ORM finds changed, compared with the object
  it loaded. That is why a stale object matters in `PosIngest`, and why
  reservations survive there.
* **Time** is left out where only its order matters: a hidden message may
  reappear at any moment, a lease or call may end at any moment. `ChannelGuard`
  has a clock: ages saturate instead of growing, and tokens are integers, `Unit`
  of them to a call.
* **Crashes** end a transaction at any step. What was committed, sent or pushed
  stays.
* **Rows of the API** have one shape: maker, table, tenant, keys in unique
  indexes, references, and the one column that is ever updated. No call of the
  API deletes a row. A request is answered once and not sent again; its answer
  (`Reply`) leaves before its `Commit`, since the session is committed when its
  dependency exits and FastAPI exits dependencies after the response.

## 3. The runs

| Run | Instance | Distinct states | Checks |
|---|---|---|---|
| `stock` | 2 sessions, 1 variant, 2 warehouses, one level missing | 28,734 | see below |
| `orders` | 2 deliveries at a time, 3 orders, a session that transfers | 59,698 | |
| `pos_sync` | 2 pulls, 1 API session, a new variant | 89,530 | |
| `pos_sync_stale` | 1 pull, 1 API session | refuted | section 5 |
| `events` | 2 transactions, 2 relays, 2 consumers, 2 deaths | 765,242 | |
| `sync` | 2 channels, 3 events, every kind of answer | 2,375,691 | |
| `reconcile` | 1 channel, 3 events, every kind of answer | 298,923 | |
| `guard` | 3 tasks | 104,235 | |
| `shifts` | 3 sessions, 2 shifts | 54,350 | |
| `webhook` | 2 requests, 2 orders of 2 kinds of channel | 13,019 | |
| `keys` | 2 keys, 2 requests, lifetime 3, delay 1 | 331,901 | |
| `api` | 3 requests, 2 tenants, 2 pooled connections | 137,351 | |

**stock.** `GuardsSuffice`: the checks of `apply_movement` by themselves keep
each row it writes within the CHECK constraints of the table.
`JournalExplainsLevels`: a committed level is the sum of its committed
movements, its version their number. `EventsReplayLevels`: the committed events
of a row, in sequence order, end with its present level, so that a consumer that
applies them in order is right. `ExpectedLevelIsTheLevel`: a movement posted with
an expected version is applied to that version or not at all.
`TransferConservesStock`: the commit of a transfer takes off one row what it adds
to another of the same variant, and changes no other. `ImplementsLedger`: the
tables refine `StockLedger`. `TransactionsEnd`: every transaction ends.

**orders.** `ReservationsHaveOrders`: every reserved unit belongs to an order
recorded as reserved, and none is promised twice. `ImplementsOrderBook`:
deliveries, duplicates, partial plans, rollbacks to the savepoint and crashes do
not show. `DeliveriesEnd`: a delivery is answered whatever it waits for. The
session that transfers does not reserve: the API's `unreserve` is not tied to an
owner and may release an order's units, by design of the endpoint.

**pos_sync.** `SyncStoresReport`: a pull that commits leaves every level it booked
at the stock the POS reported, the last time it listed the product. The pull
computes the difference from a level it read before the lock, and what is sold or
received between the two does not spoil the result, because the object that the
lock returns is the one the difference was computed from. This is the other side
of `pos_sync_stale`: what makes the journal wrong makes the report right, and an
object refreshed under the lock, without a difference computed anew, would break
it. Not covered: a level found missing that somebody else creates meanwhile
(`SyncReachesTarget`, section 5). `SyncKeepsReservations`: a pull changes no reservation, also not one committed
after it read the level. `SyncsEnd`: pulls that meet each other's rows and new
SKUs in opposite order end.

**events.** `RelayedOnce`: the queue carries committed events
only, each in one message. `NothingLost`: a row marked published is queued,
applied or in the dead-letter queue. `HandledOnce`: the handler's effect is
committed once however often the message is delivered.
`SettledWhileServed`: in every behaviour in which a relay and a
consumer are there again and again, each stored event is applied or
dead-lettered, however often its handler fails, whichever task dies with it in
hand, and also if it was stored while nobody served. That some task is there is a
hypothesis of the property and not fairness of the model: the code does not
restart a task that ended, and without it the property is false
(`EventuallySettled`, section 5).

**sync.** `QuietShowsTruth`: after the feed is drained, a channel that answered
its last push and got its movements in order shows the stock it may sell (less
its safety stock), whatever was retried, refused, left unanswered or cut off by a
crash on the way. `QuietShowsPrice`: likewise for the price in force, with
overrides that are set while another one's event is in the queue, that settle
below a newer one, or whose window has yet to open. Only a price that changed
without an event after the last push is left to the reconciliation.
`StampFollowsPush`: `last_synced_at` never claims a push that
did not arrive. The run has one online warehouse; section 5 shows a second one,
and movements that overtake each other.

**reconcile.** `Converges`: once stock and prices rest, each listed channel ends
up with the right stock and price and keeps them, whatever was refused, given up
or lost, and whatever price changed without an event.

**guard.** `RateBound`: over any stretch of time the channel gets no more calls
than the burst plus the refill (`debt` is a leaky bucket that counts them).
`TripsInTime`: a closed breaker has seen fewer than the limit of failures in a
row, also when calls overlap. `NotStarved`: a task that waits for the bucket
gets a token or times out.

**shifts.** `OneOpenShift`, with the partial unique index as the only thing that
stands between two openings; `RequestsEnd`.

**webhook.** `RecordedAtMostOnce`: the POS gets an order at most once, and only
if it is reserved. `AckIsTheDecision`: the channel, which keeps the
acknowledgement in words of its own, never shows anything but the committed
decision. `DeliveriesSettle`: every order is decided and its deliveries end,
wherever requests die on the way.

**keys.** `PublishedKeyIsKnown`: a key that the realm published before a request
came in, and has not withdrawn, is never unknown to it, though slow requests
store older answers over younger ones. `WithdrawnKeyDies`: a withdrawn key is
not accepted for longer than the lifetime of the cache entry plus the time an
answer took to be stored.

**api.** Two tenants with an administrator, a role, a store, a product, a
variant, a warehouse and an open till each; a third one is onboarded.
`ScopeIsTheCallers`: a transaction sees and writes its caller's tenant,
whatever its connection did before, and a super_admin's sees all.
`RefsStayInTenant`: what a new row refers to is of its tenant, although foreign
keys accept any id. `OneTenantPerSubject`: the subject a request gives
its user is no other user's, though the check is long before the insert. It is
said of what the requests asked for, not of entries of an index, so that an index
that is missing or is per tenant breaks it. `ScanFindsOne`: no SKU or barcode is
there twice in a tenant. `EventsMatchRows`: rows and the events that tell of
them are committed together.

The type invariant of `Inventory`, `ChannelGuard` and `Shift` is checked in the
run of the module; theirs, that of `SigningKeys` and, as a part of their
invariants, those of `WebhookIngress`, `EventBus` and `ChannelSync` are proved;
the others are stated in their modules.

### Bounds

`MaxSeq` stops callers from starting transactions once so many events were
drawn; a transaction under way goes on, so with `MaxSeq = 2` two transfers of two
events each do meet. Two sessions are enough for every pairwise race and
deadlock; a third one is there where it plays another part. Quantities are one or
two units: enough for "the last unit", for a refused movement and for a
reservation that blocks a sale. `MaxEvents` of the bus is 2 with a batch of 2: a
batch cut by a crash between its sends, a gap left by a rollback, and a sequence
number committed after a higher one. `MaxFailures` bounds how often tasks die:
twice, so that both relays, both consumers, or the only relay and a consumer do.
Each writer is one transaction; the two are alike, and `FirstWriter` keeps to the
behaviours in which the first number is drawn by `w1`.
`MaxEvents` of the dispatcher, 3, covers an event overtaken by another while
a third waits, and two overrides. The pull of another base price is in
`reconcile` only, once: prices have to come to rest. There, a failed event is
dead-lettered at once (`MaxRetries` 1), since what redelivery does is for `sync`. The breaker opens after 2 failures and 2 ticks of cooldown;
the bucket holds two calls and needs two ticks for one. `WebhookIngress` needs no
bound: an order is decided once. A transaction that
enqueues nothing leaves no trace in the model of the bus. `Delay` bounds how long
an answer of the realm is under way; the code has no such bound (a request may
stand still before its SET), so `WithdrawnKeyDies` holds up to the longest delay.

In `api`, three requests are needed for a race of two and a connection that a
third has used. `ThreeOfOnePart` is the bound there: any two calls together, and
any three of one part of the API (identities; flags and lists; catalog; prices
and stock; tills). It cuts states, not steps: a request of another part is a
state that is generated and checked, and not continued. Requests of
different parts are so checked in pairs.

Runs say `CHECK_DEADLOCK FALSE` where callers
stop at their bound. Symmetry is used only in runs without liveness, on
requests, connections, keys and channels that are interchangeable.

### Fairness

* *Sessions* (`Inventory`, `OrderIngest`, `PosIngest`, `Shift`): a transaction
  that can take its next step does. Strong fairness, because PostgreSQL queues
  the waiters of a lock and so passes none over for ever. No client has to call
  and no crash has to happen.
* *Event bus*: as long as a relay can go on some relay does, and likewise with
  consumers (`run_forever`), and the visibility timeout runs out. A handler need
  not ever succeed, and one of two tasks may stand still for ever. A task that
  died comes back with its process (`Restart`), but nothing makes it:
  `eventbus_workers.py:64` starts it once, its death is only logged (lines 86-91),
  and no health probe asks for it.
* *Webhook*: requests go on; a channel delivers again what got no 200; an order
  that is delivered again and again is decided at some time, i.e. its requests
  do not die every time before the decision. Nothing makes the POS or the
  channel answer; `ReachableSpec` adds that they do, and `AcksArrive` and
  `SalesReachPos` are refuted even so.
* *Reconcile*: cron starts run after run; the dispatcher goes on; of the job's
  steps that are possible again and again each happens at last, i.e. neither the
  job nor the channel fails for ever. What a channel answers the dispatcher is
  left open.
* *Guard*: time passes and the event loop runs ready tasks.

## 4. The proofs

Eight modules, all obligations proved with no assumption other than the ASSUMEs
about constants in the module concerned and the hypotheses that four theorems
state: `OnlyOrdersReserve`, `OneWarehouse`, `SubjectsIndexed` (the users of before
are in the index on `external_subject`), and that there is an order.

**`InventoryProofs`**: `TypeCorrect`, `ChecksAreOnlyABackstop`
(`GuardsSuffice`) and `JournalIsComplete` (`JournalExplainsLevels`) for any
variants, warehouses, sessions, amounts and bounds. None of them is inductive:
that a written row is sound depends on the session's object being the row, which
depends on the lock. `StockInv` adds

* `Busy`: a session at a movement has one to do;
* `Applying`: a session about to apply a movement holds the lock of its row, and
  the object in its memory is the row as its transaction left it;
* `RowsSound`: committed and uncommitted rows satisfy the CHECKs;
* `RowsExplained`: so does the journal explain both, uncommitted rows with the
  transaction's own entries.

`StoredUnderLock` is the heart: under the lock the UPDATE stores what `_effect`
computed and the journal entry matches. There is a lemma per action, and
`ApiStepKeeps` puts them together. `PosIngest` breaks exactly `Applying`, which
is why `JournalExplainsLevels` fails there (section 5).

On `StockInv` rest

* `EventsTellEveryLevel` (`EventsReplayLevels`) and `VersionNamesTheLevel`
  (`ExpectedLevelIsTheLevel`). `EventInv` says what the events of a row tell,
  those in the outbox of the committed level and those and the holder's pending
  ones of the draft: each version once, in the order of the sequence numbers, the
  last one being the level (`Tells`). Numbers are drawn under the row's lock,
  so a number drawn later is a later version, whatever other rows' rollbacks skip.
  A level some caller expects was committed (`ExpectationsCommitted`), and only
  one level ever had its version.
* `InventoryIsALedger` (`ImplementsLedger`), the refinement of `StockLedger` step
  by step: `CommitPosts` for a commit, a stutter for every other step. The
  history of `StockLedger` is the outbox, so it is `EventInv` that makes it
  complete.
* `TransfersConserveStock` (`TransferConservesStock`). `Standing` says how far
  each transfer has come: which of its two movements it has drafted, and that no
  other row differs from what is committed.

Two theorems are about `PosIngest`, with pulls next to sessions of the API and
no `Applying` to go by. `PullsKeepReservations` (`SyncKeepsReservations`) follows
from `PullInv`: a pull only books receipts and adjustments, and the draft it
holds has the committed reservations, because it does not write that column.
`PullsStoreTheReport` (`SyncStoresReport`) follows from `ReportInv`. Per pull it
says

* `Computes`: the movement in hand is the difference between the report and the
  level the pull has cached;
* `Remembers`: a level that was cached is still there when it is locked, one that
  was missing is not the pull's own; once the row is locked, the object in memory
  has the quantity the difference was computed from, if the row was there from
  the start or is not there yet (`Owed`);
* `Books`: each row it has locked, but the one in hand, has the stock of the last
  product it has passed with that SKU (`Booking`).

The guards of `apply_movement` and the CHECKs play no part in it. What carries
over from one session to another is `Aside`: a step of one leaves the locks,
drafts and memory of another alone, and rows stay once they are there
(`TablesStay` to `TablesCaller`, a lemma per kind of step). `PullAssumption` is
that a catalog is a sequence of products.

The rest is about `OrderIngest`, for any orders, lines, warehouses and number of
deliveries. `OrderInvariant` says that `OrderInv` holds: `StockInv`, and

* `Ingesting`: where a delivery stands; what it has planned are reservations, each
  of a row of its own (`Reserves`), since a plan goes to each warehouse once;
* `KeyHeld`: the key of an order is held by the one delivery that is deciding it,
  and nothing is held for an order that is not reserved;
* `OnTheWay`, `Decided`: what a delivery has taken, with the moves it has planned,
  is what the lines it has passed ask for, variant by variant; what it is about
  to commit is the order's demand or nothing.

From it follow `OrderTypesCorrect` (`OrderTypeOK`), where there is an order at all;
`OrdersKeepTheTables` (`GuardsSuffice`, `JournalExplainsLevels`), so that those two
hold of orders, too, although a rejection rolls back to a savepoint in the middle
of a transaction; and `OrdersAreDecidedOnce` (`ImplementsOrderBook`), the
refinement of `OrderBook`: `CommitDecides` for a commit, a stutter for every other
step. It rests on `PlanIsPlanned`, that the greedy allocation takes and leaves
together what the line asks for, and takes nothing for a line that counts nothing
or less. `EveryReservationHasItsOrder` (`ReservationsHaveOrders`) adds `Holds`: a
row that a session has locked is reserved by as much more than the committed one
as its delivery has taken of it. Its hypothesis `OnlyOrdersReserve`, no caller of
`reserve` and `unreserve` at the API, is the property's own "where only orders
reserve": with `unreserve`, which names no order, it is false, by design of the
endpoint.

What the sessions of `Inventory` promise, they promise next to deliveries, too:
`OrdersTellEveryLevel` (`EventsReplayLevels`), `OrdersRespectVersions`
(`ExpectedLevelIsTheLevel`), `OrdersLeaveTransfersWhole` (`TransferConservesStock`)
and `OrdersKeepTheLedger` (`ImplementsLedger`), all under `OrderSpec`. By
`DeliverySteps` a delivery does one of three things to the tables: it steps like
an API caller, it thinks (`Thinks`), or it goes back to its savepoint
(`BacksOut`), which no API caller does; `ReleaseTells` and `ReleaseLeavesOthers`
are the lemmas about that. No run checks these four on orders; the run `stock`
checks the properties on API callers alone.

The sums over lines, warehouses and orders and the plan are folds, recursive
functions over sets. That such a function exists and what it yields
(`FoldExists`, `SumIsFold`, `SumChanges`, `PlanIsFold`) is shown by the least
number of elements for which it would fail (`LeastNumber`, `SubsetInduction`),
since the induction theorems of the library are out of reach. That is why
`WarehouseAssumption` and `OrdersAssumption` ask for finite sets. Warehouses are
numbers because the code goes through them in the order of their ids
(`order_by(Inventory.warehouse_id)`); finitely many ids that can be compared can
be numbered.

**`ChannelGuardProofs`**: `CallsStayWithinRate` and `BreakerTripsInTime` for any
number of tasks and any limits. The invariant of the bucket is
`debt + Refilled <= Capacity`: what recent calls owe and what could be granted
now never exceed the capacity together, whoever sleeps, times out or resumes.
`GuardTypes` (`TypeOK`): the queue of the lock holds the waiting tasks, each
once (`QueueOf`), although one that times out leaves from the middle.

**`ShiftProofs`**: `OneShiftIsOpen` for any number of sessions and shifts. The
invariant says that the session which holds the entry of an uncommitted opening
is the only one that can commit one, and that no shift is open while it does.
`ShiftTypes` (`TypeOK`), that a shift has a count if and only if it is closed,
adds `RequestsFit`: an opening about to commit has an unused number, a closing or
a booking a shift that exists. `CountsAssumption` is that there is a sum to count.

**`SigningKeysProofs`**: `TypesHold`, `RotationHeals` (`PublishedKeyIsKnown`) and
`WithdrawalHolds` (`WithdrawnKeyDies`) for any keys, requests, lifetime and
delay. `SteadyIsPublished` and `AnswerHasSteady` say that an answer a request has
fetched holds every key that was there when it came in and still is: that is
what the refetch decides by, not the cache, which somebody else may have
overwritten. `AnswersAreYoung` and `CacheIsYoung` bound the age of what the
answer or the cache knows by `waited`, and by `age + Delay`.

**`WebhookIngressProofs`**: `PosGetsItOnce` (`RecordedAtMostOnce`) and
`ChannelShowsDecision` (`AckIsTheDecision`) for any requests, orders and
channels. `WriterIsFirst`: a request on its way to the POS is the only one with
its order, which the POS has not got; `AckCarriesDecision`: one on its way to the
channel carries the committed decision. `WordsComeBack` is the lemma about
dialects: what an acknowledgement becomes in a channel's words reads back as
the same decision.

**`EventBusProofs`**: `RelayIsExactlyOnce` (`RelayedOnce`), `NoEventIsLost`
(`NothingLost`) and `EffectsHappenOnce` (`HandledOnce`) for any transactions,
relays, consumers, batch size, retries and deaths. `BusInv` says that batches
are stored, unpublished and disjoint (`BatchesFree`), that a message id and an
event determine each other, in the queue and in open transactions
(`Identities`), that a consumer's copy stands for a message of the queue
(`CopiesAreQueued`), that keys and effects agree, and that no two handlers at
work share an event (`HandlersApart`). A consumer's step changes messages and
neither adds nor removes one (`Requeued`); it archives one only after its event
was applied or dead-lettered (`ArchivingLosesNone`).

**`ApiProofs`**: `TenantsStayApart` (`ScopeIsTheCallers`) for any tenants,
requests, calls and connections, the pools of `posnet_app` and of the owner being
one or two. `ApiInv` says that a connection is one transaction's while it runs
and unscoped otherwise (`PoolInv`), that its scope is the caller's tenant
(`ScopeInv`) and so is all it has written (`OwnInv`). That a commit of somebody
else does not pull the caller's user from under a running transaction is
`UsersStay`: users are inserted and never updated, which is also why the theorem
would need another look the day a call deactivates one. `CallStep` reduces every
endpoint to one of five steps (refuse, enter, go on, insert, update), each
lemma `...IsStep` being about one endpoint; `...Keeps` are about the steps.
`RowsAssumption` names rows by maker and table, as the model does throughout.

The other four theorems of the module are about rows. `StoreInv` adds

* `MadeInv`: a transaction writes rows of its own making or replaces committed
  ones, and users, variants and events are never replaced;
* `LockInv`: what two open transactions write is apart, in rows and in index
  entries, and an entry that is committed is only written again for its row;
* `ReferInv`: what a row refers to is there and of its tenant (`Fits`), and a row
  that is announced has its event (`Told`), among committed rows and among those
  of each open transaction;
* `CallerInv`: what a call has looked up in its tenant is still there when it
  writes (`Known`), since nothing is deleted and no row changes its tenant.

`SubjectsHaveOneTenant` (`OneTenantPerSubject`) and `ScansFindOneVariant`
(`ScanFindsOne`) follow from `LockInv`, with `AsCalled`: a user or a variant that
a request made carries the entries of what the request asked for. The look-ups
before the insertions count for nothing in them. That `SubjectKey` has no tenant
in it is what the first rests on, and its hypothesis `SubjectsIndexed` says that
the users of before were entered in the same way. `ReferencesStayInTheTenant` (`RefsStayInTenant`) follows from
`CallerInv`: there the look-ups are all there is, for a foreign key accepts any
id. `EventsComeWithTheirRows` (`EventsMatchRows`) is `Told`. `IndexAssumption` and
`ReferenceAssumption` say that the database the requests find is in order.

**`ChannelSyncProofs`**: `StampsAreEarned` (`StampFollowsPush`), `PricesSettle`
(`QuietShowsPrice`) and `StocksSettle` (`QuietShowsTruth`) for any channels,
prices, safety stocks, answers and bounds. That a drained feed leaves channels
right is not inductive, as it says nothing before the feed is drained. The
invariant is about every moment: whenever a channel that lists the variant shows
something else, somebody will tell it, namely an event that waits (`Waits`) or
the one in hand, which has not come to that channel yet (`InHand`).

* `FeedInv`: the types; ids are given once, the event in hand is not hidden at
  the same time, and an event read for the last time is in hand (`QueueInv`);
  a draft takes no listing back, and what it calls active is shown (`DraftInv`).
* `StampInv`: of drafts too, since a commit turns them into listings.
* `PriceInv`: a price in hand is the one in force, or a later override waits, or
  it changed silently and no channel still to be told counts.
* `StockInv`: a queued movement tells the stock, or it was overtaken, or a later
  one is queued (`MovesTell`); from this a level in hand is as good as a price.

`StocksSettle` has the hypothesis `OneWarehouse`: the hub pushes the level of
the warehouse that moved, which is what may be sold only if there is no other. It
is not a convenience of the proof: with a second warehouse `QuietShowsTruth` is
false (section 5). The sum over the online warehouses is shown to exist and to
be a natural number by taking a smallest counterexample (`LeastNumber`,
`SumExists`, `SumIsNat`), the induction theorems of the library being out of
reach; that is what `Online` is finite for. `NoneAssumption` keeps the two marker
values out of the types they are added to.

**Model-checked only.** Liveness, which the prover cannot reach: `TransactionsEnd`,
`DeliveriesEnd`, `SyncsEnd`, `SettledWhileServed`, `Converges`, `NotStarved`,
`RequestsEnd`, `DeliveriesSettle`. Every other property of a passing run is a
theorem. What a reader should not take for more than it is:
`EveryReservationHasItsOrder` is about orders alone, and `StocksSettle` about one
warehouse; both without their hypotheses are false of the code.

## 5. Where the code and its documentation disagree

One run is expected to fail:

* `pos_sync_stale`, `JournalExplainsLevels`. `pos_ingest.py:133` loads levels as
  objects before `apply_movement` locks them; the locked SELECT returns the
  objects of before, so a movement committed in between is overwritten. The pull
  and a sale are enough. `inventory.py:5` says the lock makes movements
  serialise; `order_ingest.py:103` describes the trap and avoids it.

The following were met while modelling. The properties are in the modules under
"Promised and not kept"; add one to the configuration named to see the trace
(properties with fairness need the specification of the column "change").

| Property | Module, cfg | Change | What happens |
|---|---|---|---|
| `RejectedOnlyIfShort` | `MCOrderIngest`, `Orders.cfg` | | The plan is read before the lock and each warehouse tried once: an order is rejected though another warehouse still has the stock (`order_ingest.py:110`; its docstring: only "if the online stock can't cover a line"). |
| `SyncReachesTarget` | `MCPosIngest`, `PosSync.cfg` | | The pull found no level and books a receipt of the whole target; another session has created the level since (`pos_ingest.py:138`; "Drive the variant's stock to target"). |
| `EventuallySettled` | `MCEventBus`, `EventBus.cfg` | | An error outside the handler ends the relay or the consumer of a process (`eventbus_workers.py:64`). It is only logged (lines 86-91), the process stays up, `running` holds while one of the two is left, and `/readyz` asks the database and Redis only: events stay in the outbox or the queue for ever. `eventbus_workers.py:3` says the tasks run "for the app's lifetime", `relay.py:84` "continuously until ``stop`` is set", `consumer.py:3` "Delivery is at-least-once". |
| `OrderWithinTransaction` | `MCEventBus`, `EventBus.cfg` | `BatchSize = 1` | SKIP LOCKED lets a second relay publish a later event of the same transaction first (`relay.py:41`). Holds with one relay. |
| `MovedToDlqOnce` | `MCEventBus`, `EventBus.cfg` | | A handler outlives the visibility timeout; one consumer commits the effect, the other fails and dead-letters the message (`consumer.py:88`). Holds with one consumer. |
| `QuietShowsTruth` | `MCChannelSync`, `Sync.cfg` | `Warehouses <- TwoWarehouses`, `Online <- TwoWarehouses`, `Buffer <- NoBuffer`, `Answers <- Steady`, `MaxStock = 1` | The level of the warehouse that moved is pushed (`dispatcher.py:167`); `libs/adapter/protocol.py:116` promises the figure "already aggregated across online-sellable warehouses". One movement in the second warehouse is enough. |
| `PushesInOrder` | `MCChannelSync`, `Sync.cfg` | | A push fails and is retried after a later one; the older figure wins, since the handler ignores the version in the payload (`dispatcher.py:165`; `tests/integration/test_eventbus.py:235` names the hazard). |
| `Converges` | `MCReconcile`, `Reconcile.cfg` | `Buffer <- OneHeldBack`, `MaxStock = 2` | The job compares and pushes the stock without the channel's safety stock, and undoes it again and again (`reconcile.py:167`, `channel_config.py:27`). |
| `RepairKeepsTruth` | `MCReconcile`, `Reconcile.cfg` | | The figure is read before the channel is asked; a movement pushed in between is overwritten by the repair (`reconcile.py:140`). The next run of the job mends it. |
| `PriceReachesChannels` | `MCChannelSync`, `Sync.cfg` | | An override's window opens or closes, or a pull changes the base price, and nothing is emitted (`pricing.py:71` emits when the override is set only; `pos_ingest.py:73`). The job mends it. |
| `PublishedIsListed` | `MCChannelSync`, `Sync.cfg` | `Answers <- Steady` | A publishing reads the variants before a new one is committed; the new one's event is handled before the publishing commits (`catalog.py:98`; "re-emits ... for every variant"). Holds if `published` is never "soon" at first. |
| `EventuallyListed` | `MCReconcile`, `Reconcile.cfg` | | A refused first push leaves the listing pending; the job looks at active listings only (`reconcile.py:116`; `dispatcher.py:16`: the job "will catch up"). |
| `OneTrial` | `MCChannelGuard`, `Guard.cfg` | | Every caller that comes while the trial is under way passes too (`circuit_breaker.py:89`; "exactly one trial call"). ADR-0020 knows it, as latent with one consumer. |
| `CoolsDown` | `MCChannelGuard`, `Guard.cfg` | | A call that ends late starts the cooldown anew after others have passed. Holds with one caller (`Callers <- OneCaller`). |
| `CountIsFinal` | `MCShift`, `Shift.cfg` | `Counts = {1, 2}` | Two closings both read "open"; the second replaces the counted cash (`shift.py:70`; `tests/integration/test_shifts_api.py:168` expects a conflict). |
| `CashOnlyWhileOpen` | `MCShift`, `Shift.cfg` | | A closing commits between the check and the insert of a cash movement (`shift.py:92`). |
| `AcksArrive` | `MCWebhookIngress`, `Webhook.cfg` | `ReachableSpec` | A failed acknowledgement is logged; a redelivery is a duplicate without an answer to send, and no job looks at it (`webhooks.py:160`; line 155: "Reconciliation sweeps up missed acks"). |
| `SalesReachPos` | `MCWebhookIngress`, `Webhook.cfg` | `ReachableSpec` | A failed write to the POS is logged and not tried again (`webhooks.py:72`; line 56: "left for reconciliation/retry"). |
| `PullsHonestStock` | `MCWebhookIngress`, `Webhook.cfg` | | Nothing fulfils a reservation once the POS has recorded the order, so the next pull, from which the units are gone, leaves them reserved on top (`pos_ingest.py:148`). Assumes that a POS takes the units of a recorded order off its stock; the mock POS only stores the order. |
| `NoDuplicateAssignment` | `MCApi`, `Api.cfg` | | A role assigned twice for no particular store: NULLs are distinct in the unique index (`users.py:117`: "this role assignment already exists"). |
| `StoresStayInTenant` | `MCApi`, `Api.cfg` | | The store of an assignment is not looked up and its column has no foreign key, so it may be another tenant's (`identity.py:90`: "this is what stops a tenant assigning across the boundary"). |
| `UpsertsSucceed` | `MCApi`, `Api.cfg` | | Two first settings of one flag both find no override; the second fails on the index and is answered with a 500 (`feature_flags.py:36`; its docstring: "Upsert the tenant's override"). |
| `ReadYourWrites` | `MCApi`, `Api.cfg` | | The answer leaves before the commit (`deps.py:95`; FastAPI runs the exit of a dependency after the response): a client that uses the id it was just given may be told 404. |
| `EveryVariantIsOffered` | `MCApi`, `Api.cfg` | | `PublishedIsListed` again, with the transactions of both requests in full (`catalog.py:98`). |

## 6. What is not modelled

* **The price of a store** (`price_overrides.store_id`), which no channel is asked
  for: such an override appears as a row of the API only. Currencies.
* **Evaluating a flag** and the other reads that nothing depends on.
* **Messages that cannot be parsed** and the orderly shutdown of the workers.
* **Channels switched on or off**, credentials, and the mapping between layouts of listings and
  order lines and the canonical model: an adapter appears as what comes of a call
  (`Raises`) and as what the channel then shows. A channel that drops a listing
  by itself is left out: the job skips it ("not listed on channel"). Nothing
  calls `pull_orders`, and the ingest ignores the status of a canonical order.
* **Signature checks** of webhooks and tokens, and the claims of a token: one
  outcome that refuses the request. Tokens are not revoked, they expire.
* **Listings a channel holds back**: `dispatcher.py:162` stores the status the
  channel answers, and lines 158-160 skip an empty answer. In the model a push
  that lands leaves the listing active, which is what the channels of the
  repository answer (`mocks/mock_marketplace/store.py:28`,
  `mocks/mock_bazar/store.py:23`).
* **Rows that disappear**: no call of the API deletes one; migrations are not run
  next to requests.
* Logging, tracing, translation, backups, the admin web: no shared state.

## 7. Plan

Done: `Inventory` first, since everything else moves its rows; `StockLedger`;
`OrderIngest` with `OrderBook`; `PosIngest`; `EventBus`; `ChannelSync`,
`Reconcile`; `ChannelGuard`; `Shift`; `WebhookIngress` with the dialects of the
channels; `SigningKeys`; `TenantSession` with `Accounts`, `Catalog`, `Trade` and
`Api`; the proofs of section 4.

Next, in this order:

1. *Adapters*: a push that timed out and is applied by the channel after a newer
   one; a channel that drops a listing.
2. *Bus*: the orderly stop of the workers.
