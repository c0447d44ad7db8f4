# Formal models of ShreeNexa

ShreeNexa is a research, backtest, paper-trading and approval-gated live
trading terminal for Indian markets, built on the Dhan API v2.  Four processes
(`api`, `engine`, `feedd`, `worker`, ADR-0002) share a Postgres database, a Redis
server and a warehouse of Parquet files on disk.  This directory holds TLA+
modules of the parts whose correctness depends on the order in which things
happen, the TLC configurations that check them on small instances, and TLAPS
proofs of the properties that matter most for every instance.

Paths below are relative to `src/backend/app/` unless they start with `docs/`.

Contents: 1 inventory, 2 plan, 3 the modules, 4 the runs, 5 fairness,
6 the proofs, 7 what only the model checker shows, 8 disagreements between code
and documentation, 9 what is not modelled, 10 how to run the checks.

## 1. Inventory

### 1.1 Data download (worker)

**Backfill queue** (`worker/backfill_queue.py`, modelled).  Two Postgres tables: a
job is one series to download, a window one calendar month of it.  State: the
`state` of both, `attempts` and `claimed_at` of a window.  Operations: enqueue,
claim, complete, fail, release, reclaim stale leases, pause and resume on
authentication errors, upsert coverage, each one READ COMMITTED transaction.  Hard:
several workers, crashes between a claim and its answer, leases that run out
under a live worker, updates that do not look at the state they overwrite, a
count over rows other transactions are changing.  Correct when: a window is
downloaded by one worker at a time, an answered window is final, a job is
closed with the right verdict, no lease is lost, attempts stay in their budget.

**Backfill runner** (`worker/backfill_runner.py`, modelled).  One `drain` per beat:
claim, fetch, stage, and every `PUBLISH_BATCH_SIZE` windows publish the batch and
checkpoint its windows.  State: the batch in memory.  It calls the queue and the
publisher.  Hard: a crash or an error between publishing and checkpointing, five
ways out of the loop, two databases (files and Postgres) that cannot commit
together.  Correct when: a window is `done` only if readers find its bars, and
every claimed window is answered for.

**Beat and planning** (`worker/core.py`, `worker/universe_builder.py`, the
fetchers; partly).  The beat calls `drain` with a cap of `WINDOWS_PER_BEAT` and
backs off after errors.  Planning splits a series into calendar months.

**Warehouse** (`warehouse/publisher.py` modelled, `warehouse/reader.py` partly).
Versions of a catalog: `versions/<v>/` holds partition files, a manifest per
version lists each partition with its digest and source version, `current.json`
names the current version.  Publishing stages files, verifies digests, moves the
directory, merges the manifest with the current one, replaces the pointer.
Rollback points at an earlier version.  Hard: a crash or an I/O error between any
two file operations, torn writes, two processes publishing (or one publishing and
one rolling back), readers that pinned an older version.  Correct when: what
`current.json` names is complete, published data never changes, publishing only
adds or supersedes.

**API quota and incremental updater** (`worker/data_engine/`, not modelled):
Redis and Postgres counters, check and consume in separate steps.

### 1.2 Orders (engine)

**Order updates** (`engine/order_reconciler.py`, `dhan/order_stream.py`; modelled
except for the points of section 9).  State: status and cumulative quantity per
order, fingerprints of processed updates.  Updates arrive on a WebSocket that
drops and by HTTP postback.  Hard: loss, repetition, reordering, a failing REST
query.  Correct when: fills are reported once, and the record converges on the
broker's.

**Order desk** (`api/orders.py`, `engine/risk.py`, `engine/gateway.py`,
`engine/broker.py`, `dhan/client.py`, `dhan/retry.py`; modelled except for the points of
section 9).  State: the kill switch of each risk engine, the thread of each request, the
responses of its slices.  A ticket passes the risk engine, the audit ledger, the risk engine
again, a preflight, and the REST client, which retries.  Hard: an order whose answer was
lost, partial slices, requests that carry one correlation id, the end of the process between
recording and sending.  Correct when: what is live at Dhan is on record, a refusal means that
nothing was placed from there on, an order is placed twice only if an answer was lost.

**Audit ledger** (`engine/audit.py`, modelled).  An append-only hash chain in memory and
a file.  Operations: record an event (hash, append, write), load the file at the start,
verify the chain, reconstruct the events of a correlation id.  Hard: threads without a
lock, a failed or torn write, a restart.  Correct when: an event whose call returned is
still there afterwards, and the chain verifies unless it was tampered with.

**Continuous reconciliation** (`engine/continuous_recon.py`, not modelled).  Compares
local orders with broker snapshots and freezes symbols; nothing in the application
constructs it.

**Paper broker and lifecycle** (`paper/`, `api/paper.py`; modelled except for the points
of section 9).  State: orders, fills, cash and positions, deployments, all in memory.
Operations: submit, cancel, price update (match, book, settle), recover, reset of an
account, deploy, pause, resume, stop.  Hard: request threads against the feed thread,
without a lock; an order id that is used again; replayed price updates.  Correct when: the
books equal the sum of the fills, an order is filled once, cancelled and stopped mean it.

### 1.3 Market data (feedd)

**Request limiter** (`dhan/limiter.py`, modelled except for the points of section 9).
Token bucket plus minute, hour and day windows, in Redis (a script) or in memory.  State:
tokens and their time, counters with an expiry, or a list of times.  Hard: callers that
wait across the start of a window, keys that expire, a clock read before a lock is taken.
Correct when: no stretch of time sees more requests than bucket and caps allow.

**Connections and subscriptions** (`feedd/budget.py`, `feedd/subscriptions.py`; not
modelled).  Leases on WebSocket connections, instruments assigned to sockets; nothing in
the application constructs the subscription manager.

**Bar builder** (`feedd/bar_builder.py`, not modelled).  Ticks to minute bars.

### 1.4 Platform

Promotion of generated features (`feature_builder/promotion.py`): a
proposal is approved and executed by flipping the proxy between two colours.
Backup (`backup/`): copies the warehouse while it may be published to.
Both and authentication, supervision, monitoring, API, backtest, strategies, indicators,
screener, analytics, AI, frontend: not modelled, see section 9.

### 1.5 How the components interact

    universe_builder --enqueue--> backfill_queue <--claim/answer-- backfill_runner
                                     (Postgres)                      |  ^
                                                        stage,       |  | bars
                                                        flush_batch  v  | Dhan REST, limiter
    reader, backtest, api <--current.json, manifests-- publisher (disk)
    operator --rollback_to--------------------------------^

    ticket -> gateway -> risk engine -> broker -> REST client -> limiter -> Dhan
                 |                                    Dhan --WebSocket/postback--> order_reconciler
                 +--record_event--> audit ledger (memory, file)

    paper routes, lifecycle (request threads) --> paper repository <-- paper broker (feed thread)

PROJECT.json lists every component with its status and the main hazards, each with its
line and the properties that cover it; a hazard without a property says why.

## 2. Plan

The order of writing was: what the rest of the system reads (queue, warehouse, runner),
then what touches money (order updates, ledger, order desk, paper books), then the
limiter all processes share.  All of it is done.

| Module | Models | Composes | Abstract specification |
|---|---|---|---|
| `BackfillQueue` | the queue and any number of workers | - | - |
| `WarehousePublisher` | publishing and rollback on disk | - | `WarehouseCatalog` |
| `BackfillRunner` | the drain | both of the above | - |
| `OrderReconciler` | order updates | - | - |
| `AuditLedger` | chain in memory and in a file | - | `AuditTrail` |
| `OrderDesk` | ticket, risk engine, gateway, broker, retries | the ledger through its promise `AuditTrail` | - |
| `PaperTrading` | paper orders, fills, cash, deployments | - | - |
| `RateLimiter` | bucket and windows, with and without Redis | - | - |

Every safety property and both refinements have a theorem (section 6); what would come next
is more of the code, not more about these modules (section 9).

## 3. The modules

### BackfillQueue

| Variable | Code |
|---|---|
| `jobState`, `winState`, `attempts` | columns of `backfill_job` and `backfill_window`; "absent" before the insert |
| `overdue` | rows whose `claimed_at` is more than half an hour old |
| `txn` | the transaction of `claim_next_window` or of `complete_window`/`fail_window` a worker has open: the row it locked and what it decided about the job |
| `pausing` | the open transaction of `pause_all_for_auth`: the rows its first statement updated |
| `held` | windows a worker was handed and has not answered for (its memory) |
| `takenOver` | history: windows a reclaim or a pause took from a live holder |

Every function that writes is an action.  Most are atomic.  The three that are not
are split where other transactions' commits make a difference: claiming a window (the
row is selected and locked first, `BeginClaim`, and marked running when the transaction
commits, `CommitClaim`; `Selectable` is the `SKIP LOCKED`), retiring one (the count of its
siblings sees committed rows only) and the auth pause (two statements, each with its own
snapshot).  Row locks are modelled (`Locked`): an
update of a locked row does not happen until the lock is gone; an `UPDATE` of many
rows skips locked ones here, where Postgres waits and re-evaluates, which gives
the same result because the row it waits for is terminal afterwards or is put
back by the lock's owner.  The order of claims is `Rank`.

### WarehouseCatalog, WarehousePublisher

One action is one file operation, so that another actor or a crash fits between
any two.  `pc` is the position in `publish_version` or `rollback_to`; `version`,
`parts`, `plan` and `generation` are its local variables.  On disk: `staging`,
`files` with `moved`, `manifests` with `written`, `pointer` and `tmp`.  File contents
are their digests.  `TearManifest` and `TearTmp` are writes cut short by a crash or
a full disk.  A publication merges with the current manifest, as all callers ask for.  A publisher that writes `current.json.tmp` while another renames it is
covered by the same two states: torn first, whole when the write goes on.
`WarehouseCatalog` is what readers are promised: one map of entries that publishing
overlays and a rollback sets back to a complete version.  The refinement maps
`catalog` to the manifest the pointer names, `candidates` to all whole manifests, and
`restoring` to a rollback between its checks and its rename.

### BackfillRunner

Instances `Q` of the queue (workers are its workers) and `P` of the publisher
(workers are its actors, the content of a partition is the window it came from).
`step` is the position of a worker in `drain`, `run_once` or `flush`; `batch` is
`_pending`; `current`, `tried`, `stopping` are local variables; `covered` counts what
`bar_coverage` was told.  A fetch has the outcomes `run_once` tells apart: bars, no
bars, disk or API budget exhausted, authentication error, refused request, any other
error.  `PathOf` is the partition file of a window.

### OrderReconciler

`broker` is Dhan's record, `ws` the frames of the open WebSocket in order,
`postbacks` the postbacks that may still arrive (in any order, repeatedly, or never),
`orders` and `fingerprints` the two dictionaries of the reconciler, `filled` the sum of
the fill events it returned.  The exchange fills one lot at a time.  From the second
fill on the two channels may carry different prices, which the fingerprint includes.
The REST query of `reconcile_with_broker` may succeed or fail at any time.

### AuditTrail, AuditLedger

`AuditTrail` is what callers of `record_event` rely on: the events of a correlation id in
the order in which they were recorded, and none lost whose call returned, as long as every
line reached the file (`sound`).  `AuditLedger` has `memory` (`_events`), `disk` (the lines
of the file, each with or without its line break) and `recording` (where each thread is in
`record_event`: it has read the tail, or it has appended and not yet written).  A write may
succeed, fail, or be cut short, by a full disk or by the end of the process; the next line
is written right behind what was cut short.  A restart reads the lines up to the first one
it cannot parse.  A hash is the number of the call that computed it.  The run checks that
`AuditLedger` implements `AuditTrail`, and `OrderDesk` uses the same steps (`Record`).

### OrderDesk

A request is one `POST` of a ticket.  It carries the correlation id its client gave it
(`Cid`); the code keeps no two requests from carrying the same one, at once or one after
the other, and neither does the model.  `pc` is the position of its thread between ticket and
answer: `filter` (events of the gateway, first filter), `approved`, `check` (second filter for
single orders, preflight for every slice), `send` (attempts of the REST client), `respond`.
`slice`, `attempt`, `responses` and `fault` are its local variables, `answer` what the user was
told.  `orders` is what Dhan has, `unconfirmed` (history) those of them whose answer never
reached the desk.  An attempt is accepted; rejected; unreadable (a 200 answer that does not
parse, or a connection that breaks in a way the transport does not wrap), which ends the call;
or transient (a timeout, no connection, a 429, a 5xx), which is retried.  In the last two
nobody knows whether the order was placed.  `trail` holds the events of each correlation id.

`halted` is the set of risk engines that are halted.  `get_risk_filtered_broker` makes one for
every request, and no route halts any: an operator can only halt an engine of his own
(`Operator`), as a request would get it.  Which of the caps rejects an order is left open: any
order may be rejected at any filter.

### PaperTrading

`objects` are the `PaperOrder` objects in the order in which they were made, `current` the
object each order id stands for in the repository: an id can be used again, and threads
keep hold of objects the repository has forgotten.  `fills`, `processed`, `cash` and
`position` are the books, `feed` the price update at work (listing, matching, booking the fill,
saving the order, settling and saving the account are separate steps, because the repository
has no lock), `client` the
call a request thread is in.  `Ticket` gives every order id its account, side, kind, price
and trigger; match_order is the operators from `Touched` to `FillOf`.  Prices and charges
are small integers.  `cleanly`, `cut` and `wasReset` are history: what was cancelled while
none of its fills was being booked, how many objects there were when a stop listed the
orders, which accounts were reset.

### RateLimiter

Time is counted in ticks and tokens in ticks of refill, so that one request costs `Cost`
and the bucket holds `Burst * Cost`.  `mode` is the limiter `get_dhan_rate_limiter` made.
With Redis one step is one run of the script (`RunScript`), with `counters` per window
number and their expiry, `kept` the expiry of the bucket; the keys of a call are computed
when it begins.  In memory, `ReadClock` and `Locked` are two steps, because the clock is
read before the lock is taken, and `history` is searched by bisection.  A refused caller
waits and tries again when it likes within `MaxSleep`, or gives up.  What the script tells it
to wait is in whole seconds (`WholeSeconds`): Redis drops the fraction of a number in a reply,
so a caller short of less than a second of tokens is told 0, and gives up only when it has
waited past its timeout.  `granted` and `overtaken` are history.

### Proof modules, MC modules

A module whose name ends in `Proofs` holds the theorems of the module it is named after
(those of `WarehouseCatalog` and `AuditTrail` are with the modules that implement them).  The `MC` modules give the
functions among the constants their values and define symmetry.  Definitions whose name
ends in `_<Something>` under a comment that begins "For the checks of the properties" are
deliberately wrong variants, used to show that a property notices the corresponding bug;
no specification uses them.

## 4. The runs

| Run | Instance | Shows |
|---|---|---|
| `queue_workers` | 2 workers, 1 job of 2 windows, 2 attempts, leases may outlive half an hour, crashes without bound | `TypeOK`, `LeaseExclusive`, `ClosedJobIsFinished`, `TerminalStable`, `DeadLeaseReturns` |
| `queue_exhausted` | 1 worker | violation of `ExhaustedRetires` |
| `queue_settle_skew` | 2 workers | violation of `FinishedJobIsClosed` |
| `warehouse_actors` | 2 actors, 2 versions, 2 paths, 2 contents, 1 rollback | `TypeOK`, `CurrentIsReadable`, `PublishedIsImmutable` |
| `warehouse_one_publisher` | 1 actor, 3 versions, 2 paths, 1 rollback | `CurrentParses`, `ImplementsCatalog`, `GenerationAdvances` |
| `runner_drain` | 1 worker, 2 windows, batch of 2, 2 versions | `TypeOK`, `DoneIsReachable`, `NoLeaseLeaks`, `CoverageNotInflated`, `AnsweredOnce`, `Drains` |
| `order_stream` | 1 order of 3 lots | `TypeOK`, `NoDuplicateFills`, `TradedConverges` |
| `audit_ledger` | 2 writers, 2 kinds, 4 events, 2 restarts | `TypeOK`, `ChainVerifies`, `LoadableNeverShrinks`, `KeepsTrail` |
| `order_desk` | a single order and one of 2 slices with one correlation id, 3 attempts, 1 restart | `TypeOK`, `OrdersAreOnRecord`, `LifecycleInOrder`, `RefusedIsUnplaced`, `DuplicatesWereUnconfirmed` |
| `order_desk_retry` | the same, 2 attempts, no restart | violation of `NoBlindRetry` |
| `paper_trading` | 2 accounts, 2 order ids, 2 price updates, 2 clients, 1 deployment, 2 submissions | `TypeOK`, `BooksBalance`, `FilledOnce`, `StopClears`, `CancelHolds` |
| `rate_limiter` | 2 callers, burst 2, a token every 2 ticks, a second of 2 ticks, windows of 4 and 6 ticks with 2 and 3 requests, 8 ticks | `TypeOK`, `RateBounded`, `CalendarCaps`, `SlidingCaps` |

Why the bounds are enough.  The races of the queue are between two transactions on
one window, or on a window and its sibling: two workers and two windows have them
all, and two attempts distinguish "attempts left" from "last attempt".  In the
warehouse, two actors and two versions give every interleaving of two publications or
of one with a rollback; three versions let a rollback skip one.  Version names are
used up by a behaviour; a name under which nothing was moved is reused, so crashes and
abandoned batches do not end the run.  One worker suffices for the drain because the
single `worker` process is what ADR-0002 deploys (section 8 says what a second one would
break).  Two windows and a batch of two give a batch that is
half checkpointed, half released or half staged.  Orders do not share state in the
reconciler, so one order stands for any number; three lots are needed for two channels
to be a fill apart after the first fill.

In the ledger, two threads and four events give two overlapping calls before and after
each of two restarts, so that a file torn once is read, written and read again.  At the
desk, two requests of one correlation id run into each other at any step, or one follows the
other; three attempts distinguish the first, one in between and the last.  In the
paper books, two submissions let an order id be used again; the limit order leaves too
little cash for another one, the first price update fills only the sale and the second both,
and price updates are replayed without bound.  Eight ticks are two of the short windows and
more than one of the long; counters live for two windows, so the run sees them expire, and
the cap of each window binds before the bucket does in some behaviours and after it in
others.

Deadlock is checked in `paper_trading` and `rate_limiter`.  The other systems may stop: the
queue drains, the version names, lots, events or submissions run out.

## 5. Fairness

`BackfillQueue!FairSpec`: workers keep claiming and answering (each loop iteration of
`drain` does), an open transaction commits, that of a claim too, time passes (`LeaseExpires`), and weak
fairness does not suffice for `Reclaim`, which is called at the start of every drain and
can be disabled again and again by a pause that rolls back: an `UPDATE` queues for its
row lock, which is strong fairness.  Crashes, pauses, releases and resumes are never
forced.  `BackfillRunner!FairSpec`: the beat comes back (`StartDrain`), the process
executes, requests are answered, time passes.  `Drains` is conditional on faults
(crashes, exhausted budgets, authentication failures, publications an I/O error ends) stopping
eventually - a publication that `Verify` refuses is no fault and comes again every time - and excludes jobs parked by the auth pause, which wait for an operator, and
windows whose last attempt ended in a crash (section 8).  The other modules state
safety only.

## 6. The proofs

The constants carry named assumptions:

| Assumption | Says | Because |
|---|---|---|
| `QueueAssumption` | types of `JobOf`, `Rank`, `Batches`, at least one attempt | columns of the tables, `max_attempts` |
| `PublisherAssumption` | `NoVersion` is not a version | - |
| `RunnerAssumption`, `PartsAssumption` | a batch and a drain of at least one window; what the two above say, for the parts of the drain | `PUBLISH_BATCH_SIZE`, `WINDOWS_PER_BEAT` |
| `QuantityAssumption` | an order has at least one lot | quantities are positive |
| `BoundsAssumption` | the bounds of the ledger are numbers | - |
| `DeskAssumption` | at least one slice and one attempt | `calculate_order_slices`, `RetryPolicy` |
| `TicketAssumption`, `PriceAssumption` | a paper order has a quantity, a price and an account; prices and charges are numbers, no price is 0 | validated by the routes |
| `ThreadsAssumption` | finitely many threads | a thread pool |
| `BucketAssumption`, `ClockAssumption` | burst, cost and a second are positive, times are numbers | `dhan/limiter.py` |
| `TtlAssumption` | the keys of the bucket live until it is full again | 3600 seconds fill every configured one |
| `WindowAssumption` | a window is no shorter than a caller waits, and none is longer than the last | a minute against `timeout` and the longest sleep; minute, hour, day |

Nothing bounds the numbers of workers, jobs, windows, actors, versions, paths, orders,
threads, requests, clients or callers.  Two hypotheses are not assumptions, because the code
does not guarantee them; the theorems that need them name them: `Alone` (a single worker, or
a single process that publishes or rolls back) and `WholeBatches` (a job gets its windows at
once).  What becomes of the properties without them is in section 8.

**Queue** (`BackfillQueueProofs`): `TypeCorrect`, `LeaseIsExclusive`, `TerminalIsStable`.
The inductive invariant `QInv` adds to the type and the lease: an open transaction claims a
window nobody holds (`ClaimInv`) or retires one its worker holds (`TxnInv`), no two
transactions and no pause are at one row (`LockInv`; otherwise a commit could overwrite a
window another worker was given), rows locked by a pause are
running (`PauseInv`), and a running window has cost an attempt (`AttemptInv`; otherwise
a refund could go below zero).

**Jobs** (in the same module): `ClosedIsFinished`, under the hypothesis `WholeBatches` (a
job's windows are inserted by one `enqueue_jobs`; a window added later to a closed job
falsifies the statement at once, since the job keeps its state).  A worker that retires a
window counts the siblings others have *committed*; `ClosingInv` says why that is enough
when it finds none open: its own window is still leased, so nobody else can close the job
meanwhile, and terminal siblings stay terminal.  `TogetherInv` says a job and its windows
appear together, `ClosedInv` is the property.  A reclaim or a pause breaks the argument
only for a job one of whose windows it takes from a live worker (`takenOver`).  The
converse - a job with no window left *is* closed - fails, see `queue_settle_skew`.

**Warehouse** (`WarehousePublisherProofs`): `TypeCorrect`, `CurrentStaysReadable`,
`PublishedStays`.  `WInv` follows a version through `publish_version`: until its manifest
is whole it belongs to one actor (`BuiltByOne`); after `Verify` the staged files, after
`Move` the published files have the digests of the metadata (`StagedMatches`,
`MovedMatches`); the merged plan is stored (`PlanStored`); every whole manifest lists
stored files (`WholeStored`); and an actor past its manifest, `current.json.tmp` and
`current.json` only name versions with a whole manifest (`NamesComplete`).  Neither the
shared temporary file nor a lost update between two publishers can break this: they lose
a publication, they never publish something incomplete.

Under the hypothesis `Alone` (one process publishes or rolls back at a time, as the single
writer of `docs/architecture/data-lifecycle.md:123` would) three more: `CurrentAlwaysParses`
and `GenerationsAdvance` from `PointerInv`, the temporary file about to replace the pointer
holds what its writer wrote, with the generation after the current one; and the refinement
`CatalogImplemented`, from `PlanFollows` on top of both: what was merged stays the readers'
catalog with the new entries over it until the pointer is replaced, and only a rollback
gets there with nothing staged.  A whole manifest maps to `Prepare`, the replacement of the
pointer to `Append` or `Restore`, every other step to a stutter or to `AskRestore`.  Without
`Alone` all three fail: two publishers share `current.json.tmp`.

**Runner** (`BackfillRunnerProofs`).  For any number of workers: `DrainUsesQueue` and
`DrainUsesPublisher`, every step of a drain is a step of `BackfillQueue` and of
`WarehousePublisher`, or leaves their variables alone; `TypeCorrect`, for which the types of
all three are one invariant (`Types`); and `LeasesNeverLeak` from `LeaseInv`: what a worker
holds at any step it has in hand or in its batch, except for what it just answered for, and
the publisher is at the operation the step calls.

With one worker (`Alone`): `CoverageCountsOnce` and `VerdictsAreFinal` from `DrainInv`.  The
windows of a batch are distinct and still leased to the worker, or parked by its own pause
(`Opened`, `PauseOwn`), an open transaction carries the verdict the batch gives
(`VerdictKept`), and so nothing but the worker's own checkpoint retires a window.  A second
worker's reclaim or pause takes a lease from the first one, which then retires a window that
may have been retired before.  `DoneStaysReachable`: `ServeInv` follows the bars of a batch
from the staged parts through the plan, the manifest and `current.json` (`OnItsWay`,
`Booked`) and says that the file of a window marked done is in the current manifest, with the
bars of that window or of another one of the same file.  Nothing is assumed of `PathOf`: a
later publication may supersede a file (section 8), and never takes it out of the catalog.

**Orders** (`OrderReconcilerProofs`): `TypeCorrect`, `FillsAreReal`.  `FillInv`: the fills
reported are at most the recorded quantity, which is at most the broker's, and no update
on its way is ahead of the broker.  `QuantityConverges` adds `Reached`: no update that was
processed is ahead of the recorded quantity, so that the last update of an order, however
many were lost before it, leaves the broker's quantity.

**Ledger** (`AuditLedgerProofs`): `TypeCorrect`, `ChainHolds`, `LoadableStays`, `TrailKept`.  That memory verifies is not inductive,
because a restart takes memory from the file.  `ChainInv` adds that the lines a reader gets
to are the first events of memory (`Reads`) - torn lines hide what follows and nothing
else - and, while no write failed and no calls overlapped, that a file readable to its
end holds all of memory but the event being written (`Complete`, `Appended`), so that the
next event is linked to a tail (`Linked`) the next process will find too.  `LoadableStays`
needs only the types of `ChainInv` and one lemma about a written line (`WrittenLoads`).

`TrailKept` is the refinement of `AuditTrail`, without a condition on overlapping calls or
failed writes.  An event is on the trail once it is appended in memory (`Recorded`), the call
returns when its line was written or given up (`Returned`), a restart is `Reloaded`, and a
call that reads the tail is a stutter.  When calls overlap, file and memory hold the same
events in different orders; `FileTells` says that the events of one writer are in the same
order in both, but for the one it is about to write.  The rest are lemmas about
`KindsIn`, a recursive function: it exists, and an event more at the end adds its kind for
its writer and nothing for the others (`KindsExist`, `KindsAgree`, `KindsAppend`).
Induction up to a number is a lemma on sets here (`Upwards`).

**Order desk** (`OrderDeskProofs`), for any requests and any correlation ids they share:
`TypeCorrect`; `RefusalsAreUnplaced` and `OnlyLostAnswersDuplicate` from `SlicesInv`, nothing of
a slice is at Dhan before its first attempt, and before the last one no more than attempts
whose answer was lost.  Both speak of one request, of each of its slices: what several
requests of one id place together has no bound.  `LifecyclesAreInOrder` and `RecordHolds` from
`RecordInv`, which counts: the requests of an id that are past a boundary (`Held`, `Handed`)
have each an event of it on the trail, and the end of the process only takes requests away.
Counting is what is left when several requests write into one trail; that the events of an
id can be told apart does not hold (section 8).

**Paper books** (`PaperTradingProofs`): `StopsHold`, `CancelsHold`, `FillsOnce`,
`BooksHold`, `TypeCorrect`.  A
stop marks the deployment long after it listed the orders: `StopInv` says of every order
accepted in its account that it is newer than the stop, still on its list, or the one it
is cancelling.  `CancelInv` needs that no fill of a cancelled order comes to be under way
(`FeedInv`), and both need that a fill closes its order: no order is ever filled in part
(`ObjectsInv`, `TicketAssumption`).

`FillsOnce`: a fill is not recorded with the object it was matched for, and it is booked for
whatever object its id stands for by then, so fills cannot be counted per object.  `OnceInv`
counts per id the fills it has and those it may still come to (`Chances`): one under way, or
one of the current object while it is accepted, and one of an earlier object the price update
at work still has on its list.  `BooksHold`: `BooksInv` says that cash and position, with what
is due to them from the fill being settled (`CashDue`, `PositionDue`), are the sums of the
recorded fills; sums over a set are taken in the order `CHOOSE` gives its elements, and a
group of lemmas shows that an element more adds its weight whatever that order is
(`SumExists`, `SumUnique`, `TotalAdds`).  The types need a count (`CountInv`): objects made
and calls of `submit` under way are at most the submissions.

**Limiter** (`RateLimiterProofs`): `RateHolds`, the formula of `docs/qa/acceptance/F0.6.md:53`
for any callers, burst, rate and windows.  The bound speaks of two requests; the invariant
(`Balanced`) of one request and the bucket: the requests since then and the tokens left cost
no more than the capacity and what came in since.  `CapsHold`: `CalendarInv` says that the
counter of a window and bucket number is the number of requests let through that began in it,
and that its key lives two windows; a caller that began in it waits no longer than
`Timeout` and one more sleep (`Patient`), so the key does not expire while it is still needed.
`CapsSlide`: `SlidingInv` says that the history is the end of the record of requests
(`Recorded`), in order, with as many requests as the cap allows a window apart (`SpacedIn`).
That the bisection finds the first request inside a window is proved of the recursive
function the model computes it with (`Searches`, `Splits`).  Both `RateHolds` and `CapsSlide`
except behaviours in which a thread used an older clock reading than the one before it
(`overtaken`).

Each inductive invariant was checked by TLC on the instances above before it was proved.

## 7. What only the model checker shows

Liveness: `DeadLeaseReturns` and `Drains`, which hold under fairness (section 5); the prover
has no rules for fairness and `ENABLED` that its backends could use.  The violations of
section 8 are counterexamples TLC finds.

Every invariant, every action property and both refinements (`ImplementsCatalog`,
`KeepsTrail`) of the passing runs are proved, `ImplementsCatalog`, `CurrentParses`,
`GenerationAdvances` and three properties of the drain (`CoverageNotInflated`, `AnsweredOnce`,
`DoneIsReachable`) under the hypothesis `Alone`, as the runs check them, `ClosedJobIsFinished`
under `WholeBatches`.

## 8. Where code and documentation disagree

With a run that shows it:

- `queue_exhausted`: a window whose last attempt ended in a crash is reclaimed to
  `pending` with no attempts left; nobody may claim it, nobody retires it, its job
  never closes.  `worker/backfill_queue.py:265` says it "still retires eventually".
- `queue_settle_skew`: two workers retiring the last two windows of a job at once each
  count the other's as running; the job stays open, against `backfill_queue.py:500`.
- `order_desk_retry`: `docs/qa/acceptance/F12.1.md:30` and `engine/broker.py:7` say that a
  timeout is never retried blindly; the REST client below the broker sends the POST again
  while attempts remain (`dhan/client.py:115`), so one request may leave several orders.

Seen while modelling, without a run of their own.  Data download:

- Two workers publish at once: the later pointer drops the earlier publication and its
  windows are marked done all the same (`worker/backfill_runner.py:225`);
  `docs/architecture/data-lifecycle.md:123` requires a single-writer publication lease,
  which no code takes.
- `month_windows` clips the first month to a start date that moves every day, so a series
  enqueued on two days has two windows for one partition file, and the later publication
  replaces the bars of the earlier window, which stays done.
  `worker/universe_builder.py:124` describes exactly this and says it "cannot happen".
- Two windows of one partition file in one batch: the second overwrites the staged file of
  the first, `publish_version` refuses the batch because a digest does not match, `flush`
  releases every window of it with its attempt refunded, and the next drain makes the same
  batch again, for ever (`worker/backfill_runner.py:235`).  The last month of a series has one
  window, whose end is not moved when the series is enqueued again.
- The batch a crash takes before its flush is downloaded again; phase F1.10 of the build plan
  asks that a resumed download "replays no API call".
- A window can be downloaded twice after a reclaim or another worker's auth pause although
  its first holder lives (`takenOver` marks it); windows enqueued under a closed job are
  never claimed (`backfill_queue.py:223`); a crash between `complete_window` and
  `upsert_coverage` leaves the coverage short for ever (`backfill_runner.py:255`); a database
  error while a batch is checkpointed leaves `_pending` behind with its publisher batch
  closed (`backfill_runner.py:244`).

Orders:

- An older update of equal quantity overwrites a newer status and no query corrects it
  (`docs/qa/acceptance/F12.2.md:22`); the fingerprint contains the price although
  `F12.2.md:18` does not list it; a skipped quantity triggers no query although `F12.2.md:23`
  says so.
- `docs/qa/acceptance/F12.3.md:27` says that a correlation id whose order is pending is
  blocked.  `_uncertain_orders` is never filled, because the broker turns `DhanTimeoutError`
  into a response (`api/orders.py:300`).  The id is the client's and not looked up
  (`api/orders.py:213`): posted again, after a pending answer or an accepted one or at the same
  time, it places another order.  The model lets requests share an id, and nothing bounds
  what they place together.
- Requests of one id write into one lifecycle of the ledger, by which, says `engine/audit.py:6`,
  a trade can be reconstructed.  When a later slice fails, the responses to the earlier ones
  are dropped and one failure is recorded (`engine/gateway.py:163`): an order Dhan confirmed is
  on record as submitted only.
- `engine/risk.py:5` says that the kill switch rejects all subsequent orders.
  `get_risk_filtered_broker` builds a risk engine per request (`engine/gateway.py:187`, called
  at `api/orders.py:240`): a halt, like velocity stamps and losses, reaches no other request,
  and no route calls `halt`.  No property of the kill switch holds that is worth stating.
- A pending order is answered with `success=True`; `reconcile_pending_order` has no caller.
  The status of the first slice is answered for all of them.
- Only the whole order is filtered, not its slices; a preflight that fails at a later slice is
  answered with 403 though earlier slices were placed.
- A velocity stamp is used up before later checks reject, and a single order uses two;
  `unhalt` leaves the daily loss where it was.
- A ledger write that fails is only logged: the chain of the next process misses the event,
  and `verify_chain` then speaks of tampering.  So do two overlapping `record_event` calls.
  Events written after a torn line are never read again.

Paper trading:

- A pause or resume that looked at a deployment before it was stopped sets it to PAUSED or
  RUNNING afterwards, against `paper/lifecycle.py:256`, "Permanently stop"; `submit_orders`
  never looks at the deployment's state.
- `apply_fill` reads the order, changes it and saves it (`paper/broker.py:156`): the same id
  submitted again in between is overwritten by the save, and the new order forgotten.
- The order id is instrument, side and quantity (`api/paper.py:106`): the same order
  submitted again replaces the record of the first.  A late cancel puts the old object back.
- A cancel that comes while a fill is being booked overwrites `FILLED`, or is overwritten by
  it.  Accepted buy orders reserve no cash, which may go below zero.
- `POST /accounts` resets the cash and leaves fills and positions, after which
  `reconcile_portfolio` reports a discrepancy; a reset during `save_account` is lost.
- The trigger of a stop-limit order is not remembered from one price update to the next
  (`docs/qa/acceptance/F9.1.md:13`).
- The "thread-safe" repository has no lock; `process_price_update` and
  `reconcile_on_startup` have no caller outside the coordinator and the tests.

Limiter:

- In memory the clock is read before the lock is taken, so a thread may use a reading older
  than the one before it; `_replenish` then sets the clock of the bucket back, and the same
  time is credited twice (`dhan/limiter.py:240`, history variable `overtaken`).
- The in-memory limiter belongs to one client object: without Redis every process has the
  whole budget (`docs/qa/acceptance/F0.6.md` says "Multi-process safe").
- Redis cuts the fraction off the wait the script returns (`dhan/limiter.py:116`), so that a
  caller of any category with more than one request a second is told to wait 0 seconds; only
  `base_delay_seconds` keeps it from spinning.
- A caller that waited across the start of a window is counted in the old one
  (`CalendarCaps` counts by when a call began); a full window makes callers wait for the
  expiry of its counter, up to two windows.

## 9. What is not modelled, and why

Of the modelled parts: queries that only read; the contents of bars, quality reports and
SQL; back-off times; the order statuses TRIGGERED, MODIFIED, REJECTED, EXPIRED and
INACTIVE (they behave like PENDING or CANCELLED for the properties); a trade of several
lots at once; a restart of the engine, which forgets every order and would report the
whole quantity of a half-filled order as a new fill; `stop()` of the stream client;
database errors.  `resume_after_auth`, `enqueue_jobs` and `rollback_to` are modelled as
actions anybody may take at any time, although the application calls them from scripts
and tests only.

Of the ledger: redaction, queries and the size of payloads.  Of the order desk: which cap
rejects an order, `record_loss`, `modify_order`, `cancel_order` and `place_sliced_order` of the
broker, the ticket's paper mode.  Of paper trading: average prices and profits, the
coordinator of several strategies, `close_positions`, archiving, the race of two calls that
create one account, reports; the two price updates of the run give every order kind it has
one tick that fills it and one that does not.  Of the limiter: `try_acquire` (no caller),
`get_budget_usage` (a read), requests that cost more than one token, the jitter of
a sleep below a tick; a thread whose sleep is over runs before the clock moves on.  The
callers' clock, which names the windows (`dhan/limiter.py:331`), and that of the Redis server
are one: `infra/docker-compose.prod.yml` runs both on one host.  Were they apart, a request would
count in the window its caller takes it to be in.  Of the warehouse: `publish_version` without
`merge_with_current`, its default, which has no caller.

Whole components.  `ContinuousReconciler`, `SubscriptionManager` and `reconcile_pending_order`
have no caller in the application, the connection budget is only read by one route, and the
incremental updater downloads nothing: models of them would be of code that does not run.
Backtest, indicators, strategies, analytics, screener, portfolio and investing are sequential
computations over data, where unit tests reach what matters; the API delegates;
authentication and supervision are mostly cryptography and operating-system calls; the AI
assistant and the frontend have no shared state of interest.  These make up most of the
repository, which is why the modules stand for a small share of its lines: what they leave
out is computation and input/output without concurrency, failure handling or state that
outlives a call.

## 10. Running the checks

    tlc -workers 2 -config queue_workers.cfg MCBackfillQueue.tla
    tlc -workers 2 -config order_stream.cfg OrderReconciler.tla
    tlc -workers 2 -config paper_trading.cfg MCPaperTrading.tla
    tlapm OrderDeskProofs.tla

and so on for every configuration and every `Proofs` module.  PROJECT.json names the module of every configuration, the properties each run checks,
the wrong variant each property notices, and the source lines of every definition.
