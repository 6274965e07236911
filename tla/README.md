# Verification of progressive-architecture-lab

The program under `src/app/src` is one TypeScript code base deployed in many
ways: a shop with items, orders and users that goes from a monolith to services,
caches, queues and four ways of keeping an items database and an orders database
in step. This directory holds TLA+ models of the parts whose correctness depends
on what happens *between* steps: two databases, several processes, callbacks and
calls that are lost, late or repeated. TLC checks the models on small instances;
TLAPS proves every safety property the passing runs check, for every instance.

    tlc -workers 2 -config MCTwoPhase.cfg MCTwoPhase      # and so on, see "Runs"
    tlapm TwoPhase_proofs.tla                             # and the other *_proofs modules

All paths below are relative to `src/app/src` unless they start with `src/`.

## 1. The system

| component | state it keeps | operations | interacts with | what is hard |
|---|---|---|---|---|
| Order by 2PC (`create-order.ts` `createOrder2pc`) | prepared transactions in orders-db and items-db, `tx_journal` | prepare x2, journal, commit x2, delete | items-service over HTTP with 5 s timeouts | crash between any two steps; calls that outlive their caller; row locks |
| 2PC resolver (`server.ts` `resolveInDoubt`, run by `main` before `listen`) | three lists read one after the other, `itemsReachable` | commit or roll back each gid, delete the journal row | the same tables and calls | acts on what it read earlier; items-service unreachable; other coordinators |
| Order by saga (`createOrderSaga`, `sagaPoller`) | `saga_log`, `reservations` | reserve, insert, complete; claim, release, mark | items-service; the poller shares `saga_log` with the handlers | poller against slow handler; release that overtakes its reserve; crash in the middle |
| Outbox (`createOrderOutbox`, `outboxPoller`) | `outbox`, `processed_messages` | order and message in one transaction; claim, POST, mark | items-service | at-least-once delivery, overlapping executions, duplicates |
| Choreography (`createOrderChoreography`, two pollers) | `choreo_outbox` and `processed_messages` on both sides, `orders.status` | order event, stock event | both services call each other | the same, in both directions; events out of order |
| Worker pool (`pool.ts`, `cpu-worker.ts`, `GET /work`) | slots, queue, map `pending` | run, assign, drain, replace, destroy | worker threads through events | a thread dies while its events are still queued |
| Write-behind queue (`POST /items` with `ASYNC_WRITE`, `consumer.ts`) | Redis stream, consumer group, pending list | XLEN, XADD; XREADGROUP, INSERT, XDEL, XACK, XAUTOCLAIM | API, consumers, Redis, Postgres | crash between any two commands; takeover of slow work |
| Items API (`GET`, `POST /items`) | key `items:latest100` with a TTL, rows on the primary, what the replica shows | GET, read, SET; INSERT, DEL | Redis, primary, read replica, other instances | a SET of an old list after the DEL; replica lag; a DEL that fails |
| Start-up (`main`, `initDb`, `ensureVisible`) | table, seed, advisory lock, attempts | create, lock, look, insert, wait, listen | other instances that start, the replica | two instances on an empty database; a seed that throws under the lock |
| Strangler migration (`DualWriteItemsAdapter`, `/admin/items-migration/mode`, backfill) | mode, two items databases | delegate, mirror, list, bulk upsert | orders in flight (`ORDER_TX_MODE=none`), the operator | the mode flips between calls; the backfill against live writes; restarts |
| join mode, mud, users, metrics | | | | local transactions or read-only; see section 8 |

What makes each correct: 2PC is an atomic commitment, a 201 stands and no stock is
oversold, and restarts settle what is in doubt. The saga gives back what was
reserved and never the stock of a created order. Outbox and choreography behave as
if every message were handled once. The pool answers every job and lets none wait
beside an idle worker. The queue turns every 202 that the consumer group knows of
into a row, and leaves nothing behind that would count in its length. The cache does not stay stale, one seed is committed, and an instance that
listens can read. Clients of a migrating shop see one store, and an operator who has seen
no error, no 500 and no restart since the backfill moves the true stock.

## 2. Modules

| module | models | uses |
|---|---|---|
| `AtomicCommit` | abstract: one order, two databases, never different ends | |
| `Units`, `Units_proofs` | what a set of orders takes in all (`Total`), and how that changes when an order comes or goes | |
| `TwoPhase` | 2PC handler, items-service, resolver and coordinator life cycle | `Units`, instance of `AtomicCommit` |
| `TwoPhase_proofs` | theorems about `TwoPhase` | extends `TwoPhase`, `Units_proofs`, `TLAPS` |
| `OrderDesk` | abstract: an order is placed, answered by the stock and told, once each | |
| `Messaging` | outbox and choreography: three channels on one poller/receiver machinery | `Units`, instance of `OrderDesk` |
| `Messaging_proofs` | theorems about `Messaging` | extends `Messaging`, `Units_proofs`, `TLAPS` |
| `SagaStore` | abstract: an order by the saga is supplied, refused or compensated, once | |
| `Saga` | orchestrated saga with its recovery poller | `Units`, instance of `SagaStore` |
| `Saga_proofs` | theorems about `Saga` | extends `Saga`, `Units_proofs`, `TLAPS` |
| `JobQueue` | abstract: one bounded line of jobs before as many servers as there are workers | |
| `WorkerPool` | `WorkerPool`, worker threads, `/work` | instance of `JobQueue` |
| `WorkerPool_proofs` | theorems about `WorkerPool` | extends `WorkerPool`, `TLAPS` |
| `WriteBuffer` | abstract: what is accepted is kept until it has a row, and inserted only while it is kept | |
| `WriteBehind` | stream, consumers, backpressure | instance of `WriteBuffer` |
| `WriteBehind_proofs` | theorems about `WriteBehind` | extends `WriteBehind`, `TLAPS` |
| `ItemStore` | abstract: orders without a transaction over one store | |
| `Migration` | orders in mode none, the dual-write adapter, the operator with his playbook | `Units`, instance of `ItemStore` |
| `Migration_proofs` | theorems about `Migration` | extends `Migration`, `Units_proofs`, `TLAPS` |
| `ItemsApi` | start-up with seed and replica, cache-aside reads, synchronous writes | |
| `ItemsApi_proofs` | theorems about `ItemsApi` | extends `ItemsApi`, `TLAPS` |
| `MC*` | values of the constants for TLC | |

Every module has the same plan: constants with a named assumption, variables, the
type invariant and `Init`; *mistakes this code could have made* (operators no action
uses; put in the place of an action they show that a property can be violated);
one action per operation of the code; `Next`, fairness; properties. The constant
`Faults` names the failures the environment may produce, so that a run says which
ones it needs.

The six abstract modules (`AtomicCommit`, `OrderDesk`, `SagaStore`, `ItemStore`, `WriteBuffer`,
`JobQueue`) say in a page each what a component is for; none of them knows of
processes, calls, logs or failures. Each is a property of its detailed module (`Refines...`), which
a run checks and a theorem proves. What several orders take together is `Total(Qty, S)` of `Units`:
it counts the units, `{o} \X 1..Qty[o]`, instead of adding up quantities, because a sum is recursive and a
cardinality is not, so the library's theorems on cardinality prove its laws.

### TwoPhase

`pc[g]` is where `createOrder2pc` is for the order with gid `g`: a state per `await`.
`ordersDb[g]`, `itemsDb[g]` are the order's transactions in the two databases,
`journal` is `tx_journal`, `calls` the HTTP calls items-service has not finished (a
caller that gives up or dies leaves its call there), `holding` the prepares that
have a pooled connection. `stock` is the committed stock: a prepared decrement shows
only in `itemsDb` and in the row lock (`RowFree`). `phase`, `local`, `listed`,
`reach`, `commits` are `main` and the local variables of `resolveInDoubt`, `task` how
far its loop is with each gid. The order of the loop is left open (a `Set` built of
three lists, whose order no database promises).

* An orders-db query is one step; a query that throws has run or not run.
* `PREPARE TRANSACTION` in items-service is one step with the UPDATE that gets the row
  lock; `Connect` before it takes the pooled connection and may then wait.
* A database error that items-service answers to the handler has the effect of
  `LoseCall` followed by `HandlerTimeout`; so has the exhaustion of
  `max_prepared_transactions`.
* Without network faults a call is late only for want of a connection or a row lock.
* Each order draws a fresh gid (`randomUUID`), and the item it buys exists.

### Messaging

One machinery for the three channels `outbox`, `created` (OrderCreated) and `stock`
(StockReserved / StockRejected): `Claim` (the first `Limit` undelivered rows),
`Deliver`, `MarkDelivered`, and the `catch` that goes on to the next row.
`setInterval` does not await its callback, so up to `Cardinality(Run)` executions of
one poller overlap. A receiver is one transaction. `mode` is how the orders service
is deployed, drawn in `Init` and fixed: what a deployment in another mode leaves
undelivered is not modelled. The order's number stands for the position in which
its row is claimed (`created_at`, or `msg_id`, which is random, so orders are placed
in any sequence of numbers). Calls of one execution for one message merge.

In outbox mode the stock may go below zero; the lab says so
(`src/docs/learning-log/22-lv22.md:41`), so `ReservedWithinStock` is about
choreography.

### Saga

Handler, `reservations` and `saga_log` as in the code. `sagaPoller` also runs in a
choreography deployment, where no handler writes `saga_log` and it finds nothing; `updateSagaLogState` is
unconditional there and here. The 3 s of `claimStuckSagaLogs` are the flag `old[g]`.
With `Timely = FALSE`, `Age` may set it at any time; with `Timely = TRUE` only once the
handler is gone, the assumption the poller makes (`server.ts:477`). The claim looks at
`updated_at` alone, so a call the handler has left behind does not hold it up: a reserve
that waits for the row of its item may land after the poller's release, which found no
reservation and was answered ok. The history variable `overtaken` remembers these sagas;
no action reads it. The poller works through a batch saga by saga; executions
overlap. A row that a failed compensation leaves `'compensating'` is not claimed
again: the code says so (`server.ts:492-495`), and no property here promises more.
Likewise a crash between the INSERT of the order and `'completed'` lets the poller
compensate an order that exists (named in `src/docs/learning-log/19-lv19.md`, line
73); `CreatedStands` is about orders answered with 201.

### WorkerPool

The main thread runs one callback at a time, so each callback is an action; a
thread's `message`, `error` and `exit` wait in `events[s]` until the main thread
takes them. `run` takes *any* free slot (the code takes the first). `_drain` is part
of the handler that calls it. The listener for `exit` ignores code 0; `cpu-worker.ts`
never exits by itself, so a thread's death always has another code here.

### WriteBehind

`stream`, `fresh` (behind the group's last id), `pel` and `stale` (idle for 60 s) are the
stream and its group; `loop[k]` is the consumer's read loop and its autoclaim loop with
what they hold. `bulk` chooses per-row or batch. A consumer with `COMMITTERS` > 1 is
more read loops, which here are more consumers. `rows` counts INSERTs and saturates
at 2, since a redelivery may repeat an INSERT (acknowledged in
`src/stages/08-async-queue/README.md`). `AnswerLost` is a reply of Redis that never
arrives: the entries are pending in nobody's hands. The API and the consumers start
independently, so a write may be accepted before the group exists, which begins at `$` and
never delivers it. When an XDEL fails, `ackAndDelete` skips the XACK; the pipeline of a batch skips
it only if the connection is gone, and goes on to it when single commands fail (`consumer.ts:289-294`).
Either way leaves entries that neither XREADGROUP nor XAUTOCLAIM finds: `Stranded`, which the properties
name instead of excluding. `Timely` says whether a batch is always done within `AUTOCLAIM_IDLE_MS`. The DEL of the cache key is a step of the loop that changes nothing
here; what it is for is in `ItemsApi`. Not modelled: malformed entries, the loss of
Redis data, the drain on SIGTERM (a crash covers every state it can leave), the wait of
the consumer for the items table.

### Migration

An order in mode none is one decrement through `DualWriteItemsAdapter` and one INSERT.
`via[o]` is the mode the adapter read when the call began; it keeps it for the whole call,
whatever the admin endpoint sets meanwhile. `primary` is the stock in the monolith's
database, `secondary` and `present` the row in items-db, `calls` the decrements
items-service has not finished: one that its caller has given up still runs.
`took[o]` says that the store that counts has done the order's decrement; the code has no
such variable, and only the properties read it. `copy` is the output of
`GET /internal/items/all` on its way to the upsert, `erred` stands for two things an
operator can see: the secondary error counter and 500s. The counter is in the memory of the
monolith (`server.ts:207-211`), so a restart sets `erred` back; `restarted`, a history
variable, says that there was one. `gap` and `warned` are history variables, too: by how much the
stores differed at the cutover, and whether `erred` or `restarted` said so.

* The operator follows the playbook of `src/stages/18-live-extraction` (its README); the admin endpoint itself would accept any mode at any time.
  `BulkUpsert` sets `erred` and `restarted` back: what matters is what happened since the backfill.
* `Cutover` has no gate. The endpoint has none, and that of the playbook, a `shadow_mismatch` of 0,
  is always open (below). What an operator who looks at errors and restarts would know is a
  property, not a guard: `StockConserved`.
* `Quiet`: traffic is held, and no call is left anywhere, while the operator switches and
  from the copy to the upsert. The playbook does not ask for it; run `migration_drift`
  shows why it must.
* `Pinned`: `ITEMS_MIGRATION_MODE` is set along with the mode. With `FALSE` a restart after
  the cutover goes back to the old database, and `RefinesStore` fails.
* A restart of the monolith loses the handlers; their calls go on. A restart of
  items-service is a lost call.
* One item is enough: list and upsert are one statement for all rows, everything
  else touches one row.
* `getItem` with its shadow comparison is not modelled: no route or use case calls it. So
  the mismatch counter of the playbook's gate stays at zero whatever the stores hold, and
  `dual_shadow` differs from `dual_write` in name only.
* The other order modes go through the adapter too. The code says that 2pc and saga are for
  after the migration (`ports/items-port.ts:158-159`); what a switch between the calls
  of one such order does is not modelled.

The refinement maps `stock` to whichever database the mode makes the true one, and an order
to what its client sees, with "taken" and "spent" from `took`. The cutover is the one step of
the store that replaces its stock (`Replace`), by any number; how it may do so is said by `StockConserved`.

### ItemsApi

`log` is the sequence of commits on the primary (the table, the seed, rows); the read pool
shows the first `applied` of them, all of them if there is no replica. `pc[a]` walks through
`main`: an attempt of `initDb` (schema, lock, look, insert, the rest), then the wait for
`to_regclass` on the read pool, then `listen`. A query that throws has committed or not,
gives the lock back and starts the attempt over; `MaxAttempts` failures and the process
exits, and may be started again. `replica` (is `DATABASE_URL_RO` set) and `alone` (clients send one
request at a time) are drawn in `Init` and fixed.

* `InitRest` is the schema of the other domains in one step: idempotent DDL that
  nothing in this module reads. The seed of users is the same code as that of items.
* One GET that missed runs per instance; a hit changes nothing and is left out.
* The key shows all rows instead of the latest hundred.
* The wait is for the table, not for the seed: an instance may serve, and cache, an empty
  list while the replica lags. `ServesVisible` says what holds: the table is
  visible and the seed is on the primary.

## 3. Runs

| run | instance | checks | shows |
|---|---|---|---|
| `two_phase` | 2 orders (2 and 1 of a stock of 2), 1 coordinator, pool 1, all faults | `Atomicity`, `CreatedStands`, `ResolvedIsSettled`, `StockNeverNegative`, `StockMatchesOrders`, `DeferredDelete`, `Refines` | the protocol with its resolver is atomic under crashes at every step, lost and late calls, failing queries, restarts of items-service |
| `two_phase_restarts` | the same with pool 2, crashes only, fair | `EveryOrderEnds`, `RestartsResolve` | handlers end, restarts settle orders in doubt |
| `two_coordinators` | 2 coordinators, no fault | `Atomicity` violated | finding 1 |
| `messaging` | 2 orders, 2 overlapping executions, batches of 1, all faults | `DeliveredIsProcessed`, `VerdictAgreement`, `StockConserved`, `RefinesDesk` | duplicates, reorderings and crashes are invisible outside |
| `messaging_live` | 2 orders, 1 execution, batches of 1, all faults, fair | `OrderSettles` | both databases converge, rows behind the claimed batch included |
| `saga` | 2 orders, 2 overlapping executions, all faults, `Timely`, fair | `CreatedStands`, `CompensatedReleased`, `StockAccounted`, `NoneStaysReserved`, `RefinesStore` | the saga is right, and one store to its clients, if no handler outlives the threshold; a late call may |
| `saga_race` | the same, no fault, not `Timely` | `CreatedStands` violated | finding 2 |
| `worker_pool` | 2 workers, 4 jobs, queue 1, both deaths, fair | `SlotsMatchPending`, `WorkConserving`, `RejectedByItsOwnDeath`, `EveryJobSettles`, `RefinesQueue` | one line of jobs before two servers: no job lost, none hangs, none pays for another's death |
| `write_behind` | 3 writes, 1 consumer (2 loops), queue 1, 2 requests in flight, batches of 2, all faults, fair | `DepthInvariant`, `AcceptedIsKept`, `Backpressure`, `OneOwner`, `Drains`, `RefinesBuffer` | nothing is lost, only the pipeline strands what the group knows, every 202 it knows of becomes a row, the overrun of the bound is bounded |
| `migration` | 3 orders (2, 1 and 1 of a stock of 3), `Quiet`, `Pinned`, all faults | `NoSilentDrift`, `StockConserved`, `RefinesStore` | with traffic held while the operator acts, clients see one store, and a cutover changes its stock only after an error or a restart |
| `migration_drift` | the same, not `Quiet`, no fault | `NoSilentDrift` violated | finding 3 |
| `items_api` | 2 instances, 1 POST, 2 attempts, with and without replica, all faults, fair | `ShowsThePast`, `SeededOnce`, `ServesVisible`, `SequentialReads`, `StartEnds`, `Converges` | one seed, a start-up that ends, reads that work, a cache that shows a moment of the past and heals |

The type invariants, and the inductive invariants of all modules, are not in a run: they are
proved (section 5), and the properties above are what follows from them.

Three cfg files belong to no run; they keep the instances behind section 6, "Observations":
`MCTwoPhasePool.cfg` (pool 1: `RestartsResolve` fails), `MCWriteBehindLate.cfg` (`NoneStranded` fails: a write
before the group exists) and `MCSagaLate.cfg` (`NothingKept` fails: a reserve behind its release).

**Why the bounds are enough.** Two orders for one item are what the row lock, the
guard on the stock and the pool tell apart: with quantities 2 and 1 and a stock of 2
either order alone is served and both together are not. All other state of an order
is its own, so a third order adds interleavings and no new encounter; the theorems
of section 5 do not depend on any number. A pool of 1 makes every pool effect happen;
the live run uses 2 because with 1 the property is false. Two executions of a poller are
the least that overlap. A queue of 1 with two requests in flight is the least in which the
check and the XADD of two requests interleave, and three writes are the least that overrun
it. Batches of 2 with 3 entries leave a rest; batches of 1 with 2 orders leave a row behind the batch. Four jobs for two workers and a queue of 1
give a running, a queued and a refused job at once. In the migration, three orders are one
before, one during and one after a switch; the stock of 3 serves the first with either of
the others, and not all three, so that one is refused. Two instances are the least that
race for the seed, two attempts the least in which one fails and another works, and one POST
beside the GETs of two instances is the least that leaves a stale list; the proofs
lift all safety results to any number. No counter is capped except `rows` (at 2,
"more than once"), and the attempts, which the code caps.

**Deadlock** is checked in the 2PC runs (a coordinator can always be started or
killed, or items-service answers). In the others the orders, jobs or writes of the
instance run out and the system rightly stops.

## 4. Fairness

* `TwoPhase`, `Saga`: weak fairness for each handler, for the resolver or poller, for
  items-service and Postgres: promises run to completion, free connections and locks
  are granted. None for crashes, lost calls, new orders or fault points.
  `RestartsResolve` has the restarts in its premise: if the coordinator starts its
  resolver again and again and reaches `listen` again and again, an order in doubt
  does not stay so.
* `WorkerPool`: weak fairness for the threads and the event loop; none for deaths. A job
  ends because its thread finishes or dies.
* `Messaging`: the intervals keep firing (weak). Strong fairness only for *some* POST,
  *some* heard answer, *some* mark, over all rows together: not everything that is
  tried for ever fails for ever. Nothing is assumed of a single row or poller; that
  each order settles follows from the finitely many rows.
* `WriteBehind`: the same form for XREADGROUP, XAUTOCLAIM, INSERT and XDEL; weak fairness for
  restarts of consumers, their loops and the passing of time.
* `ItemsApi`: weak fairness for `main` of each instance, for the end of a GET, for replication
  and for the expiry of the key (`EX 30`); strong fairness for the advisory lock, which
  Postgres grants in the order of the requests. None for boots, requests, failures and
  crashes: `StartEnds` says that a start ends, not that the instance is started again.
* `Migration` has no liveness property: an operator may stop at any point of the playbook.

## 5. What is proved

Every safety property of every passing run is a theorem, for all values of the constants; the
only assumptions are the named ones of each module (finite sets, natural numbers, values that are
not members of them) and those given here with each theorem. Each of the six refinements is
proved: initial states map to initial states, each step to a step of the abstract module or a
stutter.

**Sums.** `Units_proofs` has five laws of `Total` (`TotalEmpty`, `TotalAdd`, `TotalRemove`, `TotalSubset`, `TotalNat`),
proved from the library's theorems on cardinality. They hold for sets whose units are finitely many;
that this is so of the sets at hand is part of the invariants below (an order joins or leaves such a
set one at a time), so no theorem assumes that there are finitely many orders.

### TwoPhase

For every set of orders, items and coordinators, every stock, quantity, pool size and set of faults:

* `TypeCorrect`: `Spec => []TypeOK`.
* `StockNeverNegativeHolds`: the committed stock stays at or above zero, with any
  number of coordinators. The invariant behind it, `StockInv`, says that a prepared
  decrement is covered by the stock and is the only prepared one of its item (the row
  lock).
* `StockLedgerHolds`: what an item misses of its first stock is what the committed transactions of items-db
  took, each once, with any number of coordinators. It needs `PrepareOnce`: a prepare is sent once, so
  a gid is not committed, forgotten and prepared again.
* Under `SingleCoordinator` (at most one coordinator process): `IndInvHolds`,
  `AtomicityHolds`, `CreatedStandsHolds`, `DeferredDeleteHolds`, `ResolvedIsSettledHolds`,
  `StockMatchesOrdersHolds`, and `RefinesHolds`, which says that `TwoPhase` implements `AtomicCommit`.

The assumption is needed: run `two_coordinators` is the counterexample without it.

**The inductive invariant.** `Atomicity` is not inductive: whether the next step keeps it
depends on what handlers, calls and the resolver *believe*. `IndInv` says that these
beliefs are true:
`HandlerKnows` (each `pc` with the states of both transactions and the journal, and: while a handler runs,
its coordinator is serving, so no resolver is at work), `CallJustified` (a commit under
way is for an order in the journal or committed on both sides, a rollback for one
that is `Doomed`, a prepare for one that has not begun), `ResolverKnows` (each list the
resolver has read still tells what to do: a gid without a journal row is doomed, one
that was in the journal and missing from a list is committed there), `CommitCovered` (a
commit on one side is in the journal until both have it), `JournalIsDecision`. The
step that fails with two coordinators is `ListLocal`: a prepared order without a journal
row is doomed only if nobody is at work on it. One lemma per action proves
preservation; `DeferredDelete` and `Refines` follow step by step from the invariant.
`ResolvedIsSettled` needs a second invariant on top, `Passes`: no handler runs while the
resolver does, so the lists stay complete, and a prepare that arrives late is of an order that is in
none of them (`ItemsFirst`: items-db comes before orders-db). `StockMatchesOrders` combines three
of these results: the order rows of an item are among what items-db has sold, by `Atomicity`, but for
one whose decrement is still prepared, which the stock covers, by `StockInv`; the ledger does the rest.

### Messaging

For every set of orders, quantity, stock, number of overlapping executions, batch size and set of
faults, with no further assumption:

* `TypeCorrect` and `IndInvHolds`.
* `DeliveredIsProcessedHolds`, `VerdictAgreementHolds`, `ReservedWithinStockHolds`: conjuncts of
  the invariant.
* `RefinesDeskHolds`: `Messaging` implements `OrderDesk`.
* `StockConservedHolds`: the stock and the quantities of the orders supplied add up to what there was.

**The inductive invariant.** That a row is marked only after its receiver has processed it
depends on what an execution holds: `PollersKnow` says that every claimed row and every
call under way is of a row that exists, and that an execution about to mark a row has
been answered for that row, which is in the receiver's inbox. (Executions walk their
batch in claim order, so the answer is for the least row left; the proof needs the
order to be antisymmetric there.) `RowsMatch` ties each row to the mode and the step that
writes it, `VerdictsMatch` each verdict to the inbox entry written with it. From these it
follows that an unprocessed OrderCreated finds a pending order without a verdict, and
that a reply finds a verdict: each first delivery is a step of the desk, and every other
step a stutter. `StockConserved` is then proved of the *desk* (`BalanceNext` looks at its five steps
only) and carried over by the refinement.

### Saga

For every set of orders, quantities, overlapping executions and faults:

* `TypeCorrect` and `StockAccountedHolds`, with no assumption: however slow a handler is, the stock and
  what reservations hold add up to what there was, and the stock is not negative. So the race of
  finding 2 gives a created order's stock away, but never twice.
* If `Timely`: `IndInvHolds`, `CreatedStandsHolds`, `CompensatedReleasedHolds`, and `RefinesStoreHolds`, which
  says that `Saga` implements `SagaStore`. Run `saga_race` is the counterexample without it. `Timely` bounds
  handlers only: calls they have left behind may arrive at any time.

**The inductive invariant.** The poller and the handler share a row and must never work on it at one
time. `LogKnows` says that a row is taken for an orphan only when its handler has ended;
`CallKnows`, that a call of a handler still under way is that of the step it waits at, or of one
it has given up, and that a reserve still under way for a compensated saga finds the reservation released
already or comes behind a release that found none (`Undone`). `PollerKnows` says that no saga is in two
batches and that one about to be marked is `Undone`. The refinement maps an order to its handler and its reservation
together (`Shown`): `saga_log` and the poller are not in it, so every step of the poller is a stutter, and
the release it sends is the one step of the store, when it runs.

### WorkerPool

For every finite set of workers, every set of jobs, length of the queue and way of dying, with no further
assumption:

* `TypeCorrect` (with the bound of the queue), `IndInvHolds`, `SlotsMatchPendingHolds`,
  `WorkConservingHolds`, and `RejectedByItsOwnDeathHolds`, an action property;
* `RefinesQueueHolds`: `WorkerPool` implements `JobQueue`.

**The inductive invariant.** What the main thread does with an event is right only if the
event still means what it meant when the thread sent it. `EventsMatch` says so: a thread has
at most one answer waiting, for the job its slot still shows, before any report of its
death; only a dead thread has reported one. `Respawn` keeps this because it drops what the
dead thread has left to say; without that its second event would reject the job of the
replacement. `DestroyedIdle` says that `destroy()` finds no job. `DrainHandsOver` is the lemma
about `_drain` that both `OnMessage` and `HandleDeath` rest on. `JobQueue` knows of no slots: it has room
while fewer jobs run than there are workers. `RoomIsFree` shows that this is when a slot is free, since
by `SlotsMatchPending` the slots in use and the running jobs are in bijection; and by `WorkConserving`
a slot without a job, whose thread dies, has nothing to hand on.

### WriteBehind

For every set of writes and consumers, all bounds and faults:

* `TypeCorrect`, `IndInvHolds`, `AcceptedIsKeptHolds`, `BackpressureHolds`, `DepthInvariantHolds`, with no assumption;
* `OneOwnerHolds` and `RefinesBufferHolds`, if `Timely`: `WriteBehind` implements `WriteBuffer`.

**The inductive invariant.** An XDEL is right only if the rows are there, and an entry is in
one place only if the group delivers it once. `InOrder` says that a loop that is at XDEL has
inserted all it holds and, of a single entry, that one at XACK has deleted it; `DeliveredOnce`, that what is behind the
group's last id is neither pending nor in anybody's hands; `Unsent`, that a request that has not
reached Redis has left no trace. With `Timely`, `IdleIsFree` says that what XAUTOCLAIM
takes is in nobody's hands. `Bounded` is another invariant, for the backpressure alone: what is
in the stream and what has passed the check together stay below `QueueMax + InFlight`; it uses
the library's theorems on cardinality. The refinement needs one more, `InStream`: what a loop has
still to insert is in the stream. It rests on `OneOwner`, since it is another loop's XDEL that would break it:
a slow loop would insert a row again after its entry has been worked off.

### Migration

For every set of orders, quantities, stock and faults:

* `TypeCorrect`: neither database shows a negative stock, whatever the operator does.
* `NoSilentDriftHolds`, if `Quiet`. Run `migration_drift` is the counterexample without it.
* `IndInvHolds`, `RefinesStoreHolds` (`Migration` implements `ItemStore`) and `StockConservedHolds`, if
  `Quiet` and `Pinned`.

**Why no drift is silent.** While orders are under way the two stores differ, in mode
`dual_write` and with nothing wrong. `OwedIsMissing` says by how much: if neither an error nor a restart was seen and none is
bound to be seen (no mirror is lost while its handler waits for it), the new store has more than the
old one by exactly the mirrors it is still owed, *or* it has too little left to serve all of these. The
second case is that of a mirror sent although the primary refused the order: if the new store
serves it, a later mirror will find too little, and be counted. When all is idle nothing is owed and a
stock is not negative, so only equality is left. `Knows` holds what this needs of handlers (the mode does not
change under an order, a refused order is refused because the primary has too little), of the copy (from the
list to the upsert nothing moves) and of calls. Neither `Pinned` nor the cutover matters to it.

**The inductive invariant of the refinement.** A step of an adapter is a step of the store only if the call is for
the store that counts *now*: `SameSide` says so for handlers and for calls whose handler is
gone. `HandlerKnows` ties `took` to where a handler is (a mirror after a refused
decrement finds too little in the primary), `CallKnows` says that a call for the new store
alone has not been answered, `StoreKnows` that the cutover found a row and no upsert comes
later. `Cutover` is the step of the store that replaces its stock. `StockConserved` is proved of every other
step of `ItemStore` and carried over (`BalanceStep`); at the cutover (`BalanceNext`) the stock changes by `gap`, and
`GapKnows` says what that may be: traffic is held, so by `NoSilentDrift` it is 0 unless something
warned.

### ItemsApi

For every set of instances and requests, any number of attempts and all faults, with no further assumption:

* `TypeCorrect`, `IndInvHolds`, `SeededOnceHolds`, `ServesVisibleHolds`, `ShowsThePastHolds`, `SequentialReadsHolds`.

**The inductive invariant.** `LockHeld` says that the advisory lock belongs to the one instance that
looks for rows or inserts them, and that the table is still empty when it does: nobody else can
have committed a row, since an instance serves POSTs only after the seed (`StartKnows`,
`Handled`). `InTurn` is another invariant: with one request at a time and no replica, the list a
GET is about to cache shows every row that was answered (`ViewsAreFresh`). `ShowsThePast` is
inductive with the type invariant: the log only grows at its end, so a list that was true of a prefix stays so
(`PastStays`).

### Only model-checked

All liveness: `EveryOrderEnds`, `RestartsResolve`, `OrderSettles`, `NoneStaysReserved`, `EveryJobSettles`, `Drains`,
`StartEnds`, `Converges`. Liveness under fairness and `ENABLED` are out of this prover's reach. The three
violations are TLC's counterexamples; each violates a theorem above whose assumption the run drops.

## 6. Findings

1. **Two coordinators** (`two_coordinators`). `server.ts:569-570` says that running the resolver
   before `listen` avoids the race with live in-flight 2PC if the coordinator is ever
   replicated. It avoids the race with its *own* traffic only: the resolver of a new
   coordinator rolls back what another one has prepared and not yet journaled. The
   other then journals, commits items-db, and its COMMIT PREPARED in orders-db finds
   nothing and is ignored as "already resolved": stock gone, 201 answered, no order.
2. **The saga poller's 3 s** (`saga_race`). `server.ts:477` takes a row that is 3 s old for an orphan,
   while one fetch of the handler may take 5 s: stock released under a handler that
   goes on to 201.
3. **Drift that nobody counts** (`migration_drift`). The playbook moves the items while orders are
   placed. Without any fault the two stores differ after the backfill: a decrement between
   `GET /internal/items/all` and the upsert is overwritten, a mirror under way repeats on top of
   the copy a decrement that is already in it, and a call that read `primary_only` before
   the switch is not mirrored. Neither counter moves, and the gate of the playbook, `shadow_mismatch`,
could not: only `getItem` counts it, and nothing calls that.

**Observations**: what the assumptions of the runs leave out, and what the properties except by name:

* *Pool* (`MCTwoPhasePool.cfg`): a prepare that waits for the row lock of an order in doubt keeps its
  connection after its caller has given up; `PG_POOL_MAX` of them, and the resolver's listing and
  commit find no connection, at any restart of the coordinator, until items-service restarts.
* *Group* (`MCWriteBehindLate.cfg`): `ensureGroup` starts the group at `$`; what the API accepted before
  is never delivered and counts in XLEN for ever. The consumer creates the group after it has waited for the
  table that the API creates (`consumer.ts:153-167`), so the API may well be first.
* *Pipeline* (the same with the group first and `Faults = {"redis"}`): an XDEL that fails alone in the
  pipeline of a batch is followed by the XACK, and the entry counts in XLEN for ever. The comment at
  `consumer.ts:289-294` says so; its row is there.
* *Late reserve* (`MCSagaLate.cfg`): a handler dies with its reserve waiting for the row of the item; 3 s later the
  poller's release finds no reservation, is answered ok, and the saga is marked compensated; then the reserve
  takes the stock, which nothing gives back. `/internal/release` keeps no trace of a
  release that came first (`domains/items/infra/pg-items-repo.ts:262`).
* *Cutover after an error or a restart*: the count of mirror errors is in memory and the playbook does not
  look at it (`src/stages/18-live-extraction/README.md:29` greps `shadow_mismatch`, which nothing counts). With a failed mirror,
  the cutover makes a stock the truth that orders have not left behind: `gap # 0`, in one step more
  than the failure.
* *Mode after a restart* (`Pinned = FALSE`): the mode is in memory; after the cutover a restart with the
  old environment sells from the stock the items have left.
* *Mirrors*: one is sent even when the primary has refused the order (`ports/items-port.ts:215-232`),
  and two may arrive in the other order. Near the end of the stock both make the secondary serve
  an order the primary did not, or the reverse. In the run this only happens with an error
  that is counted, as `NoSilentDrift` says, or behind a restart.

Smaller things seen on the way: a failing `deleteJournal` answers 500
for a committed order though its comment says best effort (`create-order.ts:185-187`);
the comment at `server.ts:492-494` says both that a failed compensation is retried and
that it is not (it is not); the shadow comparison of the migration has no caller, so its
mismatch counter cannot move; an early GET on a lagging replica caches an empty list for the
length of the TTL.

## 7. Plan

Order of work, most important first:

1. (done) `TwoPhase` with its abstract specification, resolver and proofs.
2. (done) `Messaging` refining `OrderDesk`, with proofs; `Saga`; `WorkerPool`, with
   proofs; `WriteBehind`.
3. (done) `Migration` refining `ItemStore`, with proofs.
4. (done) `ItemsApi`: start-up, the cache with the synchronous POST path, several instances and
   the lag of the read replica, with proofs.
5. (done) Proofs of `WriteBehind` and `Saga`, and of `ResolvedIsSettled` of `TwoPhase`.
6. `TwoPhase` with a mode switch between prepare and commit (`ports/items-port.ts:160-176`): it needs
   the transactions of both items databases, and the code says not to do it.
7. (done) Sums within reach of the prover (`Units`), and with them proofs of `NoSilentDrift`,
   `StockMatchesOrders`, `StockAccounted` and both `StockConserved`; abstract specifications of
   saga, worker pool and write-behind queue, with refinement proofs.
8. The rest of the migration (`getItem` has no caller) and the loss of Redis data, if the code
   comes to depend on them.

## 8. Not modelled

* join mode is one local transaction; what interleaves in it is the row lock, which
  `TwoPhase` models.
* ARCH=mud: each request is one local transaction of one database.
* Users and authentication: a read before any state changes. The seed of users is the same
  code as that of items.
* In-process adapters: plain delegation, the HTTP adapters without their faults.
* `getItem` of the migration with its shadow comparison: nothing calls it. Delegation of the
  2pc and saga calls by mode while the mode changes.
* Of the queue: malformed entries, loss of Redis data, the drain on SIGTERM.
* Health, metrics, replication and cache counters: read-only.
* Load scripts, stage files, `experiments/`: they run or measure the program.
