# LiquidPetProject: TLA+ specifications

Models, model-checked properties and machine-checked proofs for the services of this repository:
`gateway`, `order-service`, `worker-service` and the code they share. Every module is a translation
of the C++ named in `PROJECT.json` (`map`); the source is the reference, and where a comment in the
source disagrees with it the disagreement is listed under *Findings*.

## 1. The system

    client ─HTTP─> gateway ─HTTP─> order-service ─tx─> orders + outbox (PostgreSQL)
                                        ^                   │ outbox publisher
                        orders.reserved │                   v
                          (Kafka)       │             orders.created (Kafka)
                                        │                   │ consumer
                 outbox publisher ──────┴── worker-service <┘
                                            processed_order_events + outbox (PostgreSQL)

An order is saved together with an `OrderCreated` outbox row. A polling thread copies outbox rows to
Kafka. `worker-service` consumes them, reserves the items, and records the event id together with an
`OrderReserved` outbox row, which travels back and moves the order to `Reserved`. Docker-compose runs
several replicas of each service, so everything below may happen in two processes at a time.

| Component (source) | State | Operations | What makes it correct |
|---|---|---|---|
| Offset tracker (`shared/messaging/OffsetTracker.h`) | deque of offsets with a done flag, length of the done prefix, in-flight count, committed and last registered offset | register, complete, commitCandidate, confirmCommit, reset | a commit position covers only completed records, and as many as it can |
| Partition registry (`PartitionRegistry.h`) | a tracker and a generation per owned partition, under a mutex | assign, revoke, registerRecord, complete, commitCandidates, confirmCommit | what was issued under one ownership never touches another |
| Worker pool (`WorkerPool.h`) | bounded queue, condition variable, threads, stop tokens | trySubmit, stop, worker loop | no lost wakeup, nothing begins after stop, stop joins |
| Record executor, retry policy, dead letter sink (`RecordExecutor.h`, `RetryPolicy.h`, `PublisherDeadLetterSink.h`) | per thread: the record, the attempt, the step it is in | execute, invokeHandler, deadLetter, finish | a record is completed only once handled or stored as a dead letter; stop and revocation are noticed everywhere |
| Consumer pipeline (`ConsumerPipeline.h`) | registry + pool + backlog | assigned, revoked, ingest, pump, confirm, stop | backlog only of present ownerships, no ticket twice |
| Kafka consumer (`consumer/KafkaEventConsumer.cpp`) | reader thread, paused flag, commit timer | start/subscribe, poll loop, rebalance callback, backpressure, commit, stop | no record lost; backlog bounded; everything committed in the end |
| Outbox publisher (`shared/outbox/`) | outbox table, row locks, batch of futures | fetch, publish, wait, mark, sleep, stop | a row is marked only when delivered; every row is published |
| Reservation handler (`worker-service/handlers`, `repository`) | `processed_order_events`, outbox | handle, recordReservationIfNew | one reservation per event |
| Order repository and OrderReserved handler (`order-service`) | `orders`, outbox, a connection per thread | save, findById, changeStatus, handle, GET | no status overwritten; stored orders leave Created |
| Money, items, mappers (`order-service/models*`, `worker-service/events2json-mapper`) | none | create, +, -, *, totalAmount, fromJson, toJson, fromRow | exact or refused; every reader understands what was accepted |
| Gateway proxy (`gateway/handlers/ProxyHandler.cpp`) and HTTP sessions (`shared/http/HttpServer.cpp`) | pool of idle upstream sockets per prefix | handle: acquire, open, exchange, release, second attempt | own reply; stale connections invisible; no descriptor leak; one hanging upstream holds up nobody else |
| HTTP server (`shared/http/HttpServer.cpp`) | acceptor, signal set, io_context, its threads, a coroutine per connection | construct, run, accept, sessions, routing, signal, stop, destroy | keeps accepting; a signal ends it whatever clients do |
| Configuration (`shared/models`, `shared/json`, `shared/models2json-mapper`, load functions of the mains) | none | load, create, fromUrl, fromJson, loadSection | what is served is what was written, or nothing is |
| Service entry points (`*/main.cpp`) | stage of main, its objects and their threads | load, build, start, serve, stop, destroy; exit, uncaught exceptions, signals | every thread is joined before what it uses is gone |
| Logging (`shared/logging`) | registry of loggers | get | two threads may ask for a logger at once (they may not: *Findings*) |

The hard behaviours: worker threads complete records in any order and after rebalances; the rebalance
callback runs inside `poll()`; commits fail, or succeed and are reported failed; processes die between
two steps; `FOR UPDATE SKIP LOCKED` protects a row only while the SELECT is open; futures are given up
while their record is still under way; two deliveries of one event run at once; the upstream closes an
idle connection just as a request is written to it; a broken database connection is never reopened; a
signal arrives while the service starts, is busy, or stops. `PROJECT.json` lists them one by one (`hazards`),
each at its line with the properties that cover it.

## 2. Modules

| Module | Models | Built on |
|---|---|---|
| `OffsetTracker` | one tracker as a record, its operations as operators | |
| `OffsetTrackerClient` | any client of one tracker: every call at any time, refused ones too | `OffsetTracker` |
| `CommitWatermark` | abstract specification: a set of finished records and a watermark that only grows and never passes an unfinished one | |
| `OffsetTrackerLemmas`, `OffsetTrackerProofs` | theorems | `OffsetTrackerClient` |
| `PartitionRegistry` | the map of trackers and generations; each operation atomic, as under its mutex | `OffsetTracker` |
| `PartitionRegistryClient`, `MCPartitionRegistry` | a reader and workers that complete or confirm arbitrarily late | `PartitionRegistry` |
| `PartitionRegistryProofs` | theorems | `PartitionRegistryClient`, `OffsetTrackerLemmas` |
| `WorkerPool` | queue, condition variable (a thread is `ready`, `asleep`, `busy` or has left its loop), stop | |
| `RecordExecutor` | the steps of `execute` in each thread, with every place where it looks at the stop token or at the ownership | `WorkerPool`, `PartitionRegistry` |
| `ConsumerPipeline` | ingest, pump, revocation, stop | `RecordExecutor` |
| `KafkaEventConsumer`, `MCKafkaEventConsumer` | the whole consumer in front of a broker | `ConsumerPipeline` |
| `KafkaEventConsumerProofs` | theorems on the consumer, its pipeline, its pool and its executor | `KafkaEventConsumer`, `OffsetTrackerLemmas` |
| `OutboxPublisher` | publishers of several replicas over one table | |
| `OutboxPublisherProofs` | theorems | `OutboxPublisher` |
| `OrderModel` | value types and mappers as operators, integers with their widths | |
| `OrderLifecycle`, `MCOrderLifecycle` | the saga over both services, both databases, both topics, from the body of a request on | `OrderModel` |
| `OrderLifecycleProofs` | theorems on the value types, the mappers, the totals and the saga | `OrderLifecycle` |
| `GatewayProxy` | concurrent requests through the pool of one upstream | |
| `GatewayProxyProofs` | theorems | `GatewayProxy` |
| `ServiceConfiguration` | environment, JSON file and command line to validated values, as operators | |
| `HttpServer` | acceptor, threads, sessions, routing, signal and stop as actions on a shared state | |
| `ServiceProcess`, `MCServiceProcess` | the three mains as lists of stages, with the threads they start | `HttpServer`, `ServiceConfiguration` |
| `ServiceProcessProofs` | theorems on the server, the processes and what they serve | `ServiceProcess` |

Conventions. An action is one atomic step of one thread: the code between two points at which another
thread, another process or the broker can intervene (a lock, a library call, a database statement, a
suspension point). Definitions called *plausible slip* are not part of any specification; each is a
small bug of the code before it, and substituting it makes a property fail.

How the models meet the code in places that are not obvious:

* **Tickets and positions** are `[partition, generation, offset]`, as in `RecordTicket` and
  `CommitPosition`. The payload of a record is abstracted to whether its event id is valid.
* **The broker** (external) keeps a log per partition, the committed position and the owner. A commit
  by a member that no longer owns the partition is refused; a commit of the owner may be applied and
  still be reported as failed. Another member of the group runs the same code and is one action.
* **Rebalance callbacks** arrive while the reader is inside `poll()` or the main thread inside
  `subscribe()`. When every attempt to subscribe fails `start()` drops the pipeline, which joins the
  workers; callbacks find none after that.
* **Times** do not appear: a pause or a timeout is a step that may happen at any moment, which covers
  every configured duration. The length computed by `delayAfterAttempt` is therefore not modelled.
* **Outbox rows** are numbered by `created_at`, which is the start of the inserting transaction; rows
  appear in any order. `markAsPublished` waits for row locks of an open SELECT of another replica.
* **`processed_order_events`** has a unique key. The INSERT of a second transaction waits for the
  first and then finds a duplicate or takes over after a rollback; the model keeps the open
  transaction's thread in the row.
* **In doubt commits**: every COMMIT may be applied and still throw. The client then gets 500 and the
  handler answers false and runs again.
* **A request** is the JSON body in the hands of `CreateOrderHandler` (`body`), dropped with the answer:
  400 if it does not map, else 201 or 500 as `save` went. `MCBodies` enumerates bodies around each limit.
* **An id** is empty, not a UUID, or a UUID: what `StrongID::create` tells apart. The rows of
  `order_items` come back in any order (`Orderings`), the query has no ORDER BY.
* **A database connection** that breaks stays broken: the outbox repository has one for life, the
  others one per thread. `Disconnect` and `QueryFails` break it, and every later call of its owner
  fails until a restart (`Crash`, or an abandoned record's process) brings a new one.
* **The logger** of `RecordExecutor` is registered on first use, in two steps without a lock. Only
  this one matters: its exception leaves `execute()` (`thrown`), everyone else's is caught nearby or
  raised before threads exist. If the pool cannot have its logger for what a task threw, the exception
  leaves a thread and the process ends: one of the ends `Crash` stands for.
* **A process** (`ServiceProcess`) is main as a list of stages and its end as a list of destructors.
  exit(1) skips the destructors of main's objects, an uncaught exception and an unhandled signal skip
  everything. The consumer and the publisher appear there by what `stop()` promises, which the
  consumer and outbox runs check. A socket destroyed after its io_context is undefined behaviour: the
  process may end well or not.
* **A text** of the configuration is the facts the code asks of it (a number or none, an IP address
  or none, the sizes of its labels), never characters.
* **Integers** wrap at their width (`Wrap`). `get<int>()` of a JSON number narrows without an error,
  and so does the model.
* **Connections** of the gateway are numbered; a request opens at most one, so as many as requests
  suffice. An idle close by the upstream after `CONNECTION_TIMEOUT` is normal operation and unbounded;
  every other break is a counted fault.

## 3. Runs

All bounds are CONSTANTS of the modules and set in the `.cfg` files.

| Run | Instance | Distinct states | Shows |
|---|---|---|---|
| `offset_tracker` | offsets 0, 1, 2, 4, 5 (a gap, as compaction leaves) | 697 | consistency of the deque; the candidate is safe and greatest; refinement of `CommitWatermark` |
| `partition_registry` | 2 partitions, 2 offsets, 3 ownerships | 52k | late tickets and late confirmations across reassignments |
| `consumer_rebalance` | 2 partitions with 2 and 1 records, 2 workers, queue of 1, 2 rebalances; commits may be refused or in doubt | 1.1M | nothing lost, nothing twice, committed never moves back, backlog bounded when partitions arrive while paused |
| `consumer_stop` | 2 records, 2 workers, configured capacity 0, 2 attempts, 1 Kafka exception, stop at any time | 409k | wakeups, pauses, the last commit; stop returns |
| `consumer_live` | 3 records (the second invalid), 2 workers, a rebalance, 1 Kafka exception, 1 crash | 51k | nothing lost; everything committed in the end |
| `handler_false`, `revoke_commit_fails`, `logger_race` | 2 records, 2 workers | to the violation | the three findings |
| `outbox_publisher` | 2 replicas, 4 rows (the first and the last unpublishable), batches of 2, 1 fault per row, 1 stop, lost connections and crashes | 477k | marked rows were delivered; duplicates have causes; every other row published; stop joins; a full batch of unpublishable rows is no busy loop |
| `order_lifecycle` | 1 order, up to 1 foreign record (stray or malformed), 2 threads per service, 2 attempts, 1 fault, 1 redelivery, 1 outside status change; 128 request bodies with integers inside and beyond widths of 4, 3 and 2 bits | 411k | exactly one reservation; no lost race dead-lettered; stored orders leave Created; mappers and totals |
| `gateway_proxy` | 3 proxied requests, 1 refused, 2 faults (broken connections, failed connects, an upstream that hangs) | 267k | own reply, explained 502s, explained second executions, sockets bounded, nobody waits for a hanging one but itself |
| `service_process` | 3 programs, 2 io threads, 3 connections, 2 attempts to create the consumer; inputs around every outcome of every load function, with port, int and ulong limits of 3, 5 and 6, negative ports included | 147k | keeps accepting; every signal ends it; nothing outlives what it uses; listens, forwards and stores as written |

Why these bounds are enough for the cases that matter:

* One ticket has to survive a revocation and a reassignment to be stale: two ownerships of one
  partition; a third lets a stale one meet a stale one. Two offsets are needed to complete out of
  order, three to leave a hole in the middle, five (with a gap) to commit a part of the prefix.
* Two workers are the least number for out-of-order completion and for a lost wakeup; one queue place
  makes the queue full, and a capacity of zero is what the constructor raises to one.
* The backlog can only grow past one poll if a partition arrives during a pause: two partitions.
* A batch of two over four rows, the first and the last unpublishable, gives a full batch with an
  unpublishable row at its head and work left after it, and in the end, when the rows between them are
  published, a full batch that never makes progress and is fetched again and again: the case of
  `FullBatchWithoutProgressSleepsBeforeNextFetch` in `OutboxPublisherTest.cpp`, repeated. Two replicas
  fetch the same row between the SELECT's commit and the mark.
* A double reservation takes two concurrent deliveries; two attempts tell "lost the race once" from
  "failed on every attempt".
* A reply can be mixed up only on a connection used twice; three requests allow one user before, one
  meanwhile and one after, and a pool of two.
* Two io threads are the least for a stop on one against an accept on the other, and for one thread
  blocked in a handler while the other serves; three connections keep both busy with one waiting.
* The widths 4, 3 and 2 bits keep int64 > int > int8 and make every overflow and every narrowing
  reachable; the requests go beyond each width on both sides. The theorems cover all widths.

Symmetry of workers or partitions is used only in runs without liveness.

### Fairness

* `ThreadFairness` (consumer): threads that can take a step take one; handlers and library calls
  return. `StopReturns` needs nothing else, so `stop()` depends neither on the broker nor on the dead
  letter topic.
* `EnvironmentFairness` (consumer, `AllCommitted` only): `poll()` keeps delivering and reports lost
  partitions, and commits, subscriptions and dead letters that are tried again and again succeed
  eventually. The code retries each of them without limit (subscription up to its attempt limit), so
  strong fairness of the success is what it relies on.
* Outbox: the publisher's thread runs and every future is resolved. The producer guarantees the
  latter with its message timeout, and `wait_for` bounds the wait in any case.
* Gateway: requests that can take a step take one, and an upstream that does not hang answers.
* Process: main and the io threads run on, and calls return. `IoSignal` is strongly fair: the handler
  of a signal waits in the io_context's queue, which is served in order, so other ready handlers delay
  it but never for ever. Nothing is assumed of clients or of the upstream.
* `OrderLifecycle`: publication and delivery are weakly fair because `EventuallyPublished` and
  `AllCommitted` say so of the components behind them; handler threads run.

Fault counters are bounded, so "faults end" is part of every liveness statement.

### What the properties mean for a reader of the code

* `NoRecordLost`: below a committed position every record was handled, dead-lettered or has no valid
  event id, whatever crashed, was revoked or was committed in doubt.
* `TrackersMatchOwnership`, `OfferedCoverOnlyCompleted`: a completion or a confirmation that comes
  after its partition changed hands leaves the new owner's tracker alone.
* `AllCommitted` makes one exception, for a record whose thread lost the race of `logger_race`.
* `DuplicatesExplained`: copies of a row in the topic are at most one per replica plus one per fault.
  Consumers must be idempotent, and `ReservedOnce` and `NoStatusOverwritten` show that they are.
* `EventuallyPublished` is about the rows with fewer permanently unpublishable rows before them than a
  batch holds. Behind a whole batch of them a row is never fetched: a limit of the query.
* `NeverSpins`: a publisher that met nothing it can publish sleeps before the next fetch, also when the
  batch was full. It fails as soon as `hasMoreWork` asks only whether the batch was full.
* `DeadLetterNeedsFaults`: losing the race for a status answers false like a failure does, but costs
  one attempt only, because the next attempt reads the new status.
* `ExecutedTwiceExplained`: the gateway's second attempt repeats a POST that was executed only if
  the connection broke before the reply; the upstream's idle timeout never causes it.

* `StoredOrderReserved`: an order in the table leaves `Created`, also when its client was told 500
  because the COMMIT was in doubt.
* `AnsweredUnlessHung`: `exchange` has no timeout, so a request whose upstream never answers never
  ends; all others are answered, since no lock is held while it waits.
* `NothingOutlivesItsOwner` names two ends at which it does not hold: `order-service` gives up on its
  consumer with `exit(1)` while the outbox publisher's thread runs, and the sockets in the gateway's
  pool are destroyed after the io_context they belong to.
* `RunsOnlyAsConfigured` has three parts. `ListensAsWritten`: address and port of the command line, or
  else of the file. `ForwardsAsWritten`: the gateway's upstream has host and port of the environment, or
  both of the file, never one of each, and with half a pair in the environment it does not serve.
  `StoresAsWritten`: host, port, name and user of the database URL, encrypted when `sslmode` is given
  and is not `disable`. All three say which port it is when the written one is beyond 16 bits: the
  remainder, as `get<uint16_t>` and the casts make it, and for a database never 0. A database port
  beyond an int and an upstream port beyond an unsigned long end the process before it serves.
* `TotalIsExact` compares totals in minor units, as the code does: amounts of one currency code but
  different digits are added as they are (the run has such items only where the sum overflows, the
  theorem all of them). In this commit only tests ask for a total.
* `PausesRemembered` rests on one assumption about the client library: a `pause()` that throws has
  paused nothing. A `resume()` that throws may have resumed some of the partitions.

## 4. Theorems

TLAPS checks the eight modules whose names end in `Lemmas` or `Proofs`. Every invariant, every
action property and the refinement that a passing run checks is also a theorem: the run shows it on
the instance of its `.cfg`, the theorem for every value of the constants. `PROJECT.json` lists which
theorem states which property.

### Assumptions

They stand beside the constants, each is evaluated in the runs, and no proof module adds one.

| Name | Says | Because |
|---|---|---|
| `ClientOffsets`, `RegistryOffsets` | offsets are natural numbers | the consumer passes what librdkafka delivered |
| `FinitelyManyPartitions`, `PoolAssumption`, `ConsumerAssumption` | finitely many partitions and at least one worker; bounds and log lengths are natural | the lists of a rebalance are vectors, the pool raises zero threads to one |
| `MaxAttemptsIsInt` | the attempts of a policy are any integer | `RetryPolicy::maxAttempts` is an `int`; a value below 1 counts as 1 |
| `OutboxAssumption` | finitely many replicas and rows, rows are ordered, batches are not empty | a table and a deployment are finite |
| `WidthAssumption` | widths are natural, the empty code is no currency | `Currency::create` refuses it |
| `LifecycleAssumption` | requests are JSON orders over all integers; workers and order threads, orders and strays are different things; no thread is one of the marks `yes` and `no` of the table | the mapper reads integers of any size; the rest keeps apart names that the model writes into one variable |
| `GatewayAssumption` | finitely many requests; no request is one of the status texts | a reply is modelled by the request it answers |
| `ServerAssumption`, `ConfigurationAssumption`, `ProcessAssumption` | counts and limits are natural | unsigned counts and limits of types |

### Offset tracker and registry

The properties of the tracker are not inductive by themselves: that a candidate covers only
completed records says nothing about the entries behind the prefix, which a later completion or
commit moves into it. The invariant `IInv` therefore describes the whole tracker (`TrackerInv`,
which is the types together with what `DequeConsistent` says, each part a definition of its own): the
deque is strictly sorted, its offsets are exactly the registered ones at or above the committed
position, an entry is done exactly when it was completed, `prefixDone` counts the maximal done
prefix, `inFlight` the entries not done, everything below the committed position was completed, and
the last registered offset bounds them all. `RegisterInv`, `CompleteInv` and `ConfirmInv` show that
each operation preserves it, `AdvancePrefixExit` and `DropCoveredExit` say where the two loops of the
code stop, `CandidateSafe` that a candidate covers completed records only (`NoRecordSkipped`).
`NothingHeldBack`, that the candidate is the greatest such position, needs the maximality of the
prefix once more: the frontier of the finished records lies in it. The refinement
`TrackerImplementsWatermark` maps the watermark to the committed position; `ConfirmIsAbsCommit` is
its one interesting step.

For the registry (`OwnershipsApart`, `LateCommitSafe`) the invariant is `TrackerInv` once per owned
partition, over the tickets of its present generation only (`OwnershipInv`). The step that matters is
a late one: a stale ticket or position finds another generation and changes nothing, and a position
of the present generation that is confirmed late lies below what was registered since
(`PositionsRegistered`), so the tracker's preconditions hold.

### Consumer

* `EveryRecordSettled` (`NoRecordLost`) and `CommitsNeverMoveBack`, from `ConsumerInv`. For each
  ownership there are numbers `s` and `n` and a set `done` (`Ownership`): the tracker has exactly the
  records from `s` to `n - 1` and those in `done` are completed; everything below `s` was settled by
  whoever owned the partition before; the batch goes on at `n`; and the broker's position is at most
  where this ownership began or what it can offer. Every worker that is about to complete a ticket
  has handled or dead-lettered its record, and every position being committed is safe even when its
  partition has changed hands (`SafePositions`). Crashes, refused commits and commits in doubt are
  steps like any other.
* `TicketsInOnePlace` (`EachTicketOnce`), from `PlacesInv`, `CurrencyInv` and `ConsumerInv`: a ticket
  the reader makes is held by nobody, because its offset lies beyond those its ownership registered
  and older tickets have older generations (`Known`). A backlog entry of an ended ownership is erased
  in the step that ends it.
* `NoForgottenPause`, `BacklogNeverOutgrowsPolls` (from `BackpressureInv`: a poll's records in the
  batch, and a poll's for every exception that kept the partitions from being paused).
* `LastCommitLeavesNothing`, from `LastCommitInv` and `ConsumerInv`: the pool's threads have left
  before the last positions are collected, so nobody completes a record in between.
* `NoLostWakeup`, `StoppedPoolBeginsNothing`: about the pool alone. `PoolSteps` says once which
  steps of the whole consumer touch the pool and how.

### Outbox

`NoEventLost` needs that a future reported as delivered stands for a copy in the topic, that a
replica's batch has one future per row, and that nobody marks rows that an open SELECT holds
(`ReplicaInv`). `DuplicatesBounded` needs a balance per row (`RowExplained`): copies, late records and
records under way are at most the faults of the row and the replicas that have it in their hands.
When a row is marked the replicas' side of that balance is frozen at all of them, and no SELECT can
find the row any more. The balance is over cardinalities of sets of replicas, so any finite number.

### Value types, mappers and totals

`PlusIsExact` and `TimesIsExact` (exact result when it fits, error when not, and the machine
operation after the test never wraps; `DivisionTest` is the fact that `a > max / q` iff
`a * q > max`), `MinusUndoesPlus`. `AcceptedAlwaysUnderstood`: an order the mapper accepts, of any
number of items, is taken by the table, comes back the same in whatever order its rows are returned,
and is read alike from the event. `AcceptedItem` and `ItemSurvives` are its two halves; lemmas on
`Mapped` lift them to lists, whose first failing item decides. It holds in every state, so no
invariant is needed.

`TotalsAreExact` (`TotalIsExact`): the total of an accepted order of any length is the exact sum, or
an error exactly when the currencies differ or the exact sum does not fit. `totalAmount` is a
recursive function over the items, and the library's induction theorems cannot be instantiated here
because they take an operator. Induction up to a number is therefore stated over a set of numbers and
proved from the least counterexample (`InductionUpTo`), and from it that a recursive function exists
on an interval and has its defining equation (`RecursionExists`, `RecursUpTo`). `ExactTotals` is then
an ordinary induction over the prefix that was added up; amounts are not negative, so a sum that
overflowed once does not fit at the end either.

### Saga

`SagaInv` ties every stage to the one before across both databases and both topics (`StagesInOrder`),
the open insert of an event id to the one thread that is about to commit it (`ClaimsHeld`), and what a
thread has read to what may have become of it since (`ReadingOld`: an order does not vanish and does
not become Created again). From it: `OneReservationPerOrder`, `ReservedOnlyAfterReservation`,
`NoStoredOrderSkipped`. `LostRaceNotDeadLettered` counts: every attempt but the current one met a
failing query, or all but that one and one more that lost the race for the status, and whoever lost it
will see so at the next reading (`AttemptExplained`). `NoLostUpdate` is an action property.

### Gateway

`GatewayInv`: a connection has one user, or is in the pool once, or is neither (`OneUser`,
`PoolInv`), and what is under way on a connection belongs to the request that reads from it and is in
one place only (`LineInv`); hence `OnlyOwnReply`. `RetryRepeatsOnlyLost` matches every execution with a
reply that is under way, relayed or lost (`ExecutionInv`). `StaleConnectionsHidden` follows from what
a fresh connection that is down implies (`RequestInv`). `PoolNeverOutgrowsLoad` compares
the number of connections kept and in use with the busiest moment (`CountsInv`), which also shows that
there is always an unused number for a request to open.

### Processes

`ProcessInv` says in which stages of main each object and each thread can exist, for the three
programs at once, any number of io threads and connections, and any inputs: `AcceptingNeverStops`,
`NothingOutlives`, `ServedAsConfigured`. Lemmas on the lists of stages (`Follows`, `Succeeds`,
`EndingOrder`) replace going through the programs one by one; `ServerMoves` and `MainSteps` show that
the two halves preserve it, and lemmas on the load functions (`NetworkIsAsWritten`,
`UpstreamIsAsWritten`, `DatabaseIsRead`) carry what was written to what is served, host and port
together. `ConfiguredInv` keeps, from the stage that loads a configuration on, that the loaded value is
what the load function makes of the inputs and no error (`NetworkKept`, `UpstreamKept`,
`DatabaseKept`); `WhatIsLoadedIsKept` and `ConfigurationKept` show that no later step changes it.

### Model-checked only

* Liveness, as fairness is beyond the prover: `StopReturns`, `AllCommitted`, `EventuallyPublished`,
  `StopJoins`, `NeverSpins`, `StoredOrderReserved`, `AnsweredUnlessHung`, `ShutdownCompletes`.
* The three findings below: each is one behaviour that TLC exhibits.

### Forms chosen for the proofs

Some operators describe the result of what the code does in a loop: what a poll returns
(`Fetched`, `Deliveries`), what is left of the backlog after a revocation (`Erased`), the rows in the
order of the SELECT (`InOrder`), the first route that fits (`findHandler`, the least index). The
result is the same, and such a definition can be reasoned about without unfolding a recursion.

## 5. Findings

* `handler_false`: `IEventHandler.h` says that after `false` the offset is not committed and the
  message is delivered again. The executor dead-letters it after its last attempt and completes it;
  the offset is committed.
* `revoke_commit_fails`: the comment in `commitOffsets` says that after a failed `commitSync` the
  position remains a candidate. Called from the revocation callback this is not so: the partitions
  have left the registry. Nothing is lost (`NoRecordLost`), the next owner reads the records again.
* `logger_race`: `shared::logger::get` looks a logger up and registers it in two steps. Two workers
  whose first failures coincide both find none; the second registration throws, out of `execute()`.
  The pool swallows it, the record is never completed, and its partition is not committed past it
  before it changes hands or the process restarts. Nothing is lost (`NoRecordLost`).

The first two are disagreements between a comment and the code, the third is a bug.

## 6. Not modelled

* Records that carry a Kafka error instead of data are skipped by `ingest`; whether their offset
  counts depends on the client library.
* The lengths of pauses and timeouts (`delayAfterAttempt`, poll intervals): a step may take any time.
* Error categories and messages, `PqxxExceptionMapper`: callers tell NotFound from everything else only.
* `DatabaseConfigurationJsonMapper` (no service uses it), connection strings, logger initialisation.
* `analytics-service` and `search-service` are empty in this commit; tests, load tests and
  monitoring are not part of the program.

## 7. Plan

Every part of the program with state or control of its own is modelled, and every safety property is
proved. What is left:

1. Refinement of the larger components: the consumer as one `CommitWatermark` per partition (what is
   finished is what was handled or dead-lettered, the watermark is the broker's position), and the
   registry as one watermark per ownership.
2. An abstract specification of the outbox (rows wait, are on the topic, are marked) and of the saga
   (created, reserved once, shown), with the steps of the detailed ones mapped to theirs.
3. The safety halves of the liveness properties: that whatever `stop()` waits for is a thread that can
   take a step or one in a call that returns.
