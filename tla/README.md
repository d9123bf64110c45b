# A formal model of QuickBite order processing

QuickBite accepts food orders over HTTP and processes them in four workers that
talk through RabbitMQ and share one PostgreSQL database. This directory holds a
TLA+ model of that program, the TLC configurations that check it on small
instances, and TLAPS proofs that hold for every instance. Paths below are
relative to the repository; `base.py` is `src/quickbite/workers/base.py`.

## The system

| Part | State | Operations | Talks to |
|---|---|---|---|
| Order API, `api/routes.py` | the request's transaction | `create_order`: insert, publish `order.created`, commit; reads and health | database, topic exchange |
| Topology, `common/messaging.py` | four work queues, four retry queues, one dead-letter queue | routing by bindings, TTL expiry back to the exchange, dead-lettering | everybody |
| `BaseWorker`, `base.py` | the unacknowledged message, an open transaction | guard insert, `process`, commit, publish, ack; `_handle_failure` | database, broker |
| Payment, restaurant, delivery, notification worker | none of their own | `process`; the payment worker also `on_permanent_failure` | orders, notifications |
| Data model, `common/models.py` | `orders`, `notifications`, `processed_events` (idempotency ledger and outbox in one) | reads, blind updates, unique keys | |
| Startup, `common/db.py`, `api/main.py` | connections, tables | `init_db`, publisher connect, `declare_topology`, shutdown | database, broker |
| Run loop, `base.py` | the stop flag, a pending `queue.get` | poll, handle, stop, close | broker, docker compose |

An order is made `PENDING` by the API, then `PAID`, `CONFIRMED` and
`DRIVER_ASSIGNED` by one worker after the other, each triggered by the event the
previous one published; or `FAILED` by the payment worker. The notification
worker stores one row per event.

What is hard about it, and what correctness means for each part:

* **Delivery is at least once.** Crashes, dropped channels, lost confirms and
  retry copies all duplicate messages. The guard row must make a second
  processing impossible, also when two instances hold the same event at once
  (`EffectsOnce`).
* **Three stores, no common transaction.** Commit, publish and ack are separate
  steps, with a crash possible between any two. Nothing may be lost
  (`NothingDropped`), nothing announced before it is durable (`NoUnpaidWork`,
  `NewsIsTrue`).
* **Failure handling is itself a sequence that can fail**: the copy to the retry
  queue, the payment hook with its own publish and commit, the nack
  (`FailureAnnounced`, and the documented claims below).
* **Reads are stale.** Statuses are read, a call is waited for, then the column
  is overwritten. The chain must still follow the lifecycle (`LifecycleKept`).
* **One retry queue, many delays.** Backoffs and rechecks of different lengths
  share one classic queue, whose messages expire at the head only
  (`BoundedWait`, `LateOnlyBehindLonger`, `RecheckWindow`, `BackoffHonoured`,
  `RetriesComeBack`).
* **Everybody starts at once**, and creates tables and queues that the others
  need (`NoWorkWithoutTables`, `RaceCostsOneAttempt`, `AcceptedIsKept`), while
  holding locks that the others wait for (`NoCircularWait`).
* **Stopping.** SIGTERM, a lost link or a late answer of the broker meets the
  worker at any point of its loop (`GracefulStop`, `NothingStranded`,
  `StopHonoured`).
* **Progress.** No order may hang and retrying must end (`OrdersSettle`,
  `RetriesEnd`, `CustomerTold`, `RecoversFromTwoFailures`, `BacklogDrains`).

`PROJECT.json` lists every hazard with its source line and the properties for it.

## The modules

```
Messaging      queues, bindings, headers, retry and dead-letter routing
  Database     orders, notifications, processed_events
    Workers    what process() of the four workers decides
      BaseWorker   the steps of _handle_message / _handle_failure, and faults
    OrderApi       the steps of create_order
Pipeline       composes BaseWorker and OrderApi; Next, fairness, properties
  Claims       documented statements that the code does not keep
    MCPipeline     instances for TLC
  PipelineProofs, NewsProofs, DropProofs    theorems, each module resting on the
                 one before it
OrderLifecycle the abstract specification of one status column

RetryQueue     the payment retries in time, with one retry queue in order
  MCRetryQueue   instances for TLC
  RetryProofs    theorems
QueueBag       a queue seen as the bag of the messages in it
DelayedRetry   the abstract specification of a retry queue
Counting       least numbers, and copies in a queue, for the proofs

SchemaInit     init_db and its race
  Startup        connecting and declaring the topology
    RunLoop        polling, serving, stop and restart; Next, fairness, properties
      MCRunLoop      an instance for TLC
      RunLoopProofs, DeliveryProofs, GracefulProofs    theorems
```

The three groups look at the same program at three scales. The Pipeline group
follows every await of a message's handling but leaves out time and the life of
the processes; the RetryQueue group has time, and the handling of a message in
one step; the RunLoop group has the life of the processes and only as much of the
messages as shows who holds them. What Pipeline assumes of retry queues, that
every message put aside comes back once and unchanged (`Expire`), is what
`RetryQueue` is shown to implement.

**Messaging** keeps `queue`, `retry` (bags, one per worker) and `dead`. A message
is its event with the two counters of its headers. An event is an order and a
type: its idempotency key is the concatenation of just these. The broker is
external and reliable: what it has confirmed it keeps. A publish that raises may
or may not have been routed (`MaybePublished`). `Expire` moves a message from a
retry queue through the topic exchange with the queue's fixed key, so that it
also fans out to the notification queue, as in the code.

**Database** has committed rows only; what an open transaction wrote is in the
program counter of its owner. `payment_id` and `driver_id` count how often the
column was written, which is what double charging is about.

**Workers** gives the decisions of the four `process` methods as operators; the
status read, the delay and the status written are separate steps in `BaseWorker`.

**BaseWorker** has one action per stretch of code between awaits whose effects
somebody else can see:

| Action | Code |
|---|---|
| `Get` | `queue.get`, parsing, poison |
| `Insert` | guard insert; on a duplicate, reading the stored events |
| `Read` | `process` up to its sleep; `UpstreamNotReady`; duplicate notification |
| `PaymentFails`, `Commit` | the end of `process`, the guard row's outgoing events, `commit` |
| `PublishNext` | one publish of the loop, or of republishing |
| `SendRetry` | the copy to the retry queue |
| `HookRead`, `HookPublish`, `HookCommit` | `on_permanent_failure` and its commit |
| `Ack`, `Nack`, `Requeue` | the end of the message |

`AfterFailure` is the choice `_handle_failure` makes. `HoldsGuard` is PostgreSQL's
wait for an uncommitted duplicate key: under it, branch (b) of the duplicate
handling (base.py:204-206) is never taken, since a conflict always finds a
committed row. A session that ends forgets its local variables (`Forget`), so
that equal situations are equal states.

**Faults** are actions of their own, of five kinds, at most `MaxFaults` together:
`crash` (the process dies and comes back), `channel` (the message is requeued
while its first holder carries on; its later ack is void), `database` (an error
at the guard, in `process`, at a commit - which may have been applied - or in the
hook), `broker` (a publish raises) and `poison` (a malformed body on a queue).

**OrderApi** models one request per order id, which are drawn afresh at random.

**RetryQueue** has the retry queue as a sequence of messages, each with its TTL
and the time it has waited. There is no clock: `Tick` makes everything that waits
a millisecond older, and cannot happen while the head of the queue is due, since
RabbitMQ expires a due head at once (`Release`). Delays are computed in
microseconds and cut to milliseconds as in the code (`RetryDelay`,
`ExpirationMs`); `Delayed` keeps the code's reading of 0 as "no TTL"
(messaging.py:149). `row` tells whether the API's commit came within the time
that the rechecks last.

| Action | Code |
|---|---|
| `Publish`, `ApiCommit` | `create_order`: the publish, and the commit that may come any time later or never |
| `NotReady` | `UpstreamNotReady`: recheck while the count allows, else dead-letter |
| `Decline` | `TransientError`: retry with backoff and a fresh recheck count, else hook and dead-letter |
| `Pay`, `Skip` | the charge commits; a duplicate is acked |
| `Release`, `Tick` | the broker (external) |

A worker may die between the copy and the ack of any of these (`Acked`).

**SchemaInit** splits `create_all` as SQLAlchemy runs it: look every table up,
create those that were missing, commit. Another process may commit in between; a
`CREATE TABLE` then raises, or waits while the other's transaction is open.
`AttemptFails` is the `except` of the loop: try again, or raise and end the
process, which `restart: unless-stopped` starts again.

**Startup** has `Connect`, one `Declare` per queue, and `ConnectFails`, which ends
a worker and is counted by the API's own loop.

**RunLoop** has the loop of `BaseWorker.run`:

| Action | Code |
|---|---|
| `Get`, `Deliver`, `GetEmpty`, `Receive` | `queue.get(timeout=1.0, fail=False)`: the request, the broker's two answers, and the answer taken up |
| `Handle`, `Ack` | `_handle_message` as one step that commits, and the end of the message |
| `Leave`, `GetRaises`, `GetTimesOut` | the ways out of the loop: the stop flag, and exceptions of `get`, which is outside the `try` |
| `Close` | `finally: connection.close()`: the broker requeues what was not acked |
| `Accept`, `Shutdown` | a request that is answered 201, and the end of the lifespan |
| `Terminate`, `Up` | `docker stop` and `docker start`. A worker that is still in `init_db` has no handler for SIGTERM yet and is killed; uvicorn handles it throughout |
| `LinkDrops`, `Reconnect`, `Crash`, `DbError`, `ConnectFails`, `GetTimesOut` | faults and `connect_robust`, at most `MaxFaults` faults |

## What the runs check

The runs of `Pipeline` use one order: every action touches one order's rows and
messages, and
orders meet only in queues that are unordered in the model, so a second order
adds waiting but no new interaction. One retry and one recheck suffice for every
branch of `_handle_failure` to be taken on the first and on the last attempt;
`fail_twice` needs two retries. `CHECK_DEADLOCK` is off in these runs because a
finished system stops; in `retries` time never stops and in `life` an idle worker
keeps polling, so there deadlock is checked.

| Run | Instance | Shows |
|---|---|---|
| `pair` | 2 payment instances, 2 faults of all kinds, 141 000 states | `TypeOK`; `NothingDropped`: every order and stored event reached its consumers or is kept, if only as a dead letter; `EffectsOnce`; `FailureAnnounced` although the hook publishes in a transaction it may roll back; `NoGhostWork`: an `order.created` whose commit failed leads to nothing |
| `chain` | payment, restaurant, delivery, 2 faults, 194 000 states | `NoUnpaidWork`; `LifecycleKept`: the statuses implement `OrderLifecycle`; under fairness `OrdersSettle`, and `RetriesEnd`: retries, rechecks, requeues and duplicates die out and every worker comes to rest over empty queues |
| `notify` | all four workers, no rechecks, 1 fault other than poison, 500 000 states | `NewsIsTrue`: no payment, confirmation or driver is announced before its commit; under fairness `CustomerTold`: every accepted order, every `FAILED` one and every stored event, those with three-word keys included, is announced; `RetriesEnd`, with the copies that the chain's retries send to the notification queue |
| `fail_twice` | 2 payment instances, 2 retries, 2 crashes or channel drops, 85 000 states | `RecoversFromTwoFailures`: an order that fails twice is never `FAILED` and is paid |
| `retries` | 2 orders in one queue, 2 retries of 1 and 2 ms, 2 rechecks of 1 ms, 1 crash, 111 000 states | `BoundedWait`; `LateOnlyBehindLonger`: a copy is back later than the counts in its headers call for only behind one whose counts call for longer; `RecheckWindow`: an order committed in time is never given up as never ready, and `BackoffHonoured`: no payment is given up early, both in spite of duplicates and of short delays behind long ones; `RetriesComeBack`: the queue implements `DelayedRetry`, its fairness included |
| `life` | the API, a payment and a notification worker, 2 tables, 2 queues, 2 attempts, 1 stop, 1 fault, 117 000 states | `NoWorkWithoutTables`, `RaceCostsOneAttempt`; `NoCircularWait`: the transactions of `create_all` never wait for each other in a circle; `NothingStranded`, `GracefulStop`, `AcceptedIsKept`; under fairness `StopHonoured` and `BacklogDrains` |

In `retries` the delays are scaled down so that a recheck is as short as the first
backoff and half of the second: every order of expiry occurs. Two orders are what
head-of-line blocking needs; ages are not counted beyond `AgeBound`. Two of three
processes are workers in `life`, of different queues; two tables make an
interrupted `create_all` leave one to do, and give two orders in which they might be
locked; two attempts make an attempt the first or the last. A single stop may hit
any process at any point and be followed by `Up`, and a fault may hit it before or
after.

`CustomerTold` allows two excuses, each for one event only: the very message that
has to publish it is dead-lettered (an outbox event), or its own notification was
given up (`GivenUp`), after a fault for each of its retries and another one. That an
order has some other dead letter, as every `FAILED` order has, is no excuse, and
neither is a dead copy that a retry of another worker sent to the notification
queue. `NewsIsTrue` leaves out the news that a payment failed, which may be untrue
(`false_notice`). `notify` has no rechecks, which would more than triple it: an
`order.created` that comes before its commit is dead-lettered at once there.
`chain` has rechecks and a second fault instead of the notification worker, so
`RetriesEnd` is checked in both.

`LifecycleKept` is checked with one payment instance, as `docker-compose.yml`
starts; with two it does not hold (see `failed_overwrites`).

**Fairness** is weak fairness of each instance, of each retry queue and of each
request in progress: workers run a loop that never blocks on anything but its own
awaits and are restarted when they die (`restart: unless-stopped`), the broker's
timers run, and a request handler is carried to its end. Clients need not send a
request, faults need not happen, and no particular outcome of a random payment is
assumed. Faults are bounded, so the liveness properties speak of the time after
the last one. `RetryQueue` assumes weak fairness of time, of the broker's expiry
and of the workers together. `RunLoop` assumes weak fairness of each process and
of the broker's answers to it; not of `Up`, so a stopped worker may stay stopped,
and `BacklogDrains` excepts its queue.

### Where the documentation says more than the code does

Each of these runs ends in a violation of a statement quoted in `PROJECT.json`.

* `outbox_lost` - "no event is ever lost" (base.py:13). A publish error after the
  commit goes to `_handle_failure`. On the last attempt the message is
  dead-lettered with its `order.paid` still unpublished; the order stays `PAID`.
* `false_notice` - "order -> FAILED, publishes order.payment.failed"
  (payment.py:5). In the same situation the hook runs for an order that is
  `PAID`, leaves its status alone but publishes the failure, and the customer is
  told of it.
* `failed_overwrites` - "Payment failed permanently" (enums.py:13), transitions
  "guarded by expected-status checks" (ARCHITECTURE.md:91). The hook has no guard
  row. If its channel drops, another instance may charge the order between the
  hook's read and its commit, which then overwrites `PAID`.
* `first_fault_dead` - transient errors are "republished to `<queue>.retry`"
  (REPORT.md:19). Those raised outside the `try` around `process` are caught in
  `run` and dead-letter the message at once.
* `hook_lost` - "`FAILED` as the terminal state when payment exhausts its
  retries" (ARCHITECTURE.md:32). When the hook's publish fails it is rolled back,
  and the order stays `PENDING` with its message dead-lettered.
* `late_retry` - "cheap 2s rechecks" (REPORT.md:20), "when the TTL expires, the
  broker dead-letters the message back" (ARCHITECTURE.md:57). It does so at the
  head of the queue only: a recheck behind another order's long backoff waits for
  that one. `BoundedWait` says how long at most.

A delay setting below one millisecond is outside these runs: `ExpirationMs` is
then 0, `build_message` gives the message no TTL, and it stays in the retry queue
with everything behind it. The defaults, 5 s and 2 s, are far from that;
`DelaysExpire` in `RetryProofs` is the condition.

`OrdersSettle` and `NothingDropped` hold all the same, because both count a
message in the dead-letter queue as kept: REPORT.md:32 calls it the manual-review
inbox.

## What is proved

For every set of orders and instances, every assignment of workers to instances,
every value of the settings and any number of faults:

* `TypeCorrect`: `Safety => []TypeOK` (PipelineProofs). `TypeOK` is not
  inductive: the retry copy of a message is a message only if its counter was
  below the limit, and an instance may look into its message only if it is an
  event. `HeldOK` adds what each program counter promises of the message in hand.
* `EffectsHappenOnce`: `Safety => []EffectsOnce` (PipelineProofs), by three
  invariants, each inductive relative to those before it. `RoutingInv`: messages
  are only where a binding takes them, so a payment worker only ever works on
  `order.created` and one ledger key stands for one charge. `GuardInv`: between
  its guard insert and the end of its transaction an instance is alone with its
  event, and the ledger has no row for it. `EffectsInv`: every charge and driver
  came with its ledger row. `DbFlow` and `MessageFlow` sum up what any step can do
  to the tables and queues, so that the later layers need no case per action.
* `NoWorkWithoutOrder`: `Safety => []NoGhostWork`, and `OnlyPaidWork`:
  `Safety => []NoUnpaidWork` (NewsProofs). What a status says at one moment proves
  nothing about a worker that read it earlier, so the argument goes by the outbox,
  which only grows. `BackedInv`: an event that reports work is nowhere to be seen,
  in a queue, in a hand or in a notification, before it is in the outbox.
  `ProgressInv`: what the outbox and the row of an order say agree, and an order
  whose request is still open has no row and no work. `SeenInv`: what an instance
  has read is far enough along for the event it holds.
* `OnlyTrueNews`: `SinglePayment => (Safety => []NewsIsTrue)`, and
  `LifecycleRefined`: `SinglePayment => (Safety => LifecycleKept)` (NewsProofs), the
  refinement of `OrderLifecycle`. Both need `FreshInv`: whoever is going to change
  a status changes the one it has read. The status tells which worker is to move,
  and the guard admits one instance of it (`FreshAlone`); only the payment worker
  has, in its hook, a way around the guard. So one payment instance is needed, and
  any number of the others do no harm; `failed_overwrites` shows the rest.
* `NothingIsDropped`: `Safety => []NothingDropped`, and `FailuresAreAnnounced`:
  `Safety => []FailureAnnounced` (DropProofs). `HeldFlow` is the core: whatever
  step an instance takes, a message that can be found somewhere can still be found,
  unless it is acked in one of the four ways of `Released`. `PublishedInv` says what
  makes the last of them safe (an instance that publishes has committed, and owes
  only the rest), `HandsKept` that a commit is safe even after the channel dropped
  (the requeued copy is still somewhere), and `AheadInv` that those who publish
  before they commit, the API and the hook, have reached everyone.

The liveness properties of the pipeline are proved down to one fact, that retrying
ends (`RetriesEnd`, which `chain` and `notify` check), where every queue has a worker
(`EveryWorkerRuns`):

* `QuietMeansSettled`: `Safety => []QuietIsSettled` (DropProofs): whenever the
  queues are empty and nobody is at work, every order in the database is delivered,
  `FAILED`, or has a message in the dead-letter queue. `NothingDropped` only says
  that each event was processed or is kept; that a processed event has moved its
  order on is `MovedInv`. A worker with nothing to do (`~Proceeds`) leaves the order
  alone, so it must have read a status at which its own work was done already, and
  the outbox has to show it (`OriginInv`: what the row of an order tells is in the
  outbox, and the ledger knows only events that were addressed to its worker).
  Along the chain, each event stored by one worker is then an event processed by
  the next.
* `SettledIfRetriesEnd`: `Safety => (RetriesEnd => OrdersSettle)`, and
  `ToldIfRetriesEnd`: `Safety => (RetriesEnd => CustomerTold)`. The latter follows
  the notification of one event through queues and hands (`ComingInv`): as soon as
  any message is about an event, its notification is stored or given up, or a
  message with a fault for each of its retries is on its way to it. Nobody makes a
  message about an event but by publishing it, with a count of 0 (`SentFlow`), and
  the notification worker adds to the count, or gives up, at a fault only
  (`NewsFlow`). `ToldInv` says that the ledger row of a notification comes with it.
* `RecoversIfRetriesEnd`: `NoErrors => (Safety => (RetriesEnd =>
  RecoversFromTwoFailures))`, where `NoErrors` leaves crashes, dropped channels and
  poison as faults, as `fail_twice` does. `PatientInv`: a message that has been
  retried twice is not declined again, so no instance gets to the payment hook with
  it. That the order is never `FAILED` does not depend on `RetriesEnd`.

For any number of processes, tables, queues and orders, of stops and of faults:

* `SchemaBeforeWork`: `Safety => []NoWorkWithoutTables`, and `RaceIsCheap`:
  `Safety => []RaceCostsOneAttempt` (RunLoopProofs). Their invariant `SchemaInv`
  says that the database has either no table or all of them, that a process in
  `create_all` has found missing, or has yet to look up, whatever is not there,
  and that one with a failed attempt too many has lost the race: then all tables
  exist, and it will not find one missing again.
* `SomebodyGoesOn`: `Safety => []NoCircularWait` (RunLoopProofs). `OrderInv`: what
  a process has noted or created stands before what it has yet to look for or to
  create, in the order of `Tables`. Who is waited for by one and waits itself
  therefore waits for a later table (`WaitsForLater`), and there is a last one.
* `NoDeliveryStranded`: `Safety => []NothingStranded` (DeliveryProofs), from
  `HandsInv`: what each phase of a worker promises about what is unacknowledged,
  what is in hand and what is done.
* `AcceptedOrdersKept`: `Safety => []AcceptedIsKept` (DeliveryProofs), relative to
  `HandsInv` and to `TopologyInv`: a process that serves or polls finds every
  queue declared, because it has declared those that nobody else had.
* `LifeTyped`: `Safety => []TypeOK` (DeliveryProofs). `AttemptsInv` bounds the two
  retry loops of startup, and says that a transaction starts with nothing found
  missing and cannot find more than there is.
* `StopsAreGraceful`: `Safety => []GracefulStop` (GracefulProofs). The bound on
  work is not inductive: a copy of a message may still lead to work. `CopiesInv`
  counts the copies together with the work done; the queue's, and those of workers
  that have not worked on them, also when the broker has already requeued them.
  Only a fault makes a copy.

For any number of orders, retries, rechecks and crashes, and any delays:

* `WaitIsBounded`: `DelaysExpire => (Safety => []BoundedWait)` (RetryProofs), for
  delays of a millisecond or more. `WaitInv` adds that the messages in the queue
  have waited in the order in which they stand: while the head is not due, nobody
  has waited the longest delay. `LateBehindLonger`:
  `DelaysExpire => (Safety => []LateOnlyBehindLonger)`, from the same invariant and
  `CalledInv`: every copy carries the delay that the counts in its headers call for.
* `NoEarlyFailure`: `Safety => []BackoffHonoured`, and `CommittedInTime`:
  `Safety => []RecheckWindow` (RetryProofs), from `AgeInv`: the counts of a message
  say how old its order is at least. A message that waits in the retry queue owes
  what is left of its own TTL (`AsideFor`), so waiting behind others, crashes and
  duplicates can only make an order older; and an order that is not committed yet
  has been rechecked only. Neither theorem needs a delay to be positive.
* `RetriesTyped`: `Safety => []TypeOK` (RetryProofs), from `AgeInv` and the types of
  the bag and the clocks.
* `RetriesRefine`: `Safety => Untimed!Safety` (RetryProofs), the safety part of
  `RetriesComeBack`: every step of the timed queue is a step of `DelayedRetry` or a
  stutter, where the bag of what is put aside is the sequence without its order and
  its times. `Counting` says what appending and taking the head do to such a bag.

`Backoff` is a recursive function. That it is the sum of the delays
(`BackoffSums`) is proved by a least counterexample (`LeastNatural` in Counting,
from the library's `WFMin`), which takes no operator as a parameter.

The proofs assume only what the modules state: the settings are natural numbers,
`Role` gives each instance a worker, the sentinels are no events, messages or
orders, tables and queues are nonempty finite lists, the tables without repetition,
and no delay is longer than `LongestDelay`, which is only there to bound TLC's
clocks. Each assumption is evaluated by TLC in every run of its group. The
conditions that some theorems name (`SinglePayment`, `EveryWorkerRuns`, `NoErrors`,
`DelaysExpire`) hold for the deployment of `docker-compose.yml` with its defaults,
but for `NoErrors`, which is about faults.

Only model-checked, since fairness and `ENABLED` are beyond the prover: that
retrying ends (`RetriesEnd`), that the head of the retry queue does expire (the
fairness in `RetriesComeBack`), `StopHonoured` and `BacklogDrains`. `OrdersSettle`,
`CustomerTold` and `RecoversFromTwoFailures` are checked as they stand, and proved
from `RetriesEnd`.

## What is not modelled

* The read endpoints, health, request validation, notification texts and logging:
  no state, or none that a decision depends on.
* Prefetching: a worker polls with `get`, to which `set_qos` does not apply.
* The connection that a failed `EventPublisher.connect` leaves open
  (messaging.py:163): it holds no message and ends with the process.
* Time outside `RetryQueue`: in Pipeline any waiting message may come next and any
  retry may expire next; in RunLoop a timeout is a fault that may happen whenever
  an answer is pending.
* SQLite, which the tests use: it serialises writers and does not make a second
  guard insert wait.
* The lazily created engine and session factory, `check_db`, the deployment files
  and the demo scripts: plumbing without decisions of its own.

## Plan

Done: all the modules above with their runs, and a proof of every invariant and of
every action property that a passing run checks; both refinements, but for the
fairness of `DelayedRetry`; what the pipeline's liveness properties need besides termination.
Next:

1. The safety part of `BacklogDrains`, in the same way: when no worker has anything
   left to do, every accepted order has been worked on for every queue whose
   workers have not been stopped.
2. A ranking of `Pipeline`'s states that decreases with every step but a fault, as
   an action property: the part of `RetriesEnd` that is not fairness.
