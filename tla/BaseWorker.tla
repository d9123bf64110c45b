----------------------------- MODULE BaseWorker -----------------------------
(***************************************************************************)
(* workers/base.py: the consume loop every worker process runs, and        *)
(* PaymentWorker.on_permanent_failure.  Each action is the code between    *)
(* two awaits whose effects another process can see, so that a crash or    *)
(* another instance can come in between.                                   *)
(*                                                                         *)
(*   received  --Insert-->  guarded --Read--> working --Commit-->          *)
(*   publishing --PublishNext--> acking --Ack--> idle                      *)
(*                                                                         *)
(* Failures leave this line for retrying or rechecking (a copy is sent to  *)
(* the retry queue, then the message is acked), hook (retries exhausted),  *)
(* nacking (dead-lettered) or requeueing.                                  *)
(***************************************************************************)
EXTENDS Workers

CONSTANTS
  Instances,   \* worker processes
  Role         \* Role[i]: the worker that instance i runs

ASSUME RoleAssumption == Role \in [Instances -> Workers]

VARIABLES
  pc,          \* pc[i]: where instance i is in _handle_message
  held,        \* held[i]: the unacknowledged message of i
  delivered,   \* delivered[i]: the broker still counts held[i] as i's; FALSE
               \* once i's channel dropped and the message was requeued
  seen,        \* seen[i]: the order status i read ("none" for no row)
  rest         \* rest[i]: outgoing events i has still to publish

instanceVars == <<pc, held, delivered, seen, rest>>
workerVars   == <<brokerVars, dbVars, instanceVars>>

Labels == {"idle", "received", "guarded", "working", "publishing", "republishing",
           "acking", "retrying", "rechecking", "hook", "hookPublish", "hookCommit",
           "nacking", "requeueing"}

At(i, label)   == pc[i] = label
Goto(i, label) == pc' = [pc EXCEPT ![i] = label]
EventOf(i)     == held[i].event

(* Mutant: attempts counted from 0. *)
AttemptFromZero(i) == held[i].retry

AttemptOf(i)   == held[i].retry + 1

(* Forget what the code holds in local variables when a session ends.      *)
Forget(i) ==
  /\ seen' = [seen EXCEPT ![i] = "none"]
  /\ rest' = [rest EXCEPT ![i] = {}]

Idle(i) ==
  /\ Goto(i, "idle")
  /\ held' = [held EXCEPT ![i] = NoMessage]
  /\ delivered' = [delivered EXCEPT ![i] = FALSE]
  /\ Forget(i)

----------------------------------------------------------------------------
(* run: queue.get, then the parsing at the head of _handle_message.  A     *)
(* poison message is nacked before anything else happens.                  *)
Get(i) ==
  /\ At(i, "idle")
  /\ \E m \in BagToSet(queue[Role[i]]) :
       /\ queue' = [queue EXCEPT ![Role[i]] = BagRemove(@, m)]
       /\ held' = [held EXCEPT ![i] = m]
       /\ Goto(i, IF m.event = Poison THEN "nacking" ELSE "received")
  /\ delivered' = [delivered EXCEPT ![i] = TRUE]
  /\ UNCHANGED <<retry, dead, dbVars, seen, rest>>

(* Mutant: the guard row is looked up before the work instead of inserted. *)
GuardWithoutLock(j, w, e) == FALSE

(* An instance whose transaction has inserted the guard row of event e     *)
(* and not ended: PostgreSQL makes a second insert of that key wait.       *)
HoldsGuard(j, w, e) ==
  /\ Role[j] = w
  /\ pc[j] \in {"guarded", "working"}
  /\ EventOf(j) = e

(* The guard insert.  A duplicate key means that a committed row exists:   *)
(* its stored events are republished; were they missing, the message would *)
(* be requeued.                                                            *)
Insert(i) ==
  LET w == Role[i]
      e == EventOf(i)
      stored == Stored(w, e)
  IN /\ At(i, "received")
     /\ ~ \E j \in Instances : HoldsGuard(j, w, e)
     /\ IF Processed(w, e)
          THEN /\ Goto(i, IF stored = {} THEN "acking" ELSE "republishing")
               /\ rest' = [rest EXCEPT ![i] = stored]
          ELSE Goto(i, "guarded") /\ UNCHANGED rest
     /\ UNCHANGED <<brokerVars, dbVars, held, delivered, seen>>

(* Mutant: one retry too many.                                             *)
OneRetryTooMany(w, m, exc) ==
  IF exc = "UpstreamNotReady"
    THEN IF m.notready < NotReadyMax THEN "rechecking" ELSE "nacking"
    ELSE IF m.retry <= MaxRetries THEN "retrying"
         ELSE IF w = "payment" THEN "hook" ELSE "nacking"

(* What _handle_failure does next with message m after exception exc.      *)
AfterFailure(w, m, exc) ==
  IF exc = "UpstreamNotReady"
    THEN IF m.notready < NotReadyMax THEN "rechecking" ELSE "nacking"
    ELSE IF m.retry < MaxRetries THEN "retrying"
         ELSE IF w = "payment" THEN "hook" ELSE "nacking"

(* process() raised exc: roll back (the guard row is gone) and handle it.  *)
FailWith(i, exc) ==
  /\ Goto(i, AfterFailure(Role[i], held[i], exc))
  /\ Forget(i)
  /\ UNCHANGED <<brokerVars, dbVars, held, delivered>>

(* The notification worker's flush raises IntegrityError.                  *)
AlreadyNotified(i) == Role[i] = "notification" /\ EventOf(i) \in notifications

(* process() up to its sleep: read the order, or flush the notification.   *)
(* A notification key that exists already is a suppressed duplicate.       *)
Read(i) ==
  LET w == Role[i]
      status == orders[EventOf(i).order].status
  IN /\ At(i, "guarded")
     /\ \/ NotReady(w, status) /\ FailWith(i, "UpstreamNotReady")
        \/ /\ ~NotReady(w, status)
           /\ IF AlreadyNotified(i)
                THEN Goto(i, "acking") /\ UNCHANGED seen
                ELSE /\ Goto(i, "working")
                     /\ seen' = [seen EXCEPT ![i] =
                                   IF w = "notification" THEN "none" ELSE status]
           /\ UNCHANGED <<brokerVars, dbVars, held, delivered, rest>>

(* The simulated gateway declines: TransientError.                         *)
PaymentFails(i) ==
  /\ At(i, "working") /\ Role[i] = "payment" /\ Proceeds("payment", seen[i])
  /\ TRUE \in ShouldFail(EventOf(i).order, AttemptOf(i))
  /\ FailWith(i, "TransientError")

(* The writes of process(), the guard row with its outgoing events and the *)
(* notification become durable in one transaction.  seen[i] may be older   *)
(* than the row it overwrites.                                             *)
Durable(i) ==
  LET w == Role[i]
      e == EventOf(i)
      o == e.order
  IN /\ orders' = IF Proceeds(w, seen[i])
                    THEN [orders EXCEPT ![o] = Advanced(w, @)] ELSE orders
     /\ notifications' = notifications \cup (IF w = "notification" THEN {e} ELSE {})
     /\ processed_events' = processed_events \cup
          {[event |-> e, worker |-> w, outgoing |-> Outgoing(w, seen[i], e)]}

MayCommit(i) ==
  /\ At(i, "working")
  /\ Role[i] = "payment" /\ Proceeds("payment", seen[i]) =>
       FALSE \in ShouldFail(EventOf(i).order, AttemptOf(i))

Commit(i) ==
  LET outgoing == Outgoing(Role[i], seen[i], EventOf(i))
  IN /\ MayCommit(i)
     /\ Durable(i)
     /\ Goto(i, IF outgoing = {} THEN "acking" ELSE "publishing")
     /\ rest' = [rest EXCEPT ![i] = outgoing]
     /\ seen' = [seen EXCEPT ![i] = "none"]
     /\ UNCHANGED <<brokerVars, held, delivered>>

(* Publish one outgoing event, after the commit or out of the ledger.      *)
PublishNext(i) ==
  /\ pc[i] \in {"publishing", "republishing"}
  /\ \E e \in rest[i] :
       /\ queue' = Published(e)
       /\ rest' = [rest EXCEPT ![i] = @ \ {e}]
       /\ IF rest[i] = {e} THEN Goto(i, "acking") ELSE UNCHANGED pc
  /\ UNCHANGED <<retry, dead, dbVars, held, delivered, seen>>

(* Mutant: the copy carries the old retry count.                           *)
CopyUncounted(i) == [held[i] EXCEPT !.notready = 0]

(* _handle_failure publishes a copy to the retry queue, then acks.  The    *)
(* copy after a TransientError starts with a fresh notready count.         *)
RetryCopy(i) ==
  IF At(i, "retrying") THEN [held[i] EXCEPT !.retry = @ + 1, !.notready = 0]
                       ELSE [held[i] EXCEPT !.notready = @ + 1]

Delayed(i) == [retry EXCEPT ![Role[i]] = BagAdd(@, RetryCopy(i))]

SendRetry(i) ==
  /\ pc[i] \in {"retrying", "rechecking"}
  /\ retry' = Delayed(i)
  /\ Goto(i, "acking")
  /\ UNCHANGED <<queue, dead, dbVars, held, delivered, seen, rest>>

(* on_permanent_failure of the payment worker, in a transaction without a  *)
(* guard row: read, publish order.payment.failed, commit.                  *)
HookRead(i) ==
  /\ At(i, "hook")
  /\ seen' = [seen EXCEPT ![i] = orders[EventOf(i).order].status]
  /\ Goto(i, "hookPublish")
  /\ UNCHANGED <<brokerVars, dbVars, held, delivered, rest>>

FailedEvent(i) == [order |-> EventOf(i).order, type |-> "order.payment.failed"]

HookPublish(i) ==
  /\ At(i, "hookPublish")
  /\ queue' = Published(FailedEvent(i))
  /\ Goto(i, "hookCommit")
  /\ UNCHANGED <<retry, dead, dbVars, held, delivered, seen, rest>>

(* Mutant: the hook does not look at the status.                           *)
HookUnguarded(i) == [orders EXCEPT ![EventOf(i).order].status = "FAILED"]

(* The order row after the hook's commit: whoever read PENDING writes      *)
(* FAILED.                                                                 *)
HookDurable(i) ==
  IF seen[i] = "PENDING" THEN [orders EXCEPT ![EventOf(i).order].status = "FAILED"]
                         ELSE orders

HookCommit(i) ==
  /\ At(i, "hookCommit")
  /\ orders' = HookDurable(i)
  /\ Goto(i, "nacking")
  /\ Forget(i)
  /\ UNCHANGED <<brokerVars, notifications, processed_events, held, delivered>>

(* ack, nack(requeue=False) and nack(requeue=True).  On a dropped channel  *)
(* they raise, run() logs it, and the requeued copy stays in the queue.    *)
Ack(i) ==
  /\ At(i, "acking")
  /\ Idle(i)
  /\ UNCHANGED <<brokerVars, dbVars>>

(* Mutant: a message that is given up is entered in the ledger.            *)
NackProcessed(i) ==
  /\ At(i, "nacking")
  /\ dead' = IF delivered[i] THEN [dead EXCEPT ![Role[i]] = @ \cup {held[i]}] ELSE dead
  /\ processed_events' = processed_events \cup
       (IF EventOf(i) = Poison THEN {}
        ELSE {[event |-> EventOf(i), worker |-> Role[i], outgoing |-> {}]})
  /\ Idle(i)
  /\ UNCHANGED <<queue, retry, orders, notifications>>

(* Mutant: a message that is given up goes back to its work queue.         *)
NackRequeues(i) ==
  /\ At(i, "nacking")
  /\ queue' = IF delivered[i] THEN Requeued(Role[i], held[i]) ELSE queue
  /\ Idle(i)
  /\ UNCHANGED <<retry, dead, dbVars>>

Nack(i) ==
  /\ At(i, "nacking")
  /\ dead' = IF delivered[i] THEN [dead EXCEPT ![Role[i]] = @ \cup {held[i]}] ELSE dead
  /\ Idle(i)
  /\ UNCHANGED <<queue, retry, dbVars>>

Requeue(i) ==
  /\ At(i, "requeueing")
  /\ queue' = IF delivered[i] THEN Requeued(Role[i], held[i]) ELSE queue
  /\ Idle(i)
  /\ UNCHANGED <<retry, dead, dbVars>>

----------------------------------------------------------------------------
(* Faults.  The process dies (and is restarted), or its channel drops      *)
(* while it carries on: either way the broker requeues the message.        *)
Crash(i) ==
  /\ ~At(i, "idle")
  /\ queue' = IF delivered[i] THEN Requeued(Role[i], held[i]) ELSE queue
  /\ Idle(i)
  /\ UNCHANGED <<retry, dead, dbVars>>

ChannelDrops(i) ==
  /\ ~At(i, "idle") /\ delivered[i]
  /\ queue' = Requeued(Role[i], held[i])
  /\ delivered' = [delivered EXCEPT ![i] = FALSE]
  /\ UNCHANGED <<retry, dead, dbVars, pc, held, seen, rest>>

(* Database errors.  Outside the try around process() they reach run(),    *)
(* which nacks; a commit that raises may have been applied.                *)
GuardFails(i) ==
  /\ At(i, "received")
  /\ Goto(i, "nacking")
  /\ UNCHANGED <<brokerVars, dbVars, held, delivered, seen, rest>>

ProcessFails(i) ==
  /\ At(i, "guarded")
  /\ FailWith(i, "OperationalError")

(* Mutant: a failed commit is logged and the events are published.         *)
PublishesAnyway(i) ==
  LET outgoing == Outgoing(Role[i], seen[i], EventOf(i))
  IN /\ MayCommit(i)
     /\ Goto(i, IF outgoing = {} THEN "acking" ELSE "publishing")
     /\ rest' = [rest EXCEPT ![i] = outgoing]
     /\ UNCHANGED <<brokerVars, dbVars, held, delivered, seen>>

CommitFails(i) ==
  /\ MayCommit(i)
  /\ Durable(i) \/ UNCHANGED dbVars
  /\ Goto(i, "nacking")
  /\ Forget(i)
  /\ UNCHANGED <<brokerVars, held, delivered>>

HookDbFails(i) ==
  /\ pc[i] \in {"hook", "hookCommit"}
  /\ orders' \in (IF At(i, "hookCommit") THEN {orders, HookDurable(i)} ELSE {orders})
  /\ Goto(i, "nacking")
  /\ Forget(i)
  /\ UNCHANGED <<brokerVars, notifications, processed_events, held, delivered>>

(* Mutant: a failed publish of a stored event is logged and acked.         *)
PublishErrorSwallowed(i) ==
  /\ pc[i] \in {"publishing", "republishing"}
  /\ Goto(i, "acking")
  /\ Forget(i)
  /\ UNCHANGED <<brokerVars, dbVars, held, delivered>>

(* Broker errors: a publish raises.                                        *)
PublishFails(i) ==
  /\ pc[i] \in {"publishing", "republishing"}
  /\ \E e \in rest[i] : queue' \in MaybePublished(e)
  /\ Goto(i, IF At(i, "publishing") THEN AfterFailure(Role[i], held[i], "ConnectionError")
                                    ELSE "requeueing")
  /\ Forget(i)
  /\ UNCHANGED <<retry, dead, dbVars, held, delivered>>

SendRetryFails(i) ==
  /\ pc[i] \in {"retrying", "rechecking"}
  /\ retry' \in {retry, Delayed(i)}
  /\ Goto(i, "nacking")
  /\ UNCHANGED <<queue, dead, dbVars, held, delivered, seen, rest>>

(* Mutant: the hook commits although its publish failed.                   *)
HookCommitsAnyway(i) ==
  /\ At(i, "hookPublish")
  /\ Goto(i, "hookCommit")
  /\ UNCHANGED <<brokerVars, dbVars, held, delivered, seen, rest>>

HookPublishFails(i) ==
  /\ At(i, "hookPublish")
  /\ queue' \in MaybePublished(FailedEvent(i))
  /\ Goto(i, "nacking")
  /\ Forget(i)
  /\ UNCHANGED <<retry, dead, dbVars, held, delivered>>

----------------------------------------------------------------------------
InstancesInit ==
  /\ pc        = [i \in Instances |-> "idle"]
  /\ held      = [i \in Instances |-> NoMessage]
  /\ delivered = [i \in Instances |-> FALSE]
  /\ seen      = [i \in Instances |-> "none"]
  /\ rest      = [i \in Instances |-> {}]

InstancesTypeOK ==
  /\ pc        \in [Instances -> Labels]
  /\ held      \in [Instances -> Message \cup {NoMessage}]
  /\ delivered \in [Instances -> BOOLEAN]
  /\ seen      \in [Instances -> Statuses \cup {"none"}]
  /\ rest      \in [Instances -> SUBSET Event]
=============================================================================
