------------------------------ MODULE Pipeline ------------------------------
(***************************************************************************)
(* The whole system: the order API, the broker and any number of instances *)
(* of the four workers over one database, with a bounded number of faults. *)
(***************************************************************************)
EXTENDS BaseWorker, OrderApi

CONSTANTS
  FaultKinds,   \* the kinds of fault that may happen
  MaxFaults     \* bound on how many happen

AllFaultKinds == {"crash", "channel", "database", "broker", "poison"}

ASSUME FaultAssumption == FaultKinds \subseteq AllFaultKinds /\ MaxFaults \in Nat

VARIABLE faults   \* faults so far

vars == <<queue, retry, dead, orders, notifications, processed_events,
          pc, held, delivered, seen, rest, api, faults>>

Init == BrokerInit /\ DbInit /\ InstancesInit /\ ApiInit /\ faults = 0

----------------------------------------------------------------------------
(* One step of a request, of an instance or of the broker, without fault.  *)
RequestStep(o) ==
  /\ \/ ApiInsert(o)
     \/ ApiPublish(o)
     \/ ApiCommit(o)
  /\ UNCHANGED <<instanceVars, faults>>

InstanceStep(i) ==
  /\ \/ Get(i)
     \/ Insert(i)
     \/ Read(i)
     \/ PaymentFails(i)
     \/ Commit(i)
     \/ PublishNext(i)
     \/ SendRetry(i)
     \/ HookRead(i)
     \/ HookPublish(i)
     \/ HookCommit(i)
     \/ Ack(i)
     \/ Nack(i)
     \/ Requeue(i)
  /\ UNCHANGED <<api, faults>>

BrokerStep(w) == Expire(w) /\ UNCHANGED <<dbVars, instanceVars, api, faults>>

InstanceFault(i) ==
  /\ \/ "crash" \in FaultKinds /\ Crash(i)
     \/ "channel" \in FaultKinds /\ ChannelDrops(i)
     \/ /\ "database" \in FaultKinds
        /\ GuardFails(i) \/ ProcessFails(i) \/ CommitFails(i) \/ HookDbFails(i)
     \/ /\ "broker" \in FaultKinds
        /\ PublishFails(i) \/ SendRetryFails(i) \/ HookPublishFails(i)
  /\ UNCHANGED api

RequestFault(o) ==
  /\ \/ FaultKinds \cap {"broker", "crash"} # {} /\ ApiPublishFails(o)
     \/ FaultKinds \cap {"database", "crash"} # {} /\ ApiCommitFails(o)
  /\ UNCHANGED instanceVars

PoisonFault(w) ==
  /\ "poison" \in FaultKinds /\ InjectPoison(w)
  /\ UNCHANGED <<dbVars, instanceVars, api>>

Fault ==
  /\ faults < MaxFaults
  /\ faults' = faults + 1
  /\ \/ \E i \in Instances : InstanceFault(i)
     \/ \E o \in Orders : RequestFault(o)
     \/ \E w \in Workers : PoisonFault(w)

Next ==
  \/ \E o \in Orders : RequestStep(o)
  \/ \E i \in Instances : InstanceStep(i)
  \/ \E w \in Workers : BrokerStep(w)
  \/ Fault

(* A worker process keeps running or is restarted (restart: unless-stopped *)
(* in docker-compose.yml), the broker expires messages, and a request in   *)
(* progress is carried on.  A client need not send one, and no fault need  *)
(* happen.                                                                 *)
Fairness ==
  /\ \A i \in Instances : WF_vars(InstanceStep(i))
  /\ \A w \in Workers : WF_vars(BrokerStep(w))
  /\ \A o \in Orders : WF_vars(api[o] # "new" /\ RequestStep(o))

Safety == Init /\ [][Next]_vars
Spec   == Safety /\ Fairness

TypeOK == BrokerTypeOK /\ DbTypeOK /\ InstancesTypeOK /\ ApiTypeOK /\ faults \in 0..MaxFaults
----------------------------------------------------------------------------
(* Where an event can still be found by worker w: in a queue, in the hands *)
(* of an instance that has not handed it on yet, or among the dead letters.*)
Waiting(w, e) == \E m \in BagToSet(queue[w]) \cup BagToSet(retry[w]) : m.event = e

InHand(w, e) ==
  \E i \in Instances :
    /\ Role[i] = w /\ delivered[i]
    /\ pc[i] \notin {"idle", "acking"}
    /\ held[i].event = e

DeadLettered(w, e) == \E m \in dead[w] : m.event = e

Held(w, e) == Waiting(w, e) \/ InHand(w, e) \/ DeadLettered(w, e)

(* Nobody who should see e has missed it.                                  *)
Reached(e) == \A w \in Consumers(e.type) : Processed(w, e) \/ Held(w, e)

(* No message is lost: the order.created event of every order in the       *)
(* database, and every event a worker stored with its work, has reached    *)
(* all its consumers; the latter may instead still be recoverable because  *)
(* the message whose processing produced it is kept.  ("Nothing is         *)
(* silently dropped anywhere in the system", docs/REPORT.md.)              *)
NothingDropped ==
  /\ \A o \in Orders : orders[o].status # "none" => Reached(Created(o))
  /\ \A r \in processed_events : \A e \in r.outgoing : Reached(e) \/ Held(r.worker, r.event)

(* A charge is committed at most once per order and a driver assigned at   *)
(* most once, whatever is redelivered, retried or run side by side.        *)
EffectsOnce ==
  \A o \in Orders : orders[o].payment_id <= 1 /\ orders[o].driver_id <= 1

(* The restaurant and the driver only ever work for an order that was      *)
(* charged, and only for one confirmed (publish-after-commit in base.py).  *)
NoUnpaidWork ==
  /\ \A o \in Orders :
       orders[o].status \in {"PAID", "CONFIRMED", "DRIVER_ASSIGNED"} => orders[o].payment_id > 0
  /\ \A i \in Instances : At(i, "working") =>
       /\ Role[i] = "restaurant" => seen[i] \notin {"none", "PENDING"}
       /\ Role[i] = "delivery"   => seen[i] \notin {"none", "PENDING", "PAID"}

(* An order whose transaction was never committed, or not yet, leaves no   *)
(* trace of a worker of the chain: none counts its event as processed      *)
(* before there is a row to work on, so that a late commit is still served *)
(* (the event goes out first, api/routes.py:79).                           *)
NoGhostWork ==
  \A r \in processed_events : r.worker \in Chain => orders[r.event.order].status # "none"

(* What the customer reads is true: a payment, a confirmation or a driver  *)
(* is announced only after the transaction that made it so has committed,  *)
(* whatever is retried or republished ("consumers can never observe        *)
(* uncommitted state", workers/base.py:263).  A receipt is no such news:   *)
(* the API publishes order.created before its commit.                      *)
Achieved(o, type) ==
  CASE type = "order.paid"            -> orders[o].payment_id > 0
    [] type = "order.confirmed"       -> orders[o].status \in {"CONFIRMED", "DRIVER_ASSIGNED"}
    [] type = "order.driver.assigned" -> orders[o].driver_id > 0
    [] OTHER                          -> TRUE

NewsIsTrue == \A e \in notifications : Achieved(e.order, e.type)

(* A FAILED order is always announced to the customer, although the hook   *)
(* publishes in a transaction that may be rolled back.                     *)
FailureAnnounced ==
  \A o \in Orders : orders[o].status = "FAILED" =>
    Reached([order |-> o, type |-> "order.payment.failed"])

(* One instance of the payment worker, as docker-compose.yml starts.       *)
SinglePayment == \A i, j \in Instances : Role[i] = "payment" /\ Role[j] = "payment" => i = j

(* Somebody consumes every work queue, as docker-compose.yml starts.       *)
EveryWorkerRuns == \A w \in Workers : \E i \in Instances : Role[i] = w

(* The status of every order follows the lifecycle of common/enums.py.     *)
Lifecycle == INSTANCE OrderLifecycle WITH status <- [o \in Orders |-> orders[o].status]
LifecycleKept == Lifecycle!Spec

----------------------------------------------------------------------------
(* A message of order o from one of the queues ws awaits manual review.    *)
ForReview(o, ws) == \E w \in ws, e \in Event : e.order = o /\ DeadLettered(w, e)

(* Every order in the database ends delivered or failed, or one of its     *)
(* messages is in the dead-letter queue: no order hangs, whatever fails.   *)
Settled(o) == orders[o].status \in {"DRIVER_ASSIGNED", "FAILED"} \/ ForReview(o, Chain)

OrdersSettle == \A o \in Orders : orders[o].status # "none" ~> Settled(o)

(* Retrying ends: duplicates, republished events and retries die out and   *)
(* the workers come to rest over empty queues.                             *)
AtRest == \A i \in Instances :
            At(i, "idle") /\ queue[Role[i]] = EmptyBag /\ retry[Role[i]] = EmptyBag
RetriesEnd == <>[]AtRest

(* The notification worker has given up its own message of event e: one    *)
(* that took a fault for each of its retries and another one.  A copy that *)
(* other workers' retries and rechecks send it besides (their keys match   *)
(* order.#) carries counts no fault of e's notification accounts for.      *)
GivenUp(e) ==
  \E m \in dead["notification"] : m.event = e /\ m.notready = 0 /\ m.retry < faults

Told(e) == e \in notifications \/ GivenUp(e)

(* The customer is brought up to date again and again: he gets a           *)
(* notification of every order that was accepted, of every FAILED order,   *)
(* and of every event stored in the outbox, unless the very message that   *)
(* has to publish that event awaits manual review ("order.#", not          *)
(* "order.*", common/messaging.py).                                        *)
UpToDate ==
  /\ \A o \in Orders : orders[o].status # "none" => Told(Created(o))
  /\ \A o \in Orders : orders[o].status = "FAILED" =>
       Told([order |-> o, type |-> "order.payment.failed"])
  /\ \A r \in processed_events : \A e \in r.outgoing :
       Told(e) \/ DeadLettered(r.worker, r.event)

CustomerTold == []<>UpToDate

(* The retry budget suffices for a payment that fails twice: with at least *)
(* two retries, and however often workers crash or lose their channel, the *)
(* order is never FAILED and is paid, unless it waits for the API's commit *)
(* longer than the rechecks last ("fail_twice" in common/enums.py).        *)
RecoversFromTwoFailures ==
  \A o \in Orders : Behavior[o] = "fail_twice" /\ MaxRetries >= 2 =>
    /\ [](orders[o].status # "FAILED")
    /\ orders[o].status = "PENDING" ~>
         \/ orders[o].payment_id > 0
         \/ \E m \in dead["payment"] : m.event = Created(o) /\ m.notready = NotReadyMax
=============================================================================
