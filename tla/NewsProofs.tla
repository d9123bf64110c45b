----------------------------- MODULE NewsProofs -----------------------------
(***************************************************************************)
(* What the workers and the customer act upon is true, for any set of      *)
(* orders and instances, any settings and any number of faults of every    *)
(* kind.  The argument is the outbox: an event that reports work can only  *)
(* be seen once the transaction that did the work has stored it            *)
(* (BackedInv), the row of an order agrees with what its outbox says       *)
(* (ProgressInv), and what a worker has read of it stays good enough until *)
(* it commits (SeenInv).                                                   *)
(***************************************************************************)
EXTENDS PipelineProofs

Assigned(o) == [order |-> o, type |-> "order.driver.assigned"]

(* The events that report work of the chain, and where they come from.     *)
Reports == {"order.paid", "order.confirmed", "order.driver.assigned"}

InOutbox(e) == \E r \in processed_events : e \in r.outgoing

(* An event that can be seen has its cause committed, if it reports work.  *)
Backed(e) == e \in Event /\ e.type \in Reports => InOutbox(e)

QueuesBacked(q) == \A w \in Workers : \A m \in BagToSet(q[w]) : Backed(m.event)

BackedInv ==
  /\ QueuesBacked(queue)
  /\ QueuesBacked(retry)
  /\ \A i \in Instances : pc[i] # "idle" => Backed(EventOf(i))
  /\ \A i \in Instances : \A e \in rest[i] : Backed(e)
  /\ \A e \in notifications : Backed(e)

(* A ledger row stores at most the one event its worker emits.             *)
LedgerInv ==
  \A r \in processed_events : \A e \in r.outgoing :
    r.worker \in Chain /\ e = [order |-> r.event.order, type |-> Emits[r.worker]]

(* What the row of an order, its request and its outbox say of each other. *)
ProgressOK(o) ==
  /\ InOutbox(Paid(o)) => orders[o].payment_id > 0
  /\ InOutbox(Confirmed(o)) =>
       /\ orders[o].payment_id > 0
       /\ orders[o].status \in {"CONFIRMED", "DRIVER_ASSIGNED", "FAILED"}
  /\ InOutbox(Assigned(o)) => orders[o].driver_id > 0
  /\ orders[o].status \in {"PAID", "CONFIRMED", "DRIVER_ASSIGNED"} => orders[o].payment_id > 0
  /\ orders[o].payment_id > 0 => orders[o].status \notin {"none", "PENDING"}
  /\ api[o] \in {"new", "inserted", "published"} => orders[o].status = "none"

ProgressInv == NoGhostWork /\ \A o \in Orders : ProgressOK(o)

(* What an instance has read of the order it is about to write.            *)
Reading(i) == pc[i] \in {"working", "hookPublish", "hookCommit"}

SeenOK(i) ==
  /\ Reading(i) /\ seen[i] # "none" => orders[EventOf(i).order].status # "none"
  /\ At(i, "working") =>
       /\ Role[i] = "payment"    => seen[i] # "none"
       /\ Role[i] = "restaurant" => seen[i] \notin {"none", "PENDING"}
       /\ Role[i] = "delivery"   => seen[i] \notin {"none", "PENDING", "PAID"}

SeenInv == \A i \in Instances : SeenOK(i)

(* Only the payment worker has an on_permanent_failure of its own.         *)
HookInv ==
  \A i \in Instances :
    pc[i] \in {"hook", "hookPublish", "hookCommit"} => Role[i] = "payment"

(* With a single payment worker, whoever is going to change the status of  *)
(* an order changes the status that it has read.                           *)
FreshOK(i) ==
  Reading(i) /\ Proceeds(Role[i], seen[i]) => orders[EventOf(i).order].status = seen[i]

FreshInv ==
  SinglePayment =>
    /\ \A i \in Instances : FreshOK(i)
    /\ \A o \in Orders : orders[o].status = "FAILED" => orders[o].payment_id = 0

(* What is in the outbox stays there.                                      *)
LEMMA BackedStays ==
  ASSUME [Next]_vars, NEW e, Backed(e) PROVE Backed(e)'
<1>1. processed_events \subseteq processed_events'
  BY DbFlow DEF Durable, dbVars
<1> QED
  BY <1>1 DEF Backed, InOutbox

----------------------------------------------------------------------------
(* The outbox.  Routing and requeueing show no event that is not backed.   *)
LEMMA BackedByKey ==
  ASSUME BrokerTypeOK, QueuesBacked(queue), NEW key, NEW m, Backed(m.event)
  PROVE  QueuesBacked(Routed(key, m))
BY BagAddSet DEF QueuesBacked, Routed, BrokerTypeOK

(* The events an instance has still to publish are in the outbox.          *)
LEMMA RestFlow ==
  ASSUME TypeInv, NEW i \in Instances, InstanceStep(i) \/ InstanceFault(i)
  PROVE  \A e \in rest'[i] : e \in rest[i] \/ InOutbox(e)'
<1> USE DEF TypeInv, WorkersOK, InstancesTypeOK
<1>1. CASE Insert(i)
  BY <1>1 DEF Insert, Stored, Rows, InOutbox, dbVars
<1>2. CASE Commit(i)
  <2> DEFINE outgoing == Outgoing(Role[i], seen[i], EventOf(i))
             r == [event |-> EventOf(i), worker |-> Role[i], outgoing |-> outgoing]
  <2>1. rest'[i] = outgoing
    BY <1>2 DEF Commit
  <2>2. r \in processed_events' /\ r.outgoing = outgoing
    BY <1>2 DEF Commit, Durable
  <2> HIDE DEF outgoing, r
  <2> QED
    BY <2>1, <2>2 DEF InOutbox
<1>3. CASE Get(i) \/ Read(i) \/ PaymentFails(i) \/ PublishNext(i) \/ SendRetry(i)
  BY <1>3 DEF Get, Read, PaymentFails, FailWith, Forget, PublishNext, SendRetry
<1>4. CASE HookRead(i) \/ HookPublish(i) \/ HookCommit(i)
  BY <1>4 DEF HookRead, HookPublish, HookCommit, Forget
<1>5. CASE Ack(i) \/ Nack(i) \/ Requeue(i) \/ Crash(i) \/ ChannelDrops(i)
  BY <1>5 DEF Ack, Nack, Requeue, Crash, ChannelDrops, Idle, Forget
<1>6. CASE GuardFails(i) \/ ProcessFails(i) \/ CommitFails(i) \/ HookDbFails(i)
  BY <1>6 DEF GuardFails, ProcessFails, FailWith, CommitFails, HookDbFails, Forget
<1>7. CASE PublishFails(i) \/ SendRetryFails(i) \/ HookPublishFails(i)
  BY <1>7 DEF PublishFails, SendRetryFails, HookPublishFails, Forget
<1> QED
  BY <1>1, <1>2, <1>3, <1>4, <1>5, <1>6, <1>7 DEF InstanceStep, InstanceFault

(* An instance shows no event that is not backed.                          *)
LEMMA InstanceBacked ==
  ASSUME TypeInv, BackedInv, NEW i \in Instances, InstanceStep(i) \/ InstanceFault(i), Next
  PROVE  BackedInv'
<1>1. Role[i] \in Workers /\ BrokerTypeOK
  BY RoleAssumption DEF TypeInv, WorkersOK
<1>2. \A e : Backed(e) => Backed(e)'
  BY BackedStays
<1>3. QueuesBacked(queue')
  <2>1. CASE Takes(i)
    BY <1>1, <2>1, BagRemoveSet DEF BackedInv, QueuesBacked, Takes, BrokerTypeOK
  <2>2. ASSUME NEW e \in Event, e \in rest[i] \/ e.type = "order.payment.failed",
               queue' = Published(e)
        PROVE  QueuesBacked(queue')
    <3>1. Backed(e) /\ NewMessage(e).event = e
      BY <2>2 DEF BackedInv, Backed, Reports, NewMessage
    <3> QED
      BY <1>1, <2>2, <3>1, BackedByKey DEF BackedInv, Published
  <2>3. CASE pc[i] # "idle" /\ queue' = Requeued(Role[i], held[i])
    BY <1>1, <2>3, BagAddSet DEF BackedInv, QueuesBacked, Requeued, BrokerTypeOK, EventOf
  <2> QED
    BY <2>1, <2>2, <2>3, MessageFlow DEF BackedInv
<1>4. QueuesBacked(retry')
  <2>1. CASE pc[i] \in {"retrying", "rechecking"} /\ retry' = Delayed(i)
    <3>1. RetryCopy(i).event = EventOf(i)
      BY <2>1 DEF RetryCopy, EventOf, TypeInv, WorkersOK, HeldOK, Message
    <3>2. Backed(RetryCopy(i).event)
      BY <2>1, <3>1 DEF BackedInv
    <3> QED
      BY <1>1, <2>1, <3>2, BagAddSet DEF BackedInv, QueuesBacked, Delayed, BrokerTypeOK
  <2> QED
    BY <2>1, MessageFlow DEF BackedInv
<1>5. ASSUME NEW j \in Instances, pc'[j] # "idle" PROVE Backed(held'[j].event)
  <2>1. CASE j # i
    BY <1>5, <2>1, StepIsLocal DEF OthersStay, BackedInv, EventOf
  <2>2. CASE j = i /\ Takes(i)
    BY <1>1, <2>2 DEF BackedInv, QueuesBacked, Takes, TypeInv, WorkersOK, InstancesTypeOK
  <2>3. CASE j = i /\ pc[i] # "idle" /\ held'[i] = held[i]
    BY <2>3 DEF BackedInv, EventOf
  <2> QED
    BY <1>5, <2>1, <2>2, <2>3, MessageFlow
<1>6. ASSUME NEW j \in Instances, NEW e \in rest'[j] PROVE Backed(e)'
  BY <1>2, <1>6, RestFlow, StepIsLocal DEF OthersStay, BackedInv, Backed
<1>7. ASSUME NEW e \in notifications' PROVE Backed(e)'
  BY <1>2, <1>7, InstanceDb DEF BackedInv, Durable, At, dbVars
<1> QED
  BY <1>2, <1>3, <1>4, <1>5, <1>6, <1>7 DEF BackedInv, QueuesBacked, EventOf

(* So does no step of the system.                                          *)
LEMMA BackedStep == TypeInv /\ BackedInv /\ [Next]_vars => BackedInv'
<1> SUFFICES ASSUME TypeInv, BackedInv, [Next]_vars PROVE BackedInv'
  OBVIOUS
<1>1. (\A e : Backed(e) => Backed(e)') /\ BrokerTypeOK
  BY BackedStays DEF TypeInv, WorkersOK
<1>2. ASSUME NEW i \in Instances, InstanceStep(i) \/ InstanceFault(i), Next PROVE BackedInv'
  BY <1>2, InstanceBacked
<1>3. ASSUME QueuesBacked(queue'), QueuesBacked(retry'), UNCHANGED <<instanceVars, notifications>>
      PROVE  BackedInv'
  BY <1>1, <1>3 DEF BackedInv, QueuesBacked, EventOf, instanceVars
<1>4. ASSUME NEW o \in Orders, RequestStep(o) \/ RequestFault(o) PROVE BackedInv'
  <2>1. Backed(Created(o)) /\ NewMessage(Created(o)).event = Created(o)
    BY DEF Backed, Reports, Created, NewMessage
  <2>2. QueuesBacked(Published(Created(o)))
    BY <1>1, <2>1, BackedByKey DEF BackedInv, Published
  <2>3. queue' \in MaybePublished(Created(o)) /\ retry' = retry
        /\ UNCHANGED <<instanceVars, notifications>>
    BY <1>4 DEF RequestStep, RequestFault, ApiInsert, ApiPublish, ApiCommit, ApiPublishFails,
                ApiCommitFails, MaybePublished, brokerVars, dbVars
  <2> QED
    BY <1>3, <2>2, <2>3 DEF MaybePublished, BackedInv
<1>5. ASSUME NEW w \in Workers, BrokerStep(w) PROVE BackedInv'
  <2>1. PICK m \in BagToSet(retry[w]) :
          /\ retry' = [retry EXCEPT ![w] = BagRemove(@, m)]
          /\ queue' = Routed(RetryRoutingKey[w], m)
    BY <1>5 DEF BrokerStep, Expire
  <2>2. QueuesBacked(queue')
    BY <1>1, <2>1, BackedByKey DEF BackedInv, QueuesBacked
  <2>3. QueuesBacked(retry')
    BY <1>1, <2>1, BagRemoveSet DEF BackedInv, QueuesBacked, BrokerTypeOK
  <2> QED
    BY <1>3, <1>5, <2>2, <2>3 DEF BrokerStep, dbVars
<1>6. ASSUME NEW w \in Workers, PoisonFault(w) PROVE BackedInv'
  <2>1. Backed(NewMessage(Poison).event)
    BY SentinelAssumption DEF Backed, NewMessage
  <2>2. QueuesBacked(queue')
    BY <1>1, <1>6, <2>1, BagAddSet
       DEF BackedInv, QueuesBacked, PoisonFault, InjectPoison, Requeued, BrokerTypeOK
  <2> QED
    BY <1>3, <1>6, <2>2 DEF BackedInv, PoisonFault, InjectPoison, dbVars
<1>7. CASE UNCHANGED vars
  BY <1>3, <1>7 DEF BackedInv, vars, instanceVars
<1> QED
  BY <1>2, <1>4, <1>5, <1>6, <1>7 DEF Next, Fault

(* Nobody ever sees a report of work that is not in the outbox.            *)
LEMMA BackedInvariant == Safety => []BackedInv
<1>1. Init => BackedInv
  BY DEF Init, BrokerInit, DbInit, InstancesInit, BackedInv, QueuesBacked, EmptyBag,
         SetToBag, BagToSet
<1> QED
  BY <1>1, TypeInvariant, BackedStep, PTL DEF Safety

----------------------------------------------------------------------------
(* The ledger.  What a committed transaction adds to the outbox.           *)
LEMMA DurableOutbox ==
  ASSUME TypeInv, NEW i \in Instances, pc[i] \notin {"idle", "nacking"}, Durable(i)
  PROVE  /\ LedgerInv => LedgerInv'
         /\ \A r \in processed_events' \ processed_events :
              /\ r.worker = Role[i] /\ r.event = EventOf(i)
              /\ r.outgoing = Outgoing(Role[i], seen[i], EventOf(i))
         /\ \A e : InOutbox(e)' => InOutbox(e) \/ e \in Outgoing(Role[i], seen[i], EventOf(i))
<1> DEFINE outgoing == Outgoing(Role[i], seen[i], EventOf(i))
           row == [event |-> EventOf(i), worker |-> Role[i], outgoing |-> outgoing]
<1>1. processed_events' = processed_events \cup {row}
  BY DEF Durable
<1>2. row.worker = Role[i] /\ row.event = EventOf(i) /\ row.outgoing = outgoing
  OBVIOUS
<1>3. \A e \in outgoing :
        Role[i] \in Chain /\ e = [order |-> EventOf(i).order, type |-> Emits[Role[i]]]
  BY DEF Outgoing, Proceeds
<1> HIDE DEF outgoing, row
<1>4. LedgerInv => LedgerInv'
  BY <1>1, <1>2, <1>3 DEF LedgerInv
<1>5. \A e : InOutbox(e)' => InOutbox(e) \/ e \in outgoing
  BY <1>1, <1>2 DEF InOutbox
<1> QED
  BY <1>1, <1>2, <1>4, <1>5 DEF outgoing

(* Rows of the ledger are never changed.                                   *)
LEMMA LedgerStep == TypeInv /\ LedgerInv /\ [Next]_vars => LedgerInv'
<1> SUFFICES ASSUME TypeInv, LedgerInv, [Next]_vars PROVE LedgerInv'
  OBVIOUS
<1>1. CASE processed_events' = processed_events
  BY <1>1 DEF LedgerInv
<1>2. ASSUME NEW i \in Instances, At(i, "working"), Durable(i) PROVE LedgerInv'
  BY <1>2, DurableOutbox DEF At
<1> QED
  BY <1>1, <1>2, DbFlow DEF dbVars

(* A report in the outbox comes from the worker that emits it, and its     *)
(* order has a row.                                                        *)
LEMMA OutboxOrigin ==
  ASSUME LedgerInv, NoGhostWork, NEW e, InOutbox(e)
  PROVE  orders[e.order].status # "none"
BY DEF LedgerInv, NoGhostWork, InOutbox

----------------------------------------------------------------------------
(* What an instance has read.  A row, once committed, stays.               *)
LEMMA RowStays ==
  ASSUME TypeInv, [Next]_vars, NEW o \in Orders, orders[o].status # "none"
  PROVE  orders'[o].status # "none"
<1> USE DEF TypeInv, WorkersOK, DbTypeOK
<1>1. ASSUME NEW i \in Instances, At(i, "working"), Durable(i)
      PROVE  orders'[o].status # "none"
  BY <1>1 DEF Durable, Proceeds, Chain, Advanced, NextStatus
<1>2. ASSUME NEW i \in Instances, orders' = HookDurable(i)
      PROVE  orders'[o].status # "none"
  BY <1>2 DEF HookDurable, OrderRow
<1>3. ASSUME NEW p \in Orders, orders' = Placed(p) PROVE orders'[o].status # "none"
  BY <1>3 DEF Placed, NewOrder, NoOrder
<1> QED
  BY <1>1, <1>2, <1>3, DbFlow DEF dbVars

(* An instance about to write has just read, or has read before and not    *)
(* written since.                                                          *)
LEMMA SeenFlow ==
  ASSUME TypeInv, NEW i \in Instances, InstanceStep(i) \/ InstanceFault(i), Reading(i)'
  PROVE  /\ UNCHANGED dbVars
         /\ held'[i] = held[i]
         /\ \/ Reading(i) /\ seen'[i] = seen[i] /\ (At(i, "working")' => At(i, "working"))
            \/ /\ pc[i] \in {"guarded", "hook"}
               /\ At(i, "working")' =>
                    pc[i] = "guarded" /\ ~NotReady(Role[i], orders[EventOf(i).order].status)
               /\ \/ seen'[i] = orders[EventOf(i).order].status
                  \/ seen'[i] = "none" /\ Role[i] = "notification"
<1> USE DEF TypeInv, WorkersOK, InstancesTypeOK, Reading, At, Goto
<1>1. CASE Read(i)
  <2>1. ~NotReady(Role[i], orders[EventOf(i).order].status)
    BY <1>1, AfterFailureLabel DEF Read, FailWith, HeldOK
  <2> QED
    BY <1>1, <2>1, AfterFailureLabel DEF Read, FailWith, HeldOK
<1>2. CASE HookRead(i) \/ HookPublish(i) \/ ChannelDrops(i)
  BY <1>2 DEF HookRead, HookPublish, ChannelDrops
<1>3. CASE Get(i) \/ Insert(i) \/ Commit(i) \/ PublishNext(i) \/ SendRetry(i) \/ HookCommit(i)
  BY <1>3 DEF Get, Insert, Commit, PublishNext, SendRetry, HookCommit
<1>4. CASE Ack(i) \/ Nack(i) \/ Requeue(i) \/ Crash(i)
  BY <1>4 DEF Ack, Nack, Requeue, Crash, Idle
<1>5. CASE PaymentFails(i) \/ ProcessFails(i) \/ PublishFails(i)
  <2>1. held[i] \in Message
    BY <1>5 DEF HeldOK, PaymentFails, ProcessFails, PublishFails
  <2>2. \A exc :
          AfterFailure(Role[i], held[i], exc) \notin {"working", "hookPublish", "hookCommit"}
    BY <2>1, AfterFailureLabel
  <2>3. pc'[i] \notin {"working", "hookPublish", "hookCommit"}
    BY <1>5, <2>2 DEF PaymentFails, ProcessFails, PublishFails, FailWith
  <2> QED
    BY <2>3
<1>6. CASE \/ GuardFails(i) \/ CommitFails(i) \/ HookDbFails(i)
           \/ SendRetryFails(i) \/ HookPublishFails(i)
  BY <1>6 DEF GuardFails, CommitFails, HookDbFails, SendRetryFails, HookPublishFails
<1> QED
  BY <1>1, <1>2, <1>3, <1>4, <1>5, <1>6 DEF InstanceStep, InstanceFault

(* A worker that goes to work on an order has read a status that matches   *)
(* the event that called it.                                               *)
LEMMA ReadEnough ==
  ASSUME TypeInv, RoutingInv, BackedInv, ProgressInv, NEW i \in Instances, pc[i] = "guarded",
         ~NotReady(Role[i], orders[EventOf(i).order].status)
  PROVE  LET status == orders[EventOf(i).order].status
         IN  /\ Role[i] = "payment"    => status # "none"
             /\ Role[i] = "restaurant" => status \notin {"none", "PENDING"}
             /\ Role[i] = "delivery"   => status \notin {"none", "PENDING", "PAID"}
<1>1. EventOf(i).order \in Orders /\ Backed(EventOf(i)) /\ EventOf(i) \in Event
  BY WorkedEvent DEF BackedInv, TypeInv, WorkersOK, HeldOK, EventOf
<1> DEFINE o == EventOf(i).order
<1>2. ProgressOK(o)
  BY <1>1 DEF ProgressInv
<1>3. CASE Role[i] = "restaurant"
  <2>1. EventOf(i) = Paid(o)
    BY <1>3, WorkedEvent
  <2>2. InOutbox(Paid(o))
    BY <1>1, <2>1 DEF Backed, Paid, Reports
  <2> QED
    BY <1>2, <1>3, <2>2 DEF ProgressOK
<1>4. CASE Role[i] = "delivery"
  <2>1. EventOf(i) = Confirmed(o)
    BY <1>4, WorkedEvent
  <2>2. InOutbox(Confirmed(o))
    BY <1>1, <2>1 DEF Backed, Confirmed, Reports
  <2> QED
    BY <1>2, <1>4, <2>2 DEF ProgressOK
<1> QED
  BY <1>3, <1>4 DEF NotReady

(* What instances have read stays good enough.                             *)
LEMMA SeenStep ==
  TypeInv /\ RoutingInv /\ BackedInv /\ ProgressInv /\ SeenInv /\ [Next]_vars => SeenInv'
<1> SUFFICES ASSUME TypeInv, RoutingInv, BackedInv, ProgressInv, SeenInv, [Next]_vars
             PROVE  SeenInv'
  OBVIOUS
<1>1. ASSUME NEW j \in Instances, UNCHANGED <<pc[j], held[j], seen[j]>> PROVE SeenOK(j)'
  <2>1. CASE Reading(j)
    <3>1. EventOf(j).order \in Orders
      BY <2>1 DEF Reading, TypeInv, WorkersOK, HeldOK, EventOf, Event
    <3> QED
      BY <1>1, <2>1, <3>1, RowStays DEF SeenInv, SeenOK, Reading, At, EventOf
  <2>2. CASE ~Reading(j)
    BY <1>1, <2>2 DEF SeenOK, Reading, At
  <2> QED
    BY <2>1, <2>2
<1>2. ASSUME NEW i \in Instances, InstanceStep(i) \/ InstanceFault(i) PROVE SeenInv'
  <2>1. ASSUME NEW j \in Instances \ {i} PROVE SeenOK(j)'
    BY <1>1, <1>2, StepIsLocal DEF OthersStay
  <2>2. ASSUME Reading(i)' PROVE SeenOK(i)'
    <3>1. CASE Reading(i) /\ seen'[i] = seen[i] /\ (At(i, "working")' => At(i, "working"))
      BY <1>2, <2>2, <3>1, SeenFlow DEF SeenInv, SeenOK, EventOf, dbVars
    <3>2. CASE /\ pc[i] \in {"guarded", "hook"}
               /\ At(i, "working")' =>
                    pc[i] = "guarded" /\ ~NotReady(Role[i], orders[EventOf(i).order].status)
               /\ \/ seen'[i] = orders[EventOf(i).order].status
                  \/ seen'[i] = "none" /\ Role[i] = "notification"
      <4>1. orders' = orders /\ held' [i] = held[i]
        BY <1>2, <2>2, SeenFlow DEF dbVars
      <4> QED
        BY <3>2, <4>1, ReadEnough DEF SeenOK, EventOf
    <3> QED
      BY <1>2, <2>2, <3>1, <3>2, SeenFlow
  <2>3. ASSUME ~Reading(i)' PROVE SeenOK(i)'
    BY <2>3 DEF SeenOK, Reading, At
  <2> QED
    BY <2>1, <2>2, <2>3 DEF SeenInv
<1>3. CASE UNCHANGED instanceVars
  BY <1>1, <1>3 DEF SeenInv, instanceVars
<1> QED
  BY <1>2, <1>3 DEF Next, Fault, RequestStep, RequestFault, BrokerStep, PoisonFault, vars,
                    instanceVars

----------------------------------------------------------------------------
(* The row of an order.  An order whose row and outbox a step leaves alone *)
(* is where it was.                                                        *)
LEMMA ProgressStays ==
  ASSUME NEW o \in Orders, ProgressOK(o), orders'[o] = orders[o],
         \A e : e.order = o => (InOutbox(e)' => InOutbox(e)),
         api'[o] \in {"new", "inserted", "published"} =>
           api[o] \in {"new", "inserted", "published"}
  PROVE  ProgressOK(o)'
BY DEF ProgressOK, Paid, Confirmed, Assigned

(* An instance's transaction moves the order on.                           *)
LEMMA WorkProgress ==
  ASSUME TypeInv, RoutingInv, GuardInv, EffectsInv, BackedInv, ProgressInv, SeenInv,
         NEW i \in Instances, At(i, "working"), Durable(i), UNCHANGED api, [Next]_vars
  PROVE  ProgressInv'
<1>1. PICK w \in Workers, e \in Event, o \in Orders :
        w = Role[i] /\ e = EventOf(i) /\ o = e.order /\ Backed(e)
  BY RoleAssumption, WorkedEvent DEF TypeInv, WorkersOK, HeldOK, EventOf, At, BackedInv
<1>2. /\ w = "payment"    => e = Created(o) /\ ~Processed("payment", Created(o))
      /\ w = "restaurant" => InOutbox(Paid(o))
      /\ w = "delivery"   => InOutbox(Confirmed(o))
  BY <1>1, WorkedEvent DEF At, Backed, Paid, Confirmed, Reports, GuardInv, AtWork
<1>3. NoGhostWork'
  <2> SUFFICES ASSUME NEW r \in processed_events', r.worker \in Chain
               PROVE  orders'[r.event.order].status # "none"
    BY DEF NoGhostWork
  <2>1. CASE r \in processed_events
    BY <2>1, RowStays DEF ProgressInv, NoGhostWork, TypeInv, WorkersOK, DbTypeOK, LedgerRow, Event
  <2>2. CASE r \notin processed_events
    <3>1. r.worker = w /\ r.event = e
      BY <1>1, <2>2, DurableOutbox DEF At
    <3>2. orders[o].status # "none"
      BY <1>1, <3>1 DEF SeenInv, SeenOK, Reading, At, Chain
    <3> QED
      BY <1>1, <3>1, <3>2, RowStays
  <2> QED
    BY <2>1, <2>2
<1>4. \A p \in Orders : ProgressOK(p)
  BY DEF ProgressInv
<1>5. CASE ~Proceeds(w, seen[i])
  <2>1. orders' = orders /\ \A x : InOutbox(x)' => InOutbox(x)
    BY <1>1, <1>5, DurableOutbox DEF Durable, Outgoing, At
  <2> QED
    BY <1>3, <1>4, <2>1, ProgressStays DEF ProgressInv
<1>6. CASE Proceeds(w, seen[i])
  <2>1. w \in Chain /\ orders' = [orders EXCEPT ![o] = Advanced(w, @)]
    BY <1>1, <1>6 DEF Proceeds, Durable
  <2>2. \A x : InOutbox(x)' => InOutbox(x) \/ x = [order |-> o, type |-> Emits[w]]
    BY <1>1, <1>6, DurableOutbox DEF Outgoing, At
  <2>3. ASSUME NEW p \in Orders, p # o PROVE ProgressOK(p)'
    <3>1. orders'[p] = orders[p]
      BY <2>1, <2>3 DEF TypeInv, WorkersOK, DbTypeOK
    <3>2. \A x : x.order = p => (InOutbox(x)' => InOutbox(x))
      BY <2>2, <2>3
    <3> QED
      BY <1>4, <3>1, <3>2, ProgressStays
  <2>4. /\ orders'[o] = Advanced(w, orders[o])
        /\ orders[o].payment_id \in Nat /\ orders[o].driver_id \in Nat
    BY <1>1, <2>1 DEF TypeInv, WorkersOK, DbTypeOK, OrderRow
  <2>5. api'[o] \notin {"new", "inserted", "published"}
    <3>1. orders[o].status # "none"
      BY <1>1, <2>1 DEF SeenInv, SeenOK, Reading, At, Chain
    <3> QED
      BY <1>1, <1>4, <3>1 DEF ProgressOK
  <2>6. ASSUME w = "payment" PROVE ProgressOK(o)'
    <3>1. orders[o].payment_id = 0
      BY <1>1, <1>2, <2>6 DEF EffectsInv
    <3>2. ~InOutbox(Confirmed(o)) /\ ~InOutbox(Confirmed(o))'
      BY <1>1, <1>4, <2>2, <2>6, <3>1 DEF ProgressOK, Confirmed, Emits
    <3>3. orders'[o] = [status |-> "PAID", payment_id |-> 1, driver_id |-> orders[o].driver_id]
      BY <2>4, <2>6, <3>1 DEF Advanced, NextStatus
    <3>4. InOutbox(Assigned(o))' => InOutbox(Assigned(o))
      BY <2>2, <2>6 DEF Assigned, Emits
    <3> QED
      BY <1>1, <1>4, <2>5, <3>2, <3>3, <3>4 DEF ProgressOK
  <2>7. ASSUME w = "restaurant" PROVE ProgressOK(o)'
    <3>1. orders[o].payment_id > 0
      BY <1>1, <1>2, <1>4, <2>7 DEF ProgressOK
    <3>2. /\ orders'[o].status = "CONFIRMED" /\ orders'[o].payment_id = orders[o].payment_id
          /\ orders'[o].driver_id = orders[o].driver_id
      BY <2>4, <2>7 DEF Advanced, NextStatus
    <3>3. InOutbox(Assigned(o))' => InOutbox(Assigned(o))
      BY <2>2, <2>7 DEF Assigned, Emits
    <3> QED
      BY <1>1, <1>4, <2>5, <3>1, <3>2, <3>3 DEF ProgressOK
  <2>8. ASSUME w = "delivery" PROVE ProgressOK(o)'
    <3>1. orders[o].payment_id > 0
      BY <1>1, <1>2, <1>4, <2>8 DEF ProgressOK
    <3>2. /\ orders'[o].status = "DRIVER_ASSIGNED"
          /\ orders'[o].payment_id = orders[o].payment_id
          /\ orders'[o].driver_id > 0
      BY <2>4, <2>8 DEF Advanced, NextStatus
    <3> QED
      BY <2>5, <3>1, <3>2 DEF ProgressOK
  <2> QED
    BY <1>3, <2>1, <2>3, <2>6, <2>7, <2>8 DEF ProgressInv, Chain
<1> QED
  BY <1>5, <1>6

(* So does the hook, which only fails an order that has a row.             *)
LEMMA HookProgress ==
  ASSUME TypeInv, ProgressInv, SeenInv, NEW i \in Instances, At(i, "hookCommit"),
         orders' = HookDurable(i), UNCHANGED <<processed_events, api>>
  PROVE  ProgressInv'
<1>1. (\A p \in Orders : ProgressOK(p)) /\ (\A x : InOutbox(x)' => InOutbox(x))
  BY DEF ProgressInv, InOutbox
<1>2. CASE orders' = orders
  BY <1>1, <1>2, ProgressStays DEF ProgressInv, NoGhostWork
<1>3. CASE seen[i] = "PENDING"
  <2>1. PICK o \in Orders : o = EventOf(i).order /\ orders[o].status # "none"
    BY <1>3 DEF SeenInv, SeenOK, Reading, At, TypeInv, WorkersOK, HeldOK, EventOf, Event
  <2>2. orders' = [orders EXCEPT ![o].status = "FAILED"]
    BY <1>3, <2>1 DEF HookDurable
  <2>3. /\ orders'[o].status = "FAILED" /\ orders'[o].payment_id = orders[o].payment_id
        /\ orders'[o].driver_id = orders[o].driver_id
    BY <2>1, <2>2 DEF TypeInv, WorkersOK, DbTypeOK, OrderRow
  <2>4. ASSUME NEW p \in Orders, p # o PROVE orders'[p] = orders[p]
    BY <2>2, <2>4 DEF TypeInv, WorkersOK, DbTypeOK
  <2>5. ProgressOK(o)'
    BY <1>1, <2>1, <2>3 DEF ProgressOK
  <2>6. \A p \in Orders : ProgressOK(p)'
    BY <1>1, <2>4, <2>5, ProgressStays
  <2>7. NoGhostWork'
    BY <2>1, <2>3, <2>4
       DEF ProgressInv, NoGhostWork, TypeInv, WorkersOK, DbTypeOK, LedgerRow, Event
  <2> QED
    BY <2>6, <2>7 DEF ProgressInv
<1> QED
  BY <1>2, <1>3 DEF HookDurable

(* A request places an order that nobody has worked for.                   *)
LEMMA RequestProgress ==
  ASSUME TypeInv, LedgerInv, ProgressInv, NEW o \in Orders, RequestStep(o) \/ RequestFault(o)
  PROVE  ProgressInv'
<1>1. /\ \A p \in Orders : ProgressOK(p)
      /\ \A x : InOutbox(x)' => InOutbox(x)
      /\ processed_events' = processed_events
  BY DEF ProgressInv, InOutbox, RequestStep, RequestFault, ApiInsert, ApiPublish, ApiCommit,
         ApiPublishFails, ApiCommitFails, dbVars
<1>2. \A p \in Orders : api'[p] \in {"new", "inserted", "published"} =>
                          api[p] \in {"new", "inserted", "published"}
  BY DEF RequestStep, RequestFault, ApiInsert, ApiPublish, ApiCommit, ApiPublishFails,
         ApiCommitFails, TypeInv, WorkersOK, ApiTypeOK
<1>3. CASE orders' = orders
  BY <1>1, <1>2, <1>3, ProgressStays DEF ProgressInv, NoGhostWork
<1>4. CASE api[o] = "published" /\ orders' = Placed(o) /\ api'[o] \in {"accepted", "rejected"}
  <2>1. orders[o].status = "none"
    BY <1>1, <1>4 DEF ProgressOK
  <2>2. /\ orders'[o].status = "PENDING" /\ orders'[o].payment_id = 0
        /\ \A p \in Orders \ {o} : orders'[p] = orders[p]
    BY <1>4 DEF Placed, NewOrder, NoOrder, TypeInv, WorkersOK, DbTypeOK
  <2>3. \A x : x.order = o => ~InOutbox(x)'
    BY <1>1, <2>1, OutboxOrigin DEF ProgressInv
  <2>4. ProgressOK(o)'
    <3>1. ~InOutbox(Paid(o))' /\ ~InOutbox(Confirmed(o))' /\ ~InOutbox(Assigned(o))'
      BY <2>3 DEF Paid, Confirmed, Assigned
    <3> QED
      BY <1>4, <2>2, <3>1 DEF ProgressOK
  <2>5. \A p \in Orders : ProgressOK(p)'
    BY <1>1, <1>2, <2>2, <2>4, ProgressStays
  <2>6. NoGhostWork'
    BY <1>1, <2>2 DEF ProgressInv, NoGhostWork, TypeInv, WorkersOK, DbTypeOK, LedgerRow, Event
  <2> QED
    BY <2>5, <2>6 DEF ProgressInv
<1> QED
  BY <1>3, <1>4 DEF RequestStep, RequestFault, ApiInsert, ApiPublish, ApiCommit,
     ApiPublishFails, ApiCommitFails, dbVars, TypeInv, WorkersOK, ApiTypeOK

(* So the row of an order and its outbox always agree.                     *)
LEMMA ProgressStep ==
  TypeInv /\ RoutingInv /\ GuardInv /\ EffectsInv /\ BackedInv /\ LedgerInv /\ ProgressInv
  /\ SeenInv /\ [Next]_vars => ProgressInv'
<1> SUFFICES ASSUME TypeInv, RoutingInv, GuardInv, EffectsInv, BackedInv, LedgerInv,
                    ProgressInv, SeenInv, [Next]_vars
             PROVE  ProgressInv'
  OBVIOUS
<1>1. CASE UNCHANGED <<dbVars, api>>
  BY <1>1, ProgressStays DEF ProgressInv, NoGhostWork, InOutbox, dbVars
<1>2. ASSUME NEW i \in Instances, InstanceStep(i) \/ InstanceFault(i) PROVE ProgressInv'
  <2>1. UNCHANGED api
    BY <1>2 DEF InstanceStep, InstanceFault
  <2> QED
    BY <1>1, <1>2, <2>1, InstanceDb, WorkProgress, HookProgress
<1>3. ASSUME NEW o \in Orders, RequestStep(o) \/ RequestFault(o) PROVE ProgressInv'
  BY <1>3, RequestProgress
<1>4. ASSUME NEW w \in Workers, BrokerStep(w) \/ PoisonFault(w) PROVE ProgressInv'
  BY <1>1, <1>4 DEF BrokerStep, PoisonFault
<1>5. CASE UNCHANGED vars
  BY <1>1, <1>5 DEF vars, dbVars
<1> QED
  BY <1>2, <1>3, <1>4, <1>5 DEF Next, Fault

(* Initially there are no orders and no work.                              *)
LEMMA NewsInit == Init => LedgerInv /\ ProgressInv /\ SeenInv
BY DEF Init, DbInit, NoOrder, InstancesInit, ApiInit, LedgerInv, ProgressInv, NoGhostWork,
       ProgressOK, InOutbox, SeenInv, SeenOK, Reading, At

(* Rows, outbox and what instances have read always agree.                 *)
LEMMA NewsInvariant == Safety => [](LedgerInv /\ ProgressInv /\ SeenInv)
<1>1. /\ TypeInv /\ RoutingInv /\ GuardInv /\ EffectsInv /\ BackedInv
      /\ LedgerInv /\ ProgressInv /\ SeenInv
      /\ [Next]_vars
      => LedgerInv' /\ ProgressInv' /\ SeenInv'
  BY LedgerStep, ProgressStep, SeenStep
<1> QED
  BY <1>1, NewsInit, TypeInvariant, RoutingInvariant, GuardInvariant, EffectsInvariant,
     BackedInvariant, PTL DEF Safety

(* No worker of the chain counts the event of an order as processed before *)
(* the order has a row, though order.created goes out before its commit.   *)
THEOREM NoWorkWithoutOrder == Safety => []NoGhostWork
BY NewsInvariant, PTL DEF ProgressInv

(* The restaurant and the driver only ever work for a charged order, and   *)
(* the driver for a confirmed one, whatever is redelivered or republished. *)
THEOREM OnlyPaidWork == Safety => []NoUnpaidWork
<1>1. ProgressInv /\ SeenInv => NoUnpaidWork
  BY DEF ProgressInv, ProgressOK, SeenInv, SeenOK, NoUnpaidWork
<1> QED
  BY <1>1, NewsInvariant, PTL

----------------------------------------------------------------------------
(* The hook.  Only the payment worker ever gets there.                     *)
LEMMA HookStep == TypeInv /\ HookInv /\ [Next]_vars => HookInv'
<1> SUFFICES ASSUME TypeInv, HookInv, [Next]_vars PROVE HookInv'
  OBVIOUS
<1>1. ASSUME NEW i \in Instances, InstanceStep(i) \/ InstanceFault(i),
             pc'[i] \in {"hook", "hookPublish", "hookCommit"}
      PROVE  Role[i] = "payment"
  <2> USE DEF TypeInv, WorkersOK, InstancesTypeOK, At, Goto
  <2>1. CASE pc[i] \in {"hook", "hookPublish", "hookCommit"}
    BY <2>1 DEF HookInv
  <2>2. CASE Read(i) \/ PaymentFails(i) \/ ProcessFails(i) \/ PublishFails(i)
    <3>1. held[i] \in Message
      BY <2>2 DEF HeldOK, Read, PaymentFails, ProcessFails, PublishFails
    <3>2. \A exc : AfterFailure(Role[i], held[i], exc) \in {"hook", "hookPublish", "hookCommit"}
                     => Role[i] = "payment"
      BY <3>1, AfterFailureLabel
    <3>3. \/ pc'[i] \in {"acking", "working", "requeueing"}
          \/ \E exc : pc'[i] = AfterFailure(Role[i], held[i], exc)
      <4>1. CASE Read(i)
        BY <4>1 DEF Read, FailWith
      <4>2. CASE PaymentFails(i) \/ ProcessFails(i)
        BY <4>2 DEF PaymentFails, ProcessFails, FailWith
      <4>3. CASE PublishFails(i)
        BY <4>3 DEF PublishFails
      <4> QED
        BY <2>2, <4>1, <4>2, <4>3
    <3> QED
      BY <1>1, <3>2, <3>3
  <2>3. CASE Get(i) \/ Insert(i) \/ Commit(i) \/ PublishNext(i) \/ SendRetry(i)
    BY <1>1, <2>3 DEF Get, Insert, Commit, PublishNext, SendRetry
  <2>4. CASE Ack(i) \/ Nack(i) \/ Requeue(i) \/ Crash(i) \/ ChannelDrops(i)
    BY <1>1, <2>1, <2>4 DEF Ack, Nack, Requeue, Crash, Idle, ChannelDrops
  <2>5. CASE GuardFails(i) \/ CommitFails(i) \/ SendRetryFails(i)
    BY <1>1, <2>5 DEF GuardFails, CommitFails, SendRetryFails
  <2>6. CASE \/ HookRead(i) \/ HookPublish(i) \/ HookCommit(i)
             \/ HookDbFails(i) \/ HookPublishFails(i)
    BY <2>1, <2>6 DEF HookRead, HookPublish, HookCommit, HookDbFails, HookPublishFails
  <2> QED
    BY <1>1, <2>2, <2>3, <2>4, <2>5, <2>6 DEF InstanceStep, InstanceFault
<1>2. ASSUME NEW i \in Instances, InstanceStep(i) \/ InstanceFault(i) PROVE HookInv'
  BY <1>1, <1>2, StepIsLocal DEF OthersStay, HookInv
<1>3. CASE UNCHANGED pc
  BY <1>3 DEF HookInv
<1> QED
  BY <1>2, <1>3 DEF Next, Fault, RequestStep, RequestFault, BrokerStep, PoisonFault, vars,
                    instanceVars

(* With one payment worker nobody changes a status under the hands of      *)
(* another: the status tells which worker is to move, and of that worker   *)
(* the guard admits one instance.                                          *)
LEMMA FreshAlone ==
  ASSUME TypeInv, RoutingInv, GuardInv, HookInv, SinglePayment,
         NEW i \in Instances, FreshOK(i), Reading(i), Proceeds(Role[i], seen[i]),
         NEW j \in Instances, FreshOK(j), Reading(j), Proceeds(Role[j], seen[j]),
         EventOf(i).order = EventOf(j).order
  PROVE  i = j
<1>1. Role[i] = Role[j] /\ Role[i] \in Chain
  BY DEF FreshOK, Proceeds, Expected, Chain
<1>2. CASE Role[i] = "payment"
  BY <1>1, <1>2 DEF SinglePayment
<1>3. CASE Role[i] \in {"restaurant", "delivery"}
  <2>1. AtWork(i) /\ AtWork(j)
    BY <1>1, <1>3 DEF Reading, HookInv, AtWork
  <2>2. EventOf(i) = EventOf(j)
    BY <1>1, <1>3, <2>1, WorkedEvent DEF AtWork
  <2> QED
    BY <1>1, <2>1, <2>2 DEF GuardInv
<1> QED
  BY <1>1, <1>2, <1>3 DEF Chain

(* What a step of an instance does to a status: the row it was to change   *)
(* moves on from the status that the instance has read.                    *)
LEMMA StatusFlow ==
  ASSUME TypeInv, RoutingInv, HookInv, FreshInv, SinglePayment,
         NEW i \in Instances, InstanceStep(i) \/ InstanceFault(i)
  PROVE  \/ orders' = orders
         \/ \E o \in Orders :
              /\ o = EventOf(i).order /\ Reading(i) /\ Proceeds(Role[i], seen[i])
              /\ orders[o].status = Expected[Role[i]]
              /\ \/ orders' = [orders EXCEPT ![o] = Advanced(Role[i], @)]
                 \/ orders' = [orders EXCEPT ![o].status = "FAILED"] /\ Role[i] = "payment"
<1>1. CASE At(i, "working") /\ Durable(i)
  <2>1. EventOf(i).order \in Orders
    BY <1>1, WorkedEvent DEF At
  <2> QED
    BY <1>1, <2>1 DEF Durable, Proceeds, FreshInv, FreshOK, Reading, At
<1>2. CASE At(i, "hookCommit") /\ orders' = HookDurable(i)
  <2>1. EventOf(i).order \in Orders /\ Role[i] = "payment"
    BY <1>2, WorkedEvent DEF At, HookInv
  <2>2. seen[i] = "PENDING" => Proceeds(Role[i], seen[i]) /\ Expected[Role[i]] = seen[i]
    BY <2>1 DEF Proceeds, Chain, Expected
  <2> QED
    BY <1>2, <2>1, <2>2 DEF HookDurable, FreshInv, FreshOK, Reading, At
<1> QED
  BY <1>1, <1>2, InstanceDb DEF dbVars

(* So an instance keeps what the others have read fresh, and an order that *)
(* it fails was not charged.                                               *)
LEMMA FreshInstance ==
  ASSUME TypeInv, RoutingInv, GuardInv, ProgressInv, HookInv, FreshInv, SinglePayment,
         NEW i \in Instances, InstanceStep(i) \/ InstanceFault(i)
  PROVE  FreshInv'
<1>1. FreshOK(i)'
  <2> SUFFICES ASSUME Reading(i)', Proceeds(Role[i], seen'[i])
               PROVE  orders'[EventOf(i).order].status = seen'[i] /\ held'[i] = held[i]
    BY DEF FreshOK, EventOf
  <2>1. orders' = orders /\ held'[i] = held[i]
    BY SeenFlow DEF dbVars
  <2>2. seen'[i] # "none"
    BY DEF Proceeds, Chain, Expected
  <2>3. \/ seen'[i] = seen[i] /\ Reading(i)
        \/ seen'[i] = orders[EventOf(i).order].status
    BY <2>2, SeenFlow
  <2> QED
    BY <2>1, <2>3 DEF FreshInv, FreshOK
<1>2. ASSUME NEW j \in Instances \ {i} PROVE FreshOK(j)'
  <2> SUFFICES ASSUME Reading(j), Proceeds(Role[j], seen[j])
               PROVE  orders'[EventOf(j).order].status = seen[j]
    BY StepIsLocal DEF OthersStay, FreshOK, Reading, EventOf
  <2>1. PICK o \in Orders : o = EventOf(j).order /\ orders[o].status = seen[j]
    BY DEF FreshInv, FreshOK, Reading, TypeInv, WorkersOK, HeldOK, EventOf, Event
  <2>2. orders'[o] = orders[o]
    <3> SUFFICES ASSUME orders'[o] # orders[o] PROVE FALSE
      OBVIOUS
    <3>1. o = EventOf(i).order /\ Reading(i) /\ Proceeds(Role[i], seen[i])
      BY StatusFlow DEF TypeInv, WorkersOK, DbTypeOK
    <3> QED
      BY <1>2, <2>1, <3>1, FreshAlone DEF FreshInv
  <2> QED
    BY <2>1, <2>2
<1>3. ASSUME NEW o \in Orders, orders'[o].status = "FAILED" PROVE orders'[o].payment_id = 0
  <2>1. CASE orders'[o] = orders[o]
    BY <1>3, <2>1 DEF FreshInv
  <2>2. CASE orders'[o] # orders[o]
    <3>1. /\ orders[o].status = "PENDING" /\ orders'[o].payment_id = orders[o].payment_id
          /\ orders[o].payment_id \in Nat
      <4>1. /\ Role[i] \in Chain /\ orders[o].status = Expected[Role[i]]
            /\ \/ orders' = [orders EXCEPT ![o] = Advanced(Role[i], @)]
               \/ orders' = [orders EXCEPT ![o].status = "FAILED"] /\ Role[i] = "payment"
        BY <2>2, StatusFlow DEF TypeInv, WorkersOK, DbTypeOK, Proceeds
      <4>2. orders' # [orders EXCEPT ![o] = Advanced(Role[i], @)]
        BY <1>3, <4>1 DEF TypeInv, WorkersOK, DbTypeOK, Advanced, NextStatus, Chain
      <4> QED
        BY <4>1, <4>2 DEF TypeInv, WorkersOK, DbTypeOK, OrderRow, Expected
    <3> QED
      BY <3>1 DEF ProgressInv, ProgressOK
  <2> QED
    BY <2>1, <2>2
<1> QED
  BY <1>1, <1>2, <1>3 DEF FreshInv

(* Nor does any other step.                                                *)
LEMMA FreshStep ==
  TypeInv /\ RoutingInv /\ GuardInv /\ ProgressInv /\ HookInv /\ FreshInv /\ [Next]_vars
  => FreshInv'
<1> SUFFICES ASSUME TypeInv, RoutingInv, GuardInv, ProgressInv, HookInv, FreshInv,
                    [Next]_vars, SinglePayment
             PROVE  FreshInv'
  BY DEF FreshInv
<1>1. ASSUME NEW i \in Instances, InstanceStep(i) \/ InstanceFault(i) PROVE FreshInv'
  BY <1>1, FreshInstance
<1>2. CASE UNCHANGED <<instanceVars, orders>>
  BY <1>2 DEF FreshInv, FreshOK, Reading, EventOf, instanceVars
<1>3. ASSUME NEW o \in Orders, api[o] = "published", orders' = Placed(o),
             UNCHANGED instanceVars
      PROVE  FreshInv'
  <2>1. orders[o].status = "none"
    BY <1>3 DEF ProgressInv, ProgressOK
  <2>2. \A p \in Orders : orders'[p] = IF p = o THEN NewOrder ELSE orders[p]
    BY <1>3 DEF Placed, TypeInv, WorkersOK, DbTypeOK
  <2>3. NewOrder.status = "PENDING"
    BY DEF NewOrder, NoOrder
  <2>4. ASSUME NEW i \in Instances PROVE FreshOK(i)'
    <3>1. Reading(i) => EventOf(i).order \in Orders
      BY DEF Reading, TypeInv, WorkersOK, HeldOK, EventOf, Event
    <3>2. Proceeds(Role[i], seen[i]) => seen[i] # "none"
      BY DEF Proceeds, Chain, Expected
    <3> QED
      BY <1>3, <2>1, <2>2, <3>1, <3>2 DEF FreshInv, FreshOK, Reading, EventOf, instanceVars
  <2>5. \A p \in Orders : orders'[p].status = "FAILED" => orders'[p].payment_id = 0
    BY <2>2, <2>3 DEF FreshInv
  <2> QED
    BY <2>4, <2>5 DEF FreshInv
<1>4. ASSUME NEW o \in Orders, RequestStep(o) \/ RequestFault(o) PROVE FreshInv'
  BY <1>2, <1>3, <1>4 DEF RequestStep, RequestFault, ApiInsert, ApiPublish, ApiCommit,
                          ApiPublishFails, ApiCommitFails, dbVars
<1>5. ASSUME NEW w \in Workers, BrokerStep(w) \/ PoisonFault(w) PROVE FreshInv'
  BY <1>2, <1>5 DEF BrokerStep, PoisonFault, dbVars
<1>6. CASE UNCHANGED vars
  BY <1>2, <1>6 DEF vars, instanceVars
<1> QED
  BY <1>1, <1>4, <1>5, <1>6 DEF Next, Fault

(* One payment worker never works with a stale status.                     *)
LEMMA FreshInvariant == Safety => [](HookInv /\ FreshInv)
<1>1. Init => HookInv /\ FreshInv
  BY DEF Init, InstancesInit, DbInit, NoOrder, HookInv, FreshInv, FreshOK, Reading
<1> QED
  BY <1>1, TypeInvariant, RoutingInvariant, GuardInvariant, NewsInvariant, HookStep, FreshStep,
     PTL DEF Safety

(* With one instance of the payment worker, as docker-compose.yml starts,  *)
(* the customer is only told what is true: whatever number of the other    *)
(* workers run, and whatever is retried or republished.                    *)
THEOREM OnlyTrueNews == SinglePayment => (Safety => []NewsIsTrue)
<1> SUFFICES ASSUME SinglePayment PROVE Safety => []NewsIsTrue
  OBVIOUS
<1>1. TypeInv /\ BackedInv /\ ProgressInv /\ FreshInv => NewsIsTrue
  <2> SUFFICES ASSUME TypeInv, BackedInv, ProgressInv, FreshInv, NEW e \in notifications
               PROVE  Achieved(e.order, e.type)
    BY DEF NewsIsTrue
  <2>1. /\ e \in Event /\ Backed(e)
        /\ ProgressOK(e.order)
        /\ orders[e.order].status = "FAILED" => orders[e.order].payment_id = 0
    BY DEF TypeInv, WorkersOK, DbTypeOK, BackedInv, ProgressInv, FreshInv, Event
  <2>2. /\ e.type = "order.paid" => e = Paid(e.order)
        /\ e.type = "order.confirmed" => e = Confirmed(e.order)
        /\ e.type = "order.driver.assigned" => e = Assigned(e.order)
    BY <2>1 DEF Event, Paid, Confirmed, Assigned
  <2> QED
    BY <2>1, <2>2 DEF Backed, Reports, ProgressOK, Achieved
<1> QED
  BY <1>1, TypeInvariant, BackedInvariant, NewsInvariant, FreshInvariant, PTL

----------------------------------------------------------------------------
(* The refinement.  The status column that OrderLifecycle speaks of.       *)
Column == [o \in Orders |-> orders[o].status]

(* Changing one row along the lifecycle is a step of OrderLifecycle.       *)
LEMMA AdvanceStep ==
  ASSUME TypeInv, NEW o \in Orders, NEW row, orders' = [orders EXCEPT ![o] = row],
         <<orders[o].status, row.status>> \in Lifecycle!Lifecycle
  PROVE  Lifecycle!Next
<1> DEFINE s == <<orders[o].status, row.status>>
<1>1. Column[o] = s[1] /\ Column' = [Column EXCEPT ![o] = s[2]]
  BY DEF Column, TypeInv, WorkersOK, DbTypeOK
<1> HIDE DEF s
<1> QED
  BY <1>1 DEF Column, Lifecycle!Next, Lifecycle!Advance, s

(* With one payment worker every step of the system moves at most one      *)
(* order, along its lifecycle.                                             *)
LEMMA LifecycleStep ==
  TypeInv /\ RoutingInv /\ ProgressInv /\ HookInv /\ FreshInv /\ SinglePayment /\ [Next]_vars
  => Lifecycle!Next \/ UNCHANGED Column
<1> SUFFICES ASSUME TypeInv, RoutingInv, ProgressInv, HookInv, FreshInv, SinglePayment,
                    [Next]_vars
             PROVE  Lifecycle!Next \/ UNCHANGED Column
  OBVIOUS
<1>1. CASE UNCHANGED orders
  BY <1>1 DEF Column
<1>2. ASSUME NEW i \in Instances, InstanceStep(i) \/ InstanceFault(i), orders' # orders
      PROVE  Lifecycle!Next
  <2>1. PICK o \in Orders :
          /\ Role[i] \in Chain /\ orders[o].status = Expected[Role[i]]
          /\ \/ orders' = [orders EXCEPT ![o] = Advanced(Role[i], @)]
             \/ orders' = [orders EXCEPT ![o].status = "FAILED"] /\ Role[i] = "payment"
    BY <1>2, StatusFlow DEF Proceeds
  <2>2. PICK row : /\ orders' = [orders EXCEPT ![o] = row]
                   /\ \/ row.status = NextStatus[Role[i]]
                      \/ row.status = "FAILED" /\ Role[i] = "payment"
    <3>1. CASE orders' = [orders EXCEPT ![o] = Advanced(Role[i], @)]
      <4> DEFINE advanced == Advanced(Role[i], orders[o])
      <4>1. advanced.status = NextStatus[Role[i]]
        BY DEF Advanced
      <4>2. orders' = [orders EXCEPT ![o] = advanced]
        BY <3>1
      <4> HIDE DEF advanced
      <4> QED
        BY <4>1, <4>2
    <3>2. CASE orders' = [orders EXCEPT ![o].status = "FAILED"] /\ Role[i] = "payment"
      <4> DEFINE failed == [orders[o] EXCEPT !.status = "FAILED"]
      <4>1. failed.status = "FAILED"
        BY DEF TypeInv, WorkersOK, DbTypeOK, OrderRow
      <4>2. orders' = [orders EXCEPT ![o] = failed]
        BY <3>2
      <4> HIDE DEF failed
      <4> QED
        BY <3>2, <4>1, <4>2
    <3> QED
      BY <2>1, <3>1, <3>2
  <2>3. <<orders[o].status, row.status>> \in Lifecycle!Lifecycle
    BY <2>1, <2>2 DEF Lifecycle!Lifecycle, Expected, NextStatus, Chain
  <2> QED
    BY <2>2, <2>3, AdvanceStep
<1>3. ASSUME NEW o \in Orders, api[o] = "published", orders' = Placed(o) PROVE Lifecycle!Next
  <2>1. orders[o].status = "none"
    BY <1>3 DEF ProgressInv, ProgressOK
  <2>2. NewOrder.status = "PENDING"
    BY DEF NewOrder, NoOrder
  <2>3. <<orders[o].status, NewOrder.status>> \in Lifecycle!Lifecycle
    BY <2>1, <2>2 DEF Lifecycle!Lifecycle
  <2> QED
    BY <1>3, <2>3, AdvanceStep DEF Placed
<1>4. ASSUME NEW o \in Orders, RequestStep(o) \/ RequestFault(o)
      PROVE  Lifecycle!Next \/ UNCHANGED Column
  BY <1>1, <1>3, <1>4 DEF RequestStep, RequestFault, ApiInsert, ApiPublish, ApiCommit,
                          ApiPublishFails, ApiCommitFails, dbVars
<1>5. ASSUME NEW w \in Workers, BrokerStep(w) \/ PoisonFault(w) PROVE UNCHANGED orders
  BY <1>5 DEF BrokerStep, PoisonFault, dbVars
<1>6. CASE UNCHANGED vars
  BY <1>1, <1>6 DEF vars
<1> QED
  BY <1>1, <1>2, <1>4, <1>5, <1>6 DEF Next, Fault

(* With one instance of the payment worker, and any number of the others,  *)
(* the system implements OrderLifecycle: no retry, redelivery, crash or    *)
(* republished event ever takes a status back or past a stage.             *)
THEOREM LifecycleRefined == SinglePayment => (Safety => LifecycleKept)
<1> SUFFICES ASSUME SinglePayment PROVE Safety => LifecycleKept
  OBVIOUS
<1>1. Init => Lifecycle!Init
  BY DEF Init, DbInit, NoOrder, Lifecycle!Init
<1>2. TypeInv /\ RoutingInv /\ ProgressInv /\ HookInv /\ FreshInv /\ [Next]_vars
      => [Lifecycle!Next]_Column
  BY LifecycleStep
<1> QED
  BY <1>1, <1>2, TypeInvariant, RoutingInvariant, NewsInvariant, FreshInvariant, PTL
     DEF Safety, LifecycleKept, Lifecycle!Spec, Column

=============================================================================
