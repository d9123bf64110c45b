----------------------------- MODULE DropProofs -----------------------------
(***************************************************************************)
(* Nothing is dropped, for any set of orders and instances, any settings   *)
(* and any number of faults of every kind.  A worker lets go of a message  *)
(* only by an ack after which the event is processed and all its outgoing  *)
(* events are published (Released); every other way out of its hands leads *)
(* to a queue or to the dead letters (HeldFlow).  The invariant adds what  *)
(* those who are about to ack, to publish or to commit may rely on.        *)
(***************************************************************************)
EXTENDS NewsProofs

(* Nothing that worker w should do about event e is lost.                  *)
Kept(w, e) == Processed(w, e) \/ Held(w, e)

Publishing(i) == pc[i] \in {"publishing", "republishing"}

(* A notification is stored together with its ledger row.                  *)
NotifiedInv == \A e \in notifications : Processed("notification", e)

(* Somebody, if not the instance itself, still answers for what it holds.  *)
HandsKept == \A i \in Instances : pc[i] # "idle" => Kept(Role[i], EventOf(i))

(* An instance that publishes has its work committed, and what is no       *)
(* longer to be published has been published.                              *)
PublishedOK(i) ==
  Publishing(i) =>
    /\ Processed(Role[i], EventOf(i))
    /\ \A e \in Stored(Role[i], EventOf(i)) \ rest[i] : Reached(e)

PublishedInv == \A i \in Instances : PublishedOK(i)

(* The API and the hook publish before they commit.                        *)
AheadInv ==
  /\ \A o \in Orders : api[o] = "published" => Reached(Created(o))
  /\ \A i \in Instances : At(i, "hookCommit") => Reached(FailedEvent(i))

(* Removing a message from a bag leaves all the others.                    *)
LEMMA BagRemoveKeeps ==
  ASSUME NEW b, NEW x, NEW y \in BagToSet(b), y # x
  PROVE  y \in BagToSet(BagRemove(b, x))
BY DEF BagRemove, BagToSet

(* What is routed or requeued is waiting, and nothing else is disturbed.   *)
LEMMA RoutedWaits ==
  ASSUME BrokerTypeOK, NEW key, NEW m, queue' = Routed(key, m)
  PROVE  /\ \A w \in Workers : BagToSet(queue[w]) \subseteq BagToSet(queue'[w])
         /\ \A w \in Consumers(key) : m \in BagToSet(queue'[w])
<1>1. Consumers(key) \subseteq Workers
  BY DEF Consumers
<1> QED
  BY <1>1, BagAddSet DEF Routed

(* So is a message that is requeued.                                       *)
LEMMA RequeuedWaits ==
  ASSUME BrokerTypeOK, NEW v \in Workers, NEW m, queue' = Requeued(v, m)
  PROVE  /\ \A w \in Workers : BagToSet(queue[w]) \subseteq BagToSet(queue'[w])
         /\ m \in BagToSet(queue'[v])
BY BagAddSet DEF Requeued, BrokerTypeOK

(* So is the copy that is sent to the retry queue.                         *)
LEMMA DelayedWaits ==
  ASSUME BrokerTypeOK, NEW i \in Instances, retry' = Delayed(i)
  PROVE  /\ \A w \in Workers : BagToSet(retry[w]) \subseteq BagToSet(retry'[w])
         /\ RetryCopy(i) \in BagToSet(retry'[Role[i]])
BY BagAddSet, RoleAssumption DEF Delayed, BrokerTypeOK

(* An event that is published reaches everyone who should see it.          *)
LEMMA PublishedReaches ==
  ASSUME BrokerTypeOK, NEW e, queue' = Published(e)
  PROVE  Reached(e)'
<1>1. \A w \in Consumers(e.type) : NewMessage(e) \in BagToSet(queue'[w])
  BY RoutedWaits DEF Published
<1>2. NewMessage(e).event = e
  BY DEF NewMessage
<1> QED
  BY <1>1, <1>2 DEF Reached, Held, Waiting, Consumers, Bindings

(* What an instance gives up is the message in its hands.                  *)
LEMMA DeadGrows ==
  ASSUME TypeInv, NEW i \in Instances, InstanceStep(i) \/ InstanceFault(i)
  PROVE  dead' = dead \/ (pc[i] # "idle" /\ dead' = [dead EXCEPT ![Role[i]] = @ \cup {held[i]}])
<1> USE DEF brokerVars, At
<1>1. CASE Get(i) \/ Insert(i) \/ Read(i) \/ PaymentFails(i) \/ Commit(i) \/ PublishNext(i)
  BY <1>1 DEF Get, Insert, Read, PaymentFails, FailWith, Commit, PublishNext
<1>2. CASE SendRetry(i) \/ HookRead(i) \/ HookPublish(i) \/ HookCommit(i) \/ Ack(i)
  BY <1>2 DEF SendRetry, HookRead, HookPublish, HookCommit, Ack
<1>3. CASE Nack(i)
  BY <1>3 DEF Nack
<1>4. CASE Requeue(i) \/ Crash(i) \/ ChannelDrops(i) \/ GuardFails(i) \/ ProcessFails(i)
  BY <1>4 DEF Requeue, Crash, ChannelDrops, GuardFails, ProcessFails, FailWith
<1>5. CASE CommitFails(i) \/ HookDbFails(i) \/ PublishFails(i) \/ SendRetryFails(i)
           \/ HookPublishFails(i)
  BY <1>5 DEF CommitFails, HookDbFails, PublishFails, SendRetryFails, HookPublishFails
<1> QED
  BY <1>1, <1>2, <1>3, <1>4, <1>5 DEF InstanceStep, InstanceFault

(* The dead letters are never touched again.                               *)
LEMMA DeadFlow ==
  ASSUME TypeInv, NEW i \in Instances, InstanceStep(i) \/ InstanceFault(i)
  PROVE  \A w \in Workers : dead[w] \subseteq dead'[w]
BY DeadGrows DEF TypeInv, WorkersOK, BrokerTypeOK

----------------------------------------------------------------------------
(* The ways in which an instance acks a message that was still in its      *)
(* hands: it is a duplicate with nothing stored, its notification exists,  *)
(* its work had no outgoing event, or the last of them is published.       *)
Released(i) ==
  \/ /\ At(i, "received")
     /\ Processed(Role[i], EventOf(i)) /\ Stored(Role[i], EventOf(i)) = {}
     /\ UNCHANGED dbVars
  \/ At(i, "guarded") /\ AlreadyNotified(i) /\ UNCHANGED dbVars
  \/ At(i, "working") /\ Durable(i) /\ Outgoing(Role[i], seen[i], EventOf(i)) = {}
  \/ /\ Publishing(i) /\ UNCHANGED dbVars
     /\ \E e \in rest[i] : rest[i] = {e} /\ queue' = Published(e)

(* A message leaves the hands of an instance for a queue or for the dead   *)
(* letters, or because it is released.                                     *)
LEMMA HandFlow ==
  ASSUME TypeInv, NEW i \in Instances, InstanceStep(i) \/ InstanceFault(i),
         pc[i] \notin {"idle", "acking"}, delivered[i]
  PROVE  \/ /\ pc'[i] \notin {"idle", "acking"}
            /\ held'[i] = held[i] /\ delivered'[i]
         \/ held[i] \in BagToSet(queue'[Role[i]])
         \/ RetryCopy(i) \in BagToSet(retry'[Role[i]]) /\ RetryCopy(i).event = EventOf(i)
         \/ held[i] \in dead'[Role[i]]
         \/ Released(i)
<1> USE DEF TypeInv, WorkersOK, InstancesTypeOK, At, Goto
<1>1. Role[i] \in Workers /\ held[i] \in Message
  BY RoleAssumption DEF HeldOK
<1>2. CASE Get(i) \/ Ack(i)
  BY <1>2 DEF Get, Ack
<1>3. CASE Insert(i)
  BY <1>3 DEF Insert, Released
<1>4. CASE Read(i) \/ PaymentFails(i) \/ ProcessFails(i) \/ PublishFails(i)
  <2>1. \A exc : AfterFailure(Role[i], held[i], exc) \notin {"idle", "acking"}
    BY <1>1, AfterFailureLabel
  <2>2. CASE Read(i)
    BY <2>1, <2>2 DEF Read, FailWith, Released
  <2>3. CASE PaymentFails(i) \/ ProcessFails(i)
    <3>1. /\ \E exc : pc'[i] = AfterFailure(Role[i], held[i], exc)
          /\ held'[i] = held[i] /\ delivered'[i]
      BY <2>3 DEF PaymentFails, ProcessFails, FailWith
    <3> QED
      BY <2>1, <3>1
  <2>4. CASE PublishFails(i)
    BY <2>1, <2>4 DEF PublishFails
  <2> QED
    BY <1>4, <2>2, <2>3, <2>4
<1>5. CASE Commit(i)
  BY <1>5 DEF Commit, MayCommit, Released
<1>6. CASE PublishNext(i)
  BY <1>6 DEF PublishNext, Released, Publishing
<1>7. CASE SendRetry(i)
  <2>1. RetryCopy(i).event = EventOf(i)
    BY <1>1 DEF RetryCopy, EventOf, Message
  <2> QED
    BY <1>7, <2>1, DelayedWaits DEF SendRetry
<1>8. CASE HookRead(i) \/ HookPublish(i) \/ HookCommit(i)
  BY <1>8 DEF HookRead, HookPublish, HookCommit
<1>9. CASE Nack(i)
  BY <1>1, <1>9 DEF Nack, BrokerTypeOK
<1>10. CASE Requeue(i) \/ Crash(i) \/ ChannelDrops(i)
  BY <1>1, <1>10, RequeuedWaits DEF Requeue, Crash, ChannelDrops
<1>11. CASE \/ GuardFails(i) \/ CommitFails(i) \/ HookDbFails(i)
            \/ SendRetryFails(i) \/ HookPublishFails(i)
  BY <1>11 DEF GuardFails, CommitFails, HookDbFails, SendRetryFails, HookPublishFails
<1> QED
  BY <1>2, <1>3, <1>4, <1>5, <1>6, <1>7, <1>8, <1>9, <1>10, <1>11
     DEF InstanceStep, InstanceFault

(* All that an idle instance can do is take a message.                     *)
LEMMA IdleGets ==
  ASSUME NEW i \in Instances, InstanceStep(i) \/ InstanceFault(i), pc[i] = "idle"
  PROVE  Get(i)
BY DEF InstanceStep, InstanceFault, Insert, Read, PaymentFails, Commit, MayCommit,
       PublishNext, SendRetry, HookRead, HookPublish, HookCommit, Ack, Nack, Requeue, Crash,
       ChannelDrops, GuardFails, ProcessFails, CommitFails, HookDbFails, PublishFails,
       SendRetryFails, HookPublishFails, At

(* With the message it takes an instance has it in its hands.              *)
LEMMA TakeFlow ==
  ASSUME TypeInv, NEW i \in Instances, InstanceStep(i) \/ InstanceFault(i), pc[i] = "idle"
  PROVE  /\ pc'[i] \in {"received", "nacking"} /\ delivered'[i]
         /\ Takes(i)
BY IdleGets DEF Get, Goto, Takes, TypeInv, WorkersOK, InstancesTypeOK

(* A message that worker w holds somewhere stays somewhere, unless it is   *)
(* released by an instance of w.                                           *)
LEMMA HeldFlow ==
  ASSUME TypeInv, NEW i \in Instances, InstanceStep(i) \/ InstanceFault(i),
         NEW w \in Workers, NEW e, Held(w, e)
  PROVE  Held(w, e)' \/ (Role[i] = w /\ EventOf(i) = e /\ Released(i))
<1>1. BrokerTypeOK /\ Role[i] \in Workers
  BY RoleAssumption DEF TypeInv, WorkersOK
<1>2. CASE DeadLettered(w, e)
  BY <1>2, DeadFlow DEF Held, DeadLettered
<1>3. CASE Waiting(w, e)
  <2>1. PICK m \in BagToSet(queue[w]) \cup BagToSet(retry[w]) : m.event = e
    BY <1>3 DEF Waiting
  <2>2. m \in BagToSet(retry[w]) => m \in BagToSet(retry'[w])
    BY <1>1, DelayedWaits, MessageFlow
  <2>3. CASE m \in BagToSet(queue[w]) /\ pc[i] # "idle"
    <3>1. m \in BagToSet(queue'[w])
      BY <1>1, <2>3, RoutedWaits, RequeuedWaits, MessageFlow DEF Published
    <3> QED
      BY <2>1, <3>1 DEF Held, Waiting
  <2>4. CASE m \in BagToSet(queue[w]) /\ pc[i] = "idle"
    <3>1. PICK n \in BagToSet(queue[Role[i]]) :
            /\ queue' = [queue EXCEPT ![Role[i]] = BagRemove(@, n)]
            /\ held' = [held EXCEPT ![i] = n]
      BY <2>4, TakeFlow DEF Takes
    <3>2. CASE n = m /\ Role[i] = w
      <4>1. held'[i] = m /\ pc'[i] \notin {"idle", "acking"} /\ delivered'[i]
        BY <2>4, <3>1, <3>2, TakeFlow DEF TypeInv, WorkersOK, InstancesTypeOK
      <4> QED
        BY <2>1, <3>2, <4>1 DEF Held, InHand
    <3>3. CASE ~(n = m /\ Role[i] = w)
      <4>1. m \in BagToSet(queue'[w])
        BY <1>1, <2>4, <3>1, <3>3, BagRemoveKeeps DEF BrokerTypeOK
      <4> QED
        BY <2>1, <4>1 DEF Held, Waiting
    <3> QED
      BY <3>2, <3>3
  <2> QED
    BY <2>1, <2>2, <2>3, <2>4 DEF Held, Waiting
<1>4. CASE InHand(w, e)
  <2>1. PICK j \in Instances : /\ Role[j] = w /\ delivered[j]
                               /\ pc[j] \notin {"idle", "acking"} /\ held[j].event = e
    BY <1>4 DEF InHand
  <2>2. CASE j # i
    BY <2>1, <2>2, StepIsLocal DEF OthersStay, Held, InHand
  <2>3. CASE j = i
    BY <2>1, <2>3, HandFlow DEF Held, InHand, Waiting, DeadLettered, EventOf
  <2> QED
    BY <2>2, <2>3
<1> QED
  BY <1>2, <1>3, <1>4 DEF Held

(* What is released is processed.                                          *)
LEMMA ReleasedProcessed ==
  ASSUME NotifiedInv, PublishedInv, NEW i \in Instances, Released(i),
         NEW w, NEW e, Role[i] = w, EventOf(i) = e
  PROVE  Processed(w, e)'
<1>1. CASE UNCHANGED dbVars /\ ~Durable(i)
  <2>1. Processed(w, e)
    BY <1>1 DEF Released, AlreadyNotified, NotifiedInv, PublishedInv, PublishedOK
  <2> QED
    BY <1>1, <2>1 DEF Processed, Rows, dbVars
<1>2. CASE Durable(i)
  BY <1>2, LedgerWritten
<1> QED
  BY <1>1, <1>2 DEF Released

(* A step that takes nothing away from the broker and does not move an     *)
(* instance leaves everything held where it is.                            *)
LEMMA HeldStays ==
  ASSUME UNCHANGED <<pc, held, delivered>>, NEW w, NEW e, Held(w, e),
         BagToSet(queue[w]) \cup BagToSet(retry[w]) \subseteq
           BagToSet(queue'[w]) \cup BagToSet(retry'[w]),
         dead[w] \subseteq dead'[w]
  PROVE  Held(w, e)'
BY DEF Held, Waiting, InHand, DeadLettered

(* The broker moves an expired message into the work queue it came from.   *)
LEMMA ExpireKeeps ==
  ASSUME BrokerTypeOK, NEW v \in Workers, Expire(v), NEW w \in Workers
  PROVE  BagToSet(queue[w]) \cup BagToSet(retry[w]) \subseteq
           BagToSet(queue'[w]) \cup BagToSet(retry'[w])
<1>1. PICK m \in BagToSet(retry[v]) :
        /\ retry' = [retry EXCEPT ![v] = BagRemove(@, m)]
        /\ queue' = Routed(RetryRoutingKey[v], m)
  BY DEF Expire
<1>2. v \in Consumers(RetryRoutingKey[v])
  BY DEF Consumers, RetryRoutingKey, Bindings, EventTypes, Workers
<1>3. BagToSet(queue[w]) \subseteq BagToSet(queue'[w]) /\ m \in BagToSet(queue'[v])
  BY <1>1, <1>2, RoutedWaits
<1>4. ASSUME NEW x \in BagToSet(retry[w]), ~(w = v /\ x = m) PROVE x \in BagToSet(retry'[w])
  BY <1>1, <1>4, BagRemoveKeeps DEF BrokerTypeOK
<1> QED
  BY <1>3, <1>4

(* A step that is not one of an instance.                                  *)
Outside ==
  \/ \E o \in Orders : RequestStep(o) \/ RequestFault(o)
  \/ \E v \in Workers : BrokerStep(v) \/ PoisonFault(v)
  \/ UNCHANGED vars

(* Such a step takes nothing away.                                         *)
LEMMA OutsideKeeps ==
  ASSUME TypeInv, Outside, NEW w \in Workers, NEW e, Held(w, e)
  PROVE  Held(w, e)'
<1>1. BrokerTypeOK
  BY DEF TypeInv, WorkersOK
<1>2. ASSUME NEW o \in Orders, RequestStep(o) \/ RequestFault(o) PROVE Held(w, e)'
  <2>1. /\ queue' \in MaybePublished(Created(o)) /\ retry' = retry /\ dead' = dead
        /\ UNCHANGED instanceVars
    BY <1>2 DEF RequestStep, RequestFault, ApiInsert, ApiPublish, ApiCommit, ApiPublishFails,
                ApiCommitFails, MaybePublished, brokerVars
  <2>2. BagToSet(queue[w]) \subseteq BagToSet(queue'[w])
    BY <1>1, <2>1, RoutedWaits DEF MaybePublished, Published
  <2> QED
    BY <2>1, <2>2, HeldStays DEF instanceVars
<1>3. ASSUME NEW v \in Workers, BrokerStep(v) PROVE Held(w, e)'
  <2>1. dead' = dead /\ UNCHANGED instanceVars /\ Expire(v)
    BY <1>3 DEF BrokerStep, Expire
  <2> QED
    BY <1>1, <2>1, ExpireKeeps, HeldStays DEF instanceVars
<1>4. ASSUME NEW v \in Workers, PoisonFault(v) PROVE Held(w, e)'
  <2>1. /\ queue' = Requeued(v, NewMessage(Poison)) /\ retry' = retry /\ dead' = dead
        /\ UNCHANGED instanceVars
    BY <1>4 DEF PoisonFault, InjectPoison
  <2> QED
    BY <1>1, <2>1, RequeuedWaits, HeldStays DEF instanceVars
<1>5. ASSUME UNCHANGED vars PROVE Held(w, e)'
  <2>1. UNCHANGED <<pc, held, delivered, queue, retry, dead>>
    BY <1>5 DEF vars
  <2> QED
    BY <2>1, HeldStays
<1> QED
  BY <1>2, <1>3, <1>4, <1>5 DEF Outside

(* No step loses an event: what has been processed stays so, and what has  *)
(* not is still held somewhere.                                            *)
LEMMA KeptStep ==
  ASSUME TypeInv, NotifiedInv, PublishedInv, [Next]_vars,
         NEW w \in Workers, NEW e, Kept(w, e)
  PROVE  Kept(w, e)'
<1>1. ASSUME Processed(w, e) PROVE Kept(w, e)'
  BY <1>1, RowsOnlyGrow DEF Kept
<1>2. ASSUME NEW i \in Instances, InstanceStep(i) \/ InstanceFault(i), Held(w, e)
      PROVE  Kept(w, e)'
  BY <1>2, HeldFlow, ReleasedProcessed DEF Kept
<1>3. ASSUME Outside, Held(w, e) PROVE Kept(w, e)'
  BY <1>3, OutsideKeeps DEF Kept
<1> QED
  BY <1>1, <1>2, <1>3 DEF Next, Fault, Kept, Outside

(* So an event that has reached everyone has done so for good.             *)
LEMMA ReachedStep ==
  ASSUME TypeInv, NotifiedInv, PublishedInv, [Next]_vars, NEW e, Reached(e)
  PROVE  Reached(e)'
<1>1. \A w \in Workers : Kept(w, e) => Kept(w, e)'
  BY KeptStep
<1> QED
  BY <1>1 DEF Reached, Kept, Consumers

----------------------------------------------------------------------------
(* A notification is never stored without its ledger row.                  *)
LEMMA NotifiedStep == TypeInv /\ NotifiedInv /\ [Next]_vars => NotifiedInv'
<1> SUFFICES ASSUME TypeInv, NotifiedInv, [Next]_vars, NEW e \in notifications'
             PROVE  Processed("notification", e)'
  BY DEF NotifiedInv
<1>1. CASE e \in notifications
  BY <1>1, RowsOnlyGrow DEF NotifiedInv
<1>2. CASE e \notin notifications
  <2>1. PICK i \in Instances : Durable(i) /\ Role[i] = "notification" /\ e = EventOf(i)
    BY <1>2, DbFlow DEF Durable, dbVars
  <2> QED
    BY <2>1, LedgerWritten
<1> QED
  BY <1>1, <1>2

(* Somebody always answers for what an instance holds.                     *)
LEMMA HandsStep ==
  TypeInv /\ NotifiedInv /\ PublishedInv /\ HandsKept /\ [Next]_vars => HandsKept'
<1> SUFFICES ASSUME TypeInv, NotifiedInv, PublishedInv, HandsKept, [Next]_vars
             PROVE  HandsKept'
  OBVIOUS
<1>1. ASSUME NEW j \in Instances, pc[j] # "idle", held'[j] = held[j]
      PROVE  Kept(Role[j], EventOf(j))'
  <2>1. PICK w, e : w \in Workers /\ w = Role[j] /\ e = EventOf(j) /\ Kept(w, e)
    BY <1>1, RoleAssumption DEF HandsKept
  <2>2. Kept(w, e)' /\ e = EventOf(j)'
    BY <1>1, <2>1, KeptStep DEF EventOf
  <2> QED
    BY <2>1, <2>2
<1>2. ASSUME NEW i \in Instances, InstanceStep(i) \/ InstanceFault(i), pc'[i] # "idle"
      PROVE  Kept(Role[i], EventOf(i))'
  <2>1. CASE pc[i] = "idle"
    BY <1>2, <2>1, TakeFlow DEF Kept, Held, InHand, EventOf
  <2>2. CASE pc[i] # "idle"
    BY <1>1, <1>2, <2>2, MessageFlow
  <2> QED
    BY <2>1, <2>2
<1>3. ASSUME NEW i \in Instances, InstanceStep(i) \/ InstanceFault(i) PROVE HandsKept'
  BY <1>1, <1>2, <1>3, StepIsLocal DEF OthersStay, HandsKept
<1>4. CASE UNCHANGED instanceVars
  BY <1>1, <1>4 DEF HandsKept, instanceVars
<1> QED
  BY <1>3, <1>4 DEF Next, Fault, RequestStep, RequestFault, BrokerStep, PoisonFault, vars,
                    instanceVars

(* What an instance that begins or goes on to publish has behind it.       *)
LEMMA PublishingFlow ==
  ASSUME TypeInv, NEW i \in Instances, InstanceStep(i) \/ InstanceFault(i), Publishing(i)'
  PROVE  /\ held'[i] = held[i]
         /\ \/ /\ At(i, "received") /\ UNCHANGED dbVars
               /\ Processed(Role[i], EventOf(i)) /\ rest'[i] = Stored(Role[i], EventOf(i))
            \/ /\ At(i, "working") /\ Durable(i)
               /\ rest'[i] = Outgoing(Role[i], seen[i], EventOf(i))
            \/ /\ Publishing(i) /\ UNCHANGED dbVars
               /\ \/ rest'[i] = rest[i]
                  \/ \E e \in rest[i] : rest'[i] = rest[i] \ {e} /\ queue' = Published(e)
<1> USE DEF TypeInv, WorkersOK, InstancesTypeOK, Publishing, At, Goto
<1>1. CASE Insert(i)
  BY <1>1 DEF Insert
<1>2. CASE Commit(i)
  BY <1>2 DEF Commit, MayCommit
<1>3. CASE PublishNext(i) \/ ChannelDrops(i)
  BY <1>3 DEF PublishNext, ChannelDrops
<1>4. CASE Read(i) \/ PaymentFails(i) \/ ProcessFails(i) \/ PublishFails(i)
  <2>1. held[i] \in Message
    BY <1>4 DEF HeldOK, Read, PaymentFails, ProcessFails, PublishFails
  <2>2. \A exc : AfterFailure(Role[i], held[i], exc) \notin {"publishing", "republishing"}
    BY <2>1, AfterFailureLabel
  <2>3. \/ pc'[i] \in {"acking", "working", "requeueing"}
        \/ \E exc : pc'[i] = AfterFailure(Role[i], held[i], exc)
    <3>1. CASE Read(i)
      BY <3>1 DEF Read, FailWith
    <3>2. CASE PaymentFails(i) \/ ProcessFails(i)
      BY <3>2 DEF PaymentFails, ProcessFails, FailWith
    <3>3. CASE PublishFails(i)
      BY <3>3 DEF PublishFails
    <3> QED
      BY <1>4, <3>1, <3>2, <3>3
  <2> QED
    BY <2>2, <2>3
<1>5. CASE Get(i) \/ SendRetry(i) \/ HookRead(i) \/ HookPublish(i) \/ HookCommit(i)
  BY <1>5 DEF Get, SendRetry, HookRead, HookPublish, HookCommit
<1>6. CASE Ack(i) \/ Nack(i) \/ Requeue(i) \/ Crash(i)
  BY <1>6 DEF Ack, Nack, Requeue, Crash, Idle
<1>7. CASE \/ GuardFails(i) \/ CommitFails(i) \/ HookDbFails(i)
           \/ SendRetryFails(i) \/ HookPublishFails(i)
  BY <1>7 DEF GuardFails, CommitFails, HookDbFails, SendRetryFails, HookPublishFails
<1> QED
  BY <1>1, <1>2, <1>3, <1>4, <1>5, <1>6, <1>7 DEF InstanceStep, InstanceFault

(* The events that a commit stores are those of its own row, if the ledger *)
(* had none for that event; all other events keep theirs.                  *)
LEMMA DurableStored ==
  ASSUME NEW i \in Instances, Durable(i), ~Processed(Role[i], EventOf(i)), NEW w, NEW e
  PROVE  /\ w = Role[i] /\ e = EventOf(i) =>
              Stored(w, e)' = Outgoing(Role[i], seen[i], EventOf(i))
         /\ ~(w = Role[i] /\ e = EventOf(i)) => Stored(w, e)' = Stored(w, e)
<1> DEFINE outgoing == Outgoing(Role[i], seen[i], EventOf(i))
           row == [event |-> EventOf(i), worker |-> Role[i], outgoing |-> outgoing]
<1>1. processed_events' = processed_events \cup {row}
  BY DEF Durable
<1>2. row.worker = Role[i] /\ row.event = EventOf(i) /\ row.outgoing = outgoing
  OBVIOUS
<1> HIDE DEF outgoing, row
<1>3. ASSUME w = Role[i], e = EventOf(i) PROVE Stored(w, e)' = outgoing
  <2>1. Rows(w, e)' = {row}
    BY <1>1, <1>2, <1>3 DEF Rows, Processed
  <2> QED
    BY <1>2, <2>1 DEF Stored
<1>4. ASSUME ~(w = Role[i] /\ e = EventOf(i)) PROVE Stored(w, e)' = Stored(w, e)
  BY <1>1, <1>2, <1>4 DEF Stored, Rows
<1> QED
  BY <1>3, <1>4 DEF outgoing

(* Who publishes has committed, and owes nothing but the rest.             *)
LEMMA PublishedStep ==
  TypeInv /\ GuardInv /\ NotifiedInv /\ PublishedInv /\ [Next]_vars => PublishedInv'
<1> SUFFICES ASSUME TypeInv, GuardInv, NotifiedInv, PublishedInv, [Next]_vars
             PROVE  PublishedInv'
  OBVIOUS
<1>1. ASSUME NEW j \in Instances, Publishing(j), UNCHANGED <<pc[j], held[j], rest[j]>>,
             \A w, e : w = Role[j] /\ e = EventOf(j) => Stored(w, e)' = Stored(w, e)
      PROVE  PublishedOK(j)'
  <2>1. PICK w, e : w = Role[j] /\ e = EventOf(j) /\ e = EventOf(j)'
    BY <1>1 DEF EventOf
  <2>2. Processed(w, e)'
    BY <1>1, <2>1, RowsOnlyGrow DEF PublishedInv, PublishedOK
  <2>3. \A x \in Stored(w, e)' \ rest'[j] : Reached(x)'
    BY <1>1, <2>1, ReachedStep DEF PublishedInv, PublishedOK
  <2> QED
    BY <2>1, <2>2, <2>3 DEF PublishedOK
<1>2. ASSUME NEW i \in Instances, InstanceStep(i) \/ InstanceFault(i) PROVE PublishedInv'
  <2>1. ASSUME NEW j \in Instances \ {i}, Publishing(j) PROVE PublishedOK(j)'
    <3>1. UNCHANGED <<pc[j], held[j], rest[j]>>
      BY <1>2, StepIsLocal DEF OthersStay
    <3>2. CASE processed_events' = processed_events
      BY <1>1, <2>1, <3>1, <3>2 DEF Stored, Rows
    <3>3. CASE At(i, "working") /\ Durable(i)
      <4>1. ~Processed(Role[i], EventOf(i)) /\ Processed(Role[j], EventOf(j))
        BY <2>1, <3>3 DEF GuardInv, AtWork, At, PublishedInv, PublishedOK
      <4>2. \A w, e : w = Role[j] /\ e = EventOf(j) => Stored(w, e)' = Stored(w, e)
        BY <3>3, <4>1, DurableStored
      <4> QED
        BY <1>1, <2>1, <3>1, <4>2
    <3> QED
      BY <1>2, <3>2, <3>3, InstanceDb DEF dbVars
  <2>2. ASSUME Publishing(i)' PROVE PublishedOK(i)'
    <3>1. PICK w, e : w = Role[i] /\ e = EventOf(i) /\ e = EventOf(i)'
      BY <1>2, <2>2, PublishingFlow DEF EventOf
    <3> SUFFICES Processed(w, e)' /\ \A x \in Stored(w, e)' \ rest'[i] : Reached(x)'
      BY <3>1 DEF PublishedOK
    <3>2. CASE /\ At(i, "received") /\ UNCHANGED dbVars
               /\ Processed(Role[i], EventOf(i)) /\ rest'[i] = Stored(Role[i], EventOf(i))
      <4>1. Stored(w, e)' = Stored(w, e)
        BY <3>2 DEF Stored, Rows, dbVars
      <4> QED
        BY <3>1, <3>2, <4>1, RowsOnlyGrow
    <3>3. CASE /\ At(i, "working") /\ Durable(i)
               /\ rest'[i] = Outgoing(Role[i], seen[i], EventOf(i))
      <4>1. ~Processed(Role[i], EventOf(i))
        BY <3>3 DEF GuardInv, AtWork, At
      <4>2. Stored(w, e)' = rest'[i]
        BY <3>1, <3>3, <4>1, DurableStored
      <4> QED
        BY <3>1, <3>3, <4>2, LedgerWritten
    <3>4. CASE /\ Publishing(i) /\ UNCHANGED dbVars
               /\ \/ rest'[i] = rest[i]
                  \/ \E x \in rest[i] : rest'[i] = rest[i] \ {x} /\ queue' = Published(x)
      <4>1. Stored(w, e)' = Stored(w, e)
        BY <3>4 DEF Stored, Rows, dbVars
      <4>2. Processed(w, e) /\ \A x \in Stored(w, e) \ rest[i] : Reached(x)
        BY <3>1, <3>4 DEF PublishedInv, PublishedOK
      <4>3. \A x \in Stored(w, e) \ rest[i] : Reached(x)'
        BY <4>2, ReachedStep
      <4>4. \A x \in rest[i] \ rest'[i] : Reached(x)'
        BY <3>4, PublishedReaches DEF TypeInv, WorkersOK
      <4> QED
        BY <4>1, <4>2, <4>3, <4>4, RowsOnlyGrow
    <3> QED
      BY <1>2, <2>2, <3>2, <3>3, <3>4, PublishingFlow
  <2>3. ASSUME NEW j \in Instances \ {i}, ~Publishing(j) PROVE PublishedOK(j)'
    BY <1>2, <2>3, StepIsLocal DEF OthersStay, PublishedOK, Publishing
  <2>4. ASSUME ~Publishing(i)' PROVE PublishedOK(i)'
    BY <2>4 DEF PublishedOK
  <2> QED
    BY <2>1, <2>2, <2>3, <2>4 DEF PublishedInv
<1>3. CASE UNCHANGED <<instanceVars, processed_events>>
  <2>1. ASSUME NEW j \in Instances, ~Publishing(j) PROVE PublishedOK(j)'
    BY <1>3, <2>1 DEF PublishedOK, Publishing, instanceVars
  <2>2. ASSUME NEW j \in Instances, Publishing(j) PROVE PublishedOK(j)'
    BY <1>1, <1>3, <2>2 DEF Stored, Rows, instanceVars
  <2> QED
    BY <2>1, <2>2 DEF PublishedInv
<1>4. ASSUME NEW o \in Orders, RequestStep(o) \/ RequestFault(o) PROVE PublishedInv'
  BY <1>3, <1>4 DEF RequestStep, RequestFault, ApiInsert, ApiPublish, ApiCommit,
                    ApiPublishFails, ApiCommitFails, dbVars
<1>5. ASSUME NEW w \in Workers, BrokerStep(w) \/ PoisonFault(w) PROVE PublishedInv'
  BY <1>3, <1>5 DEF BrokerStep, PoisonFault, dbVars
<1>6. CASE UNCHANGED vars
  BY <1>3, <1>6 DEF vars, instanceVars
<1> QED
  BY <1>2, <1>4, <1>5, <1>6 DEF Next, Fault

----------------------------------------------------------------------------
(* A hook that is about to commit has published, now or before.            *)
LEMMA HookFlow ==
  ASSUME TypeInv, NEW i \in Instances, InstanceStep(i) \/ InstanceFault(i),
         At(i, "hookCommit")'
  PROVE  held'[i] = held[i] /\ (At(i, "hookCommit") \/ queue' = Published(FailedEvent(i)))
<1>1. Reading(i)'
  BY DEF Reading, At
<1>2. CASE HookPublish(i)
  BY <1>2 DEF HookPublish
<1>3. CASE ~HookPublish(i) /\ ~At(i, "hookCommit")
  <2> USE DEF TypeInv, WorkersOK, InstancesTypeOK, At, Goto
  <2>1. pc[i] \in {"working", "hookPublish", "guarded", "hook"} /\ UNCHANGED dbVars
    BY <1>1, <1>3, SeenFlow DEF Reading
  <2>2. ~(PaymentFails(i) \/ ProcessFails(i) \/ Read(i))
    <3>1. held[i] \in Message
      BY <2>1 DEF HeldOK
    <3>2. \A exc : AfterFailure(Role[i], held[i], exc) # "hookCommit"
      BY <3>1, AfterFailureLabel
    <3> QED
      BY <3>2 DEF PaymentFails, ProcessFails, Read, FailWith
  <2>3. ~(\/ Get(i) \/ Insert(i) \/ Commit(i) \/ PublishNext(i) \/ SendRetry(i) \/ HookRead(i)
          \/ HookCommit(i) \/ Ack(i) \/ Nack(i) \/ Requeue(i) \/ Crash(i))
    BY DEF Get, Insert, Commit, PublishNext, SendRetry, HookRead, HookCommit, Ack, Nack,
           Requeue, Crash, Idle
  <2>4. ~(\/ GuardFails(i) \/ CommitFails(i) \/ HookDbFails(i) \/ PublishFails(i)
          \/ SendRetryFails(i) \/ HookPublishFails(i) \/ ChannelDrops(i))
    BY <1>3, <2>1 DEF GuardFails, CommitFails, HookDbFails, PublishFails, SendRetryFails,
                      HookPublishFails, ChannelDrops
  <2> QED
    BY <1>3, <2>2, <2>3, <2>4 DEF InstanceStep, InstanceFault
<1> QED
  BY <1>1, <1>2, <1>3, SeenFlow

(* Those who publish before they commit have reached everyone.             *)
LEMMA AheadStep ==
  TypeInv /\ NotifiedInv /\ PublishedInv /\ AheadInv /\ [Next]_vars => AheadInv'
<1> SUFFICES ASSUME TypeInv, NotifiedInv, PublishedInv, AheadInv, [Next]_vars PROVE AheadInv'
  OBVIOUS
<1>1. BrokerTypeOK
  BY DEF TypeInv, WorkersOK
<1>2. ASSUME NEW o \in Orders, api'[o] = "published" PROVE Reached(Created(o))'
  <2>1. CASE api[o] = "published"
    BY <2>1, ReachedStep DEF AheadInv, Created
  <2>2. CASE api[o] # "published"
    <3>1. ~UNCHANGED api
      BY <1>2, <2>2
    <3>2. PICK p \in Orders : RequestStep(p) \/ RequestFault(p)
      BY <3>1 DEF Next, Fault, InstanceStep, InstanceFault, BrokerStep, PoisonFault, vars
    <3>3. p = o /\ ApiPublish(o)
      BY <1>2, <2>2, <3>2 DEF RequestStep, RequestFault, ApiInsert, ApiPublish, ApiCommit,
         ApiPublishFails, ApiCommitFails, TypeInv, WorkersOK, ApiTypeOK
    <3> QED
      BY <1>1, <3>3, PublishedReaches DEF ApiPublish, Created
  <2> QED
    BY <2>1, <2>2
<1>3. ASSUME NEW j \in Instances, At(j, "hookCommit"), held'[j] = held[j]
      PROVE  Reached(FailedEvent(j))'
  <2>1. PICK e : e = FailedEvent(j) /\ e = FailedEvent(j)' /\ Reached(e)
    BY <1>3 DEF AheadInv, FailedEvent, EventOf
  <2> QED
    BY <2>1, ReachedStep
<1>4. ASSUME NEW i \in Instances, InstanceStep(i) \/ InstanceFault(i), At(i, "hookCommit")'
      PROVE  Reached(FailedEvent(i))'
  <2>1. CASE At(i, "hookCommit")
    BY <1>3, <1>4, <2>1, HookFlow
  <2>2. CASE queue' = Published(FailedEvent(i))
    <3>1. PICK e : e = FailedEvent(i) /\ e = FailedEvent(i)'
      BY <1>4, HookFlow DEF FailedEvent, EventOf
    <3> QED
      BY <1>1, <2>2, <3>1, PublishedReaches
  <2> QED
    BY <1>4, <2>1, <2>2, HookFlow
<1>5. ASSUME NEW j \in Instances, At(j, "hookCommit")' PROVE Reached(FailedEvent(j))'
  <2>1. ASSUME NEW i \in Instances, InstanceStep(i) \/ InstanceFault(i)
        PROVE  Reached(FailedEvent(j))'
    BY <1>3, <1>4, <1>5, <2>1, StepIsLocal DEF OthersStay, At
  <2>2. CASE UNCHANGED instanceVars
    BY <1>3, <1>5, <2>2 DEF At, instanceVars
  <2> QED
    BY <2>1, <2>2 DEF Next, Fault, RequestStep, RequestFault, BrokerStep, PoisonFault, vars,
                      instanceVars
<1> QED
  BY <1>2, <1>5 DEF AheadInv

(* An order is failed only after its announcement has gone out.            *)
LEMMA FailureStep ==
  TypeInv /\ NotifiedInv /\ PublishedInv /\ AheadInv /\ FailureAnnounced /\ [Next]_vars
  => FailureAnnounced'
<1> SUFFICES ASSUME TypeInv, NotifiedInv, PublishedInv, AheadInv, FailureAnnounced, [Next]_vars,
                    NEW o \in Orders, orders'[o].status = "FAILED"
             PROVE  Reached([order |-> o, type |-> "order.payment.failed"])'
  BY DEF FailureAnnounced
<1> DEFINE e == [order |-> o, type |-> "order.payment.failed"]
<1> USE DEF TypeInv, WorkersOK, DbTypeOK
<1>1. Reached(e)
  <2>1. CASE orders[o].status = "FAILED"
    BY <2>1 DEF FailureAnnounced
  <2>2. ASSUME NEW i \in Instances, orders[o].status # "FAILED", Durable(i) PROVE FALSE
    BY <2>2 DEF Durable, Proceeds, Chain, Advanced, NextStatus
  <2>3. ASSUME NEW i \in Instances, orders[o].status # "FAILED", At(i, "hookCommit"),
               orders' = HookDurable(i)
        PROVE  Reached(e)
    <3>1. o = EventOf(i).order
      BY <2>3 DEF HookDurable
    <3> QED
      BY <2>3, <3>1 DEF AheadInv, FailedEvent
  <2>4. ASSUME NEW p \in Orders, orders[o].status # "FAILED", orders' = Placed(p) PROVE FALSE
    BY <2>4 DEF Placed, NewOrder, NoOrder
  <2> QED
    BY <2>1, <2>2, <2>3, <2>4, DbFlow DEF dbVars
<1> QED
  BY <1>1, ReachedStep

----------------------------------------------------------------------------
(* A row that appears is that of an order whose event is out.              *)
LEMMA NewRowPublished ==
  ASSUME TypeInv, SeenInv, [Next]_vars, NEW o \in Orders,
         orders[o].status = "none", orders'[o].status # "none"
  PROVE  api[o] = "published"
<1> USE DEF TypeInv, WorkersOK, DbTypeOK
<1>1. ASSUME NEW i \in Instances, At(i, "working"), Durable(i) PROVE FALSE
  <2>1. o = EventOf(i).order /\ Proceeds(Role[i], seen[i])
    BY <1>1 DEF Durable
  <2>2. seen[i] # "none"
    BY <2>1 DEF Proceeds, Chain, Expected
  <2> QED
    BY <1>1, <2>1, <2>2 DEF SeenInv, SeenOK, Reading, At
<1>2. ASSUME NEW i \in Instances, At(i, "hookCommit"), orders' = HookDurable(i) PROVE FALSE
  <2>1. o = EventOf(i).order /\ seen[i] = "PENDING"
    BY <1>2 DEF HookDurable
  <2> QED
    BY <1>2, <2>1 DEF SeenInv, SeenOK, Reading, At
<1>3. ASSUME NEW p \in Orders, api[p] = "published", orders' = Placed(p)
      PROVE  api[o] = "published"
  BY <1>3 DEF Placed
<1> QED
  BY <1>1, <1>2, <1>3, DbFlow DEF dbVars

(* The row of a commit: its event is still held, by the instance itself or *)
(* because its message was requeued.                                       *)
LEMMA CommitHeld ==
  ASSUME TypeInv, GuardInv, HandsKept, NEW i \in Instances,
         InstanceStep(i) \/ InstanceFault(i), At(i, "working"), Durable(i),
         Outgoing(Role[i], seen[i], EventOf(i)) # {},
         NEW w \in Workers, NEW e, w = Role[i], e = EventOf(i)
  PROVE  Held(w, e)'
<1>1. Held(w, e)
  BY DEF HandsKept, Kept, GuardInv, AtWork, At
<1>2. ~Released(i)
  BY DEF Released, At, Publishing
<1> QED
  BY <1>1, <1>2, HeldFlow

(* While an event in the outbox has not reached everyone, the message that *)
(* leads to its being published again is held.                             *)
LEMMA RowStep ==
  ASSUME TypeInv, GuardInv, NotifiedInv, PublishedInv, NEW i \in Instances,
         InstanceStep(i) \/ InstanceFault(i), [Next]_vars,
         NEW w \in Workers, NEW e, NEW f \in Stored(w, e), Reached(f) \/ Held(w, e)
  PROVE  Reached(f)' \/ Held(w, e)'
<1>1. Processed(w, e)
  BY DEF Stored, Processed
<1> SUFFICES ASSUME ~Reached(f), Role[i] = w, EventOf(i) = e, Released(i)
             PROVE  Reached(f)'
  BY ReachedStep, HeldFlow
<1>2. Publishing(i)
  BY <1>1 DEF Released, GuardInv, AtWork, At
<1>3. PICK x \in rest[i] : rest[i] = {x} /\ queue' = Published(x)
  BY <1>2 DEF Released, Publishing, At
<1>4. f = x
  BY <1>2, <1>3 DEF PublishedInv, PublishedOK
<1> QED
  BY <1>3, <1>4, PublishedReaches DEF TypeInv, WorkersOK

(* So nothing is ever dropped.                                             *)
LEMMA DroppedStep ==
  TypeInv /\ GuardInv /\ SeenInv /\ NotifiedInv /\ HandsKept /\ PublishedInv /\ AheadInv
  /\ NothingDropped /\ [Next]_vars => NothingDropped'
<1> SUFFICES ASSUME TypeInv, GuardInv, SeenInv, NotifiedInv, HandsKept, PublishedInv, AheadInv,
                    NothingDropped, [Next]_vars
             PROVE  NothingDropped'
  OBVIOUS
<1>1. ASSUME NEW o \in Orders, orders'[o].status # "none" PROVE Reached(Created(o))'
  <2>1. Reached(Created(o))
    BY <1>1, NewRowPublished DEF NothingDropped, AheadInv
  <2> QED
    BY <2>1, ReachedStep DEF Created
<1>2. ASSUME NEW r \in processed_events, NEW f \in r.outgoing
      PROVE  Reached(f)' \/ Held(r.worker, r.event)'
  <2>1. PICK w, e : w \in Workers /\ w = r.worker /\ e = r.event
    BY DEF TypeInv, WorkersOK, DbTypeOK, LedgerRow
  <2>2. f \in Stored(w, e) /\ (Reached(f) \/ Held(w, e))
    BY <2>1 DEF Stored, Rows, NothingDropped
  <2>3. ASSUME NEW i \in Instances, InstanceStep(i) \/ InstanceFault(i)
        PROVE  Reached(f)' \/ Held(w, e)'
    BY <2>1, <2>2, <2>3, RowStep
  <2>4. ASSUME Outside PROVE Reached(f)' \/ Held(w, e)'
    BY <2>1, <2>2, <2>4, ReachedStep, OutsideKeeps
  <2>5. Reached(f)' \/ Held(w, e)'
    BY <2>3, <2>4 DEF Next, Fault, Outside
  <2> QED
    BY <2>1, <2>5
<1>3. ASSUME NEW r \in processed_events', r \notin processed_events, NEW f \in r.outgoing
      PROVE  Held(r.worker, r.event)'
  <2>1. PICK i \in Instances : (InstanceStep(i) \/ InstanceFault(i)) /\ At(i, "working")
                               /\ Durable(i)
    <3>1. ~Outside
      BY <1>3 DEF Outside, RequestStep, RequestFault, ApiInsert, ApiPublish, ApiCommit,
         ApiPublishFails, ApiCommitFails, BrokerStep, PoisonFault, vars, dbVars
    <3>2. PICK i \in Instances : InstanceStep(i) \/ InstanceFault(i)
      BY <3>1 DEF Next, Fault, Outside
    <3> QED
      BY <1>3, <3>2, InstanceDb DEF dbVars
  <2>2. /\ r.worker = Role[i] /\ r.event = EventOf(i)
        /\ r.outgoing = Outgoing(Role[i], seen[i], EventOf(i))
    BY <1>3, <2>1, DurableOutbox DEF At
  <2>3. PICK w, e : w \in Workers /\ w = r.worker /\ e = r.event
    BY <2>2, RoleAssumption
  <2>4. Held(w, e)'
    BY <1>3, <2>1, <2>2, <2>3, CommitHeld
  <2> QED
    BY <2>3, <2>4
<1> QED
  BY <1>1, <1>2, <1>3 DEF NothingDropped

----------------------------------------------------------------------------
(* The inductive invariant, beside type, guard and what instances read.    *)
KeepingInv ==
  /\ NotifiedInv /\ HandsKept /\ PublishedInv /\ AheadInv
  /\ FailureAnnounced /\ NothingDropped

(* Whoever acks, publishes or commits can rely on the others.              *)
LEMMA KeepingInvariant == Safety => []KeepingInv
<1>1. Init => KeepingInv
  BY DEF Init, DbInit, NoOrder, InstancesInit, ApiInit, KeepingInv, NotifiedInv, HandsKept,
         PublishedInv, PublishedOK, Publishing, AheadInv, At, FailureAnnounced, NothingDropped
<1>2. TypeInv /\ GuardInv /\ SeenInv /\ KeepingInv /\ [Next]_vars => KeepingInv'
  BY NotifiedStep, HandsStep, PublishedStep, AheadStep, FailureStep, DroppedStep DEF KeepingInv
<1> QED
  BY <1>1, <1>2, TypeInvariant, GuardInvariant, NewsInvariant, PTL DEF Safety

(* No message is ever lost: the order.created event of every order in the  *)
(* database and every event that a worker stored with its work reaches all *)
(* its consumers, or is recoverable from a message that is still held,     *)
(* whatever crashes, drops its channel or fails in between.                *)
THEOREM NothingIsDropped == Safety => []NothingDropped
BY KeepingInvariant, PTL DEF KeepingInv

(* The failure of an order has been noted for the customer, is on its way  *)
(* to the notification worker, or awaits manual review with it: no order   *)
(* is FAILED in silence, although the hook's publish and commit can fail.  *)
THEOREM FailuresAreAnnounced == Safety => []FailureAnnounced
BY KeepingInvariant, PTL DEF KeepingInv

----------------------------------------------------------------------------
(* Settlement.  Once retrying has ended, an order whose events have all    *)
(* been processed has been moved on by every worker of the chain: what a   *)
(* worker did for order o, or found done, is in the row of o or in the     *)
(* outbox.                                                                 *)
MovedPayment(o) == InOutbox(Paid(o)) \/ orders[o].status = "FAILED"

MovedRestaurant(o) ==
  InOutbox(Confirmed(o)) \/ (orders[o].status = "FAILED" /\ InOutbox(Paid(o)))

MovedDelivery(o) ==
  orders[o].status \in {"DRIVER_ASSIGNED", "FAILED"} /\ InOutbox(Confirmed(o))

Moved(w, o) ==
  /\ w = "payment"    => MovedPayment(o)
  /\ w = "restaurant" => MovedRestaurant(o)
  /\ w = "delivery"   => MovedDelivery(o)

(* The ledger knows only events that were addressed to its worker and are  *)
(* backed, and what the row of an order tells is in the outbox.            *)
OriginInv ==
  /\ \A r \in processed_events : r.event.type \in Bindings[r.worker] /\ Backed(r.event)
  /\ \A o \in Orders :
       /\ orders[o].payment_id > 0 => InOutbox(Paid(o))
       /\ orders[o].status \in {"CONFIRMED", "DRIVER_ASSIGNED"} => InOutbox(Confirmed(o))

(* An event is processed only when its order has been moved on, and a      *)
(* worker that finds nothing to do has seen it moved on.                   *)
MovedInv ==
  /\ \A r \in processed_events : Moved(r.worker, r.event.order)
  /\ \A i \in Instances :
       At(i, "working") /\ ~Proceeds(Role[i], seen[i]) => Moved(Role[i], EventOf(i).order)

(* What is in the outbox stays there.                                      *)
LEMMA OutboxGrows == ASSUME [Next]_vars, NEW e, InOutbox(e) PROVE InOutbox(e)'
<1>1. processed_events \subseteq processed_events'
  BY DbFlow DEF Durable, dbVars
<1> QED
  BY <1>1 DEF InOutbox

(* A worker that proceeds stores its report.                               *)
LEMMA ReportStored ==
  ASSUME NEW i \in Instances, Durable(i), Proceeds(Role[i], seen[i]), NEW o, NEW w,
         o = EventOf(i).order, w = Role[i]
  PROVE  InOutbox([order |-> o, type |-> Emits[w]])'
<1> DEFINE outgoing == Outgoing(Role[i], seen[i], EventOf(i))
           row == [event |-> EventOf(i), worker |-> Role[i], outgoing |-> outgoing]
<1>1. row \in processed_events'
  BY DEF Durable
<1>2. row.outgoing = outgoing
  OBVIOUS
<1>3. [order |-> o, type |-> Emits[w]] \in outgoing
  BY DEF Outgoing
<1> HIDE DEF row, outgoing
<1> QED
  BY <1>1, <1>2, <1>3 DEF InOutbox

(* What a worker of the chain at work relies on: its event, backed.        *)
LEMMA WorkedBacked ==
  ASSUME TypeInv, RoutingInv, BackedInv, NEW i \in Instances, At(i, "working"),
         NEW o, o = EventOf(i).order
  PROVE  /\ o \in Orders
         /\ Role[i] = "payment"    => EventOf(i) = Created(o)
         /\ Role[i] = "restaurant" => EventOf(i) = Paid(o) /\ InOutbox(Paid(o))
         /\ Role[i] = "delivery"   => EventOf(i) = Confirmed(o) /\ InOutbox(Confirmed(o))
<1>1. EventOf(i) \in Event /\ Backed(EventOf(i))
  BY DEF At, BackedInv, TypeInv, WorkersOK, HeldOK, EventOf
<1>2. EventOf(i).type \in Reports => InOutbox(EventOf(i))
  BY <1>1 DEF Backed
<1>3. Paid(o).type \in Reports /\ Confirmed(o).type \in Reports
  BY DEF Paid, Confirmed, Reports
<1> QED
  BY <1>2, <1>3, WorkedEvent DEF At

(* The rows behind a report of the chain.                                  *)
LEMMA ReportOrigin ==
  ASSUME TypeInv, LedgerInv, OriginInv, NEW o \in Orders
  PROVE  /\ InOutbox(Paid(o)) => Processed("payment", Created(o))
         /\ InOutbox(Confirmed(o)) => Processed("restaurant", Paid(o)) /\ InOutbox(Paid(o))
<1>1. ASSUME NEW r \in processed_events
      PROVE  /\ r.event \in Event /\ r.event.type \in Bindings[r.worker] /\ Backed(r.event)
             /\ Processed(r.worker, r.event)
  BY DEF TypeInv, WorkersOK, DbTypeOK, LedgerRow, OriginInv, Processed, Rows
<1>2. ASSUME InOutbox(Paid(o)) PROVE Processed("payment", Created(o))
  <2>1. PICK r \in processed_events : Paid(o) \in r.outgoing
    BY <1>2 DEF InOutbox
  <2>2. r.worker \in Chain /\ Paid(o) = [order |-> r.event.order, type |-> Emits[r.worker]]
    BY <2>1 DEF LedgerInv
  <2>3. r.worker = "payment" /\ r.event.order = o
    BY <2>2 DEF Chain, Emits, Paid
  <2>4. r.event = Created(o)
    BY <1>1, <2>3 DEF Bindings, Event, Created
  <2> QED
    BY <1>1, <2>3, <2>4
<1>3. ASSUME InOutbox(Confirmed(o))
      PROVE  Processed("restaurant", Paid(o)) /\ InOutbox(Paid(o))
  <2>1. PICK r \in processed_events : Confirmed(o) \in r.outgoing
    BY <1>3 DEF InOutbox
  <2>2. r.worker \in Chain /\ Confirmed(o) = [order |-> r.event.order, type |-> Emits[r.worker]]
    BY <2>1 DEF LedgerInv
  <2>3. r.worker = "restaurant" /\ r.event.order = o
    BY <2>2 DEF Chain, Emits, Confirmed
  <2>4. r.event = Paid(o)
    BY <1>1, <2>3 DEF Bindings, Event, Paid
  <2>5. InOutbox(r.event)
    BY <1>1, <2>4 DEF Backed, Reports, Paid
  <2> QED
    BY <1>1, <2>3, <2>4, <2>5
<1> QED
  BY <1>2, <1>3

(* All that a step can do to the row of an order.                          *)
LEMMA RowFlow ==
  ASSUME TypeInv, ProgressInv, [Next]_vars, NEW o \in Orders
  PROVE  \/ orders'[o] = orders[o]
         \/ \E i \in Instances :
              /\ At(i, "working") /\ Durable(i) /\ Proceeds(Role[i], seen[i])
              /\ o = EventOf(i).order /\ orders'[o] = Advanced(Role[i], orders[o])
         \/ \E i \in Instances :
              /\ At(i, "hookCommit") /\ o = EventOf(i).order
              /\ orders'[o] = [orders[o] EXCEPT !.status = "FAILED"]
         \/ orders[o].status = "none" /\ orders'[o] = NewOrder
<1> USE DEF TypeInv, WorkersOK, DbTypeOK
<1>1. CASE UNCHANGED dbVars
  BY <1>1 DEF dbVars
<1>2. ASSUME NEW i \in Instances, At(i, "working"), Durable(i), orders'[o] # orders[o]
      PROVE  /\ Proceeds(Role[i], seen[i]) /\ o = EventOf(i).order
             /\ orders'[o] = Advanced(Role[i], orders[o])
  BY <1>2 DEF Durable
<1>3. ASSUME NEW i \in Instances, orders' = HookDurable(i), orders'[o] # orders[o]
      PROVE  /\ o = EventOf(i).order
             /\ orders'[o] = [orders[o] EXCEPT !.status = "FAILED"]
  BY <1>3 DEF HookDurable
<1>4. ASSUME NEW p \in Orders, api[p] = "published", orders' = Placed(p),
             orders'[o] # orders[o]
      PROVE  orders[o].status = "none" /\ orders'[o] = NewOrder
  BY <1>4 DEF Placed, ProgressInv, ProgressOK
<1> QED
  BY <1>1, <1>2, <1>3, <1>4, DbFlow

(* A row that a step adds to the ledger is that of an instance at work.    *)
LEMMA NewRow ==
  ASSUME TypeInv, [Next]_vars, NEW r \in processed_events', r \notin processed_events
  PROVE  \E i \in Instances :
           At(i, "working") /\ Durable(i) /\ r.worker = Role[i] /\ r.event = EventOf(i)
<1>1. PICK i \in Instances : At(i, "working") /\ Durable(i)
  BY DbFlow DEF dbVars
<1>2. r.worker = Role[i] /\ r.event = EventOf(i)
  BY <1>1, DurableOutbox DEF At
<1> QED
  BY <1>1, <1>2

(* The ledger and the outbox account for every row of an order.            *)
LEMMA OriginStep ==
  TypeInv /\ RoutingInv /\ BackedInv /\ ProgressInv /\ OriginInv /\ [Next]_vars => OriginInv'
<1> SUFFICES ASSUME TypeInv, RoutingInv, BackedInv, ProgressInv, OriginInv, [Next]_vars
             PROVE  OriginInv'
  OBVIOUS
<1>1. ASSUME NEW r \in processed_events'
      PROVE  r.event.type \in Bindings[r.worker] /\ Backed(r.event)
  <2>1. CASE r \in processed_events
    BY <2>1 DEF OriginInv
  <2>2. CASE r \notin processed_events
    <3>1. PICK i \in Instances : At(i, "working") /\ r.worker = Role[i] /\ r.event = EventOf(i)
      BY <2>2, NewRow
    <3>2. EventOf(i) \in Event /\ EventOf(i) # Poison
      BY <3>1, SentinelAssumption DEF At, TypeInv, WorkersOK, HeldOK, EventOf
    <3> QED
      BY <3>1, <3>2 DEF At, BackedInv, RoutingInv, HandsRouted, Addressed, EventOf
  <2> QED
    BY <2>1, <2>2
<1>2. \A r \in processed_events' : Backed(r.event)'
  BY <1>1, BackedStays
<1>3. ASSUME NEW o \in Orders
      PROVE  /\ orders'[o].payment_id > 0 => InOutbox(Paid(o))'
             /\ orders'[o].status \in {"CONFIRMED", "DRIVER_ASSIGNED"} => InOutbox(Confirmed(o))'
  <2>1. /\ InOutbox(Paid(o)) => InOutbox(Paid(o))'
        /\ InOutbox(Confirmed(o)) => InOutbox(Confirmed(o))'
    BY OutboxGrows DEF Paid, Confirmed
  <2>2. ASSUME NEW i \in Instances, At(i, "working"), Durable(i), Proceeds(Role[i], seen[i]),
               o = EventOf(i).order, orders'[o] = Advanced(Role[i], orders[o])
        PROVE  /\ orders'[o].payment_id > 0 => InOutbox(Paid(o))'
               /\ orders'[o].status \in {"CONFIRMED", "DRIVER_ASSIGNED"} =>
                    InOutbox(Confirmed(o))'
    <3>1. InOutbox([order |-> o, type |-> Emits[Role[i]]])' /\ Role[i] \in Chain
      BY <2>2, ReportStored DEF Proceeds
    <3>2. CASE Role[i] = "payment"
      BY <2>2, <3>1, <3>2 DEF Emits, Paid, Advanced, NextStatus
    <3>3. CASE Role[i] # "payment"
      <4>1. orders'[o].payment_id = orders[o].payment_id
        BY <2>2, <3>3 DEF Advanced, TypeInv, WorkersOK, DbTypeOK, OrderRow
      <4>2. InOutbox(Confirmed(o))'
        BY <2>1, <2>2, <3>1, <3>3, WorkedBacked DEF Emits, Confirmed, Chain
      <4> QED
        BY <2>1, <4>1, <4>2 DEF OriginInv
    <3> QED
      BY <3>2, <3>3
  <2>3. CASE orders'[o] = orders[o] \/ orders'[o] = NewOrder
    BY <2>1, <2>3 DEF OriginInv, NewOrder, NoOrder
  <2>4. CASE orders'[o] = [orders[o] EXCEPT !.status = "FAILED"]
    BY <2>1, <2>4 DEF OriginInv, TypeInv, WorkersOK, DbTypeOK, OrderRow
  <2> QED
    BY <2>2, <2>3, <2>4, RowFlow
<1> QED
  BY <1>1, <1>2, <1>3 DEF OriginInv

(* Nobody is at work on an event that has been processed.                  *)
LEMMA NobodyAtWork ==
  ASSUME GuardInv, NEW i \in Instances, At(i, "working"), NEW w, NEW e,
         w = Role[i], e = EventOf(i)
  PROVE  ~Processed(w, e)
BY DEF GuardInv, AtWork, At

(* Once a worker has moved an order on, it stays so, unless the payment    *)
(* worker is about to charge an order that is FAILED.                      *)
LEMMA MovedStays ==
  ASSUME TypeInv, RoutingInv, GuardInv, BackedInv, LedgerInv, ProgressInv, OriginInv,
         [Next]_vars, NEW w, NEW o \in Orders, Moved(w, o),
         w = "payment" =>
           \A i \in Instances : At(i, "working") /\ EventOf(i) = Created(o) =>
             ~(Role[i] = "payment" /\ Proceeds(Role[i], seen[i]))
  PROVE  Moved(w, o)'
<1>1. /\ InOutbox(Paid(o)) => InOutbox(Paid(o))'
      /\ InOutbox(Confirmed(o)) => InOutbox(Confirmed(o))'
  BY OutboxGrows DEF Paid, Confirmed
<1>2. ASSUME NEW i \in Instances, At(i, "working"), Durable(i), Proceeds(Role[i], seen[i]),
             o = EventOf(i).order, orders'[o] = Advanced(Role[i], orders[o])
      PROVE  Moved(w, o)'
  <2>1. /\ InOutbox([order |-> o, type |-> Emits[Role[i]]])' /\ Role[i] \in Chain
    BY <1>2, ReportStored DEF Proceeds
  <2>2. CASE Role[i] = "payment"
    <3>1. EventOf(i) = Created(o) /\ ~Processed("payment", Created(o))
      BY <1>2, <2>2, WorkedBacked, NobodyAtWork
    <3>2. ~InOutbox(Paid(o)) /\ ~InOutbox(Confirmed(o)) /\ w # "payment"
      BY <1>2, <2>2, <3>1, ReportOrigin
    <3> QED
      BY <3>2 DEF Moved, MovedRestaurant, MovedDelivery
  <2>3. CASE Role[i] = "restaurant"
    <3>1. EventOf(i) = Paid(o) /\ InOutbox(Paid(o)) /\ ~Processed("restaurant", Paid(o))
      BY <1>2, <2>3, WorkedBacked, NobodyAtWork
    <3>2. ~InOutbox(Confirmed(o)) /\ InOutbox(Confirmed(o))'
      BY <2>1, <2>3, <3>1, ReportOrigin DEF Emits, Confirmed
    <3> QED
      BY <1>1, <3>1, <3>2 DEF Moved, MovedPayment, MovedRestaurant, MovedDelivery
  <2>4. CASE Role[i] = "delivery"
    <3>1. InOutbox(Confirmed(o)) /\ InOutbox(Paid(o))
      BY <1>2, <2>4, WorkedBacked, ReportOrigin
    <3>2. orders'[o].status = "DRIVER_ASSIGNED"
      BY <1>2, <2>4 DEF Advanced, NextStatus
    <3> QED
      BY <1>1, <3>1, <3>2 DEF Moved, MovedPayment, MovedRestaurant, MovedDelivery
  <2> QED
    BY <2>1, <2>2, <2>3, <2>4 DEF Chain
<1>3. CASE orders'[o].status = orders[o].status
  BY <1>1, <1>3 DEF Moved, MovedPayment, MovedRestaurant, MovedDelivery
<1>4. CASE orders'[o].status = "FAILED"
  <2>1. w = "restaurant" => InOutbox(Confirmed(o)) \/ InOutbox(Paid(o))
    BY DEF Moved, MovedRestaurant
  <2> QED
    BY <1>1, <1>4, <2>1 DEF Moved, MovedPayment, MovedRestaurant, MovedDelivery
<1>5. CASE orders[o].status = "none"
  <2>1. ~InOutbox(Paid(o)) /\ ~InOutbox(Confirmed(o))
    BY <1>5, OutboxOrigin DEF ProgressInv, Paid, Confirmed
  <2> QED
    BY <1>5, <2>1 DEF Moved, MovedPayment, MovedRestaurant, MovedDelivery
<1>6. orders[o] \in OrderRow
  BY DEF TypeInv, WorkersOK, DbTypeOK
<1>7. orders'[o] = [orders[o] EXCEPT !.status = "FAILED"] => orders'[o].status = "FAILED"
  BY <1>6 DEF OrderRow
<1> QED
  BY <1>2, <1>3, <1>4, <1>5, <1>7, RowFlow

(* A worker that finds nothing to do has read that its order was moved on. *)
LEMMA ReadMoved ==
  ASSUME TypeInv, RoutingInv, BackedInv, ProgressInv, OriginInv, NEW i \in Instances,
         pc[i] = "guarded", Role[i] \in Chain,
         NEW o, o = EventOf(i).order, ~NotReady(Role[i], orders[o].status),
         ~Proceeds(Role[i], orders[o].status)
  PROVE  Moved(Role[i], o)
<1>1. EventOf(i) \in Event /\ Backed(EventOf(i))
  BY DEF BackedInv, TypeInv, WorkersOK, HeldOK, EventOf
<1>2. o \in Orders /\ orders[o].status \in Statuses \cup {"none"}
  BY <1>1 DEF Event, TypeInv, WorkersOK, DbTypeOK, OrderRow
<1>3. /\ Role[i] = "payment"    => orders[o].status # "none"
      /\ Role[i] = "restaurant" => orders[o].status \notin {"none", "PENDING"}
      /\ Role[i] = "delivery"   => orders[o].status \notin {"none", "PENDING", "PAID"}
  BY ReadEnough
<1>4. /\ Role[i] = "restaurant" => InOutbox(Paid(o))
      /\ Role[i] = "delivery"   => InOutbox(Confirmed(o))
  <2>1. /\ Role[i] = "restaurant" => EventOf(i) = Paid(o)
        /\ Role[i] = "delivery"   => EventOf(i) = Confirmed(o)
    BY WorkedEvent
  <2>2. Paid(o).type \in Reports /\ Confirmed(o).type \in Reports
    BY DEF Paid, Confirmed, Reports
  <2> QED
    BY <1>1, <2>1, <2>2 DEF Backed
<1>5. orders[o].status \in {"PAID", "CONFIRMED", "DRIVER_ASSIGNED"} => InOutbox(Paid(o))
  BY <1>2 DEF ProgressInv, ProgressOK, OriginInv
<1>6. orders[o].status \in {"CONFIRMED", "DRIVER_ASSIGNED"} => InOutbox(Confirmed(o))
  BY <1>2 DEF OriginInv
<1> QED
  BY <1>2, <1>3, <1>4, <1>5, <1>6
     DEF Proceeds, Chain, Expected, Statuses, Moved, MovedPayment, MovedRestaurant, MovedDelivery

(* A worker that proceeds moves its order on.                              *)
LEMMA WorkMoves ==
  ASSUME TypeInv, RoutingInv, BackedInv, ProgressInv, LedgerInv, OriginInv, [Next]_vars,
         NEW i \in Instances, At(i, "working"), Durable(i), Proceeds(Role[i], seen[i]),
         NEW o, o = EventOf(i).order
  PROVE  Moved(Role[i], o)'
<1>1. InOutbox([order |-> o, type |-> Emits[Role[i]]])' /\ Role[i] \in Chain
  BY ReportStored DEF Proceeds
<1>2. CASE Role[i] = "delivery"
  <2>1. o \in Orders /\ InOutbox(Confirmed(o))
    BY <1>2, WorkedBacked
  <2>2. InOutbox(Confirmed(o))'
    BY <2>1, OutboxGrows DEF Confirmed
  <2>3. orders'[o].status = "DRIVER_ASSIGNED"
    BY <1>2, <2>1 DEF Durable, Advanced, NextStatus, TypeInv, WorkersOK, DbTypeOK
  <2> QED
    BY <1>2, <2>2, <2>3 DEF Moved, MovedDelivery
<1> QED
  BY <1>1, <1>2 DEF Chain, Emits, Paid, Confirmed, Moved, MovedPayment, MovedRestaurant

(* So every worker of the chain leaves its orders moved on.                *)
LEMMA MovedStep ==
  TypeInv /\ RoutingInv /\ GuardInv /\ BackedInv /\ LedgerInv /\ ProgressInv /\ OriginInv
  /\ MovedInv /\ [Next]_vars => MovedInv'
<1> SUFFICES ASSUME TypeInv, RoutingInv, GuardInv, BackedInv, LedgerInv, ProgressInv,
                    OriginInv, MovedInv, [Next]_vars
             PROVE  MovedInv'
  OBVIOUS
<1>1. ASSUME NEW i \in Instances, At(i, "working"), ~Proceeds(Role[i], seen[i]),
             NEW o, o = EventOf(i).order
      PROVE  Moved(Role[i], o)'
  <2>1. o \in Orders /\ Moved(Role[i], o)
    BY <1>1, WorkedBacked DEF MovedInv
  <2>2. ASSUME Role[i] = "payment", NEW j \in Instances, At(j, "working"),
               EventOf(j) = Created(o), Role[j] = "payment", Proceeds(Role[j], seen[j])
        PROVE  FALSE
    <3>1. EventOf(i) = Created(o)
      BY <1>1, <2>2, WorkedBacked
    <3>2. i = j
      BY <1>1, <2>2, <3>1 DEF GuardInv, AtWork, At
    <3> QED
      BY <1>1, <2>2, <3>2
  <2> QED
    BY <2>1, <2>2, MovedStays
<1>2. ASSUME NEW r \in processed_events, NEW o, o = r.event.order
      PROVE  Moved(r.worker, o)'
  <2>1. /\ o \in Orders /\ r.worker \in Workers /\ r.event \in Event
        /\ r.event.type \in Bindings[r.worker] /\ Processed(r.worker, r.event)
    BY <1>2 DEF TypeInv, WorkersOK, DbTypeOK, LedgerRow, Event, OriginInv, Processed, Rows
  <2>2. ASSUME r.worker = "payment", NEW j \in Instances, At(j, "working"),
               EventOf(j) = Created(o), Role[j] = "payment"
        PROVE  FALSE
    <3>1. r.event = Created(o)
      BY <1>2, <2>1, <2>2 DEF Bindings, Event, Created
    <3> QED
      BY <2>1, <2>2, <3>1, NobodyAtWork
  <2> QED
    BY <1>2, <2>1, <2>2, MovedStays DEF MovedInv
<1>3. ASSUME NEW r \in processed_events', r \notin processed_events, NEW o, o = r.event.order
      PROVE  Moved(r.worker, o)'
  <2>1. PICK i \in Instances :
          At(i, "working") /\ Durable(i) /\ r.worker = Role[i] /\ r.event = EventOf(i)
    BY <1>3, NewRow
  <2> QED
    BY <1>1, <1>3, <2>1, WorkMoves
<1>4. ASSUME NEW i \in Instances, At(i, "working")', held'[i] = held[i], seen'[i] = seen[i],
             At(i, "working"), ~Proceeds(Role[i], seen[i])
      PROVE  Moved(Role[i], EventOf(i).order)'
  <2>1. PICK o : o = EventOf(i).order /\ o = EventOf(i)'.order
    BY <1>4 DEF EventOf
  <2>2. Moved(Role[i], o)'
    BY <1>1, <1>4, <2>1
  <2> QED
    BY <2>1, <2>2
<1>5. ASSUME NEW i \in Instances, InstanceStep(i) \/ InstanceFault(i), At(i, "working")',
             ~Proceeds(Role[i], seen'[i])
      PROVE  Moved(Role[i], EventOf(i).order)'
  <2>1. Reading(i)'
    BY <1>5 DEF Reading, At
  <2>2. UNCHANGED dbVars /\ held'[i] = held[i]
    BY <1>5, <2>1, SeenFlow
  <2>3. CASE At(i, "working") /\ seen'[i] = seen[i]
    BY <1>4, <1>5, <2>2, <2>3
  <2>4. CASE Role[i] \notin Chain
    BY <2>4 DEF Moved, Chain
  <2>5. CASE /\ Role[i] \in Chain /\ pc[i] = "guarded"
             /\ ~NotReady(Role[i], orders[EventOf(i).order].status)
             /\ seen'[i] = orders[EventOf(i).order].status
    <3>1. PICK o : o = EventOf(i).order /\ o = EventOf(i)'.order
      BY <2>2 DEF EventOf
    <3>2. Moved(Role[i], o)
      BY <1>5, <2>5, <3>1, ReadMoved
    <3>3. Moved(Role[i], o)'
      BY <2>2, <3>2 DEF Moved, MovedPayment, MovedRestaurant, MovedDelivery, InOutbox, dbVars
    <3> QED
      BY <3>1, <3>3
  <2>6. Role[i] = "notification" => Role[i] \notin Chain
    BY DEF Chain
  <2> QED
    BY <1>5, <2>1, <2>3, <2>4, <2>5, <2>6, SeenFlow
<1>6. ASSUME NEW j \in Instances, At(j, "working")', ~Proceeds(Role[j], seen[j])'
      PROVE  Moved(Role[j], EventOf(j).order)'
  <2>1. ASSUME NEW i \in Instances, InstanceStep(i) \/ InstanceFault(i)
        PROVE  Moved(Role[j], EventOf(j).order)'
    <3>1. CASE j = i
      BY <1>5, <1>6, <2>1, <3>1
    <3>2. CASE j # i
      BY <1>4, <1>6, <2>1, <3>2, StepIsLocal DEF OthersStay, At
    <3> QED
      BY <3>1, <3>2
  <2>2. CASE UNCHANGED instanceVars
    BY <1>4, <1>6, <2>2 DEF At, instanceVars
  <2> QED
    BY <2>1, <2>2 DEF Next, Fault, RequestStep, RequestFault, BrokerStep, PoisonFault, vars,
                      instanceVars
<1>7. \A r \in processed_events' : Moved(r.worker, r.event.order)'
  BY <1>2, <1>3
<1> QED
  BY <1>6, <1>7 DEF MovedInv

(* The notification worker stores what it has processed.                   *)
ToldInv == \A e \in Event : Processed("notification", e) => e \in notifications

(* No ledger row of the notification worker is without its notification.   *)
LEMMA ToldStep == TypeInv /\ ToldInv /\ [Next]_vars => ToldInv'
<1> SUFFICES ASSUME TypeInv, ToldInv, [Next]_vars, NEW e \in Event, Processed("notification", e)'
             PROVE  e \in notifications'
  BY DEF ToldInv
<1>1. CASE Processed("notification", e)
  BY <1>1, DbFlow DEF ToldInv, Durable, dbVars
<1>2. CASE ~Processed("notification", e)
  <2>1. PICK r \in processed_events' :
          r \notin processed_events /\ r.worker = "notification" /\ r.event = e
    BY <1>2 DEF Processed, Rows
  <2>2. PICK i \in Instances : Durable(i) /\ r.worker = Role[i] /\ r.event = EventOf(i)
    BY <2>1, NewRow
  <2> QED
    BY <2>1, <2>2 DEF Durable
<1> QED
  BY <1>1, <1>2

(* Ledger, outbox and rows always account for each other.                  *)
LEMMA SettlingInvariant == Safety => [](OriginInv /\ MovedInv /\ ToldInv)
<1>1. Init => OriginInv /\ MovedInv /\ ToldInv
  BY DEF Init, DbInit, NoOrder, InstancesInit, OriginInv, MovedInv, ToldInv, At, Processed, Rows
<1>2. /\ TypeInv /\ RoutingInv /\ GuardInv /\ BackedInv /\ LedgerInv /\ ProgressInv
      /\ OriginInv /\ MovedInv /\ ToldInv
      /\ [Next]_vars
      => OriginInv' /\ MovedInv' /\ ToldInv'
  BY OriginStep, MovedStep, ToldStep
<1> QED
  BY <1>1, <1>2, TypeInvariant, RoutingInvariant, GuardInvariant, BackedInvariant,
     NewsInvariant, PTL DEF Safety

----------------------------------------------------------------------------
(* What the customer is told.  Somebody sees to the notification of every  *)
(* event that a message anywhere is about, with a copy that took a fault   *)
(* for each of its retries; it is sent or given up in the end.             *)

(* A message by which the notification worker is told of e.                *)
Own(m, e) == m.event = e /\ m.notready = 0 /\ m.retry <= faults

(* An instance of the notification worker is at work on such a message;    *)
(* to fail with it takes another fault.                                    *)
AtNews(i, e) ==
  /\ Role[i] = "notification" /\ delivered[i] /\ Own(held[i], e)
  /\ \/ pc[i] \in {"received", "guarded", "working"}
     \/ pc[i] \in {"retrying", "nacking"} /\ held[i].retry < faults

Coming(e) ==
  \/ Told(e)
  \/ \E m \in BagToSet(queue["notification"]) \cup BagToSet(retry["notification"]) : Own(m, e)
  \/ \E i \in Instances : AtNews(i, e)

(* A message about e is in a queue, among the dead letters or with an      *)
(* instance.                                                               *)
Sent(e) ==
  \/ \E w \in Workers : Waiting(w, e) \/ DeadLettered(w, e)
  \/ \E i \in Instances : pc[i] # "idle" /\ EventOf(i) = e

ComingInv == \A e \in Event : Sent(e) => Coming(e)

(* Faults are only ever added.                                             *)
LEMMA FaultsGrow ==
  ASSUME TypeInv, [Next]_vars
  PROVE  faults \in Nat /\ faults' \in Nat /\ faults <= faults'
<1>1. faults' = faults \/ faults' = faults + 1
  BY DEF Next, Fault, RequestStep, InstanceStep, BrokerStep, vars
<1> QED
  BY <1>1, FaultAssumption DEF TypeInv

(* What a message has in faults to its name is not taken from it.          *)
LEMMA OwnStays ==
  ASSUME TypeInv, [Next]_vars, NEW m \in Message, NEW e, Own(m, e)
  PROVE  Own(m, e)'
BY FaultsGrow, SettingsAssumption DEF Own, Message

(* What has been told, or given up, stays so.                              *)
LEMMA ToldStays == ASSUME TypeInv, [Next]_vars, NEW e, Told(e) PROVE Told(e)'
<1>1. notifications \subseteq notifications'
  BY DbFlow DEF Durable, dbVars
<1>2. dead["notification"] \subseteq dead'["notification"]
  <2>1. ASSUME NEW i \in Instances, InstanceStep(i) \/ InstanceFault(i)
        PROVE  dead["notification"] \subseteq dead'["notification"]
    BY <2>1, DeadFlow DEF Workers
  <2>2. ASSUME NEW o \in Orders, RequestStep(o) \/ RequestFault(o) PROVE dead' = dead
    BY <2>2 DEF RequestStep, RequestFault, ApiInsert, ApiPublish, ApiCommit, ApiPublishFails,
                ApiCommitFails, brokerVars
  <2>3. ASSUME NEW w \in Workers, BrokerStep(w) \/ PoisonFault(w) PROVE dead' = dead
    BY <2>3 DEF BrokerStep, PoisonFault, Expire, InjectPoison
  <2>4. CASE UNCHANGED vars
    BY <2>4 DEF vars
  <2> QED
    BY <2>1, <2>2, <2>3, <2>4 DEF Next, Fault
<1>3. ASSUME NEW m \in dead["notification"], m.retry < faults PROVE m.retry < faults'
  <2>1. m \in Message
    BY DEF TypeInv, WorkersOK, BrokerTypeOK, Workers
  <2> QED
    BY <1>3, <2>1, FaultsGrow, SettingsAssumption DEF Message
<1> QED
  BY <1>1, <1>2, <1>3 DEF Told, GivenUp

(* The instance at work on the notification of e sends it, passes its      *)
(* message on, or gives it up after one fault too many.                    *)
LEMMA NewsFlow ==
  ASSUME TypeInv, ToldInv, [Next]_vars, NEW i \in Instances, NEW e \in Event, AtNews(i, e),
         InstanceStep(i) \/ (InstanceFault(i) /\ faults' = faults + 1)
  PROVE  Coming(e)'
<1> USE DEF TypeInv, WorkersOK, InstancesTypeOK, At, Goto
<1>1. /\ Role[i] = "notification" /\ delivered[i] /\ held[i] \in Message /\ EventOf(i) = e
      /\ pc[i] \in {"received", "guarded", "working", "retrying", "nacking"}
      /\ pc[i] \in {"retrying", "nacking"} => held[i].retry < faults
      /\ "notification" \in Workers
  BY DEF AtNews, HeldOK, Own, EventOf, Workers
<1>2. held[i].retry \in Nat /\ faults \in Nat /\ faults' \in Nat /\ faults <= faults'
  BY <1>1, FaultsGrow, SettingsAssumption DEF Message
<1>3. /\ held[i].event = e /\ held[i].notready = 0
      /\ held[i].retry <= faults /\ held[i].retry <= faults'
  BY <1>1, <1>2 DEF AtNews, Own, EventOf
<1>4. ASSUME held'[i] = held[i], delivered'[i],
             \/ pc'[i] \in {"guarded", "working"}
             \/ pc'[i] \in {"retrying", "nacking"} /\ held[i].retry < faults'
      PROVE  Coming(e)'
  BY <1>1, <1>3, <1>4 DEF Coming, AtNews, Own
<1>5. ASSUME e \in notifications' PROVE Coming(e)'
  BY <1>5 DEF Coming, Told
<1>6. CASE Insert(i)
  <2>1. CASE Processed("notification", e)
    <3>1. e \in notifications'
      BY <1>6, <2>1 DEF Insert, ToldInv, dbVars
    <3> QED
      BY <1>5, <3>1
  <2>2. CASE ~Processed("notification", e)
    <3>1. pc'[i] = "guarded" /\ held'[i] = held[i] /\ delivered'[i]
      BY <1>1, <1>6, <2>2 DEF Insert
    <3> QED
      BY <1>4, <3>1
  <2> QED
    BY <2>1, <2>2
<1>7. CASE Read(i)
  <2>1. ~NotReady(Role[i], orders[EventOf(i).order].status)
    BY <1>1 DEF NotReady
  <2>2. CASE AlreadyNotified(i)
    <3>1. e \in notifications'
      BY <1>1, <1>7, <2>1, <2>2 DEF Read, AlreadyNotified, dbVars
    <3> QED
      BY <1>5, <3>1
  <2>3. CASE ~AlreadyNotified(i)
    <3>1. pc'[i] = "working" /\ held'[i] = held[i] /\ delivered'[i]
      BY <1>1, <1>7, <2>1, <2>3 DEF Read
    <3> QED
      BY <1>4, <3>1
  <2> QED
    BY <2>2, <2>3
<1>8. CASE Commit(i)
  <2>1. e \in notifications'
    BY <1>1, <1>8 DEF Commit, Durable
  <2> QED
    BY <1>5, <2>1
<1>9. CASE SendRetry(i)
  <2>1. RetryCopy(i) = [held[i] EXCEPT !.retry = @ + 1, !.notready = 0] /\ pc[i] = "retrying"
    BY <1>1, <1>9 DEF SendRetry, RetryCopy
  <2>2. PICK m : m = [held[i] EXCEPT !.retry = @ + 1, !.notready = 0]
    OBVIOUS
  <2>3. m.event = e /\ m.notready = 0 /\ m.retry = held[i].retry + 1
    BY <1>1, <1>3, <2>2 DEF Message
  <2>4. m.retry <= faults'
    BY <1>1, <1>2, <2>1, <2>3
  <2>5. m \in BagToSet(retry'["notification"])
    BY <1>1, <1>9, <2>1, <2>2, DelayedWaits DEF SendRetry
  <2> QED
    BY <2>3, <2>4, <2>5 DEF Coming, Own
<1>10. CASE Nack(i)
  <2>1. held[i] \in dead'["notification"]
    BY <1>1, <1>10 DEF Nack, BrokerTypeOK
  <2>2. held[i].retry < faults'
    BY <1>1, <1>2, <1>10 DEF Nack
  <2> QED
    BY <1>3, <2>1, <2>2 DEF Coming, Told, GivenUp, Own
<1>11. CASE Crash(i) \/ ChannelDrops(i)
  <2>1. held[i] \in BagToSet(queue'["notification"])
    BY <1>1, <1>11, RequeuedWaits DEF Crash, ChannelDrops
  <2> QED
    BY <1>3, <2>1 DEF Coming, Own
<1>12. CASE /\ GuardFails(i) \/ ProcessFails(i) \/ CommitFails(i) \/ SendRetryFails(i)
            /\ faults' = faults + 1
  <2>1. AfterFailure(Role[i], held[i], "OperationalError") \in {"retrying", "nacking"}
    BY <1>1 DEF AfterFailure
  <2>2. /\ held'[i] = held[i] /\ delivered'[i]
        /\ pc'[i] \in {"retrying", "nacking"}
    BY <1>1, <1>12, <2>1
       DEF GuardFails, ProcessFails, CommitFails, SendRetryFails, FailWith
  <2>3. held[i].retry < faults'
    BY <1>2, <1>3, <1>12 DEF Own
  <2> QED
    BY <1>4, <2>2, <2>3
<1>13. ~(\/ Get(i) \/ PaymentFails(i) \/ PublishNext(i) \/ HookRead(i) \/ HookPublish(i)
         \/ HookCommit(i) \/ Ack(i) \/ Requeue(i) \/ HookDbFails(i) \/ PublishFails(i)
         \/ HookPublishFails(i))
  BY <1>1 DEF Get, PaymentFails, PublishNext, HookRead, HookPublish, HookCommit, Ack, Requeue,
              HookDbFails, PublishFails, HookPublishFails
<1>14. InstanceFault(i) => \/ Crash(i) \/ ChannelDrops(i) \/ GuardFails(i) \/ ProcessFails(i)
                           \/ CommitFails(i) \/ SendRetryFails(i)
  BY <1>13 DEF InstanceFault
<1>15. InstanceStep(i) => Insert(i) \/ Read(i) \/ Commit(i) \/ SendRetry(i) \/ Nack(i)
  BY <1>13 DEF InstanceStep
<1> QED
  BY <1>6, <1>7, <1>8, <1>9, <1>10, <1>11, <1>12, <1>14, <1>15

(* A step that is not an instance's leaves what is waiting and in hand.    *)
LEMMA OutsideWaits ==
  ASSUME TypeInv, Outside, NEW w \in Workers
  PROVE  /\ BagToSet(queue[w]) \cup BagToSet(retry[w]) \subseteq
              BagToSet(queue'[w]) \cup BagToSet(retry'[w])
         /\ UNCHANGED <<pc, held, delivered>>
<1>1. BrokerTypeOK
  BY DEF TypeInv, WorkersOK
<1>2. ASSUME NEW o \in Orders, RequestStep(o) \/ RequestFault(o)
      PROVE  queue' \in MaybePublished(Created(o)) /\ retry' = retry /\ UNCHANGED instanceVars
  BY <1>2 DEF RequestStep, RequestFault, ApiInsert, ApiPublish, ApiCommit, ApiPublishFails,
              ApiCommitFails, MaybePublished, brokerVars
<1>3. ASSUME NEW v \in Workers, BrokerStep(v) PROVE Expire(v) /\ UNCHANGED instanceVars
  BY <1>3 DEF BrokerStep
<1>4. ASSUME NEW v \in Workers, PoisonFault(v)
      PROVE  queue' = Requeued(v, NewMessage(Poison)) /\ retry' = retry /\ UNCHANGED instanceVars
  BY <1>4 DEF PoisonFault, InjectPoison
<1>5. CASE \E o \in Orders : RequestStep(o) \/ RequestFault(o)
  BY <1>1, <1>2, <1>5, RoutedWaits DEF MaybePublished, Published, instanceVars
<1>6. CASE \E v \in Workers : BrokerStep(v)
  BY <1>1, <1>3, <1>6, ExpireKeeps DEF instanceVars
<1>7. CASE \E v \in Workers : PoisonFault(v)
  BY <1>1, <1>4, <1>7, RequeuedWaits DEF instanceVars
<1>8. CASE UNCHANGED vars
  BY <1>8 DEF vars
<1> QED
  BY <1>5, <1>6, <1>7, <1>8 DEF Outside

(* So a notification that somebody sees to is always seen to.              *)
LEMMA ComingStays ==
  ASSUME TypeInv, ToldInv, [Next]_vars, NEW e \in Event, Coming(e)
  PROVE  Coming(e)'
<1>1. BrokerTypeOK /\ "notification" \in Workers /\ e # Poison
  BY SentinelAssumption DEF TypeInv, WorkersOK, Workers
<1>2. CASE Told(e)
  BY <1>2, ToldStays DEF Coming
<1>3. ASSUME NEW m \in BagToSet(queue["notification"]) \cup BagToSet(retry["notification"]),
             Own(m, e)
      PROVE  Coming(e)'
  <2>1. m \in Message
    BY <1>1 DEF BrokerTypeOK, MessageBag
  <2>2. Own(m, e)' /\ m.event = e
    <3>1. Own(m, e)'
      BY <1>3, <2>1, OwnStays
    <3> QED
      BY <1>3, <3>1 DEF Own
  <2>3. ASSUME m \in BagToSet(queue'["notification"]) \cup BagToSet(retry'["notification"])
        PROVE  Coming(e)'
    BY <2>2, <2>3 DEF Coming, Own
  <2>4. CASE Outside
    BY <1>1, <2>3, <2>4, OutsideWaits
  <2>5. ASSUME NEW i \in Instances, InstanceStep(i) \/ InstanceFault(i) PROVE Coming(e)'
    <3>1. CASE m \in BagToSet(retry["notification"])
      BY <1>1, <2>3, <2>5, <3>1, DelayedWaits, MessageFlow
    <3>2. CASE m \in BagToSet(queue["notification"]) /\ pc[i] # "idle"
      <4>1. m \in BagToSet(queue'["notification"])
        BY <1>1, <2>5, <3>2, RoleAssumption, RoutedWaits, RequeuedWaits, MessageFlow
           DEF Published
      <4> QED
        BY <2>3, <4>1
    <3>3. CASE m \in BagToSet(queue["notification"]) /\ pc[i] = "idle"
      <4>1. PICK n \in BagToSet(queue[Role[i]]) :
              /\ queue' = [queue EXCEPT ![Role[i]] = BagRemove(@, n)]
              /\ held' = [held EXCEPT ![i] = n]
        BY <2>5, <3>3, TakeFlow DEF Takes
      <4>2. CASE n = m /\ Role[i] = "notification"
        <5>1. Get(i)
          BY <2>5, <3>3, IdleGets
        <5>2. held'[i] = m /\ pc'[i] = "received" /\ delivered'[i]
          BY <1>1, <2>2, <4>1, <4>2, <5>1
             DEF Get, Goto, At, TypeInv, WorkersOK, InstancesTypeOK
        <5> QED
          BY <2>2, <4>2, <5>2 DEF Coming, AtNews, Own
      <4>3. CASE ~(n = m /\ Role[i] = "notification")
        <5>1. m \in BagToSet(queue'["notification"])
          BY <1>1, <3>3, <4>1, <4>3, BagRemoveKeeps DEF BrokerTypeOK
        <5> QED
          BY <2>3, <5>1
      <4> QED
        BY <4>2, <4>3
    <3> QED
      BY <1>3, <3>1, <3>2, <3>3
  <2> QED
    BY <2>4, <2>5 DEF Next, Fault, Outside
<1>4. ASSUME NEW j \in Instances, AtNews(j, e) PROVE Coming(e)'
  <2>1. ASSUME pc'[j] = pc[j], held'[j] = held[j], delivered'[j] = delivered[j]
        PROVE  Coming(e)'
    <3>1. held[j] \in Message
      BY <1>4 DEF AtNews, TypeInv, WorkersOK, HeldOK
    <3>2. Own(held[j], e)
      BY <1>4 DEF AtNews
    <3>3. /\ held[j].retry < faults => held[j].retry < faults'
          /\ held[j].retry <= faults => held[j].retry <= faults'
      BY <3>1, FaultsGrow, SettingsAssumption DEF Message
    <3> QED
      BY <1>4, <2>1, <3>2, <3>3 DEF Coming, AtNews, Own
  <2>2. CASE Outside
    BY <1>1, <2>1, <2>2, OutsideWaits
  <2>3. ASSUME NEW i \in Instances, InstanceStep(i) \/ (InstanceFault(i) /\ faults' = faults + 1)
        PROVE  Coming(e)'
    <3>1. CASE i = j
      BY <1>4, <2>3, <3>1, NewsFlow
    <3>2. CASE i # j
      BY <2>1, <2>3, <3>2, StepIsLocal DEF OthersStay
    <3> QED
      BY <3>1, <3>2
  <2> QED
    BY <2>2, <2>3 DEF Next, Fault, Outside
<1> QED
  BY <1>2, <1>3, <1>4 DEF Coming

(* Where the messages about an event come from: nobody makes one but by    *)
(* publishing it.                                                          *)
LEMMA SentFlow ==
  ASSUME TypeInv, [Next]_vars, NEW e \in Event, Sent(e)'
  PROVE  Sent(e) \/ queue' = Published(e)
<1> SUFFICES ASSUME ~Sent(e), queue' # Published(e) PROVE FALSE
  OBVIOUS
<1>1. BrokerTypeOK /\ e # Poison
  BY SentinelAssumption DEF TypeInv, WorkersOK
<1>2. /\ \A w \in Workers : \A m \in BagToSet(queue[w]) \cup BagToSet(retry[w]) \cup dead[w] :
            m.event # e
      /\ \A i \in Instances : pc[i] # "idle" => held[i].event # e
  BY DEF Sent, Waiting, DeadLettered, EventOf
<1>3. ASSUME NEW q, NEW key, NEW m, m.event # e, q = Routed(key, m)
      PROVE  \A w \in Workers : \A n \in BagToSet(q[w]) : n.event # e
  BY <1>1, <1>2, <1>3, BagAddSet DEF Routed
<1>4. ASSUME NEW f, f # e, queue' = Published(f)
      PROVE  \A w \in Workers : \A n \in BagToSet(queue'[w]) : n.event # e
  BY <1>3, <1>4 DEF Published, NewMessage
<1>5. ASSUME NEW v \in Workers, NEW m, m.event # e, queue' = Requeued(v, m)
      PROVE  \A w \in Workers : \A n \in BagToSet(queue'[w]) : n.event # e
  BY <1>1, <1>2, <1>5, BagAddSet DEF Requeued, BrokerTypeOK
<1>6. ASSUME /\ \A w \in Workers : \A m \in BagToSet(queue'[w]) \cup BagToSet(retry'[w]) : m.event # e
             /\ \A w \in Workers : \A m \in dead'[w] : m.event # e
             /\ \A i \in Instances : pc'[i] # "idle" => held'[i].event # e
      PROVE  FALSE
  BY <1>6 DEF Sent, Waiting, DeadLettered, EventOf
<1>7. ASSUME NEW i \in Instances, InstanceStep(i) \/ InstanceFault(i) PROVE FALSE
  <2>1. Role[i] \in Workers
    BY RoleAssumption
  <2>2. CASE pc[i] = "idle"
    <3>1. Get(i)
      BY <1>7, <2>2, IdleGets
    <3>2. PICK m \in BagToSet(queue[Role[i]]) :
            /\ queue' = [queue EXCEPT ![Role[i]] = BagRemove(@, m)]
            /\ held' = [held EXCEPT ![i] = m]
      BY <3>1 DEF Get
    <3>3. \A w \in Workers : BagToSet(queue'[w]) \subseteq BagToSet(queue[w])
      BY <1>1, <3>2, BagRemoveSet DEF BrokerTypeOK
    <3>4. retry' = retry /\ dead' = dead /\ \A j \in Instances \ {i} : pc'[j] = pc[j]
      BY <3>1 DEF Get, Goto, TypeInv, WorkersOK, InstancesTypeOK
    <3> QED
      BY <1>2, <1>6, <2>1, <3>2, <3>3, <3>4 DEF TypeInv, WorkersOK, InstancesTypeOK
  <2>3. CASE pc[i] # "idle"
    <3>1. held[i] \in Message /\ held[i].event # e
      BY <1>2, <2>3 DEF TypeInv, WorkersOK, HeldOK
    <3>2. \A w \in Workers : \A m \in BagToSet(queue'[w]) : m.event # e
      BY <1>2, <1>4, <1>5, <1>7, <2>1, <2>3, <3>1, MessageFlow
    <3>3. \A w \in Workers : \A m \in BagToSet(retry'[w]) : m.event # e
      <4>1. RetryCopy(i).event # e
        BY <3>1 DEF RetryCopy, Message
      <4> QED
        BY <1>1, <1>2, <1>7, <2>1, <4>1, BagAddSet, MessageFlow DEF Delayed, BrokerTypeOK
    <3>4. \A w \in Workers : \A m \in dead'[w] : m.event # e
      BY <1>1, <1>2, <1>7, <2>1, <3>1, DeadGrows DEF BrokerTypeOK
    <3>5. \A j \in Instances : pc'[j] # "idle" => held'[j].event # e
      BY <1>2, <1>7, <2>3, <3>1, StepIsLocal, MessageFlow DEF OthersStay
    <3> QED
      BY <1>6, <3>2, <3>3, <3>4, <3>5
  <2> QED
    BY <2>2, <2>3
<1>8. ASSUME NEW o \in Orders, RequestStep(o) \/ RequestFault(o) PROVE FALSE
  <2>1. /\ queue' \in MaybePublished(Created(o)) /\ UNCHANGED <<retry, dead>>
        /\ UNCHANGED instanceVars
    BY <1>8 DEF RequestStep, RequestFault, ApiInsert, ApiPublish, ApiCommit, ApiPublishFails,
                ApiCommitFails, MaybePublished, brokerVars
  <2>2. \A w \in Workers : \A m \in BagToSet(queue'[w]) : m.event # e
    <3>1. PICK f : f = Created(o)
      OBVIOUS
    <3>2. queue' = queue \/ (queue' = Published(f) /\ f # e)
      BY <2>1, <3>1 DEF MaybePublished
    <3> QED
      BY <1>2, <1>4, <3>2
  <2> QED
    BY <1>2, <1>6, <2>1, <2>2 DEF instanceVars
<1>9. ASSUME NEW v \in Workers, BrokerStep(v) PROVE FALSE
  <2>1. PICK m \in BagToSet(retry[v]) :
          /\ retry' = [retry EXCEPT ![v] = BagRemove(@, m)]
          /\ queue' = Routed(RetryRoutingKey[v], m)
    BY <1>9 DEF BrokerStep, Expire
  <2>2. \A w \in Workers : BagToSet(retry'[w]) \subseteq BagToSet(retry[w])
    BY <1>1, <2>1, BagRemoveSet DEF BrokerTypeOK
  <2>3. dead' = dead /\ UNCHANGED instanceVars
    BY <1>9 DEF BrokerStep, Expire
  <2>4. \A w \in Workers : \A n \in BagToSet(queue'[w]) : n.event # e
    BY <1>2, <1>3, <2>1
  <2> QED
    BY <1>2, <1>6, <2>2, <2>3, <2>4 DEF instanceVars
<1>10. ASSUME NEW v \in Workers, PoisonFault(v) PROVE FALSE
  <2>1. queue' = Requeued(v, NewMessage(Poison)) /\ NewMessage(Poison).event # e
    BY <1>1, <1>10 DEF PoisonFault, InjectPoison, NewMessage
  <2>2. UNCHANGED <<retry, dead, pc, held>>
    BY <1>10 DEF PoisonFault, InjectPoison, instanceVars
  <2>3. \A w \in Workers : \A n \in BagToSet(queue'[w]) : n.event # e
    BY <1>5, <2>1
  <2> QED
    BY <1>2, <1>6, <2>2, <2>3
<1>11. CASE UNCHANGED vars
  BY <1>2, <1>6, <1>11 DEF vars
<1> QED
  BY <1>7, <1>8, <1>9, <1>10, <1>11 DEF Next, Fault

(* Whatever is published is on its way to the customer.                    *)
LEMMA ComingStep == TypeInv /\ ToldInv /\ ComingInv /\ [Next]_vars => ComingInv'
<1> SUFFICES ASSUME TypeInv, ToldInv, ComingInv, [Next]_vars, NEW e \in Event, Sent(e)'
             PROVE  Coming(e)'
  BY DEF ComingInv
<1>1. CASE Sent(e)
  BY <1>1, ComingStays DEF ComingInv
<1>2. CASE queue' = Published(e)
  <2>1. NewMessage(e) \in BagToSet(queue'["notification"])
    <3>1. "notification" \in Consumers(e.type)
      BY DEF Event, Consumers, Bindings, Workers
    <3> QED
      BY <1>2, <3>1, RoutedWaits DEF Published, TypeInv, WorkersOK
  <2>2. Own(NewMessage(e), e)'
    BY FaultsGrow DEF Own, NewMessage
  <2> QED
    BY <2>1, <2>2 DEF Coming
<1> QED
  BY <1>1, <1>2, SentFlow

(* Nobody is forgotten.                                                    *)
LEMMA ComingInvariant == Safety => []ComingInv
<1>1. Init => ComingInv
  <2> SUFFICES ASSUME Init, NEW e PROVE ~Sent(e)
    BY DEF ComingInv
  <2>1. BagToSet(EmptyBag) = {}
    BY DEF EmptyBag, SetToBag, BagToSet
  <2> QED
    BY <2>1 DEF Init, BrokerInit, InstancesInit, Sent, Waiting, DeadLettered
<1> QED
  BY <1>1, ComingStep, TypeInvariant, SettlingInvariant, PTL DEF Safety

----------------------------------------------------------------------------
(* At rest nothing is held but by the dead letters.                        *)
LEMMA RestHeld ==
  ASSUME EveryWorkerRuns, AtRest, NEW w \in Workers, NEW e, Held(w, e)
  PROVE  DeadLettered(w, e)
<1>1. queue[w] = EmptyBag /\ retry[w] = EmptyBag
  BY DEF EveryWorkerRuns, AtRest
<1>2. ~Waiting(w, e)
  BY <1>1 DEF Waiting, EmptyBag, SetToBag, BagToSet
<1>3. ~InHand(w, e)
  BY DEF AtRest, InHand, At
<1> QED
  BY <1>2, <1>3 DEF Held

(* So every event in the outbox has reached whoever should see it, or the  *)
(* message that has to publish it awaits review.                           *)
LEMMA RestStored ==
  ASSUME TypeInv, NothingDropped, EveryWorkerRuns, AtRest,
         NEW r \in processed_events, NEW e \in r.outgoing
  PROVE  Reached(e) \/ DeadLettered(r.worker, r.event)
<1>1. r.worker \in Workers
  BY DEF TypeInv, WorkersOK, DbTypeOK, LedgerRow
<1> QED
  BY <1>1, RestHeld DEF NothingDropped

(* In the latter case its order awaits review.                             *)
LEMMA RestReached ==
  ASSUME TypeInv, LedgerInv, NothingDropped, EveryWorkerRuns, AtRest,
         NEW e, InOutbox(e)
  PROVE  Reached(e) \/ ForReview(e.order, Chain)
<1>1. PICK r \in processed_events : e \in r.outgoing
  BY DEF InOutbox
<1>2. r.worker \in Chain /\ r.event \in Event /\ r.event.order = e.order
  BY <1>1 DEF LedgerInv, TypeInv, WorkersOK, DbTypeOK, LedgerRow
<1> QED
  BY <1>1, <1>2, RestStored DEF ForReview

(* A worker of the chain that an event has reached has processed it or     *)
(* given it up.                                                            *)
LEMMA RestProcessed ==
  ASSUME EveryWorkerRuns, AtRest, NEW e \in Event, Reached(e),
         NEW w \in Consumers(e.type)
  PROVE  Processed(w, e) \/ DeadLettered(w, e)
BY RestHeld DEF Reached, Consumers

(* When the workers have come to rest, every order in the database is      *)
(* settled.                                                                *)
LEMMA RestSettles ==
  ASSUME TypeInv, LedgerInv, OriginInv, MovedInv, NothingDropped, EveryWorkerRuns, AtRest,
         NEW o \in Orders, orders[o].status # "none"
  PROVE  Settled(o)
<1> SUFFICES ASSUME orders[o].status \notin {"DRIVER_ASSIGNED", "FAILED"},
                    ~ForReview(o, Chain)
             PROVE  FALSE
  BY DEF Settled
<1>1. /\ Created(o) \in Event /\ Created(o).order = o
      /\ Paid(o) \in Event /\ Paid(o).order = o
      /\ Confirmed(o) \in Event /\ Confirmed(o).order = o
      /\ "payment" \in Consumers(Created(o).type)
      /\ "restaurant" \in Consumers(Paid(o).type)
      /\ "delivery" \in Consumers(Confirmed(o).type)
  BY DEF Created, Paid, Confirmed, Event, EventTypes, Consumers, Bindings, Workers
<1>2. ASSUME NEW w \in Chain, NEW e \in Event, e.order = o PROVE ~DeadLettered(w, e)
  BY <1>2 DEF ForReview
<1>3. ASSUME NEW w, NEW e, Processed(w, e), e.order = o PROVE Moved(w, o)
  BY <1>3 DEF MovedInv, Processed, Rows
<1>4. InOutbox(Paid(o))
  <2>1. Processed("payment", Created(o))
    BY <1>1, <1>2, RestProcessed DEF NothingDropped, Chain
  <2> QED
    BY <1>1, <1>3, <2>1 DEF Moved, MovedPayment
<1>5. InOutbox(Confirmed(o))
  <2>1. Processed("restaurant", Paid(o))
    BY <1>1, <1>2, <1>4, RestReached, RestProcessed DEF Chain
  <2> QED
    BY <1>1, <1>3, <2>1 DEF Moved, MovedRestaurant
<1>6. Processed("delivery", Confirmed(o))
  BY <1>1, <1>2, <1>5, RestReached, RestProcessed DEF Chain
<1> QED
  BY <1>1, <1>3, <1>6 DEF Moved, MovedDelivery

(* And of an event that has reached everyone the customer has been told,   *)
(* or his notification was given up.                                       *)
LEMMA RestNews ==
  ASSUME ToldInv, ComingInv, EveryWorkerRuns, AtRest, NEW e \in Event, Reached(e)
  PROVE  Told(e)
<1>1. "notification" \in Consumers(e.type) /\ "notification" \in Workers
  BY DEF Event, Consumers, Bindings, Workers
<1>2. CASE Processed("notification", e)
  BY <1>2 DEF ToldInv, Told
<1>3. CASE DeadLettered("notification", e)
  <2>1. Coming(e)
    BY <1>1, <1>3 DEF ComingInv, Sent
  <2>2. queue["notification"] = EmptyBag /\ retry["notification"] = EmptyBag
    BY <1>1 DEF EveryWorkerRuns, AtRest
  <2>3. BagToSet(EmptyBag) = {}
    BY DEF EmptyBag, SetToBag, BagToSet
  <2>4. \A i \in Instances : ~AtNews(i, e)
    BY DEF AtRest, AtNews, At
  <2> QED
    BY <2>1, <2>2, <2>3, <2>4 DEF Coming
<1> QED
  BY <1>1, <1>2, <1>3, RestProcessed

(* So the customer is up to date when the workers have come to rest.       *)
LEMMA RestTold ==
  ASSUME TypeInv, ToldInv, ComingInv, NothingDropped, FailureAnnounced, EveryWorkerRuns, AtRest
  PROVE  UpToDate
<1>1. ASSUME NEW o \in Orders, orders[o].status # "none" PROVE Told(Created(o))
  <2>1. Created(o) \in Event
    BY DEF Created, Event, EventTypes
  <2> QED
    BY <1>1, <2>1, RestNews DEF NothingDropped
<1>2. ASSUME NEW o \in Orders, orders[o].status = "FAILED"
      PROVE  Told([order |-> o, type |-> "order.payment.failed"])
  <2>1. [order |-> o, type |-> "order.payment.failed"] \in Event
    BY DEF Event, EventTypes
  <2> QED
    BY <1>2, <2>1, RestNews DEF FailureAnnounced
<1>3. ASSUME NEW r \in processed_events, NEW e \in r.outgoing
      PROVE  Told(e) \/ DeadLettered(r.worker, r.event)
  <2>1. e \in Event
    BY DEF TypeInv, WorkersOK, DbTypeOK, LedgerRow
  <2> QED
    BY <2>1, RestStored, RestNews
<1> QED
  BY <1>1, <1>2, <1>3 DEF UpToDate

(* No order is unsettled once no message waits and no instance works.      *)
QuietIsSettled ==
  AtRest => \A o \in Orders : orders[o].status # "none" => Settled(o)

(* Where every worker runs, nothing hangs in silence: whenever no message  *)
(* is waiting and nobody is at work, every order in the database has been  *)
(* delivered or is FAILED, or one of its messages awaits manual review.    *)
THEOREM QuietMeansSettled == EveryWorkerRuns => (Safety => []QuietIsSettled)
<1> SUFFICES ASSUME EveryWorkerRuns PROVE Safety => []QuietIsSettled
  OBVIOUS
<1>1. TypeInv /\ LedgerInv /\ OriginInv /\ MovedInv /\ KeepingInv => QuietIsSettled
  BY RestSettles DEF QuietIsSettled, KeepingInv
<1> QED
  BY <1>1, TypeInvariant, NewsInvariant, SettlingInvariant, KeepingInvariant, PTL

(* No order hangs: if retrying ends, every order in the database ends      *)
(* delivered or FAILED, or one of its messages awaits manual review.       *)
THEOREM SettledIfRetriesEnd == EveryWorkerRuns => (Safety => (RetriesEnd => OrdersSettle))
<1> SUFFICES ASSUME EveryWorkerRuns PROVE Safety => (RetriesEnd => OrdersSettle)
  OBVIOUS
<1>1. ASSUME NEW o \in Orders
      PROVE  Safety /\ RetriesEnd => (orders[o].status # "none" ~> Settled(o))
  <2>1. TypeInv /\ [Next]_vars /\ orders[o].status # "none" => (orders[o].status # "none")'
    BY RowStays
  <2>2. QuietIsSettled /\ AtRest /\ orders[o].status # "none" => Settled(o)
    BY DEF QuietIsSettled
  <2>3. Safety => []QuietIsSettled
    BY QuietMeansSettled
  <2> QED
    BY <2>1, <2>2, <2>3, TypeInvariant, PTL DEF Safety, RetriesEnd
<1> QED
  BY <1>1 DEF OrdersSettle

(* The customer is brought up to date again and again, if retrying ends.   *)
THEOREM ToldIfRetriesEnd == EveryWorkerRuns => (Safety => (RetriesEnd => CustomerTold))
<1> SUFFICES ASSUME EveryWorkerRuns PROVE Safety => (RetriesEnd => CustomerTold)
  OBVIOUS
<1>1. TypeInv /\ ToldInv /\ ComingInv /\ KeepingInv /\ AtRest => UpToDate
  BY RestTold DEF KeepingInv
<1> QED
  BY <1>1, TypeInvariant, SettlingInvariant, ComingInvariant, KeepingInvariant, PTL
     DEF RetriesEnd, CustomerTold

----------------------------------------------------------------------------
(* The retry budget.  As long as only crashes, dropped channels and poison *)
(* come in between, the payment of an order that fails twice is never      *)
(* given up but for the rechecks: PaymentWorker never gets to its hook     *)
(* with it, and its message is dead-lettered only as never ready.          *)
Patient(o) == Behavior[o] = "fail_twice" /\ MaxRetries >= 2

NoErrors == FaultKinds \cap {"database", "broker"} = {}

PatientHand(i, o) ==
  Role[i] = "payment" /\ pc[i] # "idle" /\ EventOf(i) = Created(o) =>
    /\ pc[i] \notin {"hook", "hookPublish", "hookCommit"}
    /\ pc[i] = "nacking" => held[i].notready = NotReadyMax

PatientInv(o) ==
  /\ orders[o].status # "FAILED"
  /\ \A m \in dead["payment"] : m.event = Created(o) => m.notready = NotReadyMax
  /\ \A i \in Instances : PatientHand(i, o)

(* A declined payment is retried: the order pays at the third attempt.     *)
LEMMA DeclinedRetries ==
  ASSUME NEW o \in Orders, Patient(o), NEW m \in Message, NEW w,
         TRUE \in ShouldFail(o, m.retry + 1)
  PROVE  AfterFailure(w, m, "TransientError") = "retrying"
<1>1. m.retry + 1 <= 2
  BY DEF Patient, ShouldFail, Simulated
<1>2. m.retry < MaxRetries
  BY <1>1, SettingsAssumption DEF Message, Patient
<1> QED
  BY <1>2 DEF AfterFailure

(* A step of an instance with the message of such an order in its hands.   *)
LEMMA PatientInstance ==
  ASSUME TypeInv, NoErrors, NEW o \in Orders, Patient(o), NEW i \in Instances, PatientHand(i, o),
         InstanceStep(i) \/ InstanceFault(i)
  PROVE  PatientHand(i, o)'
<1> SUFFICES ASSUME Role[i] = "payment", pc'[i] # "idle", EventOf(i)' = Created(o)
             PROVE  /\ pc'[i] \notin {"hook", "hookPublish", "hookCommit"}
                    /\ pc'[i] = "nacking" => held'[i].notready = NotReadyMax
  BY DEF PatientHand
<1> USE DEF TypeInv, WorkersOK, InstancesTypeOK, At, Goto
<1>1. CASE Get(i)
  <2>1. Created(o) # Poison
    BY SentinelAssumption DEF Created, Event, EventTypes
  <2> QED
    BY <1>1, <2>1 DEF Get, EventOf
<1>2. CASE \/ Insert(i) \/ Commit(i) \/ PublishNext(i) \/ SendRetry(i) \/ ChannelDrops(i)
  BY <1>2 DEF Insert, Commit, MayCommit, PublishNext, SendRetry, ChannelDrops, PatientHand, EventOf
<1>3. CASE HookRead(i) \/ HookPublish(i) \/ HookCommit(i)
  BY <1>3 DEF HookRead, HookPublish, HookCommit, PatientHand, EventOf
<1>4. CASE Read(i)
  <2>1. held[i] \in Message /\ held'[i] = held[i]
    BY <1>4 DEF HeldOK, Read, FailWith
  <2>2. CASE FailWith(i, "UpstreamNotReady")
    BY <2>1, <2>2, SettingsAssumption DEF FailWith, AfterFailure, Message
  <2>3. CASE pc'[i] \in {"acking", "working"}
    BY <2>3
  <2> QED
    BY <1>4, <2>2, <2>3 DEF Read
<1>5. CASE PaymentFails(i)
  <2>1. held[i] \in Message /\ held'[i] = held[i] /\ EventOf(i) = Created(o)
    BY <1>5 DEF HeldOK, PaymentFails, FailWith, EventOf
  <2>2. TRUE \in ShouldFail(o, held[i].retry + 1)
    <3>1. EventOf(i).order = o
      BY <2>1 DEF Created
    <3>2. TRUE \in ShouldFail(EventOf(i).order, held[i].retry + 1)
      BY <1>5 DEF PaymentFails, AttemptOf
    <3> QED
      BY <3>1, <3>2, Zenon
  <2>3. AfterFailure(Role[i], held[i], "TransientError") = "retrying"
    BY <2>1, <2>2, DeclinedRetries
  <2> QED
    BY <1>5, <2>3 DEF PaymentFails, FailWith
<1>6. CASE Ack(i) \/ Nack(i) \/ Requeue(i) \/ Crash(i)
  BY <1>6 DEF Ack, Nack, Requeue, Crash, Idle
<1>7. InstanceFault(i) => Crash(i) \/ ChannelDrops(i)
  BY DEF InstanceFault, NoErrors
<1> QED
  BY <1>1, <1>2, <1>3, <1>4, <1>5, <1>6, <1>7 DEF InstanceStep

(* Such an order stays out of the hook, whatever happens.                  *)
LEMMA PatientStep ==
  ASSUME NEW o \in Orders, Patient(o), NoErrors
  PROVE  TypeInv /\ RoutingInv /\ ProgressInv /\ HookInv /\ PatientInv(o) /\ [Next]_vars
         => PatientInv(o)'
<1> SUFFICES ASSUME TypeInv, RoutingInv, ProgressInv, HookInv, PatientInv(o), [Next]_vars
             PROVE  PatientInv(o)'
  OBVIOUS
<1>1. orders'[o].status # "FAILED"
  <2>1. ASSUME NEW i \in Instances, At(i, "hookCommit"), o = EventOf(i).order PROVE FALSE
    BY <2>1, WorkedEvent DEF At, HookInv, PatientInv, PatientHand
  <2>2. \A i \in Instances : Proceeds(Role[i], seen[i]) =>
          Advanced(Role[i], orders[o]).status # "FAILED"
    BY DEF Proceeds, Chain, Advanced, NextStatus
  <2> QED
    BY <2>1, <2>2, RowFlow DEF PatientInv, NewOrder, NoOrder
<1>2. ASSUME NEW i \in Instances, InstanceStep(i) \/ InstanceFault(i) PROVE PatientInv(o)'
  <2>1. ASSUME NEW j \in Instances PROVE PatientHand(j, o)'
    <3>1. CASE j = i
      BY <1>2, <3>1, PatientInstance DEF PatientInv
    <3>2. CASE j # i
      BY <1>2, <3>2, StepIsLocal DEF OthersStay, PatientInv, PatientHand, EventOf
    <3> QED
      BY <3>1, <3>2
  <2>2. \A m \in dead'["payment"] : m.event = Created(o) => m.notready = NotReadyMax
    <3>1. CASE UNCHANGED dead
      BY <3>1 DEF PatientInv
    <3>2. CASE Nack(i)
      BY <3>2 DEF Nack, At, PatientInv, PatientHand, EventOf, TypeInv, WorkersOK, BrokerTypeOK
    <3>3. CASE \/ Get(i) \/ Insert(i) \/ Read(i) \/ PaymentFails(i) \/ Commit(i)
               \/ PublishNext(i) \/ SendRetry(i) \/ HookRead(i) \/ HookPublish(i)
               \/ HookCommit(i) \/ Ack(i) \/ Requeue(i) \/ Crash(i) \/ ChannelDrops(i)
      <4>1. UNCHANGED dead
        BY <3>3 DEF Get, Insert, Read, PaymentFails, FailWith, Commit, PublishNext, SendRetry,
           HookRead, HookPublish, HookCommit, Ack, Requeue, Crash, ChannelDrops, brokerVars
      <4> QED
        BY <3>1, <4>1
    <3> QED
      BY <1>2, <3>2, <3>3 DEF InstanceStep, InstanceFault, NoErrors
  <2> QED
    BY <1>1, <2>1, <2>2 DEF PatientInv
<1>3. ASSUME UNCHANGED <<instanceVars, dead>> PROVE PatientInv(o)'
  BY <1>1, <1>3 DEF PatientInv, PatientHand, EventOf, instanceVars
<1>4. ASSUME NEW p \in Orders, RequestStep(p) \/ RequestFault(p) PROVE PatientInv(o)'
  BY <1>3, <1>4 DEF RequestStep, RequestFault, ApiInsert, ApiPublish, ApiCommit,
                    ApiPublishFails, ApiCommitFails, brokerVars
<1>5. ASSUME NEW w \in Workers, BrokerStep(w) \/ PoisonFault(w) PROVE PatientInv(o)'
  BY <1>3, <1>5 DEF BrokerStep, PoisonFault, Expire, InjectPoison
<1>6. CASE UNCHANGED vars
  BY <1>3, <1>6 DEF vars, instanceVars
<1> QED
  BY <1>2, <1>4, <1>5, <1>6 DEF Next, Fault

(* So the order of a payment that fails twice is never FAILED.             *)
LEMMA PatientInvariant ==
  ASSUME NEW o \in Orders, Patient(o), NoErrors
  PROVE  Safety => []PatientInv(o)
<1>1. Init => PatientInv(o)
  BY DEF Init, BrokerInit, DbInit, NoOrder, InstancesInit, PatientInv, PatientHand, Workers
<1> QED
  BY <1>1, TypeInvariant, RoutingInvariant, NewsInvariant, FreshInvariant, PatientStep, PTL
     DEF Safety

(* At rest such an order is paid, or its message was never ready.          *)
LEMMA RestPaid ==
  ASSUME NEW o \in Orders, TypeInv, ProgressInv, MovedInv, NothingDropped, PatientInv(o),
         EveryWorkerRuns, AtRest, orders[o].status # "none"
  PROVE  \/ orders[o].payment_id > 0
         \/ \E m \in dead["payment"] : m.event = Created(o) /\ m.notready = NotReadyMax
<1>1. Created(o) \in Event /\ "payment" \in Consumers(Created(o).type)
  BY DEF Created, Event, EventTypes, Consumers, Bindings, Workers
<1>2. Processed("payment", Created(o)) \/ DeadLettered("payment", Created(o))
  BY <1>1, RestProcessed DEF NothingDropped
<1>3. ASSUME Processed("payment", Created(o)) PROVE orders[o].payment_id > 0
  <2>1. Moved("payment", o)
    BY <1>3 DEF MovedInv, Processed, Rows, Created
  <2> QED
    BY <2>1 DEF Moved, MovedPayment, PatientInv, ProgressInv, ProgressOK
<1> QED
  BY <1>2, <1>3 DEF DeadLettered, PatientInv

(* The retry budget suffices for a payment that fails twice, however many  *)
(* instances crash or lose their channels, if retrying ends: the order is  *)
(* never FAILED and is paid, unless its message was given up as never      *)
(* ready before the API committed.                                         *)
THEOREM RecoversIfRetriesEnd ==
  EveryWorkerRuns /\ NoErrors => (Safety => (RetriesEnd => RecoversFromTwoFailures))
<1> SUFFICES ASSUME EveryWorkerRuns, NoErrors
             PROVE  Safety => (RetriesEnd => RecoversFromTwoFailures)
  OBVIOUS
<1>1. ASSUME NEW o \in Orders, Behavior[o] = "fail_twice" /\ MaxRetries >= 2
      PROVE  Safety /\ RetriesEnd =>
               /\ [](orders[o].status # "FAILED")
               /\ orders[o].status = "PENDING" ~>
                    \/ orders[o].payment_id > 0
                    \/ \E m \in dead["payment"] : m.event = Created(o) /\ m.notready = NotReadyMax
  <2>1. TypeInv /\ [Next]_vars /\ orders[o].status # "none" => (orders[o].status # "none")'
    BY RowStays
  <2>2. TypeInv /\ ProgressInv /\ MovedInv /\ KeepingInv /\ PatientInv(o) /\ AtRest
        /\ orders[o].status # "none" =>
          \/ orders[o].payment_id > 0
          \/ \E m \in dead["payment"] : m.event = Created(o) /\ m.notready = NotReadyMax
    BY RestPaid DEF KeepingInv
  <2>3. PatientInv(o) => orders[o].status # "FAILED"
    BY DEF PatientInv
  <2>4. orders[o].status = "PENDING" => orders[o].status # "none"
    OBVIOUS
  <2>5. Safety => []PatientInv(o)
    BY <1>1, PatientInvariant DEF Patient
  <2> QED
    BY <2>1, <2>2, <2>3, <2>4, <2>5, TypeInvariant, NewsInvariant, SettlingInvariant,
       KeepingInvariant, PTL DEF Safety, RetriesEnd
<1> QED
  BY <1>1 DEF RecoversFromTwoFailures

=============================================================================
