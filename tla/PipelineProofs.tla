--------------------------- MODULE PipelineProofs ---------------------------
(***************************************************************************)
(* Type correctness of Pipeline, and that effects happen once, for any set *)
(* of orders and instances, any settings and any number of faults of every *)
(* kind.  The invariant is built up in layers, each inductive relative to  *)
(* those before it: TypeInv adds to TypeOK what the program counter of an  *)
(* instance promises of the message in its hands, messages are where they  *)
(* belong (RoutingInv), the guard is exclusive (GuardInv), and every       *)
(* effect is tied to a ledger row (EffectsInv).                            *)
(***************************************************************************)
EXTENDS Pipeline, TLAPS

(* Types.                                                                  *)

(* Adding to a bag adds one element to its set.                            *)
LEMMA BagAddSet == ASSUME NEW b, NEW x
                   PROVE  BagToSet(BagAdd(b, x)) = BagToSet(b) \cup {x}
BY DEF BagAdd, BagToSet

(* Removing from a bag adds nothing to its set.                            *)
LEMMA BagRemoveSet == ASSUME NEW b, NEW x
                      PROVE  BagToSet(BagRemove(b, x)) \subseteq BagToSet(b)
BY DEF BagRemove, BagToSet

(* A bag of messages stays one when a message is added to it.              *)
LEMMA BagAddMessage == ASSUME NEW b, MessageBag(b), NEW m \in Message
                       PROVE  MessageBag(BagAdd(b, m))
<1>1. IsABag(BagAdd(b, m))
  BY DEF MessageBag, IsABag, BagAdd
<1> QED
  BY <1>1, BagAddSet DEF MessageBag

(* A bag of messages stays one when something is removed from it.          *)
LEMMA BagRemoveMessage == ASSUME NEW b, MessageBag(b), NEW m
                          PROVE  MessageBag(BagRemove(b, m))
<1>1. IsABag(BagRemove(b, m))
  BY DEF MessageBag, IsABag, BagRemove
<1> QED
  BY <1>1, BagRemoveSet DEF MessageBag

(* An empty queue is a bag of messages.                                    *)
LEMMA EmptyMessageBag == MessageBag(EmptyBag)
BY DEF MessageBag, EmptyBag, IsABag, BagToSet, SetToBag

(* process() of any worker returns events.                                 *)
LEMMA OutgoingEvents ==
  ASSUME NEW w \in Workers, NEW status, NEW e \in Event
  PROVE  Outgoing(w, status, e) \subseteq Event
BY DEF Outgoing, Proceeds, Chain, Emits, Event, EventTypes

(* What a chain worker writes is an order row.                             *)
LEMMA AdvancedRow ==
  ASSUME NEW w \in Chain, NEW row \in OrderRow
  PROVE  Advanced(w, row) \in OrderRow
BY DEF Chain, Advanced, NextStatus, OrderRow, Statuses

(* build_message with default headers returns a message.                   *)
LEMMA NewMessageType == ASSUME NEW e \in Event \cup {Poison} PROVE NewMessage(e) \in Message
BY SettingsAssumption DEF NewMessage, Message

QueuesOK(q) == DOMAIN q = Workers /\ \A w \in Workers : MessageBag(q[w])

(* Routing a message by any key leaves bags of messages.                   *)
LEMMA RoutedQueues ==
  ASSUME BrokerTypeOK, NEW key, NEW m \in Message
  PROVE  QueuesOK(Routed(key, m))
BY BagAddMessage DEF BrokerTypeOK, QueuesOK, Routed

----------------------------------------------------------------------------
(* Type correctness.  A step of an instance is well typed only where its   *)
(* program counter promises something of the message in hand.              *)
HeldOK ==
  \A i \in Instances :
    /\ pc[i] # "idle" => held[i] \in Message
    /\ pc[i] \notin {"idle", "nacking"} => held[i].event \in Event
    /\ pc[i] = "retrying" => held[i].retry < MaxRetries
    /\ pc[i] = "rechecking" => held[i].notready < NotReadyMax

WorkersOK == BrokerTypeOK /\ DbTypeOK /\ InstancesTypeOK /\ HeldOK

(* The broker's type does not depend on anything else.                     *)
LEMMA BrokerStays == BrokerTypeOK /\ UNCHANGED brokerVars => BrokerTypeOK'
BY DEF BrokerTypeOK, brokerVars, MessageBag

(* Nor does the database's.                                                *)
LEMMA DbStays == DbTypeOK /\ UNCHANGED dbVars => DbTypeOK'
BY DEF DbTypeOK, dbVars

(* Nor does that of the instances.                                         *)
LEMMA InstancesStay ==
  InstancesTypeOK /\ HeldOK /\ UNCHANGED instanceVars => InstancesTypeOK' /\ HeldOK'
BY DEF InstancesTypeOK, HeldOK, instanceVars

(* Ending a session and failing leave the instances well typed.            *)
LEMMA IdleType ==
  ASSUME InstancesTypeOK, HeldOK, NEW i \in Instances, Idle(i)
  PROVE  InstancesTypeOK' /\ HeldOK'
BY DEF InstancesTypeOK, HeldOK, Idle, Goto, Forget, Labels, Statuses

(* A retry or a recheck is chosen only below its limit, and the hook runs  *)
(* for the payment worker alone, with its retries exhausted.               *)
LEMMA AfterFailureLabel ==
  ASSUME NEW w, NEW m \in Message, NEW exc
  PROVE  /\ AfterFailure(w, m, exc) \in {"rechecking", "retrying", "hook", "nacking"}
         /\ AfterFailure(w, m, exc) = "retrying" => m.retry < MaxRetries
         /\ AfterFailure(w, m, exc) = "rechecking" => m.notready < NotReadyMax
         /\ AfterFailure(w, m, exc) = "hook" => w = "payment" /\ m.retry = MaxRetries
BY SettingsAssumption DEF AfterFailure, Message

(* _handle_failure keeps the instances well typed.                         *)
LEMMA FailType ==
  ASSUME InstancesTypeOK, HeldOK, NEW i \in Instances, NEW exc,
         pc[i] \notin {"idle", "nacking"}, UNCHANGED held, UNCHANGED delivered,
         Goto(i, AfterFailure(Role[i], held[i], exc)), Forget(i)
  PROVE  InstancesTypeOK' /\ HeldOK'
<1>1. held[i] \in Message /\ held[i].event \in Event
  BY DEF HeldOK
<1>2. AfterFailure(Role[i], held[i], exc) \in Labels
  BY <1>1, AfterFailureLabel DEF Labels
<1>3. InstancesTypeOK'
  BY <1>2 DEF InstancesTypeOK, Goto, Forget, Statuses
<1>4. HeldOK'
  BY <1>1, AfterFailureLabel DEF InstancesTypeOK, HeldOK, Goto
<1> QED
  BY <1>3, <1>4

(* A step that changes nothing of the broker but the work queues, and      *)
(* leaves bags of messages in them, keeps the broker's type.               *)
LEMMA QueuesStep ==
  ASSUME BrokerTypeOK, QueuesOK(queue'), UNCHANGED <<retry, dead>>
  PROVE  BrokerTypeOK'
BY DEF BrokerTypeOK, QueuesOK, MessageBag

(* Requeueing a message leaves bags of messages.                           *)
LEMMA RequeuedQueues ==
  ASSUME BrokerTypeOK, NEW w \in Workers, NEW m \in Message
  PROVE  QueuesOK(Requeued(w, m))
BY BagAddMessage DEF BrokerTypeOK, QueuesOK, Requeued

(* So does publishing an event, whether or not it was confirmed.           *)
LEMMA PublishedQueues ==
  ASSUME BrokerTypeOK, NEW e \in Event
  PROVE  QueuesOK(Published(e)) /\ \A q \in MaybePublished(e) : QueuesOK(q)
<1>1. QueuesOK(Published(e))
  BY NewMessageType, RoutedQueues DEF Published
<1>2. QueuesOK(queue)
  BY DEF BrokerTypeOK, QueuesOK
<1> QED
  BY <1>1, <1>2 DEF MaybePublished

(* Get keeps the types.                                                    *)
LEMMA GetType ==
  ASSUME WorkersOK, NEW i \in Instances, Get(i)
  PROVE  WorkersOK'
<1>1. PICK m \in BagToSet(queue[Role[i]]) :
        /\ queue' = [queue EXCEPT ![Role[i]] = BagRemove(@, m)]
        /\ held' = [held EXCEPT ![i] = m]
        /\ Goto(i, IF m.event = Poison THEN "nacking" ELSE "received")
  BY DEF Get
<1>2. Role[i] \in Workers /\ m \in Message
  BY RoleAssumption DEF WorkersOK, BrokerTypeOK, MessageBag
<1>3. QueuesOK(queue')
  BY <1>1, <1>2, BagRemoveMessage DEF WorkersOK, BrokerTypeOK, QueuesOK
<1>4. BrokerTypeOK' /\ DbTypeOK'
  BY <1>3, QueuesStep, DbStays DEF WorkersOK, Get
<1>5. InstancesTypeOK' /\ HeldOK'
  BY <1>1, <1>2 DEF WorkersOK, InstancesTypeOK, HeldOK, Get, Goto, Labels, Message
<1> QED
  BY <1>4, <1>5 DEF WorkersOK

(* Insert keeps the types: stored events are events.                       *)
LEMMA InsertType ==
  ASSUME WorkersOK, NEW i \in Instances, Insert(i)
  PROVE  WorkersOK'
<1>1. BrokerTypeOK' /\ DbTypeOK'
  BY BrokerStays, DbStays DEF WorkersOK, Insert
<1>2. Stored(Role[i], EventOf(i)) \subseteq Event
  BY DEF WorkersOK, DbTypeOK, LedgerRow, Stored, Rows
<1>3. InstancesTypeOK' /\ HeldOK'
  BY <1>2 DEF WorkersOK, InstancesTypeOK, HeldOK, Insert, At, Goto, Labels
<1> QED
  BY <1>1, <1>3 DEF WorkersOK

(* Read keeps the types.                                                   *)
LEMMA ReadType ==
  ASSUME WorkersOK, NEW i \in Instances, Read(i)
  PROVE  WorkersOK'
<1> DEFINE status == orders[EventOf(i).order].status
<1>1. BrokerTypeOK' /\ DbTypeOK'
  BY BrokerStays, DbStays DEF WorkersOK, Read, FailWith
<1>2. pc[i] = "guarded" /\ held[i].event \in Event
  BY DEF WorkersOK, HeldOK, Read, At
<1>3. status \in Statuses \cup {"none"}
  BY <1>2 DEF WorkersOK, DbTypeOK, OrderRow, EventOf, Event
<1>4. CASE FailWith(i, "UpstreamNotReady")
  BY <1>1, <1>2, <1>4, FailType DEF WorkersOK, FailWith
<1>5. CASE /\ UNCHANGED <<held, delivered, rest>>
           /\ pc' = [pc EXCEPT ![i] = "acking"] \/ pc' = [pc EXCEPT ![i] = "working"]
           /\ seen' = seen \/ seen' = [seen EXCEPT ![i] = "none"]
                           \/ seen' = [seen EXCEPT ![i] = status]
  BY <1>1, <1>2, <1>3, <1>5 DEF WorkersOK, InstancesTypeOK, HeldOK, Labels
<1> QED
  BY <1>4, <1>5 DEF Read, Goto

(* A worker's transaction writes well-typed rows.                          *)
LEMMA DurableType ==
  ASSUME WorkersOK, NEW i \in Instances, At(i, "working"), Durable(i)
  PROVE  DbTypeOK'
<1>1. held[i].event \in Event /\ Role[i] \in Workers
  BY RoleAssumption DEF WorkersOK, HeldOK, At
<1>2. orders' \in [Orders -> OrderRow]
  BY <1>1, AdvancedRow DEF WorkersOK, DbTypeOK, Durable, Proceeds, EventOf, Event
<1>3. notifications' \subseteq Event
  BY <1>1 DEF WorkersOK, DbTypeOK, Durable, EventOf
<1>4. processed_events' \subseteq LedgerRow
  BY <1>1, OutgoingEvents DEF WorkersOK, DbTypeOK, Durable, EventOf, LedgerRow
<1> QED
  BY <1>2, <1>3, <1>4 DEF DbTypeOK

(* Commit keeps the types.                                                 *)
LEMMA CommitType ==
  ASSUME WorkersOK, NEW i \in Instances, Commit(i)
  PROVE  WorkersOK'
<1>1. BrokerTypeOK' /\ DbTypeOK'
  BY BrokerStays, DurableType DEF WorkersOK, Commit, MayCommit
<1>2. held[i].event \in Event /\ Role[i] \in Workers /\ pc[i] = "working"
  BY RoleAssumption DEF WorkersOK, HeldOK, At, Commit, MayCommit
<1>3. Outgoing(Role[i], seen[i], EventOf(i)) \subseteq Event
  BY <1>2, OutgoingEvents DEF EventOf
<1>4. InstancesTypeOK' /\ HeldOK'
  BY <1>2, <1>3 DEF WorkersOK, InstancesTypeOK, HeldOK, Commit, Goto, Labels, Statuses
<1> QED
  BY <1>1, <1>4 DEF WorkersOK

(* PublishNext keeps the types.                                            *)
LEMMA PublishNextType ==
  ASSUME WorkersOK, NEW i \in Instances, PublishNext(i)
  PROVE  WorkersOK'
<1>1. PICK e \in rest[i] :
        /\ queue' = Published(e)
        /\ rest' = [rest EXCEPT ![i] = @ \ {e}]
        /\ IF rest[i] = {e} THEN Goto(i, "acking") ELSE UNCHANGED pc
  BY DEF PublishNext
<1>2. e \in Event
  BY DEF WorkersOK, InstancesTypeOK
<1>3. BrokerTypeOK' /\ DbTypeOK'
  BY <1>1, <1>2, PublishedQueues, QueuesStep, DbStays DEF WorkersOK, PublishNext
<1>4. InstancesTypeOK' /\ HeldOK'
  BY <1>1, <1>2 DEF WorkersOK, InstancesTypeOK, HeldOK, PublishNext, Goto, Labels
<1> QED
  BY <1>3, <1>4 DEF WorkersOK

(* A message with other counts, within their limits, is a message.         *)
LEMMA RetriedMessage ==
  ASSUME NEW m \in Message, NEW n \in 0..MaxRetries, NEW k \in 0..NotReadyMax
  PROVE  /\ [m EXCEPT !.retry = n, !.notready = k] \in Message
         /\ [m EXCEPT !.notready = k] \in Message
BY DEF Message

(* The copy sent to the retry queue is a message: it is counted up only    *)
(* below the limit.                                                        *)
LEMMA RetryCopyType ==
  ASSUME WorkersOK, NEW i \in Instances, pc[i] \in {"retrying", "rechecking"}
  PROVE  RetryCopy(i) \in Message /\ Role[i] \in Workers
<1>1. held[i] \in Message /\ Role[i] \in Workers
  BY RoleAssumption DEF WorkersOK, HeldOK
<1>2. 0 \in 0..NotReadyMax
  BY SettingsAssumption
<1>3. CASE pc[i] = "retrying"
  <2>1. held[i].retry + 1 \in 0..MaxRetries
    BY <1>1, <1>3, SettingsAssumption DEF WorkersOK, HeldOK, Message
  <2> QED
    BY <1>1, <1>2, <1>3, <2>1, RetriedMessage DEF RetryCopy, At
<1>4. CASE pc[i] = "rechecking"
  <2>1. held[i].notready + 1 \in 0..NotReadyMax /\ 0 \in 0..MaxRetries
    BY <1>1, <1>4, SettingsAssumption DEF WorkersOK, HeldOK, Message
  <2> QED
    BY <1>1, <1>4, <2>1, RetriedMessage DEF RetryCopy, At
<1> QED
  BY <1>3, <1>4

(* Putting the copy into the retry queue keeps the broker's type.          *)
LEMMA DelayedType ==
  ASSUME WorkersOK, NEW i \in Instances, pc[i] \in {"retrying", "rechecking"},
         UNCHANGED <<queue, dead>>, retry' \in {retry, Delayed(i)}
  PROVE  BrokerTypeOK'
<1>1. RetryCopy(i) \in Message /\ Role[i] \in Workers
  BY RetryCopyType
<1>2. DOMAIN Delayed(i) = Workers /\ \A w \in Workers : MessageBag(Delayed(i)[w])
  BY <1>1, BagAddMessage DEF WorkersOK, BrokerTypeOK, Delayed
<1>3. DOMAIN retry' = Workers /\ \A w \in Workers : MessageBag(retry'[w])
  BY <1>2 DEF WorkersOK, BrokerTypeOK
<1> QED
  BY <1>3 DEF WorkersOK, BrokerTypeOK, MessageBag

(* SendRetry and its failure keep the types.                               *)
LEMMA SendRetryType ==
  ASSUME WorkersOK, NEW i \in Instances, SendRetry(i) \/ SendRetryFails(i)
  PROVE  WorkersOK'
<1>1. BrokerTypeOK' /\ DbTypeOK'
  BY DelayedType, DbStays DEF WorkersOK, SendRetry, SendRetryFails
<1>2. InstancesTypeOK' /\ HeldOK'
  BY DEF WorkersOK, InstancesTypeOK, HeldOK, SendRetry, SendRetryFails, Goto, Labels
<1> QED
  BY <1>1, <1>2 DEF WorkersOK

(* HookRead keeps the types.                                               *)
LEMMA HookReadType ==
  ASSUME WorkersOK, NEW i \in Instances, HookRead(i)
  PROVE  WorkersOK'
<1>1. BrokerTypeOK' /\ DbTypeOK'
  BY BrokerStays, DbStays DEF WorkersOK, HookRead
<1>2. pc[i] = "hook" /\ held[i].event \in Event
  BY DEF WorkersOK, HeldOK, HookRead, At
<1>3. orders[EventOf(i).order].status \in Statuses \cup {"none"}
  BY <1>2 DEF WorkersOK, DbTypeOK, OrderRow, EventOf, Event
<1>4. InstancesTypeOK' /\ HeldOK'
  BY <1>2, <1>3 DEF WorkersOK, InstancesTypeOK, HeldOK, HookRead, Goto, Labels
<1> QED
  BY <1>1, <1>4 DEF WorkersOK

(* The hook publishes an event.                                            *)
LEMMA FailedEventType ==
  ASSUME WorkersOK, NEW i \in Instances, pc[i] \notin {"idle", "nacking"}
  PROVE  FailedEvent(i) \in Event
BY DEF WorkersOK, HeldOK, FailedEvent, EventOf, Event, EventTypes

(* HookPublish and its failure keep the types.                             *)
LEMMA HookPublishType ==
  ASSUME WorkersOK, NEW i \in Instances, HookPublish(i) \/ HookPublishFails(i)
  PROVE  WorkersOK'
<1>1. FailedEvent(i) \in Event
  BY FailedEventType DEF HookPublish, HookPublishFails, At
<1>2. QueuesOK(queue')
  BY <1>1, PublishedQueues DEF WorkersOK, HookPublish, HookPublishFails
<1>3. BrokerTypeOK' /\ DbTypeOK'
  BY <1>2, QueuesStep, DbStays DEF WorkersOK, HookPublish, HookPublishFails
<1>4. InstancesTypeOK' /\ HeldOK'
  BY DEF WorkersOK, InstancesTypeOK, HeldOK, HookPublish, HookPublishFails,
         At, Goto, Forget, Labels, Statuses
<1> QED
  BY <1>3, <1>4 DEF WorkersOK

(* HookCommit and its failure keep the types.                              *)
LEMMA HookCommitType ==
  ASSUME WorkersOK, NEW i \in Instances, HookCommit(i) \/ HookDbFails(i)
  PROVE  WorkersOK'
<1>1. pc[i] \in {"hook", "hookCommit"} /\ held[i].event \in Event
  BY DEF WorkersOK, HeldOK, HookCommit, HookDbFails, At
<1>2. HookDurable(i) \in [Orders -> OrderRow]
  BY <1>1 DEF WorkersOK, DbTypeOK, HookDurable, OrderRow, Statuses, EventOf, Event
<1>3. BrokerTypeOK' /\ DbTypeOK'
  BY <1>2, BrokerStays DEF WorkersOK, DbTypeOK, HookCommit, HookDbFails
<1>4. InstancesTypeOK' /\ HeldOK'
  BY <1>1 DEF WorkersOK, InstancesTypeOK, HeldOK, HookCommit, HookDbFails,
              Goto, Forget, Labels, Statuses
<1> QED
  BY <1>3, <1>4 DEF WorkersOK

(* Ack and Nack keep the types.                                            *)
LEMMA AckType ==
  ASSUME WorkersOK, NEW i \in Instances, Ack(i) \/ Nack(i)
  PROVE  WorkersOK'
<1>1. held[i] \in Message /\ Role[i] \in Workers
  BY RoleAssumption DEF WorkersOK, HeldOK, Ack, Nack, At
<1>2. BrokerTypeOK' /\ DbTypeOK'
  <2>1. CASE Ack(i)
    BY <2>1, BrokerStays, DbStays DEF WorkersOK, Ack
  <2>2. CASE Nack(i)
    BY <1>1, <2>2, DbStays DEF WorkersOK, BrokerTypeOK, MessageBag, Nack
  <2> QED
    BY <2>1, <2>2
<1>3. InstancesTypeOK' /\ HeldOK'
  BY IdleType DEF WorkersOK, Ack, Nack
<1> QED
  BY <1>2, <1>3 DEF WorkersOK

(* Requeue, Crash and ChannelDrops keep the types.                         *)
LEMMA RequeueType ==
  ASSUME WorkersOK, NEW i \in Instances, Requeue(i) \/ Crash(i) \/ ChannelDrops(i)
  PROVE  WorkersOK'
<1>1. held[i] \in Message /\ Role[i] \in Workers
  BY RoleAssumption DEF WorkersOK, HeldOK, Requeue, Crash, ChannelDrops, At
<1>2. QueuesOK(queue')
  <2>1. QueuesOK(queue) /\ QueuesOK(Requeued(Role[i], held[i]))
    BY <1>1, RequeuedQueues DEF WorkersOK, BrokerTypeOK, QueuesOK
  <2> QED
    BY <2>1 DEF Requeue, Crash, ChannelDrops
<1>3. BrokerTypeOK' /\ DbTypeOK'
  BY <1>2, QueuesStep, DbStays DEF WorkersOK, Requeue, Crash, ChannelDrops
<1>4. InstancesTypeOK' /\ HeldOK'
  <2>1. CASE Idle(i)
    BY <2>1, IdleType DEF WorkersOK
  <2>2. CASE ChannelDrops(i)
    BY <2>2 DEF WorkersOK, InstancesTypeOK, HeldOK, ChannelDrops
  <2> QED
    BY <2>1, <2>2 DEF Requeue, Crash
<1> QED
  BY <1>3, <1>4 DEF WorkersOK

(* A declined payment and a database error keep the types.                 *)
LEMMA FailureType ==
  ASSUME WorkersOK, NEW i \in Instances,
         PaymentFails(i) \/ ProcessFails(i) \/ GuardFails(i)
  PROVE  WorkersOK'
<1>1. BrokerTypeOK' /\ DbTypeOK'
  BY BrokerStays, DbStays DEF WorkersOK, PaymentFails, ProcessFails, GuardFails, FailWith
<1>2. InstancesTypeOK' /\ HeldOK'
  <2>1. CASE PaymentFails(i) \/ ProcessFails(i)
    BY <2>1, FailType DEF WorkersOK, PaymentFails, ProcessFails, FailWith, At
  <2>2. CASE GuardFails(i)
    BY <2>2 DEF WorkersOK, InstancesTypeOK, HeldOK, GuardFails, At, Goto, Labels
  <2> QED
    BY <2>1, <2>2
<1> QED
  BY <1>1, <1>2 DEF WorkersOK

(* An ambiguous commit keeps the types.                                    *)
LEMMA CommitFailsType ==
  ASSUME WorkersOK, NEW i \in Instances, CommitFails(i)
  PROVE  WorkersOK'
<1>1. BrokerTypeOK' /\ DbTypeOK'
  BY BrokerStays, DbStays, DurableType DEF WorkersOK, CommitFails, MayCommit
<1>2. InstancesTypeOK' /\ HeldOK'
  BY DEF WorkersOK, InstancesTypeOK, HeldOK, CommitFails, MayCommit, At, Goto, Forget,
         Labels, Statuses
<1> QED
  BY <1>1, <1>2 DEF WorkersOK

(* A failed publish of an outgoing event keeps the types.                  *)
LEMMA PublishFailsType ==
  ASSUME WorkersOK, NEW i \in Instances, PublishFails(i)
  PROVE  WorkersOK'
<1>1. PICK e \in rest[i] : queue' \in MaybePublished(e)
  BY DEF PublishFails
<1>2. e \in Event
  BY DEF WorkersOK, InstancesTypeOK
<1>3. BrokerTypeOK' /\ DbTypeOK'
  BY <1>1, <1>2, PublishedQueues, QueuesStep, DbStays DEF WorkersOK, PublishFails
<1>4. InstancesTypeOK' /\ HeldOK'
  <2>1. CASE pc[i] = "publishing"
    BY <2>1, FailType DEF WorkersOK, PublishFails, At
  <2>2. CASE pc[i] = "republishing"
    BY <2>2 DEF WorkersOK, InstancesTypeOK, HeldOK, PublishFails, At, Goto, Forget,
                Labels, Statuses
  <2> QED
    BY <2>1, <2>2 DEF PublishFails
<1> QED
  BY <1>3, <1>4 DEF WorkersOK

(* The broker's steps keep the types.                                      *)
LEMMA BrokerType ==
  ASSUME WorkersOK, NEW w \in Workers, Expire(w) \/ InjectPoison(w),
         UNCHANGED <<dbVars, instanceVars>>
  PROVE  WorkersOK'
<1>1. BrokerTypeOK'
  <2>1. CASE Expire(w)
    <3>1. PICK m \in BagToSet(retry[w]) :
            /\ retry' = [retry EXCEPT ![w] = BagRemove(@, m)]
            /\ queue' = Routed(RetryRoutingKey[w], m)
      BY <2>1 DEF Expire
    <3>2. QueuesOK(queue')
      BY <3>1, RoutedQueues DEF WorkersOK, BrokerTypeOK, MessageBag
    <3>3. QueuesOK(retry')
      BY <3>1, BagRemoveMessage DEF WorkersOK, BrokerTypeOK, QueuesOK
    <3> QED
      BY <2>1, <3>2, <3>3 DEF WorkersOK, BrokerTypeOK, QueuesOK, MessageBag, Expire
  <2>2. CASE InjectPoison(w)
    BY <2>2, NewMessageType, RequeuedQueues, QueuesStep DEF WorkersOK, InjectPoison
  <2> QED
    BY <2>1, <2>2
<1> QED
  BY <1>1, DbStays, InstancesStay DEF WorkersOK

(* The steps of a request keep the types.                                  *)
LEMMA RequestType ==
  ASSUME WorkersOK, ApiTypeOK, NEW o \in Orders, UNCHANGED instanceVars,
         \/ ApiInsert(o) \/ ApiPublish(o) \/ ApiCommit(o)
         \/ ApiPublishFails(o) \/ ApiCommitFails(o)
  PROVE  WorkersOK' /\ ApiTypeOK'
<1>1. ApiTypeOK'
  BY DEF ApiTypeOK, ApiLabels, ApiInsert, ApiPublish, ApiCommit, ApiPublishFails, ApiCommitFails
<1>2. Created(o) \in Event
  BY DEF Created, Event, EventTypes
<1>3. BrokerTypeOK'
  <2>1. CASE ApiPublish(o) \/ ApiPublishFails(o)
    BY <1>2, <2>1, PublishedQueues, QueuesStep DEF WorkersOK, ApiPublish, ApiPublishFails
  <2>2. CASE ApiInsert(o) \/ ApiCommit(o) \/ ApiCommitFails(o)
    BY <2>2, BrokerStays DEF WorkersOK, ApiInsert, ApiCommit, ApiCommitFails
  <2> QED
    BY <2>1, <2>2
<1>4. Placed(o) \in [Orders -> OrderRow]
  BY DEF WorkersOK, DbTypeOK, Placed, NewOrder, NoOrder, OrderRow, Statuses
<1>5. DbTypeOK'
  BY <1>4 DEF WorkersOK, DbTypeOK, dbVars, ApiInsert, ApiPublish, ApiCommit,
              ApiPublishFails, ApiCommitFails
<1> QED
  BY <1>1, <1>3, <1>5, InstancesStay DEF WorkersOK

TypeInv == WorkersOK /\ ApiTypeOK /\ faults \in 0..MaxFaults

(* The initial state is well typed.                                        *)
LEMMA TypeInit == Init => TypeInv
<1> SUFFICES ASSUME Init PROVE TypeInv
  OBVIOUS
<1>1. BrokerTypeOK
  BY EmptyMessageBag DEF Init, BrokerInit, BrokerTypeOK
<1>2. DbTypeOK
  BY DEF Init, DbInit, DbTypeOK, NoOrder, OrderRow
<1>3. InstancesTypeOK /\ HeldOK
  BY DEF Init, InstancesInit, InstancesTypeOK, HeldOK, Labels
<1>4. ApiTypeOK /\ faults \in 0..MaxFaults
  BY FaultAssumption DEF Init, ApiInit, ApiTypeOK, ApiLabels
<1> QED
  BY <1>1, <1>2, <1>3, <1>4 DEF TypeInv, WorkersOK

(* Every step of an instance keeps the types.                              *)
LEMMA InstanceStepType ==
  ASSUME WorkersOK, NEW i \in Instances, InstanceStep(i)
  PROVE  WorkersOK'
BY GetType, InsertType, ReadType, FailureType, CommitType, PublishNextType, SendRetryType,
   HookReadType, HookPublishType, HookCommitType, AckType, RequeueType DEF InstanceStep

(* Every fault of an instance keeps the types.                             *)
LEMMA InstanceFaultType ==
  ASSUME WorkersOK, NEW i \in Instances, InstanceFault(i)
  PROVE  WorkersOK'
BY RequeueType, FailureType, CommitFailsType, HookCommitType, PublishFailsType,
   SendRetryType, HookPublishType DEF InstanceFault

(* Every step of the system keeps the types.                               *)
LEMMA TypeStep == TypeInv /\ [Next]_vars => TypeInv'
<1> SUFFICES ASSUME TypeInv, [Next]_vars PROVE TypeInv'
  OBVIOUS
<1>1. ASSUME NEW o \in Orders, RequestStep(o) PROVE TypeInv'
  BY <1>1, RequestType DEF TypeInv, RequestStep
<1>2. ASSUME NEW i \in Instances, InstanceStep(i) PROVE TypeInv'
  BY <1>2, InstanceStepType DEF TypeInv, ApiTypeOK, InstanceStep
<1>3. ASSUME NEW w \in Workers, BrokerStep(w) PROVE TypeInv'
  BY <1>3, BrokerType DEF TypeInv, ApiTypeOK, BrokerStep
<1>4. CASE Fault
  <2>1. faults' \in 0..MaxFaults
    BY <1>4, FaultAssumption DEF TypeInv, Fault
  <2>2. ASSUME NEW i \in Instances, InstanceFault(i) PROVE TypeInv'
    BY <2>1, <2>2, InstanceFaultType DEF TypeInv, ApiTypeOK, InstanceFault
  <2>3. ASSUME NEW o \in Orders, RequestFault(o) PROVE TypeInv'
    BY <2>1, <2>3, RequestType DEF TypeInv, RequestFault
  <2>4. ASSUME NEW w \in Workers, PoisonFault(w) PROVE TypeInv'
    BY <2>1, <2>4, BrokerType DEF TypeInv, ApiTypeOK, PoisonFault
  <2> QED
    BY <1>4, <2>2, <2>3, <2>4 DEF Fault
<1>5. CASE UNCHANGED vars
  BY <1>5, BrokerStays, DbStays, InstancesStay
     DEF TypeInv, WorkersOK, ApiTypeOK, vars, brokerVars, dbVars, instanceVars
<1> QED
  BY <1>1, <1>2, <1>3, <1>4, <1>5 DEF Next

(* TypeInv is an invariant of the system.                                  *)
LEMMA TypeInvariant == Safety => []TypeInv
<1> QED
  BY TypeInit, TypeStep, PTL DEF Safety

(* Every variable keeps its type: in particular the two retry counters     *)
(* never exceed their settings, so retrying is bounded whatever fails, and *)
(* no instance works on a message that is not an event.                    *)
THEOREM TypeCorrect == Safety => []TypeOK
<1>1. TypeInv => TypeOK
  BY DEF TypeInv, WorkersOK, TypeOK
<1> QED
  BY <1>1, TypeInvariant, PTL

----------------------------------------------------------------------------
(* Routing.  A message is only ever in a queue, or in the hands of a       *)
(* worker, that is bound to the type of its event: the payment worker sees *)
(* order.created alone, so the ledger key of a charge is always the same.  *)
Addressed(w, m) == m.event # Poison => m.event.type \in Bindings[w]

QueuesRouted(q) == \A w \in Workers : \A m \in BagToSet(q[w]) : Addressed(w, m)

HandsRouted == \A i \in Instances : pc[i] # "idle" => Addressed(Role[i], held[i])

RoutingInv == QueuesRouted(queue) /\ QueuesRouted(retry) /\ HandsRouted

(* A message routed by a key arrives where it is addressed, if all the     *)
(* consumers of that key are bound to its event.                           *)
LEMMA RoutedByKey ==
  ASSUME BrokerTypeOK, QueuesRouted(queue), NEW key, NEW m,
         \A w \in Consumers(key) : Addressed(w, m)
  PROVE  QueuesRouted(Routed(key, m))
BY BagAddSet DEF QueuesRouted, Routed, BrokerTypeOK

(* An event published under its own type arrives where it is addressed.    *)
LEMMA RoutedPublished ==
  ASSUME BrokerTypeOK, QueuesRouted(queue), NEW e \in Event
  PROVE  QueuesRouted(Published(e)) /\ \A q \in MaybePublished(e) : QueuesRouted(q)
<1>1. \A w \in Consumers(e.type) : Addressed(w, NewMessage(e))
  BY DEF Consumers, Addressed, NewMessage
<1>2. QueuesRouted(Published(e))
  BY <1>1, RoutedByKey DEF Published
<1> QED
  BY <1>2 DEF MaybePublished

(* A message requeued where it came from stays where it is addressed.      *)
LEMMA RoutedRequeued ==
  ASSUME BrokerTypeOK, QueuesRouted(queue), NEW w \in Workers, NEW m, Addressed(w, m)
  PROVE  QueuesRouted(Requeued(w, m))
BY BagAddSet DEF QueuesRouted, Requeued, BrokerTypeOK

(* The key on which a retry queue releases a message leads back to its own *)
(* work queue and, for three of the four workers, to the notification one. *)
LEMMA RetryRouting ==
  ASSUME NEW w \in Workers, NEW v \in Consumers(RetryRoutingKey[w])
  PROVE  v = w \/ v = "notification"
BY DEF Workers, Consumers, RetryRoutingKey, Bindings, EventTypes

(* The notification worker is bound to every event.                        *)
LEMMA NotificationTakesAll ==
  ASSUME NEW m \in Message PROVE Addressed("notification", m)
BY DEF Addressed, Bindings, Message, Event

(* What the step of one instance leaves to the others.                     *)
OthersStay(i) ==
  \A j \in Instances \ {i} :
    /\ pc'[j] = pc[j] /\ held'[j] = held[j] /\ delivered'[j] = delivered[j]
    /\ seen'[j] = seen[j] /\ rest'[j] = rest[j]

(* A step or a fault of one instance moves no other.                       *)
LEMMA StepIsLocal ==
  ASSUME TypeInv, NEW i \in Instances, InstanceStep(i) \/ InstanceFault(i)
  PROVE  OthersStay(i)
<1> USE DEF TypeInv, WorkersOK, InstancesTypeOK, OthersStay, Goto, Forget
<1>1. CASE \/ Get(i) \/ Insert(i) \/ Commit(i) \/ PublishNext(i) \/ SendRetry(i)
           \/ HookRead(i) \/ HookPublish(i) \/ HookCommit(i)
  BY <1>1 DEF Get, Insert, Commit, PublishNext, SendRetry, HookRead, HookPublish, HookCommit
<1>2. CASE Read(i) \/ PaymentFails(i)
  BY <1>2 DEF Read, PaymentFails, FailWith
<1>3. CASE Ack(i) \/ Nack(i) \/ Requeue(i) \/ Crash(i) \/ ChannelDrops(i)
  BY <1>3 DEF Ack, Nack, Requeue, Crash, ChannelDrops, Idle
<1>4. CASE \/ GuardFails(i) \/ ProcessFails(i) \/ CommitFails(i) \/ HookDbFails(i)
           \/ PublishFails(i) \/ SendRetryFails(i) \/ HookPublishFails(i)
  BY <1>4 DEF GuardFails, ProcessFails, CommitFails, HookDbFails, PublishFails,
              SendRetryFails, HookPublishFails, FailWith
<1> QED
  BY <1>1, <1>2, <1>3, <1>4 DEF InstanceStep, InstanceFault

(* The step with which instance i takes a message.                         *)
Takes(i) ==
  \E m \in BagToSet(queue[Role[i]]) :
    /\ queue' = [queue EXCEPT ![Role[i]] = BagRemove(@, m)]
    /\ held' = [held EXCEPT ![i] = m]

(* All that a step of an instance can do to the queues and to the message  *)
(* in its hands.                                                           *)
LEMMA MessageFlow ==
  ASSUME TypeInv, NEW i \in Instances, InstanceStep(i) \/ InstanceFault(i)
  PROVE  /\ \/ pc[i] = "idle" /\ Takes(i)
            \/ pc[i] # "idle" /\ (pc'[i] # "idle" => held'[i] = held[i])
         /\ \/ queue' = queue
            \/ pc[i] = "idle" /\ Takes(i)
            \/ \E e \in Event : /\ e \in rest[i] \/ e.type = "order.payment.failed"
                                /\ queue' = Published(e)
            \/ pc[i] # "idle" /\ queue' = Requeued(Role[i], held[i])
         /\ \/ retry' = retry
            \/ pc[i] \in {"retrying", "rechecking"} /\ retry' = Delayed(i)
<1> USE DEF TypeInv, WorkersOK, At
<1>1. CASE Get(i)
  BY <1>1 DEF Get, Takes
<1>2. CASE Insert(i) \/ Read(i) \/ PaymentFails(i) \/ Commit(i) \/ HookRead(i) \/ HookCommit(i)
  BY <1>2 DEF Insert, Read, PaymentFails, Commit, MayCommit, HookRead, HookCommit, FailWith,
              brokerVars
<1>3. CASE GuardFails(i) \/ ProcessFails(i) \/ CommitFails(i) \/ HookDbFails(i)
  BY <1>3 DEF GuardFails, ProcessFails, CommitFails, MayCommit, HookDbFails, FailWith,
              brokerVars
<1>4. CASE PublishNext(i) \/ PublishFails(i)
  BY <1>4 DEF InstancesTypeOK, PublishNext, PublishFails, MaybePublished
<1>5. CASE HookPublish(i) \/ HookPublishFails(i)
  <2>1. FailedEvent(i) \in Event /\ FailedEvent(i).type = "order.payment.failed"
    BY <1>5, FailedEventType DEF HookPublish, HookPublishFails, FailedEvent
  <2> QED
    BY <1>5, <2>1 DEF HookPublish, HookPublishFails, MaybePublished
<1>6. CASE SendRetry(i) \/ SendRetryFails(i)
  BY <1>6 DEF SendRetry, SendRetryFails
<1>7. CASE Ack(i) \/ Nack(i) \/ Requeue(i) \/ Crash(i) \/ ChannelDrops(i)
  BY <1>7 DEF InstancesTypeOK, Ack, Nack, Requeue, Crash, ChannelDrops, Idle, Goto, brokerVars
<1> QED
  BY <1>1, <1>2, <1>3, <1>4, <1>5, <1>6, <1>7 DEF InstanceStep, InstanceFault

(* A step or a fault of an instance keeps messages where they belong.      *)
LEMMA InstanceRouting ==
  ASSUME TypeInv, RoutingInv, NEW i \in Instances, InstanceStep(i) \/ InstanceFault(i)
  PROVE  RoutingInv'
<1>1. Role[i] \in Workers /\ BrokerTypeOK
  BY RoleAssumption DEF TypeInv, WorkersOK
<1>2. QueuesRouted(queue')
  <2>1. CASE Takes(i)
    BY <1>1, <2>1, BagRemoveSet DEF RoutingInv, QueuesRouted, Takes, BrokerTypeOK
  <2>2. CASE \E e \in Event : queue' = Published(e)
    BY <1>1, <2>2, RoutedPublished DEF RoutingInv
  <2>3. CASE pc[i] # "idle" /\ queue' = Requeued(Role[i], held[i])
    BY <1>1, <2>3, RoutedRequeued DEF RoutingInv, HandsRouted
  <2> QED
    BY <2>1, <2>2, <2>3, MessageFlow DEF RoutingInv
<1>3. QueuesRouted(retry')
  <2>1. CASE pc[i] \in {"retrying", "rechecking"} /\ retry' = Delayed(i)
    <3>1. Addressed(Role[i], held[i]) /\ held[i] \in Message
      BY <2>1 DEF RoutingInv, HandsRouted, TypeInv, WorkersOK, HeldOK
    <3>2. RetryCopy(i).event = held[i].event
      BY <3>1 DEF RetryCopy, Message
    <3> QED
      BY <1>1, <2>1, <3>1, <3>2, BagAddSet
         DEF RoutingInv, QueuesRouted, Delayed, BrokerTypeOK, Addressed
  <2> QED
    BY <2>1, MessageFlow DEF RoutingInv
<1>4. HandsRouted'
  <2>1. ASSUME pc'[i] # "idle" PROVE Addressed(Role[i], held'[i])
    <3>1. CASE Takes(i)
      <4>1. PICK m \in BagToSet(queue[Role[i]]) : held' = [held EXCEPT ![i] = m]
        BY <3>1 DEF Takes
      <4>2. held'[i] = m
        BY <4>1 DEF TypeInv, WorkersOK, InstancesTypeOK
      <4> QED
        BY <1>1, <4>2 DEF RoutingInv, QueuesRouted
    <3>2. CASE pc[i] # "idle" /\ (pc'[i] # "idle" => held'[i] = held[i])
      BY <2>1, <3>2 DEF RoutingInv, HandsRouted
    <3> QED
      BY <3>1, <3>2, MessageFlow
  <2>2. ASSUME NEW j \in Instances \ {i}, pc'[j] # "idle" PROVE Addressed(Role[j], held'[j])
    BY <2>2, StepIsLocal DEF OthersStay, RoutingInv, HandsRouted
  <2> QED
    BY <2>1, <2>2 DEF HandsRouted, Addressed
<1> QED
  BY <1>2, <1>3, <1>4 DEF RoutingInv, QueuesRouted, Addressed

(* So does the broker when it releases a message from a retry queue.       *)
LEMMA ExpireRouting ==
  ASSUME TypeInv, RoutingInv, NEW w \in Workers, Expire(w), UNCHANGED instanceVars
  PROVE  RoutingInv'
<1>1. PICK m \in BagToSet(retry[w]) :
        /\ retry' = [retry EXCEPT ![w] = BagRemove(@, m)]
        /\ queue' = Routed(RetryRoutingKey[w], m)
  BY DEF Expire
<1>2. BrokerTypeOK /\ m \in Message
  BY DEF TypeInv, WorkersOK, BrokerTypeOK, MessageBag
<1>3. \A v \in Consumers(RetryRoutingKey[w]) : Addressed(v, m)
  BY <1>2, RetryRouting, NotificationTakesAll DEF RoutingInv, QueuesRouted
<1>4. QueuesRouted(queue')
  BY <1>1, <1>2, <1>3, RoutedByKey DEF RoutingInv
<1>5. QueuesRouted(retry')
  BY <1>1, <1>2, BagRemoveSet DEF RoutingInv, QueuesRouted, BrokerTypeOK
<1> QED
  BY <1>4, <1>5 DEF RoutingInv, HandsRouted, QueuesRouted, Addressed, instanceVars

(* So does a request.                                                      *)
LEMMA RequestRouting ==
  ASSUME TypeInv, RoutingInv, NEW o \in Orders, UNCHANGED instanceVars,
         \/ ApiInsert(o) \/ ApiPublish(o) \/ ApiCommit(o)
         \/ ApiPublishFails(o) \/ ApiCommitFails(o)
  PROVE  RoutingInv'
<1>1. Created(o) \in Event /\ BrokerTypeOK
  BY DEF Created, Event, EventTypes, TypeInv, WorkersOK
<1>2. QueuesRouted(queue') /\ retry' = retry
  <2>1. CASE ApiPublish(o) \/ ApiPublishFails(o)
    BY <1>1, <2>1, RoutedPublished DEF RoutingInv, ApiPublish, ApiPublishFails
  <2>2. CASE ApiInsert(o) \/ ApiCommit(o) \/ ApiCommitFails(o)
    BY <2>2 DEF RoutingInv, ApiInsert, ApiCommit, ApiCommitFails, brokerVars
  <2> QED
    BY <2>1, <2>2
<1> QED
  BY <1>2 DEF RoutingInv, HandsRouted, QueuesRouted, Addressed, instanceVars

(* So does every step of the system.                                       *)
LEMMA RoutingStep == TypeInv /\ RoutingInv /\ [Next]_vars => RoutingInv'
<1> SUFFICES ASSUME TypeInv, RoutingInv, [Next]_vars PROVE RoutingInv'
  OBVIOUS
<1>1. ASSUME NEW o \in Orders, RequestStep(o) \/ RequestFault(o) PROVE RoutingInv'
  BY <1>1, RequestRouting DEF RequestStep, RequestFault
<1>2. ASSUME NEW i \in Instances, InstanceStep(i) \/ InstanceFault(i) PROVE RoutingInv'
  BY <1>2, InstanceRouting
<1>3. ASSUME NEW w \in Workers, BrokerStep(w) PROVE RoutingInv'
  BY <1>3, ExpireRouting DEF BrokerStep
<1>4. ASSUME NEW w \in Workers, PoisonFault(w) PROVE RoutingInv'
  <2>1. Addressed(w, NewMessage(Poison)) /\ BrokerTypeOK
    BY DEF Addressed, NewMessage, TypeInv, WorkersOK
  <2>2. QueuesRouted(queue')
    BY <1>4, <2>1, RoutedRequeued DEF RoutingInv, PoisonFault, InjectPoison
  <2> QED
    BY <1>4, <2>2 DEF RoutingInv, HandsRouted, QueuesRouted, Addressed, PoisonFault,
                      InjectPoison, instanceVars
<1>5. CASE UNCHANGED vars
  BY <1>5 DEF RoutingInv, HandsRouted, QueuesRouted, Addressed, vars
<1> QED
  BY <1>1, <1>2, <1>3, <1>4, <1>5 DEF Next, Fault

(* And initially there are no messages.                                    *)
LEMMA RoutingInit == Init => RoutingInv
BY DEF Init, BrokerInit, InstancesInit, RoutingInv, QueuesRouted, HandsRouted, EmptyBag,
       SetToBag, BagToSet

(* Messages are always where they belong.                                  *)
LEMMA RoutingInvariant == Safety => []RoutingInv
BY TypeInvariant, RoutingInit, RoutingStep, PTL DEF Safety

----------------------------------------------------------------------------
(* The idempotency guard.  Between its guard insert and the end of its     *)
(* transaction an instance is the only one at work on its event, and       *)
(* nobody has finished that event before.                                  *)
AtWork(i) == pc[i] \in {"guarded", "working"}

GuardInv ==
  /\ \A i \in Instances : AtWork(i) => ~Processed(Role[i], EventOf(i))
  /\ \A i, j \in Instances :
       AtWork(i) /\ AtWork(j) /\ Role[i] = Role[j] /\ EventOf(i) = EventOf(j) => i = j

(* An instance that leaves the guarded section without committing disturbs *)
(* no guard.                                                               *)
LEMMA GuardReleased ==
  ASSUME GuardInv, NEW i \in Instances, OthersStay(i),
         pc'[i] \notin {"guarded", "working"}, UNCHANGED processed_events
  PROVE  GuardInv'
BY DEF GuardInv, AtWork, OthersStay, Processed, Rows, EventOf

(* Nor does one that moves within the section.                             *)
LEMMA GuardKept ==
  ASSUME GuardInv, NEW i \in Instances, OthersStay(i), AtWork(i),
         held'[i] = held[i], UNCHANGED processed_events
  PROVE  GuardInv'
BY DEF GuardInv, AtWork, OthersStay, Processed, Rows, EventOf

(* An instance enters the section only when nobody is in it for the same   *)
(* event and the ledger has no row for it.                                 *)
LEMMA GuardTaken ==
  ASSUME TypeInv, GuardInv, NEW i \in Instances, Insert(i), OthersStay(i)
  PROVE  GuardInv'
<1>1. held'[i] = held[i] /\ processed_events' = processed_events
  BY DEF Insert, dbVars
<1>2. CASE Processed(Role[i], EventOf(i))
  BY <1>1, <1>2, GuardReleased DEF Insert, Goto, TypeInv, WorkersOK, InstancesTypeOK
<1>3. CASE ~Processed(Role[i], EventOf(i))
  <2>1. ~ \E j \in Instances : HoldsGuard(j, Role[i], EventOf(i))
    BY DEF Insert
  <2>2. \A j \in Instances \ {i} :
          AtWork(j)' /\ Role[j] = Role[i] => EventOf(j)' # EventOf(i)'
    BY <1>1, <2>1 DEF HoldsGuard, AtWork, EventOf, OthersStay
  <2>3. \A j \in Instances : AtWork(j)' => ~Processed(Role[j], EventOf(j))'
    BY <1>1, <1>3 DEF GuardInv, AtWork, OthersStay, Processed, Rows, EventOf
  <2>4. ASSUME NEW j \in Instances, NEW k \in Instances, AtWork(j)', AtWork(k)',
               Role[j] = Role[k], EventOf(j)' = EventOf(k)'
        PROVE  j = k
    BY <2>2, <2>4 DEF GuardInv, AtWork, OthersStay, EventOf
  <2> QED
    BY <2>3, <2>4 DEF GuardInv
<1> QED
  BY <1>2, <1>3

(* An instance that commits leaves a ledger row behind for an event that   *)
(* nobody else is at work on.                                              *)
LEMMA GuardPassed ==
  ASSUME TypeInv, GuardInv, NEW i \in Instances, At(i, "working"), Durable(i),
         OthersStay(i), pc'[i] \notin {"guarded", "working"}
  PROVE  GuardInv'
<1>1. ASSUME NEW j \in Instances, AtWork(j)' PROVE ~Processed(Role[j], EventOf(j))'
  <2>1. j # i /\ AtWork(j) /\ EventOf(j)' = EventOf(j)
    BY <1>1 DEF AtWork, OthersStay, EventOf
  <2>2. ~(Role[j] = Role[i] /\ EventOf(j) = EventOf(i))
    BY <2>1 DEF GuardInv, AtWork, At
  <2>3. ~Processed(Role[j], EventOf(j))
    BY <2>1 DEF GuardInv
  <2> QED
    BY <2>1, <2>2, <2>3 DEF Durable, Processed, Rows, EventOf
<1>2. ASSUME NEW j \in Instances, NEW k \in Instances, AtWork(j)', AtWork(k)',
             Role[j] = Role[k], EventOf(j)' = EventOf(k)'
      PROVE  j = k
  BY <1>2 DEF GuardInv, AtWork, OthersStay, EventOf
<1> QED
  BY <1>1, <1>2 DEF GuardInv

(* Every step and fault of an instance keeps the guard exclusive.          *)
LEMMA InstanceGuard ==
  ASSUME TypeInv, GuardInv, NEW i \in Instances, InstanceStep(i) \/ InstanceFault(i)
  PROVE  GuardInv'
<1>1. OthersStay(i)
  BY StepIsLocal
<1> USE DEF TypeInv, WorkersOK, InstancesTypeOK, At, Goto, dbVars
<1>2. CASE Get(i) \/ PublishNext(i) \/ SendRetry(i) \/ SendRetryFails(i) \/ GuardFails(i)
  BY <1>1, <1>2, GuardReleased DEF Get, PublishNext, SendRetry, SendRetryFails, GuardFails
<1>3. CASE \/ HookRead(i) \/ HookPublish(i) \/ HookPublishFails(i)
           \/ HookCommit(i) \/ HookDbFails(i)
  BY <1>1, <1>3, GuardReleased
     DEF HookRead, HookPublish, HookPublishFails, HookCommit, HookDbFails
<1>4. CASE Ack(i) \/ Nack(i) \/ Requeue(i) \/ Crash(i)
  BY <1>1, <1>4, GuardReleased DEF Ack, Nack, Requeue, Crash, Idle
<1>5. CASE PaymentFails(i) \/ ProcessFails(i) \/ PublishFails(i)
  <2>1. held[i] \in Message
    BY <1>5 DEF HeldOK, PaymentFails, ProcessFails, PublishFails
  <2>2. \A exc : AfterFailure(Role[i], held[i], exc) \notin {"guarded", "working"}
    BY <2>1, AfterFailureLabel
  <2>3. pc'[i] \notin {"guarded", "working"}
    BY <1>5, <2>2 DEF PaymentFails, ProcessFails, PublishFails, FailWith
  <2>4. processed_events' = processed_events
    BY <1>5 DEF PaymentFails, ProcessFails, PublishFails, FailWith
  <2> QED
    BY <1>1, <2>3, <2>4, GuardReleased
<1>6. CASE ChannelDrops(i)
  BY <1>6 DEF ChannelDrops, GuardInv, AtWork, EventOf, Processed, Rows
<1>7. CASE Insert(i)
  BY <1>1, <1>7, GuardTaken
<1>8. CASE Read(i)
  BY <1>1, <1>8, GuardKept DEF Read, FailWith, AtWork
<1>9. CASE Commit(i) \/ CommitFails(i)
  BY <1>1, <1>9, GuardPassed, GuardReleased DEF Commit, CommitFails, MayCommit
<1> QED
  BY <1>2, <1>3, <1>4, <1>5, <1>6, <1>7, <1>8, <1>9 DEF InstanceStep, InstanceFault

(* So does every step of the system.                                       *)
LEMMA GuardStep == TypeInv /\ GuardInv /\ [Next]_vars => GuardInv'
<1> SUFFICES ASSUME TypeInv, GuardInv, [Next]_vars PROVE GuardInv'
  OBVIOUS
<1>1. ASSUME NEW i \in Instances, InstanceStep(i) \/ InstanceFault(i) PROVE GuardInv'
  BY <1>1, InstanceGuard
<1>2. CASE UNCHANGED <<instanceVars, processed_events>>
  BY <1>2 DEF GuardInv, AtWork, EventOf, Processed, Rows, instanceVars
<1>3. ASSUME NEW o \in Orders, RequestStep(o) \/ RequestFault(o) PROVE GuardInv'
  BY <1>2, <1>3 DEF RequestStep, RequestFault, ApiInsert, ApiPublish, ApiCommit,
                    ApiPublishFails, ApiCommitFails, dbVars
<1>4. ASSUME NEW w \in Workers, BrokerStep(w) \/ PoisonFault(w) PROVE GuardInv'
  BY <1>2, <1>4 DEF BrokerStep, PoisonFault, dbVars
<1>5. CASE UNCHANGED vars
  BY <1>2, <1>5 DEF vars, instanceVars
<1> QED
  BY <1>1, <1>3, <1>4, <1>5 DEF Next, Fault

(* The guard is always exclusive.                                          *)
LEMMA GuardInvariant == Safety => []GuardInv
<1>1. Init => GuardInv
  BY DEF Init, InstancesInit, GuardInv, AtWork
<1> QED
  BY <1>1, TypeInvariant, GuardStep, PTL DEF Safety

----------------------------------------------------------------------------
(* Effects.  A charge is tied to the ledger row of order.created and an    *)
(* assigned driver to that of order.confirmed: both commit together.       *)
Paid(o)      == [order |-> o, type |-> "order.paid"]
Confirmed(o) == [order |-> o, type |-> "order.confirmed"]

EffectsInv ==
  \A o \in Orders :
    /\ orders[o].payment_id = 0 \/ (orders[o].payment_id = 1 /\ Processed("payment", Created(o)))
    /\ orders[o].driver_id = 0 \/ (orders[o].driver_id = 1 /\ Processed("delivery", Confirmed(o)))

(* The event that a worker of the chain is at work on.                     *)
LEMMA WorkedEvent ==
  ASSUME TypeInv, RoutingInv, NEW i \in Instances, pc[i] \notin {"idle", "nacking"}
  PROVE  /\ Role[i] = "payment"    => EventOf(i) = Created(EventOf(i).order)
         /\ Role[i] = "restaurant" => EventOf(i) = Paid(EventOf(i).order)
         /\ Role[i] = "delivery"   => EventOf(i) = Confirmed(EventOf(i).order)
         /\ EventOf(i).order \in Orders
<1>1. EventOf(i) \in Event /\ EventOf(i) # Poison
  BY SentinelAssumption DEF TypeInv, WorkersOK, HeldOK, EventOf
<1>2. EventOf(i).type \in Bindings[Role[i]]
  BY <1>1 DEF RoutingInv, HandsRouted, Addressed, EventOf
<1> QED
  BY <1>1, <1>2 DEF Bindings, Created, Paid, Confirmed, Event

(* All that a step of an instance can do to the database.                  *)
LEMMA InstanceDb ==
  ASSUME NEW i \in Instances, InstanceStep(i) \/ InstanceFault(i)
  PROVE  \/ UNCHANGED dbVars
         \/ At(i, "working") /\ Durable(i)
         \/ /\ At(i, "hookCommit") /\ orders' = HookDurable(i)
            /\ UNCHANGED <<notifications, processed_events>>
<1>1. CASE InstanceStep(i)
  BY <1>1 DEF InstanceStep, Get, Insert, Read, PaymentFails, FailWith, Commit, MayCommit,
              PublishNext, SendRetry, HookRead, HookPublish, HookCommit, Ack, Nack, Requeue
<1>2. CASE InstanceFault(i)
  BY <1>2 DEF InstanceFault, Crash, ChannelDrops, GuardFails, ProcessFails, FailWith,
              CommitFails, MayCommit, HookDbFails, PublishFails, SendRetryFails,
              HookPublishFails, At, dbVars
<1> QED
  BY <1>1, <1>2

(* All that a step can do to the database.                                 *)
LEMMA DbFlow ==
  ASSUME [Next]_vars
  PROVE  \/ UNCHANGED dbVars
         \/ \E i \in Instances : At(i, "working") /\ Durable(i)
         \/ \E i \in Instances : /\ At(i, "hookCommit") /\ orders' = HookDurable(i)
                                 /\ UNCHANGED <<notifications, processed_events>>
         \/ \E o \in Orders : /\ api[o] = "published" /\ orders' = Placed(o)
                              /\ UNCHANGED <<notifications, processed_events>>
<1>1. ASSUME NEW i \in Instances, InstanceStep(i) \/ InstanceFault(i)
      PROVE  \/ UNCHANGED dbVars
             \/ At(i, "working") /\ Durable(i)
             \/ /\ At(i, "hookCommit") /\ orders' = HookDurable(i)
                /\ UNCHANGED <<notifications, processed_events>>
  BY <1>1, InstanceDb
<1>2. ASSUME NEW o \in Orders, RequestStep(o) \/ RequestFault(o)
      PROVE  \/ UNCHANGED dbVars
             \/ /\ api[o] = "published" /\ orders' = Placed(o)
                /\ UNCHANGED <<notifications, processed_events>>
  BY <1>2 DEF RequestStep, RequestFault, ApiInsert, ApiPublish, ApiCommit,
              ApiPublishFails, ApiCommitFails, dbVars
<1>3. ASSUME NEW w \in Workers, BrokerStep(w) \/ PoisonFault(w) PROVE UNCHANGED dbVars
  BY <1>3 DEF BrokerStep, PoisonFault
<1>4. CASE UNCHANGED vars
  BY <1>4 DEF vars, dbVars
<1> QED
  BY <1>1, <1>2, <1>3, <1>4 DEF Next, Fault

(* The ledger only grows.                                                  *)
LEMMA RowsOnlyGrow ==
  ASSUME [Next]_vars, NEW w, NEW e, Processed(w, e)
  PROVE  Processed(w, e)'
<1>1. processed_events \subseteq processed_events'
  BY DbFlow DEF Durable, dbVars
<1> QED
  BY <1>1 DEF Processed, Rows

(* A committed transaction leaves its ledger row.                          *)
LEMMA LedgerWritten ==
  ASSUME NEW i \in Instances, Durable(i)
  PROVE  \A e : e = EventOf(i) => Processed(Role[i], e)'
<1> DEFINE r == [event |-> EventOf(i), worker |-> Role[i],
                 outgoing |-> Outgoing(Role[i], seen[i], EventOf(i))]
<1>1. r \in processed_events'
  BY DEF Durable
<1>2. r.worker = Role[i] /\ r.event = EventOf(i)
  OBVIOUS
<1> HIDE DEF r
<1> QED
  BY <1>1, <1>2 DEF Processed, Rows

(* A worker's transaction has its effect for the first time.               *)
LEMMA WorkEffects ==
  ASSUME TypeInv, RoutingInv, GuardInv, EffectsInv, NEW i \in Instances,
         At(i, "working"), Durable(i), [Next]_vars
  PROVE  EffectsInv'
<1>1. PICK o \in Orders, w \in Workers, e \in Event :
        w = Role[i] /\ e = EventOf(i) /\ o = e.order
  BY RoleAssumption DEF TypeInv, WorkersOK, HeldOK, EventOf, At, Event
<1>2. (w = "payment" => e = Created(o)) /\ (w = "delivery" => e = Confirmed(o))
  BY <1>1, WorkedEvent DEF At
<1>3. ~Processed(w, e) /\ Processed(w, e)'
  BY <1>1, LedgerWritten DEF GuardInv, AtWork, At
<1>4. \A v, f : Processed(v, f) => Processed(v, f)'
  BY RowsOnlyGrow
<1>5. /\ orders \in [Orders -> OrderRow]
      /\ orders' = orders \/ orders' = [orders EXCEPT ![o] = Advanced(w, @)]
  BY <1>1 DEF TypeInv, WorkersOK, DbTypeOK, Durable
<1> SUFFICES ASSUME NEW p \in Orders
             PROVE  /\ \/ orders'[p].payment_id = 0
                       \/ orders'[p].payment_id = 1 /\ Processed("payment", Created(p))'
                    /\ \/ orders'[p].driver_id = 0
                       \/ orders'[p].driver_id = 1 /\ Processed("delivery", Confirmed(p))'
  BY DEF EffectsInv
<1>6. CASE orders'[p] = orders[p]
  BY <1>4, <1>6 DEF EffectsInv
<1>7. CASE p = o /\ orders'[o] = Advanced(w, orders[o])
  <2>1. /\ orders'[o].payment_id = orders[o].payment_id + (IF w = "payment" THEN 1 ELSE 0)
        /\ orders'[o].driver_id = orders[o].driver_id + (IF w = "delivery" THEN 1 ELSE 0)
    BY <1>7 DEF Advanced
  <2>2. orders[o].payment_id \in Nat /\ orders[o].driver_id \in Nat
    BY <1>5 DEF OrderRow
  <2>3. w = "payment" => orders[o].payment_id = 0
    BY <1>2, <1>3 DEF EffectsInv
  <2>4. w = "delivery" => orders[o].driver_id = 0
    BY <1>2, <1>3 DEF EffectsInv
  <2>5. \/ orders'[o].payment_id = 0
        \/ orders'[o].payment_id = 1 /\ Processed("payment", Created(o))'
    BY <1>2, <1>3, <1>4, <2>1, <2>2, <2>3 DEF EffectsInv
  <2>6. \/ orders'[o].driver_id = 0
        \/ orders'[o].driver_id = 1 /\ Processed("delivery", Confirmed(o))'
    BY <1>2, <1>3, <1>4, <2>1, <2>2, <2>4 DEF EffectsInv
  <2> QED
    BY <1>7, <2>5, <2>6
<1> QED
  BY <1>5, <1>6, <1>7

(* Every step keeps effects tied to the ledger.                            *)
LEMMA EffectsStep ==
  TypeInv /\ RoutingInv /\ GuardInv /\ EffectsInv /\ [Next]_vars => EffectsInv'
<1> SUFFICES ASSUME TypeInv, RoutingInv, GuardInv, EffectsInv, [Next]_vars PROVE EffectsInv'
  OBVIOUS
<1>1. CASE UNCHANGED dbVars
  BY <1>1 DEF EffectsInv, Processed, Rows, dbVars
<1>2. ASSUME NEW i \in Instances, At(i, "working"), Durable(i) PROVE EffectsInv'
  BY <1>2, WorkEffects
<1>3. ASSUME NEW i \in Instances, At(i, "hookCommit"), orders' = HookDurable(i),
             UNCHANGED processed_events
      PROVE  EffectsInv'
  <2>1. \A o \in Orders : /\ orders'[o].payment_id = orders[o].payment_id
                          /\ orders'[o].driver_id = orders[o].driver_id
    BY <1>3 DEF TypeInv, WorkersOK, DbTypeOK, OrderRow, HookDurable
  <2> QED
    BY <1>3, <2>1 DEF EffectsInv, Processed, Rows
<1>4. ASSUME NEW o \in Orders, orders' = Placed(o), UNCHANGED processed_events
      PROVE  EffectsInv'
  <2>1. \A p \in Orders : orders'[p] = orders[p] \/ orders'[p] = NewOrder
    BY <1>4 DEF TypeInv, WorkersOK, DbTypeOK, Placed
  <2>2. NewOrder.payment_id = 0 /\ NewOrder.driver_id = 0
    BY DEF NewOrder, NoOrder
  <2> QED
    BY <1>4, <2>1, <2>2 DEF EffectsInv, Processed, Rows
<1> QED
  BY <1>1, <1>2, <1>3, <1>4, DbFlow

(* Effects are always tied to the ledger.                                  *)
LEMMA EffectsInvariant == Safety => []EffectsInv
<1>1. Init => EffectsInv
  BY DEF Init, DbInit, NoOrder, EffectsInv
<1> QED
  BY <1>1, TypeInvariant, RoutingInvariant, GuardInvariant, EffectsStep, PTL DEF Safety

(* No order is charged twice and no second driver is assigned, however     *)
(* many instances compete and whatever is redelivered, retried or lost.    *)
THEOREM EffectsHappenOnce == Safety => []EffectsOnce
<1>1. EffectsInv => EffectsOnce
  BY DEF EffectsInv, EffectsOnce
<1> QED
  BY <1>1, EffectsInvariant, PTL

=============================================================================
