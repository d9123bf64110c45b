----------------------------- MODULE Messaging -----------------------------
(***************************************************************************)
(* The RabbitMQ topology of common/messaging.py: the topic exchange        *)
(* quickbite.orders with its bindings, one work queue and one retry queue  *)
(* per worker, and the dead-letter queue.                                  *)
(*                                                                         *)
(* A queue is a bag: competing consumers, requeues and redeliveries leave  *)
(* no order that a worker could rely on, so any message may be taken next. *)
(* The broker itself is external; its durable queues and persistent        *)
(* messages survive every fault modelled here.                             *)
(***************************************************************************)
EXTENDS Naturals, Bags, BagsExt

CONSTANTS
  Orders,         \* order ids the API hands out
  MaxRetries,     \* settings.max_retries
  NotReadyMax,    \* settings.notready_max_retries
  Poison,         \* a body that is not JSON or lacks a required field
  NoMessage       \* what an instance holds between two messages

Workers    == {"payment", "restaurant", "delivery", "notification"}
EventTypes == {"order.created", "order.paid", "order.confirmed",
               "order.driver.assigned", "order.payment.failed"}

(* An event is named by its order and type; idempotency_key_for joins the  *)
(* two with a colon that neither contains, so the key is the event.        *)
Event   == [order : Orders, type : EventTypes]
Message == [event    : Event \cup {Poison},
            retry    : 0..MaxRetries,     \* header x-retry-count
            notready : 0..NotReadyMax]    \* header x-notready-count

ASSUME SettingsAssumption == MaxRetries \in Nat /\ NotReadyMax \in Nat
ASSUME SentinelAssumption == Poison \notin Event /\ NoMessage \notin Message

VARIABLES
  queue,   \* queue[w]: bag of messages ready in w's work queue
  retry,   \* retry[w]: bag of messages waiting in <queue>.retry
  dead     \* dead[w]: messages of w's queue in orders.dead-letter.queue;
           \* nobody consumes it, so multiplicities are left out

brokerVars == <<queue, retry, dead>>

----------------------------------------------------------------------------
(* Mutant: order.* matches keys of two words only.                         *)
OneWordBindings == [payment      |-> {"order.created"},
                    restaurant   |-> {"order.paid"},
                    delivery     |-> {"order.confirmed"},
                    notification |-> {"order.created", "order.paid", "order.confirmed",
                                      "order.retry"}]

(* Bindings. order.# matches a key of any number of words, order.retry     *)
(* and the three-word keys included.                                       *)
Bindings == [payment      |-> {"order.created"},
             restaurant   |-> {"order.paid"},
             delivery     |-> {"order.confirmed"},
             notification |-> EventTypes \cup {"order.retry"}]

(* Mutant: one internal key for all the retry queues.                      *)
SharedRetryKey == [w \in Workers |-> "order.retry"]

(* Routing key with which an expired message leaves a retry queue.         *)
RetryRoutingKey == [payment      |-> "order.created",
                    restaurant   |-> "order.paid",
                    delivery     |-> "order.confirmed",
                    notification |-> "order.retry"]

Consumers(key) == {w \in Workers : key \in Bindings[w]}

(* build_message with its default headers.                                 *)
NewMessage(e) == [event |-> e, retry |-> 0, notready |-> 0]

(* The work queues after the topic exchange has routed m by key.           *)
Routed(key, m) ==
  [w \in Workers |-> IF w \in Consumers(key) THEN BagAdd(queue[w], m) ELSE queue[w]]

Published(e) == Routed(e.type, NewMessage(e))

(* A publish that raises may still have been routed: only the confirm was  *)
(* lost.                                                                   *)
MaybePublished(e) == {queue, Published(e)}

Requeued(w, m) == [queue EXCEPT ![w] = BagAdd(@, m)]

(* The TTL of a message in w's retry queue runs out: it is dead-lettered   *)
(* to the topic exchange, headers unchanged, in one step of the broker.    *)
Expire(w) ==
  \E m \in BagToSet(retry[w]) :
    /\ retry' = [retry EXCEPT ![w] = BagRemove(@, m)]
    /\ queue' = Routed(RetryRoutingKey[w], m)
    /\ UNCHANGED dead

(* A publisher other than this program puts a malformed body on a queue.   *)
InjectPoison(w) ==
  /\ queue' = Requeued(w, NewMessage(Poison))
  /\ UNCHANGED <<retry, dead>>

BrokerInit ==
  /\ queue = [w \in Workers |-> EmptyBag]
  /\ retry = [w \in Workers |-> EmptyBag]
  /\ dead  = [w \in Workers |-> {}]

MessageBag(b) == IsABag(b) /\ BagToSet(b) \subseteq Message

BrokerTypeOK ==
  /\ DOMAIN queue = Workers /\ \A w \in Workers : MessageBag(queue[w])
  /\ DOMAIN retry = Workers /\ \A w \in Workers : MessageBag(retry[w])
  /\ dead \in [Workers -> SUBSET Message]
=============================================================================
