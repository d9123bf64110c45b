------------------------------ MODULE Startup ------------------------------
(***************************************************************************)
(* How a process connects to RabbitMQ and declares the topology: the       *)
(* lifespan of the API (api/main.py) with EventPublisher.connect, and the  *)
(* beginning of BaseWorker.run.                                            *)
(*                                                                         *)
(* RabbitMQ and aio-pika are external.  A connection attempt fails only by *)
(* a fault; connect_robust then raises, as the API's own loop expects, or  *)
(* keeps trying, as the comment in run says, which is a later Connect.     *)
(***************************************************************************)
EXTENDS SchemaInit

CONSTANTS
  Api,              \* the process of the order service; the others are workers
  Queues,           \* the queues order.created is routed to, in the order of
                    \* WORKER_QUEUES
  ConnectAttempts   \* the bound in lifespan

ASSUME ConnectAssumption ==
  /\ Api \in Processes
  /\ ConnectAttempts \in Nat \ {0}
  /\ Queues \in Seq(Range(Queues)) /\ Queues # <<>>

VARIABLES
  declared,   \* queues that exist, bound, each with its retry queue
  link        \* processes whose connection is open

startupVars == <<schemaVars, declared, link>>

(* Mutant: the connection is used before the topology is declared.         *)
ConnectWithoutTopology(p) ==
  /\ phase[p] = "connecting"
  /\ Goto(p, IF p = Api THEN "serving" ELSE "polling", <<>>)
  /\ link' = link \cup {p}
  /\ UNCHANGED <<tables, stopping, missing, failures, declared>>

Connect(p) ==
  /\ phase[p] = "connecting"
  /\ Goto(p, "declaring", Queues)
  /\ link' = link \cup {p}
  /\ UNCHANGED <<tables, stopping, missing, failures, declared>>

(* One round of the loop of declare_topology, which is idempotent.  After  *)
(* the last the "order service [is] ready", or the worker's loop begins.   *)
Declare(p) ==
  /\ phase[p] = "declaring" /\ todo[p] # <<>>
  /\ declared' = declared \cup {Head(todo[p])}
  /\ IF Tail(todo[p]) # <<>> THEN Goto(p, "declaring", Tail(todo[p]))
                            ELSE Goto(p, IF p = Api THEN "serving" ELSE "polling", <<>>)
  /\ UNCHANGED <<tables, stopping, missing, failures, link>>

(* A worker's run() ends with the exception; the API counts the attempt    *)
(* and, after the last one, raises RuntimeError.                           *)
ConnectFails(p) ==
  /\ phase[p] \in {"connecting", "declaring"}
  /\ link' = link \ {p}
  /\ failures' = [failures EXCEPT ![p] = @ + 1]
  /\ Goto(p, IF p = Api /\ failures[p] + 1 < ConnectAttempts THEN "connecting" ELSE Ended(p), <<>>)
  /\ UNCHANGED <<tables, stopping, missing, declared>>

StartupStep(p) ==
  \/ InitDb(p) /\ UNCHANGED <<declared, link>>
  \/ Connect(p)
  \/ Declare(p)

StartupInit == SchemaInit /\ declared = {} /\ link = {}
=============================================================================
