------------------------------ MODULE RunLoop ------------------------------
(***************************************************************************)
(* The life of the processes: startup, the polling loop of BaseWorker.run, *)
(* the service of the API, stop and restart.  What a worker does with a    *)
(* message is one step here (BaseWorker has the rest); what matters is who *)
(* holds the message and who lets go of it.                                *)
(***************************************************************************)
EXTENDS Startup

CONSTANTS
  Orders,      \* orders that clients may send
  Role,        \* Role[p]: the queue that worker p consumes
  NoOrder,     \* what a worker holds between two messages
  MaxStops,    \* bound on docker stops
  MaxFaults    \* bound on faults

Workers == Processes \ {Api}

ASSUME LifeAssumption ==
  /\ Role \in [Workers -> Range(Queues)]
  /\ NoOrder \notin Orders
  /\ {MaxStops, MaxFaults} \subseteq Nat

VARIABLES
  accepted,   \* orders answered with 201
  ready,      \* ready[q]: orders whose order.created is ready in q
  unacked,    \* unacked[p]: orders delivered on p's connection, not acked
  inHand,     \* inHand[p]: the answer to p's get, until it is dealt with
  done,       \* done[q][o]: how often o was worked on for q
  stops,      \* docker stops so far
  faults      \* faults so far

loopVars == <<accepted, ready, unacked, inHand, done>>
vars == <<startupVars, loopVars, stops, faults>>

----------------------------------------------------------------------------
(* A request that finds no publisher or no connection gets a 503 and       *)
(* leaves nothing behind; any other is routed to the bound queues.         *)
Accept(o) ==
  /\ o \notin accepted
  /\ phase[Api] = "serving" /\ Api \in link
  /\ accepted' = accepted \cup {o}
  /\ ready' = [q \in DOMAIN ready |-> ready[q] \cup (IF q \in declared THEN {o} ELSE {})]
  /\ UNCHANGED <<startupVars, unacked, inHand, done>>

(* uvicorn ends the lifespan: the connection is closed.                    *)
Shutdown ==
  /\ phase[Api] = "serving" /\ Api \in stopping
  /\ Goto(Api, "closing", <<>>)
  /\ UNCHANGED <<tables, stopping, missing, failures, declared, link, loopVars>>

----------------------------------------------------------------------------
Moves(p, where) ==
  /\ Goto(p, where, <<>>)
  /\ UNCHANGED <<tables, stopping, missing, failures, declared>>

(* The broker puts p's unacknowledged messages back on their queue.        *)
Requeue(p) ==
  /\ unacked' = [unacked EXCEPT ![p] = {}]
  /\ ready' = IF p = Api THEN ready ELSE [ready EXCEPT ![Role[p]] = @ \cup unacked[p]]

(* Mutant: while True.                                                     *)
GetForever(p) ==
  /\ phase[p] = "polling" /\ p \in link
  /\ Moves(p, "asked")
  /\ UNCHANGED <<link, loopVars>>

(* while not stopping: queue.get(timeout=1.0, fail=False).                 *)
Get(p) ==
  /\ phase[p] = "polling" /\ p \in link /\ p \notin stopping
  /\ Moves(p, "asked")
  /\ UNCHANGED <<link, loopVars>>

Leave(p) ==
  /\ phase[p] = "polling" /\ p \in stopping
  /\ Moves(p, "closing")
  /\ UNCHANGED <<link, loopVars>>

(* get on a connection that is down may raise, which ends run().           *)
GetRaises(p) ==
  /\ phase[p] = "polling" /\ p \notin link /\ p \notin stopping
  /\ Moves(p, "closing")
  /\ UNCHANGED <<link, loopVars>>

(* The broker answers.                                                     *)
Deliver(p) ==
  /\ phase[p] = "asked"
  /\ \E o \in ready[Role[p]] :
       /\ ready' = [ready EXCEPT ![Role[p]] = @ \ {o}]
       /\ unacked' = [unacked EXCEPT ![p] = @ \cup {o}]
       /\ inHand' = [inHand EXCEPT ![p] = o]
  /\ Moves(p, "answered")
  /\ UNCHANGED <<link, accepted, done>>

GetEmpty(p) ==
  /\ phase[p] = "asked" /\ ready[Role[p]] = {}
  /\ Moves(p, "polling")
  /\ UNCHANGED <<link, loopVars>>

Receive(p) ==
  /\ phase[p] = "answered"
  /\ Moves(p, "handling")
  /\ UNCHANGED <<link, loopVars>>

(* _handle_message up to its commit.                                       *)
Handle(p) ==
  /\ phase[p] = "handling"
  /\ done' = [done EXCEPT ![Role[p]][inHand[p]] = @ + 1]
  /\ Moves(p, "acking")
  /\ UNCHANGED <<link, accepted, ready, unacked, inHand>>

(* The ack.  On a channel that has been lost it raises or is void; the     *)
(* except clauses of run catch that.                                       *)
Ack(p) ==
  /\ phase[p] = "acking"
  /\ unacked' = [unacked EXCEPT ![p] = @ \ {inHand[p]}]
  /\ inHand' = [inHand EXCEPT ![p] = NoOrder]
  /\ Moves(p, "polling")
  /\ UNCHANGED <<link, accepted, ready, done>>

(* finally: connection.close().                                            *)
Close(p) ==
  /\ phase[p] = "closing"
  /\ Requeue(p)
  /\ inHand' = [inHand EXCEPT ![p] = NoOrder]
  /\ link' = link \ {p}
  /\ Moves(p, Ended(p))
  /\ UNCHANGED <<accepted, done>>

(* connect_robust restores the connection.                                 *)
Reconnect(p) ==
  /\ phase[p] \in {"serving", "polling", "answered", "handling", "acking"} /\ p \notin link
  /\ link' = link \cup {p}
  /\ UNCHANGED <<schemaVars, declared, loopVars>>

----------------------------------------------------------------------------
(* Faults.                                                                 *)

(* Mutant: a get that timed out is taken for an empty queue.               *)
TimeoutIsEmpty(p) ==
  /\ phase[p] \in {"asked", "answered"}
  /\ inHand' = [inHand EXCEPT ![p] = NoOrder]
  /\ Moves(p, "polling")
  /\ UNCHANGED <<link, accepted, ready, unacked, done>>

(* The broker answers, or has answered, too late: TimeoutError ends run(). *)
GetTimesOut(p) ==
  /\ phase[p] \in {"asked", "answered"}
  /\ inHand' = [inHand EXCEPT ![p] = NoOrder]
  /\ Moves(p, "closing")
  /\ UNCHANGED <<link, accepted, ready, unacked, done>>

(* After startup.                                                          *)
Running == {"serving", "polling", "asked", "answered", "handling", "acking", "closing"}

(* The connection of a running process is lost; a pending get raises.      *)
LinkDrops(p) ==
  /\ p \in link /\ phase[p] \in Running
  /\ link' = link \ {p}
  /\ Requeue(p)
  /\ Moves(p, IF phase[p] = "asked" THEN "closing" ELSE phase[p])
  /\ UNCHANGED <<accepted, inHand, done>>

(* The process of p dies: open transactions are rolled back.               *)
Dies(p, end) ==
  /\ phase' = [phase EXCEPT ![p] = end]
  /\ todo' = [todo EXCEPT ![p] = <<>>]
  /\ missing' = [missing EXCEPT ![p] = <<>>]
  /\ link' = link \ {p}
  /\ Requeue(p)
  /\ inHand' = [inHand EXCEPT ![p] = NoOrder]
  /\ UNCHANGED <<tables, failures, declared, accepted, done>>

Crash(p) ==
  /\ phase[p] \notin {"down", "stopped"}
  /\ Dies(p, Ended(p))
  /\ UNCHANGED stopping

----------------------------------------------------------------------------
(* Mutant: stop() ends the worker in the middle of a message.              *)
TerminateAtOnce(p) ==
  /\ phase[p] # "stopped"
  /\ stopping' = stopping \cup {p}
  /\ Dies(p, "stopped")

(* docker stop: SIGTERM.  It kills a worker whose main() has not installed *)
(* the handler yet; later it calls stop().  uvicorn handles it throughout. *)
Terminate(p) ==
  /\ phase[p] # "stopped"
  /\ stopping' = stopping \cup {p}
  /\ IF phase[p] = "down" \/ (p # Api /\ InInitDb(p))
     THEN Dies(p, "stopped")
     ELSE UNCHANGED <<tables, phase, todo, missing, failures, declared, link, loopVars>>

(* The operator starts it again.                                           *)
Up(p) ==
  /\ phase[p] = "stopped"
  /\ phase' = [phase EXCEPT ![p] = "down"]
  /\ stopping' = stopping \ {p}
  /\ UNCHANGED <<tables, todo, missing, failures, declared, link, loopVars>>

----------------------------------------------------------------------------
Init ==
  /\ StartupInit
  /\ accepted = {}
  /\ ready = [q \in Range(Queues) |-> {}]
  /\ unacked = [p \in Processes |-> {}]
  /\ inHand = [p \in Processes |-> NoOrder]
  /\ done = [q \in Range(Queues) |-> [o \in Orders |-> 0]]
  /\ stops = 0 /\ faults = 0

WorkerStep(p) ==
  \/ Get(p) \/ Leave(p) \/ GetRaises(p)
  \/ Deliver(p) \/ GetEmpty(p) \/ Receive(p)
  \/ Handle(p) \/ Ack(p)

(* What p, the broker and the container runtime do without fault.          *)
Step(p) ==
  \/ StartupStep(p) /\ UNCHANGED loopVars
  \/ p \in Workers /\ WorkerStep(p)
  \/ p = Api /\ Shutdown
  \/ Close(p)
  \/ Reconnect(p)

Fault(p) ==
  \/ DbError(p) /\ UNCHANGED <<declared, link, loopVars>>
  \/ ConnectFails(p) /\ UNCHANGED loopVars
  \/ GetTimesOut(p)
  \/ LinkDrops(p)
  \/ Crash(p)

Next ==
  \/ \E o \in Orders : Accept(o) /\ UNCHANGED <<stops, faults>>
  \/ \E p \in Processes :
       \/ Step(p) /\ UNCHANGED <<stops, faults>>
       \/ Up(p) /\ UNCHANGED <<stops, faults>>
       \/ stops < MaxStops /\ stops' = stops + 1 /\ p \notin stopping /\ Terminate(p)
          /\ UNCHANGED faults
       \/ faults < MaxFaults /\ faults' = faults + 1 /\ Fault(p) /\ UNCHANGED stops

(* Every process goes on, or is restarted by docker compose; faults, stops *)
(* and the clients' requests need not happen.                              *)
Fairness == \A p \in Processes : WF_vars(Step(p) /\ UNCHANGED <<stops, faults>>)

Safety == Init /\ [][Next]_vars
Spec   == Safety /\ Fairness

Phases == {"down", "checking", "creating", "connecting", "declaring",
           "serving", "polling", "asked", "answered", "handling", "acking",
           "closing", "stopped"}

TypeOK ==
  /\ tables \subseteq Range(Tables)
  /\ phase \in [Processes -> Phases]
  /\ stopping \subseteq Processes
  /\ todo \in [Processes -> Seq(Range(Tables) \cup Range(Queues))]
  /\ missing \in [Processes -> Seq(Range(Tables))]
  /\ \A p \in Processes : Len(missing[p]) <= Len(Tables)
  /\ failures \in [Processes -> 0..(Retries + ConnectAttempts)]
  /\ declared \subseteq Range(Queues)
  /\ link \subseteq Processes
  /\ accepted \subseteq Orders
  /\ ready \in [Range(Queues) -> SUBSET Orders]
  /\ unacked \in [Processes -> SUBSET Orders]
  /\ inHand \in [Processes -> Orders \cup {NoOrder}]
  /\ done \in [Range(Queues) -> [Orders -> Nat]]
  /\ stops \in 0..MaxStops /\ faults \in 0..MaxFaults

----------------------------------------------------------------------------
(* No process gets past init_db before the whole schema is committed, by   *)
(* whichever process won the race.                                         *)
NoWorkWithoutTables ==
  \A p \in Processes :
    phase[p] \notin {"down", "checking", "creating", "stopped"} =>
      tables = Range(Tables)

(* Losing the race to create the tables costs a process one attempt of     *)
(* init_db, whoever else starts: the retries are there for real errors     *)
(* ("Five processes creating tables simultaneously raced in init_db();     *)
(* fixed with a retry loop", docs/REPORT.md).                              *)
RaceCostsOneAttempt == \A p \in Processes : failures[p] <= 1 + faults

(* p's transaction waits for q's, which has created p's next table and has *)
(* neither committed nor failed.                                           *)
WaitsFor(p, q) ==
  /\ q # p
  /\ phase[p] = "creating" /\ todo[p] # <<>>
  /\ Head(todo[p]) \notin tables
  /\ Head(todo[p]) \in Created(q)

(* The API and the workers create the tables at the same time, each in one *)
(* transaction, and never wait for one another in a circle: create_all     *)
(* takes the tables in one order, and a process that starts over has let   *)
(* go of those it had (common/db.py:66).                                   *)
NoCircularWait ==
  \A S \in (SUBSET Processes) \ {{}} : \E p \in S : \A q \in S : ~WaitsFor(p, q)

(* A message delivered to a worker is the one it handles, or its           *)
(* connection is about to close: a get that failed or timed out leaves     *)
(* none behind unacknowledged (workers/base.py:142).                       *)
NothingStranded ==
  \A p \in Workers : unacked[p] \subseteq {inHand[p]} \/ phase[p] = "closing"

(* Stops and restarts are graceful: only a fault makes a worker work twice *)
(* on the same message ("shut down gracefully between messages on          *)
(* SIGTERM", workers/base.py:140).                                         *)
GracefulStop == \A q \in Range(Queues), o \in Orders : done[q][o] <= 1 + faults

(* An order answered with 201 is in every queue that wants it or was       *)
(* worked on, in whatever order API and workers started.                   *)
AcceptedIsKept ==
  \A o \in accepted, q \in Range(Queues) :
    \/ o \in ready[q]
    \/ \E p \in Workers : Role[p] = q /\ o \in unacked[p]
    \/ done[q][o] > 0

(* A process told to stop does stop.                                       *)
StopHonoured == \A p \in Processes : p \in stopping ~> phase[p] = "stopped"

(* In the end every accepted order has been worked on for every queue      *)
(* whose workers have not been stopped.                                    *)
BacklogDrains ==
  <>[](\A o \in accepted, p \in Workers : done[Role[p]][o] > 0 \/ p \in stopping)
=============================================================================
