--------------------------- MODULE DeliveryProofs ---------------------------
(***************************************************************************)
(* Theorems about the messages in the life of the processes: none is       *)
(* stranded with a worker and none of an accepted order is lost, for any   *)
(* number of processes, queues and orders, stops and faults.  In the end   *)
(* the types, which the invariants gathered until then nearly give.        *)
(***************************************************************************)
EXTENDS RunLoopProofs

DeliveryTypes ==
  /\ accepted \subseteq Orders
  /\ ready \in [Range(Queues) -> SUBSET Orders]
  /\ unacked \in [Processes -> SUBSET Orders]
  /\ inHand \in [Processes -> Orders \cup {NoOrder}]
  /\ done \in [Range(Queues) -> [Orders -> Nat]]

Early   == {"down", "checking", "creating", "connecting", "declaring", "stopped"}
Holding == {"answered", "handling", "acking"}

(* What p holds: only a worker between the answer to its get and its ack,  *)
(* or about to close, has a delivery, and before the ack the work is done. *)
HandOK(p) ==
  /\ unacked[p] # {} => p \in Workers /\ phase[p] \in Holding \cup {"closing"}
  /\ phase[p] # "closing" => unacked[p] \subseteq {inHand[p]}
  /\ phase[p] \in Holding => p \in Workers /\ inHand[p] \in Orders
  /\ phase[p] = "acking" => done[Role[p]][inHand[p]] > 0

(* What p has not declared, it has yet to declare.                         *)
TopologyOK(p) ==
  /\ phase[p] = "declaring" =>
       /\ todo[p] \in Seq(Range(Queues))
       /\ Range(Queues) \subseteq declared \cup Range(todo[p])
  /\ phase[p] \in Running => declared = Range(Queues)

HandsInv == DeliveryTypes /\ \A p \in Processes : HandOK(p)

TopologyInv == declared \subseteq Range(Queues) /\ \A p \in Processes : TopologyOK(p)

----------------------------------------------------------------------------
(* Summaries of the actions.                                               *)

(* A step before the loop, or outside it, moves p alone and holds nothing. *)
LEMMA EarlySteps ==
  ASSUME SchemaInv, NEW p \in Processes,
         InitDb(p) \/ Connect(p) \/ Declare(p) \/ DbError(p) \/ ConnectFails(p) \/ Up(p)
  PROVE  \E where \in Early \cup {"serving", "polling"} :
           phase' = [phase EXCEPT ![p] = where] /\ phase[p] \in Early
<1>1. CASE Start(p) \/ LookUp(p) \/ SchemaCommit(p) \/ Connect(p) \/ Declare(p) \/ Up(p)
  BY <1>1 DEF Start, LookUp, SchemaCommit, Connect, Declare, Up, Goto, Early
<1>2. CASE CreateTable(p)
  <2>1. phase' = [phase EXCEPT ![p] = "creating"]
    BY <1>2 DEF CreateTable, SchemaInv, SchemaTypes
  <2>2. QED
    BY <1>2, <2>1 DEF CreateTable, Early
<1>3. CASE TableExists(p) \/ DbError(p) \/ ConnectFails(p)
  BY <1>3 DEF TableExists, DbError, AttemptFails, ConnectFails, Ended, Goto, Early
<1>4. QED
  BY <1>1, <1>2, <1>3 DEF InitDb

(* A death ends p and puts back what it held.                              *)
LEMMA Deaths ==
  ASSUME SchemaInv, NEW p \in Processes, Crash(p) \/ Terminate(p)
  PROVE  \/ \E end \in {"down", "stopped"} : Dies(p, end)
         \/ UNCHANGED <<phase, todo, declared, loopVars>>
BY DEF Crash, Terminate, Ended

(* What a step of p leaves to the hands of the others.                     *)
OthersHand(p) ==
  /\ \A q \in Processes \ {p} :
       phase'[q] = phase[q] /\ unacked'[q] = unacked[q] /\ inHand'[q] = inHand[q]
  /\ \A r \in Range(Queues), o \in Orders : done'[r][o] >= done[r][o]

(* A step is safe when it is for the hand of the process that takes it.    *)
LEMMA HandStep ==
  ASSUME HandsInv, NEW p \in Processes, OthersHand(p), HandOK(p)', DeliveryTypes'
  PROVE  HandsInv'
<1>1. ASSUME NEW q \in Processes \ {p} PROVE HandOK(q)'
  <2>1. HandOK(q)
    BY DEF HandsInv
  <2>2. ASSUME phase[q] = "acking" PROVE done'[Role[q]][inHand[q]] > 0
    <3>1. q \in Workers /\ inHand[q] \in Orders /\ done[Role[q]][inHand[q]] > 0
      BY <2>1, <2>2 DEF HandOK, Holding
    <3>2. Role[q] \in Range(Queues)
      BY <3>1, LifeAssumption
    <3>3. done'[Role[q]][inHand[q]] >= done[Role[q]][inHand[q]]
      BY <3>1, <3>2 DEF OthersHand
    <3>4. done'[Role[q]][inHand[q]] \in Nat /\ done[Role[q]][inHand[q]] \in Nat
      BY <3>1, <3>2 DEF DeliveryTypes, HandsInv
    <3>5. QED
      BY <3>1, <3>3, <3>4
  <2>3. QED
    BY <2>1, <2>2 DEF HandOK, OthersHand
<1>2. QED
  BY <1>1 DEF HandsInv

(* A step that touches no message.                                         *)
LEMMA QuietHand ==
  ASSUME HandsInv, SchemaInv, NEW p \in Processes, UNCHANGED <<accepted, ready, unacked, inHand, done>>,
         NEW where, phase' = [phase EXCEPT ![p] = where],
         where \notin Holding,
         unacked[p] = {}
  PROVE  HandsInv'
<1>1. DeliveryTypes' /\ OthersHand(p)
  BY DEF HandsInv, SchemaInv, SchemaTypes, DeliveryTypes, OthersHand, loopVars
<1>2. phase'[p] = where
  BY DEF SchemaInv, SchemaTypes
<1>3. HandOK(p)'
  BY <1>2 DEF HandOK, loopVars, HandsInv, Holding
<1>4. QED
  BY <1>1, <1>3, HandStep

----------------------------------------------------------------------------
(* The steps of the loop, one by one.                                      *)

(* Asking, and getting nothing.                                            *)
LEMMA PollHand ==
  ASSUME HandsInv, SchemaInv, NEW p \in Processes,
         Get(p) \/ Leave(p) \/ GetRaises(p) \/ GetEmpty(p)
  PROVE  HandsInv'
<1>1. unacked[p] = {}
  BY DEF HandsInv, HandOK, Holding, Get, Leave, GetRaises, GetEmpty
<1>2. UNCHANGED <<accepted, ready, unacked, inHand, done>>
  BY DEF Get, Leave, GetRaises, GetEmpty, loopVars
<1>3. PICK where \in {"asked", "closing", "polling"} : phase' = [phase EXCEPT ![p] = where]
  BY DEF Get, Leave, GetRaises, GetEmpty, Moves, Goto
<1>4. where \notin Holding
  BY DEF Holding
<1>5. QED
  BY <1>1, <1>2, <1>3, <1>4, QuietHand

(* The broker's answer.                                                    *)
LEMMA DeliverHand ==
  ASSUME HandsInv, SchemaInv, NEW p \in Workers, Deliver(p)
  PROVE  HandsInv'
<1>1. PICK o \in ready[Role[p]] :
        /\ ready' = [ready EXCEPT ![Role[p]] = @ \ {o}]
        /\ unacked' = [unacked EXCEPT ![p] = @ \cup {o}]
        /\ inHand' = [inHand EXCEPT ![p] = o]
  BY DEF Deliver
<1>2. Role[p] \in Range(Queues) /\ p \in Processes
  BY LifeAssumption DEF Workers
<1>3. o \in Orders /\ unacked[p] = {}
  BY <1>2 DEF Deliver, HandsInv, DeliveryTypes, HandOK, Holding
<1>4. phase' = [phase EXCEPT ![p] = "answered"] /\ phase'[p] = "answered"
  BY <1>2 DEF Deliver, Moves, Goto, SchemaInv, SchemaTypes
<1>5. unacked'[p] = {o} /\ inHand'[p] = o
  BY <1>1, <1>2, <1>3 DEF HandsInv, DeliveryTypes
<1>6. DeliveryTypes'
  BY <1>1, <1>2, <1>3 DEF HandsInv, DeliveryTypes, Deliver
<1>7. OthersHand(p)
  <2>1. \A q \in Processes \ {p} :
          phase'[q] = phase[q] /\ unacked'[q] = unacked[q] /\ inHand'[q] = inHand[q]
    BY <1>1, <1>4 DEF HandsInv, DeliveryTypes, SchemaInv, SchemaTypes
  <2>2. QED
    BY <2>1 DEF OthersHand, Deliver, HandsInv, DeliveryTypes
<1>8. HandOK(p)'
  BY <1>3, <1>4, <1>5 DEF HandOK, Holding
<1>9. QED
  BY <1>2, <1>6, <1>7, <1>8, HandStep

(* run takes the answer up.                                                *)
LEMMA ReceiveHand ==
  ASSUME HandsInv, SchemaInv, NEW p \in Processes, Receive(p)
  PROVE  HandsInv'
<1>1. phase' = [phase EXCEPT ![p] = "handling"] /\ phase'[p] = "handling" /\ UNCHANGED loopVars
  BY DEF Receive, Moves, Goto, SchemaInv, SchemaTypes
<1>2. DeliveryTypes' /\ OthersHand(p)
  BY <1>1 DEF HandsInv, SchemaInv, SchemaTypes, DeliveryTypes, OthersHand, loopVars
<1>3. HandOK(p)'
  BY <1>1 DEF HandsInv, HandOK, Holding, Receive, loopVars
<1>4. QED
  BY <1>2, <1>3, HandStep

(* The work is done and committed.                                         *)
LEMMA HandleHand ==
  ASSUME HandsInv, SchemaInv, NEW p \in Processes, Handle(p)
  PROVE  HandsInv'
<1>1. p \in Workers /\ inHand[p] \in Orders /\ Role[p] \in Range(Queues)
  BY LifeAssumption DEF Handle, HandsInv, HandOK, Holding
<1>2. phase' = [phase EXCEPT ![p] = "acking"] /\ phase'[p] = "acking"
  BY DEF Handle, Moves, Goto, SchemaInv, SchemaTypes
<1>3. done' \in [Range(Queues) -> [Orders -> Nat]]
  BY <1>1 DEF Handle, HandsInv, DeliveryTypes
<1>4. done'[Role[p]][inHand[p]] = done[Role[p]][inHand[p]] + 1
  BY <1>1 DEF Handle, HandsInv, DeliveryTypes
<1>5. \A r \in Range(Queues), o \in Orders : done'[r][o] >= done[r][o]
  BY <1>1 DEF Handle, HandsInv, DeliveryTypes
<1>6. DeliveryTypes' /\ OthersHand(p)
  BY <1>2, <1>3, <1>5 DEF Handle, HandsInv, SchemaInv, SchemaTypes, DeliveryTypes, OthersHand
<1>7. done[Role[p]][inHand[p]] \in Nat
  BY <1>1 DEF HandsInv, DeliveryTypes
<1>8. HandOK(p)'
  BY <1>1, <1>2, <1>4, <1>7 DEF Handle, HandsInv, HandOK, Holding
<1>9. QED
  BY <1>6, <1>8, HandStep

(* Once it is acked, or given up, p holds no message.                      *)
LEMMA EmptiedHand ==
  ASSUME HandsInv, SchemaInv, NEW p \in Processes, NEW where,
         phase' = [phase EXCEPT ![p] = where], where \notin Holding,
         unacked' \in [Processes -> SUBSET Orders], unacked'[p] = {},
         \A q \in Processes \ {p} : unacked'[q] = unacked[q],
         inHand' = [inHand EXCEPT ![p] = NoOrder],
         ready' \in [Range(Queues) -> SUBSET Orders],
         UNCHANGED <<accepted, done>>
  PROVE  HandsInv'
<1>1. phase'[p] = where
  BY DEF SchemaInv, SchemaTypes
<1>2. DeliveryTypes'
  BY DEF HandsInv, DeliveryTypes
<1>3. OthersHand(p)
  BY DEF HandsInv, SchemaInv, SchemaTypes, DeliveryTypes, OthersHand
<1>4. HandOK(p)'
  BY <1>1 DEF HandOK, Holding
<1>5. QED
  BY <1>2, <1>3, <1>4, HandStep

(* Requeue moves what p holds and nothing else.                            *)
LEMMA RequeueTypes ==
  ASSUME DeliveryTypes, NEW p \in Processes, Requeue(p)
  PROVE  /\ unacked' \in [Processes -> SUBSET Orders] /\ unacked'[p] = {}
         /\ \A q \in Processes \ {p} : unacked'[q] = unacked[q]
         /\ ready' \in [Range(Queues) -> SUBSET Orders]
         /\ \A q \in Range(Queues) : ready[q] \subseteq ready'[q]
         /\ p \in Workers => unacked[p] \subseteq ready'[Role[p]]
<1>1. p # Api => p \in Workers /\ Role[p] \in Range(Queues)
  BY LifeAssumption DEF Workers
<1>2. p \in Workers => p # Api
  BY DEF Workers
<1>3. QED
  BY <1>1, <1>2 DEF Requeue, DeliveryTypes

(* The ack.                                                                *)
LEMMA AckHand ==
  ASSUME HandsInv, SchemaInv, NEW p \in Processes, Ack(p)
  PROVE  HandsInv'
<1>1. unacked[p] \subseteq {inHand[p]}
  BY DEF Ack, HandsInv, HandOK
<1>2. unacked' \in [Processes -> SUBSET Orders] /\ unacked'[p] = {}
      /\ \A q \in Processes \ {p} : unacked'[q] = unacked[q]
  BY <1>1 DEF Ack, HandsInv, DeliveryTypes
<1>3. phase' = [phase EXCEPT ![p] = "polling"] /\ "polling" \notin Holding
  BY DEF Ack, Moves, Goto, Holding
<1>4. ready' \in [Range(Queues) -> SUBSET Orders] /\ UNCHANGED <<accepted, done>>
      /\ inHand' = [inHand EXCEPT ![p] = NoOrder]
  BY DEF Ack, HandsInv, DeliveryTypes
<1>5. QED
  BY <1>2, <1>3, <1>4, EmptiedHand

(* Closing, and dying.                                                     *)
LEMMA EndHand ==
  ASSUME HandsInv, SchemaInv, NEW p \in Processes,
         Close(p) \/ \E end \in {"down", "stopped"} : Dies(p, end)
  PROVE  HandsInv'
<1>1. PICK end \in {"down", "stopped"} : phase' = [phase EXCEPT ![p] = end]
  BY DEF Close, Dies, Moves, Goto, Ended
<1>2. Requeue(p) /\ inHand' = [inHand EXCEPT ![p] = NoOrder] /\ UNCHANGED <<accepted, done>>
  BY DEF Close, Dies
<1>3. end \notin Holding
  BY DEF Holding
<1>4. QED
  BY <1>1, <1>2, <1>3, RequeueTypes, EmptiedHand DEF HandsInv

(* A get that timed out closes the connection with the answer unacked.     *)
LEMMA TimeoutHand ==
  ASSUME HandsInv, SchemaInv, NEW p \in Processes, GetTimesOut(p)
  PROVE  HandsInv'
<1>1. phase' = [phase EXCEPT ![p] = "closing"] /\ phase'[p] = "closing"
  BY DEF GetTimesOut, Moves, Goto, SchemaInv, SchemaTypes
<1>2. DeliveryTypes' /\ OthersHand(p)
  BY <1>1 DEF GetTimesOut, HandsInv, SchemaInv, SchemaTypes, DeliveryTypes, OthersHand
<1>3. HandOK(p)'
  BY <1>1 DEF GetTimesOut, HandsInv, HandOK, Holding
<1>4. QED
  BY <1>2, <1>3, HandStep

(* A lost connection takes the deliveries and leaves the message in hand.  *)
LEMMA LinkHand ==
  ASSUME HandsInv, SchemaInv, NEW p \in Processes, LinkDrops(p)
  PROVE  HandsInv'
<1>1. PICK where :
        /\ phase' = [phase EXCEPT ![p] = where]
        /\ where = IF phase[p] = "asked" THEN "closing" ELSE phase[p]
  BY DEF LinkDrops, Moves, Goto
<1>2. phase'[p] = where
  BY <1>1 DEF SchemaInv, SchemaTypes
<1>3. /\ unacked' \in [Processes -> SUBSET Orders] /\ unacked'[p] = {}
      /\ \A q \in Processes \ {p} : unacked'[q] = unacked[q]
      /\ ready' \in [Range(Queues) -> SUBSET Orders]
  BY RequeueTypes DEF LinkDrops, HandsInv
<1>4. UNCHANGED <<accepted, inHand, done>>
  BY DEF LinkDrops
<1>5. DeliveryTypes' /\ OthersHand(p)
  <2>1. DeliveryTypes
    BY DEF HandsInv
  <2>2. DeliveryTypes'
    BY <1>3, <1>4, <2>1 DEF DeliveryTypes
  <2>3. \A q \in Processes \ {p} : phase'[q] = phase[q]
    BY <1>1 DEF SchemaInv, SchemaTypes
  <2>4. \A r \in Range(Queues), o \in Orders : done'[r][o] >= done[r][o]
    BY <1>4, <2>1 DEF DeliveryTypes
  <2>5. QED
    BY <1>3, <1>4, <2>2, <2>3, <2>4 DEF OthersHand
<1>6. HandOK(p)'
  BY <1>1, <1>2, <1>3, <1>4 DEF HandsInv, HandOK, Holding
<1>7. QED
  BY <1>5, <1>6, HandStep

(* Nothing else touches a message, but a request.                          *)
LEMMA AcceptHand ==
  ASSUME HandsInv, NEW o \in Orders, Accept(o)
  PROVE  HandsInv'
<1>1. DeliveryTypes'
  BY DEF HandsInv, DeliveryTypes, Accept
<1>2. UNCHANGED <<phase, unacked, inHand, done>>
  BY DEF Accept, startupVars, schemaVars
<1>3. QED
  BY <1>1, <1>2 DEF HandsInv, HandOK

(* The invariant of the hands is inductive.                                *)
LEMMA HandsInvHolds == Safety => []HandsInv
<1>1. Init => HandsInv
  BY DEF Init, StartupInit, SchemaInit, HandsInv, DeliveryTypes, HandOK, Holding
<1>2. SchemaInv /\ HandsInv /\ [Next]_vars => HandsInv'
  <2> SUFFICES ASSUME SchemaInv, HandsInv, [Next]_vars PROVE HandsInv'
    OBVIOUS
  <2>1. CASE UNCHANGED <<phase, loopVars>>
    BY <2>1 DEF loopVars, HandsInv, DeliveryTypes, HandOK
  <2>2. CASE UNCHANGED vars
    BY <2>1, <2>2 DEF vars, startupVars, schemaVars
  <2>3. ASSUME NEW p \in Processes, UNCHANGED loopVars,
               InitDb(p) \/ Connect(p) \/ Declare(p) \/ DbError(p) \/ ConnectFails(p) \/ Up(p)
        PROVE  HandsInv'
    <3>1. PICK where \in Early \cup {"serving", "polling"} :
            phase' = [phase EXCEPT ![p] = where] /\ phase[p] \in Early
      BY <2>3, EarlySteps
    <3>2. unacked[p] = {} /\ where \notin Holding
      BY <3>1 DEF HandsInv, HandOK, Early, Holding
    <3>3. QED
      BY <2>3, <3>1, <3>2, QuietHand DEF loopVars
  <2>4. ASSUME NEW p \in Processes, p = Api /\ Shutdown PROVE HandsInv'
    <3>1. unacked[p] = {} /\ "closing" \notin Holding
      BY <2>4 DEF HandsInv, HandOK, Workers, Holding
    <3>2. UNCHANGED loopVars /\ phase' = [phase EXCEPT ![p] = "closing"]
      BY <2>4 DEF Shutdown, Goto
    <3>3. QED
      BY <3>1, <3>2, QuietHand DEF loopVars
  <2>5. ASSUME NEW p \in Processes, Step(p) PROVE HandsInv'
    <3>1. CASE StartupStep(p) /\ UNCHANGED loopVars
      BY <2>3, <3>1 DEF StartupStep
    <3>2. CASE p \in Workers /\ WorkerStep(p)
      BY <3>2, PollHand, DeliverHand, ReceiveHand, HandleHand, AckHand DEF WorkerStep
    <3>3. CASE Close(p)
      BY <3>3, EndHand
    <3>4. CASE Reconnect(p)
      BY <3>4, <2>1 DEF Reconnect, schemaVars
    <3>5. QED
      BY <2>4, <2>5, <3>1, <3>2, <3>3, <3>4 DEF Step
  <2>6. ASSUME NEW p \in Processes, Crash(p) \/ Terminate(p) PROVE HandsInv'
    BY <2>1, <2>6, Deaths, EndHand
  <2>7. ASSUME NEW p \in Processes, Fault(p) PROVE HandsInv'
    BY <2>3, <2>6, <2>7, TimeoutHand, LinkHand DEF Fault
  <2>8. ASSUME NEW p \in Processes, Up(p) PROVE HandsInv'
    BY <2>3, <2>8 DEF Up
  <2>9. QED
    BY <2>2, <2>5, <2>6, <2>7, <2>8, AcceptHand DEF Next
<1>3. QED
  BY <1>1, <1>2, SchemaInvHolds, PTL DEF Safety

(* A message delivered to a worker is the one it handles, or its           *)
(* connection is about to close, whatever stops, times out, is cut or      *)
(* crashes (NothingStranded of run life).                                  *)
THEOREM NoDeliveryStranded == Safety => []NothingStranded
<1>1. HandsInv => NothingStranded
  BY DEF HandsInv, HandOK, NothingStranded, Workers
<1>2. QED
  BY <1>1, HandsInvHolds, PTL

----------------------------------------------------------------------------
(* The topology.                                                           *)

(* A step is safe that undeclares nothing and brings no process into its   *)
(* loop too early.                                                         *)
LEMMA TopologyStep ==
  ASSUME SchemaInv, TopologyInv, NEW p \in Processes,
         declared' = declared, \A q \in Processes \ {p} : todo'[q] = todo[q],
         NEW where, phase' = [phase EXCEPT ![p] = where],
         where # "declaring",
         where \in Running => phase[p] \in Running
  PROVE  TopologyInv'
<1>1. phase'[p] = where /\ \A q \in Processes \ {p} : phase'[q] = phase[q]
  BY DEF SchemaInv, SchemaTypes
<1>2. TopologyOK(p)'
  BY <1>1 DEF TopologyInv, TopologyOK
<1>3. QED
  BY <1>1, <1>2 DEF TopologyInv, TopologyOK

(* What Moves says of the topology.                                        *)
LEMMA MovesTopology ==
  ASSUME SchemaInv, TopologyInv, NEW p \in Processes, NEW where,
         Moves(p, where), where # "declaring",
         where \in Running => phase[p] \in Running
  PROVE  TopologyInv'
<1>1. \A q \in Processes \ {p} : todo'[q] = todo[q]
  BY DEF Moves, Goto, SchemaInv, SchemaTypes
<1>2. QED
  BY <1>1, TopologyStep DEF Moves, Goto

(* A failed attempt starts over or ends, far from the topology.            *)
LEMMA FailureTopology ==
  ASSUME SchemaInv, TopologyInv, NEW p \in Processes, declared' = declared,
         TableExists(p) \/ DbError(p) \/ ConnectFails(p)
  PROVE  TopologyInv'
<1>1. PICK where \in {"checking", "connecting", "down", "stopped"} :
        phase' = [phase EXCEPT ![p] = where]
  BY DEF TableExists, DbError, AttemptFails, ConnectFails, Ended, Goto
<1>2. \A q \in Processes \ {p} : todo'[q] = todo[q]
  BY DEF TableExists, DbError, AttemptFails, ConnectFails, Goto, SchemaInv, SchemaTypes
<1>3. where # "declaring" /\ where \notin Running
  BY DEF Running
<1>4. QED
  BY <1>1, <1>2, <1>3, TopologyStep

(* The rest of startup but declaring.                                      *)
LEMMA StartupTopology ==
  ASSUME SchemaInv, TopologyInv, NEW p \in Processes, declared' = declared,
         Start(p) \/ LookUp(p) \/ CreateTable(p) \/ SchemaCommit(p) \/ Up(p)
  PROVE  TopologyInv'
<1>1. PICK where \in {"checking", "creating", "connecting", "down"} :
        phase' = [phase EXCEPT ![p] = where]
  <2>1. CASE CreateTable(p)
    <3>1. phase' = [phase EXCEPT ![p] = "creating"]
      BY <2>1 DEF CreateTable, SchemaInv, SchemaTypes
    <3>2. QED
      BY <3>1
  <2>2. QED
    BY <2>1 DEF Start, LookUp, SchemaCommit, Up, Goto
<1>2. \A q \in Processes \ {p} : todo'[q] = todo[q]
  BY DEF Start, LookUp, CreateTable, SchemaCommit, Up, Goto, SchemaInv, SchemaTypes
<1>3. where # "declaring" /\ where \notin Running
  BY DEF Running
<1>4. QED
  BY <1>1, <1>2, <1>3, TopologyStep

(* Connecting: everything is yet to be declared.                           *)
LEMMA ConnectTopology ==
  ASSUME SchemaInv, TopologyInv, NEW p \in Processes, Connect(p)
  PROVE  TopologyInv'
<1>1. phase'[p] = "declaring" /\ todo'[p] = Queues /\ declared' = declared
  BY DEF Connect, Goto, SchemaInv, SchemaTypes
<1>2. \A q \in Processes \ {p} : phase'[q] = phase[q] /\ todo'[q] = todo[q]
  BY DEF Connect, Goto, SchemaInv, SchemaTypes
<1>3. TopologyOK(p)'
  BY <1>1, ConnectAssumption DEF TopologyOK, Running
<1>4. QED
  BY <1>1, <1>2, <1>3 DEF TopologyInv, TopologyOK

(* Declaring the next queue; with the last one, all are there.             *)
LEMMA DeclareTopology ==
  ASSUME SchemaInv, TopologyInv, NEW p \in Processes, Declare(p)
  PROVE  TopologyInv'
<1> DEFINE h == Head(todo[p])
           t == Tail(todo[p])
<1>1. /\ todo[p] \in Seq(Range(Queues)) /\ todo[p] # <<>>
      /\ Range(Queues) \subseteq declared \cup Range(todo[p])
      /\ declared \subseteq Range(Queues)
  BY DEF Declare, TopologyInv, TopologyOK
<1>2. h \in Range(Queues) /\ t \in Seq(Range(Queues)) /\ Range(todo[p]) = {h} \cup Range(t)
  BY <1>1, TailRange
<1>3. /\ declared' = declared \cup {h} /\ declared' \subseteq Range(Queues)
      /\ Range(Queues) \subseteq declared' \cup Range(t)
  BY <1>1, <1>2 DEF Declare
<1>4. \A q \in Processes \ {p} : phase'[q] = phase[q] /\ todo'[q] = todo[q]
  BY DEF Declare, Goto, SchemaInv, SchemaTypes
<1>5. TopologyOK(p)'
  <2>1. CASE t # <<>>
    <3>1. phase'[p] = "declaring" /\ todo'[p] = t
      BY <2>1 DEF Declare, Goto, SchemaInv, SchemaTypes
    <3>2. QED
      BY <3>1, <1>2, <1>3 DEF TopologyOK, Running
  <2>2. CASE t = <<>>
    <3>1. phase'[p] \in {"serving", "polling"}
      BY <2>2 DEF Declare, Goto, SchemaInv, SchemaTypes
    <3>2. Range(t) = {}
      BY <2>2, RangeOfEmpty
    <3>3. declared' = Range(Queues)
      BY <1>3, <3>2
    <3>4. QED
      BY <3>1, <3>3 DEF TopologyOK, Running
  <2>3. QED
    BY <2>1, <2>2
<1>6. QED
  BY <1>3, <1>4, <1>5 DEF TopologyInv, TopologyOK

(* The loop, which begins after the declarations.                          *)
LEMMA LoopTopology ==
  ASSUME SchemaInv, TopologyInv, NEW p \in Processes,
         \/ WorkerStep(p)
         \/ p = Api /\ Shutdown
         \/ Close(p) \/ GetTimesOut(p) \/ LinkDrops(p)
  PROVE  TopologyInv'
<1>1. CASE WorkerStep(p)
  BY <1>1, MovesTopology
     DEF WorkerStep, Get, Leave, GetRaises, Deliver, GetEmpty, Receive, Handle, Ack, Running
<1>2. CASE p = Api /\ Shutdown
  <2>1. Moves(p, "closing")
    BY <1>2 DEF Shutdown, Moves
  <2>2. QED
    BY <1>2, <2>1, MovesTopology DEF Shutdown, Running
<1>3. CASE Close(p) \/ GetTimesOut(p) \/ LinkDrops(p)
  BY <1>3, MovesTopology DEF Close, Ended, GetTimesOut, LinkDrops, Running
<1>4. QED
  BY <1>1, <1>2, <1>3

(* A death.                                                                *)
LEMMA DiesTopology ==
  ASSUME SchemaInv, TopologyInv, NEW p \in Processes, NEW end \in {"down", "stopped"},
         Dies(p, end)
  PROVE  TopologyInv'
<1>1. \A q \in Processes \ {p} : todo'[q] = todo[q]
  BY DEF Dies, SchemaInv, SchemaTypes
<1>2. QED
  BY <1>1, TopologyStep DEF Dies, Running

(* In its loop a process finds every queue declared, whoever declared it.  *)
LEMMA TopologyInvHolds == Safety => []TopologyInv
<1>1. Init => TopologyInv
  BY DEF Init, StartupInit, SchemaInit, TopologyInv, TopologyOK, Running
<1>2. SchemaInv /\ TopologyInv /\ [Next]_vars => TopologyInv'
  <2> SUFFICES ASSUME SchemaInv, TopologyInv, [Next]_vars PROVE TopologyInv'
    OBVIOUS
  <2>1. CASE UNCHANGED <<phase, todo, declared>>
    BY <2>1 DEF TopologyInv, TopologyOK
  <2>2. CASE UNCHANGED vars
    BY <2>1, <2>2 DEF vars, startupVars, schemaVars
  <2>3. ASSUME NEW o \in Orders, Accept(o) PROVE TopologyInv'
    BY <2>1, <2>3 DEF Accept, startupVars, schemaVars
  <2>4. ASSUME NEW p \in Processes, Step(p) PROVE TopologyInv'
    <3>1. CASE StartupStep(p)
      BY <3>1, StartupTopology, FailureTopology, ConnectTopology, DeclareTopology
         DEF StartupStep, InitDb
    <3>2. CASE Reconnect(p)
      BY <2>1, <3>2 DEF Reconnect, schemaVars
    <3>3. QED
      BY <2>4, <3>1, <3>2, LoopTopology DEF Step
  <2>5. ASSUME NEW p \in Processes, Crash(p) \/ Terminate(p) PROVE TopologyInv'
    BY <2>1, <2>5, Deaths, DiesTopology
  <2>6. ASSUME NEW p \in Processes, Fault(p) PROVE TopologyInv'
    <3>1. CASE (DbError(p) /\ UNCHANGED <<declared, link, loopVars>>) \/ ConnectFails(p)
      BY <3>1, FailureTopology DEF ConnectFails
    <3>2. QED
      BY <2>5, <2>6, <3>1, LoopTopology DEF Fault
  <2>7. ASSUME NEW p \in Processes, Up(p) PROVE TopologyInv'
    BY <2>7, StartupTopology DEF Up
  <2>8. QED
    BY <2>2, <2>3, <2>4, <2>5, <2>6, <2>7 DEF Next
<1>3. QED
  BY <1>1, <1>2, SchemaInvHolds, PTL DEF Safety

----------------------------------------------------------------------------
(* What has become of an accepted order at a queue.                        *)
KeptAt(o, q) ==
  \/ o \in ready[q]
  \/ \E p \in Workers : Role[p] = q /\ o \in unacked[p]
  \/ done[q][o] > 0

(* Putting back what p holds loses nothing.                                *)
LEMMA RequeueKeeps ==
  ASSUME HandsInv, NEW p \in Processes, Requeue(p), done' = done,
         NEW o \in Orders, NEW q \in Range(Queues), KeptAt(o, q)
  PROVE  KeptAt(o, q)'
<1>1. /\ \A w \in Processes \ {p} : unacked'[w] = unacked[w]
      /\ \A r \in Range(Queues) : ready[r] \subseteq ready'[r]
      /\ p \in Workers => unacked[p] \subseteq ready'[Role[p]]
  BY RequeueTypes DEF HandsInv
<1>2. CASE o \in ready[q] \/ done[q][o] > 0
  BY <1>1, <1>2 DEF KeptAt
<1>3. ASSUME NEW w \in Workers, Role[w] = q, o \in unacked[w] PROVE KeptAt(o, q)'
  BY <1>1, <1>3 DEF KeptAt, Workers
<1>4. QED
  BY <1>2, <1>3 DEF KeptAt

(* The broker's answer moves a message from the queue to the worker.       *)
LEMMA DeliverKeeps ==
  ASSUME HandsInv, NEW p \in Workers, Deliver(p),
         NEW o \in Orders, NEW q \in Range(Queues), KeptAt(o, q)
  PROVE  KeptAt(o, q)'
<1>1. PICK m \in ready[Role[p]] :
        /\ ready' = [ready EXCEPT ![Role[p]] = @ \ {m}]
        /\ unacked' = [unacked EXCEPT ![p] = @ \cup {m}]
  BY DEF Deliver
<1>2. Role[p] \in Range(Queues) /\ p \in Processes
  BY LifeAssumption DEF Workers
<1>3. /\ \A w \in Processes : unacked[w] \subseteq unacked'[w]
      /\ m \in unacked'[p]
      /\ \A r \in Range(Queues) : ready[r] \subseteq ready'[r] \cup {m}
      /\ \A r \in Range(Queues) \ {Role[p]} : ready[r] = ready'[r]
  BY <1>1, <1>2 DEF HandsInv, DeliveryTypes
<1>4. CASE o \in ready[q]
  BY <1>3, <1>4 DEF KeptAt
<1>5. ASSUME NEW w \in Workers, Role[w] = q, o \in unacked[w] PROVE KeptAt(o, q)'
  BY <1>3, <1>5 DEF KeptAt, Workers
<1>6. CASE done[q][o] > 0
  BY <1>6 DEF KeptAt, Deliver
<1>7. QED
  BY <1>4, <1>5, <1>6 DEF KeptAt

(* The ack gives up a message whose work is committed, or none.            *)
LEMMA AckKeeps ==
  ASSUME HandsInv, NEW p \in Processes, Ack(p),
         NEW o \in Orders, NEW q \in Range(Queues), KeptAt(o, q)
  PROVE  KeptAt(o, q)'
<1>1. HandOK(p) /\ phase[p] = "acking"
  BY DEF HandsInv, Ack
<1>2. \A w \in Processes : unacked'[w] = unacked[w] \ (IF w = p THEN {inHand[p]} ELSE {})
  BY DEF Ack, HandsInv, DeliveryTypes
<1>3. UNCHANGED <<ready, done>>
  BY DEF Ack
<1>4. CASE o \in ready[q] \/ done[q][o] > 0
  BY <1>3, <1>4 DEF KeptAt
<1>5. ASSUME NEW w \in Workers, Role[w] = q, o \in unacked[w] PROVE KeptAt(o, q)'
  <2>1. CASE w = p
    <3>1. o = inHand[p]
      BY <1>1, <1>5, <2>1 DEF HandOK
    <3>2. done[q][o] > 0
      BY <1>1, <1>5, <2>1, <3>1 DEF HandOK
    <3>3. QED
      BY <1>3, <3>2 DEF KeptAt
  <2>2. CASE w # p
    BY <1>2, <1>5, <2>2 DEF KeptAt, Workers
  <2>3. QED
    BY <2>1, <2>2
<1>6. QED
  BY <1>4, <1>5 DEF KeptAt

(* Work only adds to what is done.                                         *)
LEMMA HandleKeeps ==
  ASSUME HandsInv, NEW p \in Processes, Handle(p),
         NEW o \in Orders, NEW q \in Range(Queues), KeptAt(o, q)
  PROVE  KeptAt(o, q)'
<1>1. p \in Workers /\ inHand[p] \in Orders /\ Role[p] \in Range(Queues)
  BY LifeAssumption DEF Handle, HandsInv, HandOK, Holding
<1>2. done[q][o] \in Nat /\ done'[q][o] \in {done[q][o], done[q][o] + 1}
  BY <1>1 DEF Handle, HandsInv, DeliveryTypes
<1>3. UNCHANGED <<ready, unacked>>
  BY DEF Handle
<1>4. QED
  BY <1>2, <1>3 DEF KeptAt

(* An order is accepted only when every queue is there to take it.         *)
LEMMA AcceptKeeps ==
  ASSUME HandsInv, TopologyInv, AcceptedIsKept, NEW o \in Orders, Accept(o)
  PROVE  AcceptedIsKept'
<1>1. declared = Range(Queues)
  BY ConnectAssumption DEF Accept, TopologyInv, TopologyOK, Running
<1>2. \A q \in Range(Queues) : ready'[q] = ready[q] \cup {o}
  BY <1>1 DEF Accept, HandsInv, DeliveryTypes
<1>3. UNCHANGED <<unacked, done>> /\ accepted' = accepted \cup {o}
  BY DEF Accept
<1>4. QED
  BY <1>2, <1>3 DEF AcceptedIsKept

(* An order answered with 201 is in every queue that wants it, or with a   *)
(* worker of it, or was worked on, in whatever order the processes start   *)
(* and whatever fails (AcceptedIsKept of run life).                        *)
THEOREM AcceptedOrdersKept == Safety => []AcceptedIsKept
<1>1. Init => AcceptedIsKept
  BY DEF Init, AcceptedIsKept
<1>2. SchemaInv /\ HandsInv /\ TopologyInv /\ AcceptedIsKept /\ [Next]_vars => AcceptedIsKept'
  <2> SUFFICES ASSUME SchemaInv, HandsInv, TopologyInv, AcceptedIsKept, [Next]_vars
               PROVE  AcceptedIsKept'
    OBVIOUS
  <2>1. \A o \in accepted, q \in Range(Queues) : KeptAt(o, q) /\ o \in Orders
    BY DEF AcceptedIsKept, KeptAt, HandsInv, DeliveryTypes
  <2>2. ASSUME accepted' = accepted,
               \A o \in Orders, q \in Range(Queues) : KeptAt(o, q) => KeptAt(o, q)'
        PROVE  AcceptedIsKept'
    BY <2>1, <2>2 DEF AcceptedIsKept, KeptAt
  <2>3. CASE UNCHANGED <<accepted, ready, unacked, done>>
    BY <2>3 DEF AcceptedIsKept
  <2>4. ASSUME NEW p \in Processes, Step(p) PROVE AcceptedIsKept'
    <3>1. CASE p \in Workers /\ WorkerStep(p)
      <4>1. CASE Deliver(p)
        BY <2>2, <3>1, <4>1, DeliverKeeps DEF Deliver
      <4>2. CASE Ack(p)
        BY <2>2, <4>2, AckKeeps DEF Ack
      <4>3. CASE Handle(p)
        BY <2>2, <4>3, HandleKeeps DEF Handle
      <4>4. QED
        BY <2>3, <3>1, <4>1, <4>2, <4>3
           DEF WorkerStep, Get, Leave, GetRaises, GetEmpty, Receive, loopVars
    <3>2. CASE Close(p)
      BY <2>2, <3>2, RequeueKeeps DEF Close
    <3>3. QED
      BY <2>3, <2>4, <3>1, <3>2 DEF Step, Shutdown, Reconnect, loopVars
  <2>5. ASSUME NEW p \in Processes, Crash(p) \/ Terminate(p) PROVE AcceptedIsKept'
    <3>1. ASSUME NEW end \in {"down", "stopped"}, Dies(p, end) PROVE AcceptedIsKept'
      BY <2>2, <3>1, RequeueKeeps DEF Dies
    <3>2. QED
      BY <2>3, <2>5, <3>1, Deaths DEF loopVars
  <2>6. ASSUME NEW p \in Processes, Fault(p) PROVE AcceptedIsKept'
    <3>1. CASE LinkDrops(p)
      BY <2>2, <3>1, RequeueKeeps DEF LinkDrops
    <3>2. QED
      BY <2>3, <2>5, <2>6, <3>1 DEF Fault, GetTimesOut, loopVars
  <2>7. CASE UNCHANGED vars
    BY <2>3, <2>7 DEF vars, loopVars
  <2>8. ASSUME NEW p \in Processes, Up(p) PROVE AcceptedIsKept'
    BY <2>3, <2>8 DEF Up, loopVars
  <2>9. QED
    BY <2>4, <2>5, <2>6, <2>7, <2>8, AcceptKeeps DEF Next
<1>3. QED
  BY <1>1, <1>2, SchemaInvHolds, HandsInvHolds, TopologyInvHolds, PTL DEF Safety

----------------------------------------------------------------------------
(* Types.  The invariants above have those of the schema, the messages and *)
(* the topology.  What remains are the attempts: no loop of a process is   *)
(* tried more often than its bound, and nothing that one transaction found *)
(* missing is left to the next.                                            *)
Trying == {"checking", "creating"}

AttemptOK(p) ==
  /\ phase[p] \notin Trying => missing[p] = <<>>
  /\ phase[p] = "checking" => Len(missing[p]) + Len(todo[p]) <= Len(Tables)
  /\ Len(missing[p]) <= Len(Tables)
  /\ failures[p] <= Retries + ConnectAttempts
  /\ phase[p] \in Trying => failures[p] < Retries
  /\ phase[p] \in {"connecting", "declaring"} => failures[p] < ConnectAttempts

AttemptsInv == \A p \in Processes : AttemptOK(p)

(* A step of p is about the attempts of p.                                 *)
AttemptsOfOthers(p) ==
  \A q \in Processes \ {p} :
    /\ phase'[q] = phase[q] /\ todo'[q] = todo[q]
    /\ missing'[q] = missing[q] /\ failures'[q] = failures[q]

LEMMA AttemptStep ==
  ASSUME AttemptsInv, NEW p \in Processes, AttemptsOfOthers(p), AttemptOK(p)'
  PROVE  AttemptsInv'
BY DEF AttemptsInv, AttemptsOfOthers, AttemptOK

(* The bounds of the two loops, and the list of tables.                    *)
LEMMA LoopBounds ==
  /\ Retries \in Nat /\ Retries > 0 /\ ConnectAttempts \in Nat /\ ConnectAttempts > 0
  /\ Len(Tables) \in Nat /\ Len(<<>>) = 0
BY SchemaAssumption, ConnectAssumption

(* The types that the steps below need.                                    *)
LEMMA AttemptTypes ==
  ASSUME SchemaInv, NEW p \in Processes
  PROVE  /\ phase \in [Processes -> Phases] /\ DOMAIN todo = Processes
         /\ DOMAIN missing = Processes /\ DOMAIN failures = Processes
         /\ failures[p] \in Nat /\ missing[p] \in Seq(Range(Tables))
         /\ todo[p] \in Seq(Range(Tables) \cup Range(Queues))
         /\ Len(missing[p]) \in Nat /\ Len(todo[p]) \in Nat
BY DEF SchemaInv, SchemaTypes

(* A process goes on to where no loop counts, or its process ends.         *)
LEMMA UncountedStep ==
  ASSUME SchemaInv, AttemptsInv, NEW p \in Processes, AttemptsOfOthers(p),
         phase'[p] \notin Trying \cup {"connecting", "declaring"},
         missing'[p] = <<>> \/ (phase[p] \notin Trying /\ missing'[p] = missing[p]),
         failures'[p] = failures[p]
  PROVE  AttemptsInv'
<1>1. AttemptOK(p)
  BY DEF AttemptsInv
<1>2. missing'[p] = <<>>
  BY <1>1 DEF AttemptOK
<1>3. AttemptOK(p)'
  BY <1>1, <1>2, LoopBounds DEF AttemptOK, Trying
<1>4. QED
  BY <1>3, AttemptStep

(* An attempt of init_db fails.                                            *)
LEMMA AttemptFailsAgain ==
  ASSUME SchemaInv, AttemptsInv, NEW p \in Processes, phase[p] \in Trying,
         NEW written, AttemptFails(p, written)
  PROVE  AttemptsInv'
<1>1. AttemptOK(p) /\ failures[p] \in Nat
  BY AttemptTypes DEF AttemptsInv
<1>2. AttemptsOfOthers(p) /\ missing'[p] = <<>> /\ failures'[p] = failures[p] + 1
  BY AttemptTypes DEF AttemptFails, Goto, AttemptsOfOthers
<1>3. failures[p] < Retries
  BY <1>1 DEF AttemptOK
<1>4. CASE failures[p] + 1 < Retries
  <2>1. phase'[p] = "checking" /\ todo'[p] = Tables
    BY <1>4, AttemptTypes DEF AttemptFails, Goto
  <2>2. AttemptOK(p)'
    BY <1>1, <1>2, <1>4, <2>1, LoopBounds DEF AttemptOK, Trying
  <2>3. QED
    BY <1>2, <2>2, AttemptStep
<1>5. CASE ~ (failures[p] + 1 < Retries)
  <2>1. phase'[p] \in {"down", "stopped"}
    BY <1>5, AttemptTypes DEF AttemptFails, Goto, Ended
  <2>2. AttemptOK(p)'
    BY <1>1, <1>2, <1>3, <2>1, LoopBounds DEF AttemptOK, Trying
  <2>3. QED
    BY <1>2, <2>2, AttemptStep
<1>6. QED
  BY <1>4, <1>5

(* The steps of init_db.                                                   *)
LEMMA InitDbAttempts ==
  ASSUME SchemaInv, AttemptsInv, NEW p \in Processes, InitDb(p) \/ DbError(p)
  PROVE  AttemptsInv'
<1>1. AttemptOK(p) /\ failures[p] \in Nat
  BY AttemptTypes DEF AttemptsInv
<1>2. CASE Start(p)
  <2>1. /\ AttemptsOfOthers(p) /\ phase'[p] = "checking" /\ todo'[p] = Tables
        /\ missing'[p] = <<>> /\ failures'[p] = 0
    BY <1>1, <1>2, AttemptTypes DEF Start, Goto, AttemptsOfOthers, AttemptOK, Trying
  <2>2. AttemptOK(p)'
    BY <2>1, LoopBounds DEF AttemptOK, Trying
  <2>3. QED
    BY <2>1, <2>2, AttemptStep
<1>3. CASE LookUp(p)
  <2>1. /\ AttemptsOfOthers(p) /\ failures'[p] = failures[p]
        /\ missing'[p] \in {missing[p], Append(missing[p], Head(todo[p]))}
        /\ phase'[p] \in Trying
        /\ phase'[p] = "checking" => todo'[p] = Tail(todo[p])
        /\ phase[p] = "checking" /\ todo[p] # <<>>
    BY <1>3, AttemptTypes DEF LookUp, Goto, AttemptsOfOthers, Trying
  <2>2. /\ Len(missing'[p]) \in Nat /\ Len(missing'[p]) <= Len(missing[p]) + 1
        /\ Len(missing[p]) \in Nat
    <3>1. ASSUME NEW S, NEW s \in Seq(S), NEW x PROVE Len(Append(s, x)) = Len(s) + 1
      OBVIOUS
    <3>2. Len(Append(missing[p], Head(todo[p]))) = Len(missing[p]) + 1
      BY <3>1, AttemptTypes
    <3>3. QED
      BY <2>1, <3>2, AttemptTypes
  <2>3. Len(todo[p]) \in Nat /\ Len(todo[p]) > 0 /\ Len(Tail(todo[p])) = Len(todo[p]) - 1
    BY <2>1, AttemptTypes
  <2>4. Len(missing[p]) + Len(todo[p]) <= Len(Tables)
    BY <1>1, <2>1 DEF AttemptOK
  <2>5. AttemptOK(p)'
    <3>1. \A a, b, c, d \in Nat :
            b > 0 /\ d <= a + 1 /\ a + b <= c => d <= c /\ d + (b - 1) <= c
      OBVIOUS
    <3>2. /\ Len(missing'[p]) <= Len(Tables)
          /\ Len(missing'[p]) + Len(Tail(todo[p])) <= Len(Tables)
      BY <2>2, <2>3, <2>4, <3>1, LoopBounds
    <3>3. QED
      BY <1>1, <2>1, <3>2 DEF AttemptOK, Trying
  <2>6. QED
    BY <2>1, <2>5, AttemptStep
<1>4. CASE CreateTable(p)
  <2>1. AttemptsOfOthers(p) /\ phase' = phase /\ missing' = missing /\ failures' = failures
    BY <1>4, AttemptTypes DEF CreateTable, AttemptsOfOthers
  <2>2. AttemptOK(p)'
    BY <1>1, <1>4, <2>1 DEF AttemptOK, CreateTable
  <2>3. QED
    BY <2>1, <2>2, AttemptStep
<1>5. CASE SchemaCommit(p)
  <2>1. /\ AttemptsOfOthers(p) /\ phase'[p] = "connecting"
        /\ missing'[p] = <<>> /\ failures'[p] = 0
    BY <1>5, AttemptTypes DEF SchemaCommit, Goto, AttemptsOfOthers
  <2>2. AttemptOK(p)'
    BY <2>1, LoopBounds DEF AttemptOK, Trying
  <2>3. QED
    BY <2>1, <2>2, AttemptStep
<1>6. CASE TableExists(p) \/ DbError(p)
  BY <1>6, AttemptFailsAgain DEF TableExists, DbError, Trying
<1>7. QED
  BY <1>2, <1>3, <1>4, <1>5, <1>6 DEF InitDb

(* Connecting and declaring.                                               *)
LEMMA ConnectAttemptsCount ==
  ASSUME SchemaInv, AttemptsInv, NEW p \in Processes,
         Connect(p) \/ Declare(p) \/ ConnectFails(p)
  PROVE  AttemptsInv'
<1>1. AttemptOK(p) /\ failures[p] \in Nat
  BY AttemptTypes DEF AttemptsInv
<1>2. /\ AttemptsOfOthers(p) /\ missing' = missing
      /\ phase[p] \in {"connecting", "declaring"}
  BY AttemptTypes DEF Connect, Declare, ConnectFails, Goto, AttemptsOfOthers
<1>3. failures[p] < ConnectAttempts /\ missing[p] = <<>>
  BY <1>1, <1>2 DEF AttemptOK, Trying
<1>4. CASE Connect(p) \/ Declare(p)
  <2>1. failures' = failures /\ phase'[p] \in {"declaring", "serving", "polling"}
    BY <1>4, AttemptTypes DEF Connect, Declare, Goto
  <2>2. AttemptOK(p)'
    BY <1>1, <1>2, <1>3, <2>1 DEF AttemptOK, Trying
  <2>3. QED
    BY <1>2, <2>2, AttemptStep
<1>5. CASE ConnectFails(p)
  <2>1. /\ failures'[p] = failures[p] + 1
        /\ \/ phase'[p] \in {"down", "stopped"}
           \/ phase'[p] = "connecting" /\ failures[p] + 1 < ConnectAttempts
    BY <1>5, AttemptTypes DEF ConnectFails, Goto, Ended
  <2>2. AttemptOK(p)'
    BY <1>1, <1>2, <1>3, <2>1, LoopBounds DEF AttemptOK, Trying
  <2>3. QED
    BY <1>2, <2>2, AttemptStep
<1>6. QED
  BY <1>4, <1>5

(* The loop, and the ends of a process.                                    *)
LEMMA LoopAttempts ==
  ASSUME SchemaInv, AttemptsInv, NEW p \in Processes,
         \/ WorkerStep(p)
         \/ p = Api /\ Shutdown
         \/ Close(p) \/ GetTimesOut(p) \/ LinkDrops(p)
         \/ Crash(p) \/ Terminate(p) \/ Up(p)
  PROVE  AttemptsInv'
<1>1. ASSUME NEW where \in Running \cup {"down", "stopped"}, phase[p] \notin Trying,
             Moves(p, where)
      PROVE  AttemptsInv'
  BY <1>1, AttemptTypes, UncountedStep
     DEF Moves, Goto, AttemptsOfOthers, Trying, Running
<1>2. ASSUME NEW end \in {"down", "stopped"}, Dies(p, end) PROVE AttemptsInv'
  BY <1>2, AttemptTypes, UncountedStep DEF Dies, AttemptsOfOthers, Trying
<1>3. CASE Get(p) \/ Leave(p) \/ GetRaises(p) \/ Deliver(p) \/ GetEmpty(p)
  BY <1>1, <1>3 DEF Get, Leave, GetRaises, Deliver, GetEmpty, Trying, Running
<1>4. CASE Receive(p) \/ Handle(p) \/ Ack(p)
  BY <1>1, <1>4 DEF Receive, Handle, Ack, Trying, Running
<1>5. CASE Close(p) \/ GetTimesOut(p) \/ LinkDrops(p)
  BY <1>1, <1>5 DEF Close, GetTimesOut, LinkDrops, Ended, Trying, Running
<1>6. CASE p = Api /\ Shutdown
  BY <1>6, AttemptTypes, UncountedStep DEF Shutdown, Goto, AttemptsOfOthers, Trying
<1>7. CASE Crash(p)
  BY <1>2, <1>7 DEF Crash, Ended
<1>8. CASE Terminate(p)
  <2>1. CASE UNCHANGED <<phase, todo, missing, failures>>
    BY <2>1 DEF AttemptsInv, AttemptOK
  <2>2. QED
    BY <1>2, <1>8, <2>1 DEF Terminate
<1>9. CASE Up(p)
  BY <1>9, AttemptTypes, UncountedStep DEF Up, AttemptsOfOthers, Trying
<1>10. QED
  BY <1>3, <1>4, <1>5, <1>6, <1>7, <1>8, <1>9 DEF WorkerStep

(* What remains of the types.                                              *)
CountersOK ==
  /\ stopping \subseteq Processes /\ link \subseteq Processes
  /\ stops \in 0..MaxStops /\ faults \in 0..MaxFaults

(* Every step keeps it.                                                    *)
LEMMA CountersStep ==
  ASSUME CountersOK, [Next]_vars
  PROVE  CountersOK'
<1>1. MaxStops \in Nat /\ MaxFaults \in Nat
  BY LifeAssumption
<1>2. CASE UNCHANGED vars
  BY <1>2 DEF vars, startupVars, schemaVars, CountersOK
<1>3. ASSUME NEW o \in Orders, Accept(o), UNCHANGED <<stops, faults>> PROVE CountersOK'
  BY <1>3 DEF Accept, startupVars, schemaVars, CountersOK
<1>4. ASSUME NEW p \in Processes, InitDb(p) \/ DbError(p)
      PROVE  stopping' = stopping
  BY <1>4 DEF InitDb, Start, LookUp, CreateTable, TableExists, SchemaCommit, DbError, AttemptFails
<1>5. ASSUME NEW p \in Processes, Connect(p) \/ Declare(p) \/ ConnectFails(p)
      PROVE  stopping' = stopping /\ link' \subseteq link \cup {p}
  BY <1>5 DEF Connect, Declare, ConnectFails
<1>6. ASSUME NEW p \in Processes, WorkerStep(p) \/ (p = Api /\ Shutdown) \/ Close(p)
                                  \/ Reconnect(p) \/ GetTimesOut(p) \/ LinkDrops(p)
      PROVE  stopping' = stopping /\ link' \subseteq link \cup {p}
  BY <1>6 DEF WorkerStep, Get, Leave, GetRaises, Deliver, GetEmpty, Receive, Handle, Ack,
              Shutdown, Close, Reconnect, schemaVars, GetTimesOut, LinkDrops, Moves
<1>7. ASSUME NEW p \in Processes, Crash(p) \/ Terminate(p) \/ Up(p)
      PROVE  stopping' \subseteq stopping \cup {p} /\ link' \subseteq link
  BY <1>7 DEF Crash, Terminate, Up, Dies
<1>8. ASSUME NEW p \in Processes, Step(p), UNCHANGED <<stops, faults>> PROVE CountersOK'
  BY <1>4, <1>5, <1>6, <1>8 DEF Step, StartupStep, CountersOK
<1>9. ASSUME NEW p \in Processes, Up(p), UNCHANGED <<stops, faults>> PROVE CountersOK'
  BY <1>7, <1>9 DEF CountersOK
<1>10. ASSUME NEW p \in Processes, stops < MaxStops, stops' = stops + 1, Terminate(p),
              UNCHANGED faults
       PROVE  CountersOK'
  BY <1>1, <1>7, <1>10 DEF CountersOK
<1>11. ASSUME NEW p \in Processes, faults < MaxFaults, faults' = faults + 1, Fault(p),
              UNCHANGED stops
       PROVE  CountersOK'
  <2>1. stopping' \subseteq stopping \cup {p} /\ link' \subseteq link \cup {p}
    BY <1>4, <1>5, <1>6, <1>7, <1>11 DEF Fault
  <2>2. QED
    BY <1>1, <1>11, <2>1 DEF CountersOK
<1>12. QED
  BY <1>2, <1>3, <1>8, <1>9, <1>10, <1>11 DEF Next

(* Every variable keeps its type (TypeOK of run life): in particular the   *)
(* loops of init_db and of lifespan end within their bounds, and no        *)
(* transaction takes over what another one has found missing.              *)
THEOREM LifeTyped == Safety => []TypeOK
<1>1. Init => CountersOK /\ AttemptsInv
  BY LoopBounds, LifeAssumption
     DEF Init, StartupInit, SchemaInit, CountersOK, AttemptsInv, AttemptOK, Trying
<1>2. SchemaInv /\ AttemptsInv /\ [Next]_vars => AttemptsInv'
  <2> SUFFICES ASSUME SchemaInv, AttemptsInv, [Next]_vars PROVE AttemptsInv'
    OBVIOUS
  <2>1. CASE UNCHANGED <<phase, todo, missing, failures>>
    BY <2>1 DEF AttemptsInv, AttemptOK
  <2>2. CASE UNCHANGED vars
    BY <2>1, <2>2 DEF vars, startupVars, schemaVars
  <2>3. ASSUME NEW o \in Orders, Accept(o) PROVE AttemptsInv'
    BY <2>1, <2>3 DEF Accept, startupVars, schemaVars
  <2>4. ASSUME NEW p \in Processes, Step(p) PROVE AttemptsInv'
    <3>1. CASE Reconnect(p)
      BY <2>1, <3>1 DEF Reconnect, schemaVars
    <3>2. QED
      BY <2>4, <3>1, InitDbAttempts, ConnectAttemptsCount, LoopAttempts DEF Step, StartupStep
  <2>5. ASSUME NEW p \in Processes, Fault(p) PROVE AttemptsInv'
    BY <2>5, InitDbAttempts, ConnectAttemptsCount, LoopAttempts DEF Fault
  <2>6. QED
    BY <2>2, <2>3, <2>4, <2>5, LoopAttempts DEF Next
<1>3. SchemaInv /\ HandsInv /\ TopologyInv /\ CountersOK /\ AttemptsInv => TypeOK
  <2> SUFFICES ASSUME SchemaInv, HandsInv, TopologyInv, CountersOK, AttemptsInv PROVE TypeOK
    OBVIOUS
  <2>1. failures \in [Processes -> 0..(Retries + ConnectAttempts)]
    <3>1. ASSUME NEW p \in Processes PROVE failures[p] \in 0..(Retries + ConnectAttempts)
      <4>1. failures[p] \in Nat /\ failures[p] <= Retries + ConnectAttempts
        BY AttemptTypes DEF AttemptsInv, AttemptOK
      <4>2. QED
        BY <4>1, LoopBounds
    <3>2. QED
      BY <3>1 DEF SchemaInv, SchemaTypes
  <2>2. \A p \in Processes : Len(missing[p]) <= Len(Tables)
    BY DEF AttemptsInv, AttemptOK
  <2>3. QED
    BY <2>1, <2>2
       DEF SchemaInv, SchemaTypes, HandsInv, DeliveryTypes, TopologyInv, CountersOK, TypeOK
<1>4. QED
  BY <1>1, <1>2, <1>3, CountersStep, SchemaInvHolds, HandsInvHolds, TopologyInvHolds, PTL DEF Safety
=============================================================================
