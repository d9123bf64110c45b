--------------------------- MODULE RunLoopProofs ---------------------------
(***************************************************************************)
(* Theorems about the life of the processes, for any number of processes,  *)
(* tables, queues and orders and any number of stops and faults.           *)
(***************************************************************************)
EXTENDS RunLoop, Counting

----------------------------------------------------------------------------
(* Sequences and their elements.                                           *)

(* Append adds one element.                                                *)
LEMMA AppendRange ==
  ASSUME NEW S, NEW s \in Seq(S), NEW e \in S
  PROVE  Append(s, e) \in Seq(S) /\ Range(Append(s, e)) = Range(s) \cup {e}
<1>1. Append(s, e) \in Seq(S) /\ Len(Append(s, e)) = Len(s) + 1
  OBVIOUS
<1>2. \A k \in 1..Len(s) : Append(s, e)[k] = s[k]
  OBVIOUS
<1>3. Append(s, e)[Len(s) + 1] = e
  OBVIOUS
<1>4. DOMAIN Append(s, e) = 1..(Len(s) + 1) /\ DOMAIN s = 1..Len(s) /\ Len(s) \in Nat
  OBVIOUS
<1>5. DOMAIN Append(s, e) = DOMAIN s \cup {Len(s) + 1}
  BY <1>4
<1>6. QED
  BY <1>1, <1>2, <1>3, <1>4, <1>5 DEF Range

(* Head and Tail share out the elements.                                   *)
LEMMA TailRange ==
  ASSUME NEW S, NEW s \in Seq(S), s # <<>>
  PROVE  /\ Head(s) \in S /\ Tail(s) \in Seq(S)
         /\ Range(s) = {Head(s)} \cup Range(Tail(s))
<1>1. /\ Head(s) = s[1] /\ Head(s) \in S /\ Tail(s) \in Seq(S)
      /\ Len(s) \in Nat \ {0} /\ Len(Tail(s)) = Len(s) - 1
      /\ \A k \in 1..Len(Tail(s)) : Tail(s)[k] = s[k + 1]
  OBVIOUS
<1>2. DOMAIN s = 1..Len(s) /\ DOMAIN Tail(s) = 1..(Len(s) - 1)
  BY <1>1
<1>3. \A k \in DOMAIN s : k = 1 \/ (k - 1 \in DOMAIN Tail(s) /\ Tail(s)[k - 1] = s[k])
  BY <1>1, <1>2
<1>4. \A k \in DOMAIN Tail(s) : k + 1 \in DOMAIN s /\ Tail(s)[k] = s[k + 1]
  BY <1>1, <1>2
<1>5. 1 \in DOMAIN s
  BY <1>1, <1>2
<1>6. Range(s) \subseteq {Head(s)} \cup Range(Tail(s))
  BY <1>1, <1>3 DEF Range
<1>7. {Head(s)} \cup Range(Tail(s)) \subseteq Range(s)
  BY <1>1, <1>4, <1>5 DEF Range
<1>8. QED
  BY <1>1, <1>6, <1>7

(* The empty sequence has no elements, and no other has none.              *)
LEMMA RangeOfEmpty == Range(<<>>) = {}
BY DEF Range

LEMMA EmptyRange ==
  ASSUME NEW S, NEW s \in Seq(S), Range(s) = {}
  PROVE  s = <<>>
<1>1. ASSUME s # <<>> PROVE s[1] \in Range(s)
  <2>1. 1 \in DOMAIN s
    BY <1>1
  <2>2. QED
    BY <2>1 DEF Range
<1>2. QED
  BY <1>1

(* The elements of a sequence over a set are in it.                        *)
LEMMA RangeWithin ==
  ASSUME NEW S, NEW s \in Seq(S)
  PROVE  Range(s) \subseteq S
BY DEF Range

----------------------------------------------------------------------------
(* The schema.                                                             *)

Past == Phases \ {"down", "checking", "creating", "stopped"}

SchemaTypes ==
  /\ tables \subseteq Range(Tables)
  /\ phase \in [Processes -> Phases]
  /\ todo \in [Processes -> Seq(Range(Tables) \cup Range(Queues))]
  /\ missing \in [Processes -> Seq(Range(Tables))]
  /\ failures \in [Processes -> Nat]
  /\ faults \in Nat

(* What an attempt of p has not found, it has yet to look for; what it has *)
(* not created, it has yet to create.                                      *)
Looking(p) ==
  /\ todo[p] \in Seq(Range(Tables))
  /\ Range(Tables) \subseteq tables \cup Range(missing[p]) \cup Range(todo[p])

Creating(p) ==
  /\ Range(Tables) \subseteq tables \cup Range(missing[p])
  /\ Range(todo[p]) \subseteq Range(missing[p])

(* A process that has lost the race finds all the tables from then on.     *)
LostTheRace(p) ==
  /\ failures[p] <= faults + 1
  /\ tables = Range(Tables)
  /\ phase[p] = "checking" => missing[p] = <<>>
  /\ phase[p] = "creating" => todo[p] = <<>>

SchemaOK(p) ==
  /\ phase[p] = "checking" => Looking(p)
  /\ phase[p] = "creating" => Creating(p)
  /\ phase[p] \in Past => tables = Range(Tables)
  /\ failures[p] <= faults \/ LostTheRace(p)

(* The winner commits the whole schema at once.                            *)
SchemaInv ==
  /\ SchemaTypes
  /\ tables \in {{}, Range(Tables)}
  /\ \A p \in Processes : SchemaOK(p)

(* What a step of p leaves to the other processes.                         *)
OthersSchema(p) ==
  /\ \A q \in Processes \ {p} :
       /\ phase'[q] = phase[q] /\ todo'[q] = todo[q]
       /\ missing'[q] = missing[q] /\ failures'[q] = failures[q]
  /\ faults' \in {faults, faults + 1}

(* It is enough to look at the process that takes the step.                *)
LEMMA SchemaStep ==
  ASSUME SchemaInv, NEW p \in Processes, OthersSchema(p), SchemaTypes',
         tables' \in {tables, Range(Tables)}, SchemaOK(p)'
  PROVE  SchemaInv'
<1>1. ASSUME NEW q \in Processes \ {p} PROVE SchemaOK(q)'
  <2>1. SchemaOK(q) /\ tables \subseteq tables' /\ tables' \subseteq Range(Tables)
    BY DEF SchemaInv, SchemaTypes
  <2>2. CASE failures[q] <= faults
    <3>1. failures'[q] <= faults'
      BY <2>2 DEF OthersSchema, SchemaInv, SchemaTypes
    <3>2. QED
      BY <2>1, <3>1 DEF OthersSchema, SchemaOK, Looking, Creating
  <2>3. CASE LostTheRace(q)
    <3>1. LostTheRace(q)'
      BY <2>1, <2>3 DEF OthersSchema, LostTheRace, SchemaInv, SchemaTypes
    <3>2. QED
      BY <2>1, <3>1 DEF OthersSchema, SchemaOK, Looking, Creating
  <2>4. QED
    BY <2>1, <2>2, <2>3 DEF SchemaOK
<1>2. QED
  BY <1>1 DEF SchemaInv

(* The steps that leave the schema alone: p goes on after init_db, or      *)
(* ends, or does not move.  A failure to connect is a fault.               *)
SchemaFlow(p) ==
  /\ OthersSchema(p) /\ SchemaTypes'
  /\ tables' = tables
  /\ \/ phase'[p] \in {"down", "stopped"}
     \/ phase[p] \in Past /\ phase'[p] \in Past
     \/ phase'[p] = phase[p] /\ todo'[p] = todo[p] /\ missing'[p] = missing[p]
  /\ \/ failures'[p] = failures[p]
     \/ failures'[p] = failures[p] + 1 /\ faults' = faults + 1

(* They keep the invariant.                                                *)
LEMMA SchemaFlows ==
  ASSUME SchemaInv, NEW p \in Processes, SchemaFlow(p)
  PROVE  SchemaInv'
<1>1. SchemaOK(p) /\ failures[p] \in Nat /\ faults \in Nat
  BY DEF SchemaInv, SchemaTypes
<1>2. failures'[p] <= faults' \/ LostTheRace(p)'
  BY <1>1 DEF SchemaFlow, OthersSchema, SchemaOK, LostTheRace, Past
<1>3. SchemaOK(p)'
  BY <1>1, <1>2 DEF SchemaFlow, SchemaOK, Looking, Creating, Past
<1>4. QED
  BY <1>3, SchemaStep DEF SchemaFlow

----------------------------------------------------------------------------
(* A process starts, and knows nothing of the tables.                      *)
LEMMA StartSchema ==
  ASSUME SchemaInv, NEW p \in Processes, Start(p), UNCHANGED faults
  PROVE  SchemaInv'
<1>1. Tables \in Seq(Range(Tables)) /\ Tables \in Seq(Range(Tables) \cup Range(Queues))
  BY SchemaAssumption
<1>2. SchemaTypes' /\ OthersSchema(p)
  BY <1>1 DEF SchemaInv, SchemaTypes, OthersSchema, Start, Goto, Phases
<1>3. SchemaOK(p)'
  BY <1>1 DEF SchemaInv, SchemaTypes, SchemaOK, Start, Goto, Looking, Past
<1>4. QED
  BY <1>2, <1>3, SchemaStep DEF Start

(* A look-up that finds the table missing notes it.                        *)
LEMMA LookUpSchema ==
  ASSUME SchemaInv, NEW p \in Processes, LookUp(p), UNCHANGED faults
  PROVE  SchemaInv'
<1> DEFINE S == Range(Tables)
           h == Head(todo[p])
           t == Tail(todo[p])
<1>1. SchemaOK(p) /\ Looking(p) /\ missing[p] \in Seq(S) /\ todo[p] # <<>>
  BY DEF SchemaInv, SchemaTypes, SchemaOK, LookUp
<1>2. h \in S /\ t \in Seq(S) /\ Range(todo[p]) = {h} \cup Range(t)
  BY <1>1, TailRange DEF Looking
<1>3. missing' \in [Processes -> Seq(S)] /\ missing'[p] \in Seq(S)
      /\ Range(missing'[p]) = Range(missing[p]) \cup FoundMissing(h)
  <2>1. CASE FoundMissing(h) = {}
    BY <2>1, <1>1 DEF LookUp, SchemaInv, SchemaTypes
  <2>2. CASE FoundMissing(h) # {}
    <3>1. FoundMissing(h) = {h} /\ missing' = [missing EXCEPT ![p] = Append(@, h)]
      BY <2>2 DEF LookUp, FoundMissing
    <3>2. missing'[p] = Append(missing[p], h)
      BY <3>1 DEF SchemaInv, SchemaTypes
    <3>3. Append(missing[p], h) \in Seq(S)
          /\ Range(Append(missing[p], h)) = Range(missing[p]) \cup {h}
      BY <1>1, <1>2, AppendRange
    <3>4. QED
      BY <3>1, <3>2, <3>3 DEF SchemaInv, SchemaTypes
  <2>3. QED
    BY <2>1, <2>2
<1>4. t \in Seq(S \cup Range(Queues)) /\ missing'[p] \in Seq(S \cup Range(Queues))
  BY <1>2, <1>3
<1>5. SchemaTypes' /\ OthersSchema(p)
  BY <1>3, <1>4 DEF SchemaInv, SchemaTypes, OthersSchema, LookUp, Goto, Phases
<1>6. S \subseteq tables \cup Range(missing'[p]) \cup Range(t)
  BY <1>1, <1>2, <1>3 DEF Looking, FoundMissing
<1>7. failures'[p] <= faults' \/ LostTheRace(p)'
  <2>1. CASE failures[p] <= faults
    BY <2>1 DEF LookUp
  <2>2. CASE LostTheRace(p)
    <3>1. FoundMissing(h) = {} /\ missing' = missing /\ missing[p] = <<>>
      BY <1>2, <2>2 DEF LookUp, LostTheRace, FoundMissing
    <3>2. phase'[p] = "creating" => todo'[p] = <<>>
      BY <3>1 DEF LookUp, Goto, SchemaInv, SchemaTypes
    <3>3. QED
      BY <2>2, <3>1, <3>2 DEF LookUp, LostTheRace
  <2>3. QED
    BY <1>1, <2>1, <2>2 DEF SchemaOK
<1>8. CASE t # <<>>
  <2>1. phase'[p] = "checking" /\ todo'[p] = t /\ tables' = tables
    BY <1>8 DEF LookUp, Goto, SchemaInv, SchemaTypes
  <2>2. SchemaOK(p)'
    BY <2>1, <1>2, <1>6, <1>7 DEF SchemaOK, Looking, Past
  <2>3. QED
    BY <2>1, <2>2, <1>5, SchemaStep
<1>9. CASE t = <<>>
  <2>1. phase'[p] = "creating" /\ todo'[p] = missing'[p] /\ tables' = tables
    BY <1>9 DEF LookUp, Goto, SchemaInv, SchemaTypes
  <2>2. Range(t) = {}
    BY <1>9, RangeOfEmpty
  <2>3. SchemaOK(p)'
    BY <2>1, <2>2, <1>6, <1>7 DEF SchemaOK, Creating, Past
  <2>4. QED
    BY <2>1, <2>3, <1>5, SchemaStep
<1>10. QED
  BY <1>8, <1>9

(* A table is created that is to be created.                               *)
LEMMA CreateTableSchema ==
  ASSUME SchemaInv, NEW p \in Processes, CreateTable(p), UNCHANGED faults
  PROVE  SchemaInv'
<1>1. SchemaOK(p) /\ Creating(p) /\ todo[p] # <<>> /\ phase[p] = "creating"
  BY DEF SchemaInv, SchemaOK, CreateTable
<1>2. /\ Tail(todo[p]) \in Seq(Range(Tables) \cup Range(Queues))
      /\ Range(Tail(todo[p])) \subseteq Range(todo[p])
  BY <1>1, TailRange DEF SchemaInv, SchemaTypes
<1>3. SchemaTypes' /\ OthersSchema(p) /\ todo'[p] = Tail(todo[p])
  BY <1>2 DEF SchemaInv, SchemaTypes, OthersSchema, CreateTable
<1>4. failures[p] <= faults
  BY <1>1 DEF SchemaOK, LostTheRace
<1>5. SchemaOK(p)'
  BY <1>1, <1>2, <1>3, <1>4 DEF SchemaOK, Creating, CreateTable, Past
<1>6. QED
  BY <1>3, <1>5, SchemaStep DEF CreateTable

(* A failed attempt starts over with all the tables, or ends the process.  *)
LEMMA AttemptFailsSchema ==
  ASSUME SchemaInv, NEW p \in Processes, NEW written,
         written \in {{}, Range(Tables) \ tables}, AttemptFails(p, written),
         faults' \in {faults, faults + 1},
         failures'[p] <= faults' \/ LostTheRace(p)'
  PROVE  SchemaInv'
<1>1. /\ Tables \in Seq(Range(Tables)) /\ Tables \in Seq(Range(Tables) \cup Range(Queues))
      /\ <<>> \in Seq(Range(Tables)) /\ <<>> \in Seq(Range(Tables) \cup Range(Queues))
  BY SchemaAssumption
<1>2. /\ tables' \in {tables, Range(Tables)} /\ tables' \subseteq Range(Tables)
  BY DEF AttemptFails, SchemaInv, SchemaTypes
<1>3. \E where \in {"checking", "down", "stopped"} :
        \E list \in {Tables, <<>>} :
          /\ Goto(p, where, list)
          /\ where = "checking" => list = Tables
  BY DEF AttemptFails, Ended
<1>4. PICK where \in {"checking", "down", "stopped"}, list \in {Tables, <<>>} :
        Goto(p, where, list) /\ (where = "checking" => list = Tables)
  BY <1>3
<1>5. SchemaTypes' /\ OthersSchema(p)
  <2>1. phase' \in [Processes -> Phases] /\ list \in Seq(Range(Tables) \cup Range(Queues))
    BY <1>1, <1>4 DEF SchemaInv, SchemaTypes, Goto, Phases
  <2>2. SchemaTypes'
    BY <1>1, <1>2, <1>4, <2>1 DEF SchemaInv, SchemaTypes, AttemptFails, Goto
  <2>3. OthersSchema(p)
    BY <1>4 DEF SchemaInv, SchemaTypes, OthersSchema, AttemptFails, Goto
  <2>4. QED
    BY <2>2, <2>3
<1>6. phase'[p] = where /\ todo'[p] = list
  BY <1>4 DEF Goto, SchemaInv, SchemaTypes
<1>7. SchemaOK(p)'
  BY <1>1, <1>4, <1>6 DEF SchemaOK, Looking, Past
<1>8. QED
  BY <1>2, <1>5, <1>7, SchemaStep

(* Losing the race: somebody has committed, hence everything.              *)
LEMMA TableExistsSchema ==
  ASSUME SchemaInv, NEW p \in Processes, TableExists(p), UNCHANGED faults
  PROVE  SchemaInv'
<1>1. tables = Range(Tables) /\ tables' = tables
  BY DEF TableExists, SchemaInv, AttemptFails
<1>2. failures[p] <= faults
  BY DEF TableExists, SchemaInv, SchemaOK, LostTheRace
<1>3. failures'[p] = failures[p] + 1 /\ missing'[p] = <<>> /\ phase'[p] # "creating"
  BY DEF TableExists, AttemptFails, Goto, Ended, SchemaInv, SchemaTypes
<1>4. LostTheRace(p)'
  BY <1>1, <1>2, <1>3 DEF LostTheRace, SchemaInv, SchemaTypes
<1>5. QED
  BY <1>4, AttemptFailsSchema DEF TableExists

(* What a commit adds completes the schema.                                *)
LEMMA CommitCompletes ==
  ASSUME SchemaInv, NEW p \in Processes, phase[p] = "creating"
  PROVE  tables \cup Commit(p) = Range(Tables)
<1>1. Range(missing[p]) \subseteq Range(Tables)
  BY RangeWithin DEF SchemaInv, SchemaTypes
<1>2. QED
  BY <1>1 DEF SchemaInv, SchemaTypes, SchemaOK, Creating, Commit

(* A commit.                                                               *)
LEMMA SchemaCommitSchema ==
  ASSUME SchemaInv, NEW p \in Processes, SchemaCommit(p), UNCHANGED faults
  PROVE  SchemaInv'
<1>1. tables' = Range(Tables)
  BY CommitCompletes DEF SchemaCommit
<1>2. SchemaTypes' /\ OthersSchema(p)
  BY <1>1 DEF SchemaInv, SchemaTypes, OthersSchema, SchemaCommit, Goto, Phases
<1>3. SchemaOK(p)'
  BY <1>1 DEF SchemaInv, SchemaTypes, SchemaOK, SchemaCommit, Goto, Past
<1>4. QED
  BY <1>1, <1>2, <1>3, SchemaStep

(* A database error is a fault.                                            *)
LEMMA DbErrorSchema ==
  ASSUME SchemaInv, NEW p \in Processes, DbError(p), faults' = faults + 1
  PROVE  SchemaInv'
<1>1. PICK written \in {{}, Commit(p)} :
        AttemptFails(p, written) /\ (written # {} => phase[p] = "creating")
  BY DEF DbError
<1>2. AttemptFails(p, {}) \/ AttemptFails(p, Range(Tables) \ tables)
  BY <1>1, CommitCompletes DEF AttemptFails
<1>3. failures'[p] = failures[p] + 1 /\ missing'[p] = <<>> /\ phase'[p] # "creating"
  BY <1>1 DEF AttemptFails, Goto, Ended, SchemaInv, SchemaTypes
<1>4. failures[p] \in Nat /\ faults \in Nat /\ SchemaOK(p)
  BY DEF SchemaInv, SchemaTypes
<1>5. CASE failures[p] <= faults
  <2>1. failures'[p] <= faults'
    BY <1>3, <1>4, <1>5
  <2>2. QED
    BY <2>1, <1>2, AttemptFailsSchema
<1>6. CASE LostTheRace(p)
  <2>1. tables' = Range(Tables)
    BY <1>2, <1>6 DEF LostTheRace, AttemptFails
  <2>2. failures'[p] <= faults' + 1
    BY <1>3, <1>4, <1>6 DEF LostTheRace
  <2>3. LostTheRace(p)'
    BY <2>1, <2>2, <1>3 DEF LostTheRace
  <2>4. QED
    BY <2>3, <1>2, AttemptFailsSchema
<1>7. QED
  BY <1>4, <1>5, <1>6 DEF SchemaOK

----------------------------------------------------------------------------
(* All the other steps leave the schema alone.                             *)

(* Connecting and declaring.                                               *)
LEMMA StartupFlow ==
  ASSUME SchemaInv, NEW p \in Processes, Connect(p) \/ Declare(p), UNCHANGED faults
  PROVE  SchemaFlow(p)
<1>1. Queues \in Seq(Range(Tables) \cup Range(Queues))
  BY ConnectAssumption
<1>2. CASE Connect(p)
  BY <1>1, <1>2 DEF Connect, Goto, SchemaFlow, OthersSchema, SchemaInv, SchemaTypes, Past, Phases
<1>3. CASE Declare(p) /\ Tail(todo[p]) # <<>>
  <2>1. Tail(todo[p]) \in Seq(Range(Tables) \cup Range(Queues))
    BY <1>3, TailRange DEF Declare, SchemaInv, SchemaTypes
  <2>2. QED
    BY <1>3, <2>1
       DEF Declare, Goto, SchemaFlow, OthersSchema, SchemaInv, SchemaTypes, Past, Phases
<1>4. CASE Declare(p) /\ Tail(todo[p]) = <<>>
  <2>1. <<>> \in Seq(Range(Tables) \cup Range(Queues))
    OBVIOUS
  <2>2. PICK where \in {"serving", "polling"} : Goto(p, where, <<>>)
    BY <1>4 DEF Declare
  <2>3. QED
    BY <1>4, <2>1, <2>2
       DEF Declare, Goto, SchemaFlow, OthersSchema, SchemaInv, SchemaTypes, Past, Phases
<1>5. QED
  BY <1>2, <1>3, <1>4

(* A failure to connect.                                                   *)
LEMMA ConnectFailsFlow ==
  ASSUME SchemaInv, NEW p \in Processes, ConnectFails(p), faults' = faults + 1
  PROVE  SchemaFlow(p)
BY DEF ConnectFails, Goto, Ended, SchemaFlow, OthersSchema, SchemaInv, SchemaTypes, Past, Phases

(* What Moves says of the schema.                                          *)
LEMMA MovesFlow ==
  ASSUME SchemaInv, NEW p \in Processes, NEW where \in Past \cup {"down", "stopped"},
         phase[p] \in Past, Moves(p, where), faults' \in {faults, faults + 1}
  PROVE  SchemaFlow(p)
BY DEF Moves, Goto, SchemaFlow, OthersSchema, SchemaInv, SchemaTypes, Past, Phases

(* The steps of the loop, of a shutdown and of a link.                     *)
LEMMA LoopFlow ==
  ASSUME SchemaInv, NEW p \in Processes,
         \/ WorkerStep(p)
         \/ p = Api /\ Shutdown
         \/ Close(p) \/ Reconnect(p) \/ GetTimesOut(p) \/ LinkDrops(p),
         faults' \in {faults, faults + 1}
  PROVE  SchemaFlow(p)
<1>1. CASE Get(p) \/ Leave(p) \/ GetRaises(p) \/ Deliver(p) \/ GetEmpty(p)
  BY <1>1, MovesFlow DEF Get, Leave, GetRaises, Deliver, GetEmpty, Past, Phases
<1>2. CASE Receive(p) \/ Handle(p) \/ Ack(p)
  BY <1>2, MovesFlow DEF Receive, Handle, Ack, Past, Phases
<1>3. CASE p = Api /\ Shutdown
  BY <1>3 DEF Shutdown, Goto, SchemaFlow, OthersSchema, SchemaInv, SchemaTypes, Past, Phases
<1>4. CASE Close(p) \/ GetTimesOut(p)
  BY <1>4, MovesFlow DEF Close, GetTimesOut, Ended, Past, Phases
<1>5. CASE Reconnect(p)
  BY <1>5 DEF Reconnect, schemaVars, SchemaFlow, OthersSchema, SchemaInv, SchemaTypes
<1>6. CASE LinkDrops(p)
  BY <1>6, MovesFlow DEF LinkDrops, Running, Past, Phases
<1>7. QED
  BY <1>1, <1>2, <1>3, <1>4, <1>5, <1>6 DEF WorkerStep

(* A process dies, is told to stop, or is started again.                   *)
LEMMA EndFlow ==
  ASSUME SchemaInv, NEW p \in Processes,
         Crash(p) \/ Terminate(p) \/ Up(p), faults' \in {faults, faults + 1}
  PROVE  SchemaFlow(p)
<1>1. ASSUME NEW end \in {"down", "stopped"}, Dies(p, end) PROVE SchemaFlow(p)
  BY <1>1 DEF Dies, SchemaFlow, OthersSchema, SchemaInv, SchemaTypes, Phases
<1>2. CASE Crash(p)
  BY <1>1, <1>2 DEF Crash, Ended
<1>3. CASE Terminate(p)
  BY <1>1, <1>3 DEF Terminate, SchemaFlow, OthersSchema, SchemaInv, SchemaTypes
<1>4. CASE Up(p)
  BY <1>4 DEF Up, SchemaFlow, OthersSchema, SchemaInv, SchemaTypes, Phases
<1>5. QED
  BY <1>2, <1>3, <1>4

(* The schema invariant is inductive.                                      *)
LEMMA SchemaInvHolds == Safety => []SchemaInv
<1>1. Init => SchemaInv
  <2>1. <<>> \in Seq(Range(Tables)) /\ <<>> \in Seq(Range(Tables) \cup Range(Queues))
    OBVIOUS
  <2>2. QED
    BY <2>1 DEF Init, StartupInit, SchemaInit, SchemaInv, SchemaTypes, SchemaOK, Past, Phases
<1>2. SchemaInv /\ [Next]_vars => SchemaInv'
  <2> SUFFICES ASSUME SchemaInv, [Next]_vars PROVE SchemaInv'
    OBVIOUS
  <2>1. CASE UNCHANGED vars
    <3>1. UNCHANGED <<tables, phase, todo, missing, failures, faults>>
      BY <2>1 DEF vars, startupVars, schemaVars
    <3>2. QED
      BY <3>1 DEF SchemaInv, SchemaTypes, SchemaOK, Looking, Creating, LostTheRace
  <2>2. ASSUME NEW o \in Orders, Accept(o), UNCHANGED faults PROVE SchemaInv'
    <3>1. UNCHANGED <<tables, phase, todo, missing, failures, faults>>
      BY <2>2 DEF Accept, startupVars, schemaVars
    <3>2. QED
      BY <3>1 DEF SchemaInv, SchemaTypes, SchemaOK, Looking, Creating, LostTheRace
  <2>3. ASSUME NEW p \in Processes, Step(p), UNCHANGED faults PROVE SchemaInv'
    BY <2>3, StartSchema, LookUpSchema, CreateTableSchema, TableExistsSchema, SchemaCommitSchema,
       StartupFlow, LoopFlow, SchemaFlows DEF Step, StartupStep, InitDb
  <2>4. ASSUME NEW p \in Processes, Fault(p), faults' = faults + 1 PROVE SchemaInv'
    BY <2>4, DbErrorSchema, ConnectFailsFlow, LoopFlow, EndFlow, SchemaFlows DEF Fault
  <2>5. ASSUME NEW p \in Processes, Terminate(p) \/ Up(p), UNCHANGED faults PROVE SchemaInv'
    BY <2>5, EndFlow, SchemaFlows
  <2>6. QED
    BY <2>1, <2>2, <2>3, <2>4, <2>5 DEF Next
<1>3. QED
  BY <1>1, <1>2, PTL DEF Safety

(* No process gets past init_db without the whole schema, whoever wins the *)
(* race and whatever fails (NoWorkWithoutTables of run life).              *)
THEOREM SchemaBeforeWork == Safety => []NoWorkWithoutTables
<1>1. SchemaInv => NoWorkWithoutTables
  BY DEF SchemaInv, SchemaTypes, SchemaOK, NoWorkWithoutTables, Past
<1>2. QED
  BY <1>1, SchemaInvHolds, PTL

(* However many processes start at once, the race costs none of them more  *)
(* than one attempt of init_db (RaceCostsOneAttempt of run life).          *)
THEOREM RaceIsCheap == Safety => []RaceCostsOneAttempt
<1>1. SchemaInv => RaceCostsOneAttempt
  BY DEF SchemaInv, SchemaTypes, SchemaOK, LostTheRace, RaceCostsOneAttempt
<1>2. QED
  BY <1>1, SchemaInvHolds, PTL
----------------------------------------------------------------------------
(* The locks of CREATE TABLE.  The place of a table among Tables is its    *)
(* rank; every process takes the tables by growing rank.                   *)
Rank(t) == CHOOSE n \in DOMAIN Tables : Tables[n] = t

InOrder(s) == \A m, n \in DOMAIN s : m < n => Rank(s[m]) < Rank(s[n])

Below(A, B) == \A a \in A, b \in B : Rank(a) < Rank(b)

(* What p has noted or created comes before what it has yet to look for or *)
(* to create, and outside of init_db it notes nothing.                     *)
OrderOK(p) ==
  /\ phase[p] = "checking" =>
       InOrder(missing[p]) /\ InOrder(todo[p]) /\ Below(Range(missing[p]), Range(todo[p]))
  /\ phase[p] = "creating" => InOrder(todo[p]) /\ Below(Created(p), Range(todo[p]))
  /\ ~InInitDb(p) => missing[p] = <<>>

OrderInv == \A p \in Processes : OrderOK(p)

(* Ranks are places, and Tables itself is in order.                        *)
LEMMA RanksArePlaces ==
  /\ \A t \in Range(Tables) : Rank(t) \in Nat /\ Rank(t) <= Len(Tables)
  /\ InOrder(Tables)
<1>1. DOMAIN Tables = 1..Len(Tables) /\ Len(Tables) \in Nat
  BY SchemaAssumption
<1>2. \A n \in DOMAIN Tables : Rank(Tables[n]) = n
  BY SchemaAssumption DEF Rank
<1>3. \A t \in Range(Tables) : \E n \in DOMAIN Tables : Tables[n] = t
  BY DEF Range
<1>4. \A t \in Range(Tables) : Rank(t) \in DOMAIN Tables
  BY <1>2, <1>3
<1>5. QED
  BY <1>1, <1>2, <1>4 DEF InOrder

(* The order survives an addition at the end ...                           *)
LEMMA AppendInOrder ==
  ASSUME NEW S, NEW s \in Seq(S), NEW e \in S, InOrder(s), Below(Range(s), {e})
  PROVE  InOrder(Append(s, e))
<1> DEFINE t == Append(s, e)
<1>1. /\ DOMAIN t = 1..(Len(s) + 1) /\ DOMAIN s = 1..Len(s) /\ Len(s) \in Nat
      /\ t[Len(s) + 1] = e /\ \A k \in DOMAIN s : t[k] = s[k]
  OBVIOUS
<1>2. \A k \in DOMAIN s : s[k] \in Range(s)
  BY DEF Range
<1> HIDE DEF t
<1>3. SUFFICES ASSUME NEW m \in DOMAIN t, NEW n \in DOMAIN t, m < n
               PROVE  Rank(t[m]) < Rank(t[n])
  BY DEF InOrder, t
<1>4. m \in DOMAIN s
  BY <1>1, <1>3
<1>5. CASE n \in DOMAIN s
  BY <1>1, <1>3, <1>4, <1>5 DEF InOrder
<1>6. CASE n \notin DOMAIN s
  <2>1. t[n] = e
    BY <1>1, <1>6
  <2>2. QED
    BY <1>1, <1>2, <1>4, <2>1 DEF Below
<1>7. QED
  BY <1>5, <1>6

(* ... and the removal of the head, which comes before all the others.     *)
LEMMA TailInOrder ==
  ASSUME NEW S, NEW s \in Seq(S), s # <<>>, InOrder(s)
  PROVE  InOrder(Tail(s)) /\ Below({Head(s)}, Range(Tail(s)))
<1> DEFINE t == Tail(s)
<1>1. /\ Head(s) = s[1] /\ DOMAIN s = 1..Len(s) /\ Len(s) \in Nat \ {0}
      /\ DOMAIN t = 1..(Len(s) - 1) /\ \A k \in DOMAIN t : t[k] = s[k + 1]
  OBVIOUS
<1> HIDE DEF t
<1>2. \A k \in DOMAIN t : k \in Nat /\ k + 1 \in DOMAIN s /\ 1 \in DOMAIN s /\ 1 < k + 1
  BY <1>1
<1>3. ASSUME NEW m \in DOMAIN t, NEW n \in DOMAIN t, m < n
      PROVE  Rank(t[m]) < Rank(t[n])
  <2>1. m + 1 < n + 1
    BY <1>2, <1>3
  <2>2. QED
    BY <1>1, <1>2, <2>1 DEF InOrder
<1>4. \A k \in DOMAIN t : Rank(Head(s)) < Rank(t[k])
  BY <1>1, <1>2 DEF InOrder
<1>5. \A b \in Range(t) : \E k \in DOMAIN t : t[k] = b
  BY DEF Range
<1>6. QED
  BY <1>3, <1>4, <1>5 DEF InOrder, Below, t

----------------------------------------------------------------------------
(* It is enough to look at the process that takes the step.                *)
LEMMA OrderStep ==
  ASSUME OrderInv, NEW p \in Processes, OthersSchema(p), OrderOK(p)'
  PROVE  OrderInv'
<1>1. ASSUME NEW q \in Processes \ {p} PROVE OrderOK(q)'
  <2>1. OrderOK(q)
    BY DEF OrderInv
  <2>2. phase'[q] = phase[q] /\ todo'[q] = todo[q] /\ missing'[q] = missing[q]
    BY DEF OthersSchema
  <2>3. QED
    BY <2>1, <2>2 DEF OrderOK, Created, InInitDb
<1>2. QED
  BY <1>1 DEF OrderInv

(* A process starts with all the tables.                                   *)
LEMMA StartOrder ==
  ASSUME SchemaInv, OrderInv, NEW p \in Processes, Start(p), UNCHANGED faults
  PROVE  OrderInv'
<1>1. phase'[p] = "checking" /\ todo'[p] = Tables /\ missing'[p] = <<>>
  BY DEF Start, Goto, SchemaInv, SchemaTypes, OrderInv, OrderOK, InInitDb
<1>2. OthersSchema(p)
  BY DEF SchemaInv, SchemaTypes, OthersSchema, Start, Goto
<1>3. InOrder(<<>>) /\ Range(<<>>) = {}
  BY RangeOfEmpty DEF InOrder
<1>4. OrderOK(p)'
  BY <1>1, <1>3, RanksArePlaces DEF OrderOK, Below, InInitDb
<1>5. QED
  BY <1>2, <1>4, OrderStep

(* A missing table is noted behind the others; the notes are what is then  *)
(* created.                                                                *)
LEMMA LookUpOrder ==
  ASSUME SchemaInv, OrderInv, NEW p \in Processes, LookUp(p), UNCHANGED faults
  PROVE  OrderInv'
<1> DEFINE S == Range(Tables)
           h == Head(todo[p])
           t == Tail(todo[p])
<1>1. /\ phase[p] = "checking" /\ todo[p] # <<>>
      /\ todo[p] \in Seq(S) /\ missing[p] \in Seq(S)
      /\ InOrder(missing[p]) /\ InOrder(todo[p]) /\ Below(Range(missing[p]), Range(todo[p]))
  BY DEF LookUp, SchemaInv, SchemaTypes, SchemaOK, Looking, OrderInv, OrderOK
<1>2. h \in S /\ t \in Seq(S) /\ Range(todo[p]) = {h} \cup Range(t)
  BY <1>1, TailRange
<1>3. InOrder(t) /\ Below({h}, Range(t))
  BY <1>1, TailInOrder
<1>4. Append(missing[p], h) \in Seq(S) /\ Range(Append(missing[p], h)) = Range(missing[p]) \cup {h}
  BY <1>1, <1>2, AppendRange
<1>5. InOrder(Append(missing[p], h))
  <2>1. Below(Range(missing[p]), {h})
    BY <1>1, <1>2 DEF Below
  <2>2. QED
    BY <1>1, <1>2, <2>1, AppendInOrder
<1>6. missing'[p] \in {missing[p], Append(missing[p], h)}
  BY DEF LookUp, SchemaInv, SchemaTypes
<1>7. InOrder(missing'[p]) /\ Below(Range(missing'[p]), Range(t))
  BY <1>1, <1>2, <1>3, <1>4, <1>5, <1>6 DEF Below
<1>8. OthersSchema(p)
  BY DEF SchemaInv, SchemaTypes, OthersSchema, LookUp, Goto
<1>9. OrderOK(p)'
  <2>1. CASE t # <<>>
    <3>1. phase'[p] = "checking" /\ todo'[p] = t
      BY <2>1 DEF LookUp, Goto, SchemaInv, SchemaTypes
    <3>2. QED
      BY <3>1, <1>3, <1>7 DEF OrderOK, InInitDb
  <2>2. CASE t = <<>>
    <3>1. phase'[p] = "creating" /\ todo'[p] = missing'[p]
      BY <2>2 DEF LookUp, Goto, SchemaInv, SchemaTypes
    <3>2. Created(p)' = {}
      BY <3>1 DEF Created
    <3>3. QED
      BY <3>1, <3>2, <1>7 DEF OrderOK, Below, InInitDb
  <2>3. QED
    BY <2>1, <2>2
<1>10. QED
  BY <1>8, <1>9, OrderStep

(* A table is created after all those before it.                           *)
LEMMA CreateTableOrder ==
  ASSUME SchemaInv, OrderInv, NEW p \in Processes, CreateTable(p), UNCHANGED faults
  PROVE  OrderInv'
<1> DEFINE h == Head(todo[p])
           t == Tail(todo[p])
<1>1. /\ phase[p] = "creating" /\ todo[p] # <<>>
      /\ todo[p] \in Seq(Range(Tables) \cup Range(Queues))
      /\ InOrder(todo[p]) /\ Below(Created(p), Range(todo[p]))
  BY DEF CreateTable, SchemaInv, SchemaTypes, OrderInv, OrderOK
<1>2. Range(todo[p]) = {h} \cup Range(t) /\ InOrder(t) /\ Below({h}, Range(t))
  BY <1>1, TailRange, TailInOrder
<1>3. phase'[p] = "creating" /\ todo'[p] = t /\ missing'[p] = missing[p] /\ OthersSchema(p)
  BY <1>1 DEF CreateTable, SchemaInv, SchemaTypes, OthersSchema
<1>4. Created(p)' \subseteq Created(p) \cup {h}
  BY <1>1, <1>2, <1>3 DEF Created
<1>5. Below(Created(p)', Range(t))
  BY <1>1, <1>2, <1>4 DEF Below
<1>6. OrderOK(p)'
  BY <1>2, <1>3, <1>5 DEF OrderOK, InInitDb
<1>7. QED
  BY <1>3, <1>6, OrderStep

(* A failed attempt lets go of everything.                                 *)
LEMMA AttemptFailsOrder ==
  ASSUME SchemaInv, OrderInv, NEW p \in Processes, NEW written, AttemptFails(p, written),
         faults' \in {faults, faults + 1}
  PROVE  OrderInv'
<1>1. missing'[p] = <<>> /\ OthersSchema(p)
  BY DEF AttemptFails, Goto, SchemaInv, SchemaTypes, OthersSchema
<1>2. \/ phase'[p] = "checking" /\ todo'[p] = Tables
      \/ phase'[p] \in {"down", "stopped"}
  BY DEF AttemptFails, Goto, Ended, SchemaInv, SchemaTypes
<1>3. InOrder(<<>>) /\ Range(<<>>) = {}
  BY RangeOfEmpty DEF InOrder
<1>4. OrderOK(p)'
  BY <1>1, <1>2, <1>3, RanksArePlaces DEF OrderOK, Below, InInitDb
<1>5. QED
  BY <1>1, <1>4, OrderStep

(* So does a commit.                                                       *)
LEMMA SchemaCommitOrder ==
  ASSUME SchemaInv, OrderInv, NEW p \in Processes, SchemaCommit(p), UNCHANGED faults
  PROVE  OrderInv'
<1>1. phase'[p] = "connecting" /\ missing'[p] = <<>> /\ OthersSchema(p)
  BY DEF SchemaCommit, Goto, SchemaInv, SchemaTypes, OthersSchema
<1>2. OrderOK(p)'
  BY <1>1 DEF OrderOK, InInitDb
<1>3. QED
  BY <1>1, <1>2, OrderStep

(* The other steps: nobody leaves init_db with a table noted but by dying. *)
Forgets(p) ==
  \/ missing'[p] = <<>>
  \/ missing'[p] = missing[p] /\ (InInitDb(p) => phase'[p] = phase[p])

LEMMA OrderFlows ==
  ASSUME SchemaInv, OrderInv, NEW p \in Processes, SchemaFlow(p), Forgets(p)
  PROVE  OrderInv'
<1>1. OrderOK(p)
  BY DEF OrderInv
<1>2. CASE phase'[p] \in {"down", "stopped"}
  <2>1. missing'[p] = <<>>
    BY <1>1, <1>2 DEF Forgets, OrderOK, InInitDb
  <2>2. QED
    BY <1>2, <2>1, OrderStep DEF SchemaFlow, OrderOK, InInitDb
<1>3. CASE phase[p] \in Past /\ phase'[p] \in Past
  <2>1. missing'[p] = <<>> /\ ~InInitDb(p)'
    BY <1>1, <1>3 DEF Forgets, OrderOK, InInitDb, Past
  <2>2. QED
    BY <2>1, OrderStep DEF SchemaFlow, OrderOK, InInitDb
<1>4. CASE phase'[p] = phase[p] /\ todo'[p] = todo[p] /\ missing'[p] = missing[p]
  BY <1>1, <1>4, OrderStep DEF SchemaFlow, OrderOK, Created, InInitDb
<1>5. QED
  BY <1>2, <1>3, <1>4 DEF SchemaFlow

LEMMA StartupForgets ==
  ASSUME NEW p \in Processes, Connect(p) \/ Declare(p) \/ ConnectFails(p)
  PROVE  Forgets(p)
BY DEF Connect, Declare, ConnectFails, Forgets, InInitDb

LEMMA LoopForgets ==
  ASSUME SchemaInv, NEW p \in Processes,
         \/ WorkerStep(p)
         \/ p = Api /\ Shutdown
         \/ Close(p) \/ Reconnect(p) \/ GetTimesOut(p) \/ LinkDrops(p)
  PROVE  Forgets(p)
<1>1. CASE WorkerStep(p)
  BY <1>1 DEF WorkerStep, Get, Leave, GetRaises, Deliver, GetEmpty, Receive, Handle, Ack, Moves,
              Forgets, InInitDb
<1>2. CASE p = Api /\ Shutdown
  BY <1>2 DEF Shutdown, Forgets, InInitDb
<1>3. CASE Close(p) \/ GetTimesOut(p) \/ LinkDrops(p)
  BY <1>3 DEF Close, GetTimesOut, LinkDrops, Running, Moves, Forgets, InInitDb
<1>4. CASE Reconnect(p)
  BY <1>4 DEF Reconnect, schemaVars, Forgets
<1>5. QED
  BY <1>1, <1>2, <1>3, <1>4

LEMMA EndForgets ==
  ASSUME SchemaInv, NEW p \in Processes, Crash(p) \/ Terminate(p) \/ Up(p)
  PROVE  Forgets(p)
<1>1. ASSUME NEW end, Dies(p, end) PROVE Forgets(p)
  BY <1>1 DEF Dies, Forgets, SchemaInv, SchemaTypes
<1>2. CASE Crash(p)
  BY <1>1, <1>2 DEF Crash
<1>3. CASE Terminate(p)
  BY <1>1, <1>3 DEF Terminate, Forgets
<1>4. CASE Up(p)
  BY <1>4 DEF Up, Forgets, InInitDb
<1>5. QED
  BY <1>2, <1>3, <1>4

(* The tables are taken in order.                                          *)
LEMMA OrderInvHolds == Safety => []OrderInv
<1>1. Init => OrderInv
  BY DEF Init, StartupInit, SchemaInit, OrderInv, OrderOK, InInitDb
<1>2. SchemaInv /\ OrderInv /\ [Next]_vars => OrderInv'
  <2> SUFFICES ASSUME SchemaInv, OrderInv, [Next]_vars PROVE OrderInv'
    OBVIOUS
  <2>1. CASE UNCHANGED vars \/ \E o \in Orders : Accept(o)
    <3>1. UNCHANGED <<phase, todo, missing>>
      BY <2>1 DEF vars, Accept, startupVars, schemaVars
    <3>2. QED
      BY <3>1 DEF OrderInv, OrderOK, Created, InInitDb
  <2>2. ASSUME NEW p \in Processes, InitDb(p), UNCHANGED faults PROVE OrderInv'
    BY <2>2, StartOrder, LookUpOrder, CreateTableOrder, AttemptFailsOrder, SchemaCommitOrder
       DEF InitDb, TableExists
  <2>3. ASSUME NEW p \in Processes, Step(p), ~InitDb(p), UNCHANGED faults PROVE OrderInv'
    BY <2>3, StartupFlow, LoopFlow, StartupForgets, LoopForgets, OrderFlows
       DEF Step, StartupStep
  <2>4. ASSUME NEW p \in Processes, Fault(p), faults' = faults + 1 PROVE OrderInv'
    <3>1. CASE DbError(p)
      BY <2>4, <3>1, AttemptFailsOrder DEF DbError
    <3>2. CASE ~DbError(p)
      BY <2>4, <3>2, ConnectFailsFlow, LoopFlow, EndFlow, StartupForgets, LoopForgets, EndForgets,
         OrderFlows DEF Fault
    <3>3. QED
      BY <3>1, <3>2
  <2>5. ASSUME NEW p \in Processes, Terminate(p) \/ Up(p), UNCHANGED faults PROVE OrderInv'
    BY <2>5, EndFlow, EndForgets, OrderFlows
  <2>6. QED
    BY <2>1, <2>2, <2>3, <2>4, <2>5 DEF Next
<1>3. QED
  BY <1>1, <1>2, SchemaInvHolds, PTL DEF Safety

(* Whoever is waited for waits, if at all, for a later table.              *)
LEMMA WaitsForLater ==
  ASSUME SchemaInv, OrderInv, NEW p \in Processes, NEW q \in Processes, NEW r \in Processes,
         WaitsFor(p, q), WaitsFor(q, r)
  PROVE  Rank(Head(todo[p])) < Rank(Head(todo[q]))
<1>1. phase[q] = "creating" /\ todo[q] # <<>> /\ Head(todo[p]) \in Created(q)
  BY DEF WaitsFor
<1>2. Below(Created(q), Range(todo[q]))
  BY <1>1 DEF OrderInv, OrderOK
<1>3. Head(todo[q]) \in Range(todo[q])
  BY <1>1, TailRange DEF SchemaInv, SchemaTypes
<1>4. QED
  BY <1>1, <1>2, <1>3 DEF Below

(* Whoever waits, waits for a table.                                       *)
LEMMA WaitsForTable ==
  ASSUME SchemaInv, NEW p \in Processes, NEW q \in Processes, WaitsFor(p, q)
  PROVE  Rank(Head(todo[p])) \in Nat /\ Rank(Head(todo[p])) <= Len(Tables)
<1>1. Head(todo[p]) \in Created(q) /\ phase[q] = "creating"
  BY DEF WaitsFor, Created
<1>2. Range(missing[q]) \subseteq Range(Tables)
  BY RangeWithin DEF SchemaInv, SchemaTypes
<1>3. Head(todo[p]) \in Range(Tables)
  BY <1>1, <1>2 DEF Created
<1>4. QED
  BY <1>3, RanksArePlaces

(* The concurrent create_all of the API and the workers never wait for one *)
(* another in a circle, however many they are: among those that wait, the  *)
(* one that waits for the last table waits for a process that does not     *)
(* wait (NoCircularWait of run life).                                      *)
THEOREM SomebodyGoesOn == Safety => []NoCircularWait
<1>1. SchemaInv /\ OrderInv => NoCircularWait
  <2> SUFFICES ASSUME SchemaInv, OrderInv,
                      NEW S \in (SUBSET Processes) \ {{}},
                      \A p \in S : \E q \in S : WaitsFor(p, q)
               PROVE  FALSE
    BY DEF NoCircularWait
  <2> DEFINE Left(p) == Len(Tables) - Rank(Head(todo[p]))
             T == {Left(p) : p \in S}
  <2>1. Len(Tables) \in Nat
    BY SchemaAssumption
  <2>2. \A p \in S : /\ Rank(Head(todo[p])) \in Nat /\ Rank(Head(todo[p])) <= Len(Tables)
    BY WaitsForTable
  <2>3. T \subseteq Nat /\ T # {}
    <3>1. \A p \in S : Left(p) \in Nat
      BY <2>1, <2>2
    <3>2. S # {}
      OBVIOUS
    <3>3. QED
      BY <3>1, <3>2
  <2>4. PICK least \in T : \A y \in T : least <= y
    BY <2>3, LeastNatural
  <2>5. PICK p \in S : least = Left(p)
    BY <2>4
  <2>6. PICK q \in S : WaitsFor(p, q)
    OBVIOUS
  <2>7. Rank(Head(todo[p])) < Rank(Head(todo[q]))
    BY <2>6, WaitsForLater
  <2>8. Left(q) < Left(p)
    BY <2>1, <2>2, <2>7
  <2>9. Left(q) \in T /\ Left(q) \in Nat /\ Left(p) \in Nat
    BY <2>3
  <2> HIDE DEF Left, T
  <2>10. QED
    BY <2>4, <2>5, <2>8, <2>9
<1>2. QED
  BY <1>1, SchemaInvHolds, OrderInvHolds, PTL
=============================================================================
