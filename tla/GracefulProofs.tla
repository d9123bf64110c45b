--------------------------- MODULE GracefulProofs ---------------------------
(***************************************************************************)
(* Why stops and restarts repeat no work.  A message that still leads to   *)
(* work on an order is a copy of it: in the queue, in the hand of a worker *)
(* that has not worked on it, or unacknowledged on a connection about to   *)
(* close.  Copies and work done together are at most one, and one more for *)
(* every fault.                                                            *)
(***************************************************************************)
EXTENDS DeliveryProofs, FiniteSetTheorems

HasCopy(p, o) ==
  \/ phase[p] \in {"answered", "handling"} /\ inHand[p] = o
  \/ phase[p] = "closing" /\ o \in unacked[p]

(* Api consumes no queue: it stands for the queue itself.                  *)
CopiesOut(q, o) ==
  {p \in Workers : Role[p] = q /\ HasCopy(p, o)} \cup {a \in {Api} : o \in ready[q]}

CopiesOK(q, o) ==
  /\ IsFiniteSet(CopiesOut(q, o))
  /\ Cardinality(CopiesOut(q, o)) + done[q][o] <= 1 + faults

(* What exists of an order, exists because it was accepted.                *)
SentInv ==
  /\ \A q \in Range(Queues) :
       ready[q] \subseteq accepted /\ \A o \in Orders : done[q][o] > 0 => o \in accepted
  /\ \A p \in Processes :
       unacked[p] \subseteq accepted /\ (phase[p] \in Holding => inHand[p] \in accepted)

CopiesInv == \A q \in Range(Queues), o \in Orders : CopiesOK(q, o)

----------------------------------------------------------------------------
(* Counting the copies.                                                    *)

(* Fewer copies.                                                           *)
LEMMA FewerCopies ==
  ASSUME NEW C, NEW D, IsFiniteSet(C), D \subseteq C
  PROVE  /\ IsFiniteSet(D) /\ Cardinality(D) <= Cardinality(C)
         /\ Cardinality(C) \in Nat /\ Cardinality(D) \in Nat
BY FS_Subset, FS_CardinalityType

(* At most one more.                                                       *)
LEMMA OneMoreCopy ==
  ASSUME NEW C, NEW D, NEW x, IsFiniteSet(C), D \subseteq C \cup {x}
  PROVE  /\ IsFiniteSet(D) /\ Cardinality(D) <= Cardinality(C) + 1
         /\ Cardinality(C) \in Nat /\ Cardinality(D) \in Nat
<1>1. Cardinality(C) \in Nat
  BY FS_CardinalityType
<1>2. /\ IsFiniteSet(C \cup {x})
      /\ Cardinality(C \cup {x}) \in {Cardinality(C), Cardinality(C) + 1}
  BY FS_AddElement
<1>3. IsFiniteSet(D) /\ Cardinality(D) <= Cardinality(C \cup {x}) /\ Cardinality(D) \in Nat
  BY <1>2, FewerCopies
<1>4. QED
  BY <1>1, <1>2, <1>3

(* One less, at least.                                                     *)
LEMMA OneLessCopy ==
  ASSUME NEW C, NEW D, NEW x \in C, IsFiniteSet(C), D \subseteq C \ {x}
  PROVE  /\ IsFiniteSet(D) /\ Cardinality(D) + 1 <= Cardinality(C)
         /\ Cardinality(C) \in Nat /\ Cardinality(D) \in Nat
<1>1. /\ IsFiniteSet(C \ {x}) /\ Cardinality(C \ {x}) = Cardinality(C) - 1
      /\ Cardinality(C) \in Nat
  BY FS_RemoveElement, FS_CardinalityType
<1>2. IsFiniteSet(D) /\ Cardinality(D) <= Cardinality(C \ {x}) /\ Cardinality(D) \in Nat
  BY <1>1, FewerCopies
<1>3. QED
  BY <1>1, <1>2

(* One copy that changes its place.                                        *)
LEMMA MovedCopy ==
  ASSUME NEW C, NEW D, NEW x \in C, NEW y, IsFiniteSet(C), D \subseteq (C \ {x}) \cup {y}
  PROVE  /\ IsFiniteSet(D) /\ Cardinality(D) <= Cardinality(C)
         /\ Cardinality(C) \in Nat /\ Cardinality(D) \in Nat
<1>1. IsFiniteSet(C \ {x}) /\ Cardinality(C \ {x}) + 1 <= Cardinality(C)
      /\ Cardinality(C) \in Nat /\ Cardinality(C \ {x}) \in Nat
  BY OneLessCopy
<1>2. IsFiniteSet(D) /\ Cardinality(D) <= Cardinality(C \ {x}) + 1 /\ Cardinality(D) \in Nat
  BY <1>1, OneMoreCopy
<1>3. QED
  BY <1>1, <1>2

(* The ways in which a step may change what there is of an order.          *)
LEMMA CopyStep ==
  ASSUME NEW q \in Range(Queues), NEW o \in Orders, CopiesOK(q, o),
         faults \in Nat, faults' \in {faults, faults + 1},
         done[q][o] \in Nat, done'[q][o] \in {done[q][o], done[q][o] + 1},
         \/ CopiesOut(q, o)' \subseteq CopiesOut(q, o) /\ done'[q][o] = done[q][o]
         \/ /\ \E x : CopiesOut(q, o)' \subseteq CopiesOut(q, o) \cup {x}
            /\ done'[q][o] = done[q][o] /\ faults' = faults + 1
         \/ /\ \E x \in CopiesOut(q, o) : \E y :
                 CopiesOut(q, o)' \subseteq (CopiesOut(q, o) \ {x}) \cup {y}
            /\ done'[q][o] = done[q][o]
         \/ \E x \in CopiesOut(q, o) : CopiesOut(q, o)' \subseteq CopiesOut(q, o) \ {x}
  PROVE  CopiesOK(q, o)'
<1> DEFINE C == CopiesOut(q, o)
           D == CopiesOut(q, o)'
           n == Cardinality(C)
           m == Cardinality(D)
<1>1. IsFiniteSet(C) /\ n + done[q][o] <= 1 + faults
  BY DEF CopiesOK
<1>2. ASSUME IsFiniteSet(D), n \in Nat, m \in Nat,
             m + done'[q][o] + faults <= n + done[q][o] + faults'
      PROVE  CopiesOK(q, o)'
  <2>1. m + done'[q][o] <= 1 + faults'
    BY <1>1, <1>2
  <2>2. QED
    BY <1>2, <2>1 DEF CopiesOK
<1>3. CASE D \subseteq C /\ done'[q][o] = done[q][o]
  <2>1. IsFiniteSet(D) /\ m <= n /\ n \in Nat /\ m \in Nat
    BY <1>1, <1>3, FewerCopies
  <2>2. QED
    BY <1>2, <1>3, <2>1
<1>4. ASSUME NEW x, D \subseteq C \cup {x}, done'[q][o] = done[q][o], faults' = faults + 1
      PROVE  CopiesOK(q, o)'
  <2>1. IsFiniteSet(D) /\ m <= n + 1 /\ n \in Nat /\ m \in Nat
    BY <1>1, <1>4, OneMoreCopy
  <2>2. QED
    BY <1>2, <1>4, <2>1
<1>5. ASSUME NEW x \in C, NEW y, D \subseteq (C \ {x}) \cup {y}, done'[q][o] = done[q][o]
      PROVE  CopiesOK(q, o)'
  <2>1. IsFiniteSet(D) /\ m <= n /\ n \in Nat /\ m \in Nat
    BY <1>1, <1>5, MovedCopy
  <2>2. QED
    BY <1>2, <1>5, <2>1
<1>6. ASSUME NEW x \in C, D \subseteq C \ {x} PROVE CopiesOK(q, o)'
  <2>1. IsFiniteSet(D) /\ m + 1 <= n /\ n \in Nat /\ m \in Nat
    BY <1>1, <1>6, OneLessCopy
  <2>2. QED
    BY <1>2, <2>1
<1>7. QED
  BY <1>3, <1>4, <1>5, <1>6

----------------------------------------------------------------------------
(* What a step of p leaves alone.                                          *)
LeavesOthers(p) ==
  /\ accepted' = accepted
  /\ \A w \in Processes \ {p} :
       phase'[w] = phase[w] /\ unacked'[w] = unacked[w] /\ inHand'[w] = inHand[w]

(* The steps of p that make no copy: p gets none, nor does its queue.      *)
LEMMA NoNewCopy ==
  ASSUME NEW p \in Processes, LeavesOthers(p), NEW q \in Range(Queues), NEW o \in Orders,
         ready'[q] \subseteq ready[q],
         p \in Workers /\ Role[p] = q /\ HasCopy(p, o)' => HasCopy(p, o)
  PROVE  CopiesOut(q, o)' \subseteq CopiesOut(q, o)
<1>1. ASSUME NEW w \in Workers, Role[w] = q, HasCopy(w, o)' PROVE HasCopy(w, o)
  BY <1>1 DEF LeavesOthers, HasCopy, Workers
<1>2. QED
  BY <1>1 DEF CopiesOut

(* A requeue makes at most one copy of an order, in the queue of p.        *)
LEMMA RequeuedCopy ==
  ASSUME DeliveryTypes, NEW p \in Processes, LeavesOthers(p), Requeue(p),
         NEW q \in Range(Queues), NEW o \in Orders,
         HasCopy(p, o)' => HasCopy(p, o)
  PROVE  /\ CopiesOut(q, o)' \subseteq CopiesOut(q, o) \cup {Api}
         /\ ~(p \in Workers /\ Role[p] = q /\ o \in unacked[p]) =>
              CopiesOut(q, o)' \subseteq CopiesOut(q, o)
<1>1. ASSUME NEW w \in Workers, Role[w] = q, HasCopy(w, o)' PROVE HasCopy(w, o)
  BY <1>1 DEF LeavesOthers, HasCopy, Workers
<1>2. p # Api => p \in Workers /\ Role[p] \in Range(Queues)
  BY LifeAssumption DEF Workers
<1>3. o \in ready'[q] => \/ o \in ready[q]
                         \/ p \in Workers /\ Role[p] = q /\ o \in unacked[p]
  BY <1>2 DEF Requeue, DeliveryTypes
<1>4. QED
  BY <1>1, <1>3 DEF CopiesOut

Known == SchemaInv /\ HandsInv /\ SentInv /\ CopiesInv

(* What both invariants ask of a step of p.                                *)
LEMMA SentStep ==
  ASSUME Known, NEW p \in Processes, LeavesOthers(p),
         \A q \in Range(Queues) : ready'[q] \subseteq accepted,
         unacked'[p] \subseteq accepted,
         \A q \in Range(Queues), o \in Orders : done'[q][o] > 0 => o \in accepted,
         phase'[p] \in Holding => inHand'[p] \in accepted
  PROVE  SentInv'
BY DEF Known, SentInv, LeavesOthers

(* The steps that neither make a copy nor work.                            *)
LEMMA QuietCopies ==
  ASSUME Known, NEW p \in Processes, LeavesOthers(p), done' = done,
         faults' \in {faults, faults + 1},
         \A q \in Range(Queues) : ready'[q] \subseteq ready[q],
         \A o \in Orders : HasCopy(p, o)' => HasCopy(p, o)
  PROVE  CopiesInv'
<1> SUFFICES ASSUME NEW q \in Range(Queues), NEW o \in Orders PROVE CopiesOK(q, o)'
  BY DEF CopiesInv
<1>1. CopiesOK(q, o) /\ faults \in Nat /\ done[q][o] \in Nat
  BY DEF Known, CopiesInv, SchemaInv, SchemaTypes, HandsInv, DeliveryTypes
<1>2. CopiesOut(q, o)' \subseteq CopiesOut(q, o)
  BY NoNewCopy
<1>3. QED
  BY <1>1, <1>2, CopyStep

(* A step that touches no message.                                         *)
LEMMA QuietSteps ==
  ASSUME Known, NEW p \in Processes, UNCHANGED <<accepted, ready, unacked, inHand, done>>,
         faults' \in {faults, faults + 1},
         NEW where, phase' = [phase EXCEPT ![p] = where], where \notin Holding, unacked[p] = {}
  PROVE  SentInv' /\ CopiesInv'
<1>1. phase'[p] = where /\ LeavesOthers(p)
  BY DEF LeavesOthers, Known, SchemaInv, SchemaTypes
<1>2. SentInv'
  BY <1>1, SentStep DEF Known, SentInv
<1>3. \A o \in Orders : ~HasCopy(p, o)'
  BY <1>1 DEF HasCopy, Holding
<1>4. QED
  BY <1>1, <1>2, <1>3, QuietCopies

(* Asking, and getting nothing.                                            *)
LEMMA PollCopies ==
  ASSUME Known, NEW p \in Processes, UNCHANGED faults,
         Get(p) \/ Leave(p) \/ GetRaises(p) \/ GetEmpty(p)
  PROVE  SentInv' /\ CopiesInv'
<1>1. unacked[p] = {}
  BY DEF Known, HandsInv, HandOK, Holding, Get, Leave, GetRaises, GetEmpty
<1>2. UNCHANGED <<accepted, ready, unacked, inHand, done>>
  BY DEF Get, Leave, GetRaises, GetEmpty, loopVars
<1>3. PICK where \in {"asked", "closing", "polling"} : phase' = [phase EXCEPT ![p] = where]
  BY DEF Get, Leave, GetRaises, GetEmpty, Moves, Goto
<1>4. where \notin Holding
  BY DEF Holding
<1>5. QED
  BY <1>1, <1>2, <1>3, <1>4, QuietSteps

(* The copy in the queue becomes the worker's.                             *)
LEMMA DeliverCopies ==
  ASSUME Known, NEW p \in Workers, Deliver(p), UNCHANGED faults
  PROVE  SentInv' /\ CopiesInv'
<1>1. PICK m \in ready[Role[p]] :
        /\ ready' = [ready EXCEPT ![Role[p]] = @ \ {m}]
        /\ unacked' = [unacked EXCEPT ![p] = @ \cup {m}]
        /\ inHand' = [inHand EXCEPT ![p] = m]
  BY DEF Deliver
<1>2. /\ Role[p] \in Range(Queues) /\ p \in Processes /\ p # Api /\ m \in accepted
      /\ DeliveryTypes /\ SentInv
  BY LifeAssumption DEF Workers, Known, HandsInv, SentInv
<1>3. phase'[p] = "answered" /\ \A w \in Processes \ {p} : phase'[w] = phase[w]
  BY <1>2 DEF Deliver, Moves, Goto, Known, SchemaInv, SchemaTypes
<1>4. LeavesOthers(p) /\ done' = done
  BY <1>1, <1>2, <1>3 DEF LeavesOthers, DeliveryTypes, Deliver
<1>5. inHand'[p] = m /\ unacked'[p] = unacked[p] \cup {m}
  BY <1>1, <1>2 DEF DeliveryTypes
<1>6. \A q \in Range(Queues) : ready'[q] = ready[q] \ (IF q = Role[p] THEN {m} ELSE {})
  BY <1>1, <1>2 DEF DeliveryTypes
<1>7. SentInv'
  BY <1>2, <1>4, <1>5, <1>6, SentStep DEF SentInv
<1>8. ASSUME NEW q \in Range(Queues), NEW o \in Orders PROVE CopiesOK(q, o)'
  <2>1. CopiesOK(q, o) /\ faults \in Nat /\ done[q][o] \in Nat
    BY DEF Known, CopiesInv, SchemaInv, SchemaTypes, HandsInv, DeliveryTypes
  <2>2. HasCopy(p, o)' => o = m
    BY <1>3, <1>5 DEF HasCopy
  <2>3. CASE q = Role[p] /\ o = m
    <3>1. Api \in CopiesOut(q, o)
      BY <2>3 DEF CopiesOut
    <3>2. CopiesOut(q, o)' \subseteq (CopiesOut(q, o) \ {Api}) \cup {p}
      <4>1. o \notin ready'[q]
        BY <1>6, <2>3
      <4>2. \A w \in Workers \ {p} : HasCopy(w, o)' => HasCopy(w, o) /\ w # Api
        BY <1>4 DEF LeavesOthers, HasCopy, Workers
      <4>3. QED
        BY <4>1, <4>2 DEF CopiesOut
    <3>3. QED
      BY <1>4, <2>1, <3>1, <3>2, CopyStep
  <2>4. CASE ~(q = Role[p] /\ o = m)
    <3>1. CopiesOut(q, o)' \subseteq CopiesOut(q, o)
      BY <1>2, <1>4, <1>6, <2>2, <2>4, NoNewCopy
    <3>2. QED
      BY <1>4, <2>1, <3>1, CopyStep
  <2>5. QED
    BY <2>3, <2>4
<1>9. QED
  BY <1>7, <1>8 DEF CopiesInv

(* The copy stays the worker's.                                            *)
LEMMA ReceiveCopies ==
  ASSUME Known, NEW p \in Processes, Receive(p), UNCHANGED faults
  PROVE  SentInv' /\ CopiesInv'
<1>1. /\ phase[p] = "answered" /\ phase'[p] = "handling" /\ LeavesOthers(p)
      /\ UNCHANGED <<ready, unacked, inHand, done>>
  BY DEF Receive, Moves, Goto, Known, SchemaInv, SchemaTypes, LeavesOthers, loopVars
<1>2. SentInv'
  BY <1>1, SentStep DEF Known, SentInv, Holding
<1>3. \A o \in Orders : HasCopy(p, o)' => HasCopy(p, o)
  BY <1>1 DEF HasCopy
<1>4. QED
  BY <1>1, <1>2, <1>3, QuietCopies

(* The work uses the worker's copy up.                                     *)
LEMMA HandleCopies ==
  ASSUME Known, NEW p \in Processes, Handle(p), UNCHANGED faults
  PROVE  SentInv' /\ CopiesInv'
<1> DEFINE i == inHand[p]
<1>1. /\ p \in Workers /\ i \in Orders /\ Role[p] \in Range(Queues) /\ phase[p] = "handling"
      /\ i \in accepted /\ DeliveryTypes /\ SentInv
  BY LifeAssumption DEF Handle, Known, HandsInv, HandOK, Holding, SentInv
<1>2. /\ phase'[p] = "acking" /\ LeavesOthers(p) /\ UNCHANGED <<ready, unacked, inHand>>
  BY DEF Handle, Moves, Goto, Known, SchemaInv, SchemaTypes, LeavesOthers
<1>3. \A q \in Range(Queues), o \in Orders :
        done'[q][o] = IF q = Role[p] /\ o = i THEN done[q][o] + 1 ELSE done[q][o]
  BY <1>1 DEF Handle, DeliveryTypes
<1>4. SentInv'
  <2>1. \A q \in Range(Queues), o \in Orders : done'[q][o] > 0 => o \in accepted
    BY <1>1, <1>3 DEF SentInv
  <2>2. QED
    BY <1>1, <1>2, <2>1, SentStep DEF SentInv
<1>5. ASSUME NEW q \in Range(Queues), NEW o \in Orders PROVE CopiesOK(q, o)'
  <2>1. CopiesOK(q, o) /\ faults \in Nat /\ done[q][o] \in Nat
    BY DEF Known, CopiesInv, SchemaInv, SchemaTypes, HandsInv, DeliveryTypes
  <2>2. ~HasCopy(p, o)'
    BY <1>2 DEF HasCopy
  <2>3. CopiesOut(q, o)' \subseteq CopiesOut(q, o)
    BY <1>2, <2>2, NoNewCopy
  <2>4. CASE q = Role[p] /\ o = i
    <3>1. p \in CopiesOut(q, o)
      BY <1>1, <2>4 DEF CopiesOut, HasCopy
    <3>2. p \notin CopiesOut(q, o)'
      BY <1>1, <2>2 DEF CopiesOut, Workers
    <3>3. QED
      BY <1>3, <2>1, <2>3, <2>4, <3>1, <3>2, CopyStep
  <2>5. CASE ~(q = Role[p] /\ o = i)
    BY <1>3, <2>1, <2>3, <2>5, CopyStep
  <2>6. QED
    BY <2>4, <2>5
<1>6. QED
  BY <1>4, <1>5 DEF CopiesInv

(* After the work the message is no copy: its ack makes none.              *)
LEMMA AckCopies ==
  ASSUME Known, NEW p \in Processes, Ack(p), UNCHANGED faults
  PROVE  SentInv' /\ CopiesInv'
<1>1. phase'[p] = "polling" /\ LeavesOthers(p) /\ UNCHANGED <<ready, done>>
  BY DEF Ack, Moves, Goto, Known, SchemaInv, SchemaTypes, HandsInv, DeliveryTypes, LeavesOthers
<1>2. unacked'[p] \subseteq unacked[p]
  BY DEF Ack, Known, HandsInv, DeliveryTypes
<1>3. SentInv'
  BY <1>1, <1>2, SentStep DEF Known, SentInv, Holding
<1>4. \A o \in Orders : ~HasCopy(p, o)'
  BY <1>1 DEF HasCopy
<1>5. QED
  BY <1>1, <1>3, <1>4, QuietCopies

(* The copy of a get that timed out goes back with the closing connection. *)
LEMMA TimeoutCopies ==
  ASSUME Known, NEW p \in Processes, GetTimesOut(p), faults' = faults + 1
  PROVE  SentInv' /\ CopiesInv'
<1>1. /\ phase'[p] = "closing" /\ LeavesOthers(p) /\ UNCHANGED <<ready, unacked, done>>
      /\ phase[p] \in {"asked", "answered"}
  BY DEF GetTimesOut, Moves, Goto, Known, SchemaInv, SchemaTypes, HandsInv, DeliveryTypes, LeavesOthers
<1>2. SentInv'
  BY <1>1, SentStep DEF Known, SentInv, Holding
<1>3. HandOK(p)
  BY DEF Known, HandsInv
<1>4. \A o \in Orders : HasCopy(p, o)' => HasCopy(p, o)
  BY <1>1, <1>3 DEF HasCopy, HandOK, Holding
<1>5. QED
  BY <1>1, <1>2, <1>4, QuietCopies

(* A requeue after a fault makes one copy more at most.                    *)
LEMMA FaultyRequeue ==
  ASSUME Known, NEW p \in Processes, LeavesOthers(p), Requeue(p), done' = done,
         faults' = faults + 1,
         \A o \in Orders : HasCopy(p, o)' => HasCopy(p, o)
  PROVE  CopiesInv'
<1> SUFFICES ASSUME NEW q \in Range(Queues), NEW o \in Orders PROVE CopiesOK(q, o)'
  BY DEF CopiesInv
<1>1. CopiesOK(q, o) /\ faults \in Nat /\ done[q][o] \in Nat
  BY DEF Known, CopiesInv, SchemaInv, SchemaTypes, HandsInv, DeliveryTypes
<1>2. CopiesOut(q, o)' \subseteq CopiesOut(q, o) \cup {Api}
  BY RequeuedCopy DEF Known, HandsInv
<1>3. QED
  BY <1>1, <1>2, CopyStep

(* What a requeue puts back was accepted.                                  *)
LEMMA RequeueSent ==
  ASSUME Known, NEW p \in Processes, LeavesOthers(p), Requeue(p), done' = done,
         phase'[p] \in Holding => phase[p] \in Holding /\ inHand'[p] = inHand[p]
  PROVE  SentInv'
<1>1. p # Api => p \in Workers /\ Role[p] \in Range(Queues)
  BY LifeAssumption DEF Workers
<1>2. \A q \in Range(Queues) : ready'[q] \subseteq ready[q] \cup unacked[p]
  BY <1>1 DEF Requeue, Known, HandsInv, DeliveryTypes
<1>3. unacked'[p] = {}
  BY DEF Requeue, Known, HandsInv, DeliveryTypes
<1>4. QED
  BY <1>2, <1>3, SentStep DEF Known, SentInv

(* A lost connection.                                                      *)
LEMMA LinkCopies ==
  ASSUME Known, NEW p \in Processes, LinkDrops(p), faults' = faults + 1
  PROVE  SentInv' /\ CopiesInv'
<1>1. /\ Requeue(p) /\ UNCHANGED <<accepted, inHand, done>> /\ unacked'[p] = {}
      /\ phase'[p] = IF phase[p] = "asked" THEN "closing" ELSE phase[p]
  BY DEF LinkDrops, Requeue, Moves, Goto, Known, SchemaInv, SchemaTypes, HandsInv, DeliveryTypes
<1>2. LeavesOthers(p)
  BY DEF LinkDrops, Requeue, Moves, Goto, Known, SchemaInv, SchemaTypes, HandsInv, DeliveryTypes,
         LeavesOthers
<1>3. \A o \in Orders : HasCopy(p, o)' => HasCopy(p, o)
  BY <1>1 DEF HasCopy
<1>4. phase'[p] \in Holding => phase[p] \in Holding /\ inHand'[p] = inHand[p]
  BY <1>1 DEF Holding
<1>5. QED
  BY <1>1, <1>2, <1>3, <1>4, FaultyRequeue, RequeueSent

(* A crash, or a stop of a process that is not yet in its loop.            *)
LEMMA DiesCopies ==
  ASSUME Known, NEW p \in Processes, NEW end \in {"down", "stopped"}, Dies(p, end),
         faults' = faults + 1 \/ (faults' = faults /\ phase[p] \in Early)
  PROVE  SentInv' /\ CopiesInv'
<1>1. /\ Requeue(p) /\ UNCHANGED <<accepted, done>> /\ unacked'[p] = {}
      /\ phase'[p] \in {"down", "stopped"}
  BY DEF Dies, Requeue, Known, SchemaInv, SchemaTypes, HandsInv, DeliveryTypes
<1>2. LeavesOthers(p)
  BY DEF Dies, Requeue, Known, SchemaInv, SchemaTypes, HandsInv, DeliveryTypes, LeavesOthers
<1>3. SentInv'
  BY <1>1, <1>2, RequeueSent DEF Holding
<1>4. \A o \in Orders : ~HasCopy(p, o)'
  BY <1>1 DEF HasCopy
<1>5. CASE faults' = faults + 1
  BY <1>1, <1>2, <1>3, <1>4, <1>5, FaultyRequeue
<1>6. CASE faults' = faults /\ phase[p] \in Early
  <2>1. unacked[p] = {}
    BY <1>6 DEF Known, HandsInv, HandOK, Early, Holding
  <2>2. \A q \in Range(Queues) : ready'[q] = ready[q]
    BY <1>1, <2>1 DEF Requeue, Known, HandsInv, DeliveryTypes
  <2>3. QED
    BY <1>1, <1>2, <1>3, <1>4, <1>6, <2>2, QuietCopies
<1>7. QED
  BY <1>5, <1>6

(* Closing: the copy of the worker becomes the queue's.                    *)
LEMMA CloseCopies ==
  ASSUME Known, NEW p \in Processes, Close(p), UNCHANGED faults
  PROVE  SentInv' /\ CopiesInv'
<1>1. /\ Requeue(p) /\ UNCHANGED <<accepted, done>> /\ unacked'[p] = {}
      /\ phase'[p] \in {"down", "stopped"} /\ phase[p] = "closing"
  BY DEF Close, Requeue, Moves, Goto, Ended, Known, SchemaInv, SchemaTypes, HandsInv, DeliveryTypes
<1>2. LeavesOthers(p)
  BY DEF Close, Requeue, Moves, Goto, Known, SchemaInv, SchemaTypes, HandsInv, DeliveryTypes,
         LeavesOthers
<1>3. SentInv'
  BY <1>1, <1>2, RequeueSent DEF Holding
<1>4. \A o \in Orders : ~HasCopy(p, o)'
  BY <1>1 DEF HasCopy
<1>5. ASSUME NEW q \in Range(Queues), NEW o \in Orders PROVE CopiesOK(q, o)'
  <2>1. CopiesOK(q, o) /\ faults \in Nat /\ done[q][o] \in Nat /\ DeliveryTypes
    BY DEF Known, CopiesInv, SchemaInv, SchemaTypes, HandsInv, DeliveryTypes
  <2>2. CASE p \in Workers /\ Role[p] = q /\ o \in unacked[p]
    <3>1. p \in CopiesOut(q, o)
      BY <1>1, <2>2 DEF CopiesOut, HasCopy
    <3>2. p \notin CopiesOut(q, o)' /\ CopiesOut(q, o)' \subseteq CopiesOut(q, o) \cup {Api}
      BY <1>1, <1>2, <1>4, <2>1, <2>2, RequeuedCopy DEF CopiesOut, Workers
    <3>3. CopiesOut(q, o)' \subseteq (CopiesOut(q, o) \ {p}) \cup {Api}
      BY <3>2
    <3>4. QED
      BY <1>1, <2>1, <3>1, <3>3, CopyStep
  <2>3. CASE ~(p \in Workers /\ Role[p] = q /\ o \in unacked[p])
    <3>1. CopiesOut(q, o)' \subseteq CopiesOut(q, o)
      BY <1>1, <1>2, <1>4, <2>1, <2>3, RequeuedCopy
    <3>2. QED
      BY <1>1, <2>1, <3>1, CopyStep
  <2>4. QED
    BY <2>2, <2>3
<1>6. QED
  BY <1>3, <1>5 DEF CopiesInv

(* A request makes the first copy of an order, in each queue.              *)
LEMMA AcceptCopies ==
  ASSUME Known, NEW o \in Orders, Accept(o), UNCHANGED faults
  PROVE  SentInv' /\ CopiesInv'
<1>1. /\ o \notin accepted /\ accepted' = accepted \cup {o}
      /\ UNCHANGED <<phase, unacked, inHand, done>>
      /\ \A q \in Range(Queues) : ready[q] \subseteq ready'[q] /\ ready'[q] \subseteq ready[q] \cup {o}
  BY DEF Accept, startupVars, schemaVars, Known, HandsInv, DeliveryTypes
<1>2. SentInv'
  BY <1>1 DEF Known, SentInv
<1>3. ASSUME NEW q \in Range(Queues), NEW r \in Orders PROVE CopiesOK(q, r)'
  <2>1. CopiesOK(q, r) /\ faults \in Nat /\ done[q][r] \in Nat
    BY DEF Known, CopiesInv, SchemaInv, SchemaTypes, HandsInv, DeliveryTypes
  <2>2. \A w \in Workers : HasCopy(w, r)' => HasCopy(w, r)
    BY <1>1 DEF HasCopy
  <2>3. CASE r # o
    <3>1. CopiesOut(q, r)' \subseteq CopiesOut(q, r)
      BY <1>1, <2>2, <2>3 DEF CopiesOut
    <3>2. QED
      BY <1>1, <2>1, <3>1, CopyStep
  <2>4. CASE r = o
    <3>1. \A w \in Workers : ~HasCopy(w, r)
      BY <1>1, <2>4 DEF HasCopy, Known, SentInv, Holding, Workers
    <3>2. CopiesOut(q, r)' \subseteq {} \cup {Api}
      BY <2>2, <3>1 DEF CopiesOut
    <3>3. done'[q][r] = 0
      BY <1>1, <2>1, <2>4 DEF Known, SentInv
    <3>4. IsFiniteSet({}) /\ Cardinality({}) = 0
      BY FS_EmptySet
    <3>5. /\ IsFiniteSet(CopiesOut(q, r)') /\ Cardinality(CopiesOut(q, r)') <= Cardinality({}) + 1
          /\ Cardinality(CopiesOut(q, r)') \in Nat
      BY <3>2, <3>4, OneMoreCopy
    <3>6. Cardinality(CopiesOut(q, r)') + done'[q][r] <= 1 + faults'
      BY <2>1, <3>3, <3>4, <3>5
    <3>7. QED
      BY <3>5, <3>6 DEF CopiesOK
  <2>5. QED
    BY <2>3, <2>4
<1>4. QED
  BY <1>2, <1>3 DEF CopiesInv

(* Copies and work done are bounded by the faults.                         *)
LEMMA CopiesInvHolds == Safety => [](SentInv /\ CopiesInv)
<1>1. Init => SentInv /\ CopiesInv
  <2> SUFFICES ASSUME Init PROVE SentInv /\ CopiesInv
    OBVIOUS
  <2>1. SentInv
    BY DEF Init, StartupInit, SchemaInit, SentInv, Holding
  <2>2. ASSUME NEW q \in Range(Queues), NEW o \in Orders PROVE CopiesOK(q, o)
    <3>1. CopiesOut(q, o) = {}
      BY DEF Init, StartupInit, SchemaInit, CopiesOut, HasCopy, Workers
    <3>2. IsFiniteSet(CopiesOut(q, o)) /\ Cardinality(CopiesOut(q, o)) = 0
      BY <3>1, FS_EmptySet
    <3>3. done[q][o] = 0 /\ faults = 0
      BY DEF Init
    <3>4. QED
      BY <3>2, <3>3 DEF CopiesOK
  <2>3. QED
    BY <2>1, <2>2 DEF CopiesInv
<1>2. SchemaInv /\ HandsInv /\ SentInv /\ CopiesInv /\ [Next]_vars => (SentInv /\ CopiesInv)'
  <2> SUFFICES ASSUME Known, [Next]_vars PROVE SentInv' /\ CopiesInv'
    BY DEF Known
  <2>1. CASE UNCHANGED <<accepted, phase, ready, unacked, inHand, done, faults>>
    <3>1. SentInv'
      BY <2>1 DEF Known, SentInv
    <3>2. CopiesInv'
      BY <2>1 DEF Known, CopiesInv, CopiesOK, CopiesOut, HasCopy
    <3>3. QED
      BY <3>1, <3>2
  <2>2. CASE UNCHANGED vars
    BY <2>1, <2>2 DEF vars, startupVars, schemaVars, loopVars
  <2>3. ASSUME NEW p \in Processes, UNCHANGED loopVars, faults' \in {faults, faults + 1},
               InitDb(p) \/ Connect(p) \/ Declare(p) \/ DbError(p) \/ ConnectFails(p) \/ Up(p)
        PROVE  SentInv' /\ CopiesInv'
    <3>1. PICK where \in Early \cup {"serving", "polling"} :
            phase' = [phase EXCEPT ![p] = where] /\ phase[p] \in Early
      BY <2>3, EarlySteps DEF Known
    <3>2. unacked[p] = {} /\ where \notin Holding
      BY <3>1 DEF Known, HandsInv, HandOK, Early, Holding
    <3>3. QED
      BY <2>3, <3>1, <3>2, QuietSteps DEF loopVars
  <2>4. ASSUME NEW p \in Processes, Step(p), UNCHANGED faults PROVE SentInv' /\ CopiesInv'
    <3>1. CASE StartupStep(p) /\ UNCHANGED loopVars
      BY <2>3, <2>4, <3>1 DEF StartupStep
    <3>2. CASE p \in Workers /\ WorkerStep(p)
      BY <2>4, <3>2, PollCopies, DeliverCopies, ReceiveCopies, HandleCopies, AckCopies
         DEF WorkerStep
    <3>3. CASE p = Api /\ Shutdown
      <4>1. unacked[p] = {} /\ "closing" \notin Holding
        BY <3>3 DEF Known, HandsInv, HandOK, Workers, Holding
      <4>2. UNCHANGED loopVars /\ phase' = [phase EXCEPT ![p] = "closing"]
        BY <3>3 DEF Shutdown, Goto
      <4>3. QED
        BY <2>4, <4>1, <4>2, QuietSteps DEF loopVars
    <3>4. CASE Close(p)
      BY <2>4, <3>4, CloseCopies
    <3>5. CASE Reconnect(p)
      BY <2>1, <2>4, <3>5 DEF Reconnect, schemaVars, loopVars
    <3>6. QED
      BY <2>4, <3>1, <3>2, <3>3, <3>4, <3>5 DEF Step
  <2>5. ASSUME NEW p \in Processes, Fault(p), faults' = faults + 1 PROVE SentInv' /\ CopiesInv'
    <3>1. CASE Crash(p)
      <4>1. \E end \in {"down", "stopped"} : Dies(p, end)
        BY <3>1 DEF Crash, Ended
      <4>2. QED
        BY <2>5, <4>1, DiesCopies
    <3>2. QED
      BY <2>3, <2>5, <3>1, TimeoutCopies, LinkCopies DEF Fault
  <2>6. ASSUME NEW p \in Processes, Terminate(p), UNCHANGED faults PROVE SentInv' /\ CopiesInv'
    <3>1. CASE phase[p] = "down" \/ (p # Api /\ InInitDb(p))
      <4>1. Dies(p, "stopped") /\ phase[p] \in Early
        BY <2>6, <3>1 DEF Terminate, InInitDb, Early
      <4>2. QED
        BY <2>6, <4>1, DiesCopies
    <3>2. QED
      BY <2>1, <2>6, <3>1 DEF Terminate, loopVars
  <2>7. ASSUME NEW p \in Processes, Up(p), UNCHANGED faults PROVE SentInv' /\ CopiesInv'
    BY <2>3, <2>7 DEF Up
  <2>8. QED
    BY <2>2, <2>4, <2>5, <2>6, <2>7, AcceptCopies DEF Next
<1>3. QED
  BY <1>1, <1>2, SchemaInvHolds, HandsInvHolds, PTL DEF Safety

(* Without a fault no worker works twice on the same message, however      *)
(* often the processes are stopped and started again, and each fault       *)
(* repeats at most one piece of work (GracefulStop of run life).           *)
THEOREM StopsAreGraceful == Safety => []GracefulStop
<1>1. SchemaInv /\ HandsInv /\ CopiesInv => GracefulStop
  <2> SUFFICES ASSUME SchemaInv, HandsInv, CopiesInv,
                      NEW q \in Range(Queues), NEW o \in Orders
               PROVE  done[q][o] <= 1 + faults
    BY DEF GracefulStop
  <2>1. IsFiniteSet(CopiesOut(q, o)) /\ Cardinality(CopiesOut(q, o)) + done[q][o] <= 1 + faults
    BY DEF CopiesInv, CopiesOK
  <2>2. Cardinality(CopiesOut(q, o)) \in Nat
    BY <2>1, FS_CardinalityType
  <2>3. done[q][o] \in Nat /\ faults \in Nat
    BY DEF SchemaInv, SchemaTypes, HandsInv, DeliveryTypes
  <2>4. QED
    BY <2>1, <2>2, <2>3
<1>2. QED
  BY <1>1, SchemaInvHolds, HandsInvHolds, CopiesInvHolds, PTL
=============================================================================
