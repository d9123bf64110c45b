---------------------------- MODULE DelayedRetry ----------------------------
(***************************************************************************)
(* What a worker expects of its retry queue, and what Expire of Messaging  *)
(* assumes: a message put aside comes back, once and unchanged, however    *)
(* many others are put aside before or after it ("delayed retries without  *)
(* blocking any worker", common/messaging.py).                             *)
(***************************************************************************)
EXTENDS BagsExt

CONSTANT Message

VARIABLES
  ready,    \* bag of messages in the work queue
  aside     \* bag of messages in the retry queue

vars == <<ready, aside>>

NoMessages == [m \in {} |-> 0]

Init == ready = NoMessages /\ aside = NoMessages

Arrive(m) == ready' = BagAdd(ready, m) /\ UNCHANGED aside

Take(m) == m \in DOMAIN ready /\ ready' = BagRemove(ready, m) /\ UNCHANGED aside

(* The copy m is published; the message it replaces is then acked, unless  *)
(* the worker dies in between.                                             *)
PutAside(m) ==
  /\ aside' = BagAdd(aside, m)
  /\ ready' = ready \/ \E original \in Message : ready' = BagRemove(ready, original)

ComeBack(m) ==
  /\ m \in DOMAIN aside
  /\ aside' = BagRemove(aside, m)
  /\ ready' = BagAdd(ready, m)

Next == \E m \in Message : Arrive(m) \/ Take(m) \/ PutAside(m) \/ ComeBack(m)

Safety == Init /\ [][Next]_vars
Spec   == Safety /\ \A m \in Message : WF_vars(ComeBack(m))
=============================================================================
