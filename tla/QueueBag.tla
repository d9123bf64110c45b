------------------------------ MODULE QueueBag ------------------------------
(***************************************************************************)
(* A first-in-first-out queue of records with a message, seen as the bag   *)
(* of the messages in it.                                                  *)
(***************************************************************************)
EXTENDS Sequences, FiniteSets

(* Where message m stands in queue s.                                      *)
Places(s, m) == {k \in DOMAIN s : s[k].message = m}

Copies(s, m) == Cardinality(Places(s, m))

MessagesIn(s) == {s[k].message : k \in DOMAIN s}

BagOf(s) == [m \in MessagesIn(s) |-> Copies(s, m)]
=============================================================================
