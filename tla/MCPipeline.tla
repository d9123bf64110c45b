----------------------------- MODULE MCPipeline -----------------------------
(***************************************************************************)
(* Small instances of Pipeline for TLC.                                    *)
(***************************************************************************)
EXTENDS Claims

CONSTANTS o1, p1, p2, r1, r2, d1, n1, n2

Worker(i) == CASE i \in {p1, p2} -> "payment"
               [] i \in {r1, r2} -> "restaurant"
               [] i = d1         -> "delivery"
               [] i \in {n1, n2} -> "notification"

MCRole == [i \in Instances |-> Worker(i)]

Auto      == [o \in Orders |-> "auto"]
FailTwice == [o \in Orders |-> "fail_twice"]
=============================================================================
