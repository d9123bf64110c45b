----------------------------- MODULE MCRunLoop -----------------------------
(* The order service with a payment and a notification worker.             *)
EXTENDS RunLoop

CONSTANTS api, pay, notify, o1

MCTables == <<"notifications", "orders">>
MCQueues == <<"payment", "notification">>
MCRole   == [p \in {pay, notify} |-> IF p = pay THEN "payment" ELSE "notification"]
=============================================================================
