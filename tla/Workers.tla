------------------------------ MODULE Workers ------------------------------
(***************************************************************************)
(* What the process() methods of the four concrete workers decide, as      *)
(* functions of the order status they read.  The payment worker expects    *)
(* PENDING, the restaurant PAID and the delivery worker CONFIRMED; any     *)
(* other status makes them return no outgoing event and change nothing.    *)
(* The notification worker reads no order: it stores one row per event.    *)
(***************************************************************************)
EXTENDS Database

CONSTANTS
  Behavior,      \* Behavior[o]: payment_behavior the client asked for
  FailureMode    \* settings.payment_failure_mode

Behaviors == {"auto", "never_fail", "always_fail", "fail_twice"}

ASSUME BehaviorAssumption == Behavior \in [Orders -> Behaviors]

Chain == {"payment", "restaurant", "delivery"}

Expected   == [payment |-> "PENDING", restaurant |-> "PAID", delivery |-> "CONFIRMED"]
NextStatus == [payment |-> "PAID", restaurant |-> "CONFIRMED",
               delivery |-> "DRIVER_ASSIGNED"]
Emits      == [payment |-> "order.paid", restaurant |-> "order.confirmed",
               delivery |-> "order.driver.assigned"]

(* The results a simulated payment may have; "random" (and anything        *)
(* unknown) draws a number.                                                *)
Simulated(mode, attempt) ==
  CASE mode = "always_fail" -> {TRUE}
    [] mode = "fail_twice"  -> {attempt <= 2}
    [] mode = "never_fail"  -> {FALSE}
    [] OTHER                -> BOOLEAN

ShouldFail(o, attempt) ==
  Simulated(IF Behavior[o] = "auto" THEN FailureMode ELSE Behavior[o], attempt)

(* Mutant: a missing row is no reason to come back.                        *)
NotReadyIgnored(w, status) == FALSE

(* UpstreamNotReady: only the payment worker treats a missing row as early. *)
NotReady(w, status) == w = "payment" /\ status = "none"

Proceeds(w, status) == w \in Chain /\ status = Expected[w]

Outgoing(w, status, e) ==
  IF Proceeds(w, status) THEN {[order |-> e.order, type |-> Emits[w]]} ELSE {}

(* The row the transaction writes: the status column is overwritten and a  *)
(* fresh token stored.                                                     *)
Advanced(w, row) ==
  [status     |-> NextStatus[w],
   payment_id |-> row.payment_id + (IF w = "payment" THEN 1 ELSE 0),
   driver_id  |-> row.driver_id + (IF w = "delivery" THEN 1 ELSE 0)]
=============================================================================
