--------------------------- MODULE OrderLifecycle ---------------------------
(***************************************************************************)
(* What the system promises about one order's status, from the comments of *)
(* OrderStatus in common/enums.py: PENDING, PAID, CONFIRMED and            *)
(* DRIVER_ASSIGNED in this order, or FAILED from PENDING.  DRIVER_ASSIGNED *)
(* and FAILED are terminal.                                                *)
(***************************************************************************)
CONSTANT Orders

VARIABLE status   \* status[o]; "none" before the order is accepted

Lifecycle == {<<"none", "PENDING">>, <<"PENDING", "PAID">>, <<"PENDING", "FAILED">>,
              <<"PAID", "CONFIRMED">>, <<"CONFIRMED", "DRIVER_ASSIGNED">>}

Init == status = [o \in Orders |-> "none"]

Advance(o) ==
  \E s \in Lifecycle :
    /\ status[o] = s[1]
    /\ status' = [status EXCEPT ![o] = s[2]]

Next == \E o \in Orders : Advance(o)

Spec == Init /\ [][Next]_status
=============================================================================
