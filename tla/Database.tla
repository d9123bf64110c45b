------------------------------ MODULE Database ------------------------------
(***************************************************************************)
(* The PostgreSQL tables of common/models.py.  Transactions are READ       *)
(* COMMITTED: the variables hold committed rows only, a read sees the      *)
(* latest commit, and an UPDATE overwrites without comparing versions.     *)
(* The timestamps and the descriptive columns of an order are left out.    *)
(***************************************************************************)
EXTENDS Messaging

Statuses == {"PENDING", "PAID", "CONFIRMED", "DRIVER_ASSIGNED", "FAILED"}

VARIABLES
  orders,            \* orders[o]; status "none" means there is no row
  notifications,     \* events with a row in notifications (key is unique)
  processed_events   \* the idempotency ledger, which is also the outbox

dbVars == <<orders, notifications, processed_events>>

(* payment_id and driver_id are random tokens: what is kept is how often a *)
(* token was written to the column, 0 for NULL.                            *)
OrderRow == [status : Statuses \cup {"none"}, payment_id : Nat, driver_id : Nat]
NoOrder  == [status |-> "none", payment_id |-> 0, driver_id |-> 0]
NewOrder == [NoOrder EXCEPT !.status = "PENDING"]

LedgerRow == [event : Event, worker : Workers, outgoing : SUBSET Event]

Rows(w, e)      == {r \in processed_events : r.worker = w /\ r.event = e}
Processed(w, e) == Rows(w, e) # {}
Stored(w, e)    == UNION {r.outgoing : r \in Rows(w, e)}

DbInit ==
  /\ orders = [o \in Orders |-> NoOrder]
  /\ notifications = {}
  /\ processed_events = {}

DbTypeOK ==
  /\ orders \in [Orders -> OrderRow]
  /\ notifications \subseteq Event
  /\ processed_events \subseteq LedgerRow
=============================================================================
