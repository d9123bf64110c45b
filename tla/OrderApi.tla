------------------------------ MODULE OrderApi ------------------------------
(***************************************************************************)
(* create_order of api/routes.py.  Every request draws a fresh order id,   *)
(* so one request per element of Orders is modelled.  A request refused    *)
(* before its insert (validation, publisher not connected) leaves no trace *)
(* and is left out, as are the read-only endpoints.                        *)
(***************************************************************************)
EXTENDS Database

VARIABLE api   \* api[o]: where the request for order o is

ApiLabels == {"new", "inserted", "published", "accepted", "rejected"}

Created(o) == [order |-> o, type |-> "order.created"]

(* session.flush(): the row is written but not visible to anyone else.     *)
ApiInsert(o) ==
  /\ api[o] = "new"
  /\ api' = [api EXCEPT ![o] = "inserted"]
  /\ UNCHANGED <<brokerVars, dbVars>>

(* publish_event, confirmed by the broker, inside the open transaction.    *)
ApiPublish(o) ==
  /\ api[o] = "inserted"
  /\ queue' = Published(Created(o))
  /\ api' = [api EXCEPT ![o] = "published"]
  /\ UNCHANGED <<retry, dead, dbVars>>

Placed(o) == [orders EXCEPT ![o] = NewOrder]

(* session.commit(), then 201.                                             *)
ApiCommit(o) ==
  /\ api[o] = "published"
  /\ orders' = Placed(o)
  /\ api' = [api EXCEPT ![o] = "accepted"]
  /\ UNCHANGED <<brokerVars, notifications, processed_events>>

(* The publish raises, or the API dies around it: rolled back, 503.        *)
ApiPublishFails(o) ==
  /\ api[o] = "inserted"
  /\ queue' \in MaybePublished(Created(o))
  /\ api' = [api EXCEPT ![o] = "rejected"]
  /\ UNCHANGED <<retry, dead, dbVars>>

(* The commit raises, or the API dies around it: 503, and the row is there *)
(* or is not.                                                              *)
ApiCommitFails(o) ==
  /\ api[o] = "published"
  /\ orders' \in {orders, Placed(o)}
  /\ api' = [api EXCEPT ![o] = "rejected"]
  /\ UNCHANGED <<brokerVars, notifications, processed_events>>

ApiInit   == api = [o \in Orders |-> "new"]
ApiTypeOK == api \in [Orders -> ApiLabels]
=============================================================================
