------------------------------- MODULE Claims -------------------------------
(***************************************************************************)
(* What the documentation and the comments say of the pipeline and the     *)
(* code does not keep.  Each is the subject of a run that ends in a        *)
(* violation; README.md tells the story of each trace.                     *)
(***************************************************************************)
EXTENDS Pipeline

(* An event that was stored with committed work is never lost: it reached  *)
(* its consumers or a redelivery will still republish it (workers/base.py, *)
(* lines 13 and 272).  A publish failure after the commit consumes the     *)
(* retry budget, so the message can be dead-lettered instead.              *)
OutboxRecovered ==
  \A r \in processed_events : \A e \in r.outgoing :
    Reached(e) \/ Waiting(r.worker, r.event) \/ InHand(r.worker, r.event)

(* order.payment.failed is published for an order that is FAILED, never    *)
(* for one that was charged (workers/payment.py, line 5).  The hook        *)
(* publishes whatever status it reads.                                     *)
NoFalseFailureNotice ==
  \A o \in Orders :
    [order |-> o, type |-> "order.payment.failed"] \in notifications => orders[o].payment_id = 0

(* FAILED means that the payment failed (common/enums.py, line 13), and    *)
(* transitions are guarded by expected-status checks (ARCHITECTURE.md,     *)
(* line 91).  The hook checks a status it read before other instances of   *)
(* the payment worker could commit.                                        *)
FailedIsUncharged ==
  \A o \in Orders : orders[o].status = "FAILED" => orders[o].payment_id = 0

(* Only poison and messages that used up their retries or rechecks are     *)
(* dead-lettered (REPORT.md, lines 26-30).  An exception outside the try   *)
(* around process() dead-letters at once.                                  *)
OnlyExhaustedDeadLettered ==
  \A w \in Workers : \A m \in dead[w] :
    m.event = Poison \/ m.retry = MaxRetries \/ m.notready = NotReadyMax

(* A payment that exhausted its retries leaves its order FAILED            *)
(* (ARCHITECTURE.md, line 32).  A hook that fails is rolled back and never *)
(* run again, and the order stays PENDING.                                 *)
ExhaustedMeansFailed ==
  \A m \in dead["payment"] :
    m.event # Poison /\ m.retry = MaxRetries /\ m.notready = 0 =>
      orders[m.event.order].status # "PENDING"
=============================================================================
