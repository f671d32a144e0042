----------------------------- MODULE MCLiveness -----------------------------
(***************************************************************************)
(* What must eventually happen, in one run: the assignments of             *)
(* MCShipmentLifecycle and, beside them, the payments of MCPayments.  A    *)
(* behaviour is one of one of them while the other stands still at its     *)
(* initial state, where no handler has started and fairness asks for       *)
(* nothing.                                                                *)
(***************************************************************************)
EXTENDS MCShipmentLifecycle

CONSTANT i2

VARIABLES part, paying, confirmedBy, paymentIntent, refunds, paid, sent, step, job

paymentVars == << paying, confirmedBy, paymentIntent, refunds, paid, sent, step, job >>

\* One shipment with two intents.
Payment ==
  INSTANCE MCPayments
    WITH Shipments <- { s1 }, Intents <- { i1, i2 }, IntentOf <- i1 :> s1 @@ i2 :> s1,
         status <- paying, intent <- paymentIntent, pc <- step, req <- job

LiveInit == part \in { "payments", "shipments" } /\ Init /\ Payment!Init

LiveNext ==
  \/ part = "shipments" /\ InService /\ UNCHANGED << part, paymentVars >>
  \/ part = "payments"  /\ Payment!Quiet /\ UNCHANGED << part, vars >>

LiveSpec ==
  LiveInit /\ [][LiveNext]_<< part, vars, paymentVars >> /\ Fairness /\ Payment!Served

-----------------------------------------------------------------------------
\* A paid draft does not stay a draft, as long as no handler is lost (Payments).
PaidLeavesDraft == Payment!PaidLeavesDraft
=============================================================================
