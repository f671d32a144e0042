----------------------------- MODULE MCPayments -----------------------------
(***************************************************************************)
(* Instances of Payments for TLC: one shipment that may be paid by two     *)
(* intents.                                                                *)
(***************************************************************************)
EXTENDS Payments, TLC

CONSTANTS s1, i1, i2, r1, r2

MCIntentOf == i1 :> s1 @@ i2 :> s1

Symmetry == Permutations(Intents) \union Permutations(Requests)

\* A success webhook that arrives after a refund makes the intent refundable
\* again: MaxRefunds is enough to see a second refund.
MaxRefunds == 2

BoundedNext == Next /\ \A i \in Intents : refunds'[i] <= MaxRefunds

BoundedSpec == Init /\ [][BoundedNext]_vars

-----------------------------------------------------------------------------
\* For liveness: r1 serves the customer, one call at a time, and r2 the
\* provider's webhooks, one at a time too.  The customer stays interested: the
\* shipment is not moved by anybody else.  No card is declined, so the provider
\* reports no failure.
Quiet ==
  \/ CustomerCall(r1)
  \/ Webhook(r2)
  \/ pc[r2] = "idle" /\ Ignored
  \/ \E r \in Requests : Proceed(r)
  \/ \E i \in Intents : Pay(i)

\* The news of one payment: the provider sends it until it is answered.
News(i) == WebhookCall(r2, i, "succeeded") \/ (pc[r2] = "idle" /\ WebhookIgnored(i))

\* A handler that has started goes on.  Every success in `sent` is sent again and
\* again; one that was answered has left `sent`, and the fairness asks nothing.
Served ==
  /\ \A r \in Requests : WF_vars(Proceed(r))
  /\ \A i \in Intents : SF_vars(News(i))

\* The process may end under a handler.
CrashSpec ==
  Init /\ [][Quiet \/ \E r \in Requests : Abort(r)]_vars /\ Served

\* A card may be declined before the customer pays with another, and the
\* webhook of that failure comes whenever it likes.
LateSpec ==
  Init /\ [][Quiet \/ \E i \in Intents : Decline(i)]_vars /\ Served
=============================================================================
