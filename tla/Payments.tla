------------------------------ MODULE Payments ------------------------------
(***************************************************************************)
(* PaymentsService: the customer of a draft shipment pays at an external   *)
(* provider; confirmPaymentIntent, verifyShipmentPayment (the return from  *)
(* the provider's page) and the provider's webhooks each bring the outcome *)
(* back, and the first one confirms the shipment.  Nothing locks a payment *)
(* intent: every handler reads, asks the provider and writes in separate   *)
(* statements, and others run between any two.  Webhooks arrive late, out  *)
(* of order and more than once; a crash loses a handler between two steps. *)
(***************************************************************************)
EXTENDS ShipmentStatus, Naturals

CONSTANTS
  Shipments,   \* shipments, drafts at first
  Intents,     \* payment intents that may be created
  IntentOf,    \* the shipment each intent pays for
  Requests,    \* handlers that may be in flight at once
  None         \* SQL NULL

ASSUME ConstantsAssumption ==
  /\ IntentOf \in [Intents -> Shipments]
  /\ None \notin Intents \union { "requires_confirmation", "processing", "succeeded",
                                  "failed", "refunded" }

VARIABLES
  status,      \* shipments.status
  confirmedBy, \* the intent in the shipment.confirmed event of each shipment
  intent,      \* payment_intents.status; None before the row exists
  refunds,     \* payment.refunded rows of payment_events
  paid,        \* the provider has the customer's money
  sent,        \* outcomes whose webhooks the provider repeats: no answer has reached it
  pc,          \* where each handler stands
  req          \* its intent and what it knows

shipment == << status, confirmedBy >>
payment  == << intent, refunds >>
provider == << paid, sent >>
handlers == << pc, req >>
vars     == << shipment, payment, provider, handlers >>

-----------------------------------------------------------------------------

PaymentStatus == { "requires_confirmation", "processing", "succeeded", "failed", "refunded" }
OpenStatus    == { "requires_confirmation", "processing" }
Outcomes      == { "succeeded", "failed" }

\* ok: what the provider answered, or, for a webhook, that the shipment was
\* still a draft when the handler read it.  hook: the provider's webhook waits
\* for this handler's answer.
RequestType == [ i : Intents, ok : BOOLEAN, hook : BOOLEAN ]

TypeOK ==
  /\ status      \in [Shipments -> Status]
  /\ confirmedBy \in [Shipments -> Intents \union {None}]
  /\ intent      \in [Intents -> PaymentStatus \union {None}]
  /\ refunds     \in [Intents -> Nat]
  /\ paid        \in [Intents -> BOOLEAN]
  /\ sent        \in [Intents -> SUBSET Outcomes]
  /\ pc  \in [Requests -> { "idle", "quoted", "read", "asking", "answered", "settled",
                            "confirming", "webhook", "webhook_failed" }]
  /\ req \in [Requests -> RequestType \union {None}]
  /\ \A r \in Requests : pc[r] # "idle" => req[r] \in RequestType

Init ==
  /\ status      = [s \in Shipments |-> "draft"]
  /\ confirmedBy = [s \in Shipments |-> None]
  /\ intent      = [i \in Intents |-> None]
  /\ refunds     = [i \in Intents |-> 0]
  /\ paid        = [i \in Intents |-> FALSE]
  /\ sent        = [i \in Intents |-> {}]
  /\ pc  = [r \in Requests |-> "idle"]
  /\ req = [r \in Requests |-> None]

Begin(r, at, i, ok, hook) ==
  /\ pc[r] = "idle"
  /\ pc'  = [pc  EXCEPT ![r] = at]
  /\ req' = [req EXCEPT ![r] = [ i |-> i, ok |-> ok, hook |-> hook ]]
  /\ UNCHANGED << shipment, payment, provider >>

Move(r, from, to) ==
  /\ pc[r] = from
  /\ pc' = [pc EXCEPT ![r] = to]

Finish(r) ==
  /\ pc'  = [pc  EXCEPT ![r] = "idle"]
  /\ req' = [req EXCEPT ![r] = None]

SetIntent(i, to) == intent' = [intent EXCEPT ![i] = to]

\* A webhook is answered 200: the provider stops sending it, unless the answer is lost.
Answered(i, outcome) ==
  \E left \in { sent[i], sent[i] \ { outcome } } :
    sent' = [sent EXCEPT ![i] = left] /\ UNCHANGED paid

-----------------------------------------------------------------------------
(* createShipmentPaymentIntent *)

\* A draft without an open intent is quoted; an open one is returned as it is.
\* An intent that another handler is about to write has an identity of its own.
CreateCall(r, i) ==
  LET s == IntentOf[i] IN
  /\ intent[i] = None
  /\ \A q \in Requests : pc[q] = "quoted" => req[q].i # i
  /\ status[s] = "draft"
  /\ \A j \in Intents : IntentOf[j] = s => intent[j] \notin OpenStatus
  /\ Begin(r, "quoted", i, FALSE, FALSE)

\* The provider's status of a new session, as a payment_intents.status.
NewStatus_Raw == "unpaid"

NewStatus == "requires_confirmation"

\* The provider's session exists and the row is written.
CreateWrite(r) ==
  /\ pc[r] = "quoted"
  /\ SetIntent(req[r].i, NewStatus)
  /\ Finish(r)
  /\ UNCHANGED << shipment, refunds, provider >>

-----------------------------------------------------------------------------
(* confirmPaymentIntent and verifyShipmentPayment *)

\* confirmPaymentIntent refuses what failed and returns what succeeded.
ConfirmCall(r, i) ==
  /\ intent[i] \notin { None, "succeeded", "failed" }
  /\ Begin(r, "read", i, FALSE, FALSE)

\* verifyShipmentPayment looks for an open intent: the latest, here any.
VerifyCall(r, i) == intent[i] \in OpenStatus /\ Begin(r, "read", i, FALSE, FALSE)

MarkProcessing(r) ==
  /\ Move(r, "read", "asking")
  /\ SetIntent(req[r].i, "processing")
  /\ UNCHANGED << shipment, refunds, provider, req >>

\* The provider's confirmPayment answers whether it has the money now; an
\* error on the way is answered as a failure too.
ProviderAnswer_Always(i) == TRUE

ProviderAnswer(i) == paid[i]

AskProvider(r) ==
  /\ Move(r, "asking", "answered")
  /\ \E ok \in { FALSE, ProviderAnswer(req[r].i) } :
       req' = [req EXCEPT ![r] = [ i |-> req[r].i, ok |-> ok, hook |-> FALSE ]]
  /\ UNCHANGED << shipment, payment, provider >>

\* A payment the provider does not vouch for fails, and the handler throws.
WriteFailed(r) ==
  /\ pc[r] = "answered"
  /\ ~ req[r].ok
  /\ SetIntent(req[r].i, "failed")
  /\ Finish(r)
  /\ UNCHANGED << shipment, refunds, provider >>

WriteSucceeded(r) ==
  /\ Move(r, "answered", "settled")
  /\ req[r].ok
  /\ SetIntent(req[r].i, "succeeded")
  /\ UNCHANGED << shipment, refunds, provider, req >>

-----------------------------------------------------------------------------
(* handleWebhook *)

\* A success is ignored when the intent has succeeded already, and answered as processed.
Unsettled_Processing(i) == intent[i] = "processing"

Unsettled(i) == intent[i] # "succeeded"

WebhookCall(r, i, outcome) ==
  /\ outcome \in sent[i]
  /\ intent[i] # None
  /\ \/ /\ outcome = "succeeded"
        /\ Unsettled(i)
        /\ Begin(r, "webhook", i, status[IntentOf[i]] = "draft", TRUE)
     \/ /\ outcome = "failed"
        /\ Begin(r, "webhook_failed", i, FALSE, TRUE)

WebhookIgnored(i) ==
  /\ "succeeded" \in sent[i]
  /\ intent[i] # None /\ ~ Unsettled(i)
  /\ Answered(i, "succeeded")
  /\ UNCHANGED << shipment, payment, handlers >>

\* It confirms the shipment only if that was a draft when it was read.
WebhookSucceeded(r) ==
  /\ pc[r] = "webhook"
  /\ SetIntent(req[r].i, "succeeded")
  /\ IF req[r].ok
     THEN Move(r, "webhook", "settled") /\ UNCHANGED << req, provider >>
     ELSE Finish(r) /\ Answered(req[r].i, "succeeded")
  /\ UNCHANGED << shipment, refunds >>

\* A failure overwrites any status.
WebhookFailed(r) ==
  /\ pc[r] = "webhook_failed"
  /\ SetIntent(req[r].i, "failed")
  /\ Finish(r)
  /\ Answered(req[r].i, "failed")
  /\ UNCHANGED << shipment, refunds >>

-----------------------------------------------------------------------------
(* confirmAfterCardPayment *)

\* Before the transaction: the intent has succeeded and the shipment may be
\* confirmed, or the handler throws, and a webhook is not answered 200.
ConfirmCheck(r) ==
  LET i == req[r].i IN
  /\ pc[r] = "settled"
  /\ IF intent[i] = "succeeded" /\ CanTransition(status[IntentOf[i]], "pending_assignment")
     THEN Move(r, "settled", "confirming") /\ UNCHANGED req
     ELSE Finish(r)
  /\ UNCHANGED << shipment, payment, provider >>

\* Its transaction looks at the locked shipment again: one that is waiting for
\* assignment already is returned as it is, any other is a conflict.
StillDraft_Unchecked(s) == TRUE

StillDraft(s) == status[s] = "draft"

ConfirmCommit(r) ==
  LET i == req[r].i
      s == IntentOf[i] IN
  /\ pc[r] = "confirming"
  /\ \/ /\ StillDraft(s)
        /\ status' = [status EXCEPT ![s] = "pending_assignment"]
        /\ confirmedBy' = [confirmedBy EXCEPT ![s] = i]
     \/ ~ StillDraft(s) /\ UNCHANGED shipment
  /\ Finish(r)
  /\ IF req[r].hook /\ status[s] \in { "draft", "pending_assignment" }
     THEN Answered(i, "succeeded")
     ELSE UNCHANGED provider
  /\ UNCHANGED payment

-----------------------------------------------------------------------------
(* Shipments: cancellation, with its refund, and everything else *)

Refundable(s) == { i \in Intents : IntentOf[i] = s /\ intent[i] = "succeeded" }

\* refundCustomerInTransaction: one succeeded intent, the latest.
Refund(i) ==
  /\ SetIntent(i, "refunded")
  /\ refunds' = [refunds EXCEPT ![i] = @ + 1]

\* The refund belongs to a shipment that was paid before it was cancelled.
RefundOnCancel_Always(s) == Refundable(s) # {}

RefundOnCancel(s) == status[s] \in PAID_CANCELLATION_STATUSES /\ Refundable(s) # {}

Cancel(s) ==
  /\ CanTransition(status[s], "cancelled")
  /\ status' = [status EXCEPT ![s] = "cancelled"]
  /\ IF RefundOnCancel(s) THEN \E i \in Refundable(s) : Refund(i) ELSE UNCHANGED payment
  /\ UNCHANGED << confirmedBy, provider, handlers >>

CancelAgain(s) ==
  /\ status[s] = "cancelled"
  /\ \E i \in Refundable(s) : Refund(i)
  /\ UNCHANGED << shipment, provider, handlers >>

\* Assignment, the driver's steps, completion and the administrator's
\* override move the shipment along the table and touch no payment.
MoveShipment(s, to) ==
  /\ CanTransition(status[s], to)
  /\ status' = [status EXCEPT ![s] = to]
  /\ UNCHANGED << confirmedBy, payment, provider, handlers >>

-----------------------------------------------------------------------------
(* The provider, and crashes *)

\* The customer pays on the provider's page, whatever became of the shipment.
Pay(i) ==
  /\ intent[i] # None /\ ~ paid[i]
  /\ paid' = [paid EXCEPT ![i] = TRUE]
  /\ sent' = [sent EXCEPT ![i] = @ \union { "succeeded" }]
  /\ UNCHANGED << shipment, payment, handlers >>

\* A declined card: the page stays open for another attempt.
Decline(i) ==
  /\ intent[i] # None /\ ~ paid[i]
  /\ "failed" \notin sent[i]
  /\ sent' = [sent EXCEPT ![i] = @ \union { "failed" }]
  /\ UNCHANGED << paid, shipment, payment, handlers >>

\* The process dies, or a step throws: the rest of the handler never runs.
Abort(r) == pc[r] # "idle" /\ Finish(r) /\ UNCHANGED << shipment, payment, provider >>

-----------------------------------------------------------------------------

Proceed(r) ==
  \/ CreateWrite(r)
  \/ MarkProcessing(r) \/ AskProvider(r) \/ WriteFailed(r) \/ WriteSucceeded(r)
  \/ WebhookSucceeded(r) \/ WebhookFailed(r)
  \/ ConfirmCheck(r) \/ ConfirmCommit(r)

CustomerCall(r) == \E i \in Intents : CreateCall(r, i) \/ ConfirmCall(r, i) \/ VerifyCall(r, i)

Webhook(r) == \E i \in Intents, outcome \in Outcomes : WebhookCall(r, i, outcome)

Ignored == \E i \in Intents : WebhookIgnored(i)

World ==
  \/ \E s \in Shipments : Cancel(s)
  \/ \E s \in Shipments : CancelAgain(s)
  \/ \E s \in Shipments, to \in Status : MoveShipment(s, to)
  \/ \E i \in Intents : Pay(i)
  \/ \E i \in Intents : Decline(i)

Next ==
  \/ \E r \in Requests : CustomerCall(r)
  \/ \E r \in Requests : Webhook(r)
  \/ Ignored
  \/ \E r \in Requests : Proceed(r)
  \/ \E r \in Requests : Abort(r)
  \/ World

Spec == Init /\ [][Next]_vars

-----------------------------------------------------------------------------
(* Properties *)

\* No intent succeeds, and none is refunded, without the provider having the
\* money, whichever of the three ways brought the news.
SucceededIsPaid ==
  \A i \in Intents :
    intent[i] \in { "succeeded", "refunded" } \/ refunds[i] > 0 => paid[i]

\* The payment named in a shipment's confirmation was made for that shipment,
\* and a shipment that names one is a draft no more.
ConfirmedIsPaid ==
  \A s \in Shipments :
    confirmedBy[s] # None =>
      /\ IntentOf[confirmedBy[s]] = s
      /\ paid[confirmedBy[s]]
      /\ status[s] # "draft"

\* A refund is only given for a cancelled shipment that was confirmed: a
\* cancelled draft keeps no money unless a payment arrives afterwards.
RefundIsLate ==
  [][ \A i \in Intents :
        refunds'[i] > refunds[i] =>
          status[IntentOf[i]] \in PAID_CANCELLATION_STATUSES \union { "cancelled" } ]_vars

\* Whatever order outcomes arrive in, a shipment only moves along the table:
\* a late payment never revives a cancelled one.
StatusFollowsTable ==
  [][ \A s \in Shipments : status'[s] # status[s] => CanTransition(status[s], status'[s]) ]_vars

\* A paid draft does not stay a draft: whichever handler brings the news of the
\* money, one confirms the shipment.
PaidLeavesDraft ==
  \A i \in Intents :
    paid[i] /\ status[IntentOf[i]] = "draft" ~> status[IntentOf[i]] # "draft"
=============================================================================
