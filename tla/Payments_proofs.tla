-------------------------- MODULE Payments_proofs --------------------------
(***************************************************************************)
(* Theorems about Payments, for any number of shipments, intents and       *)
(* handlers in flight.                                                     *)
(***************************************************************************)
EXTENDS Payments, TLAPS

\* The handlers that are about to act on the news of a payment.
HasNews(r) == pc[r] \in { "settled", "confirming", "webhook" } \/ (pc[r] = "answered" /\ req[r].ok)

\* What a handler carries across its steps, nobody checks again: it is true
\* because money never goes back to the provider's page.
HandlersOK ==
  /\ pc  \in [Requests -> { "idle", "quoted", "read", "asking", "answered", "settled",
                            "confirming", "webhook", "webhook_failed" }]
  /\ req \in [Requests -> RequestType \union {None}]
  /\ \A r \in Requests : pc[r] # "idle" => req[r] \in RequestType
  /\ \A r \in Requests : HasNews(r) => paid[req[r].i]

NewsIsTrue == \A i \in Intents : "succeeded" \in sent[i] => paid[i]

TablesOK ==
  /\ status      \in [Shipments -> Status]
  /\ confirmedBy \in [Shipments -> Intents \union {None}]
  /\ intent      \in [Intents -> PaymentStatus \union {None}]
  /\ refunds     \in [Intents -> Nat]
  /\ paid        \in [Intents -> BOOLEAN]
  /\ sent        \in [Intents -> SUBSET Outcomes]

Inv == TablesOK /\ HandlersOK /\ NewsIsTrue /\ SucceededIsPaid /\ ConfirmedIsPaid

LEMMA InvTypeOK == Inv => TypeOK
  BY DEF Inv, TablesOK, HandlersOK, TypeOK

LEMMA InitInv == Init => Inv
<1> SUFFICES ASSUME Init PROVE Inv
  OBVIOUS
<1>1. TablesOK
  BY DEF Init, TablesOK, Status
<1>2. HandlersOK
  BY DEF Init, HandlersOK, HasNews
<1>3. NewsIsTrue
  BY DEF Init, NewsIsTrue
<1>4. SucceededIsPaid
  BY ConstantsAssumption DEF Init, SucceededIsPaid
<1>5. ConfirmedIsPaid
  BY DEF Init, ConfirmedIsPaid
<1>6. QED
  BY <1>1, <1>2, <1>3, <1>4, <1>5 DEF Inv

-----------------------------------------------------------------------------
(* What handlers do to pc and req *)

LEMMA RequestIntent ==
  ASSUME HandlersOK, NEW r \in Requests, pc[r] # "idle"
  PROVE  /\ req[r] \in RequestType /\ req[r].i \in Intents /\ req[r].ok \in BOOLEAN
         /\ IntentOf[req[r].i] \in Shipments
  BY ConstantsAssumption DEF HandlersOK, RequestType

LEMMA FinishKeeps ==
  ASSUME HandlersOK, NEW r \in Requests, Finish(r), UNCHANGED paid
  PROVE  HandlersOK'
  BY DEF HandlersOK, HasNews, Finish

LEMMA BeginKeeps ==
  ASSUME HandlersOK, NEW r \in Requests, NEW i \in Intents, NEW ok \in BOOLEAN,
         NEW at \in { "quoted", "read", "webhook", "webhook_failed" },
         NEW hook \in BOOLEAN, Begin(r, at, i, ok, hook),
         at = "webhook" => paid[i]
  PROVE  HandlersOK'
<1> DEFINE q == [ i |-> i, ok |-> ok, hook |-> hook ]
<1>1. q \in RequestType /\ q.i = i
  BY DEF RequestType
<1>2. /\ pc' = [pc EXCEPT ![r] = at] /\ req' = [req EXCEPT ![r] = q] /\ paid' = paid
  BY DEF Begin, provider
<1> HIDE DEF q
<1>3. QED
  BY <1>1, <1>2 DEF HandlersOK, HasNews

LEMMA MoveKeeps ==
  ASSUME HandlersOK, NEW r \in Requests, NEW from, from # "idle",
         NEW to \in { "asking", "settled", "confirming" },
         Move(r, from, to), UNCHANGED << paid, req >>,
         to # "asking" => paid[req[r].i]
  PROVE  HandlersOK'
  BY DEF HandlersOK, HasNews, Move

LEMMA AnswerKeeps ==
  ASSUME TablesOK, HandlersOK, NEW r \in Requests, AskProvider(r)
  PROVE  HandlersOK'
<1>1. req[r].i \in Intents
  BY RequestIntent DEF AskProvider, Move
<1>2. PICK ok \in { FALSE, paid[req[r].i] } :
        req' = [req EXCEPT ![r] = [ i |-> req[r].i, ok |-> ok, hook |-> FALSE ]]
  BY DEF AskProvider, ProviderAnswer
<1> DEFINE q == [ i |-> req[r].i, ok |-> ok, hook |-> FALSE ]
<1>3. paid' = paid /\ pc' = [pc EXCEPT ![r] = "answered"]
  BY DEF AskProvider, Move, provider
<1>4. ok \in BOOLEAN
  BY <1>1, <1>2 DEF TablesOK
<1>5. q \in RequestType /\ (q.ok => paid[q.i])
  BY <1>1, <1>2, <1>4 DEF RequestType
<1>6. req' = [req EXCEPT ![r] = q]
  BY <1>2
<1> HIDE DEF q
<1>7. QED
  BY <1>3, <1>5, <1>6 DEF HandlersOK, HasNews

-----------------------------------------------------------------------------
(* What the steps do to the tables *)

\* An answer to a webhook only makes the provider send less.
LEMMA AnsweredKeeps ==
  ASSUME TablesOK, NewsIsTrue, NEW i \in Intents, NEW outcome, Answered(i, outcome)
  PROVE  UNCHANGED paid /\ sent' \in [Intents -> SUBSET Outcomes] /\ NewsIsTrue'
<1>1. PICK left \in { sent[i], sent[i] \ { outcome } } :
        sent' = [sent EXCEPT ![i] = left] /\ UNCHANGED paid
  BY DEF Answered
<1>2. sent \in [Intents -> SUBSET Outcomes] /\ left \subseteq sent[i]
  BY <1>1 DEF TablesOK
<1>3. \A j \in Intents : sent'[j] \subseteq sent[j]
  BY <1>1, <1>2
<1>4. sent' \in [Intents -> SUBSET Outcomes]
  BY <1>1, <1>2
<1>5. NewsIsTrue'
  BY <1>1, <1>3 DEF NewsIsTrue
<1>6. QED
  BY <1>1, <1>4, <1>5

\* What a step may do to the provider: nothing, or answer one of its webhooks.
Told(i, outcome) == UNCHANGED provider \/ Answered(i, outcome)

LEMMA ToldKeeps ==
  ASSUME Inv, NEW i \in Intents, NEW outcome, Told(i, outcome)
  PROVE  UNCHANGED paid /\ sent' \in [Intents -> SUBSET Outcomes] /\ NewsIsTrue'
<1>1. CASE UNCHANGED provider
  BY <1>1 DEF Inv, TablesOK, NewsIsTrue, provider
<1>2. CASE Answered(i, outcome)
  BY <1>2, AnsweredKeeps DEF Inv
<1>3. QED
  BY <1>1, <1>2 DEF Told

\* A step that touches no table only has to keep the handlers right.
LEMMA ReadKeeps ==
  ASSUME Inv, HandlersOK', UNCHANGED << shipment, payment, provider >>
  PROVE  Inv'
  BY DEF Inv, TablesOK, NewsIsTrue, SucceededIsPaid, ConfirmedIsPaid, shipment, payment, provider

LEMMA TellKeeps ==
  ASSUME Inv, HandlersOK', UNCHANGED << shipment, payment >>,
         NEW i \in Intents, NEW outcome, Told(i, outcome)
  PROVE  Inv'
<1>1. UNCHANGED paid /\ sent' \in [Intents -> SUBSET Outcomes] /\ NewsIsTrue'
  BY ToldKeeps
<1>2. QED
  BY <1>1 DEF Inv, TablesOK, SucceededIsPaid, ConfirmedIsPaid, shipment, payment

\* Writing a status other than succeeded or refunded needs no money.
LEMMA OpenOrFailKeeps ==
  ASSUME Inv, HandlersOK', NEW i \in Intents,
         NEW to \in { "requires_confirmation", "processing", "failed" },
         SetIntent(i, to), UNCHANGED << shipment, refunds >>,
         NEW outcome, Told(i, outcome)
  PROVE  Inv'
<1>0. UNCHANGED paid /\ sent' \in [Intents -> SUBSET Outcomes] /\ NewsIsTrue'
  BY ToldKeeps
<1>1. TablesOK'
  BY <1>0 DEF Inv, TablesOK, SetIntent, PaymentStatus, shipment
<1>2. SucceededIsPaid'
  BY <1>0 DEF Inv, TablesOK, SucceededIsPaid, SetIntent
<1>3. ConfirmedIsPaid'
  BY <1>0 DEF Inv, ConfirmedIsPaid, shipment
<1>4. QED
  BY <1>0, <1>1, <1>2, <1>3 DEF Inv

LEMMA SucceedKeeps ==
  ASSUME Inv, HandlersOK', NEW i \in Intents, paid[i],
         SetIntent(i, "succeeded"), UNCHANGED << shipment, refunds >>,
         NEW outcome, Told(i, outcome)
  PROVE  Inv'
<1>0. UNCHANGED paid /\ sent' \in [Intents -> SUBSET Outcomes] /\ NewsIsTrue'
  BY ToldKeeps
<1>1. TablesOK'
  BY <1>0 DEF Inv, TablesOK, SetIntent, PaymentStatus, shipment
<1>2. SucceededIsPaid'
  BY <1>0 DEF Inv, TablesOK, SucceededIsPaid, SetIntent
<1>3. ConfirmedIsPaid'
  BY <1>0 DEF Inv, ConfirmedIsPaid, shipment
<1>4. QED
  BY <1>0, <1>1, <1>2, <1>3 DEF Inv

LEMMA RefundKeeps ==
  ASSUME Inv, NEW s \in Shipments, NEW i \in Refundable(s), Refund(i)
  PROVE  /\ intent'  \in [Intents -> PaymentStatus \union {None}]
         /\ refunds' \in [Intents -> Nat]
         /\ \A j \in Intents :
              intent'[j] \in { "succeeded", "refunded" } \/ refunds'[j] > 0 => paid[j]
<1>1. i \in Intents /\ paid[i]
  BY DEF Inv, SucceededIsPaid, Refundable
<1>2. /\ intent' = [intent EXCEPT ![i] = "refunded"]
      /\ refunds' = [refunds EXCEPT ![i] = @ + 1]
  BY DEF Refund, SetIntent
<1>3. /\ intent'  \in [Intents -> PaymentStatus \union {None}]
      /\ refunds' \in [Intents -> Nat]
  BY <1>1, <1>2 DEF Inv, TablesOK, PaymentStatus
<1>4. ASSUME NEW j \in Intents, intent'[j] \in { "succeeded", "refunded" } \/ refunds'[j] > 0
      PROVE  paid[j]
  <2>1. CASE j = i
    BY <1>1, <2>1
  <2>2. CASE j # i
    <3>1. intent'[j] = intent[j] /\ refunds'[j] = refunds[j]
      BY <1>2, <2>2 DEF Inv, TablesOK
    <3>2. QED
      BY <1>4, <3>1 DEF Inv, SucceededIsPaid
  <2>3. QED
    BY <2>1, <2>2
<1>5. QED
  BY <1>3, <1>4

\* No edge of the table leads to draft, and none leaves the statuses.
LEMMA TableEdges ==
  ASSUME NEW from, NEW to, CanTransition(from, to)
  PROVE  to \in Status /\ to # "draft"
  BY DEF CanTransition, TRANSITIONS, Status

\* A move along the table forgets no confirmation.
LEMMA StatusMoveKeeps ==
  ASSUME Inv, NEW s \in Shipments, NEW to, CanTransition(status[s], to),
         status' = [status EXCEPT ![s] = to], UNCHANGED << confirmedBy, provider >>
  PROVE  status' \in [Shipments -> Status] /\ ConfirmedIsPaid'
<1>1. to \in Status /\ to # "draft"
  BY TableEdges
<1>2. QED
  BY <1>1 DEF Inv, TablesOK, ConfirmedIsPaid, provider

-----------------------------------------------------------------------------
(* One lemma per group of actions *)

LEMMA CallKeeps ==
  ASSUME Inv, NEW r \in Requests, CustomerCall(r) \/ Webhook(r)
  PROVE  Inv'
<1>1. ASSUME NEW i \in Intents, CreateCall(r, i) \/ ConfirmCall(r, i) \/ VerifyCall(r, i)
      PROVE  Inv'
  <2>1. PICK at \in { "quoted", "read" } : Begin(r, at, i, FALSE, FALSE)
    BY <1>1 DEF CreateCall, ConfirmCall, VerifyCall
  <2>2. HandlersOK'
    BY <2>1, BeginKeeps DEF Inv
  <2>3. QED
    BY <2>1, <2>2, ReadKeeps DEF Begin
<1>2. ASSUME NEW i \in Intents, NEW outcome \in Outcomes, WebhookCall(r, i, outcome)
      PROVE  Inv'
  <2>1. outcome = "succeeded" => paid[i]
    BY <1>2 DEF WebhookCall, Inv, NewsIsTrue
  <2>2. PICK at \in { "webhook", "webhook_failed" }, ok \in BOOLEAN :
          Begin(r, at, i, ok, TRUE) /\ (at = "webhook" => paid[i])
    BY <1>2, <2>1 DEF WebhookCall
  <2>3. HandlersOK'
    BY <2>2, BeginKeeps DEF Inv
  <2>4. QED
    BY <2>2, <2>3, ReadKeeps DEF Begin
<1>3. QED
  BY <1>1, <1>2 DEF CustomerCall, Webhook

LEMMA ProceedKeeps ==
  ASSUME Inv, NEW r \in Requests, Proceed(r)
  PROVE  Inv'
<1>0. HandlersOK /\ TablesOK
  BY DEF Inv
<1>1. CASE CreateWrite(r)
  <2>1. req[r].i \in Intents /\ HandlersOK'
    BY <1>0, <1>1, RequestIntent, FinishKeeps DEF CreateWrite, provider
  <2>2. QED
    BY <1>1, <2>1, OpenOrFailKeeps DEF CreateWrite, NewStatus, Told
<1>2. CASE MarkProcessing(r)
  <2>1. req[r].i \in Intents /\ HandlersOK'
    BY <1>0, <1>2, RequestIntent, MoveKeeps DEF MarkProcessing, Move, provider
  <2>2. QED
    BY <1>2, <2>1, OpenOrFailKeeps DEF MarkProcessing, Told
<1>3. CASE AskProvider(r)
  BY <1>0, <1>3, AnswerKeeps, ReadKeeps DEF AskProvider
<1>4. CASE WriteFailed(r)
  <2>1. req[r].i \in Intents /\ HandlersOK'
    BY <1>0, <1>4, RequestIntent, FinishKeeps DEF WriteFailed, provider
  <2>2. QED
    BY <1>4, <2>1, OpenOrFailKeeps DEF WriteFailed, Told
<1>5. CASE WriteSucceeded(r)
  <2>1. req[r].i \in Intents /\ paid[req[r].i]
    BY <1>0, <1>5, RequestIntent DEF WriteSucceeded, Move, HandlersOK, HasNews
  <2>2. HandlersOK'
    BY <1>0, <1>5, <2>1, MoveKeeps DEF WriteSucceeded, provider
  <2>3. QED
    BY <1>5, <2>1, <2>2, SucceedKeeps DEF WriteSucceeded, Told
<1>6. CASE WebhookSucceeded(r)
  <2>1. req[r].i \in Intents /\ paid[req[r].i]
    BY <1>0, <1>6, RequestIntent DEF WebhookSucceeded, HandlersOK, HasNews
  <2>2. Told(req[r].i, "succeeded")
    BY <1>6 DEF WebhookSucceeded, Told
  <2>3. UNCHANGED paid
    BY <2>1, <2>2, ToldKeeps
  <2>4. HandlersOK'
    <3>1. CASE Move(r, "webhook", "settled") /\ UNCHANGED req
      BY <1>0, <2>1, <2>3, <3>1, MoveKeeps
    <3>2. CASE Finish(r)
      BY <1>0, <2>3, <3>2, FinishKeeps
    <3>3. QED
      BY <1>6, <3>1, <3>2 DEF WebhookSucceeded
  <2>5. QED
    BY <1>6, <2>1, <2>2, <2>4, SucceedKeeps DEF WebhookSucceeded
<1>7. CASE WebhookFailed(r)
  <2>1. req[r].i \in Intents /\ Told(req[r].i, "failed")
    BY <1>0, <1>7, RequestIntent DEF WebhookFailed, Told
  <2>2. HandlersOK'
    BY <1>0, <1>7, <2>1, ToldKeeps, FinishKeeps DEF WebhookFailed
  <2>3. QED
    BY <1>7, <2>1, <2>2, OpenOrFailKeeps DEF WebhookFailed
<1>8. CASE ConfirmCheck(r)
  <2>1. paid[req[r].i]
    BY <1>0, <1>8 DEF ConfirmCheck, HandlersOK, HasNews
  <2>2. HandlersOK'
    <3>1. CASE Move(r, "settled", "confirming") /\ UNCHANGED req
      BY <1>0, <1>8, <2>1, <3>1, MoveKeeps DEF ConfirmCheck, provider
    <3>2. CASE Finish(r)
      BY <1>0, <1>8, <3>2, FinishKeeps DEF ConfirmCheck, provider
    <3>3. QED
      BY <1>8, <3>1, <3>2 DEF ConfirmCheck
  <2>3. QED
    BY <1>8, <2>2, ReadKeeps DEF ConfirmCheck
<1>9. CASE ConfirmCommit(r)
  <2> DEFINE i == req[r].i
             s == IntentOf[i]
  <2>1. i \in Intents /\ s \in Shipments /\ paid[i]
    BY <1>0, <1>9, RequestIntent DEF ConfirmCommit, HandlersOK, HasNews
  <2>2. UNCHANGED payment /\ Told(i, "succeeded")
    BY <1>9 DEF ConfirmCommit, Told
  <2>3. UNCHANGED paid /\ sent' \in [Intents -> SUBSET Outcomes] /\ NewsIsTrue'
    BY <2>1, <2>2, ToldKeeps
  <2>4. HandlersOK'
    BY <1>0, <1>9, <2>3, FinishKeeps DEF ConfirmCommit
  <2>5. CASE UNCHANGED shipment
    BY <2>1, <2>2, <2>4, <2>5, TellKeeps
  <2>6. CASE /\ status' = [status EXCEPT ![s] = "pending_assignment"]
             /\ confirmedBy' = [confirmedBy EXCEPT ![s] = i]
    <3> HIDE DEF i
    <3>1. IntentOf[i] \in Shipments /\ i \in Intents /\ paid[i]
      BY <2>1
    <3>2. TablesOK'
      BY <2>2, <2>3, <2>6, <3>1 DEF Inv, TablesOK, Status, payment
    <3>3. SucceededIsPaid'
      BY <2>2, <2>3 DEF Inv, SucceededIsPaid, payment
    <3>4. ConfirmedIsPaid'
      BY <2>3, <2>6, <3>1 DEF Inv, TablesOK, ConfirmedIsPaid
    <3>5. QED
      BY <2>3, <2>4, <3>2, <3>3, <3>4 DEF Inv
  <2>7. QED
    BY <1>9, <2>5, <2>6 DEF ConfirmCommit
<1>10. QED
  BY <1>1, <1>2, <1>3, <1>4, <1>5, <1>6, <1>7, <1>8, <1>9 DEF Proceed

LEMMA ShipmentKeeps ==
  ASSUME Inv, NEW s \in Shipments,
         \/ Cancel(s) \/ CancelAgain(s)
         \/ \E to \in Status : MoveShipment(s, to)
  PROVE  Inv'
<1>1. UNCHANGED << provider, handlers >>
  BY DEF Cancel, CancelAgain, MoveShipment
<1>2. HandlersOK' /\ NewsIsTrue'
  BY <1>1 DEF Inv, HandlersOK, HasNews, NewsIsTrue, provider, handlers
<1>3. status' \in [Shipments -> Status] /\ ConfirmedIsPaid' /\ UNCHANGED confirmedBy
  <2>1. CASE UNCHANGED shipment
    BY <1>1, <2>1 DEF Inv, TablesOK, ConfirmedIsPaid, shipment, provider
  <2>2. ASSUME NEW to, CanTransition(status[s], to), status' = [status EXCEPT ![s] = to],
               UNCHANGED confirmedBy
        PROVE  status' \in [Shipments -> Status] /\ ConfirmedIsPaid'
    BY <1>1, <2>2, StatusMoveKeeps
  <2>3. QED
    BY <2>1, <2>2 DEF Cancel, CancelAgain, MoveShipment, shipment
<1>4. /\ intent'  \in [Intents -> PaymentStatus \union {None}]
      /\ refunds' \in [Intents -> Nat]
      /\ \A j \in Intents :
           intent'[j] \in { "succeeded", "refunded" } \/ refunds'[j] > 0 => paid[j]
  <2>1. CASE UNCHANGED payment
    BY <2>1 DEF Inv, TablesOK, SucceededIsPaid, payment
  <2>2. CASE \E i \in Refundable(s) : Refund(i)
    BY <2>2, RefundKeeps
  <2>3. QED
    BY <2>1, <2>2 DEF Cancel, CancelAgain, MoveShipment
<1>5. TablesOK' /\ SucceededIsPaid'
  BY <1>1, <1>3, <1>4 DEF Inv, TablesOK, SucceededIsPaid, provider
<1>6. QED
  BY <1>2, <1>3, <1>5 DEF Inv

\* Money only accumulates, and news of it follows.
LEMMA ProviderKeeps ==
  ASSUME Inv, NEW i \in Intents, Pay(i) \/ Decline(i)
  PROVE  Inv'
<1>1. UNCHANGED << shipment, payment, handlers >> /\ i \in Intents
  BY DEF Pay, Decline
<1>2. /\ paid' \in [Intents -> BOOLEAN] /\ sent' \in [Intents -> SUBSET Outcomes]
      /\ \A j \in Intents : paid[j] => paid'[j]
      /\ NewsIsTrue'
  <2>1. paid \in [Intents -> BOOLEAN] /\ sent \in [Intents -> SUBSET Outcomes] /\ NewsIsTrue
    BY DEF Inv, TablesOK
  <2>2. CASE Pay(i)
    BY <2>1, <2>2 DEF NewsIsTrue, Pay, Outcomes
  <2>3. CASE Decline(i)
    <3>1. /\ paid' = paid
          /\ sent' = [sent EXCEPT ![i] = sent[i] \union { "failed" }]
      BY <2>3 DEF Decline
    <3>2. sent' \in [Intents -> SUBSET Outcomes]
      BY <2>1, <3>1 DEF Outcomes
    <3>3. \A j \in Intents : "succeeded" \in sent'[j] => "succeeded" \in sent[j]
      BY <2>1, <3>1
    <3>4. QED
      BY <2>1, <3>1, <3>2, <3>3 DEF NewsIsTrue
  <2>4. QED
    BY <2>2, <2>3
<1>3. TablesOK'
  BY <1>1, <1>2 DEF Inv, TablesOK, shipment, payment
<1>4. \A r \in Requests : HasNews(r) => req[r].i \in Intents
  BY RequestIntent DEF Inv, HandlersOK, HasNews
<1>5. HandlersOK'
  BY <1>1, <1>2, <1>4 DEF Inv, HandlersOK, HasNews, handlers
<1>6. SucceededIsPaid' /\ ConfirmedIsPaid'
  BY <1>1, <1>2 DEF Inv, TablesOK, SucceededIsPaid, ConfirmedIsPaid, shipment, payment
<1>7. QED
  BY <1>2, <1>3, <1>5, <1>6 DEF Inv

LEMMA NextInv == Inv /\ [Next]_vars => Inv'
<1> SUFFICES ASSUME Inv, [Next]_vars PROVE Inv'
  OBVIOUS
<1>1. ASSUME NEW r \in Requests, CustomerCall(r) \/ Webhook(r) PROVE Inv'
  BY <1>1, CallKeeps
<1>2. ASSUME NEW r \in Requests, Proceed(r) PROVE Inv'
  BY <1>2, ProceedKeeps
<1>3. ASSUME NEW r \in Requests, Abort(r) PROVE Inv'
  BY <1>3, FinishKeeps, ReadKeeps DEF Inv, Abort, provider
<1>4. CASE World
  BY <1>4, ShipmentKeeps, ProviderKeeps DEF World
<1>5. ASSUME NEW i \in Intents, WebhookIgnored(i) PROVE Inv'
  <2>1. Told(i, "succeeded") /\ UNCHANGED << shipment, payment, handlers >>
    BY <1>5 DEF WebhookIgnored, Told
  <2>2. UNCHANGED paid
    BY <1>5, <2>1, ToldKeeps
  <2>3. HandlersOK'
    BY <2>1, <2>2 DEF Inv, HandlersOK, HasNews, handlers
  <2>4. QED
    BY <1>5, <2>1, <2>3, TellKeeps
<1>6. CASE UNCHANGED vars
  BY <1>6, ReadKeeps DEF Inv, HandlersOK, HasNews, vars, provider, handlers
<1>7. QED
  BY <1>1, <1>2, <1>3, <1>4, <1>5, <1>6 DEF Next, Ignored

LEMMA SpecInv == Spec => []Inv
  BY InitInv, NextInv, PTL DEF Spec

-----------------------------------------------------------------------------
(* Theorems *)

\* Every reachable state has the types the handlers rely on: a handler in
\* flight has its intent.
THEOREM TypeCorrect == Spec => []TypeOK
  BY SpecInv, InvTypeOK, PTL

\* However outcomes interleave, no intent succeeds or is refunded without the
\* provider's money: confirmPaymentIntent, verifyShipmentPayment, handleWebhook.
THEOREM SuccessIsPaid == Spec => []SucceededIsPaid
<1>1. Inv => SucceededIsPaid
  BY DEF Inv
<1>2. QED
  BY SpecInv, <1>1, PTL

\* A shipment's confirmation names a paid intent of its own
\* (confirmAfterCardPayment), whoever confirms it.
THEOREM MoneyFirst == Spec => []ConfirmedIsPaid
<1>1. Inv => ConfirmedIsPaid
  BY DEF Inv
<1>2. QED
  BY SpecInv, <1>1, PTL

\* A refund is only given for a shipment that has left draft by being paid for
\* or that has been cancelled: cancel and refundCustomerInTransaction.
THEOREM RefundsAreLate == Spec => RefundIsLate
<1> DEFINE Late(i) ==
      refunds'[i] > refunds[i] =>
        status[IntentOf[i]] \in PAID_CANCELLATION_STATUSES \union { "cancelled" }
<1>1. ASSUME Inv, Next PROVE \A i \in Intents : Late(i)
  <2> SUFFICES ASSUME NEW i \in Intents PROVE Late(i)
    OBVIOUS
  <2>0. refunds \in [Intents -> Nat]
    BY <1>1 DEF Inv, TablesOK
  <2>1. CASE UNCHANGED refunds
    BY <2>0, <2>1
  <2>2. ASSUME NEW s \in Shipments, NEW j \in Refundable(s), Refund(j),
               status[s] \in PAID_CANCELLATION_STATUSES \union { "cancelled" }
        PROVE  Late(i)
    <3>1. j \in Intents /\ IntentOf[j] = s /\ refunds' = [refunds EXCEPT ![j] = @ + 1]
      BY <2>2 DEF Refundable, Refund
    <3>2. i # j => refunds'[i] = refunds[i]
      BY <2>0, <3>1
    <3>3. QED
      BY <2>0, <2>2, <3>1, <3>2
  <2>3. ASSUME NEW r \in Requests, CustomerCall(r) \/ Webhook(r) \/ Proceed(r) \/ Abort(r)
        PROVE  UNCHANGED refunds
    BY <2>3 DEF CustomerCall, Webhook, Proceed, Abort, CreateCall, ConfirmCall, VerifyCall,
       WebhookCall, Begin, CreateWrite, MarkProcessing, AskProvider, WriteFailed,
       WriteSucceeded, WebhookSucceeded, WebhookFailed, ConfirmCheck, ConfirmCommit, payment
  <2>4. ASSUME NEW s \in Shipments, Cancel(s)
        PROVE  Late(i)
    BY <2>1, <2>2, <2>4 DEF Cancel, RefundOnCancel, payment
  <2>5. ASSUME NEW s \in Shipments, CancelAgain(s)
        PROVE  Late(i)
    BY <2>2, <2>5 DEF CancelAgain
  <2>6. ASSUME NEW s \in Shipments, NEW to \in Status, MoveShipment(s, to)
        PROVE  UNCHANGED refunds
    BY <2>6 DEF MoveShipment, payment
  <2>7. ASSUME NEW j \in Intents, Pay(j) \/ Decline(j)
        PROVE  UNCHANGED refunds
    BY <2>7 DEF Pay, Decline, payment
  <2>8. ASSUME NEW j \in Intents, WebhookIgnored(j)
        PROVE  UNCHANGED refunds
    BY <2>8 DEF WebhookIgnored, payment
  <2>9. QED
    BY <1>1, <2>1, <2>3, <2>4, <2>5, <2>6, <2>7, <2>8 DEF Next, World, Ignored
<1>2. Inv /\ [Next]_vars => [\A i \in Intents : Late(i)]_vars
  BY <1>1
<1>3. QED
  BY SpecInv, <1>2, PTL DEF Spec, RefundIsLate

\* Outcomes may arrive in any order and more than once: a shipment still only
\* moves along the table of ShipmentStateService.
THEOREM TableFollowed == Spec => StatusFollowsTable
<1> DEFINE Follows(s) == status'[s] # status[s] => CanTransition(status[s], status'[s])
<1>1. ASSUME Inv, Next PROVE \A s \in Shipments : Follows(s)
  <2> SUFFICES ASSUME NEW s \in Shipments PROVE Follows(s)
    OBVIOUS
  <2>1. status \in [Shipments -> Status]
    BY <1>1 DEF Inv, TablesOK
  <2>2. CASE UNCHANGED status
    BY <2>2
  <2>3. ASSUME NEW t \in Shipments, NEW to, CanTransition(status[t], to),
               status' = [status EXCEPT ![t] = to]
        PROVE  Follows(s)
    BY <2>1, <2>3
  <2>4. ASSUME NEW r \in Requests, CustomerCall(r) \/ Webhook(r) \/ Abort(r)
        PROVE  UNCHANGED status
    BY <2>4 DEF CustomerCall, Webhook, Abort, CreateCall, ConfirmCall, VerifyCall,
       WebhookCall, Begin, shipment
  <2>5. ASSUME NEW r \in Requests, Proceed(r)
        PROVE  Follows(s)
    <3>1. CASE ConfirmCommit(r)
      <4>1. IntentOf[req[r].i] \in Shipments
        BY <1>1, <3>1, RequestIntent DEF Inv, ConfirmCommit
      <4>2. CanTransition("draft", "pending_assignment")
        BY DEF CanTransition, TRANSITIONS, Status
      <4>3. QED
        BY <2>2, <2>3, <3>1, <4>1, <4>2 DEF ConfirmCommit, StillDraft, shipment
    <3>2. CASE ~ ConfirmCommit(r)
      BY <2>2, <2>5, <3>2 DEF Proceed, CreateWrite, MarkProcessing, AskProvider, WriteFailed,
         WriteSucceeded, WebhookSucceeded, WebhookFailed, ConfirmCheck, shipment
    <3>3. QED
      BY <3>1, <3>2
  <2>6. CASE World
    BY <2>2, <2>3, <2>6 DEF World, Cancel, CancelAgain, MoveShipment, Pay, Decline, shipment
  <2>7. CASE Ignored
    BY <2>2, <2>7 DEF Ignored, WebhookIgnored, shipment
  <2>8. QED
    BY <1>1, <2>2, <2>4, <2>5, <2>6, <2>7 DEF Next
<1>2. Inv /\ [Next]_vars => [\A s \in Shipments : Follows(s)]_vars
  BY <1>1
<1>3. QED
  BY SpecInv, <1>2, PTL DEF Spec, StatusFollowsTable
=============================================================================
