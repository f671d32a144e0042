------------------------------ MODULE Logistics ------------------------------
(***************************************************************************)
(* One customs clearance or freight forwarding request: its status and     *)
(* history (CustomsClearanceService, FreightForwardingService), the quotes *)
(* staff send for it (LogisticsQuotesService), the charges an accepted     *)
(* quote becomes (LogisticsChargesService), and one item of its document   *)
(* checklist with the documents uploaded for it                            *)
(* (LogisticsDocumentsService).  Every handler is a row of statements that *)
(* nothing holds together.                                                 *)
(***************************************************************************)
EXTENDS Naturals, FiniteSets

CONSTANTS
  Quotes,        \* quotes that may be sent
  Docs,          \* documents that may be uploaded for the item
  StaffStatuses, \* statuses staff move the request to by hand
  Requests,      \* handlers that may be in flight at once
  None           \* no row, nothing read

VARIABLES
  kind,       \* "customs" or "freight"
  linked,     \* the request's logistics_order_id is set
  status,     \* customs_clearance_requests.status or freight_forwarding_requests.status
  history,    \* the newest row of logistics_status_history for it
  quote,      \* logistics_quotes: version and status
  charged,    \* how many sets of charges the order has from each quote
  accepted,   \* history variable: who has accepted each quote, and whether for an order
  item,       \* document_checklist_items: status and document
  doc,        \* logistics_documents.status
  approved,   \* history variable: documents a review approved
  pc,         \* where each handler stands
  req         \* what it was called with and what it read

request   == << kind, linked, status, history >>
billing   == << quote, charged, accepted >>
documents == << item, doc, approved >>
handlers  == << pc, req >>
vars      == << request, billing, documents, handlers >>

Status == { "draft", "submitted", "quotation_sent", "quotation_accepted", "documents_missing" }
            \union StaffStatuses

QuoteStatus == { "sent", "accepted", "rejected", "countered", "amended" }
QuoteType   == [ version : Nat \ {0}, status : QuoteStatus ]

Verdict   == { "approved", "rejected", "expired" }
DocStatus == { "pending" } \union Verdict
ItemType  == [ status : { "required", "uploaded", "missing" } \union Verdict, doc : Docs \union {None} ]

ASSUME ConstantsAssumption ==
  None \notin Quotes \union Docs \union Status \union DocStatus \union QuoteType \union ItemType

\* An answer that accepts: by an administrator, of a request with an order.
Acceptance == [ admin : BOOLEAN, linked : BOOLEAN ]

RequestType ==
  [ op : { "create", "submit", "staff", "quote", "amend", "respond", "upload", "review", "missing" },
    q : Quotes \union {None}, d : Docs \union {None},
    to : Status \union QuoteStatus \union Verdict \union {None}, admin : BOOLEAN ]

TypeOK ==
  /\ kind \in { "customs", "freight" } /\ linked \in BOOLEAN
  /\ status   \in Status \union {None}
  /\ history  \in Status \union {None}
  /\ quote    \in [Quotes -> QuoteType \union {None}]
  /\ charged  \in [Quotes -> Nat]
  /\ accepted \in [Quotes -> SUBSET Acceptance]
  /\ item     \in ItemType \union {None}
  /\ doc      \in [Docs -> DocStatus \union {None}]
  /\ approved \in SUBSET Docs
  /\ pc  \in [Requests -> { "idle", "write", "record", "seed", "amend", "announce", "insert",
                            "accept", "charge", "item", "flag" }]
  /\ req \in [Requests -> RequestType \union {None}]

Init ==
  /\ kind \in { "customs", "freight" } /\ linked = FALSE
  /\ status = None /\ history = None
  /\ quote    = [q \in Quotes |-> None]
  /\ charged  = [q \in Quotes |-> 0]
  /\ accepted = [q \in Quotes |-> {}]
  /\ item = None
  /\ doc = [d \in Docs |-> None]
  /\ approved = {}
  /\ pc  = [r \in Requests |-> "idle"]
  /\ req = [r \in Requests |-> None]

Call(op, q, d, to, admin) == [ op |-> op, q |-> q, d |-> d, to |-> to, admin |-> admin ]

Begin(r, at, call) ==
  /\ pc[r] = "idle"
  /\ pc'  = [pc  EXCEPT ![r] = at]
  /\ req' = [req EXCEPT ![r] = call]

Goto(r, to) == pc' = [pc EXCEPT ![r] = to] /\ UNCHANGED req

Finish(r) ==
  /\ pc'  = [pc  EXCEPT ![r] = "idle"]
  /\ req' = [req EXCEPT ![r] = None]

At(r, at, op) == pc[r] = at /\ req[r].op = op

SetStatus(to) == status' = to /\ UNCHANGED << kind, linked, history >>

-----------------------------------------------------------------------------
(* createDraft, update, submit, updateStatus *)

CreateDraft(r) ==
  /\ status = None
  /\ Begin(r, "record", Call("create", None, None, "draft", FALSE))
  /\ status' = "draft" /\ linked' \in BOOLEAN
  /\ UNCHANGED << kind, history, billing, documents >>

\* A PATCH with any columns of the row, its order and its status among them: one
\* statement, no check and no history.
Update(l, to) ==
  /\ status # None
  /\ linked' = l /\ status' = to
  /\ UNCHANGED << kind, history, billing, documents, handlers >>

SubmitCall(r) ==
  /\ status = "draft"
  /\ Begin(r, "write", Call("submit", None, None, "submitted", FALSE))
  /\ UNCHANGED << request, billing, documents >>

SubmitWrite(r) ==
  /\ At(r, "write", "submit")
  /\ Goto(r, "record")
  /\ SetStatus("submitted")
  /\ UNCHANGED << billing, documents >>

\* Any status from any other.
StaffWrite(r, to) ==
  /\ status # None
  /\ Begin(r, "record", Call("staff", None, None, to, TRUE))
  /\ SetStatus(to)
  /\ UNCHANGED << billing, documents >>

\* The row of the request; a linked customs request gets the same status once
\* more among the rows of its order.
Record(r) ==
  /\ pc[r] = "record"
  /\ history' = req[r].to
  /\ IF req[r].op = "create" /\ kind = "customs" THEN Goto(r, "seed") ELSE Finish(r)
  /\ UNCHANGED << kind, linked, status, billing, documents >>

\* An item of a template may be optional, and is then stored as missing.
SeedChecklist(r) ==
  /\ pc[r] = "seed"
  /\ \E s \in { "required", "missing" } : item' = [ status |-> s, doc |-> None ]
  /\ Finish(r)
  /\ UNCHANGED << request, billing, doc, approved >>

-----------------------------------------------------------------------------
(* createQuote, amendQuote, respond *)

Revisable == { q \in Quotes : quote[q] # None /\ quote[q].status \in { "sent", "countered", "amended" } }

\* Of the quotes that may be revised, one of the highest version.
Latest ==
  IF Revisable = {} THEN {None}
  ELSE { q \in Revisable : \A p \in Revisable : quote[p].version <= quote[q].version }

QuoteCall(r) ==
  /\ status # None
  /\ \E q \in Latest : Begin(r, "write", Call("quote", q, None, None, TRUE))
  /\ UNCHANGED << request, billing, documents >>

Insert(version) ==
  \E q \in Quotes :
    /\ quote[q] = None
    /\ quote' = [quote EXCEPT ![q] = [ version |-> version, status |-> "sent" ]]
    /\ UNCHANGED << charged, accepted >>

QuoteInsert(r) ==
  LET prev == req[r].q IN
  /\ At(r, "write", "quote")
  /\ Insert(IF prev = None THEN 1 ELSE quote[prev].version + 1)
  /\ Goto(r, IF prev = None THEN "announce" ELSE "amend")
  /\ UNCHANGED << request, documents >>

WriteQuote(q, to) == quote' = [quote EXCEPT ![q].status = to]

QuoteAmend_Skipped(r) ==
  /\ pc[r] = "amend"
  /\ Goto(r, "announce")
  /\ UNCHANGED << request, billing, documents >>

QuoteAmend(r) ==
  /\ pc[r] = "amend"
  /\ WriteQuote(req[r].q, "amended")
  /\ Goto(r, "announce")
  /\ UNCHANGED << request, charged, accepted, documents >>

QuoteAnnounce(r) ==
  /\ pc[r] = "announce"
  /\ SetStatus("quotation_sent")
  /\ Finish(r)
  /\ UNCHANGED << billing, documents >>

\* amendQuote asks neither for the status of the quote nor for a later version.
AmendWrite(r, q) ==
  /\ quote[q] # None
  /\ Begin(r, "insert", Call("amend", q, None, None, TRUE))
  /\ WriteQuote(q, "amended")
  /\ UNCHANGED << request, charged, accepted, documents >>

AmendInsert(r) ==
  /\ pc[r] = "insert"
  /\ Insert(quote[req[r].q].version + 1)
  /\ Finish(r)
  /\ UNCHANGED << request, documents >>

\* The customer or an administrator answers, whatever the quote's status is.
RespondWrite(r, q, answer, admin) ==
  /\ quote[q] # None
  /\ pc[r] = "idle"
  /\ IF answer = "accepted" THEN Begin(r, "accept", Call("respond", q, None, answer, admin))
                            ELSE UNCHANGED handlers
  /\ WriteQuote(q, answer)
  /\ accepted' = IF answer = "accepted"
                 THEN [accepted EXCEPT ![q] = @ \union { [ admin |-> admin, linked |-> linked ] }]
                 ELSE accepted
  /\ UNCHANGED << request, charged, documents >>

AcceptRequest(r) ==
  /\ pc[r] = "accept"
  /\ SetStatus("quotation_accepted")
  /\ Goto(r, "charge")
  /\ UNCHANGED << billing, documents >>

\* createFromQuote asserts an administrator and finds the order through the
\* request, as it is then; what it throws is caught and dropped.
Chargeable_CustomsOnly(r) == req[r].admin /\ linked /\ kind = "customs"

Chargeable(r) == req[r].admin /\ linked

CreateFromQuote_Latest(r) ==
  /\ pc[r] = "charge"
  /\ charged' = IF Chargeable(r) THEN [q \in Quotes |-> IF q \in Latest THEN charged[q] + 1 ELSE charged[q]]
                ELSE charged
  /\ Finish(r)
  /\ UNCHANGED << request, quote, accepted, documents >>

CreateFromQuote(r) ==
  /\ pc[r] = "charge"
  /\ charged' = IF Chargeable(r) THEN [charged EXCEPT ![req[r].q] = @ + 1] ELSE charged
  /\ Finish(r)
  /\ UNCHANGED << request, quote, accepted, documents >>

RemoveCharges(q) ==
  /\ charged[q] > 0
  /\ charged' = [charged EXCEPT ![q] = @ - 1]
  /\ UNCHANGED << request, quote, accepted, documents, handlers >>

-----------------------------------------------------------------------------
(* upload, review, markChecklistItemMissing *)

UploadRow(r, d) ==
  /\ status # None /\ doc[d] = None
  /\ Begin(r, "item", Call("upload", None, d, None, FALSE))
  /\ doc' = [doc EXCEPT ![d] = "pending"]
  /\ UNCHANGED << request, billing, item, approved >>

ReviewRow(r, d, verdict) ==
  /\ doc[d] # None
  /\ Begin(r, "item", Call("review", None, d, verdict, TRUE))
  /\ doc' = [doc EXCEPT ![d] = verdict]
  /\ approved' = IF verdict = "approved" THEN approved \union {d} ELSE approved
  /\ UNCHANGED << request, billing, item >>

\* The item of the document's category names the newest document.
UploadItem(r) ==
  /\ At(r, "item", "upload")
  /\ item' = IF item = None THEN None ELSE [ status |-> "uploaded", doc |-> req[r].d ]
  /\ Finish(r)
  /\ UNCHANGED << request, billing, doc, approved >>

ReviewItem_ByCategory(r) ==
  /\ At(r, "item", "review")
  /\ item' = IF item = None THEN None ELSE [item EXCEPT !.status = req[r].to]
  /\ Finish(r)
  /\ UNCHANGED << request, billing, doc, approved >>

\* The verdict reaches the item only if it still names this document.
ReviewItem(r) ==
  /\ At(r, "item", "review")
  /\ item' = IF item # None /\ item.doc = req[r].d THEN [item EXCEPT !.status = req[r].to] ELSE item
  /\ Finish(r)
  /\ UNCHANGED << request, billing, doc, approved >>

\* The item keeps its document; the request is read together with it.
MissingItem(r) ==
  /\ item # None
  /\ Begin(r, "flag", Call("missing", None, None, status, TRUE))
  /\ item' = [item EXCEPT !.status = "missing"]
  /\ UNCHANGED << request, billing, doc, approved >>

MissingRequest(r) ==
  /\ pc[r] = "flag"
  /\ IF req[r].to = "documents_missing" THEN UNCHANGED request ELSE SetStatus("documents_missing")
  /\ Finish(r)
  /\ UNCHANGED << billing, documents >>

-----------------------------------------------------------------------------

\* The process stops: the rest of the handler never runs.
Abort(r) ==
  /\ pc[r] # "idle"
  /\ Finish(r)
  /\ UNCHANGED << request, billing, documents >>

Answers == { "accepted", "rejected", "countered", "amended" }

Arrive(r) ==
  \/ CreateDraft(r) \/ SubmitCall(r) \/ QuoteCall(r) \/ MissingItem(r)
  \/ \E to \in StaffStatuses : StaffWrite(r, to)
  \/ \E q \in Quotes : AmendWrite(r, q)
  \/ \E q \in Quotes, answer \in Answers, admin \in BOOLEAN : RespondWrite(r, q, answer, admin)
  \/ \E d \in Docs : UploadRow(r, d)
  \/ \E d \in Docs, verdict \in Verdict : ReviewRow(r, d, verdict)

Proceed(r) ==
  \/ SubmitWrite(r) \/ Record(r) \/ SeedChecklist(r)
  \/ QuoteInsert(r) \/ QuoteAmend(r) \/ QuoteAnnounce(r) \/ AmendInsert(r)
  \/ AcceptRequest(r) \/ CreateFromQuote(r)
  \/ UploadItem(r) \/ ReviewItem(r) \/ MissingRequest(r)

Next ==
  \/ \E r \in Requests : Arrive(r) \/ Proceed(r) \/ Abort(r)
  \/ \E l \in BOOLEAN, to \in Status : Update(l, to)
  \/ \E q \in Quotes : RemoveCharges(q)

Spec == Init /\ [][Next]_vars

-----------------------------------------------------------------------------
(* Properties *)

\* An item of the checklist is approved only with a document that a review
\* approved, also when another document arrives while the review is under way
\* (review and upload).
ApprovedWasReviewed ==
  item # None /\ item.status = "approved" => item.doc \in approved

\* The order has charges only from quotes somebody accepted (createFromQuote
\* names the quote that was answered, whatever became of it since).
ChargedWasAccepted == \A q \in Quotes : charged[q] > 0 => accepted[q] # {}
=============================================================================
