-------------------------- MODULE Logistics_proofs --------------------------
(***************************************************************************)
(* Theorems about Logistics, for any number of quotes, documents, handlers *)
(* in flight and calls and any statuses staff use.  The second half is     *)
(* about MCSpec, whose history variables tell whether handlers overlapped, *)
(* a closed quote was touched or an acceptance undone.                     *)
(***************************************************************************)
EXTENDS MCLogistics, TLAPS

Places == { "idle", "write", "record", "seed", "amend", "announce", "insert",
            "accept", "charge", "item", "flag" }

\* What a handler relies on in its later statements: its quote is there and, to
\* be charged, was accepted; the document of its verdict was reviewed.
Known(r) ==
  pc[r] # "idle" =>
    /\ req[r] \in RequestType
    /\ pc[r] = "write" /\ req[r].op = "quote" =>
         req[r].q = None \/ (req[r].q \in Quotes /\ quote[req[r].q] # None)
    /\ pc[r] \in { "amend", "insert" } => req[r].q \in Quotes /\ quote[req[r].q] # None
    /\ pc[r] \in { "accept", "charge" } => req[r].q \in Quotes /\ accepted[req[r].q] # {}
    /\ pc[r] = "record" \/ req[r].op = "submit" => req[r].to \in Status
    /\ pc[r] = "item" => req[r].d \in Docs
    /\ pc[r] = "item" /\ req[r].op = "review" =>
         req[r].to \in Verdict /\ (req[r].to = "approved" => req[r].d \in approved)

Inv ==
  /\ TypeOK
  /\ ApprovedWasReviewed
  /\ ChargedWasAccepted
  /\ \A r \in Requests : Known(r)

LEMMA InitInv == Init => Inv
<1> SUFFICES ASSUME Init PROVE Inv
  OBVIOUS
<1>1. TypeOK
  BY DEF Init, TypeOK
<1>2. ApprovedWasReviewed /\ ChargedWasAccepted /\ \A r \in Requests : Known(r)
  BY DEF Init, ApprovedWasReviewed, ChargedWasAccepted, Known
<1>3. QED
  BY <1>1, <1>2 DEF Inv

-----------------------------------------------------------------------------
(* Handlers *)

Others(r) == \A s \in Requests \ {r} : pc'[s] = pc[s] /\ req'[s] = req[s]

\* Quotes are never deleted, and neither acceptances nor approvals undone.
Monotone ==
  /\ \A q \in Quotes : quote[q] # None => quote'[q] # None
  /\ \A q \in Quotes : accepted[q] \subseteq accepted'[q]
  /\ approved \subseteq approved'

LEMMA StepKeeps ==
  ASSUME Inv, NEW r \in Requests, TypeOK', Monotone, Others(r), Known(r)',
         ApprovedWasReviewed', ChargedWasAccepted'
  PROVE  Inv'
<1>1. ASSUME NEW s \in Requests \ {r} PROVE Known(s)'
  <2>1. Known(s) /\ pc'[s] = pc[s] /\ req'[s] = req[s]
    BY DEF Inv, Others
  <2>2. QED
    BY <2>1 DEF Known, Monotone
<1>2. QED
  BY <1>1 DEF Inv

Moved(r) ==
  /\ Others(r)
  /\ pc'  \in [Requests -> Places]
  /\ req' \in [Requests -> RequestType \union {None}]

LEMMA FinishMoves ==
  ASSUME TypeOK, NEW r \in Requests, Finish(r)
  PROVE  Moved(r) /\ Known(r)'
  BY DEF TypeOK, Finish, Moved, Others, Known, Places

LEMMA GotoMoves ==
  ASSUME TypeOK, NEW r \in Requests, NEW there \in Places, Goto(r, there)
  PROVE  Moved(r) /\ pc'[r] = there /\ req'[r] = req[r]
  BY DEF TypeOK, Goto, Moved, Others, Places

LEMMA BeginMoves ==
  ASSUME TypeOK, NEW r \in Requests, NEW at \in Places, NEW c \in RequestType, Begin(r, at, c)
  PROVE  Moved(r) /\ pc'[r] = at /\ req'[r] = c
  BY DEF TypeOK, Begin, Moved, Others, Places

LEMMA CallType ==
  ASSUME NEW op \in { "create", "submit", "staff", "quote", "amend", "respond", "upload",
                      "review", "missing" },
         NEW q \in Quotes \union {None}, NEW d \in Docs \union {None},
         NEW to \in Status \union QuoteStatus \union Verdict \union {None}, NEW admin \in BOOLEAN
  PROVE  /\ Call(op, q, d, to, admin) \in RequestType
         /\ Call(op, q, d, to, admin).op = op /\ Call(op, q, d, to, admin).q = q
         /\ Call(op, q, d, to, admin).d = d /\ Call(op, q, d, to, admin).to = to
  BY DEF Call, RequestType

-----------------------------------------------------------------------------
(* The request: no quote, item or document changes *)

LEMMA RequestKeeps ==
  ASSUME Inv, NEW r \in Requests, UNCHANGED << kind, billing, documents >>, linked' \in BOOLEAN,
         status' \in Status \union {None}, history' \in Status \union {None},
         Moved(r), Known(r)'
  PROVE  Inv'
<1>1. TypeOK'
  BY DEF Inv, TypeOK, Moved, Places, billing, documents
<1>2. ApprovedWasReviewed' /\ ChargedWasAccepted' /\ Monotone
  BY DEF Inv, ApprovedWasReviewed, ChargedWasAccepted, Monotone, billing, documents
<1>3. QED
  BY <1>1, <1>2, StepKeeps DEF Moved

LEMMA StatusCallsKeep ==
  ASSUME Inv, NEW r \in Requests,
         \/ CreateDraft(r) \/ SubmitCall(r)
         \/ \E to \in StaffStatuses : StaffWrite(r, to)
  PROVE  Inv'
<1>1. TypeOK
  BY DEF Inv
<1>2. CASE CreateDraft(r)
  <2>1. Call("create", None, None, "draft", FALSE) \in RequestType /\ "draft" \in Status
    BY DEF Call, RequestType, Status
  <2>2. Moved(r) /\ Known(r)'
    BY <1>1, <1>2, <2>1, BeginMoves DEF CreateDraft, Places, Known, Call
  <2>3. QED
    BY <1>1, <1>2, <2>1, <2>2, RequestKeeps DEF CreateDraft, TypeOK
<1>3. CASE SubmitCall(r)
  <2>1. Call("submit", None, None, "submitted", FALSE) \in RequestType
    BY DEF Call, RequestType, Status
  <2>2. Moved(r) /\ Known(r)'
    BY <1>1, <1>3, <2>1, BeginMoves DEF SubmitCall, Places, Known, Call, Status
  <2>3. QED
    BY <1>1, <1>3, <2>2, RequestKeeps DEF SubmitCall, request, TypeOK
<1>4. ASSUME NEW to \in StaffStatuses, StaffWrite(r, to) PROVE Inv'
  <2>1. Call("staff", None, None, to, TRUE) \in RequestType /\ to \in Status
    BY DEF Call, RequestType, Status
  <2>2. Moved(r) /\ Known(r)'
    BY <1>1, <1>4, <2>1, BeginMoves DEF StaffWrite, Places, Known, Call
  <2>3. QED
    BY <1>1, <1>4, <2>1, <2>2, RequestKeeps DEF StaffWrite, SetStatus, TypeOK
<1>5. QED
  BY <1>2, <1>3, <1>4

LEMMA StatusWritesKeep ==
  ASSUME Inv, NEW r \in Requests, SubmitWrite(r) \/ Record(r) \/ QuoteAnnounce(r) \/ AcceptRequest(r)
         \/ MissingRequest(r)
  PROVE  Inv'
<1>1. TypeOK /\ Known(r) /\ pc[r] # "idle"
  BY DEF Inv, SubmitWrite, At, Record, QuoteAnnounce, AcceptRequest, MissingRequest
<1>2. CASE SubmitWrite(r)
  <2>1. Moved(r) /\ pc'[r] = "record" /\ req'[r] = req[r] /\ UNCHANGED << billing, documents >>
    BY <1>1, <1>2, GotoMoves DEF SubmitWrite, Places
  <2>2. Known(r)'
    BY <1>1, <1>2, <2>1 DEF SubmitWrite, At, Known
  <2>3. QED
    BY <1>1, <1>2, <2>1, <2>2, RequestKeeps DEF SubmitWrite, SetStatus, TypeOK, Status
<1>3. CASE Record(r)
  <2>1. history' = req[r].to /\ req[r].to \in Status /\ UNCHANGED << kind, linked, status, billing, documents >>
    BY <1>1, <1>3 DEF Record, Known
  <2>2. Moved(r) /\ Known(r)'
    BY <1>1, <1>3, FinishMoves, GotoMoves DEF Record, Known, Places
  <2>3. QED
    BY <1>1, <2>1, <2>2, RequestKeeps DEF TypeOK
<1>4. CASE QuoteAnnounce(r)
  BY <1>1, <1>4, FinishMoves, RequestKeeps DEF QuoteAnnounce, SetStatus, TypeOK, Status
<1>5. CASE AcceptRequest(r)
  <2>1. Moved(r) /\ pc'[r] = "charge" /\ req'[r] = req[r] /\ UNCHANGED << billing, documents >>
    BY <1>1, <1>5, GotoMoves DEF AcceptRequest, Places
  <2>2. Known(r)'
    BY <1>1, <1>5, <2>1 DEF AcceptRequest, Known, billing
  <2>3. QED
    BY <1>1, <1>5, <2>1, <2>2, RequestKeeps DEF AcceptRequest, SetStatus, TypeOK, Status
<1>6. CASE MissingRequest(r)
  BY <1>1, <1>6, FinishMoves, RequestKeeps DEF MissingRequest, SetStatus, TypeOK, Status, request
<1>7. QED
  BY <1>2, <1>3, <1>4, <1>5, <1>6

-----------------------------------------------------------------------------
(* Quotes and charges: the request, the item and the documents stay *)

LEMMA BillingKeeps ==
  ASSUME Inv, NEW r \in Requests, UNCHANGED documents,
         kind' = kind, linked' = linked, status' = status, history' = history,
         quote' \in [Quotes -> QuoteType \union {None}], charged' \in [Quotes -> Nat],
         accepted' \in [Quotes -> SUBSET Acceptance],
         \A q \in Quotes : quote[q] # None => quote'[q] # None,
         \A q \in Quotes : accepted[q] \subseteq accepted'[q],
         \A q \in Quotes : charged'[q] > charged[q] => accepted[q] # {},
         Moved(r), Known(r)'
  PROVE  Inv'
<1>1. TypeOK'
  BY DEF Inv, TypeOK, Moved, Places, documents
<1>2. ApprovedWasReviewed' /\ Monotone
  BY DEF Inv, ApprovedWasReviewed, Monotone, documents
<1>3. ChargedWasAccepted'
  <2> SUFFICES ASSUME NEW q \in Quotes, charged'[q] > 0 PROVE accepted'[q] # {}
    BY DEF ChargedWasAccepted
  <2>1. charged[q] \in Nat /\ charged'[q] \in Nat /\ (charged[q] > 0 => accepted[q] # {})
    BY DEF Inv, TypeOK, ChargedWasAccepted
  <2>2. accepted[q] # {}
    <3>1. CASE charged[q] > 0
      BY <2>1, <3>1
    <3>2. CASE charged[q] = 0
      BY <3>2
    <3>3. QED
      BY <2>1, <3>1, <3>2
  <2>3. QED
    BY <2>2
<1>4. QED
  BY <1>1, <1>2, <1>3, StepKeeps DEF Moved

LEMMA RowIsThere == \A row \in QuoteType : row # None
  BY ConstantsAssumption DEF QuoteType

LEMMA LatestThere ==
  ASSUME NEW q \in Latest
  PROVE  q \in Quotes \union {None} /\ (q # None => q \in Quotes /\ quote[q] # None)
  BY ConstantsAssumption DEF Latest, Revisable

LEMMA WriteQuoteType ==
  ASSUME TypeOK, NEW q \in Quotes, quote[q] # None, NEW to \in QuoteStatus, WriteQuote(q, to)
  PROVE  /\ quote' \in [Quotes -> QuoteType \union {None}]
         /\ \A p \in Quotes : quote[p] # None => quote'[p] # None
<1>1. quote[q] \in QuoteType
  BY DEF TypeOK
<1>2. [quote[q] EXCEPT !.status = to] \in QuoteType
  BY <1>1 DEF QuoteType
<1>3. quote' = [quote EXCEPT ![q] = [quote[q] EXCEPT !.status = to]]
  BY DEF WriteQuote
<1>4. QED
  BY <1>2, <1>3, RowIsThere DEF TypeOK

LEMMA InsertType ==
  ASSUME TypeOK, NEW version \in Nat \ {0}, Insert(version)
  PROVE  /\ quote' \in [Quotes -> QuoteType \union {None}]
         /\ \A p \in Quotes : quote[p] # None => quote'[p] # None
         /\ UNCHANGED << charged, accepted >>
<1>1. [ version |-> version, status |-> "sent" ] \in QuoteType
  BY DEF QuoteType, QuoteStatus
<1>2. QED
  BY <1>1 DEF TypeOK, Insert

LEMMA QuoteCallsKeep ==
  ASSUME Inv, NEW r \in Requests,
         \/ QuoteCall(r)
         \/ \E q \in Quotes : AmendWrite(r, q)
  PROVE  Inv'
<1>1. TypeOK
  BY DEF Inv
<1>2. CASE QuoteCall(r)
  <2> PICK q \in Latest : Begin(r, "write", Call("quote", q, None, None, TRUE))
    BY <1>2 DEF QuoteCall
  <2>1. q \in Quotes \union {None} /\ (q # None => q \in Quotes /\ quote[q] # None)
    BY LatestThere
  <2>2. Call("quote", q, None, None, TRUE) \in RequestType
    BY <2>1 DEF Call, RequestType
  <2>3. Moved(r) /\ pc'[r] = "write" /\ req'[r] = Call("quote", q, None, None, TRUE)
    BY <1>1, <2>2, BeginMoves DEF Places
  <2>4. Known(r)'
    BY <1>2, <2>1, <2>2, <2>3 DEF QuoteCall, Known, Call, billing
  <2>5. QED
    BY <1>1, <1>2, <2>3, <2>4, RequestKeeps DEF QuoteCall, request, TypeOK
<1>3. ASSUME NEW q \in Quotes, AmendWrite(r, q) PROVE Inv'
  <2>1. Call("amend", q, None, None, TRUE) \in RequestType
    BY DEF Call, RequestType
  <2>2. Moved(r) /\ pc'[r] = "insert" /\ req'[r] = Call("amend", q, None, None, TRUE)
    BY <1>1, <1>3, <2>1, BeginMoves DEF AmendWrite, Places
  <2>3. /\ quote' \in [Quotes -> QuoteType \union {None}]
        /\ \A p \in Quotes : quote[p] # None => quote'[p] # None
        /\ quote[q] # None /\ UNCHANGED << request, charged, accepted, documents >>
    BY <1>1, <1>3, WriteQuoteType DEF AmendWrite, QuoteStatus
  <2>4. Known(r)'
    BY <2>1, <2>2, <2>3 DEF Known, Call
  <2>5. QED
    BY <1>1, <2>2, <2>3, <2>4, BillingKeeps DEF TypeOK, request
<1>4. QED
  BY <1>2, <1>3

LEMMA QuoteWritesKeep ==
  ASSUME Inv, NEW r \in Requests, QuoteInsert(r) \/ QuoteAmend(r) \/ AmendInsert(r)
  PROVE  Inv'
<1>1. TypeOK /\ Known(r) /\ pc[r] # "idle"
  BY DEF Inv, QuoteInsert, At, QuoteAmend, AmendInsert
<1>2. CASE QuoteInsert(r)
  <2> PICK q \in Quotes \union {None} : q = req[r].q /\ (q = None \/ (q \in Quotes /\ quote[q] # None))
    BY <1>1, <1>2 DEF QuoteInsert, At, Known
  <2> DEFINE version == IF q = None THEN 1 ELSE quote[q].version + 1
             there   == IF q = None THEN "announce" ELSE "amend"
  <2>1. version \in Nat \ {0} /\ there \in Places
    BY <1>1 DEF TypeOK, QuoteType, Places
  <2>2. Insert(version) /\ Goto(r, there) /\ UNCHANGED << request, documents >>
    BY <1>2 DEF QuoteInsert
  <2>3. Moved(r) /\ pc'[r] = there /\ req'[r] = req[r]
    BY <1>1, <2>1, <2>2, GotoMoves
  <2> HIDE DEF version
  <2>4. /\ quote' \in [Quotes -> QuoteType \union {None}]
        /\ \A p \in Quotes : quote[p] # None => quote'[p] # None
        /\ UNCHANGED << charged, accepted >>
    BY <1>1, <2>1, <2>2, InsertType
  <2>5. Known(r)'
    BY <1>1, <1>2, <2>3, <2>4 DEF Known, QuoteInsert, At
  <2>6. QED
    BY <1>1, <2>2, <2>3, <2>4, <2>5, BillingKeeps DEF TypeOK, request
<1>3. CASE QuoteAmend(r)
  <2> PICK q \in Quotes : q = req[r].q /\ quote[q] # None
    BY <1>1, <1>3 DEF QuoteAmend, Known
  <2>1. Moved(r) /\ pc'[r] = "announce" /\ req'[r] = req[r]
    BY <1>1, <1>3, GotoMoves DEF QuoteAmend, Places
  <2>2. /\ quote' \in [Quotes -> QuoteType \union {None}]
        /\ \A p \in Quotes : quote[p] # None => quote'[p] # None
        /\ UNCHANGED << request, charged, accepted, documents >>
    BY <1>1, <1>3, WriteQuoteType DEF QuoteAmend, QuoteStatus
  <2>3. Known(r)'
    BY <1>1, <2>1 DEF Known
  <2>4. QED
    BY <1>1, <2>1, <2>2, <2>3, BillingKeeps DEF TypeOK, request
<1>4. CASE AmendInsert(r)
  <2> PICK q \in Quotes : q = req[r].q /\ quote[q] # None
    BY <1>1, <1>4 DEF AmendInsert, Known
  <2>1. quote[q].version + 1 \in Nat \ {0}
    BY <1>1 DEF TypeOK, QuoteType
  <2>2. Insert(quote[q].version + 1) /\ Finish(r) /\ UNCHANGED << request, documents >>
    BY <1>4 DEF AmendInsert
  <2>3. Moved(r) /\ Known(r)'
    BY <1>1, <2>2, FinishMoves
  <2>4. /\ quote' \in [Quotes -> QuoteType \union {None}]
        /\ \A p \in Quotes : quote[p] # None => quote'[p] # None
        /\ UNCHANGED << charged, accepted >>
    BY <1>1, <2>1, <2>2, InsertType
  <2>5. QED
    BY <1>1, <2>2, <2>3, <2>4, BillingKeeps DEF TypeOK, request
<1>5. QED
  BY <1>2, <1>3, <1>4

\* The acceptance is on record before anything is charged for it.
LEMMA RespondKeeps ==
  ASSUME Inv, NEW r \in Requests, NEW q \in Quotes, NEW answer \in Answers, NEW admin \in BOOLEAN,
         RespondWrite(r, q, answer, admin)
  PROVE  Inv'
<1>1. TypeOK /\ answer \in QuoteStatus
  BY DEF Inv, Answers, QuoteStatus
<1>2. /\ quote' \in [Quotes -> QuoteType \union {None}]
      /\ \A p \in Quotes : quote[p] # None => quote'[p] # None
      /\ UNCHANGED << request, charged, documents >>
  BY <1>1, WriteQuoteType DEF RespondWrite
<1>3. /\ accepted' \in [Quotes -> SUBSET Acceptance]
      /\ \A p \in Quotes : accepted[p] \subseteq accepted'[p]
      /\ answer = "accepted" => accepted'[q] # {}
  <2> DEFINE a == [ admin |-> admin, linked |-> linked ]
  <2>1. a \in Acceptance
    BY <1>1 DEF TypeOK, Acceptance
  <2>2. accepted' = IF answer = "accepted" THEN [accepted EXCEPT ![q] = @ \union {a}] ELSE accepted
    BY DEF RespondWrite
  <2> HIDE DEF a
  <2>3. QED
    BY <1>1, <2>1, <2>2 DEF TypeOK
<1>4. CASE answer = "accepted"
  <2>1. Call("respond", q, None, answer, admin) \in RequestType
    BY <1>1 DEF Call, RequestType
  <2>2. Moved(r) /\ pc'[r] = "accept" /\ req'[r] = Call("respond", q, None, answer, admin)
    BY <1>1, <1>4, <2>1, BeginMoves DEF RespondWrite, Places
  <2>3. Known(r)'
    BY <1>3, <1>4, <2>1, <2>2 DEF Known, Call
  <2>4. QED
    BY <1>1, <1>2, <1>3, <2>2, <2>3, BillingKeeps DEF TypeOK, request
<1>5. CASE answer # "accepted"
  <2>1. UNCHANGED handlers /\ pc[r] = "idle"
    BY <1>5 DEF RespondWrite
  <2>2. Moved(r) /\ Known(r)'
    BY <1>1, <2>1 DEF handlers, TypeOK, Moved, Others, Places, Known
  <2>3. QED
    BY <1>1, <1>2, <1>3, <2>2, BillingKeeps DEF TypeOK, request
<1>6. QED
  BY <1>4, <1>5

LEMMA ChargeKeeps ==
  ASSUME Inv, NEW r \in Requests, CreateFromQuote(r)
  PROVE  Inv'
<1>1. TypeOK
  BY DEF Inv
<1> PICK q \in Quotes : q = req[r].q /\ accepted[q] # {}
  BY DEF Inv, Known, CreateFromQuote
<1>2. charged' = charged \/ charged' = [charged EXCEPT ![q] = @ + 1]
  BY DEF CreateFromQuote
<1>3. /\ charged' \in [Quotes -> Nat]
      /\ \A p \in Quotes \ {q} : charged'[p] = charged[p]
  BY <1>1, <1>2 DEF TypeOK
<1>4. \A p \in Quotes : charged'[p] > charged[p] => accepted[p] # {}
  BY <1>1, <1>3 DEF TypeOK
<1>5. Moved(r) /\ Known(r)' /\ UNCHANGED << request, quote, accepted, documents >>
  BY <1>1, FinishMoves DEF CreateFromQuote
<1>6. QED
  BY <1>1, <1>3, <1>4, <1>5, BillingKeeps DEF TypeOK, request

-----------------------------------------------------------------------------
(* Documents: the request and its quotes stay *)

LEMMA DocumentsKeep ==
  ASSUME Inv, NEW r \in Requests, UNCHANGED << request, billing >>,
         item' \in ItemType \union {None}, doc' \in [Docs -> DocStatus \union {None}],
         approved' \in SUBSET Docs, approved \subseteq approved',
         ApprovedWasReviewed', Moved(r), Known(r)'
  PROVE  Inv'
<1>1. TypeOK'
  BY DEF Inv, TypeOK, Moved, Places, request, billing
<1>2. ChargedWasAccepted' /\ Monotone
  BY DEF Inv, ChargedWasAccepted, Monotone, billing
<1>3. QED
  BY <1>1, <1>2, StepKeeps DEF Moved

LEMMA DocumentCallsKeep ==
  ASSUME Inv, NEW r \in Requests,
         \/ MissingItem(r)
         \/ \E d \in Docs : UploadRow(r, d)
         \/ \E d \in Docs, verdict \in Verdict : ReviewRow(r, d, verdict)
  PROVE  Inv'
<1>1. TypeOK /\ ApprovedWasReviewed
  BY DEF Inv
<1>2. CASE MissingItem(r)
  <2>1. Call("missing", None, None, status, TRUE) \in RequestType
    BY <1>1 DEF TypeOK, Call, RequestType
  <2>2. Moved(r) /\ pc'[r] = "flag" /\ req'[r] = Call("missing", None, None, status, TRUE)
    BY <1>1, <1>2, <2>1, BeginMoves DEF MissingItem, Places
  <2>3. item' \in ItemType /\ item'.status = "missing" /\ item' # None
    <3>1. item \in ItemType
      BY <1>1, <1>2 DEF TypeOK, MissingItem
    <3>2. QED
      BY <1>2, <3>1, ConstantsAssumption DEF MissingItem, ItemType
  <2>4. Known(r)' /\ ApprovedWasReviewed'
    BY <2>1, <2>2, <2>3 DEF Known, Call, ApprovedWasReviewed
  <2>5. QED
    BY <1>1, <1>2, <2>2, <2>3, <2>4, DocumentsKeep DEF MissingItem, TypeOK
<1>3. ASSUME NEW d \in Docs, UploadRow(r, d) PROVE Inv'
  <2>1. Call("upload", None, d, None, FALSE) \in RequestType
    BY DEF Call, RequestType
  <2>2. Moved(r) /\ pc'[r] = "item" /\ req'[r] = Call("upload", None, d, None, FALSE)
    BY <1>1, <1>3, <2>1, BeginMoves DEF UploadRow, Places
  <2>3. Known(r)' /\ ApprovedWasReviewed'
    BY <1>1, <1>3, <2>1, <2>2 DEF Known, Call, ApprovedWasReviewed, UploadRow
  <2>4. QED
    BY <1>1, <1>3, <2>2, <2>3, DocumentsKeep DEF UploadRow, TypeOK, DocStatus
<1>4. ASSUME NEW d \in Docs, NEW verdict \in Verdict, ReviewRow(r, d, verdict) PROVE Inv'
  <2>1. Call("review", None, d, verdict, TRUE) \in RequestType
    BY DEF Call, RequestType
  <2>2. Moved(r) /\ pc'[r] = "item" /\ req'[r] = Call("review", None, d, verdict, TRUE)
    BY <1>1, <1>4, <2>1, BeginMoves DEF ReviewRow, Places
  <2>3. /\ approved' \in SUBSET Docs /\ approved \subseteq approved'
        /\ verdict = "approved" => d \in approved'
    BY <1>1, <1>4 DEF TypeOK, ReviewRow
  <2>4. Known(r)' /\ ApprovedWasReviewed'
    BY <1>1, <1>4, <2>1, <2>2, <2>3 DEF Known, Call, ApprovedWasReviewed, ReviewRow
  <2>5. QED
    BY <1>1, <1>4, <2>2, <2>3, <2>4, DocumentsKeep DEF ReviewRow, TypeOK, DocStatus
<1>5. QED
  BY <1>2, <1>3, <1>4

\* A verdict reaches an item only together with the document it is about.
LEMMA DocumentWritesKeep ==
  ASSUME Inv, NEW r \in Requests, SeedChecklist(r) \/ UploadItem(r) \/ ReviewItem(r)
  PROVE  Inv'
<1>1. /\ TypeOK /\ ApprovedWasReviewed /\ Known(r) /\ pc[r] # "idle"
      /\ Finish(r) /\ UNCHANGED << request, billing, doc, approved >>
  BY DEF Inv, SeedChecklist, UploadItem, ReviewItem, At
<1>2. Moved(r) /\ Known(r)'
  BY <1>1, FinishMoves
<1>3. item' \in ItemType \union {None} /\ ApprovedWasReviewed'
  <2>1. CASE SeedChecklist(r)
    <3> PICK s \in { "required", "missing" } : item' = [ status |-> s, doc |-> None ]
      BY <2>1 DEF SeedChecklist
    <3>1. QED
      BY DEF ItemType, ApprovedWasReviewed
  <2>2. CASE UploadItem(r)
    <3>1. req[r].d \in Docs
      BY <1>1, <2>2 DEF UploadItem, At, Known
    <3>2. QED
      BY <2>2, <3>1 DEF UploadItem, ItemType, ApprovedWasReviewed
  <2>3. CASE ReviewItem(r)
    <3>1. req[r].to \in Verdict /\ (req[r].to = "approved" => req[r].d \in approved)
      BY <1>1, <2>3 DEF ReviewItem, At, Known
    <3>2. CASE item # None /\ item.doc = req[r].d
      <4>1. item \in ItemType /\ item' = [item EXCEPT !.status = req[r].to]
        BY <1>1, <2>3, <3>2 DEF ReviewItem, TypeOK
      <4>2. item' \in ItemType /\ item'.status = req[r].to /\ item'.doc = req[r].d
        BY <3>1, <3>2, <4>1 DEF ItemType
      <4>3. QED
        BY <1>1, <3>1, <4>2 DEF ApprovedWasReviewed
    <3>3. CASE ~ (item # None /\ item.doc = req[r].d)
      BY <1>1, <2>3, <3>3 DEF ReviewItem, TypeOK, ApprovedWasReviewed
    <3>4. QED
      BY <3>2, <3>3
  <2>4. QED
    BY <2>1, <2>2, <2>3
<1>4. QED
  BY <1>1, <1>2, <1>3, DocumentsKeep DEF TypeOK

-----------------------------------------------------------------------------

LEMMA AbortKeeps ==
  ASSUME Inv, NEW r \in Requests, Abort(r)
  PROVE  Inv'
<1>1. TypeOK
  BY DEF Inv
<1>2. Moved(r) /\ Known(r)'
  BY <1>1, FinishMoves DEF Abort
<1>3. QED
  BY <1>1, <1>2, RequestKeeps DEF Abort, request, TypeOK

LEMMA RemoveKeeps ==
  ASSUME Inv, NEW q \in Quotes, RemoveCharges(q)
  PROVE  Inv'
<1>1. TypeOK'
  BY DEF Inv, TypeOK, RemoveCharges, request, documents, handlers
<1>2. ChargedWasAccepted'
  BY DEF Inv, TypeOK, ChargedWasAccepted, RemoveCharges
<1>3. ApprovedWasReviewed' /\ \A r \in Requests : Known(r)'
  BY DEF Inv, ApprovedWasReviewed, Known, RemoveCharges, documents, handlers
<1>4. QED
  BY <1>1, <1>2, <1>3 DEF Inv

\* A PATCH of the request touches neither its quotes nor its documents.
LEMMA UpdateKeeps ==
  ASSUME Inv, NEW l \in BOOLEAN, NEW to \in Status, Update(l, to)
  PROVE  Inv'
<1>1. TypeOK'
  BY DEF Inv, TypeOK, Update, billing, documents, handlers
<1>2. ApprovedWasReviewed' /\ ChargedWasAccepted' /\ \A r \in Requests : Known(r)'
  BY DEF Inv, ApprovedWasReviewed, ChargedWasAccepted, Known, Update, billing, documents, handlers
<1>3. QED
  BY <1>1, <1>2 DEF Inv

LEMMA NextKeeps ==
  ASSUME Inv, [Next]_vars
  PROVE  Inv'
<1>1. ASSUME NEW r \in Requests, Arrive(r) PROVE Inv'
  BY <1>1, StatusCallsKeep, QuoteCallsKeep, RespondKeeps, DocumentCallsKeep DEF Arrive
<1>2. ASSUME NEW r \in Requests, Proceed(r) PROVE Inv'
  BY <1>2, StatusWritesKeep, QuoteWritesKeep, ChargeKeeps, DocumentWritesKeep DEF Proceed
<1>3. ASSUME NEW r \in Requests, Abort(r) PROVE Inv'
  BY <1>3, AbortKeeps
<1>4. ASSUME NEW q \in Quotes, RemoveCharges(q) PROVE Inv'
  BY <1>4, RemoveKeeps
<1>5. ASSUME NEW l \in BOOLEAN, NEW to \in Status, Update(l, to) PROVE Inv'
  BY <1>5, UpdateKeeps
<1>6. CASE UNCHANGED vars
  BY <1>6 DEF Inv, TypeOK, ApprovedWasReviewed, ChargedWasAccepted, Known, vars, request, billing,
     documents, handlers
<1>7. QED
  BY <1>1, <1>2, <1>3, <1>4, <1>5, <1>6 DEF Next

LEMMA InvHolds == Spec => []Inv
  BY InitInv, NextKeeps, PTL DEF Spec

-----------------------------------------------------------------------------
(* Theorems *)

\* Every row and every handler keeps its type.
THEOREM TypeCorrect == Spec => []TypeOK
<1>1. Inv => TypeOK
  BY DEF Inv
<1>2. QED
  BY <1>1, InvHolds, PTL

\* An item of the checklist is approved only with a document that a review
\* approved, whatever is uploaded or marked missing while the review is under
\* way (review, upload, markChecklistItemMissing).
THEOREM ApprovalsReviewed == Spec => []ApprovedWasReviewed
<1>1. Inv => ApprovedWasReviewed
  BY DEF Inv
<1>2. QED
  BY <1>1, InvHolds, PTL

\* An order is charged only for quotes somebody accepted (respond,
\* createFromQuote), whatever happens to the quote before it is charged.
THEOREM ChargesAccepted == Spec => []ChargedWasAccepted
<1>1. Inv => ChargedWasAccepted
  BY DEF Inv
<1>2. QED
  BY <1>1, InvHolds, PTL

-----------------------------------------------------------------------------
(* Handlers one at a time, and charges *)

Single == \A r, s \in Requests : pc[r] # "idle" /\ pc[s] # "idle" => r = s

\* The item shows its document, or the review that decided it has yet to.
ItemShows ==
  /\ item # None /\ item.doc # None => doc[item.doc] # None
  /\ item # None /\ item.doc # None /\ item.status # "missing" =>
       \/ item.status = IF doc[item.doc] = "pending" THEN "uploaded" ELSE doc[item.doc]
       \/ \E r \in Requests : pc[r] = "item" /\ req[r].op = "review" /\ req[r].d = item.doc
  /\ \A r \in Requests : pc[r] = "item" =>
       /\ req[r].op = "upload" => doc[req[r].d] = "pending"
       /\ req[r].op = "review" => doc[req[r].d] = req[r].to
       /\ req[r].op \in { "upload", "review" }

\* An open quote, other than the ones excepted, is newer than all it replaces.
Newest(except) ==
  \A p, q \in Quotes :
    Open(p) /\ q \in Revisable /\ p # q /\ p \notin except =>
      quote[q].version < quote[p].version

\* While a quote replaces another, both may be open; an amendment closes the
\* quote first.  What it goes by is still the newest.
QuoteInHand(r) ==
  /\ At(r, "write", "quote") =>
       IF req[r].q = None THEN Revisable = {}
       ELSE req[r].q \in Revisable
            /\ \A q \in Revisable : quote[q].version <= quote[req[r].q].version
  /\ pc[r] = "amend" => req[r].q \in Revisable
  /\ pc[r] = "insert" =>
       /\ \A q \in Quotes : ~ Open(q)
       /\ \A q \in Revisable : quote[q].version <= quote[req[r].q].version

Replaced == { req[r].q : r \in { s \in Requests : pc[s] = "amend" } }

OpenIsNewest == Newest(Replaced) /\ \A r \in Requests : QuoteInHand(r)

\* What an administrator accepted for an order is charged, or about to be.
ForOrder == [ admin |-> TRUE, linked |-> TRUE ]

ChargesDue ==
  \A q \in Quotes : ForOrder \in accepted[q] =>
    \/ charged[q] > 0
    \/ linked /\ \E r \in Requests : Answering(r) /\ req[r].q = q /\ req[r].admin

\* A request has no order before it is there.
Unlinked == status = None => ~ linked

MCInv ==
  /\ Inv
  /\ Unlinked
  /\ ~ disturbed => Single /\ ItemShows
  /\ ~ disturbed /\ ~ revived => OpenIsNewest
  /\ ~ undone => ChargesDue

LEMMA BeginHere ==
  ASSUME TypeOK, NEW r \in Requests, NEW at, NEW c, Begin(r, at, c)
  PROVE  Others(r) /\ pc[r] = "idle" /\ pc'[r] = at /\ req'[r] = c
  BY DEF TypeOK, Begin, Others

LEMMA GotoHere ==
  ASSUME TypeOK, NEW r \in Requests, NEW there, Goto(r, there)
  PROVE  Others(r) /\ pc'[r] = there /\ req'[r] = req[r]
  BY DEF TypeOK, Goto, Others

LEMMA FinishHere ==
  ASSUME TypeOK, NEW r \in Requests, Finish(r)
  PROVE  Others(r) /\ pc'[r] = "idle"
  BY DEF TypeOK, Finish, Others

\* Where a call leaves its handler, and what it leaves alone.
LEMMA CallsGo ==
  ASSUME Inv, NEW r \in Requests
  PROVE  /\ CreateDraft(r) =>
              Others(r) /\ pc[r] = "idle" /\ pc'[r] = "record" /\ UNCHANGED << billing, documents >>
         /\ SubmitCall(r) =>
              /\ Others(r) /\ pc[r] = "idle" /\ pc'[r] = "write" /\ req'[r].op = "submit"
              /\ UNCHANGED << billing, documents >>
         /\ \A to \in StaffStatuses : StaffWrite(r, to) =>
              Others(r) /\ pc[r] = "idle" /\ pc'[r] = "record" /\ UNCHANGED << billing, documents >>
         /\ QuoteCall(r) => Others(r) /\ pc[r] = "idle" /\ pc'[r] = "write" /\ UNCHANGED << billing, documents >>
         /\ MissingItem(r) => Others(r) /\ pc[r] = "idle" /\ pc'[r] = "flag" /\ UNCHANGED << billing, doc >>
         /\ \A q \in Quotes : AmendWrite(r, q) =>
              /\ Others(r) /\ pc[r] = "idle" /\ pc'[r] = "insert" /\ req'[r].q = q
              /\ UNCHANGED << charged, accepted, documents >>
         /\ \A d \in Docs : UploadRow(r, d) =>
              /\ Others(r) /\ pc[r] = "idle" /\ pc'[r] = "item"
              /\ req'[r].op = "upload" /\ req'[r].d = d /\ UNCHANGED << billing, item >>
         /\ \A d \in Docs, verdict \in Verdict : ReviewRow(r, d, verdict) =>
              /\ Others(r) /\ pc[r] = "idle" /\ pc'[r] = "item"
              /\ req'[r].op = "review" /\ req'[r].d = d /\ req'[r].to = verdict
              /\ UNCHANGED << billing, item >>
<1> USE BeginHere DEF Inv
<1>1. CreateDraft(r) =>
        Others(r) /\ pc[r] = "idle" /\ pc'[r] = "record" /\ UNCHANGED << billing, documents >>
  BY DEF CreateDraft
<1>2. SubmitCall(r) =>
        /\ Others(r) /\ pc[r] = "idle" /\ pc'[r] = "write" /\ req'[r].op = "submit"
        /\ UNCHANGED << billing, documents >>
  BY DEF SubmitCall, Call
<1>3. \A to \in StaffStatuses : StaffWrite(r, to) =>
        Others(r) /\ pc[r] = "idle" /\ pc'[r] = "record" /\ UNCHANGED << billing, documents >>
  BY DEF StaffWrite
<1>4. QuoteCall(r) => Others(r) /\ pc[r] = "idle" /\ pc'[r] = "write" /\ UNCHANGED << billing, documents >>
  BY DEF QuoteCall
<1>5. MissingItem(r) => Others(r) /\ pc[r] = "idle" /\ pc'[r] = "flag" /\ UNCHANGED << billing, doc >>
  BY DEF MissingItem
<1>6. \A q \in Quotes : AmendWrite(r, q) =>
        /\ Others(r) /\ pc[r] = "idle" /\ pc'[r] = "insert" /\ req'[r].q = q
        /\ UNCHANGED << charged, accepted, documents >>
  BY DEF AmendWrite, Call
<1>7. \A d \in Docs : UploadRow(r, d) =>
        /\ Others(r) /\ pc[r] = "idle" /\ pc'[r] = "item"
        /\ req'[r].op = "upload" /\ req'[r].d = d /\ UNCHANGED << billing, item >>
  BY DEF UploadRow, Call
<1>8. \A d \in Docs, verdict \in Verdict : ReviewRow(r, d, verdict) =>
        /\ Others(r) /\ pc[r] = "idle" /\ pc'[r] = "item"
        /\ req'[r].op = "review" /\ req'[r].d = d /\ req'[r].to = verdict
        /\ UNCHANGED << billing, item >>
  BY DEF ReviewRow, Call
<1>9. QED
  BY <1>1, <1>2, <1>3, <1>4, <1>5, <1>6, <1>7, <1>8

LEMMA RespondGoes ==
  ASSUME Inv, NEW r \in Requests, NEW q \in Quotes, NEW answer \in Answers, NEW admin \in BOOLEAN,
         RespondWrite(r, q, answer, admin)
  PROVE  /\ Others(r) /\ pc[r] = "idle" /\ UNCHANGED << charged, documents >>
         /\ answer = "accepted" => pc'[r] = "accept" /\ req'[r].q = q /\ req'[r].admin = admin
         /\ answer # "accepted" => pc'[r] = "idle" /\ UNCHANGED accepted
  BY BeginHere DEF Inv, RespondWrite, Call, handlers, Others

\* Where a handler goes on.
LEMMA HandlersGo ==
  ASSUME Inv, NEW r \in Requests
  PROVE  /\ SubmitWrite(r) =>
              /\ Others(r) /\ pc[r] = "write" /\ req[r].op = "submit" /\ pc'[r] = "record"
              /\ UNCHANGED << billing, documents >>
         /\ Record(r) =>
              Others(r) /\ pc[r] = "record" /\ pc'[r] \in { "seed", "idle" } /\ UNCHANGED << billing, documents >>
         /\ SeedChecklist(r) =>
              Others(r) /\ pc[r] = "seed" /\ pc'[r] = "idle" /\ UNCHANGED << billing, doc >>
         /\ QuoteInsert(r) =>
              /\ Others(r) /\ pc[r] = "write" /\ req[r].op = "quote" /\ req'[r] = req[r]
              /\ pc'[r] = (IF req[r].q = None THEN "announce" ELSE "amend")
              /\ UNCHANGED << charged, accepted, documents >>
         /\ QuoteAmend(r) =>
              /\ Others(r) /\ pc[r] = "amend" /\ pc'[r] = "announce"
              /\ UNCHANGED << charged, accepted, documents >>
         /\ QuoteAnnounce(r) =>
              Others(r) /\ pc[r] = "announce" /\ pc'[r] = "idle" /\ UNCHANGED << billing, documents >>
         /\ AmendInsert(r) =>
              Others(r) /\ pc[r] = "insert" /\ pc'[r] = "idle" /\ UNCHANGED << charged, accepted, documents >>
         /\ AcceptRequest(r) =>
              /\ Others(r) /\ pc[r] = "accept" /\ pc'[r] = "charge" /\ req'[r] = req[r]
              /\ UNCHANGED << billing, documents >>
         /\ CreateFromQuote(r) =>
              Others(r) /\ pc[r] = "charge" /\ pc'[r] = "idle" /\ UNCHANGED << quote, accepted, documents >>
         /\ UploadItem(r) \/ ReviewItem(r) =>
              Others(r) /\ pc[r] = "item" /\ pc'[r] = "idle" /\ UNCHANGED << billing, doc >>
         /\ MissingRequest(r) =>
              Others(r) /\ pc[r] = "flag" /\ pc'[r] = "idle" /\ UNCHANGED << billing, documents >>
<1> USE FinishHere, GotoHere DEF Inv
<1>1. SubmitWrite(r) =>
        /\ Others(r) /\ pc[r] = "write" /\ req[r].op = "submit" /\ pc'[r] = "record"
        /\ UNCHANGED << billing, documents >>
  BY DEF SubmitWrite, At
<1>2. Record(r) =>
        Others(r) /\ pc[r] = "record" /\ pc'[r] \in { "seed", "idle" } /\ UNCHANGED << billing, documents >>
  BY DEF Record
<1>3. SeedChecklist(r) =>
        Others(r) /\ pc[r] = "seed" /\ pc'[r] = "idle" /\ UNCHANGED << billing, doc >>
  BY DEF SeedChecklist
<1>4. QuoteInsert(r) =>
        /\ Others(r) /\ pc[r] = "write" /\ req[r].op = "quote" /\ req'[r] = req[r]
        /\ pc'[r] = (IF req[r].q = None THEN "announce" ELSE "amend")
        /\ UNCHANGED << charged, accepted, documents >>
  BY DEF QuoteInsert, At, Insert
<1>5. QuoteAmend(r) =>
        /\ Others(r) /\ pc[r] = "amend" /\ pc'[r] = "announce"
        /\ UNCHANGED << charged, accepted, documents >>
  BY DEF QuoteAmend
<1>6. QuoteAnnounce(r) =>
        Others(r) /\ pc[r] = "announce" /\ pc'[r] = "idle" /\ UNCHANGED << billing, documents >>
  BY DEF QuoteAnnounce
<1>7. AmendInsert(r) =>
        Others(r) /\ pc[r] = "insert" /\ pc'[r] = "idle" /\ UNCHANGED << charged, accepted, documents >>
  BY DEF AmendInsert, Insert
<1>8. AcceptRequest(r) =>
        /\ Others(r) /\ pc[r] = "accept" /\ pc'[r] = "charge" /\ req'[r] = req[r]
        /\ UNCHANGED << billing, documents >>
  BY DEF AcceptRequest
<1>9. CreateFromQuote(r) =>
        Others(r) /\ pc[r] = "charge" /\ pc'[r] = "idle" /\ UNCHANGED << quote, accepted, documents >>
  BY DEF CreateFromQuote
<1>10. UploadItem(r) \/ ReviewItem(r) =>
        Others(r) /\ pc[r] = "item" /\ pc'[r] = "idle" /\ UNCHANGED << billing, doc >>
  BY DEF UploadItem, ReviewItem, At
<1>11. MissingRequest(r) =>
        Others(r) /\ pc[r] = "flag" /\ pc'[r] = "idle" /\ UNCHANGED << billing, documents >>
  BY DEF MissingRequest
<1>12. QED
  BY <1>1, <1>2, <1>3, <1>4, <1>5, <1>6, <1>7, <1>8, <1>9, <1>10, <1>11

-----------------------------------------------------------------------------
(* The item, one handler at a time *)

Alone(r) == \A s \in Requests \ {r} : pc[s] = "idle"

LEMMA AloneStays ==
  ASSUME NEW r \in Requests, Alone(r), Others(r)
  PROVE  Alone(r)'
  BY DEF Alone, Others

LEMMA ItemFrame ==
  ASSUME NEW r \in Requests, ItemShows, UNCHANGED documents, Others(r), pc[r] # "item", pc'[r] # "item"
  PROVE  ItemShows'
  BY DEF ItemShows, Others, documents

\* Between two handlers nothing about the item is under way.
LEMMA ItemAtRest ==
  ASSUME NEW r \in Requests, ItemShows, Alone(r), pc[r] = "idle", item # None, item.doc # None
  PROVE  /\ doc[item.doc] # None
         /\ item.status # "missing" =>
              item.status = IF doc[item.doc] = "pending" THEN "uploaded" ELSE doc[item.doc]
  BY DEF ItemShows, Alone

LEMMA ItemCalls ==
  ASSUME Inv, ItemShows, NEW r \in Requests, Alone(r), pc[r] = "idle", Arrive(r)
  PROVE  ItemShows'
<1>1. TypeOK /\ (item # None => item \in ItemType)
  BY DEF Inv, TypeOK
<1>2. CASE CreateDraft(r) \/ SubmitCall(r) \/ QuoteCall(r)
  BY <1>2, CallsGo, ItemFrame
<1>3. CASE \E to \in StaffStatuses : StaffWrite(r, to)
  BY <1>3, CallsGo, ItemFrame
<1>4. CASE \E q \in Quotes : AmendWrite(r, q)
  BY <1>4, CallsGo, ItemFrame
<1>5. CASE \E q \in Quotes, answer \in Answers, admin \in BOOLEAN : RespondWrite(r, q, answer, admin)
  BY <1>5, RespondGoes, ItemFrame
<1>6. CASE MissingItem(r)
  <2>1. Others(r) /\ pc'[r] = "flag" /\ doc' = doc
    BY <1>6, CallsGo
  <2>2. item # None /\ item' = [item EXCEPT !.status = "missing"]
    BY <1>6 DEF MissingItem
  <2>3. item'.status = "missing" /\ item'.doc = item.doc
    BY <1>1, <2>2 DEF ItemType
  <2>4. \A s \in Requests : pc'[s] # "item"
    BY <2>1 DEF Alone, Others
  <2>5. QED
    BY <2>1, <2>2, <2>3, <2>4 DEF ItemShows
<1>7. ASSUME NEW d \in Docs, UploadRow(r, d) PROVE ItemShows'
  <2>1. Alone(r)' /\ pc'[r] = "item" /\ req'[r].op = "upload" /\ req'[r].d = d /\ item' = item
    BY <1>7, CallsGo, AloneStays
  <2>2. doc[d] = None /\ doc' = [doc EXCEPT ![d] = "pending"]
    BY <1>7 DEF UploadRow
  <2>3. item # None /\ item.doc # None => item.doc \in Docs \ {d} /\ doc'[item.doc] = doc[item.doc]
    BY <1>1, <2>2, ItemAtRest DEF TypeOK, ItemType
  <2>4. doc'[d] = "pending"
    BY <1>1, <2>2 DEF TypeOK
  <2>5. QED
    BY <2>1, <2>3, <2>4, ItemAtRest DEF ItemShows, Alone
<1>8. ASSUME NEW d \in Docs, NEW verdict \in Verdict, ReviewRow(r, d, verdict) PROVE ItemShows'
  <2>1. /\ Alone(r)' /\ pc'[r] = "item" /\ item' = item
        /\ req'[r].op = "review" /\ req'[r].d = d /\ req'[r].to = verdict
    BY <1>8, CallsGo, AloneStays
  <2>2. doc' = [doc EXCEPT ![d] = verdict] /\ verdict # None
    BY <1>8, ConstantsAssumption DEF ReviewRow, DocStatus
  <2>3. doc'[d] = verdict /\ \A c \in Docs \ {d} : doc'[c] = doc[c]
    BY <1>1, <2>2 DEF TypeOK
  <2>4. item # None /\ item.doc # None => item.doc \in Docs
    BY <1>1 DEF ItemType
  <2>5. QED
    BY <2>1, <2>2, <2>3, <2>4, ItemAtRest DEF ItemShows, Alone
<1>9. QED
  BY <1>2, <1>3, <1>4, <1>5, <1>6, <1>7, <1>8 DEF Arrive

LEMMA ItemSteps ==
  ASSUME Inv, ItemShows, NEW r \in Requests, Alone(r), Proceed(r)
  PROVE  ItemShows'
<1>1. TypeOK /\ (item # None => item \in ItemType) /\ Known(r)
  BY DEF Inv, TypeOK
<1>2. CASE SubmitWrite(r) \/ Record(r) \/ QuoteInsert(r) \/ QuoteAmend(r) \/ QuoteAnnounce(r)
  BY <1>2, HandlersGo, ItemFrame
<1>3. CASE AmendInsert(r) \/ AcceptRequest(r) \/ CreateFromQuote(r) \/ MissingRequest(r)
  BY <1>3, HandlersGo, ItemFrame
<1>4. CASE SeedChecklist(r)
  <2>1. Others(r) /\ pc'[r] = "idle" /\ \E s \in { "required", "missing" } : item' = [ status |-> s, doc |-> None ]
    BY <1>4, HandlersGo DEF SeedChecklist
  <2>2. item'.doc = None /\ \A s \in Requests : pc'[s] # "item"
    BY <2>1 DEF Others, Alone
  <2>3. QED
    BY <2>2 DEF ItemShows
<1>5. CASE UploadItem(r)
  <2>1. /\ Others(r) /\ pc[r] = "item" /\ pc'[r] = "idle" /\ doc' = doc /\ req[r].op = "upload"
        /\ item' = IF item = None THEN None ELSE [ status |-> "uploaded", doc |-> req[r].d ]
    BY <1>5, HandlersGo DEF UploadItem, At
  <2>2. doc[req[r].d] = "pending" /\ "pending" # None /\ \A s \in Requests : pc'[s] # "item"
    BY <2>1, ConstantsAssumption DEF ItemShows, Others, Alone, DocStatus
  <2>3. QED
    BY <2>1, <2>2 DEF ItemShows
<1>6. CASE ReviewItem(r)
  <2>1. /\ Others(r) /\ pc[r] = "item" /\ pc'[r] = "idle" /\ doc' = doc /\ req[r].op = "review"
        /\ item' = IF item # None /\ item.doc = req[r].d THEN [item EXCEPT !.status = req[r].to] ELSE item
    BY <1>6, HandlersGo DEF ReviewItem, At
  <2>2. doc[req[r].d] = req[r].to /\ req[r].to \in Verdict /\ \A s \in Requests : pc'[s] # "item"
    BY <1>1, <2>1 DEF ItemShows, Others, Alone, Known
  <2>3. req[r].to # "pending" /\ req[r].to # None
    BY <2>2, ConstantsAssumption DEF Verdict, DocStatus
  <2>4. CASE item # None /\ item.doc = req[r].d
    <3>1. item'.status = req[r].to /\ item'.doc = item.doc
      BY <1>1, <2>1, <2>4 DEF ItemType
    <3>2. QED
      BY <2>1, <2>2, <2>3, <2>4, <3>1 DEF ItemShows
  <2>5. CASE ~ (item # None /\ item.doc = req[r].d)
    <3>1. item' = item
      BY <2>1, <2>5
    <3>2. ~ \E s \in Requests : pc[s] = "item" /\ req[s].op = "review" /\ req[s].d = item.doc /\ item # None
      BY <2>5 DEF Alone
    <3>3. QED
      BY <2>1, <2>2, <3>1, <3>2 DEF ItemShows
  <2>6. QED
    BY <2>4, <2>5
<1>7. QED
  BY <1>2, <1>3, <1>4, <1>5, <1>6 DEF Proceed

-----------------------------------------------------------------------------
(* Charges *)

LEMMA ChargesFrame ==
  ASSUME Inv, NEW r \in Requests, ChargesDue, Others(r), UNCHANGED << charged, accepted, linked >>,
         ~ Answering(r)
  PROVE  ChargesDue'
  BY DEF ChargesDue, Others, Answering

\* Between the first draft and a PATCH the request keeps its order.
LEMMA LinkedStays ==
  ASSUME Inv, NEW r \in Requests, Arrive(r) \/ Proceed(r), ~ CreateDraft(r)
  PROVE  linked' = linked
<1>1. CASE Arrive(r)
  BY <1>1 DEF Arrive, SubmitCall, QuoteCall, MissingItem, StaffWrite, AmendWrite, RespondWrite,
     UploadRow, ReviewRow, SetStatus, request
<1>2. CASE Proceed(r)
  BY <1>2 DEF Proceed, SubmitWrite, Record, SeedChecklist, QuoteInsert, QuoteAmend, QuoteAnnounce, AmendInsert,
     AcceptRequest, CreateFromQuote, UploadItem, ReviewItem, MissingRequest, SetStatus, request
<1>3. QED
  BY <1>1, <1>2

LEMMA StatusIsThere ==
  ASSUME Inv, NEW r \in Requests, Arrive(r) \/ Proceed(r), status # None
  PROVE  status' # None
<1>1. None \notin Status
  BY ConstantsAssumption
<1>2. CASE Arrive(r)
  BY <1>1, <1>2 DEF Arrive, CreateDraft, SubmitCall, QuoteCall, MissingItem, StaffWrite, AmendWrite, RespondWrite,
     UploadRow, ReviewRow, SetStatus, request, Status
<1>3. CASE Proceed(r)
  BY <1>1, <1>3 DEF Proceed, SubmitWrite, Record, SeedChecklist, QuoteInsert, QuoteAmend, QuoteAnnounce, AmendInsert,
     AcceptRequest, CreateFromQuote, UploadItem, ReviewItem, MissingRequest, SetStatus, request, Status
<1>4. QED
  BY <1>2, <1>3

LEMMA UnlinkedKeeps ==
  ASSUME Inv, Unlinked, [Next]_vars
  PROVE  Unlinked'
<1>1. ASSUME NEW r \in Requests, CreateDraft(r) PROVE Unlinked'
  BY <1>1, ConstantsAssumption DEF CreateDraft, Unlinked, Status
<1>2. ASSUME NEW r \in Requests, Arrive(r) \/ Proceed(r), ~ CreateDraft(r) PROVE Unlinked'
  BY <1>2, LinkedStays, StatusIsThere DEF Unlinked
<1>3. ASSUME NEW l \in BOOLEAN, NEW to \in Status, Update(l, to) PROVE Unlinked'
  BY <1>3, ConstantsAssumption DEF Update, Unlinked
<1>4. ASSUME UNCHANGED << status, linked >> PROVE Unlinked'
  BY <1>4 DEF Unlinked
<1>5. ASSUME NEW r \in Requests, Abort(r) PROVE Unlinked'
  BY <1>4, <1>5 DEF Abort, request
<1>6. ASSUME NEW q \in Quotes, RemoveCharges(q) PROVE Unlinked'
  BY <1>4, <1>6 DEF RemoveCharges, request
<1>7. CASE UNCHANGED vars
  BY <1>4, <1>7 DEF vars, request
<1>8. QED
  BY <1>1, <1>2, <1>3, <1>5, <1>6, <1>7 DEF Next

LEMMA ChargeCalls ==
  ASSUME Inv, Unlinked, ChargesDue, NEW r \in Requests, Arrive(r)
  PROVE  ChargesDue'
<1>1. CASE CreateDraft(r)
  <2>1. UNCHANGED << charged, accepted >> /\ ~ linked
    BY <1>1, CallsGo DEF billing, CreateDraft, Unlinked
  <2>2. QED
    BY <2>1 DEF ChargesDue
<1>2. ASSUME Others(r), pc[r] = "idle", UNCHANGED << charged, accepted >>, ~ CreateDraft(r)
      PROVE  ChargesDue'
  BY <1>2, LinkedStays, ChargesFrame DEF Answering
<1>3. CASE SubmitCall(r) \/ QuoteCall(r) \/ MissingItem(r)
  BY <1>1, <1>2, <1>3, CallsGo DEF billing
<1>4. CASE \E to \in StaffStatuses : StaffWrite(r, to)
  BY <1>1, <1>2, <1>4, CallsGo DEF billing
<1>5. CASE \E q \in Quotes : AmendWrite(r, q)
  BY <1>1, <1>2, <1>5, CallsGo
<1>6. CASE \E d \in Docs : UploadRow(r, d)
  BY <1>1, <1>2, <1>6, CallsGo DEF billing
<1>7. CASE \E d \in Docs, verdict \in Verdict : ReviewRow(r, d, verdict)
  BY <1>1, <1>2, <1>7, CallsGo DEF billing
<1>8. ASSUME NEW q \in Quotes, NEW answer \in Answers, NEW admin \in BOOLEAN, RespondWrite(r, q, answer, admin)
      PROVE  ChargesDue'
  <2>1. Others(r) /\ pc[r] = "idle" /\ charged' = charged /\ linked' = linked
    BY <1>8, RespondGoes DEF RespondWrite, request
  <2>2. CASE answer # "accepted"
    BY <1>8, <2>1, <2>2, RespondGoes, ChargesFrame DEF Answering
  <2>3. CASE answer = "accepted"
    <3>1. pc'[r] = "accept" /\ req'[r].q = q /\ req'[r].admin = admin
      BY <1>8, <2>3, RespondGoes
    <3>2. accepted' = [accepted EXCEPT ![q] = @ \union { [ admin |-> admin, linked |-> linked ] }]
      BY <1>8, <2>3 DEF RespondWrite
    <3>3. \A p \in Quotes \ {q} : accepted'[p] = accepted[p]
      BY <3>2 DEF Inv, TypeOK
    <3>4. ForOrder \in accepted'[q] => (admin /\ linked) \/ ForOrder \in accepted[q]
      BY <3>2 DEF Inv, TypeOK, ForOrder
    <3>5. QED
      BY <2>1, <3>1, <3>3, <3>4 DEF ChargesDue, Others, Answering
  <2>4. QED
    BY <2>2, <2>3
<1>9. QED
  BY <1>1, <1>3, <1>4, <1>5, <1>6, <1>7, <1>8 DEF Arrive

LEMMA ChargeSteps ==
  ASSUME Inv, ChargesDue, NEW r \in Requests, Proceed(r)
  PROVE  ChargesDue'
<1>1. pc[r] # "idle" /\ ~ CreateDraft(r)
  BY HandlersGo DEF Proceed, CreateDraft, Begin
<1>2. linked' = linked
  BY <1>1, LinkedStays
<1>3. CASE SubmitWrite(r) \/ Record(r) \/ SeedChecklist(r) \/ QuoteInsert(r) \/ QuoteAmend(r) \/ QuoteAnnounce(r)
  BY <1>2, <1>3, HandlersGo, ChargesFrame DEF billing, Answering
<1>4. CASE AmendInsert(r) \/ UploadItem(r) \/ ReviewItem(r) \/ MissingRequest(r)
  BY <1>2, <1>4, HandlersGo, ChargesFrame DEF billing, Answering
<1>5. CASE AcceptRequest(r)
  BY <1>2, <1>5, HandlersGo DEF ChargesDue, Others, billing, Answering
<1>6. CASE CreateFromQuote(r)
  <2>1. Others(r) /\ pc[r] = "charge" /\ pc'[r] = "idle" /\ accepted' = accepted /\ req[r].q \in Quotes
    BY <1>6, HandlersGo DEF Inv, Known
  <2>2. charged' = IF req[r].admin /\ linked THEN [charged EXCEPT ![req[r].q] = @ + 1] ELSE charged
    BY <1>6 DEF CreateFromQuote, Chargeable
  <2>3. charged \in [Quotes -> Nat]
    BY DEF Inv, TypeOK
  <2>4. \A q \in Quotes : charged[q] > 0 => charged'[q] > 0
    BY <2>2, <2>3
  <2>5. req[r].admin /\ linked => charged'[req[r].q] > 0
    BY <2>1, <2>2, <2>3
  <2>6. QED
    BY <1>2, <2>1, <2>4, <2>5 DEF ChargesDue, Others, Answering
<1>7. QED
  BY <1>3, <1>4, <1>5, <1>6 DEF Proceed

-----------------------------------------------------------------------------
(* The open quote, one handler at a time *)

LEMMA VersionsCount ==
  ASSUME TypeOK, NEW q \in Revisable
  PROVE  q \in Quotes /\ quote[q].version \in Nat \ {0}
  BY DEF TypeOK, Revisable, QuoteType

LEMMA OpenIsRevisable == \A q \in Quotes : Open(q) => q \in Revisable
  BY DEF Open, Revisable

\* Between two handlers the open quote is newer than all it replaces.
LEMMA QuotesAtRest ==
  ASSUME NEW r \in Requests, OpenIsNewest, Alone(r), pc[r] # "amend"
  PROVE  Newest({})
<1>1. Replaced = {}
  BY DEF Replaced, Alone
<1>2. QED
  BY <1>1 DEF OpenIsNewest

LEMMA NewestFrame ==
  ASSUME NEW except, Newest(except), UNCHANGED quote
  PROVE  Newest(except)'
  BY DEF Newest, Open, Revisable

\* A step after which no handler relies on a quote.
LEMMA QuotesRest ==
  ASSUME NEW r \in Requests, Alone(r), Others(r), pc'[r] \notin { "amend", "insert" }, ~ At(r, "write", "quote")',
         Newest({})'
  PROVE  OpenIsNewest'
<1>1. \A s \in Requests : pc'[s] \notin { "amend", "insert" } /\ ~ At(s, "write", "quote")'
  BY DEF Alone, Others, At
<1>2. Replaced' = {}
  BY <1>1 DEF Replaced
<1>3. \A s \in Requests : QuoteInHand(s)'
  BY <1>1 DEF QuoteInHand
<1>4. QED
  BY <1>2, <1>3 DEF OpenIsNewest

LEMMA QuotesFrame ==
  ASSUME NEW r \in Requests, OpenIsNewest, Alone(r), Others(r), UNCHANGED quote,
         pc[r] # "amend", pc'[r] \notin { "amend", "insert" }, ~ At(r, "write", "quote")'
  PROVE  OpenIsNewest'
  BY QuotesAtRest, NewestFrame, QuotesRest

\* The status of one quote is written.
LEMMA WrittenQuote ==
  ASSUME TypeOK, NEW q \in Quotes, quote[q] # None, NEW to \in QuoteStatus, WriteQuote(q, to)
  PROVE  /\ \A p \in Quotes \ {q} : quote'[p] = quote[p] /\ (Open(p)' <=> Open(p))
         /\ quote'[q] # None /\ quote'[q].status = to /\ quote'[q].version = quote[q].version
         /\ Open(q)' <=> to \in { "sent", "countered" }
         /\ Revisable' = (Revisable \ {q}) \union {p \in {q} : to \in { "sent", "countered", "amended" }}
<1>1. quote[q] \in QuoteType
  BY DEF TypeOK
<1>2. [quote[q] EXCEPT !.status = to] \in QuoteType
  BY <1>1 DEF QuoteType
<1>3. quote' = [quote EXCEPT ![q] = [quote[q] EXCEPT !.status = to]]
  BY DEF WriteQuote
<1>4. quote'[q] = [quote[q] EXCEPT !.status = to] /\ \A p \in Quotes \ {q} : quote'[p] = quote[p]
  BY <1>3 DEF TypeOK
<1>5. quote'[q] # None /\ quote'[q].status = to /\ quote'[q].version = quote[q].version
  BY <1>1, <1>2, <1>4, RowIsThere DEF QuoteType
<1>6. (\A p \in Quotes \ {q} : Open(p)' <=> Open(p)) /\ (Open(q)' <=> to \in { "sent", "countered" })
  BY <1>4, <1>5 DEF Open
<1>7. Revisable' = (Revisable \ {q}) \union {p \in {q} : to \in { "sent", "countered", "amended" }}
  BY <1>4, <1>5 DEF Revisable
<1>8. QED
  BY <1>4, <1>5, <1>6, <1>7

\* A quote is inserted, newer than every quote that may be revised.
LEMMA InsertedQuote ==
  ASSUME TypeOK, NEW version \in Nat \ {0}, Insert(version), NEW except,
         \A p \in Quotes : Open(p) => p \in except,
         \A q \in Revisable : quote[q].version < version
  PROVE  Newest(except)'
<1> PICK n \in Quotes : /\ quote[n] = None
                        /\ quote' = [quote EXCEPT ![n] = [ version |-> version, status |-> "sent" ]]
  BY DEF Insert
<1>1. quote'[n] = [ version |-> version, status |-> "sent" ] /\ \A p \in Quotes \ {n} : quote'[p] = quote[p]
  BY DEF TypeOK
<1>2. quote'[n].version = version
  BY <1>1
<1> SUFFICES ASSUME NEW p \in Quotes, NEW q \in Quotes, Open(p)', q \in Revisable', p # q, p \notin except
             PROVE  quote'[q].version < quote'[p].version
  BY DEF Newest
<1>3. CASE p = n
  <2>1. q \in Revisable /\ quote'[q] = quote[q]
    BY <1>1, <1>3 DEF Revisable
  <2>2. QED
    BY <1>2, <1>3, <2>1
<1>4. CASE p # n
  BY <1>1, <1>4 DEF Open
<1>5. QED
  BY <1>3, <1>4

LEMMA KeptRevisable ==
  ASSUME NEW version, Insert(version)
  PROVE  Revisable \subseteq Revisable'
  BY DEF Insert, Revisable

LEMMA QuoteCalls ==
  ASSUME Inv, OpenIsNewest, NEW r \in Requests, Alone(r), pc[r] = "idle", Arrive(r), ~ Revives
  PROVE  OpenIsNewest'
<1>1. TypeOK /\ Newest({})
  BY QuotesAtRest DEF Inv
<1>2. CASE CreateDraft(r) \/ MissingItem(r)
  BY <1>2, CallsGo, QuotesFrame DEF billing, At
<1>3. CASE SubmitCall(r)
  BY <1>3, CallsGo, QuotesFrame DEF billing, At
<1>4. CASE \E to \in StaffStatuses : StaffWrite(r, to)
  BY <1>4, CallsGo, QuotesFrame DEF billing, At
<1>5. CASE \E d \in Docs : UploadRow(r, d)
  BY <1>5, CallsGo, QuotesFrame DEF billing, At
<1>6. CASE \E d \in Docs, verdict \in Verdict : ReviewRow(r, d, verdict)
  BY <1>6, CallsGo, QuotesFrame DEF billing, At
<1>7. CASE QuoteCall(r)
  <2> PICK q \in Latest : Begin(r, "write", Call("quote", q, None, None, TRUE))
    BY <1>7 DEF QuoteCall
  <2>1. Others(r) /\ pc'[r] = "write" /\ req'[r].q = q /\ quote' = quote
    BY <1>1, <1>7, CallsGo, BeginHere DEF Call, billing
  <2>2. Newest({})' /\ Revisable' = Revisable /\ \A s \in Requests : pc'[s] # "amend"
    BY <1>1, <2>1, NewestFrame DEF Revisable, Alone, Others
  <2>3. Replaced' = {}
    BY <2>2 DEF Replaced
  <2>4. IF q = None THEN Revisable = {}
        ELSE q \in Revisable /\ \A p \in Revisable : quote[p].version <= quote[q].version
    BY ConstantsAssumption DEF Latest, Revisable
  <2>5. \A s \in Requests : QuoteInHand(s)'
    BY <2>1, <2>2, <2>4 DEF QuoteInHand, At, Alone, Others
  <2>6. QED
    BY <2>2, <2>3, <2>5 DEF OpenIsNewest
<1>8. ASSUME NEW q \in Quotes, AmendWrite(r, q) PROVE OpenIsNewest'
  <2>1. Others(r) /\ pc'[r] = "insert" /\ req'[r].q = q
    BY <1>8, CallsGo
  <2>2. quote[q] # None /\ WriteQuote(q, "amended") /\ "amended" \in QuoteStatus
    BY <1>8 DEF AmendWrite, QuoteStatus
  <2>3. Open(q)
    BY <2>1, <2>2 DEF Revives
  <2>4. /\ \A p \in Quotes \ {q} : quote'[p] = quote[p] /\ (Open(p)' <=> Open(p))
        /\ quote'[q].version = quote[q].version /\ ~ Open(q)'
        /\ Revisable' \subseteq Revisable \union {q}
    BY <1>1, <2>2, WrittenQuote
  <2>5. \A p \in Revisable \ {q} : p \in Quotes /\ quote[p].version < quote[q].version /\ quote[p].version \in Nat
    BY <1>1, <2>3, VersionsCount DEF Newest
  <2>6. \A p \in Quotes : ~ Open(p)'
    <3> SUFFICES ASSUME NEW p \in Quotes \ {q}, Open(p) PROVE FALSE
      BY <2>4
    <3>1. p \in Revisable /\ q \in Revisable
      BY <2>3, OpenIsRevisable
    <3>2. quote[q].version < quote[p].version /\ quote[q].version \in Nat
      BY <1>1, <3>1, VersionsCount DEF Newest
    <3>3. QED
      BY <2>5, <3>1, <3>2
  <2>7. \A p \in Revisable' : quote'[p].version <= quote'[q].version
    <3> SUFFICES ASSUME NEW p \in Revisable' PROVE quote'[p].version <= quote'[q].version
      OBVIOUS
    <3>1. quote[q].version \in Nat
      BY <1>1, <2>3, OpenIsRevisable, VersionsCount
    <3>2. CASE p = q
      BY <2>4, <3>1, <3>2
    <3>3. CASE p # q
      <4>1. p \in Revisable \ {q} /\ quote'[p] = quote[p]
        BY <2>4, <2>5, <3>3
      <4>2. QED
        BY <2>4, <2>5, <3>1, <4>1
    <3>4. QED
      BY <3>2, <3>3
  <2>8. \A s \in Requests : QuoteInHand(s)'
    BY <2>1, <2>6, <2>7 DEF QuoteInHand, At, Alone, Others
  <2>9. Newest(Replaced)'
    BY <2>6 DEF Newest
  <2>10. QED
    BY <2>8, <2>9 DEF OpenIsNewest
<1>9. ASSUME NEW q \in Quotes, NEW answer \in Answers, NEW admin \in BOOLEAN, RespondWrite(r, q, answer, admin)
      PROVE  OpenIsNewest'
  <2>1. Others(r) /\ pc'[r] \in { "accept", "idle" }
    BY <1>9, RespondGoes
  <2>2. quote[q] # None /\ WriteQuote(q, answer) /\ answer \in QuoteStatus \ { "sent" }
    BY <1>9 DEF RespondWrite, Answers, QuoteStatus
  <2>3. /\ \A p \in Quotes \ {q} : quote'[p] = quote[p] /\ (Open(p)' <=> Open(p))
        /\ quote'[q].version = quote[q].version /\ (Open(q)' <=> answer \in { "sent", "countered" })
        /\ Revisable' = (Revisable \ {q}) \union {p \in {q} : answer \in { "sent", "countered", "amended" }}
    BY <1>1, <2>2, WrittenQuote
  <2>4. CASE Open(q)
    <3>1. \A p \in Quotes : Open(p)' => Open(p)
      BY <2>3, <2>4
    <3>2. Revisable' \subseteq Revisable /\ \A p \in Quotes : quote'[p].version = quote[p].version
      BY <2>3, <2>4, OpenIsRevisable
    <3>3. Newest({})'
      BY <1>1, <3>1, <3>2 DEF Newest
    <3>4. QED
      BY <2>1, <3>3, QuotesRest DEF At
  <2>5. CASE ~ Open(q)
    <3>1. quote'[q] = quote[q]
      BY <2>2, <2>5 DEF Revives
    <3>2. \A p \in Quotes : quote'[p] = quote[p]
      BY <2>3, <3>1
    <3>3. Newest({})'
      BY <1>1, <3>2 DEF Newest, Open, Revisable
    <3>4. QED
      BY <2>1, <3>3, QuotesRest DEF At
  <2>6. QED
    BY <2>4, <2>5
<1>10. QED
  BY <1>2, <1>3, <1>4, <1>5, <1>6, <1>7, <1>8, <1>9 DEF Arrive

LEMMA QuoteSteps ==
  ASSUME Inv, OpenIsNewest, NEW r \in Requests, Alone(r), Proceed(r)
  PROVE  OpenIsNewest'
<1>1. TypeOK /\ Known(r) /\ QuoteInHand(r)
  BY DEF Inv, OpenIsNewest
<1>2. CASE SubmitWrite(r) \/ Record(r) \/ SeedChecklist(r) \/ QuoteAnnounce(r)
  BY <1>2, HandlersGo, QuotesFrame DEF billing, At
<1>3. CASE AcceptRequest(r) \/ CreateFromQuote(r) \/ UploadItem(r) \/ ReviewItem(r) \/ MissingRequest(r)
  BY <1>3, HandlersGo, QuotesFrame DEF billing, At
<1>4. CASE QuoteInsert(r)
  <2> PICK prev \in Quotes \union {None} : prev = req[r].q
    BY <1>1, <1>4 DEF QuoteInsert, At, Known
  <2> DEFINE version == IF prev = None THEN 1 ELSE quote[prev].version + 1
  <2>1. /\ Others(r) /\ pc[r] = "write" /\ req[r].op = "quote" /\ req'[r] = req[r]
        /\ pc'[r] = IF prev = None THEN "announce" ELSE "amend"
    BY <1>4, HandlersGo
  <2>2. Insert(version)
    BY <1>4 DEF QuoteInsert
  <2>3. IF prev = None THEN Revisable = {}
        ELSE prev \in Revisable /\ \A q \in Revisable : quote[q].version <= quote[prev].version
    BY <1>1, <2>1 DEF QuoteInHand, At
  <2>4. Newest({})
    BY <2>1, QuotesAtRest
  <2>5. version \in Nat \ {0}
    BY <1>1, <2>3, VersionsCount
  <2>6. \A q \in Revisable : quote[q].version < version
    BY <1>1, <2>3, VersionsCount
  <2>7. \A p \in Quotes : Open(p) => prev # None /\ p \in {prev}
    <3> SUFFICES ASSUME NEW p \in Quotes, Open(p), prev = None \/ p # prev PROVE FALSE
      OBVIOUS
    <3>1. p \in Revisable
      BY OpenIsRevisable
    <3>2. prev \in Revisable /\ quote[p].version <= quote[prev].version /\ p # prev
      BY <2>3, <3>1
    <3>3. quote[prev].version < quote[p].version
      BY <2>4, <3>2, VersionsCount, <1>1 DEF Newest
    <3>4. QED
      BY <1>1, <3>1, <3>2, <3>3, VersionsCount
  <2> HIDE DEF version
  <2>8. CASE prev = None
    <3>1. \A p \in Quotes : Open(p) => p \in {}
      BY <2>7, <2>8
    <3>2. Newest({})'
      BY <1>1, <2>2, <2>5, <2>6, <3>1, InsertedQuote
    <3>3. QED
      BY <2>1, <2>8, <3>2, QuotesRest DEF At
  <2>9. CASE prev # None
    <3>1. Newest({prev})'
      BY <1>1, <2>2, <2>5, <2>6, <2>7, InsertedQuote
    <3>2. pc'[r] = "amend" /\ \A s \in Requests \ {r} : pc'[s] = "idle"
      BY <2>1, <2>9 DEF Alone, Others
    <3>3. Replaced' = {prev}
      BY <2>1, <3>2 DEF Replaced
    <3>4. \A s \in Requests : QuoteInHand(s)'
      <4>1. req'[r].q \in Revisable'
        BY <2>1, <2>2, <2>3, <2>9, KeptRevisable
      <4>2. QED
        BY <3>2, <4>1 DEF QuoteInHand, At
    <3>5. QED
      BY <3>1, <3>3, <3>4 DEF OpenIsNewest
  <2>10. QED
    BY <2>8, <2>9
<1>5. CASE QuoteAmend(r)
  <2> PICK q \in Quotes : q = req[r].q /\ quote[q] # None
    BY <1>1, <1>5 DEF QuoteAmend, Known
  <2>1. Others(r) /\ pc[r] = "amend" /\ pc'[r] = "announce" /\ WriteQuote(q, "amended")
    BY <1>5, HandlersGo DEF QuoteAmend
  <2>2. Replaced = {q}
    BY <2>1 DEF Replaced, Alone
  <2>3. Newest({q})
    BY <2>2 DEF OpenIsNewest
  <2>4. /\ \A p \in Quotes \ {q} : quote'[p] = quote[p] /\ (Open(p)' <=> Open(p))
        /\ quote'[q].version = quote[q].version /\ ~ Open(q)'
    BY <1>1, <2>1, WrittenQuote DEF QuoteStatus
  <2>5. Newest({})'
    <3> SUFFICES ASSUME NEW p \in Quotes, NEW n \in Quotes, Open(p)', n \in Revisable', p # n
                 PROVE  quote'[n].version < quote'[p].version
      BY DEF Newest
    <3>1. p # q /\ Open(p) /\ quote'[p] = quote[p]
      BY <2>4
    <3>2. CASE n = q
      BY <1>1, <2>1, <2>3, <2>4, <3>1, <3>2 DEF Newest, QuoteInHand
    <3>3. CASE n # q
      BY <2>3, <2>4, <3>1, <3>3 DEF Newest, Revisable
    <3>4. QED
      BY <3>2, <3>3
  <2>6. QED
    BY <2>1, <2>5, QuotesRest DEF At
<1>6. CASE AmendInsert(r)
  <2> PICK q \in Quotes : q = req[r].q /\ quote[q] # None
    BY <1>1, <1>6 DEF AmendInsert, Known
  <2> DEFINE version == quote[q].version + 1
  <2>1. Others(r) /\ pc[r] = "insert" /\ pc'[r] = "idle" /\ Insert(version)
    BY <1>6, HandlersGo DEF AmendInsert
  <2>2. /\ \A p \in Quotes : ~ Open(p)
        /\ \A p \in Revisable : quote[p].version <= quote[q].version
    BY <1>1, <2>1 DEF QuoteInHand
  <2>3. version \in Nat \ {0} /\ quote[q].version \in Nat
    BY <1>1 DEF TypeOK, QuoteType
  <2>4. \A p \in Revisable : quote[p].version < version
    BY <1>1, <2>2, <2>3, VersionsCount
  <2> HIDE DEF version
  <2>5. Newest({})'
    BY <1>1, <2>1, <2>2, <2>3, <2>4, InsertedQuote
  <2>6. QED
    BY <2>1, <2>5, QuotesRest DEF At
<1>7. QED
  BY <1>2, <1>3, <1>4, <1>5, <1>6 DEF Proceed

-----------------------------------------------------------------------------
(* MCSpec *)

LEMMA MCInitInv == MCInit => MCInv
<1> SUFFICES ASSUME MCInit PROVE MCInv
  OBVIOUS
<1>1. Inv /\ Init
  BY InitInv DEF MCInit
<1>2. \A r \in Requests : pc[r] = "idle"
  BY <1>1 DEF Init
<1>3. Single /\ ItemShows /\ Unlinked /\ ChargesDue
  BY <1>1, <1>2 DEF Init, Single, ItemShows, Unlinked, ChargesDue
<1>4. OpenIsNewest
  BY <1>1, <1>2 DEF Init, OpenIsNewest, Newest, QuoteInHand, At, Open
<1>5. QED
  BY <1>1, <1>3, <1>4 DEF MCInv

\* Every step of MCSpec is a step of Spec.
MCStep == MCNext \/ MCUpdate \/ MCRemove \/ MCLost

LEMMA MCStepIsStep == [MCStep]_mcVars => [Next]_vars
<1>1. MCNext => Next
  BY DEF MCNext, MCCall, Next
<1>2. MCUpdate => Next
  BY DEF MCUpdate, Next
<1>3. MCRemove => Next
  BY DEF MCRemove, Next
<1>4. MCLost => Next
  BY DEF MCLost, Next
<1>5. UNCHANGED mcVars => UNCHANGED vars
  BY DEF mcVars
<1>6. QED
  BY <1>1, <1>2, <1>3, <1>4, <1>5 DEF MCStep

LEMMA MCNextKeeps ==
  ASSUME MCInv, MCNext
  PROVE  MCInv'
<1>1. Inv /\ Inv' /\ Unlinked'
  BY MCStepIsStep, NextKeeps, UnlinkedKeeps DEF MCInv, MCStep
<1>2. disturbed' = (disturbed \/ Overlapping' \/ (MCCall /\ Busy # {})) /\ undone' = undone
  BY DEF MCNext
<1>3. ASSUME ~ disturbed' PROVE Single'
  BY <1>2, <1>3 DEF Overlapping, Busy, Single
<1>4. CASE MCCall
  <2> PICK r \in Requests : Arrive(r)
    BY <1>4 DEF MCCall
  <2>1. ASSUME ~ disturbed' PROVE Alone(r) /\ pc[r] = "idle" /\ ~ disturbed
    BY <1>2, <1>4, <2>1 DEF Busy, Alone
  <2>2. revived' = (revived \/ Revives)
    BY <1>4 DEF MCNext
  <2>3. ASSUME ~ disturbed' PROVE ItemShows'
    BY <1>1, <2>1, <2>3, ItemCalls DEF MCInv
  <2>4. ASSUME ~ disturbed', ~ revived' PROVE OpenIsNewest'
    BY <1>1, <2>1, <2>2, <2>4, QuoteCalls DEF MCInv
  <2>5. ASSUME ~ undone' PROVE ChargesDue'
    BY <1>1, <1>2, <2>5, ChargeCalls DEF MCInv
  <2>6. QED
    BY <1>1, <1>3, <2>3, <2>4, <2>5 DEF MCInv
<1>5. ASSUME NEW r \in Requests, Proceed(r) PROVE MCInv'
  <2>1. pc[r] # "idle"
    BY <1>1, <1>5, HandlersGo DEF Proceed
  <2>2. ASSUME ~ disturbed' PROVE Alone(r) /\ ~ disturbed
    BY <1>2, <2>1, <2>2 DEF MCInv, Single, Alone
  <2>4. ~ revived' => ~ revived
    BY DEF MCNext
  <2>5. ASSUME ~ disturbed' PROVE ItemShows'
    BY <1>1, <1>5, <2>2, <2>5, ItemSteps DEF MCInv
  <2>6. ASSUME ~ disturbed', ~ revived' PROVE OpenIsNewest'
    BY <1>1, <1>5, <2>2, <2>4, <2>6, QuoteSteps DEF MCInv
  <2>7. ASSUME ~ undone' PROVE ChargesDue'
    BY <1>1, <1>2, <1>5, <2>7, ChargeSteps DEF MCInv
  <2>8. QED
    BY <1>1, <1>3, <2>5, <2>6, <2>7 DEF MCInv
<1>6. QED
  BY <1>4, <1>5 DEF MCNext

\* A step that touches no item, no quote and no handler.
LEMMA PlacesKeep ==
  ASSUME MCInv, UNCHANGED << quote, documents, handlers, disturbed, revived >>
  PROVE  /\ ~ disturbed' => Single' /\ ItemShows'
         /\ ~ disturbed' /\ ~ revived' => OpenIsNewest'
<1>1. Single /\ ItemShows => Single' /\ ItemShows'
  BY DEF Single, ItemShows, documents, handlers
<1>2. OpenIsNewest => OpenIsNewest'
  BY DEF OpenIsNewest, Newest, Replaced, QuoteInHand, At, Open, Revisable, handlers
<1>3. QED
  BY <1>1, <1>2 DEF MCInv

LEMMA MCRemoveKeeps ==
  ASSUME MCInv, MCRemove
  PROVE  MCInv'
<1>1. Inv' /\ Unlinked'
  BY MCStepIsStep, NextKeeps, UnlinkedKeeps DEF MCInv, MCStep
<1>2. UNCHANGED << quote, documents, handlers, disturbed, revived >> /\ undone'
  BY DEF MCRemove, RemoveCharges
<1>3. QED
  BY <1>1, <1>2, PlacesKeep DEF MCInv

\* A PATCH while an answer is under way may only give the request an order.
LEMMA MCUpdateKeeps ==
  ASSUME MCInv, MCUpdate
  PROVE  MCInv'
<1>1. Inv' /\ Unlinked'
  BY MCStepIsStep, NextKeeps, UnlinkedKeeps DEF MCInv, MCStep
<1>2. /\ UNCHANGED << quote, charged, accepted, documents, handlers, disturbed, revived >>
      /\ undone' = (undone \/ (linked /\ ~ linked' /\ \E r \in Requests : Answering(r)))
  BY DEF MCUpdate, Update, billing
<1>3. ASSUME ~ undone' PROVE ChargesDue'
  BY <1>2, <1>3 DEF MCInv, ChargesDue, Answering, handlers
<1>4. QED
  BY <1>1, <1>2, <1>3, PlacesKeep DEF MCInv

\* A handler that is lost was answering, or nothing due depends on it.
LEMMA MCLostKeeps ==
  ASSUME MCInv, MCLost
  PROVE  MCInv'
<1>1. Inv' /\ Inv /\ Unlinked' /\ disturbed'
  BY MCStepIsStep, NextKeeps, UnlinkedKeeps DEF MCInv, MCStep, MCLost
<1> PICK r \in Requests : Abort(r) /\ undone' = (undone \/ Answering(r))
  BY DEF MCLost
<1>2. Others(r) /\ UNCHANGED << charged, accepted, linked >>
  BY <1>1, FinishHere DEF Inv, Abort, request, billing
<1>3. ASSUME ~ undone' PROVE ChargesDue'
  BY <1>1, <1>2, <1>3, ChargesFrame DEF MCInv
<1>4. QED
  BY <1>1, <1>3 DEF MCInv

LEMMA MCInvHolds == MCSpec => []MCInv
<1>1. ASSUME MCInv, [MCStep]_mcVars PROVE MCInv'
  <2>1. CASE MCNext
    BY <1>1, <2>1, MCNextKeeps
  <2>2. CASE MCUpdate
    BY <1>1, <2>2, MCUpdateKeeps
  <2>3. CASE MCRemove
    BY <1>1, <2>3, MCRemoveKeeps
  <2>4. CASE MCLost
    BY <1>1, <2>4, MCLostKeeps
  <2>5. CASE UNCHANGED mcVars
    <3>1. Inv' /\ Unlinked'
      BY <1>1, MCStepIsStep, NextKeeps, UnlinkedKeeps DEF MCInv
    <3>2. UNCHANGED << quote, billing, documents, handlers, disturbed, revived, undone, linked >>
      BY <2>5 DEF mcVars, vars, billing, documents, handlers, request
    <3>3. ChargesDue => ChargesDue'
      BY <3>2 DEF ChargesDue, Answering, billing, handlers
    <3>4. QED
      BY <1>1, <3>1, <3>2, <3>3, PlacesKeep DEF MCInv
  <2>6. QED
    BY <1>1, <2>1, <2>2, <2>3, <2>4, <2>5 DEF MCStep
<1>2. QED
  BY <1>1, MCInitInv, PTL DEF MCSpec, MCStep

\* As long as handlers run one at a time and end, the item of the checklist
\* shows what became of the newest document (upload, review), unless staff
\* marked it missing: no order of calls leaves an older verdict on it.
THEOREM ItemsFollow == MCSpec => []ItemFollowsDocument
<1>1. MCInv => ItemFollowsDocument
  BY DEF MCInv, ItemShows, ItemFollowsDocument, Settled, Busy
<1>2. QED
  BY <1>1, MCInvHolds, PTL

\* As long as handlers run one at a time and end and nobody answers or amends a
\* closed quote, a request has at most one open quote, however often it is
\* quoted, amended and countered (createQuote, amendQuote, respond).
THEOREM QuotesReplaceEachOther == MCSpec => []OneOpenQuote
<1>1. MCInv => OneOpenQuote
  <2> SUFFICES ASSUME MCInv, Settled, ~ revived, NEW p \in Quotes, NEW q \in Quotes, Open(p), Open(q), p # q
               PROVE  FALSE
    BY DEF OneOpenQuote
  <2>1. OpenIsNewest /\ \A r \in Requests : pc[r] = "idle"
    BY DEF MCInv, Settled, Busy
  <2>2. Replaced = {}
    BY <2>1 DEF Replaced
  <2>3. p \in Revisable /\ q \in Revisable
    BY OpenIsRevisable
  <2>4. quote[p].version < quote[q].version /\ quote[q].version < quote[p].version
    BY <2>1, <2>2, <2>3 DEF OpenIsNewest, Newest
  <2>5. quote[p].version \in Nat /\ quote[q].version \in Nat
    BY <2>3, VersionsCount DEF MCInv, Inv
  <2>6. QED
    BY <2>4, <2>5
<1>2. QED
  BY <1>1, MCInvHolds, PTL

\* Whatever overlaps, the order has charges from every quote an administrator
\* accepted while the request belonged to it (respond, createFromQuote), unless
\* charges were removed or the answer lost its handler or its order on the way.
THEOREM AdminChargesFollow == MCSpec => []AdminAcceptedIsCharged
<1>1. MCInv => AdminAcceptedIsCharged
  BY DEF MCInv, ChargesDue, ForOrder, AdminAcceptedIsCharged, Answered
<1>2. QED
  BY <1>1, MCInvHolds, PTL
=============================================================================
