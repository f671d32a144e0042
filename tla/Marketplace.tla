----------------------------- MODULE Marketplace -----------------------------
(***************************************************************************)
(* One truck listing on the marketplace: the quotes its customers ask for  *)
(* (MarketplaceQuotesService), its bookings (BookingsService) and the days *)
(* its owner blocks (AvailabilityService).  No handler takes a lock: each  *)
(* reads, checks the calendar and writes in statements of its own, and     *)
(* others run between any two.  The only constraint the database adds is   *)
(* that two bookings cannot name the same quote.                           *)
(***************************************************************************)
EXTENDS Naturals

CONSTANTS
  Days,        \* the days of the calendar
  Bookings,    \* bookings that may be made
  Quotes,      \* quote requests that may be made
  QuoteDays,   \* the days the booking of each quote may take
  Blocks,      \* availability blocks that may be made
  Shipments,   \* shipments that may be made from bookings
  Requests,    \* handlers that may be in flight at once
  None         \* SQL NULL

Stay == { d \in [ from : Days, to : Days ] : d.from <= d.to }

BookingStatus == { "pending", "confirmed", "active", "cancelled" }
QuoteStatus   == { "pending", "responded", "countered", "accepted", "declined", "cancelled" }

ASSUME ConstantsAssumption ==
  /\ Days \subseteq Nat
  /\ QuoteDays \in [Quotes -> SUBSET Stay]
  /\ None \notin Bookings \union Quotes \union Shipments \union Stay \union QuoteStatus
                  \union [ days : Stay, status : BookingStatus, quote : Quotes \union {None},
                           shipment : Shipments \union {None} ]

VARIABLES
  offered,     \* the listing is approved and enabled
  booking,     \* truck_bookings; None before the row exists
  block,       \* truck_availability_blocks that take the truck away
  quote,       \* truck_quote_requests.status; None before the row exists
  history,     \* the newest row of quote_status_history
  answered,    \* history variable: the fleet owner has accepted or countered the quote
  shipped,     \* the booking each shipment was made from
  pc,          \* where each handler stands
  req          \* what it was called with and what it read

quotes   == << quote, history, answered >>
calendar == << booking, block, shipped >>
handlers == << pc, req >>
vars     == << offered, quotes, calendar, handlers >>

BookingType ==
  [ days : Stay, status : BookingStatus, quote : Quotes \union {None},
    shipment : Shipments \union {None} ]

RequestType ==
  [ op : { "create", "convert", "confirm", "cancel", "ship", "ask", "fleet", "customer" },
    b  : Bookings \union {None}, q : Quotes \union {None}, days : Stay \union {None},
    to : QuoteStatus \union {None} ]

TypeOK ==
  /\ offered  \in BOOLEAN
  /\ booking  \in [Bookings -> BookingType \union {None}]
  /\ block    \in [Blocks -> Stay \union {None}]
  /\ quote    \in [Quotes -> QuoteStatus \union {None}]
  /\ history  \in [Quotes -> QuoteStatus \union {None}]
  /\ answered \in [Quotes -> BOOLEAN]
  /\ shipped  \in [Shipments -> Bookings \union {None}]
  /\ pc  \in [Requests -> { "idle", "blocks", "bookings", "write", "record" }]
  /\ req \in [Requests -> RequestType \union {None}]

Init ==
  /\ offered  = TRUE
  /\ booking  = [b \in Bookings |-> None]
  /\ block    = [k \in Blocks |-> None]
  /\ quote    = [q \in Quotes |-> None]
  /\ history  = [q \in Quotes |-> None]
  /\ answered = [q \in Quotes |-> FALSE]
  /\ shipped  = [s \in Shipments |-> None]
  /\ pc  = [r \in Requests |-> "idle"]
  /\ req = [r \in Requests |-> None]

Begin(r, at, call) ==
  /\ pc[r] = "idle"
  /\ pc'  = [pc  EXCEPT ![r] = at]
  /\ req' = [req EXCEPT ![r] = call]
  /\ UNCHANGED << offered, quotes, calendar >>

Goto(r, to) == pc' = [pc EXCEPT ![r] = to] /\ UNCHANGED req

Finish(r) ==
  /\ pc'  = [pc  EXCEPT ![r] = "idle"]
  /\ req' = [req EXCEPT ![r] = None]

At(r, at, ops) == pc[r] = at /\ req[r].op \in ops

Call(op, b, q, days, to) == [ op |-> op, b |-> b, q |-> q, days |-> days, to |-> to ]

-----------------------------------------------------------------------------
(* The listing and its owner's calendar *)

\* An administrator approves, rejects or suspends the listing; the owner or an
\* administrator enables or disables it.
SetOffered ==
  /\ offered' = ~ offered
  /\ UNCHANGED << quotes, calendar, handlers >>

\* createBlock asks nothing of the bookings.
CreateBlock(k, days) ==
  /\ block[k] = None
  /\ block' = [block EXCEPT ![k] = days]
  /\ UNCHANGED << offered, quotes, booking, shipped, handlers >>

DeleteBlock(k) ==
  /\ block[k] # None
  /\ block' = [block EXCEPT ![k] = None]
  /\ UNCHANGED << offered, quotes, booking, shipped, handlers >>

Overlap(x, y) == x.from <= y.to /\ x.to >= y.from

\* assertRangeAvailable, its two statements.
Blocked(days) == \E k \in Blocks : block[k] # None /\ Overlap(block[k], days)

LiveStatus_NoPending == { "confirmed", "active" }

LiveStatus == { "pending", "confirmed", "active" }

Has(b, statuses) == booking[b] # None /\ booking[b].status \in statuses

IsLive(b) == Has(b, LiveStatus)

Booked(days) == \E b \in Bookings : IsLive(b) /\ Overlap(booking[b].days, days)

CheckBlocks(r) ==
  /\ pc[r] = "blocks"
  /\ IF Blocked(req[r].days) THEN Finish(r) ELSE Goto(r, "bookings")
  /\ UNCHANGED << offered, quotes, calendar >>

CheckBookings(r) ==
  /\ pc[r] = "bookings"
  /\ IF Booked(req[r].days) THEN Finish(r) ELSE Goto(r, "write")
  /\ UNCHANGED << offered, quotes, calendar >>

-----------------------------------------------------------------------------
(* BookingsService *)

CreateCall(r, days) == offered /\ Begin(r, "blocks", Call("create", None, None, days, None))

QuoteFree_Any(q) == TRUE

\* The unique index on quote_request_id refuses a second booking of a quote.
QuoteFree(q) == \A b \in Bookings : booking[b] # None => booking[b].quote # q

Insert(r) ==
  /\ At(r, "write", { "create", "convert" })
  /\ \/ /\ req[r].q = None \/ QuoteFree(req[r].q)
        /\ \E b \in Bookings :
             /\ booking[b] = None
             /\ booking' = [booking EXCEPT ![b] =
                  [ days |-> req[r].days, status |-> "pending", quote |-> req[r].q,
                    shipment |-> None ]]
     \/ /\ req[r].q # None /\ ~ QuoteFree(req[r].q)
        /\ UNCHANGED booking
  /\ Finish(r)
  /\ UNCHANGED << offered, quotes, block, shipped >>

\* confirm checks the dates against every live booking, its own included.
ConfirmCall(r, b) ==
  /\ Has(b, { "pending" })
  /\ Begin(r, "blocks", Call("confirm", b, None, booking[b].days, None))

CancelCall(r, b) ==
  /\ Has(b, BookingStatus \ { "cancelled" })
  /\ Begin(r, "write", Call("cancel", b, None, None, None))

\* The update names the booking only: what it is by now is not looked at.
WriteStatus(r) ==
  /\ At(r, "write", { "confirm", "cancel" })
  /\ booking' = [booking EXCEPT ![req[r].b].status =
                   IF req[r].op = "confirm" THEN "confirmed" ELSE "cancelled"]
  /\ Finish(r)
  /\ UNCHANGED << offered, quotes, block, shipped >>

\* A booking that has its shipment is answered with it.
ShipCall(r, b) ==
  /\ Has(b, { "confirmed", "active" })
  /\ booking[b].shipment = None
  /\ Begin(r, "write", Call("ship", b, None, None, None))

Ship_NotNamed(r) ==
  /\ At(r, "write", { "ship" })
  /\ \E s \in Shipments :
       /\ shipped[s] = None
       /\ shipped' = [shipped EXCEPT ![s] = req[r].b]
       /\ booking' = [booking EXCEPT ![req[r].b].status = "active"]
  /\ Finish(r)
  /\ UNCHANGED << offered, quotes, block >>

\* The shipment and the booking that names it, in one transaction.
Ship(r) ==
  /\ At(r, "write", { "ship" })
  /\ \E s \in Shipments :
       /\ shipped[s] = None
       /\ shipped' = [shipped EXCEPT ![s] = req[r].b]
       /\ booking' = [booking EXCEPT ![req[r].b].status = "active", ![req[r].b].shipment = s]
  /\ Finish(r)
  /\ UNCHANGED << offered, quotes, block >>

-----------------------------------------------------------------------------
(* MarketplaceQuotesService *)

ClosedQuote == { "accepted", "declined", "cancelled" }

AskCall(r) == offered /\ Begin(r, "write", Call("ask", None, None, None, "pending"))

FleetCall_Reopens(r, q, to) ==
  /\ quote[q] \notin { "accepted", "cancelled", None }
  /\ to \in { "accepted", "declined", "countered", "responded" }
  /\ Begin(r, "write", Call("fleet", None, q, None, to))

\* fleetAction: accept, reject, counter or request_info an open quote.
FleetCall(r, q, to) ==
  /\ quote[q] \notin ClosedQuote \union {None}
  /\ to \in { "accepted", "declined", "countered", "responded" }
  /\ Begin(r, "write", Call("fleet", None, q, None, to))

CustomerCall_Any(r, q, to) ==
  /\ quote[q] # None
  /\ to \in { "cancelled", "declined", "accepted" }
  /\ Begin(r, "write", Call("customer", None, q, None, to))

\* customerAction: only an acceptance asks what the quote is.
CustomerCall(r, q, to) ==
  /\ quote[q] # None
  /\ \/ to \in { "cancelled", "declined" }
     \/ to = "accepted" /\ quote[q] \in { "accepted", "countered" }
  /\ Begin(r, "write", Call("customer", None, q, None, to))

\* The row is written, then its entry in the history, in another statement.
InsertQuote(r) ==
  /\ At(r, "write", { "ask" })
  /\ \E q \in Quotes :
       /\ quote[q] = None
       /\ quote' = [quote EXCEPT ![q] = "pending"]
       /\ req'   = [req EXCEPT ![r].q = q]
  /\ pc' = [pc EXCEPT ![r] = "record"]
  /\ UNCHANGED << offered, history, answered, calendar >>

WriteQuote(r) ==
  LET q == req[r].q IN
  /\ At(r, "write", { "fleet", "customer" })
  /\ quote'    = [quote EXCEPT ![q] = req[r].to]
  /\ answered' = [answered EXCEPT ![q] =
                    @ \/ (req[r].op = "fleet" /\ req[r].to \in { "accepted", "countered" })]
  /\ Goto(r, "record")
  /\ UNCHANGED << offered, history, calendar >>

RecordStatus(r) ==
  /\ pc[r] = "record"
  /\ history' = [history EXCEPT ![req[r].q] = req[r].to]
  /\ Finish(r)
  /\ UNCHANGED << offered, quote, answered, calendar >>

ConvertCall(r, q, days) ==
  /\ quote[q] = "accepted"
  /\ QuoteFree(q)
  /\ days \in QuoteDays[q]
  /\ Begin(r, "blocks", Call("convert", None, q, days, None))

-----------------------------------------------------------------------------

\* The process stops: what is written stays, the rest of the handler is lost.
Abort(r) ==
  /\ pc[r] # "idle"
  /\ Finish(r)
  /\ UNCHANGED << offered, quotes, calendar >>

BookingCall(r) ==
  \/ \E days \in Stay : CreateCall(r, days)
  \/ \E b \in Bookings : ConfirmCall(r, b) \/ CancelCall(r, b) \/ ShipCall(r, b)
  \/ \E q \in Quotes, days \in Stay : ConvertCall(r, q, days)

QuoteCall(r) ==
  \/ AskCall(r)
  \/ \E q \in Quotes, to \in QuoteStatus : FleetCall(r, q, to) \/ CustomerCall(r, q, to)

Proceed(r) ==
  \/ CheckBlocks(r) \/ CheckBookings(r)
  \/ Insert(r) \/ WriteStatus(r) \/ Ship(r)
  \/ InsertQuote(r) \/ WriteQuote(r) \/ RecordStatus(r)

Owner ==
  \/ SetOffered
  \/ \E k \in Blocks, days \in Stay : CreateBlock(k, days)
  \/ \E k \in Blocks : DeleteBlock(k)

Step == \E r \in Requests : BookingCall(r) \/ QuoteCall(r) \/ Proceed(r)

Next == Step \/ Owner \/ \E r \in Requests : Abort(r)

Spec == Init /\ [][Next]_vars

-----------------------------------------------------------------------------
(* Properties *)

\* Two conversions of one quote may both find it without a booking: the index
\* keeps them from both writing one (schema.prisma:1228).
OneBookingPerQuote ==
  \A b, c \in Bookings :
    /\ booking[b] # None /\ booking[c] # None
    /\ booking[b].quote # None /\ booking[b].quote = booking[c].quote
    => b = c

\* However late a customer's acceptance is written, a quote is accepted, and
\* becomes a booking, only after its fleet owner accepted or countered it
\* (customerAction, convertToBooking).
BookedAfterOffer ==
  /\ \A q \in Quotes : quote[q] \in { "accepted", "countered" } => answered[q]
  /\ \A b \in Bookings : booking[b] # None /\ booking[b].quote # None => answered[booking[b].quote]

\* An active booking has a shipment, and a booking's shipment was made from it
\* (convertToShipment), also when cancellations and confirmations overwrite it.
ShipmentIsItsOwn ==
  \A b \in Bookings : booking[b] # None =>
    /\ booking[b].status = "active" => booking[b].shipment # None
    /\ booking[b].shipment # None => shipped[booking[b].shipment] = b
=============================================================================
