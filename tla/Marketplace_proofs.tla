------------------------- MODULE Marketplace_proofs -------------------------
(***************************************************************************)
(* Theorems about Marketplace, for any calendar and any number of          *)
(* bookings, quotes, blocks, handlers in flight and calls.  The second     *)
(* half is about MCSpec, whose history variable tells whether handlers     *)
(* overlapped or were lost.                                                *)
(***************************************************************************)
EXTENDS MCMarketplace, TLAPS

\* What a call has read and still relies on when it writes: its booking is
\* there, its quote was answered by the fleet owner.
Sound(c) ==
  /\ c.op \in { "create", "convert", "confirm" } => c.days \in Stay
  /\ c.op = "create" => c.q = None
  /\ c.op = "convert" => c.q \in Quotes /\ answered[c.q]
  /\ c.op \in { "confirm", "cancel", "ship" } => c.b \in Bookings /\ booking[c.b] # None
  /\ c.op = "ask" => c.to = "pending"
  /\ c.op \in { "fleet", "customer" } => c.q \in Quotes /\ c.to \in QuoteStatus
  /\ c.op = "customer" /\ c.to \in { "accepted", "countered" } => answered[c.q]

Known(r) ==
  pc[r] # "idle" =>
    /\ req[r] \in RequestType
    /\ Sound(req[r])
    /\ pc[r] = "record" => req[r].q \in Quotes /\ req[r].to \in QuoteStatus

Inv ==
  /\ TypeOK
  /\ OneBookingPerQuote
  /\ BookedAfterOffer
  /\ ShipmentIsItsOwn
  /\ \A r \in Requests : Known(r)

LEMMA InitInv == Init => Inv
<1> SUFFICES ASSUME Init PROVE Inv
  OBVIOUS
<1>1. TypeOK
  BY DEF Init, TypeOK
<1>2. OneBookingPerQuote /\ ShipmentIsItsOwn /\ \A r \in Requests : Known(r)
  BY DEF Init, OneBookingPerQuote, ShipmentIsItsOwn, Known
<1>3. BookedAfterOffer
  BY ConstantsAssumption DEF Init, BookedAfterOffer, QuoteStatus
<1>4. QED
  BY <1>1, <1>2, <1>3 DEF Inv

-----------------------------------------------------------------------------
(* What one handler does to the others *)

Others(r) == \A s \in Requests \ {r} : pc'[s] = pc[s] /\ req'[s] = req[s]

\* Bookings are never deleted, and what the fleet owner answered stays answered.
Monotone ==
  /\ \A b \in Bookings : booking[b] # None => booking'[b] # None
  /\ \A q \in Quotes : answered[q] => answered'[q]

LEMMA KnownKeeps ==
  ASSUME Inv, NEW r \in Requests, Monotone, Others(r), Known(r)'
  PROVE  \A s \in Requests : Known(s)'
<1> SUFFICES ASSUME NEW s \in Requests \ {r} PROVE Known(s)'
  OBVIOUS
<1>1. Known(s) /\ pc'[s] = pc[s] /\ req'[s] = req[s]
  BY DEF Inv, Others
<1>2. QED
  BY <1>1 DEF Known, Sound, Monotone

\* A step of a handler that writes no row.
LEMMA ReadKeeps ==
  ASSUME Inv, NEW r \in Requests, UNCHANGED << offered, quotes, calendar >>,
         Others(r), TypeOK', Known(r)'
  PROVE  Inv'
<1>1. Monotone
  BY DEF Monotone, quotes, calendar
<1>2. OneBookingPerQuote' /\ BookedAfterOffer' /\ ShipmentIsItsOwn'
  BY DEF Inv, OneBookingPerQuote, BookedAfterOffer, ShipmentIsItsOwn, quotes, calendar
<1>3. QED
  BY <1>1, <1>2, KnownKeeps DEF Inv

\* A handler that ends knows nothing.
LEMMA FinishKnows ==
  ASSUME TypeOK, NEW r \in Requests, Finish(r)
  PROVE  /\ Others(r) /\ Known(r)'
         /\ pc'  \in [Requests -> { "idle", "blocks", "bookings", "write", "record" }]
         /\ req' \in [Requests -> RequestType \union {None}]
  BY DEF TypeOK, Finish, Others, Known

LEMMA GotoKnows ==
  ASSUME TypeOK, NEW r \in Requests, Known(r), pc[r] # "idle",
         NEW there \in { "bookings", "write", "record" }, Goto(r, there),
         Monotone, there = "record" => req[r].q \in Quotes /\ req[r].to \in QuoteStatus
  PROVE  /\ Others(r) /\ Known(r)'
         /\ pc'  \in [Requests -> { "idle", "blocks", "bookings", "write", "record" }]
         /\ req' \in [Requests -> RequestType \union {None}]
  BY DEF TypeOK, Goto, Others, Known, Sound, Monotone
-----------------------------------------------------------------------------
(* Calls *)

LEMMA BeginKeeps ==
  ASSUME Inv, NEW r \in Requests, NEW at \in { "blocks", "write" }, NEW c \in RequestType,
         Begin(r, at, c), Sound(c)
  PROVE  Inv'
<1>1. /\ pc'[r] = at /\ req'[r] = c /\ Others(r)
      /\ pc'  \in [Requests -> { "idle", "blocks", "bookings", "write", "record" }]
      /\ req' \in [Requests -> RequestType \union {None}]
  BY DEF Inv, TypeOK, Begin, Others
<1>2. Known(r)'
  BY <1>1 DEF Known, Sound, Begin, quotes, calendar
<1>3. TypeOK'
  BY <1>1 DEF Inv, TypeOK, Begin, quotes, calendar
<1>4. QED
  BY <1>1, <1>2, <1>3, ReadKeeps DEF Begin

LEMMA BookingCallKeeps ==
  ASSUME Inv, NEW r \in Requests, BookingCall(r)
  PROVE  Inv'
<1>1. ASSUME NEW days \in Stay, CreateCall(r, days) PROVE Inv'
  BY <1>1, BeginKeeps DEF CreateCall, Call, RequestType, Sound
<1>2. ASSUME NEW b \in Bookings, ConfirmCall(r, b) PROVE Inv'
  <2>1. booking[b] # None /\ booking[b].days \in Stay
    BY <1>2 DEF Inv, TypeOK, BookingType, ConfirmCall, Has
  <2>2. QED
    BY <1>2, <2>1, BeginKeeps DEF ConfirmCall, Call, RequestType, Sound
<1>3. ASSUME NEW b \in Bookings, CancelCall(r, b) PROVE Inv'
  BY <1>3, BeginKeeps DEF CancelCall, Has, Call, RequestType, Sound
<1>4. ASSUME NEW b \in Bookings, ShipCall(r, b) PROVE Inv'
  BY <1>4, BeginKeeps DEF ShipCall, Has, Call, RequestType, Sound
<1>5. ASSUME NEW q \in Quotes, NEW days \in Stay, ConvertCall(r, q, days) PROVE Inv'
  <2>1. answered[q]
    BY <1>5 DEF Inv, BookedAfterOffer, ConvertCall
  <2>2. QED
    BY <1>5, <2>1, BeginKeeps DEF ConvertCall, Call, RequestType, Sound
<1>6. QED
  BY <1>1, <1>2, <1>3, <1>4, <1>5 DEF BookingCall

LEMMA QuoteCallKeeps ==
  ASSUME Inv, NEW r \in Requests, QuoteCall(r)
  PROVE  Inv'
<1>1. CASE AskCall(r)
  BY <1>1, BeginKeeps DEF AskCall, Call, RequestType, QuoteStatus, Sound
<1>2. ASSUME NEW q \in Quotes, NEW to \in QuoteStatus, FleetCall(r, q, to) PROVE Inv'
  BY <1>2, BeginKeeps DEF FleetCall, Call, RequestType, Sound
<1>3. ASSUME NEW q \in Quotes, NEW to \in QuoteStatus, CustomerCall(r, q, to) PROVE Inv'
  <2>1. to \in { "accepted", "countered" } => answered[q]
    <3>1. to # "countered" /\ (to = "accepted" => quote[q] \in { "accepted", "countered" })
      BY <1>3 DEF CustomerCall
    <3>2. QED
      BY <3>1 DEF Inv, BookedAfterOffer
  <2>2. QED
    BY <1>3, <2>1, BeginKeeps DEF CustomerCall, Call, RequestType, Sound
<1>4. QED
  BY <1>1, <1>2, <1>3 DEF QuoteCall

-----------------------------------------------------------------------------
(* Checks of the calendar *)

LEMMA CheckKeeps ==
  ASSUME Inv, NEW r \in Requests, CheckBlocks(r) \/ CheckBookings(r)
  PROVE  Inv'
<1>1. TypeOK /\ Known(r) /\ Monotone /\ UNCHANGED << offered, quotes, calendar >> /\ pc[r] # "idle"
  BY DEF Inv, CheckBlocks, CheckBookings, Monotone, quotes, calendar
<1>2. Finish(r) \/ Goto(r, "bookings") \/ Goto(r, "write")
  BY DEF CheckBlocks, CheckBookings
<1>3. /\ Others(r) /\ Known(r)'
      /\ pc'  \in [Requests -> { "idle", "blocks", "bookings", "write", "record" }]
      /\ req' \in [Requests -> RequestType \union {None}]
  BY <1>1, <1>2, FinishKnows, GotoKnows
<1>4. TypeOK'
  BY <1>1, <1>3 DEF TypeOK, quotes, calendar
<1>5. QED
  BY <1>1, <1>3, <1>4, ReadKeeps

-----------------------------------------------------------------------------
(* Writes of bookings *)

\* Quotes are not touched by them.
LEMMA CalendarKeeps ==
  ASSUME Inv, NEW r \in Requests, Finish(r), UNCHANGED << offered, quotes, block >>,
         booking' \in [Bookings -> BookingType \union {None}],
         shipped' \in [Shipments -> Bookings \union {None}],
         \A b \in Bookings : booking[b] # None => booking'[b] # None,
         OneBookingPerQuote', ShipmentIsItsOwn',
         \A b \in Bookings : booking'[b] # None /\ booking'[b].quote # None => answered[booking'[b].quote]
  PROVE  Inv'
<1>1. TypeOK
  BY DEF Inv
<1>2. /\ Others(r) /\ Known(r)'
      /\ pc'  \in [Requests -> { "idle", "blocks", "bookings", "write", "record" }]
      /\ req' \in [Requests -> RequestType \union {None}]
  BY <1>1, FinishKnows
<1>3. Monotone
  BY DEF Monotone, quotes
<1>4. TypeOK'
  BY <1>1, <1>2 DEF TypeOK, quotes
<1>5. BookedAfterOffer'
  BY DEF Inv, BookedAfterOffer, quotes
<1>6. QED
  BY <1>2, <1>3, <1>4, <1>5, KnownKeeps DEF Inv

LEMMA InsertKeeps ==
  ASSUME Inv, NEW r \in Requests, Insert(r)
  PROVE  Inv'
<1>1. /\ TypeOK /\ Sound(req[r]) /\ req[r] \in RequestType
      /\ req[r].op \in { "create", "convert" }
  BY DEF Inv, Known, Insert, At
<1>2. CASE UNCHANGED booking
  BY <1>2, CalendarKeeps
  DEF Insert, Inv, TypeOK, OneBookingPerQuote, BookedAfterOffer, ShipmentIsItsOwn
<1>3. ASSUME NEW b \in Bookings, booking[b] = None,
             booking' = [booking EXCEPT ![b] = [ days |-> req[r].days, status |-> "pending",
                                                 quote |-> req[r].q, shipment |-> None ]],
             req[r].q = None \/ QuoteFree(req[r].q)
      PROVE  Inv'
  <2>1. req[r].days \in Stay /\ req[r].q \in Quotes \union {None}
        /\ (req[r].q # None => answered[req[r].q])
    BY <1>1 DEF Sound, RequestType
  <2> DEFINE row == [ days |-> req[r].days, status |-> "pending", quote |-> req[r].q,
                      shipment |-> None ]
  <2>2. row \in BookingType
    BY <2>1 DEF BookingType, BookingStatus
  <2>3. /\ booking' \in [Bookings -> BookingType \union {None}]
        /\ booking'[b] = row /\ \A c \in Bookings \ {b} : booking'[c] = booking[c]
    BY <1>1, <1>3, <2>2 DEF TypeOK
  <2>4. OneBookingPerQuote'
    BY <1>3, <2>3 DEF Inv, OneBookingPerQuote, QuoteFree
  <2>5. ShipmentIsItsOwn'
    BY <2>3 DEF Insert, Inv, ShipmentIsItsOwn
  <2>6. \A c \in Bookings : booking'[c] # None /\ booking'[c].quote # None => answered[booking'[c].quote]
    BY <2>1, <2>3 DEF Inv, BookedAfterOffer
  <2>7. /\ shipped' \in [Shipments -> Bookings \union {None}]
        /\ \A c \in Bookings : booking[c] # None => booking'[c] # None
        /\ Finish(r) /\ UNCHANGED << offered, quotes, block >>
    BY <1>1, <1>3, <2>3 DEF Insert, TypeOK
  <2>8. QED
    BY <2>3, <2>4, <2>5, <2>6, <2>7, CalendarKeeps
<1>4. QED
  BY <1>2, <1>3 DEF Insert

\* A row is never None: it is a booking.
LEMMA RowIsThere == \A row \in BookingType : row # None
  BY ConstantsAssumption DEF BookingType

LEMMA WriteStatusKeeps ==
  ASSUME Inv, NEW r \in Requests, WriteStatus(r)
  PROVE  Inv'
<1> PICK b \in Bookings : b = req[r].b /\ booking[b] # None
  BY DEF Inv, Known, Sound, WriteStatus, At
<1> PICK to \in { "confirmed", "cancelled" } : booking' = [booking EXCEPT ![b].status = to]
  BY DEF WriteStatus
<1>1. TypeOK /\ booking[b] \in BookingType
  BY DEF Inv, TypeOK
<1>2. /\ booking'[b].status = to /\ booking'[b].quote = booking[b].quote
      /\ booking'[b].shipment = booking[b].shipment /\ booking'[b] \in BookingType
      /\ \A c \in Bookings \ {b} : booking'[c] = booking[c]
      /\ booking' \in [Bookings -> BookingType \union {None}]
  BY <1>1 DEF TypeOK, BookingType, BookingStatus
<1>3. OneBookingPerQuote'
  BY <1>2 DEF Inv, OneBookingPerQuote
<1>4. ShipmentIsItsOwn'
  BY <1>2 DEF WriteStatus, Inv, ShipmentIsItsOwn
<1>5. \A c \in Bookings : booking'[c] # None /\ booking'[c].quote # None => answered[booking'[c].quote]
  BY <1>2 DEF Inv, BookedAfterOffer
<1>6. /\ shipped' \in [Shipments -> Bookings \union {None}]
      /\ \A c \in Bookings : booking[c] # None => booking'[c] # None
      /\ Finish(r) /\ UNCHANGED << offered, quotes, block >>
  BY <1>1, <1>2, RowIsThere DEF WriteStatus, TypeOK
<1>7. QED
  BY <1>2, <1>3, <1>4, <1>5, <1>6, CalendarKeeps

\* The new shipment belonged to no booking, so no other booking names it.
LEMMA ShipKeeps ==
  ASSUME Inv, NEW r \in Requests, Ship(r)
  PROVE  Inv'
<1> PICK b \in Bookings : b = req[r].b /\ booking[b] # None
  BY DEF Inv, Known, Sound, Ship, At
<1> PICK s \in Shipments :
      /\ shipped[s] = None
      /\ shipped' = [shipped EXCEPT ![s] = b]
      /\ booking' = [booking EXCEPT ![b].status = "active", ![b].shipment = s]
  BY DEF Ship
<1>1. TypeOK /\ booking[b] \in BookingType
  BY DEF Inv, TypeOK
<1>2. /\ booking'[b].status = "active" /\ booking'[b].quote = booking[b].quote
      /\ booking'[b].shipment = s /\ booking'[b] \in BookingType
      /\ \A c \in Bookings \ {b} : booking'[c] = booking[c]
      /\ booking' \in [Bookings -> BookingType \union {None}]
  BY <1>1 DEF TypeOK, BookingType, BookingStatus
<1>3. OneBookingPerQuote'
  BY <1>2 DEF Inv, OneBookingPerQuote
<1>4. /\ shipped'[s] = b /\ \A t \in Shipments \ {s} : shipped'[t] = shipped[t]
      /\ shipped' \in [Shipments -> Bookings \union {None}]
  BY <1>1 DEF TypeOK
<1>5. ShipmentIsItsOwn'
  <2> SUFFICES ASSUME NEW c \in Bookings, booking'[c] # None
               PROVE  /\ booking'[c].status = "active" => booking'[c].shipment # None
                      /\ booking'[c].shipment # None => shipped'[booking'[c].shipment] = c
    BY DEF ShipmentIsItsOwn
  <2>1. s # None /\ c # None
    BY ConstantsAssumption
  <2>2. CASE c = b
    BY <1>2, <1>4, <2>1, <2>2
  <2>3. CASE c # b
    <3>1. booking'[c] = booking[c] /\ booking[c] \in BookingType
      BY <1>1, <1>2, <2>3 DEF TypeOK
    <3>2. booking[c].shipment # None =>
            booking[c].shipment \in Shipments /\ shipped[booking[c].shipment] = c
      BY <3>1 DEF Inv, ShipmentIsItsOwn, BookingType
    <3>3. booking[c].status = "active" => booking[c].shipment # None
      BY <3>1 DEF Inv, ShipmentIsItsOwn
    <3>4. QED
      BY <1>4, <2>1, <3>1, <3>2, <3>3
  <2>4. QED
    BY <2>2, <2>3
<1>6. \A c \in Bookings : booking'[c] # None /\ booking'[c].quote # None => answered[booking'[c].quote]
  BY <1>2 DEF Inv, BookedAfterOffer
<1>7. /\ \A c \in Bookings : booking[c] # None => booking'[c] # None
      /\ Finish(r) /\ UNCHANGED << offered, quotes, block >>
  BY <1>1, <1>2, RowIsThere DEF Ship, TypeOK
<1>8. QED
  BY <1>2, <1>3, <1>4, <1>5, <1>6, <1>7, CalendarKeeps

-----------------------------------------------------------------------------
(* Writes of quotes *)

\* Bookings are not touched by them.
LEMMA QuotesKeep ==
  ASSUME Inv, NEW r \in Requests, UNCHANGED << offered, calendar >>, Others(r), Known(r)', TypeOK',
         \A q \in Quotes : answered[q] => answered'[q],
         \A q \in Quotes : quote'[q] \in { "accepted", "countered" } => answered'[q]
  PROVE  Inv'
<1>1. Monotone
  BY DEF Monotone, calendar
<1>2. OneBookingPerQuote' /\ ShipmentIsItsOwn'
  BY DEF Inv, OneBookingPerQuote, ShipmentIsItsOwn, calendar
<1>3. BookedAfterOffer'
  <2>1. \A b \in Bookings : booking[b] # None /\ booking[b].quote # None => booking[b].quote \in Quotes
    BY DEF Inv, TypeOK, BookingType
  <2>2. QED
    BY <2>1 DEF Inv, BookedAfterOffer, calendar
<1>4. QED
  BY <1>1, <1>2, <1>3, KnownKeeps DEF Inv

LEMMA InsertQuoteKeeps ==
  ASSUME Inv, NEW r \in Requests, InsertQuote(r)
  PROVE  Inv'
<1>1. /\ TypeOK /\ req[r] \in RequestType /\ Sound(req[r]) /\ req[r].op = "ask"
  BY DEF Inv, Known, InsertQuote, At
<1> PICK q \in Quotes : quote' = [quote EXCEPT ![q] = "pending"] /\ req' = [req EXCEPT ![r].q = q]
  BY DEF InsertQuote
<1>2. /\ req'[r] \in RequestType /\ req'[r].op = "ask" /\ req'[r].q = q /\ req'[r].to = "pending"
      /\ req' \in [Requests -> RequestType \union {None}]
  BY <1>1 DEF TypeOK, RequestType, Sound
<1>3. /\ pc'[r] = "record" /\ Others(r)
      /\ pc' \in [Requests -> { "idle", "blocks", "bookings", "write", "record" }]
  BY <1>1 DEF TypeOK, InsertQuote, Others
<1>4. Known(r)'
  BY <1>2, <1>3 DEF Known, Sound, QuoteStatus
<1>5. TypeOK'
  BY <1>1, <1>2, <1>3 DEF TypeOK, InsertQuote, QuoteStatus, calendar
<1>6. /\ \A p \in Quotes : answered[p] => answered'[p]
      /\ \A p \in Quotes : quote'[p] \in { "accepted", "countered" } => answered'[p]
  BY <1>1 DEF Inv, TypeOK, BookedAfterOffer, InsertQuote
<1>7. QED
  BY <1>3, <1>4, <1>5, <1>6, QuotesKeep DEF InsertQuote

\* An acceptance of the customer is written over whatever the quote has become,
\* but only of a quote that was answered when it was read.
LEMMA WriteQuoteKeeps ==
  ASSUME Inv, NEW r \in Requests, WriteQuote(r)
  PROVE  Inv'
<1>1. /\ TypeOK /\ req[r] \in RequestType /\ Sound(req[r]) /\ Known(r) /\ pc[r] = "write"
      /\ req[r].op \in { "fleet", "customer" }
  BY DEF Inv, Known, WriteQuote, At
<1> PICK q \in Quotes : q = req[r].q
  BY <1>1 DEF Sound
<1> PICK to \in QuoteStatus : to = req[r].to
  BY <1>1 DEF Sound
<1>2. /\ quote' = [quote EXCEPT ![q] = to]
      /\ answered' = [answered EXCEPT ![q] =
                        @ \/ (req[r].op = "fleet" /\ to \in { "accepted", "countered" })]
  BY DEF WriteQuote
<1>3. /\ \A p \in Quotes : answered[p] => answered'[p]
      /\ answered' \in [Quotes -> BOOLEAN]
      /\ to \in { "accepted", "countered" } => answered'[q]
      /\ \A p \in Quotes \ {q} : answered'[p] = answered[p]
  BY <1>1, <1>2 DEF TypeOK, Sound
<1>4. \A p \in Quotes : quote'[p] \in { "accepted", "countered" } => answered'[p]
  BY <1>1, <1>2, <1>3 DEF Inv, TypeOK, BookedAfterOffer
<1>5. Monotone
  BY <1>3 DEF WriteQuote, Monotone, calendar
<1>6. /\ Others(r) /\ Known(r)'
      /\ pc'  \in [Requests -> { "idle", "blocks", "bookings", "write", "record" }]
      /\ req' \in [Requests -> RequestType \union {None}]
  BY <1>1, <1>5, GotoKnows DEF WriteQuote, Sound
<1>7. TypeOK'
  BY <1>1, <1>2, <1>3, <1>6 DEF TypeOK, WriteQuote, calendar
<1>8. QED
  BY <1>3, <1>4, <1>6, <1>7, QuotesKeep DEF WriteQuote

LEMMA RecordStatusKeeps ==
  ASSUME Inv, NEW r \in Requests, RecordStatus(r)
  PROVE  Inv'
<1>1. TypeOK /\ Known(r) /\ pc[r] = "record"
  BY DEF Inv, RecordStatus
<1>2. /\ Others(r) /\ Known(r)'
      /\ pc'  \in [Requests -> { "idle", "blocks", "bookings", "write", "record" }]
      /\ req' \in [Requests -> RequestType \union {None}]
  BY <1>1, FinishKnows DEF RecordStatus
<1>3. TypeOK'
  BY <1>1, <1>2 DEF TypeOK, Known, RecordStatus, calendar
<1>4. QED
  BY <1>2, <1>3, QuotesKeep DEF RecordStatus, Inv, BookedAfterOffer

-----------------------------------------------------------------------------

LEMMA AbortKeeps ==
  ASSUME Inv, NEW r \in Requests, Abort(r)
  PROVE  Inv'
<1>1. TypeOK
  BY DEF Inv
<1>2. /\ Others(r) /\ Known(r)'
      /\ pc'  \in [Requests -> { "idle", "blocks", "bookings", "write", "record" }]
      /\ req' \in [Requests -> RequestType \union {None}]
  BY <1>1, FinishKnows DEF Abort
<1>3. TypeOK'
  BY <1>1, <1>2 DEF TypeOK, Abort, quotes, calendar
<1>4. QED
  BY <1>2, <1>3, ReadKeeps DEF Abort

\* The listing and its blocks are nobody's invariant.
LEMMA OwnerKeeps ==
  ASSUME Inv, Owner \/ UNCHANGED vars
  PROVE  Inv'
<1>1. UNCHANGED << quotes, booking, shipped, handlers >>
  BY DEF Owner, SetOffered, CreateBlock, DeleteBlock, vars, calendar
<1>2. offered' \in BOOLEAN /\ block' \in [Blocks -> Stay \union {None}]
  BY DEF Inv, TypeOK, Owner, SetOffered, CreateBlock, DeleteBlock, vars, calendar
<1>3. TypeOK'
  BY <1>1, <1>2 DEF Inv, TypeOK, quotes, handlers
<1>4. OneBookingPerQuote' /\ BookedAfterOffer' /\ ShipmentIsItsOwn'
  BY <1>1 DEF Inv, OneBookingPerQuote, BookedAfterOffer, ShipmentIsItsOwn, quotes
<1>5. \A r \in Requests : Known(r)'
  BY <1>1 DEF Inv, Known, Sound, quotes, handlers
<1>6. QED
  BY <1>3, <1>4, <1>5 DEF Inv

LEMMA NextKeeps ==
  ASSUME Inv, [Next]_vars
  PROVE  Inv'
<1>1. ASSUME NEW r \in Requests, BookingCall(r) \/ QuoteCall(r) PROVE Inv'
  BY <1>1, BookingCallKeeps, QuoteCallKeeps
<1>2. ASSUME NEW r \in Requests, Proceed(r) PROVE Inv'
  BY <1>2, CheckKeeps, InsertKeeps, WriteStatusKeeps, ShipKeeps, InsertQuoteKeeps,
     WriteQuoteKeeps, RecordStatusKeeps
  DEF Proceed
<1>3. ASSUME NEW r \in Requests, Abort(r) PROVE Inv'
  BY <1>3, AbortKeeps
<1>4. QED
  BY <1>1, <1>2, <1>3, OwnerKeeps DEF Next, Step

LEMMA InvHolds == Spec => []Inv
  BY InitInv, NextKeeps, PTL DEF Spec

-----------------------------------------------------------------------------
(* Theorems *)

\* Every row and every handler keeps its type.
THEOREM TypeCorrect == Spec => []TypeOK
<1>1. Inv => TypeOK
  BY DEF Inv
<1>2. QED
  BY <1>1, InvHolds, PTL

\* A quote becomes one booking, however many conversions of it are in flight
\* (convertToBooking and the unique index on quote_request_id).
THEOREM OneBooking == Spec => []OneBookingPerQuote
<1>1. Inv => OneBookingPerQuote
  BY DEF Inv
<1>2. QED
  BY <1>1, InvHolds, PTL

\* A quote is accepted, and booked, only after its fleet owner answered it with
\* an acceptance or a counter offer (customerAction, convertToBooking).
THEOREM OfferComesFirst == Spec => []BookedAfterOffer
<1>1. Inv => BookedAfterOffer
  BY DEF Inv
<1>2. QED
  BY <1>1, InvHolds, PTL

\* A booking's shipment was made from it, and an active booking has one
\* (convertToShipment), whatever overwrites the booking's status.
THEOREM ShipmentOfBooking == Spec => []ShipmentIsItsOwn
<1>1. Inv => ShipmentIsItsOwn
  BY DEF Inv
<1>2. QED
  BY <1>1, InvHolds, PTL

-----------------------------------------------------------------------------
(* Handlers one at a time *)

Single == \A r, s \in Requests : pc[r] # "idle" /\ pc[s] # "idle" => r = s

DaysApart ==
  \A b, c \in Bookings : b # c /\ IsLive(b) /\ IsLive(c) => ~ Overlap(booking[b].days, booking[c].days)

\* With nobody else at work, what a handler has read is still so when it writes.
Holds(r) ==
  pc[r] # "idle" =>
    /\ At(r, "write", { "create", "convert" }) => ~ Booked(req[r].days)
    /\ req[r].op \in { "confirm", "ship" } => IsLive(req[r].b)
    /\ req[r].op = "fleet" /\ pc[r] # "record" => quote[req[r].q] \notin ClosedQuote
    /\ req[r].op = "customer" => req[r].to \in ClosedQuote

InTurn == Single /\ DaysApart /\ \A r \in Requests : Holds(r)

MCInv == Inv /\ (~ disturbed => InTurn)

LEMMA BeginHolds ==
  ASSUME Inv, NEW r \in Requests, NEW at, NEW c, Begin(r, at, c),
         c.op \in { "create", "convert" } => at # "write",
         c.op \in { "confirm", "ship" } => IsLive(c.b),
         c.op = "fleet" => quote[c.q] \notin ClosedQuote,
         c.op = "customer" => c.to \in ClosedQuote
  PROVE  Others(r) /\ pc'[r] = at /\ Holds(r)'
<1>1. Others(r) /\ pc'[r] = at /\ req'[r] = c /\ UNCHANGED << booking, quote >>
  BY DEF Inv, TypeOK, Begin, Others, calendar, quotes
<1>2. QED
  BY <1>1 DEF Holds, At, IsLive, Has

LEMMA CallsHold ==
  ASSUME Inv, NEW r \in Requests, BookingCall(r) \/ QuoteCall(r)
  PROVE  Others(r) /\ pc'[r] # "idle" /\ Holds(r)' /\ UNCHANGED << quotes, calendar >>
<1> USE BeginHolds
<1>1. ASSUME NEW days \in Stay, CreateCall(r, days) PROVE Others(r) /\ pc'[r] # "idle" /\ Holds(r)'
  BY <1>1 DEF CreateCall, Call
<1>2. ASSUME NEW b \in Bookings, ConfirmCall(r, b) PROVE Others(r) /\ pc'[r] # "idle" /\ Holds(r)'
  BY <1>2 DEF ConfirmCall, Call, Has, IsLive, LiveStatus
<1>3. ASSUME NEW b \in Bookings, CancelCall(r, b) PROVE Others(r) /\ pc'[r] # "idle" /\ Holds(r)'
  BY <1>3 DEF CancelCall, Call
<1>4. ASSUME NEW b \in Bookings, ShipCall(r, b) PROVE Others(r) /\ pc'[r] # "idle" /\ Holds(r)'
  BY <1>4 DEF ShipCall, Call, Has, IsLive, LiveStatus
<1>5. ASSUME NEW q \in Quotes, NEW days \in Stay, ConvertCall(r, q, days)
      PROVE  Others(r) /\ pc'[r] # "idle" /\ Holds(r)'
  BY <1>5 DEF ConvertCall, Call
<1>6. ASSUME AskCall(r) PROVE Others(r) /\ pc'[r] # "idle" /\ Holds(r)'
  BY <1>6 DEF AskCall, Call
<1>7. ASSUME NEW q \in Quotes, NEW to \in QuoteStatus, FleetCall(r, q, to)
      PROVE  Others(r) /\ pc'[r] # "idle" /\ Holds(r)'
  BY <1>7 DEF FleetCall, Call
<1>8. ASSUME NEW q \in Quotes, NEW to \in QuoteStatus, CustomerCall(r, q, to)
      PROVE  Others(r) /\ pc'[r] # "idle" /\ Holds(r)'
  BY <1>8 DEF CustomerCall, Call, ClosedQuote
<1>9. UNCHANGED << quotes, calendar >>
  BY DEF BookingCall, QuoteCall, CreateCall, ConfirmCall, CancelCall, ShipCall, ConvertCall, AskCall,
     FleetCall, CustomerCall, Begin
<1>10. QED
  BY <1>1, <1>2, <1>3, <1>4, <1>5, <1>6, <1>7, <1>8, <1>9 DEF BookingCall, QuoteCall

LEMMA DaysApartFrame ==
  ASSUME DaysApart, UNCHANGED booking
  PROVE  DaysApart'
  BY DEF DaysApart, IsLive, Has

LEMMA FinishHolds ==
  ASSUME Inv, NEW r \in Requests, Finish(r)
  PROVE  Others(r) /\ pc'[r] = "idle" /\ Holds(r)'
  BY DEF Inv, TypeOK, Finish, Others, Holds

LEMMA GotoHolds ==
  ASSUME Inv, NEW r \in Requests, NEW there, Goto(r, there)
  PROVE  Others(r) /\ pc'[r] = there /\ req'[r] = req[r]
  BY DEF Inv, TypeOK, Goto, Others

LEMMA OverlapIsMutual == \A x, y \in Stay : Overlap(x, y) <=> Overlap(y, x)
  BY ConstantsAssumption DEF Stay, Overlap

\* A booking is inserted on days that no live booking takes.
LEMMA InsertApart ==
  ASSUME Inv, InTurn, NEW r \in Requests, Insert(r)
  PROVE  DaysApart'
<1>1. /\ TypeOK /\ pc[r] # "idle" /\ ~ Booked(req[r].days) /\ req[r].days \in Stay
  BY DEF Inv, Insert, InTurn, Holds, At, Known, Sound
<1>2. CASE UNCHANGED booking
  BY <1>2, DaysApartFrame DEF InTurn
<1>3. ASSUME NEW b \in Bookings,
             booking' = [booking EXCEPT ![b] = [ days |-> req[r].days, status |-> "pending",
                                                 quote |-> req[r].q, shipment |-> None ]]
      PROVE  DaysApart'
  <2>1. booking'[b].days = req[r].days /\ \A c \in Bookings \ {b} : booking'[c] = booking[c]
    BY <1>1, <1>3 DEF TypeOK
  <2>2. \A c \in Bookings \ {b} : IsLive(c)' =>
          IsLive(c) /\ booking[c].days \in Stay /\ ~ Overlap(booking[c].days, req[r].days)
    BY <1>1, <2>1 DEF IsLive, Has, Booked, TypeOK, BookingType
  <2>3. \A c \in Bookings \ {b} : IsLive(c)' =>
          ~ Overlap(booking'[c].days, booking'[b].days) /\ ~ Overlap(booking'[b].days, booking'[c].days)
    BY <1>1, <2>1, <2>2, OverlapIsMutual
  <2> SUFFICES ASSUME NEW c \in Bookings, NEW d \in Bookings, c # d, IsLive(c)', IsLive(d)'
               PROVE  ~ Overlap(booking'[c].days, booking'[d].days)
    BY DEF DaysApart
  <2>4. CASE c = b \/ d = b
    BY <2>3, <2>4
  <2>5. CASE c # b /\ d # b
    BY <2>1, <2>2, <2>5 DEF InTurn, DaysApart
  <2>6. QED
    BY <2>4, <2>5
<1>4. QED
  BY <1>2, <1>3 DEF Insert

\* A live booking stays live, or stops being so: no other becomes live.
LEMMA RewriteApart ==
  ASSUME Inv, InTurn, NEW r \in Requests, WriteStatus(r) \/ Ship(r)
  PROVE  DaysApart'
<1> PICK b \in Bookings : b = req[r].b /\ booking[b] # None
  BY DEF Inv, Known, Sound, WriteStatus, Ship, At
<1>1. booking[b] \in BookingType /\ TypeOK
  BY DEF Inv, TypeOK
<1>2. \A c \in Bookings : booking'[c] # None /\ IsLive(c)' => IsLive(c) /\ booking'[c].days = booking[c].days
  <2>1. CASE WriteStatus(r) /\ req[r].op = "cancel"
    <3>1. booking' = [booking EXCEPT ![b].status = "cancelled"]
      BY <2>1 DEF WriteStatus
    <3>2. booking'[b].status = "cancelled" /\ \A c \in Bookings \ {b} : booking'[c] = booking[c]
      BY <1>1, <3>1 DEF TypeOK, BookingType
    <3>3. QED
      BY <3>2 DEF IsLive, Has, LiveStatus
  <2>2. CASE WriteStatus(r) /\ req[r].op = "confirm"
    <3>1. booking' = [booking EXCEPT ![b].status = "confirmed"] /\ IsLive(b)
      BY <2>2 DEF WriteStatus, At, InTurn, Holds
    <3>2. booking'[b].days = booking[b].days /\ \A c \in Bookings \ {b} : booking'[c] = booking[c]
      BY <1>1, <3>1 DEF TypeOK, BookingType
    <3>3. QED
      BY <3>1, <3>2 DEF IsLive, Has
  <2>3. CASE Ship(r)
    <3> PICK s \in Shipments : booking' = [booking EXCEPT ![b].status = "active", ![b].shipment = s]
      BY <2>3 DEF Ship
    <3>1. IsLive(b)
      BY <2>3 DEF Ship, At, InTurn, Holds
    <3>2. booking'[b].days = booking[b].days /\ \A c \in Bookings \ {b} : booking'[c] = booking[c]
      BY <1>1 DEF TypeOK, BookingType
    <3>3. QED
      BY <3>1, <3>2 DEF IsLive, Has
  <2>4. QED
    BY <2>1, <2>2, <2>3 DEF WriteStatus, At
<1>3. QED
  BY <1>2 DEF InTurn, DaysApart, IsLive, Has

LEMMA StepsHold ==
  ASSUME Inv, InTurn, NEW r \in Requests, Proceed(r)
  PROVE  pc[r] # "idle" /\ Others(r) /\ Holds(r)' /\ DaysApart'
<1>1. CASE CheckBlocks(r)
  <2>1. pc[r] = "blocks" /\ DaysApart' /\ UNCHANGED << quotes, calendar >>
    BY <1>1, DaysApartFrame DEF CheckBlocks, InTurn, calendar
  <2>2. CASE Finish(r)
    BY <2>1, <2>2, FinishHolds
  <2>3. CASE Goto(r, "bookings")
    <3>1. Others(r) /\ pc'[r] = "bookings" /\ req'[r] = req[r] /\ Holds(r)
      BY <2>3, GotoHolds DEF InTurn
    <3>2. Holds(r)'
      BY <2>1, <3>1 DEF Holds, At, IsLive, Has, calendar, quotes
    <3>3. QED
      BY <2>1, <3>1, <3>2
  <2>4. QED
    BY <1>1, <2>2, <2>3 DEF CheckBlocks
<1>2. CASE CheckBookings(r)
  <2>1. pc[r] = "bookings" /\ DaysApart' /\ UNCHANGED << quotes, calendar >>
    BY <1>2, DaysApartFrame DEF CheckBookings, InTurn, calendar
  <2>2. CASE Finish(r)
    BY <2>1, <2>2, FinishHolds
  <2>3. CASE Goto(r, "write") /\ ~ Booked(req[r].days)
    <3>1. Others(r) /\ pc'[r] = "write" /\ req'[r] = req[r] /\ Holds(r)
      BY <2>3, GotoHolds DEF InTurn
    <3>2. Holds(r)'
      BY <2>1, <2>3, <3>1 DEF Holds, At, IsLive, Has, Booked, calendar, quotes
    <3>3. QED
      BY <2>1, <3>1, <3>2
  <2>4. QED
    BY <1>2, <2>2, <2>3 DEF CheckBookings
<1>3. CASE Insert(r)
  BY <1>3, InsertApart, FinishHolds DEF Insert, At
<1>4. CASE WriteStatus(r) \/ Ship(r)
  BY <1>4, RewriteApart, FinishHolds DEF WriteStatus, Ship, At
<1>5. CASE InsertQuote(r)
  <2>1. pc[r] # "idle" /\ Others(r) /\ pc'[r] = "record" /\ UNCHANGED booking
    BY <1>5 DEF InsertQuote, At, Others, Inv, TypeOK, calendar
  <2>2. req'[r].op = "ask"
    <3>1. req[r] \in RequestType /\ req[r].op = "ask" /\ req \in [Requests -> RequestType \union {None}]
      BY <1>5, <2>1 DEF InsertQuote, At, Inv, Known, TypeOK
    <3>2. QED
      BY <1>5, <3>1 DEF InsertQuote, RequestType
  <2>3. QED
    BY <2>1, <2>2, DaysApartFrame DEF Holds, At, InTurn
<1>6. CASE WriteQuote(r)
  <2>1. /\ pc[r] # "idle" /\ Others(r) /\ pc'[r] = "record" /\ UNCHANGED booking
        /\ req'[r] = req[r] /\ req[r].op \in { "fleet", "customer" }
    BY <1>6, GotoHolds DEF WriteQuote, At, calendar
  <2>2. QED
    BY <2>1, DaysApartFrame DEF Holds, At, InTurn
<1>7. CASE RecordStatus(r)
  BY <1>7, FinishHolds, DaysApartFrame DEF RecordStatus, calendar, InTurn
<1>8. QED
  BY <1>1, <1>2, <1>3, <1>4, <1>5, <1>6, <1>7 DEF Proceed

-----------------------------------------------------------------------------
(* MCSpec *)

mcVars == << vars, disturbed, calls >>

MCStep == MCNext \/ MCLost

\* Every step of MCSpec is a step of Spec.
LEMMA MCStepIsStep == [MCStep]_mcVars => [Next]_vars
<1>1. MCNext => Next
  BY DEF MCNext, Arrival, Next, Step
<1>2. MCLost => Next
  BY DEF MCLost, Next
<1>3. UNCHANGED mcVars => UNCHANGED vars
  BY DEF mcVars
<1>4. QED
  BY <1>1, <1>2, <1>3 DEF MCStep

\* Handlers that are all idle but one know nothing.
LEMMA TurnKeeps ==
  ASSUME NEW r \in Requests, Single', DaysApart', Holds(r)', Others(r),
         pc'[r] # "idle" \/ \A s \in Requests \ {r} : pc[s] = "idle"
  PROVE  InTurn'
<1>1. \A s \in Requests \ {r} : pc'[s] = "idle"
  BY DEF Single, Others
<1>2. QED
  BY <1>1 DEF InTurn, Holds

LEMMA MCNextKeeps ==
  ASSUME MCInv, MCNext, ~ disturbed'
  PROVE  InTurn'
<1>1. Inv /\ InTurn /\ Single'
  <2>1. ~ disturbed /\ ~ Overlapping'
    BY DEF MCNext
  <2>2. QED
    BY <2>1 DEF MCInv, Overlapping, Busy, Single
<1>2. ASSUME NEW r \in Requests, BookingCall(r) \/ QuoteCall(r) PROVE InTurn'
  BY <1>1, <1>2, CallsHold, DaysApartFrame, TurnKeeps DEF InTurn, calendar
<1>3. ASSUME NEW r \in Requests, Proceed(r) PROVE InTurn'
  <2>1. pc[r] # "idle" /\ Others(r) /\ Holds(r)' /\ DaysApart'
    BY <1>1, <1>3, StepsHold
  <2>2. QED
    BY <1>1, <2>1, TurnKeeps DEF InTurn, Single
<1>4. CASE Owner
  <2>1. UNCHANGED << quotes, booking, handlers >>
    BY <1>4 DEF Owner, SetOffered, CreateBlock, DeleteBlock, calendar
  <2>2. DaysApart' /\ \A r \in Requests : Holds(r)'
    BY <1>1, <2>1, DaysApartFrame DEF InTurn, Holds, At, Booked, IsLive, Has, quotes, handlers
  <2>3. QED
    BY <1>1, <2>2 DEF InTurn
<1>5. QED
  BY <1>2, <1>3, <1>4 DEF MCNext, Arrival

LEMMA MCInvHolds == MCSpec => []MCInv
<1>1. MCInit => MCInv
  <2> SUFFICES ASSUME MCInit PROVE MCInv
    OBVIOUS
  <2>1. Inv /\ Init
    BY InitInv DEF MCInit
  <2>2. InTurn
    BY <2>1 DEF Init, InTurn, Single, DaysApart, IsLive, Has, Holds
  <2>3. QED
    BY <2>1, <2>2 DEF MCInv
<1>2. ASSUME MCInv, [MCStep]_mcVars PROVE MCInv'
  <2>1. Inv'
    BY <1>2, MCStepIsStep, NextKeeps DEF MCInv
  <2>2. CASE MCNext
    BY <1>2, <2>1, <2>2, MCNextKeeps DEF MCInv
  <2>3. CASE MCLost
    BY <2>1, <2>3 DEF MCLost, MCInv
  <2>4. CASE UNCHANGED mcVars
    <3>1. UNCHANGED << quotes, booking, handlers, disturbed >>
      BY <2>4 DEF mcVars, vars, calendar
    <3>2. InTurn => InTurn'
      BY <3>1 DEF InTurn, Single, DaysApart, Holds, At, Booked, IsLive, Has, quotes, handlers
    <3>3. QED
      BY <1>2, <2>1, <3>1, <3>2 DEF MCInv
  <2>5. QED
    BY <1>2, <2>2, <2>3, <2>4 DEF MCStep
<1>3. MCSpec => MCInit /\ [][MCStep]_mcVars
  BY DEF MCSpec, MCStep, mcVars
<1>4. QED
  BY <1>1, <1>2, <1>3, PTL

\* As long as handlers run one at a time, no two live bookings share a day: the
\* check of a new booking's days (assertRangeAvailable) covers every booking
\* that is or may become live, and nothing makes a cancelled booking live again.
THEOREM CalendarFree == MCSpec => []CalendarIsFree
<1>1. MCInv => CalendarIsFree
  BY DEF MCInv, InTurn, DaysApart, CalendarIsFree, IsLive, Has, BookingStatus, LiveStatus
<1>2. QED
  BY <1>1, MCInvHolds, PTL

\* As long as handlers run one at a time, an accepted, declined or cancelled
\* quote is never open again (fleetAction, customerAction).
THEOREM ClosedQuotesStay == MCSpec => ClosedStaysClosed
<1>1. ASSUME MCInv, [MCStep]_mcVars, ~ disturbed', NEW q \in Quotes, quote[q] \in ClosedQuote
      PROVE  quote'[q] \in ClosedQuote
  <2>1. CASE UNCHANGED quote
    BY <1>1, <2>1
  <2>2. ASSUME NEW r \in Requests, InsertQuote(r) PROVE quote'[q] \in ClosedQuote
    <3> PICK p \in Quotes : quote[p] = None /\ quote' = [quote EXCEPT ![p] = "pending"]
      BY <2>2 DEF InsertQuote
    <3>1. p # q
      BY <1>1, ConstantsAssumption DEF QuoteStatus, ClosedQuote
    <3>2. QED
      BY <1>1, <3>1 DEF MCInv, Inv, TypeOK
  <2>3. ASSUME NEW r \in Requests, WriteQuote(r), MCNext PROVE quote'[q] \in ClosedQuote
    <3>1. Inv /\ Holds(r)
      BY <1>1, <2>3 DEF MCInv, MCNext, InTurn
    <3>2. /\ pc[r] = "write" /\ req[r].op \in { "fleet", "customer" }
          /\ quote' = [quote EXCEPT ![req[r].q] = req[r].to]
      BY <2>3 DEF WriteQuote, At
    <3>3. CASE req[r].q # q
      BY <1>1, <3>1, <3>2, <3>3 DEF Inv, TypeOK
    <3>4. CASE req[r].q = q
      <4>1. req[r].to \in ClosedQuote
        BY <1>1, <3>1, <3>2, <3>4 DEF Holds
      <4>2. QED
        BY <3>1, <3>2, <3>4, <4>1 DEF Inv, TypeOK
    <3>5. QED
      BY <3>3, <3>4
  <2>4. MCNext => UNCHANGED quote \/ \E r \in Requests : InsertQuote(r) \/ WriteQuote(r)
    <3>1. ASSUME NEW r \in Requests, BookingCall(r) \/ QuoteCall(r), MCInv PROVE UNCHANGED quote
      BY <3>1, CallsHold DEF MCInv, quotes
    <3>2. ASSUME NEW r \in Requests, Proceed(r) PROVE UNCHANGED quote \/ InsertQuote(r) \/ WriteQuote(r)
      BY <3>2 DEF Proceed, CheckBlocks, CheckBookings, Insert, WriteStatus, Ship, RecordStatus, quotes
    <3>3. Owner => UNCHANGED quote
      BY DEF Owner, SetOffered, CreateBlock, DeleteBlock, quotes
    <3>4. QED
      BY <1>1, <3>1, <3>2, <3>3 DEF MCNext, Arrival
  <2>5. ~ MCLost
    BY <1>1 DEF MCLost
  <2>6. UNCHANGED mcVars => UNCHANGED quote
    BY DEF mcVars, vars, quotes
  <2>7. QED
    BY <1>1, <2>1, <2>2, <2>3, <2>4, <2>5, <2>6 DEF MCStep
<1>2. MCInv /\ [MCStep]_mcVars =>
        [~ disturbed' => \A q \in Quotes : quote[q] \in ClosedQuote => quote'[q] \in ClosedQuote]_vars
  BY <1>1
<1>3. MCSpec => [][MCStep]_mcVars
  BY DEF MCSpec, MCStep, mcVars
<1>4. QED
  BY <1>2, <1>3, MCInvHolds, PTL DEF ClosedStaysClosed
=============================================================================
