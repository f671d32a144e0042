\* The marketplace's safety: quotes, bookings and blocks of one listing.
CONSTANTS
  b1 = b1  b2 = b2  q1 = q1  k1 = k1  s1 = s1  s2 = s2  r1 = r1  r2 = r2
  None = None
  \* A quote asked for, answered, converted, confirmed against a cancellation,
  \* and made a shipment.
  MaxCalls = 6
  Days = {1, 2}
  Bookings  = {b1, b2}
  Quotes    = {q1}
  QuoteDays <- MCQuoteDays
  Blocks    = {k1}
  Shipments = {s1, s2}
  Requests  = {r1, r2}
SPECIFICATION MCSpec
INVARIANT OneBookingPerQuote
INVARIANT BookedAfterOffer
INVARIANT ShipmentIsItsOwn
INVARIANT CalendarIsFree
PROPERTY ClosedStaysClosed
SYMMETRY Symmetry
\* MaxCalls: nothing is called any more.
CHECK_DEADLOCK FALSE
