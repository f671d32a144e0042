\* Liveness of a confirmation: one booking, one handler.
CONSTANTS
  b1 = b1  b2 = b2  q1 = q1  k1 = k1  s1 = s1  s2 = s2  r1 = r1  r2 = r2
  None = None
  MaxCalls = 0
  Days = {1, 2}
  Bookings  = {b1}
  Quotes    = {q1}
  QuoteDays <- MCQuoteDays
  Blocks    = {k1}
  Shipments = {s1, s2}
  Requests  = {r1}
SPECIFICATION ConfirmSpec
PROPERTY PendingIsConfirmed
