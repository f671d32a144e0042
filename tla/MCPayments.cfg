\* Safety: two intents of one shipment, two handlers, crashes, late and repeated webhooks.
CONSTANTS
  s1 = s1   i1 = i1   i2 = i2   r1 = r1   r2 = r2
  None = None
  Shipments = {s1}
  Intents   = {i1, i2}
  IntentOf <- MCIntentOf
  Requests  = {r1, r2}
SPECIFICATION BoundedSpec
SYMMETRY Symmetry
INVARIANTS
  SucceededIsPaid
  ConfirmedIsPaid
PROPERTIES
  RefundIsLate
  StatusFollowsTable
\* A draft cancelled before anybody paid is the end: nothing is left to do.
CHECK_DEADLOCK FALSE
