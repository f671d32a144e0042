\* Two shipments and one driver; two intents of one shipment, without crashes.
CONSTANTS
  s1 = s1   s2 = s2   i1 = i1   i2 = i2   r1 = r1   r2 = r2
  d1 = d1   v1 = v1   f1 = f1   c1 = c1   c2 = c2
  None = None
  Shipments = {s1, s2}
  Drivers   = {d1}
  Vehicles  = {v1}
  FleetOf   <- MCFleetOf
  Intents   = {}
  IntentOf  <- MCNoIntentOf
  Cargo     = {c1}
  Requests  = {r1, r2}
SPECIFICATION LiveSpec
PROPERTIES
  RequestsEnd
  PaidLeavesDraft
\* When all shipments have ended or are paid there is nothing left to do.
CHECK_DEADLOCK FALSE
