\* Safety: two shipments, one driver, one vehicle, one payment, two handlers.
CONSTANTS
  s1 = s1   s2 = s2   d1 = d1   v1 = v1   f1 = f1   i1 = i1
  c1 = c1   c2 = c2   r1 = r1   r2 = r2
  None = None
  Shipments = {s1, s2}
  Drivers   = {d1}
  Vehicles  = {v1}
  FleetOf   <- MCFleetOf
  Intents   = {i1}
  IntentOf  <- MCIntentOf
  Cargo     = {c1}
  Requests  = {r1, r2}
SPECIFICATION BoundedSpec
SYMMETRY RequestSymmetry
INVARIANTS
  DriverExclusive
  EarningExactlyOnce
  RefundOnlyCancelled
  AuditTrail
PROPERTY AssignedWhileAvailable
