\* No crash: the webhook of a declined card arrives after the payment's success.
CONSTANTS
  s1 = s1   i1 = i1   i2 = i2   r1 = r1   r2 = r2
  None = None
  Shipments = {s1}
  Intents   = {i1, i2}
  IntentOf <- MCIntentOf
  Requests  = {r1, r2}
SPECIFICATION LateSpec
PROPERTY PaidLeavesDraft
CHECK_DEADLOCK FALSE
