\* Every accepted quote against the charges of its order.
CONSTANTS
  Quotes = {q1}
  Docs = {d1}
  StaffStatuses = {"completed"}
  Requests = {r1}
  None = None
  MaxCalls = 5
SPECIFICATION MCSpec
INVARIANTS AcceptedIsCharged
CHECK_DEADLOCK FALSE
