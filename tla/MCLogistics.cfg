\* One request with its quotes, charges and documents.
CONSTANTS
  Quotes = {q1, q2, q3}
  Docs = {d1, d2}
  StaffStatuses = {"draft", "completed"}
  Requests = {r1, r2}
  None = None
  MaxCalls = 5
SPECIFICATION MCSpec
INVARIANTS ApprovedWasReviewed ChargedWasAccepted ItemFollowsDocument OneOpenQuote AdminAcceptedIsCharged
SYMMETRY Symmetry
CHECK_DEADLOCK FALSE
