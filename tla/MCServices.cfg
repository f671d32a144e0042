\* Email, accounts, the surroundings of a shipment and listings, one after the other.
CONSTANTS
  Tokens = {t1, t2, t3}
  Resets = {x1}
  Verifications = {v1, v2}
  Addresses = {a1, a2}
  MAX_FAILED_LOGINS = 2
  Keys = {k1}
  Forced = {}
  Points = {1, 2, 3}
  Stops = {stop}
  OffRoute = {3}
  stop = stop
  Images = {g1, g2}
  Reviews = {w1}
  MAX_IMAGES = 2
  \* Two failures and two logins, or a reset, a login and a refresh.
  MaxLogins = 4
  \* Two confirmations and two points, or three points and a read of the live position.
  MaxErrands = 4
  \* A listing created and approved, a review and its moderation; or created, an
  \* upload, a deletion and a choice of the cover.
  MaxActs = 4
  Requests = {r1, r2}
  None = None
SPECIFICATION MCSpec
SYMMETRY Symmetry
INVARIANTS
  RowsTypeOK
  SessionsAreCurrent
  OneMailPerKey
  QueuedIsHeld
  ConfirmedIsInvoiced
  LiveIsNewest
  MarkedIsShown
  RatingIsCurrent
PROPERTIES
  LockHolds
  ReportIsKept
\* Handlers are bounded: in the end there is nothing left to do.
CHECK_DEADLOCK FALSE
