\* An access token that expires while its refresh token is live.
CONSTANTS
  Calls = {c1, c2}
  MaxSessions = 2
SPECIFICATION Spec
PROPERTY ExpiredIsRefreshed
CHECK_DEADLOCK FALSE
