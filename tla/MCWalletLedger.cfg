\* Two wallets, two keys, two or three postings in flight: safety, refinement
\* and liveness.
CONSTANTS
  Wallets  = {w1, w2}
  Keys     = {k1, k2}
  Requests = {r1, r2, r3}
  Deltas   <- MCDeltas
  None     = None
SPECIFICATION FairSpec
INVARIANTS
  TypeOK
  StatementAddsUp
PROPERTIES
  ImplementsLedger
  PostingsEnd
\* When every key is posted there is nothing left to do.
CHECK_DEADLOCK FALSE
