\* Safety with three handlers in flight and a correction of the balance.
CONSTANTS
  p1 = p1   p2 = p2   w1 = w1
  earning1 = earning1   earning2 = earning2   adjustment = adjustment
  None = None
  Payouts  = {p1, p2}
  Wallets  = {w1}
  WalletOf <- MCWalletOf
  AmountOf <- MCAmountOf
  Others   = {earning1, earning2, adjustment}
  OtherOf  <- MCOtherOf
  Requests = {r1, r2, r3}
SPECIFICATION MCSpec
SYMMETRY RequestSymmetry
INVARIANTS
  TypeOK
  ProcessedIsDebited
  BalanceExplained
  ReservedCovered
PROPERTY FinalStatus
\* Ended payouts, all postings made, no handler running: nothing is left to do.
CHECK_DEADLOCK FALSE
