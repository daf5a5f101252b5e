CONSTANTS
  Withdrawals = {w1, w2}
  Deliveries = {d1, d2}
  Funds = 1
  MaxCrashes = 1
SPECIFICATION FairSpec
CHECK_DEADLOCK FALSE
INVARIANTS
  TrackedIsNotPaidTwice
  NeverOverdrawnAlone
PROPERTY
  LateFailureIsRestored
