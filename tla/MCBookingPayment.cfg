CONSTANTS
  Runs = {r1, r2}
  Charges = {c1}
  Funds = 2
  MaxCrashes = 1
SPECIFICATION FairSpec
INVARIANTS
  OneHoldUnlessOverlap
  DebitBuysHold
PROPERTY
  CollectedIsApplied
