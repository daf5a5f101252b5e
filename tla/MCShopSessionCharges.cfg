CONSTANTS
  MinFee = 30
  CallFees = {50}
  RiderFees = {40}
  RiderEstimate = 50
  Budgets = {40}
  TopUps = {}
  ItemTotals = {40, 80}
  Slices = {40}
  Negatives = {40}
  Outcomes = {"cash"}
  Charges = {c1}
  Leavers = {}
  Disputes = FALSE
  MaxPaid = 130
  MaxSent = 80
SPECIFICATION FairSpec
CHECK_DEADLOCK FALSE
INVARIANTS
  EndedLeavesNothingHeld
  NeverOverpaid
  AllocationsFitDeposit
PROPERTIES
  SessionEnds
