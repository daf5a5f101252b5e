CONSTANTS
  MinFee = 30
  CallFees = {30, 50}
  RiderFees = {40}
  RiderEstimate = 50
  Budgets = {40}
  TopUps = {20}
  ItemTotals = {0, 40}
  Slices = {40}
  Negatives = {}
  Outcomes = {"transfer", "lost"}
  Charges = {}
  Leavers = {"customer", "shopper"}
  Disputes = TRUE
  MaxPaid = 140
  MaxSent = 40
SPECIFICATION Spec
CHECK_DEADLOCK FALSE
INVARIANTS
  TypeOK
  NeverOverpaid
  NothingKept
  PayeesGetTheirFees
