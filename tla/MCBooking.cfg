CONSTANTS
  Kinds = {"HOME_COOK", "CATERING", "EVENT_PLANNING"}
  Totals = {10, 15}
  Slices = {5}
  Funds = {10}
  Refunds = {10}
  Charges = {c1}
  Tickets = {t1}
  MaxAdjust = 10
SPECIFICATION FairSpec
CHECK_DEADLOCK FALSE
INVARIANTS
  HoldTracksPrice
  MoneyAccounted
  VendorGetsThePrice
PROPERTIES
  StartedPriceFrozen
  TimedHoldLeavesHeld
