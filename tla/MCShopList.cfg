CONSTANTS
  Handlers = {h1, h2}
  Items = {i1, i2}
  Payouts = {p1, p2}
  Nothing = Nothing
  Prices = {1, 3}
  Deposit = 2
  Fee = 1
  CallFees = {2}
  Allotments <- AnyAmount
  TopUps = {1}
  MaxDeposit = 3
  MaxMishaps = 1
SPECIFICATION ListSpec
SYMMETRY Symmetry
INVARIANTS
  TotalIsApproved
  ApprovedFitDeposit
  ApprovedAsShown
  SellersGetWhatWasAgreed
CHECK_DEADLOCK FALSE
