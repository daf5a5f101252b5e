CONSTANTS
  Runs = {r1}
  Charges = {c1}
  Requests = {}
  Orders = {}
  PlanOf <- MCPlanOf
  Dates = {}
  MaxCredits = 2
  MaxEdits = 0
  MaxCrashes = 0
SPECIFICATION Spec
CHECK_DEADLOCK FALSE
INVARIANT
  OneReferenceOneCredit
