CONSTANTS
  Runs = {r1, r2}
  Charges = {c1}
  Requests = {m1}
  Orders = {o1}
  PlanOf <- MCPlanOf
  Dates = {1, 3}
  MaxCredits = 2
  MaxEdits = 2
  MaxCrashes = 1
SPECIFICATION Spec
CHECK_DEADLOCK FALSE
INVARIANTS
  LogTrailsBalance
  WebhookCreditsOnce
  RequestSettledOnce
  DebitBuysBoost
  FeaturedUntilSomeBoost
