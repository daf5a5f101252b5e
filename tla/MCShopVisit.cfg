CONSTANTS
  Handlers = {h1, h2}
  Shoppers = {s1, s2}
  Riders = {r1, r2}
  NoOne = NoOne
  Leavers = {"customer", "shopper"}
  MaxHolds = 2
  MaxStale = 1
SPECIFICATION Spec
SYMMETRY Symmetry
VIEW View
INVARIANTS
  SettledOnce
  BothAwayEnds
  FeeIsHeld
PROPERTY
  JourneyUnlessStale
CHECK_DEADLOCK FALSE
