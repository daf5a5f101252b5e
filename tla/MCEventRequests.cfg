CONSTANTS
  Handlers = {h1, h2, h3}
  Planners = {v1, v2}
  Proposals = {p1, p2, p3}
  Bookings = {b1, b2}
  Nobody = Nobody
  Nothing = Nothing
SPECIFICATION Spec
SYMMETRY Symmetry
INVARIANT
  OneBookingPerRequest
PROPERTY
  TenderUnlessStale
CHECK_DEADLOCK FALSE
