CONSTANTS
  Handlers = {h1, h2}
  Admins = {a1, a2}
  Nobody = Nobody
  MaxThreads = 2
  MaxMessages = 2
SPECIFICATION ChatSpec
SYMMETRY Symmetry
INVARIANTS
  OneOpenThread
  EndedBookingClosesChat
PROPERTIES
  SealedIsSilent
  TakenOverForGood
CHECK_DEADLOCK FALSE
