SPECIFICATION ObligationSpec
CONSTANTS
  Decisions = {d1}
  Clients = {c1, c2}
  MaxChain = 3
  MaxReviews = 1
  Idle = Idle
INVARIANT
  ClosedStaysClosed
CHECK_DEADLOCK FALSE
