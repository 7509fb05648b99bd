SPECIFICATION MCFairSpec
CONSTANTS
  p1 = p1
  r1 = r1
  Payments = {p1, p2}
  Pollers = {r1, r2}
  Scopes = {"statuses", "faults", "overlap", "pair"}
  u1 = u1
  Owner <- SameOwner
  None = None
  Period = 1
  Grace = 1
  Cancels = TRUE
  MaxTime = 2
  MaxFailures = 1
  MaxCrashes = 1
INVARIANT AccessFollowsPayment
PROPERTIES EndedIsFinal PollerKeepsUp
CHECK_DEADLOCK FALSE
