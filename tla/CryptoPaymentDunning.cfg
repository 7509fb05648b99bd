SPECIFICATION MCSpec
CONSTANTS
  p1 = p1
  r1 = r1
  Payments = {p1}
  Pollers = {r1}
  Scopes = {"statuses"}
  u1 = u1
  Owner <- SameOwner
  None = None
  Period = 1
  Grace = 2
  Cancels = TRUE
  MaxTime = 3
  MaxFailures = 0
  MaxCrashes = 0
INVARIANTS RefundEndsAccess
CHECK_DEADLOCK FALSE
