SPECIFICATION AppleSpec
CONSTANTS
  Accounts = {a1, a2}
  NoAccount = NoAccount
  SignIns = {s1, s2}
  Downloads = {d1}
  NoTask = NoTask
  MaxAuthFailures = 0
  MaxAuthCrashes = 0
INVARIANT VerifiedSessionIsOwn
CHECK_DEADLOCK FALSE
