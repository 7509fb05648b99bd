CONSTANTS
  Submissions = {p1, m1}
  ByManager = {m1}
  TestDevices = {d1}
  SyncTasks = {t1, t2}
  Attempts = 1
  MaxIncidents = 0
  NoSubmission = NoSubmission
SPECIFICATION BetaSpec
INVARIANT WithdrawnIsLeft
CHECK_DEADLOCK FALSE
