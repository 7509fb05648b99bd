CONSTANTS
  MergeFailures = 1
  MergeCrashes = 1
  MaxWaiting = 0
SPECIFICATION MergeSpec
INVARIANT NothingIsLeft
CHECK_DEADLOCK FALSE
