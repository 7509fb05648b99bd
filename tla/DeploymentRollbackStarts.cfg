CONSTANTS
  previous = previous
  candidate = candidate
  PreviousMigrations = 1
  CandidateMigrations = 2
  NoFile = NoFile
  NoMarker = NoMarker
  NoState = NoState
  MaxCommits = 1
  MaxDatabaseCrashes = 1
  MaxRestoreFailures = 0
  MaxRestoreCrashes = 1
SPECIFICATION DeploymentSpec
INVARIANTS
  PreviousStarts
  RestoreCanBeRepeated
CHECK_DEADLOCK FALSE
