CONSTANTS
  InstallJobs = {beta, release}
  StoreJobs = {release}
  MaxRetries = 1
  MaxDeaths = 1
  MaxShutdowns = 0
  MaxSweeps = 1
  NoJob = NoJob
  NoOperation = NoOperation
SPECIFICATION InstallSpec
INVARIANT ReissueAsksAgain
CHECK_DEADLOCK FALSE
