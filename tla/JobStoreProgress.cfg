CONSTANTS
  a = a
  b = b
  c = c
  ipad = ipad
  phone = phone
  app = app
  beta = beta
  alice = alice
  bob = bob
  Jobs <- PairJobs
  Devices <- OneDevice
  Builds <- OneBuild
  Build <- PairBuild
  Owners <- OneOwner
  Owner <- PairOwner
  Priority <- PairPriority
  SchedulerJobs <- Scheduled
  AppStoreJobs <- PairJobs
  BilledJobs <- PairJobs
  PinOf <- PairPin
  Fits <- PairFits
  OfflineEnabled = TRUE
  OfflineWorkers = 1
  UserCap = 0
  MaxRetries = 1
  MaxRestarts = 0
  MaxChanges = 1
SPECIFICATION FairSpec
PROPERTIES
  ActiveJobsSettle
INVARIANT
  QueueIsSound

