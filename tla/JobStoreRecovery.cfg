CONSTANTS
  a = a
  b = b
  c = c
  ipad = ipad
  phone = phone
  app = app
  beta = beta
  alice = alice
  bob = bob
  Jobs <- PairJobs
  Devices <- OneDevice
  Builds <- OneBuild
  Build <- PairBuild
  Owners <- OneOwner
  Owner <- PairOwner
  Priority <- PairPriority
  SchedulerJobs <- Scheduled
  AppStoreJobs <- PairJobs
  BilledJobs <- PairJobs
  PinOf <- PairFirstPin
  Fits <- PairFits
  OfflineEnabled = FALSE
  OfflineWorkers = 1
  UserCap = 0
  MaxRetries = 1
  MaxRestarts = 2
  MaxChanges = 0
SPECIFICATION Spec
INVARIANT
  BooksAgree
PROPERTIES
  RowsFollowLifecycle
  ShutdownKeepsRunningJobs
