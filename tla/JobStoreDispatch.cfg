CONSTANTS
  a = a
  b = b
  c = c
  ipad = ipad
  phone = phone
  app = app
  beta = beta
  alice = alice
  bob = bob
  Jobs <- TrioJobs
  Devices <- TwoDevices
  Builds <- TrioJobs
  Build <- TrioSeparateBuilds
  Owners <- TwoOwners
  Owner <- TrioOwner
  Priority <- TrioPriority
  SchedulerJobs <- Nobody
  AppStoreJobs <- ExactlyA
  BilledJobs <- Nobody
  PinOf <- TrioPin
  Fits <- TrioFits
  OfflineEnabled = TRUE
  OfflineWorkers = 1
  UserCap = 1
  MaxRetries = 0
  MaxRestarts = 0
  MaxChanges = 0
SPECIFICATION Spec
INVARIANT
  DispatchIsSound
