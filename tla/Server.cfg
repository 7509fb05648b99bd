CONSTANTS
  app = app
  beta = beta
  Accounts = {a1}
  NoAccount = NoAccount
  SignIns = {n1, n2}
  Downloads = {d1}
  NoTask = NoTask
  MaxAuthFailures = 1
  MaxAuthCrashes = 1
  Sessions = {s1, s2, s3}
  MaxSessions = 2
  MaxVersion = 1
  MaxStoreFailures = 1
  MaxStoreCrashes = 1
  invoice1 = invoice1
  other = other
  h1 = h1
  h2 = h2
  h3 = h3
  None = None
  Events <- MCEvents
  Invoices <- MCInvoices
  Handlers <- MCHandlers
  MaxSaveFailures = 1
  MaxCrashes = 1
  q1 = q1
  q2 = q2
  q3 = q3
  mine = mine
  older = older
  newer = newer
  Asks <- MCAsks
  AskKey <- MCAskKey
  Fingerprint <- MCFingerprint
  OldFingerprint <- MCOldFingerprint
  AskBuild <- MCAskBuild
  NoAsk = NoAsk
  KeyTtl = 2
  MaxClock = 3
  c1 = c1
  c2 = c2
  c3 = c3
  c4 = c4
  build = build
  release = release
  Calls <- MCCalls
  EventOf <- MCEventOf
  NoCall = NoCall
  s1 = s1
  s2 = s2
  s3 = s3
  n1 = n1
  n2 = n2
  card = card
  coin = coin
  basic = basic
  pro = pro
  Posts <- MCPosts
  PostKey <- MCPostKey
  PlanOf <- MCPlanOf
  CryptoPosts <- MCCryptoPosts
  NoPage = NoPage
  AttemptTtl = 1
  StripeTtl = 2
  LastHour = 3
  MaxAccountChanges = 1
  InstallJobs = {beta, release}
  StoreJobs = {release}
  MaxRetries = 1
  MaxDeaths = 1
  MaxSweeps = 1
  MaxShutdowns = 1
  NoJob = NoJob
  NoOperation = NoOperation
  Submissions = {p1, m1}
  ByManager = {m1}
  TestDevices = {d1}
  SyncTasks = {t1, t2}
  Attempts = 1
  MaxIncidents = 1
  NoSubmission = NoSubmission
  Snapshots = {b1, b2, b3}
  RetentionCounts = {1, 2}
  Torn = Torn
  Patches = {1, 2, Torn}
  NoSnapshot = NoSnapshot
  MaxBackupFailures = 1
  MaxOutages = 2
  MergeFailures = 2
  MergeCrashes = 2
  MaxWaiting = 1
  QuotaJobs = {1, 2, 3}
  u1 = u1
  u2 = u2
  Payers <- MCPayers
  Allowances = {1, 2}
  QuotaWindow = 2
  LastTick = 3
  MaxPlanChanges = 1
  MaxQuotaCrashes = 1
  NoPayer = NoPayer
  previous = previous
  candidate = candidate
  PreviousMigrations = 1
  CandidateMigrations = 2
  NoFile = NoFile
  NoMarker = NoMarker
  NoState = NoState
  MaxCommits = 2
  MaxDatabaseCrashes = 2
  MaxRestoreFailures = 1
  MaxRestoreCrashes = 1
SPECIFICATION MCSpec
INVARIANTS
  WellTyped
  AccountsAreSound
  StoresAgree
  RecordsTellTheTruth
  RequestsCountOnce
  InstallsAreSound
  SubscriptionsAreSound
PROPERTIES
  ResultsAreCurrent
CHECK_DEADLOCK FALSE
