CONSTANTS
  r1 = r1
  r2 = r2
  r3 = r3
  app = app
  beta = beta
  red = red
  blue = blue
  use1 = use1
  use2 = use2
  use3 = use3
  ipad = ipad
  phone = phone
  Uses = {use1, use2, use3}
  Endpoints = {ipad, phone}
  EndpointOf <- MCEndpointOf
  Connections = {c1, c2, c3}
  NoConnection = NoConnection
  Requests <- MCRequests
  ArtifactKey <- MCArtifactKey
  SizeOf <- MCSizeOf
  Projects <- MCProjects
  ProjectOf <- MCProjectOf
  MaxBytes = 2
  ProjectQuota <- BlueQuota
  MaxFailures = 2
  MaxLibraryCrashes = 2
  Works = {w1, w2, telemetry}
  StopWorks = {telemetry}
  HttpRequests = {h1}
  Runs = {j1}
  Openers = {o1}
  Askers = {a1}
  MaxMuxFaults = 1
  Udids = {u1}
  MaxPlugs = 2
  MaxMuxBreaks = 2
  MaxLosses = 1
  MaxWire = 3
SPECIFICATION MCSpec
INVARIANTS
  WellTyped
  LibraryIsSound
  NothingOutlivesStores
  BridgeIsSound
  PoolIsSound
  EventsAreExact
PROPERTIES
  PinnedSurvive
  PromotionsEnd
  EveryShutdownEnds
  MonitorCatchesUp
CHECK_DEADLOCK FALSE
