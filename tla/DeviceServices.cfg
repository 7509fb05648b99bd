CONSTANTS
  ipad = ipad
  phone = phone
  Devices <- MCDevices
  Ipads <- MCIpads
  MaxRevision = 4
  MaxCrashes = 1
  o1 = o1
  o2 = o2
  o3 = o3
  o4 = o4
  p1 = p1
  left = left
  right = right
  None = None
  Ops <- MCOps
  Keys <- MCKeys
  KeyOf <- MCKeyOf
  Conditions = {"ready", "off"}
  Interval = 2
  Confirmations = 2
  Checks = 2
  Span = 2
  Window = 4
  AlertAfter = 1
  ProbeTime = 1
  MaxUsbEvents = 2
  MaxRestarts = 1
SPECIFICATION MCSpec
INVARIANTS
  WellTyped
  StopIsRespected
  ReservationIsExclusive
  UsbEventsAreAnswered
PROPERTIES
  DrainCompletes
  RunsInOrder
  WaitingEnds
  PinsFollowSilence
  HealthSettles
CHECK_DEADLOCK FALSE
