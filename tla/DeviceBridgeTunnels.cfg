CONSTANTS
  Openers = {o1}
  Askers = {}
  MaxMuxFaults = 0
SPECIFICATION BridgeSpec
INVARIANT TunnelsAreOwned
CHECK_DEADLOCK FALSE
