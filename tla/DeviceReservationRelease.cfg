CONSTANTS
  ipad = ipad
  phone = phone
  Devices <- MCDevices
  Ipads <- MCIpads
  MaxRevision = 4
  MaxCrashes = 1
SPECIFICATION Spec
PROPERTY
  RetrievalReleasesDevice
