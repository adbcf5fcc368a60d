SPECIFICATION FairSpec
CONSTANTS
  Tid = {t1}
  Formats = {FALSE}
  More = {1}
  Devices <- MCDevices
  Scans <- MCScans
  MostAccessPoints = 5
  Results = {"NO_ERROR"}
  Versions <- MCVersions
  REACH_WIFI_AP_IN_DISCOVER = 2
  REACH_COUNT_STREAM_DESC_IN_RESPONSE = 2
  REACH_COUNT_PARAM_READ_VALUES = 4
INVARIANTS
  TypeOK
  SwitchesAgree
  WifiAsListed
  VersionsAreOrdered
PROPERTIES
  WifiNeedsAccess
  ImplementsDiscovery
  TransactionEnds
CHECK_DEADLOCK FALSE
