SPECIFICATION AnySpec
CONSTANTS
  Tid = {t1}
  Formats = {FALSE}
  More = {1}
  FileSize = 4
  FileAccess = "READ_WRITE"
  NumFiles = 3
  REACH_BYTES_IN_A_FILE_PACKET = 2
  REACH_DISCOVER_FILES_COUNT = 4
  PreferredRates = {0}
  Requests <- AnyRequests
  Packets <- WritePackets
  MaxBytes = 4
INVARIANTS
  AckIsDue
  WriteIsContiguous
PROPERTIES
  GoodDataKept
