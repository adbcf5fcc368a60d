SPECIFICATION FairSpec
CONSTANTS
  Tid = {t1}
  Formats = {FALSE}
  More = {1}
  FileSize = 4
  FileAccess = "READ"
  NumFiles = 5
  REACH_BYTES_IN_A_FILE_PACKET = 2
  REACH_DISCOVER_FILES_COUNT = 4
  PreferredRates = {0, 1}
  Requests <- ReadRequests
  Packets = {}
  MaxBytes = 4
INVARIANTS
  TypeOK
  ReadIsContiguous
  ReadWindowKept
PROPERTIES
  ReadWindowCloses
  AnnouncedReadContinues
