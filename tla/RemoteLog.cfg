SPECIFICATION FairSpec
CONSTANTS
  Clients <- MCClients
  Lines = {"hello", "world"}
  LineMasks <- MCLineMasks
  LogMasks <- MCLogMasks
  Payloads = {"p", "q"}
  Builds <- MCBuilds
  CallDepth = 6
INVARIANTS
  TypeOK
  BufferSentBeforeReused
PROPERTIES
  SentAsOwed
  LogReturns
