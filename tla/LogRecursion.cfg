SPECIFICATION Spec
CONSTANTS
  Clients <- AnyClients
  Lines = {"hello", "world"}
  LineMasks <- MCLineMasks
  LogMasks <- MCLogMasks
  Payloads = {"p"}
  Builds <- MCBuilds
  CallDepth = 6
INVARIANTS
  BufferSentBeforeReused
CHECK_DEADLOCK FALSE
