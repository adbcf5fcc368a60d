SPECIFICATION TimersSpec
CONSTANTS
  Modulus = 4
  Periods = {1}
  MaxStep = 2
  Horizon = 4
  Params = {1, 2, 3}
  Kind <- MCKind
  Unreadable = {3}
  Half = 2
  Bytes = {0, 1}
  NUM_SUPPORTED_PARAM_NOTIFY = 2
  Configs <- MCConfigs
  Preset <- MCPreset
INVARIANTS
  PunctualUntilWrap
  TimersTypeOK
  NothingOverdue
PROPERTIES
  MinimumPeriodKept
CHECK_DEADLOCK FALSE
