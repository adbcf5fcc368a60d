SPECIFICATION Spec
CONSTANTS
  Tid = {t1}
  Formats = {FALSE}
  More = {1}
  NumParams = 3
  NUM_SUPPORTED_PARAM_NOTIFY = 2
  REACH_PARAM_NOTE_SETUP_COUNT = 1
  Setups <- MCSetups
  Lists <- MCLists
  Preset <- MCPreset
INVARIANTS
  TypeOK
  OneSlotEach
PROPERTIES
  OnlyNamedChange
  UnremarkedIsEnabled
  DiscoveryIsComplete
CHECK_DEADLOCK FALSE
