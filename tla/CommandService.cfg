SPECIFICATION FairSpec
CONSTANTS
  Tid = {t1, t2}
  Formats = {TRUE, FALSE}
  More = {1}
  NumCommands = 5
  NumOpen = 1
  REACH_NUM_COMMANDS_IN_RESPONSE = 2
INVARIANTS
  TypeOK
  ContinuedBelongsToItsPrompt
  DiscoveryConserves
  DiscoveryComplete
PROPERTIES
  RestrictedNeedsKey
  ImplementsDiscovery
  PromptConsumed
