SPECIFICATION FairSpec
CONSTANTS
  Tid = {t1}
  Formats = {FALSE}
  More = {1}
  Counts = 16
  NumParams = 3
  ExOwner <- MCExOwner
  Lists <- MCLists
  Writes <- MCWrites
  Values = {1, 2}
  Faulty = {3}
  REACH_COUNT_PARAM_DESC_IN_RESPONSE = 2
  REACH_COUNT_PARAM_READ_VALUES = 2
INVARIANTS
  TypeOK
  AnswersFollowTheRequest
  ReadIsSnapshot
PROPERTIES
  AnnouncedIsOwed
  TransactionEnds
