SPECIFICATION FairSpec
CONSTANTS
  Profile = "COOKED"
  Sizes = {4}
  Parsable = {TRUE}
  Window = 22
  WordMod = 64
  Overhead = 5
  SeqLen = 2
  OkSize = 2
  ErrSize = 3
  MaxLogs = 6
PROPERTIES
  EveryCallReturns
CHECK_DEADLOCK FALSE
