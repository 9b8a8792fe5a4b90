SPECIFICATION Spec
CONSTANTS
  Profile = "RAW"
  Sizes = {1, 3}
  Parsable = {TRUE}
  Window = 8
  WordMod = 64
  Overhead = 1
  SeqLen = 1
  OkSize = 1
  ErrSize = 1
  MaxLogs = 8
INVARIANTS
  WindowRespected
