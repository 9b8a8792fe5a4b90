SPECIFICATION FairSpec
CONSTANTS
  Profile = "RAW"
  Sizes = {2}
  Parsable = {TRUE}
  Window = 9
  WordMod = 64
  Overhead = 1
  SeqLen = 1
  OkSize = 1
  ErrSize = 1
  MaxLogs = 12
INVARIANTS
  TypeOK
  WindowRespected
  SenderNotStranded
PROPERTIES
  KeepsPromise
  EveryLogHandled
