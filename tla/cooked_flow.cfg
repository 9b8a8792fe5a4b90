SPECIFICATION Spec
CONSTANTS
  Profile = "COOKED"
  Sizes = {4, 8}
  Parsable = {TRUE, FALSE}
  Window = 22
  WordMod = 64
  Overhead = 2
  SeqLen = 1
  OkSize = 6
  ErrSize = 2
  MaxLogs = 8
INVARIANTS
  NothingLostOrDoubled
  ReportIsTrue
  AnswerExists
PROPERTIES
  KeepsPromise
  GrantsOnlyGrow
CHECK_DEADLOCK FALSE
