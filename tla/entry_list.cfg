SPECIFICATION FairSpec
CONSTANTS
  Cells = {101, 102, 103, 104}
  Users = {1, 2, 3, 4}
  Kinds = {"sessions", "channels", "sendque", "rxque", "profiles"}
INVARIANTS TypeOK NoStaleEntry WellLinked
PROPERTY KeepsList
CHECK_DEADLOCK FALSE
