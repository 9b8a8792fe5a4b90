SPECIFICATION FairSpec
CONSTANTS
  RawClients = {r}
  CookedClients = {k}
  Strangers = {}
  MaxLogs = 1
  CanDie = {}
  PipeKills = FALSE
  ShutdownIn = {"running"}
INVARIANTS
  RightReply
PROPERTIES
  CallReturns
  ShutdownEnds
CHECK_DEADLOCK FALSE
