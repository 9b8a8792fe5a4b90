SPECIFICATION FairSpec
CONSTANTS
  RawClients = {r}
  CookedClients = {}
  Strangers = {}
  MaxLogs = 1
  CanDie = {}
  PipeKills = FALSE
  ShutdownIn = {"setup", "running"}
PROPERTIES
  ShutdownEnds
CHECK_DEADLOCK FALSE
