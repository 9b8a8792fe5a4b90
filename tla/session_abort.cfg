SPECIFICATION Spec
CONSTANTS
  RawClients = {r}
  CookedClients = {}
  Strangers = {}
  MaxLogs = 1
  CanDie = {}
  PipeKills = FALSE
  ShutdownIn = {"running"}
INVARIANT NoFreedChannelTouched
CHECK_DEADLOCK FALSE
