SPECIFICATION Spec
CONSTANTS
  RawClients = {r}
  CookedClients = {}
  Strangers = {}
  MaxLogs = 1
  CanDie = {}
  PipeKills = FALSE
  ShutdownIn = {"running"}
INVARIANT CloseReportIsTrue
CHECK_DEADLOCK FALSE
