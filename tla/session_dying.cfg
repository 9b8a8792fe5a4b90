SPECIFICATION FairSpec
CONSTANTS
  RawClients = {r}
  CookedClients = {}
  Strangers = {s}
  MaxLogs = 1
  CanDie = {r}
  PipeKills = TRUE
  ShutdownIn = {}
INVARIANTS
  TypeOK
  QueuedFrameHasChannel
  NoOrphanFrames
  DeliveredWhenClosed
PROPERTIES
  CallReturns
  SessionFreed
CHECK_DEADLOCK FALSE
