SPECIFICATION Spec
CONSTANTS
  Main = main
  Threads = {t}
  Handlers = {h}
  FileChans = {f}
  UxsChans = {u}
  Dflt = u
  Warm = {}
  Uses <- MCShared
  Fds = {d1, d2}
  NoFd = NoFd
  MaxLogs = 2
  MaxDowns = 1
INVARIANT FailsOnlyForCause
CHECK_DEADLOCK FALSE
