SPECIFICATION Spec
CONSTANTS
  Main = main
  Threads = {t}
  Handlers = {h}
  FileChans = {f}
  UxsChans = {u}
  Dflt = u
  Warm = {u}
  Uses <- MCPrivate
  Fds = {d1, d2}
  NoFd = NoFd
  MaxLogs = 2
  MaxDowns = 1
INVARIANT NoneOpenAtEnd
CHECK_DEADLOCK FALSE
