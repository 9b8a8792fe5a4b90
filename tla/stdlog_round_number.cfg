SPECIFICATION Spec
CONSTANTS
  SecsPerMin = 60
  MinsPerHour = 2
  HoursPerDay = 13
  IntMax = 3000
  Leftovers <- MCLeftovers
  Times <- MCTimes
  Offsets <- MCOffsets
  OwnHost <- MCOwnHost
  PeerHost <- MCPeerHost
  MyIP <- MCMyIP
  Jobs <- DoubleJobs
INVARIANT
  LineFits
CHECK_DEADLOCK FALSE
