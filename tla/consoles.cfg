SPECIFICATION HostSpec
CONSTANTS
  red = red
  blue = blue
  east = east
  west = west
  Timeout = 2
  Grace = 2
  MaxSignals = 3
  Labs = {red, blue}
  Ports = {1, 2, 3, 4}
  NoPort = 0
  Hazards <- HostHazards
  WebProcesses = {east, west}
  Interval = 2
  IdleLimit = 6
  MaxTime = 8
  MaxFailures = 1
INVARIANT HostTypeOK
INVARIANT CallTornDown
INVARIANT ConsolesKept
INVARIANT ReapedWasIdle
PROPERTY HostSettles
CHECK_DEADLOCK FALSE
