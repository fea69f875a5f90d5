SPECIFICATION MCSpec
CONSTANTS
  ConsoleTimeout = 2
  RcTimeout = 1
  GumstixTimeout = 1
  Detection = 2
  ThrustStep = 1000
  RudderStep = 60
  CommandExpiry = 2
  RUDDER_OFFSET = 5
  INVERT_RUDDER = TRUE
  Thrusts = {120}
  Rudders = {100}
  Frames <- MCFrames
  Keys = {"4", "5", "9", "w", "n", "q", "restart", "other"}
  MaxEvents = 3
  SwitchTime = 1
  RadioWaitTime = 3
  MaxLag = 1
  MaxSwitches = 3
  NavTimeout = 1
  Heartbeat = 1
  Priorities <- MCPriorities
  Memory <- MCMemory
  TardyHelm = 2
  TardyNav = 2
  TimeDelay = 1
  AngleLimit = 25
  ActiveStart = FALSE
  Headings = {0, 190}
  MaxInputs = 3
INVARIANTS
  PidRunsOnCourse
