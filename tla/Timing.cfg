CONSTANTS
  DtMax = 2
  Short = {2}
  Budget = 1
  Timeout = 3
  ClockMod = 7
  CountMod = 3
  Delay <- MCDelay
  PowerOn <- MCPowerOn
  MaxTime = 12
SPECIFICATION Spec
INVARIANTS
  TimeIsMeasured
  JitterShows
  AlarmIsRight
CHECK_DEADLOCK FALSE
