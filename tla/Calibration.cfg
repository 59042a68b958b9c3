CONSTANTS
  CPR = 24
  DtMax = 2
  PP = 2
  ConfigPP = {1, 2, 3, 4}
  Base = 2
  ScanSteps = 2
  ScanStep = 2
  Tol = 50
  Turns = 1
  MaxRun = 6
  Quarter = 1515
  Precision = 2048
  Gaps = {1, 2, 4, 8, 16, 32, 64, 128, 256, 512, 1024}
  Sine <- MCSine
  Intervals = 16
  Table <- MCTable
SPECIFICATION Spec
INVARIANTS FoundIsAbsolute OkIsEarned NoVoltageLeft AngleIsRight ElecIsRotors FrameIsRotors
CHECK_DEADLOCK FALSE
