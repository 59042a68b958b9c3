CONSTANTS
  CPR = 10
  DtMax = 2
  MaxMove = 1
  MaxSlip = 1
  MaxGap = 1
  Start = {2, 9}
  MaxBack = 1
  MaxPos = 11
SPECIFICATION ShaftSpec
INVARIANTS Tracks GoodIsAbsolute
PROPERTY VelocityIsMotion
