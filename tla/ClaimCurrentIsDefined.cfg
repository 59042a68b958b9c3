CONSTANTS
  Resolution = 6
  DtMax = 2
  Pause = {0, 1}
  Limits = {0, 2}
  Blank = 1
  MaxMove = 1
  MaxAngle = 2
  MaxErrors = 2
SPECIFICATION Spec
INVARIANT CurrentIsDefined
