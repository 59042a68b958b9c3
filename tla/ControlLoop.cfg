SPECIFICATION Spec
CONSTANTS
  IntegralLimit = 3
  KpPos = 1
  VelLimit = 2
  MaxCurrent = 1
  VLimit = 2
  PolePairs = 1
  Flux = 2
  Resistance = 1
  Inductance = 1
  Cap = 3
  Targets <- MCTargets
  Configs <- MCConfigs
  Feedbacks <- MCFeedbacks
INVARIANTS Bounded Unwinds
