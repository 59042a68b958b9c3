CONSTANTS
  BoardCodes <- MCBoardCodes
  SafetyWired = TRUE
  MaxRuns = 2
SPECIFICATION Spec
INVARIANTS
  ControllerExclusive
  IdleFaultHolds
  StopIsSafe
  StopIsExplained
  FreshAfterFirstSlow
  NoCarriedIntegral
PROPERTIES
  HeldFaultStopsDrive
  ImplementsInterlock
