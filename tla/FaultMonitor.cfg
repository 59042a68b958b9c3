CONSTANTS
  Monitored <- MCMonitored
  FocCodes <- MCFocCodes
  Value <- MCValue
  Settings <- MCSettings
  Width = 4
SPECIFICATION Spec
INVARIANTS
  ReportedWhenOver
  ClearedBelowLo
PROPERTIES
  Debounced
