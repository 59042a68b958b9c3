CONSTANTS
  Param <- MCParam
  Digit <- MCDigit
  Text <- MCText
  Typed <- MCTyped
  OrderOf <- MCOrderOf
  LineMax = 8
  TickRate = 9
  RateMod = 7
  ULongMod = 100
  MaxLines = 3
  MaxTicks = 9
SPECIFICATION CliSpec
INVARIANTS
  RateIsKept
PROPERTIES
  ImplementsSettings
CHECK_DEADLOCK FALSE
