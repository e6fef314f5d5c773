SPECIFICATION Spec
CONSTANTS
  SourceCount = 2
  ContextCount = 2
  PriorityLimit = 4
  WordBits = 2
  WordValues <- MCWordValues
INVARIANTS
  TypeOK
  WinnerIsCurrent
  ScanFindsWinner
  ServedOnce
  NoLostLevel
PROPERTY GatewaySpec
