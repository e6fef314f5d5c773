SPECIFICATION Spec
CONSTANTS
  Lines <- MCStatusLines
  Operands <- MCStatusOperands
INVARIANTS
  TypeOK
  MprvOnlyInMachineMode
PROPERTIES
  ReturnsRestore
