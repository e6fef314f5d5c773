SPECIFICATION Spec
CONSTANTS
  Lines <- MCInterruptLines
  Operands <- MCInterruptOperands
INVARIANTS
  LinesNeverLatched
PROPERTIES
  TrapsNeverLowerPrivilege
  MachineInterruptsPreempt
  SupervisorConfined
  HigherModesNeverWait
