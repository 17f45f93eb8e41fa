CONSTANTS
  MaxSpawn = 1
  RuntimeFaults = FALSE
  Spins = FALSE
SPECIFICATION Spec
PROPERTY WaitReturns
CHECK_DEADLOCK FALSE
