CONSTANTS
  MaxSpawn = 2
  RuntimeFaults = TRUE
  Spins = TRUE
SPECIFICATION Spec
INVARIANT LegacyTypeOK
PROPERTY EveryMacroCompletes
CHECK_DEADLOCK FALSE
