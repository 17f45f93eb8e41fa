CONSTANTS
  MaxSpawn = 1
  RuntimeFaults = FALSE
  Spins = TRUE
SPECIFICATION Spec
INVARIANT RunningMeansRegistered
CHECK_DEADLOCK FALSE
