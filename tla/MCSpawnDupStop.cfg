CONSTANTS
  MaxSpawn = 1
  BusCap = 8
  GuestErrors <- MCGuestErrors
  TerminatedMsg = "terminated"
  PanickedMsg = "panicked"
  SetupFaults = TRUE
SPECIFICATION SpawnSpec
INVARIANT AtMostOneStopped
CHECK_DEADLOCK FALSE
