CONSTANTS
  MaxSpawn = 1
  BusCap = 8
  GuestErrors <- MCGuestErrors
  TerminatedMsg = "terminated"
  PanickedMsg = "panicked"
  SetupFaults = FALSE
SPECIFICATION SpawnSpec
PROPERTY SpawnFailsOnlyIfNotStarted
CHECK_DEADLOCK FALSE
