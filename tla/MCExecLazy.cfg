CONSTANTS
  MaxSpawn = 1
  BusCap = 8
  GuestErrors <- MCGuestErrors
  TerminatedMsg = "terminated"
  PanickedMsg = "panicked"
  SetupFaults = FALSE
SPECIFICATION Spec
PROPERTY ExitFutureResolves
CHECK_DEADLOCK FALSE
