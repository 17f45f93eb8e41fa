CONSTANTS
  MaxSpawn = 1
  BusCap = 8
  GuestErrors <- MCGuestErrors
  TerminatedMsg = "terminated"
  PanickedMsg = "panicked"
  SetupFaults = TRUE
SPECIFICATION Spec
INVARIANT TypeOK
INVARIANT SpawnOkMeansStarted
INVARIANT KillOnlyByAbort
PROPERTY SubscribedExitResolves
PROPERTY EventuallyStopped
CHECK_DEADLOCK FALSE
