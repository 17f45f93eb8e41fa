CONSTANTS
  d1 = d1
  d2 = d2
  d3 = d3
  Dirs <- MCDirs
  NewParsesAsOld = FALSE
  MaxFaults = 2
SPECIFICATION Spec
INVARIANT CompleteWhenOk
CHECK_DEADLOCK FALSE
