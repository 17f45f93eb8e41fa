CONSTANTS
  d1 = d1
  d2 = d2
  d3 = d3
  Dirs <- MCDirs
  NewParsesAsOld = TRUE
  MaxFaults = 2
SPECIFICATION Spec
PROPERTY EventuallyMigrated
CHECK_DEADLOCK FALSE
