CONSTANTS
  u1 = u1
  u2 = u2
  Uploads = {u1, u2}
  ClientNames <- MCClientNames
  MaxPostfix = 2
  MaxFields = 1
  Faults = FALSE
SPECIFICATION Spec
PROPERTY UploadCreatesOnlyNewFiles
CHECK_DEADLOCK FALSE
