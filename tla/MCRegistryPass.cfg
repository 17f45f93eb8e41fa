CONSTANTS
  m1 = m1
  m2 = m2
  g1 = g1
  d1 = d1
  d2 = d2
  u1 = u1
  u2 = u2
  u3 = u3
  p1 = p1
  Uuids <- MCUuids
  Ports = {p1}
  McReqs = {m1}
  GenReqs = {g1}
  DelReqs = {d1, d2}
  Faults = TRUE
SPECIFICATION Spec
INVARIANTS
  NeverDeletesRunning
  InstanceHasConfig
  VisibleUnlessDeleting
CHECK_DEADLOCK FALSE
PROPERTY CatalogRefinement
PROPERTY ConfigKeptWhileRunning
