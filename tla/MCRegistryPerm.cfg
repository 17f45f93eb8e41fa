CONSTANTS
  m1 = m1
  m2 = m2
  g1 = g1
  d1 = d1
  d2 = d2
  u1 = u1
  u2 = u2
  u3 = u3
  p1 = p1
  Uuids <- MCUuids
  Ports = {p1}
  McReqs = {m1, m2}
  GenReqs = {}
  DelReqs = {}
  Faults = FALSE
SPECIFICATION Spec
INVARIANT CreatorKeepsPermission
CHECK_DEADLOCK FALSE
