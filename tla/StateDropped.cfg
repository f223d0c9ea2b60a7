SPECIFICATION StateSpec
CONSTANTS
  p1 = p1
  p2 = p2
  d1 = d1
  d2 = d2
  d3 = d3
  Procs = {p1}
  Daos = {d1, d2}
  MaxDaos = 2
  Stale = 1
  Budget = 3
  CasAttempts = 1
  Faults = {"nopublish"}
  MaxWrites = 2
  MaxTime = 0
PROPERTIES UnpublishedIsServed
CHECK_DEADLOCK FALSE
