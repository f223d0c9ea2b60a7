SPECIFICATION StateSpec
CONSTANTS
  p1 = p1
  p2 = p2
  d1 = d1
  d2 = d2
  d3 = d3
  Procs = {p1, p2}
  Daos = {d1, d2, d3}
  MaxDaos = 2
  Stale = 1
  Budget = 3
  CasAttempts = 1
  Faults = {"nolock", "nopublish", "leak", "noread", "crash"}
  MaxWrites = 3
  MaxTime = 4
SYMMETRY StateSymmetry
INVARIANTS CacheIsFresh CorpsesAreCollected
PROPERTIES LockedWritesAddUp
CHECK_DEADLOCK FALSE
