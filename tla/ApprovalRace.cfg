SPECIFICATION Spec
CONSTANTS
  Bindings = {"m1", "m2"}
  FlowOf <- MCFlowOf
  Messages = {}
  Calls = {c1, c2}
  TTL = 2
  UseWindow = 1
  Cooldown = 1
  MaxPending = 2
  CreateWindow = 2
  MaxCreates = 2
  FailWindow = 2
  Threshold = 1
  MaxFailures = 1
  BaseLockout = 1
  MaxLockout = 2
  MaxRecords = 2
  MaxLockouts = 2
  MaxTime = 3
  MaxQueue = 1
SYMMETRY CallSymmetry
INVARIANTS OneLivePerBinding SoleHolder 
PROPERTIES KeepsConsent LockoutHolds
CHECK_DEADLOCK FALSE
