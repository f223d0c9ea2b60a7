SPECIFICATION Spec
CONSTANTS
  Bindings = {"m1", "m2"}
  FlowOf <- MCFlowOf
  Messages = {"m1", "m2"}
  Calls = {c1, c2}
  TTL = 2
  UseWindow = 1
  Cooldown = 2
  MaxPending = 2
  CreateWindow = 2
  MaxCreates = 2
  FailWindow = 2
  Threshold = 2
  MaxFailures = 2
  BaseLockout = 1
  MaxLockout = 2
  MaxRecords = 2
  MaxLockouts = 0
  MaxTime = 3
  MaxQueue = 1
PROPERTIES CallsReturn DeclineHolds
CHECK_DEADLOCK FALSE
