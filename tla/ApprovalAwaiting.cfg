SPECIFICATION Spec
CONSTANTS
  Bindings = {"m1"}
  FlowOf <- MCFlowOf
  Messages = {}
  Calls = {c1, c2}
  TTL = 2
  UseWindow = 1
  Cooldown = 1
  MaxPending = 2
  CreateWindow = 2
  MaxCreates = 2
  FailWindow = 2
  Threshold = 2
  MaxFailures = 2
  BaseLockout = 1
  MaxLockout = 2
  MaxRecords = 1
  MaxLockouts = 0
  MaxTime = 2
  MaxQueue = 1
PROPERTIES AwaitingMeansPending
CHECK_DEADLOCK FALSE
