SPECIFICATION SigningSpec
CONSTANTS
  Bindings = {"m1", "m2"}
  FlowOf <- MCFlowOf
  TTL = 2
  UseWindow = 1
  Cooldown = 2
  MaxPending = 1
  CreateWindow = 1
  MaxCreates = 1
  FailWindow = 2
  Threshold = 1
  MaxFailures = 1
  BaseLockout = 1
  MaxLockout = 2
  MaxRecords = 2
  MaxLockouts = 1
  MaxTime = 7
  flow = flow
  single = single
  Calls = {flow, single}
  Singles = {single}
  Steps <- MCSteps
  Faults = {"timeout"}
  MaxRounds = 3
  MaxTxs = 6
  Callers = {c1, c2}
  Providers = {p1, p2}
  Proposals = {x1, x2}
  Accounts = {a1}
  None = None
INVARIANTS
  KeyCustody
  OneApprovedPerFlow
  BoundedNagging
  PruneForgetsNothingNeeded
  NoncesNeverClash
  DependentStepsWait
  LedgerIsTrue
  StepsHappenOnce
  NoCallLeavesItsKey
PROPERTIES
  TakeInTime
  ApprovalsLapse
  SendsWhatWasApproved
  CallsReturn
  WcCallsReturn
CHECK_DEADLOCK FALSE
