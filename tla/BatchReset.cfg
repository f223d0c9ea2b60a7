SPECIFICATION SendSpec
CONSTANTS
  flow = flow
  single = single
  Calls = {flow}
  Singles = {}
  Steps <- MCSteps
  Faults = {"reset"}
  MaxRounds = 3
  MaxTxs = 5
INVARIANTS
  RerunNeverResends
CHECK_DEADLOCK FALSE
