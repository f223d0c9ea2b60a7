SPECIFICATION FundSpec
CONSTANTS
  Calls = {c1}
  Agents = {a1}
  Nobody = Nobody
  Target = 2
  Budget = 9
  Gas = 1
  Fees = {0, 1}
  BudgetWindow = 1
  Cap = 4
  Faults = {"timeout"}
  MaxOps = 4
  MaxTime = 0
INVARIANT NeverOverfunded
CHECK_DEADLOCK FALSE
