SPECIFICATION LimitSpec
CONSTANTS
  Window = 4
  PaymentCap = 2
  WindowCap = 5
  Recipients = {payee}
  MaxActions = 2
  SettleReads = 1
  MaxDay = 7
  Calls = {c1, c2}
  Agents = {a1, a2}
  Nobody = Nobody
  Target = 2
  Budget = 2
  Gas = 1
  Fees = {0, 1}
  BudgetWindow = 0
  Cap = 2
  Faults = {"rejected", "lost", "timeout", "nowrite"}
  MaxOps = 3
  MaxTime = 1
  Senders = {t1, t2}
  Composites = {t2}
  Limit = 2
  Minute = 2
  MaxReal = 6
  MaxStamps = 5
SYMMETRY Symmetry
INVARIANTS
  RollingCap
  AcceptedIsPayable
  Conservative
  BoundedOverrun
  WindowHolds
PROPERTIES
  RefusesOnlyWhenFull
CHECK_DEADLOCK FALSE
