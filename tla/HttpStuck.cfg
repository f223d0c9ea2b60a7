SPECIFICATION HttpSpec
CONSTANTS
  Requests = {r1, r2}
  Servers = {s1, s2}
  Nil = Nil
  MaxInflight = 1
  Backpressure = TRUE
PROPERTY SlotsComeBack
CHECK_DEADLOCK FALSE
