SPECIFICATION TransportSpec
CONSTANTS
  observed = observed
  Keys = {observed, k1, k2}
  Never = Never
  Burst = 2
  Cost = 3
  Rate = 2
  Second = 1
  SweepAfter = 2
  MaxKeys = 2
  MaxNow = 3
  MayStepBack = TRUE
  Requests = {r1, r2}
  Servers = {s1, s2}
  Nil = Nil
  MaxInflight = 1
  Backpressure = TRUE
INVARIANTS
  SlotsAreCounted
  OneRequestPerServer
  NoForeignMemory
PROPERTIES
  EvictsTheIdlest
  KeepsPromise
  EveryRequestIsAnswered
  ShutdownEnds
CHECK_DEADLOCK FALSE
