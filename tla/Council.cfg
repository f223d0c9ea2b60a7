SPECIFICATION CouncilSpec
CONSTANTS
  Proposals = {1}
  Agents = {1, 2}
  MaxVoteAttempts = 2
  MaxFaults = 2
  MaxCrashes = 1
INVARIANTS ForNeedsAModel DoneIsDone BoundedRework
PROPERTY EveryAgentIsServed
