CONSTANTS
  CheckInterval = 2
  MaxMessages = 7
  MaxWaiting = 2
  MaxFaults = 1
SPECIFICATION Spec
CHECK_DEADLOCK FALSE
INVARIANT TypeOK
INVARIANT TurnHearsOnePeriod
INVARIANT LoopIsNeverInATurn
INVARIANT RedisKnowsThePhase
