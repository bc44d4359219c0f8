SPECIFICATION Spec
CONSTANTS
  MaxHistory = 4
  MaxCalls = 6
  MaxMessages = 14
INVARIANTS
  TypeOK
  EveryResultHasItsCall
  EveryCallIsAnswered
  EvictsOnlyTheOldest
CHECK_DEADLOCK FALSE
