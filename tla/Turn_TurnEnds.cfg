SPECIFICATION Spec
CONSTANTS
  MaxHistory = 20
  MaxIterations = 2
  MaxSentences = 2
  MaxFrames = 1
PROPERTY TurnEnds
CHECK_DEADLOCK FALSE
