SPECIFICATION Spec
CONSTANTS
  MaxHistory = 20
  MaxIterations = 2
  MaxSentences = 2
  MaxFrames = 1
INVARIANTS
  TypeOK
  SpeechIsDrained
  OnlySpokenRepliesAreRemembered
  StopComesAfterSave
PROPERTIES
  KeepsWireContract
  TurnEndsUnlessCapHangs
CHECK_DEADLOCK FALSE
