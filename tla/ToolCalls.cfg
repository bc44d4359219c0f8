SPECIFICATION Spec
CONSTANTS
  ChunkSize = 2
  MaxRefs = 3
  MaxOptional = 2
  NoTool = NoTool
INVARIANTS
  TypeOK
  HintsAreTrue
  ShownReferencesAreStored
  OneChunkAtATime
PROPERTIES
  ImplementsDelivery
  EveryCallIsAnswered
CHECK_DEADLOCK FALSE
