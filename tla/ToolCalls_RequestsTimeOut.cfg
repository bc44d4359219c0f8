SPECIFICATION SilentCloudSpec
CONSTANTS
  ChunkSize = 2
  MaxRefs = 3
  MaxOptional = 2
  NoTool = NoTool
PROPERTIES
  RequestsTimeOut
CHECK_DEADLOCK FALSE
