SPECIFICATION Spec
CONSTANTS
  ChunkSize = 2
  MaxLength = 5
INVARIANTS
  HandlerBlamedOnlyIfThrew
CHECK_DEADLOCK FALSE
