SPECIFICATION FairSpec
CONSTANTS
  ChunkSize = 2
  MaxLength = 5
INVARIANTS
  RepliesIntact
  SmallReplyNotBlamed
PROPERTIES
  CallEnds
CHECK_DEADLOCK FALSE
