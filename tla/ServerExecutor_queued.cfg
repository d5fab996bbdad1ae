SPECIFICATION FairSpec
CONSTANTS
  Modes = {"solve", "callbacks", "create"}
  MaxHistory = 4
PROPERTIES
  QueuedCancellationIsImmediate
CHECK_DEADLOCK FALSE
