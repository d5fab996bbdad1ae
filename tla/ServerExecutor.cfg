SPECIFICATION FairSpec
CONSTANTS
  Modes = {"solve", "callbacks", "create"}
  MaxHistory = 4
INVARIANTS
  EventsInOrder
  LateJobsAreStopped
  ResultHasOneOwner
PROPERTIES
  SilentOnceSettled
  StopSettles
CHECK_DEADLOCK FALSE
