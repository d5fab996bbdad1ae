SPECIFICATION FairSpec
CONSTANTS
  Signals = {"cancellation", "interruption"}
  Solver = solver
  Handlers = {1, 2, solver}
  Calls = {1, 2}
  Repliers = {r1}
INVARIANTS
  SignalsDelivered
  AcceptedReplyReturned
  BlameIsRight
PROPERTIES
  SignalsEndWaits
CHECK_DEADLOCK FALSE
