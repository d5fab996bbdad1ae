SPECIFICATION FairSpec
CONSTANTS
  MaxEvents = 2
  MaxBytes = 3
  StatusSize = 1
  MetaSize = 1
  Sizes = {2, 4}
  Clients = {c1, c2}
  MaxAppends = 6
INVARIANTS
  WindowBounded
  NoSilentGap
  ExpiryIsReal
  OneLiveStream
PROPERTIES
  StreamsEnd
CHECK_DEADLOCK FALSE
