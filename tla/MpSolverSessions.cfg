SPECIFICATION FairSpec
CONSTANTS
  Handles = {h1, h2}
  Sessions = {s1, s2, s3}
  Users = {u1, u2}
  Capacity = 2
  IdleTimeout = 2
  NoSession = NoSession
INVARIANTS
  RunsOnOpenSession
  CloseErasesOwn
PROPERTIES
  ExpiresOnlyIdle
  RefusalJustified
  IdleSessionsFreed
CHECK_DEADLOCK FALSE
