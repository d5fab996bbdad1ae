SPECIFICATION FairSpec
CONSTANTS
  MaxJobs = 2
  MaxWorkers = 2
  MaxEvents <- MCEvents
  Requests <- MCRequests
INVARIANTS
  StopsHitTheirJob
  SessionsStayHome
  NoOrphans
PROPERTIES
  WorkersDieForACause
  SilentOnceStopped
  ReportsLast
  AbortedCallsSettle
CHECK_DEADLOCK FALSE
