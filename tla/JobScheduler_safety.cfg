SPECIFICATION Spec
CONSTANTS
  j1 = j1
  j2 = j2
  j3 = j3
  c1 = c1
  c2 = c2
  Jobs <- TwoJobs
  Requested <- RequestedByTwo
  Callers = {c1, c2}
  TotalThreads = 2
  MaxQueueSize = 2
  MaxLaunchFailures = 1
INVARIANTS
  ThreadBudget
  PromiseMatchesState
  ShutdownDrains
  RestsWhenDone
PROPERTIES
  TerminalIsFinal
