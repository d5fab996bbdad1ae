SPECIFICATION Spec
CONSTANTS
  j1 = j1
  j2 = j2
  j3 = j3
  c1 = c1
  c2 = c2
  Jobs <- ThreeJobs
  Requested <- RequestedByThree
  Callers = {c1}
  TotalThreads = 2
  MaxQueueSize = 2
  MaxLaunchFailures = 0
INVARIANTS
  NoOvertaking
  NoLostDispatch
CONSTRAINT
  OneCancel
