--------------------------- MODULE MCJobScheduler ---------------------------
(***************************************************************************)
(* Small instances of JobScheduler for TLC.                                *)
(***************************************************************************)
EXTENDS SchedulerAdmission, TLC

CONSTANTS j1, j2, j3, c1, c2

\* One thread of budget is one short of what the two jobs ask for together.
TwoJobs == {j1, j2}
RequestedByTwo == j1 :> 1 @@ j2 :> 2

\* Small, large, small: the third could overtake the second.
ThreeJobs == {j1, j2, j3}
RequestedByThree == j1 :> 1 @@ j2 :> 2 @@ j3 :> 1

\* BOUND of the three-job run: at most one job is cancelled and none is
\* interrupted; an interruption does not move a job through the scheduler.
OneCancel ==
  /\ Cardinality({j \in Jobs : cancellation[j]}) <= 1
  /\ \A j \in Jobs : ~interruption[j]

=============================================================================
