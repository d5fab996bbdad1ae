------------------------- MODULE SchedulerAdmission -------------------------
(***************************************************************************)
(* JobScheduler implements AdmissionQueue: the critical sections of        *)
(* State::mutex are where a job is admitted, started, withdrawn and        *)
(* finished; the steps between them stutter.                               *)
(***************************************************************************)
EXTENDS JobScheduler

\* A job's outcome is decided when its record becomes terminal.
Outcome == [j \in Jobs |-> IF IsTerminal(state[j]) THEN state[j] ELSE Unset]

\* The sum of the requests of the jobs in S.
Weight(S) == Cardinality(Tokens(S))

Admission == INSTANCE AdmissionQueue
  WITH line <- queue, running <- Reserved, outcome <- Outcome,
       closed <- shutting_down, Load <- Weight

\* Every behaviour of the scheduler is one of the admission queue.
ImplementsAdmission == Admission!Spec

\* Under the scheduler's fairness the head of the line starts once it fits,
\* and every running job ends.
ImplementsFairAdmission == Admission!FairSpec

=============================================================================
