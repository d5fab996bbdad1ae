--------------------------- MODULE AdmissionQueue ---------------------------
(***************************************************************************)
(* What JobScheduler promises, with no threads, locks or observers: jobs   *)
(* stand in one bounded line, leave it in order as soon as the head's      *)
(* threads fit in the budget, and end with exactly one outcome.            *)
(***************************************************************************)
EXTENDS Integers, Sequences

CONSTANTS
  Jobs, TotalThreads, MaxQueueSize, Requested,
  Load(_)    \* the threads of the budget that a set of jobs holds

VARIABLES
  line,      \* admitted jobs that wait, oldest first
  running,   \* jobs that hold their threads
  outcome,   \* how each job ended, or Unset
  closed     \* no job is admitted or started any more

admission == <<line, running, outcome, closed>>

Unset    == "unset"
Outcomes == {"cancelled", "succeeded", "failed"}
Waiting  == {line[i] : i \in 1..Len(line)}

Init ==
  /\ line = <<>>
  /\ running = {}
  /\ outcome = [j \in Jobs |-> Unset]
  /\ closed = FALSE

Admit(j) ==
  /\ ~closed
  /\ Len(line) < MaxQueueSize
  /\ Requested[j] \in 1..TotalThreads
  /\ j \notin Waiting \cup running
  /\ outcome[j] = Unset
  /\ line' = Append(line, j)
  /\ UNCHANGED <<running, outcome, closed>>

Start ==
  /\ ~closed
  /\ line # <<>>
  /\ Load(running) + Requested[Head(line)] <= TotalThreads
  /\ running' = running \cup {Head(line)}
  /\ line' = Tail(line)
  /\ UNCHANGED <<outcome, closed>>

\* A job leaves the line; the others keep their order.
Withdraw(j) ==
  /\ \E i \in 1..Len(line) :
       /\ line[i] = j
       /\ line' = SubSeq(line, 1, i - 1) \o SubSeq(line, i + 1, Len(line))
  /\ outcome' = [outcome EXCEPT ![j] = "cancelled"]
  /\ UNCHANGED <<running, closed>>

Finish(j) ==
  /\ j \in running
  /\ running' = running \ {j}
  /\ \E r \in Outcomes : outcome' = [outcome EXCEPT ![j] = r]
  /\ UNCHANGED <<line, closed>>

Close ==
  /\ ~closed
  /\ closed' = TRUE
  /\ outcome' = [j \in Jobs |-> IF j \in Waiting THEN "cancelled" ELSE outcome[j]]
  /\ line' = <<>>
  /\ UNCHANGED running

Next ==
  \/ Start \/ Close
  \/ \E j \in Jobs : Admit(j) \/ Withdraw(j) \/ Finish(j)

Spec == Init /\ [][Next]_admission

FairSpec ==
  /\ Spec
  /\ WF_admission(Start)
  /\ \A j \in Jobs : WF_admission(Finish(j))

=============================================================================
