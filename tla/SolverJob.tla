------------------------------ MODULE SolverJob ------------------------------
(***************************************************************************)
(* javascript/lib/solver_job.ts: calls of executeSolverJob() over one      *)
(* WorkerExecutor.  A call may still wait for its observers, or commit,    *)
(* when the executor has started the job of the next call.                 *)
(***************************************************************************)
EXTENDS WorkerExecutor

VARIABLES
  call,        \* where executeSolverJob() of a job is; "committing" in onSuccess
  chain,       \* eventChain: events that wait for the observer
  observing,   \* the event whose observer is awaited, or 0
  seen,        \* events for which the observer was called, in order; 0 is the failure
  stopped,     \* observersStopped
  aborted,     \* abortFailure
  failed,      \* callbackFailure
  outcome      \* of the promise the caller has

observer_vars == <<chain, observing, seen, stopped>>
call_vars == <<call, aborted, failed, outcome>>
vars == <<executor_vars, observer_vars, call_vars>>

Init ==
  /\ ExecutorInit
  /\ call = [j \in Jobs |-> "idle"]
  /\ chain = [j \in Jobs |-> <<>>]
  /\ observing = [j \in Jobs |-> 0]
  /\ seen = [j \in Jobs |-> <<>>]
  /\ stopped = {} /\ aborted = {} /\ failed = {}
  /\ outcome = [j \in Jobs |-> "pending"]

-----------------------------------------------------------------------------
(* Observers.                                                               *)

\* The observer is called with event k and awaited.
Call(j, k) ==
  /\ observing' = [observing EXCEPT ![j] = k]
  /\ seen' = [seen EXCEPT ![j] = Append(@, k)]

IsFree(j) == observing[j] = 0

\* onEvent: the event is dropped, or observed, or it waits for its turn.
OnEvent(j, k) ==
  /\ IF j \in stopped
     THEN UNCHANGED <<chain, observing, seen>>
     ELSE IF IsFree(j)
     THEN Call(j, k) /\ UNCHANGED chain
     ELSE chain' = [chain EXCEPT ![j] = Append(@, k)] /\ UNCHANGED <<observing, seen>>
  /\ UNCHANGED stopped

\* The next event of the chain has its turn.
Advance(j) ==
  IF chain[j] = <<>>
  THEN observing' = [observing EXCEPT ![j] = 0] /\ UNCHANGED <<chain, seen>>
  ELSE Call(j, Head(chain[j])) /\ chain' = [chain EXCEPT ![j] = Tail(@)]

\* Mutant: events are not accepted any more, those that wait are observed.
ClosesChain(j) ==
  /\ stopped' = stopped \cup {j}
  /\ UNCHANGED <<chain, observing, seen>>

\* stopObservers: nobody waits for the current observer, and the chain runs out
\* without a further call.
StopObservers(j) ==
  /\ stopped' = stopped \cup {j}
  /\ observing' = [observing EXCEPT ![j] = 0]
  /\ chain' = [chain EXCEPT ![j] = <<>>]
  /\ UNCHANGED seen

EventArrivesAt(j) ==
  \E w \in Workers, k \in 1..emitted[j] :
    /\ EventArrives(w, j, k)
    /\ IF place[j] = "posted" THEN OnEvent(j, k) ELSE UNCHANGED observer_vars
    /\ UNCHANGED call_vars

ObserverReturns(j) ==
  /\ observing[j] # 0
  /\ Advance(j)
  /\ UNCHANGED <<executor_vars, stopped, call_vars>>

\* failObserver: an observer, of either sort, throws.
ObserverFails(j) ==
  /\ call[j] \in {"waiting", "draining"} /\ j \notin stopped
  /\ observing[j] # 0 \/ place[j] = "posted"
  /\ failed' = failed \cup {j}
  /\ StopObservers(j)
  /\ Cancel(j)
  /\ UNCHANGED <<call, aborted, outcome>>

-----------------------------------------------------------------------------
(* The call.                                                                *)

Calls(j) ==
  /\ Execute(j)
  /\ call' = [call EXCEPT ![j] = "waiting"]
  /\ UNCHANGED <<observer_vars, aborted, failed, outcome>>

\* onAbort
Abort(j) ==
  /\ call[j] \in {"waiting", "draining", "committing"} /\ j \notin aborted
  /\ aborted' = aborted \cup {j}
  /\ StopObservers(j)
  /\ Cancel(j)
  /\ UNCHANGED <<call, failed, outcome>>

\* onInterrupt
InterruptCall(j) ==
  /\ call[j] \in {"waiting", "draining", "committing"}
  /\ Interrupt(j)
  /\ UNCHANGED <<observer_vars, call_vars>>

\* The call is over, and what only it knows is forgotten.
Settle(j, value) ==
  /\ call' = [call EXCEPT ![j] = "settled"]
  /\ outcome' = [outcome EXCEPT ![j] = value]
  /\ aborted' = aborted \ {j}
  /\ failed' = failed \ {j}

\* The job has failed, which an observer that is free is told: it is called and not
\* awaited.  A cancellation gives way to the reason for it.
Rejected(j) ==
  /\ call[j] = "waiting" /\ result[j] \in {"error", "cancelled"}
  /\ stopped' = stopped \cup {j}
  /\ observing' = [observing EXCEPT ![j] = 0]
  /\ chain' = [chain EXCEPT ![j] = <<>>]
  /\ seen' = IF j \in stopped \/ ~IsFree(j) THEN seen
                ELSE [seen EXCEPT ![j] = Append(@, 0)]
  /\ Settle(j, CASE result[j] = "error" -> "error"
                 [] result[j] = "cancelled" /\ j \in failed -> "observer"
                 [] OTHER -> "aborted")
  /\ UNCHANGED executor_vars

Answered(j) ==
  /\ call[j] = "waiting" /\ result[j] = "ok"
  /\ call' = [call EXCEPT ![j] = "draining"]
  /\ UNCHANGED <<executor_vars, observer_vars, aborted, failed, outcome>>

\* Mutant: an abort does not release a call that waits for its observers.
AwaitsChain(j) == observing[j] = 0 /\ chain[j] = <<>> /\ j \notin aborted

\* Mutant: the result does not wait for the observers.
NeverWaits(j) == TRUE

\* The race of the chain against the stop of the observers.
ObserversDone(j) == j \in stopped \/ (observing[j] = 0 /\ chain[j] = <<>>)

\* onSuccess, before any failure may escape; it may itself throw.
Commit(j) ==
  /\ call[j] = "draining" /\ ObserversDone(j)
  /\ call' = [call EXCEPT ![j] = "committing"]
  /\ UNCHANGED <<executor_vars, observer_vars, aborted, failed, outcome>>

Conclude(j) ==
  /\ call[j] = "committing"
  /\ StopObservers(j)
  /\ \E value \in {"error", CASE j \in failed -> "observer"
                             [] j \notin failed /\ j \in aborted -> "aborted"
                             [] OTHER -> "value"} : Settle(j, value)
  /\ UNCHANGED executor_vars

-----------------------------------------------------------------------------

Caller == \E j \in Jobs : Calls(j) \/ Abort(j) \/ InterruptCall(j)

User == \E j \in Jobs : ObserverReturns(j) \/ ObserverFails(j)

Parent ==
  \/ Manager /\ UNCHANGED <<observer_vars, call_vars>>
  \/ \E j \in Jobs : EventArrivesAt(j) \/ Rejected(j) \/ Answered(j) \/ Commit(j)
                       \/ Conclude(j)

Next ==
  \/ Caller
  \/ User
  \/ Parent
  \/ (Load \/ Thread) /\ UNCHANGED <<observer_vars, call_vars>>

Spec == Init /\ [][Next]_vars

\* A solver returns once its flag is raised, or if it cannot be stopped at all.
Obeys(w) ==
  /\ task[w] # 0 => flag[w] # 0 \/ stopsBy[task[w]] = "nothing"
  /\ Return(w)

\* Workers start, solvers obey, the parent handles what it gets, each of which can
\* only happen so often; observers may never return, and nothing has to be called.
Fair == Parent \/ ((\E w \in Workers : Boot(w) \/ Obeys(w))
                   /\ UNCHANGED <<observer_vars, call_vars>>)

FairSpec == Spec /\ WF_vars(Fair)

-----------------------------------------------------------------------------

TypeOK ==
  /\ ExecutorTypeOK
  /\ call \in [Jobs -> {"idle", "waiting", "draining", "committing", "settled"}]
  /\ chain \in [Jobs -> Seq(Nat)]
  /\ observing \in [Jobs -> Nat]
  /\ seen \in [Jobs -> Seq(Nat)]
  /\ stopped \subseteq Jobs /\ aborted \subseteq Jobs /\ failed \subseteq Jobs
  /\ outcome \in [Jobs -> {"pending", "value", "aborted", "observer", "error"}]

\* A stop hits the job it was meant for: the flag of a worker that solves is either
\* clear or was raised for the job in hand, although a stop may be parked until the
\* worker is ready, may come when the solver has just returned, and may be called
\* for a job that is over while the next one runs.
StopsHitTheirJob == \A w \in Workers : task[w] # 0 => flag[w] \in {0, task[w]}

\* A job that uses a session runs on the worker that has it, never on a replacement
\* where the same handle may name another session.
SessionsStayHome == \A w \in Workers : task[w] \in users => home = w

\* A worker that runs is the one in use: a worker whose factory was slow, and that
\* has been retired meanwhile, is terminated and does not run for nobody.
NoOrphans == \A w \in Workers : phase[w] \in {"starting", "running"} => w = current

\* The worker of a job is only ever terminated because that job was cancelled or
\* that worker itself failed: neither a late message of a retired worker nor a late
\* cancellation of an earlier job reaches the replacement.
WorkersDieForACause ==
  [][\A w \in Workers :
       task[w] # 0 /\ phase[w] # "dead" /\ phase'[w] = "dead" =>
         task[w] \in cancelled' \/ (channel'[w] # <<>> /\ channel'[w][Len(channel'[w])].kind = "failed")]_vars

\* "Cancellation stops observer delivery"; "no further observer calls are scheduled":
\* no observer is called once they are stopped or the promise is settled.
SilentOnceStopped ==
  [][\A j \in Jobs : j \in stopped => seen'[j] = seen[j]]_vars

\* A value is given after the observer has seen every event of the job in order, and
\* what the job returned is committed before anything is reported of it, be it the
\* abort or the failure of an observer.
ReportsLast ==
  [][\A j \in Jobs : outcome'[j] # outcome[j] =>
       /\ outcome'[j] = "value" => seen[j] = [k \in 1..emitted[j] |-> k]
       /\ result[j] = "ok" => call[j] = "committing"]_vars

\* "Aborting ... waits for the job to settle": and it settles, at whatever point the
\* caller aborts, though an observer may never return and the solver only stops if
\* its flag is raised and stays so.
AbortedCallsSettle == aborted # {} ~> aborted = {}
=============================================================================
