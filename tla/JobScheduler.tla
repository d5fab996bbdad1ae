---------------------------- MODULE JobScheduler ----------------------------
(***************************************************************************)
(* server/src/job_scheduler.cc: jobs wait in one FIFO queue for a share of *)
(* a fixed thread budget, run on a thread of their own and resolve a       *)
(* promise.  Every critical section of State::mutex is one step, except    *)
(* Dispatch, whose loop launches one thread per step while it holds the    *)
(* mutex.  Status callbacks run outside the mutex, on a status that was    *)
(* read under it: a snapshot and a delivery are two steps.                 *)
(*                                                                         *)
(* A job stands for its JobRecord and for the std::async thread that runs  *)
(* it; a caller is a thread that uses the public methods.                  *)
(***************************************************************************)
EXTENDS Integers, Sequences, FiniteSets

CONSTANTS
  Jobs,               \* the JobRecords that callers may submit
  Callers,            \* threads that call Submit, Cancel, Interrupt, Shutdown
  TotalThreads,       \* SchedulerOptions::total_threads
  MaxQueueSize,       \* SchedulerOptions::max_queue_size
  Requested,          \* JobSpec::requested_threads of each job
  MaxLaunchFailures   \* BOUND: how often std::async may throw

ASSUME SchedulerAssumption ==
  /\ IsFiniteSet(Jobs)
  /\ Jobs \cap Callers = {}
  /\ TotalThreads \in Nat \ {0}
  /\ MaxQueueSize \in Nat \ {0}
  /\ Requested \in [Jobs -> Int]
  /\ MaxLaunchFailures \in Nat

VARIABLES
  state,              \* JobRecord::state, "unborn" before Submit admits the job
  queue,              \* State::queue
  available_threads,  \* State::available_threads
  active_jobs,        \* State::active_jobs
  shutting_down,      \* State::shutting_down
  workers,            \* State::workers: jobs whose thread's future is kept
  mutex,              \* the thread inside Dispatch, or Nobody
  next_job_id,        \* State::next_job_id
  id,                 \* JobRecord::id, 0 before Submit admits the job
  promise,            \* what JobRecord::promise was set to, or Unset
  cancellation,       \* JobRecord::cancellation->requested()
  interruption,       \* JobRecord::interruption->requested()
  on_status,          \* JobRecord::on_status is callable
  handle,             \* jobs whose JobHandle Submit has returned
  launch_failures,    \* how often std::async has thrown
  pc,                 \* where each thread is
  target,             \* the record a caller works on
  emission,           \* the JobStatus a thread is about to deliver
  result,             \* what a job's function returned
  doomed,             \* Shutdown's local `queued`
  awaited,            \* Shutdown's local `workers`
  notified,           \* history: the observer was called with a terminal status
  drained             \* history: some Shutdown call has returned

record_vars == <<state, id, promise, cancellation, interruption, on_status>>
pool_vars   == <<queue, available_threads, active_jobs, shutting_down, workers,
                 mutex, next_job_id, handle, launch_failures>>
thread_vars == <<pc, target, emission, result, doomed, awaited>>
history     == <<notified, drained>>
vars        == <<record_vars, pool_vars, thread_vars, history>>

-----------------------------------------------------------------------------

Threads == Callers \cup Jobs

Nobody == "nobody"
Unset  == "unset"
NoJob  == "no_job"

Terminal == {"cancelled", "succeeded", "failed"}
Occupying == {"starting", "running", "cancelling"}
States == {"unborn", "queued"} \cup Occupying \cup Terminal

\* Program points at which a thread is inside EmitStatus.
CallerEmits == {"announce", "announce_withdrawn", "announce_cancelling",
                "announce_doomed"}
WorkerEmits == {"announce_starting", "announce_running", "announce_end"}
EmitPoints == CallerEmits \cup WorkerEmits

CallerPoints == CallerEmits \cup {"idle", "cancel", "interrupt", "doom",
                                  "dispatch", "dispatching"}
WorkerPoints == WorkerEmits \cup {"unlaunched", "to_running", "execute", "finish",
                                  "publish", "clear", "dispatch", "dispatching",
                                  "done"}

Subject(t) == IF t \in Jobs THEN t ELSE target[t]

\* Mutant: a failed record is not taken to be settled.
IsTerminalButFailed(s) == s \in Terminal \ {"failed"}

IsTerminal(s) == s \in Terminal

Unlocked == mutex = Nobody

\* A caller that becomes idle forgets the record it worked on.
Goto(t, point) ==
  /\ pc' = [pc EXCEPT ![t] = point]
  /\ target' = IF point = "idle" THEN [target EXCEPT ![t] = NoJob] ELSE target

\* A caller starts to work on the record j.
Take(c, j, point) ==
  /\ pc' = [pc EXCEPT ![c] = point]
  /\ target' = [target EXCEPT ![c] = j]

\* AllocateThreads throws for a request outside this range.
AllocateThreads(j) == Requested[j] \in 1..TotalThreads

Reserved == {j \in Jobs : state[j] \in Occupying}

\* The threads of the budget that the jobs in S hold, one pair each.
Tokens(S) ==
  {token \in S \X (1..TotalThreads) : token[2] <= Requested[token[1]]}

Queued == {queue[i] : i \in 1..Len(queue)}

\* queue.erase(find(queue, j)); for the j that is in the queue once.
Without(q, j) ==
  LET at == CHOOSE i \in 1..Len(q) : q[i] = j
  IN  SubSeq(q, 1, at - 1) \o SubSeq(q, at + 1, Len(q))

\* Mutant: the waiters on the withdrawn records are never answered.
WithdrawSilently(S) ==
  /\ state' = [j \in Jobs |-> IF j \in S THEN "cancelled" ELSE state[j]]
  /\ UNCHANGED promise

\* Records that never start: terminal, and the promise is set at once.
Withdraw(S) ==
  /\ state' = [j \in Jobs |-> IF j \in S THEN "cancelled" ELSE state[j]]
  /\ promise' = [j \in Jobs |-> IF j \in S THEN "cancelled" ELSE promise[j]]

-----------------------------------------------------------------------------

Init ==
  /\ state = [j \in Jobs |-> "unborn"]
  /\ id = [j \in Jobs |-> 0]
  /\ promise = [j \in Jobs |-> Unset]
  /\ cancellation = [j \in Jobs |-> FALSE]
  /\ interruption = [j \in Jobs |-> FALSE]
  /\ on_status = [j \in Jobs |-> FALSE]
  /\ queue = <<>>
  /\ available_threads = TotalThreads
  /\ active_jobs = 0
  /\ shutting_down = FALSE
  /\ workers = {}
  /\ mutex = Nobody
  /\ next_job_id = 1
  /\ handle = {}
  /\ launch_failures = 0
  /\ pc = [t \in Threads |-> IF t \in Jobs THEN "unlaunched" ELSE "idle"]
  /\ target = [c \in Callers |-> NoJob]
  /\ emission = [t \in Threads |-> Unset]
  /\ result = [j \in Jobs |-> Unset]
  /\ doomed = [c \in Callers |-> <<>>]
  /\ awaited = [c \in Callers |-> {}]
  /\ notified = [j \in Jobs |-> FALSE]
  /\ drained = FALSE

-----------------------------------------------------------------------------
(* EmitStatus(record, StatusForState(state, record)).                       *)

\* Mutant: a cancellation from the queue does not let the next job start.
ContinuationWithoutDispatch ==
  [point \in EmitPoints |->
     CASE point = "announce"            -> "dispatch"
       [] point \in {"announce_withdrawn", "announce_cancelling"} -> "idle"
       [] point = "announce_doomed"     -> "doom"
       [] point = "announce_starting"   -> "to_running"
       [] point = "announce_running"    -> "execute"
       [] point = "announce_end"        -> "clear"]

\* Where a thread goes on once EmitStatus has returned.
Continuation ==
  [point \in EmitPoints |->
     CASE point \in {"announce", "announce_withdrawn"} -> "dispatch"
       [] point = "announce_cancelling" -> "idle"
       [] point = "announce_doomed"     -> "doom"
       [] point = "announce_starting"   -> "to_running"
       [] point = "announce_running"    -> "execute"
       [] point = "announce_end"        -> "clear"]

\* StatusForState: the snapshot is taken under the mutex.
Snapshot(t) ==
  /\ pc[t] \in EmitPoints
  /\ emission[t] = Unset
  /\ Unlocked
  /\ emission' = [emission EXCEPT ![t] = state[Subject(t)]]
  /\ UNCHANGED <<record_vars, pool_vars, pc, target, result, doomed, awaited,
                 history>>

\* Copies record->on_status under status_callback_mutex and calls the copy
\* outside every lock; one step, since no other thread acts on either.  What
\* the callback throws is swallowed.
Deliver(t) ==
  /\ emission[t] # Unset
  /\ notified' = IF on_status[Subject(t)] /\ IsTerminal(emission[t])
                 THEN [notified EXCEPT ![Subject(t)] = TRUE]
                 ELSE notified
  /\ emission' = [emission EXCEPT ![t] = Unset]
  /\ Goto(t, Continuation[pc[t]])
  /\ UNCHANGED <<record_vars, pool_vars, result, doomed, awaited, drained>>

EmitStatus(t) == Snapshot(t) \/ Deliver(t)

-----------------------------------------------------------------------------
(* Dispatch, run by a caller after Submit or CancelRecord, and by a worker  *)
(* at the end of Run.                                                       *)

\* Mutant: the futures of running threads are dropped too.
KeepNone == {}

\* The futures that are not ready.
NotReady == {j \in workers : pc[j] # "done"}

\* Takes the mutex and forgets the futures of threads that have returned.
DispatchEnter(t) ==
  /\ pc[t] = "dispatch"
  /\ Unlocked
  /\ mutex' = t
  /\ workers' = NotReady
  /\ Goto(t, "dispatching")
  /\ UNCHANGED <<record_vars, queue, available_threads, active_jobs, shutting_down,
                 next_job_id, handle, launch_failures, emission, result,
                 doomed, awaited, history>>

\* The loop's condition, with its break: only the head may be launched.
CanLaunch ==
  /\ ~shutting_down
  /\ queue # <<>>
  /\ Requested[Head(queue)] <= available_threads

\* Starts the thread of j.  Its first step needs the mutex.
Launch(j) ==
  /\ workers' = workers \cup {j}
  /\ available_threads' = available_threads - Requested[j]
  /\ active_jobs' = active_jobs + 1
  /\ state' = [state EXCEPT ![j] = "starting"]
  /\ Goto(j, "announce_starting")
  /\ UNCHANGED <<id, promise, cancellation, interruption, on_status, shutting_down,
                 mutex, next_job_id, handle, launch_failures, emission, result,
                 doomed, awaited, history>>

\* Mutant: a job that fits may pass a head that does not.
DispatchLaunchAnyFit(t) ==
  /\ pc[t] = "dispatching"
  /\ \E i \in 1..Len(queue) :
       /\ Requested[queue[i]] <= available_threads
       /\ queue' = Without(queue, queue[i])
       /\ Launch(queue[i])

\* One iteration.
DispatchLaunch(t) ==
  /\ pc[t] = "dispatching"
  /\ CanLaunch
  /\ queue' = Tail(queue)
  /\ Launch(Head(queue))

\* Where the caller of Dispatch is when it has returned or thrown.
AfterDispatch(t) == IF t \in Jobs THEN "done" ELSE "idle"

\* The loop ends.  Submit then returns the JobHandle.
DispatchExit(t) ==
  /\ pc[t] = "dispatching"
  /\ ~CanLaunch
  /\ mutex' = Nobody
  /\ handle' = IF t \in Callers THEN handle \cup {target[t]} ELSE handle
  /\ Goto(t, AfterDispatch(t))
  /\ UNCHANGED <<record_vars, queue, available_threads, active_jobs, shutting_down,
                 workers, next_job_id, launch_failures, emission, result,
                 doomed, awaited, history>>

\* std::async (or reserve) throws before the record left the queue; the
\* exception leaves Submit, JobHandle::Cancel or the thread's function.
DispatchThrow(t) ==
  /\ pc[t] = "dispatching"
  /\ CanLaunch
  /\ launch_failures < MaxLaunchFailures
  /\ launch_failures' = launch_failures + 1
  /\ mutex' = Nobody
  /\ Goto(t, AfterDispatch(t))
  /\ UNCHANGED <<record_vars, queue, available_threads, active_jobs, shutting_down,
                 workers, next_job_id, handle, emission, result, doomed,
                 awaited, history>>

Dispatch(t) ==
  DispatchEnter(t) \/ DispatchLaunch(t) \/ DispatchExit(t) \/ DispatchThrow(t)

-----------------------------------------------------------------------------
(* Submit.  Its three rejections change no state and are not steps.         *)

Submit(c, j) ==
  /\ pc[c] = "idle"
  /\ state[j] = "unborn"
  /\ AllocateThreads(j)
  /\ Unlocked
  /\ ~shutting_down
  /\ Len(queue) < MaxQueueSize
  /\ id' = [id EXCEPT ![j] = next_job_id]
  /\ next_job_id' = next_job_id + 1
  /\ queue' = Append(queue, j)
  /\ state' = [state EXCEPT ![j] = "queued"]
  /\ on_status' = [on_status EXCEPT ![j] = TRUE]
  /\ Take(c, j, "announce")
  /\ UNCHANGED <<promise, cancellation, interruption, available_threads,
                 active_jobs, shutting_down, workers, mutex, handle,
                 launch_failures, emission, result, doomed, awaited, history>>

-----------------------------------------------------------------------------
(* JobHandle::Cancel, that is CancelRecord, and JobHandle::Interrupt.       *)

\* cancellation->Request() comes before the mutex is taken.
CancelRequest(c, j) ==
  /\ pc[c] = "idle"
  /\ j \in handle
  /\ cancellation' = [cancellation EXCEPT ![j] = TRUE]
  /\ Take(c, j, "cancel")
  /\ UNCHANGED <<state, id, promise, interruption, on_status, pool_vars, emission,
                 result, doomed, awaited, history>>

\* Returns false.
CancelTooLate(c) ==
  /\ pc[c] = "cancel"
  /\ Unlocked
  /\ IsTerminal(state[target[c]])
  /\ Goto(c, "idle")
  /\ UNCHANGED <<record_vars, pool_vars, emission, result, doomed, awaited,
                 history>>

CancelQueued(c) ==
  /\ pc[c] = "cancel"
  /\ Unlocked
  /\ state[target[c]] = "queued"
  /\ queue' = Without(queue, target[c])
  /\ Withdraw({target[c]})
  /\ Goto(c, "announce_withdrawn")
  /\ UNCHANGED <<id, cancellation, interruption, on_status, available_threads,
                 active_jobs, shutting_down, workers, mutex, next_job_id, handle,
                 launch_failures, emission, result, doomed, awaited, history>>

CancelActive(c) ==
  /\ pc[c] = "cancel"
  /\ Unlocked
  /\ ~IsTerminal(state[target[c]])
  /\ state[target[c]] # "queued"
  /\ state' = [state EXCEPT ![target[c]] = "cancelling"]
  /\ Goto(c, "announce_cancelling")
  /\ UNCHANGED <<id, promise, cancellation, interruption, on_status, pool_vars, emission, result, doomed, awaited, history>>

\* The terminal check; interruption->Request() follows outside the mutex.
InterruptCheck(c, j) ==
  /\ pc[c] = "idle"
  /\ j \in handle
  /\ Unlocked
  /\ ~IsTerminal(state[j])
  /\ Take(c, j, "interrupt")
  /\ UNCHANGED <<record_vars, pool_vars, emission, result, doomed, awaited, history>>

InterruptRequest(c) ==
  /\ pc[c] = "interrupt"
  /\ interruption' = [interruption EXCEPT ![target[c]] = TRUE]
  /\ Goto(c, "idle")
  /\ UNCHANGED <<state, id, promise, cancellation, on_status, pool_vars,
                 emission, result, doomed, awaited, history>>

-----------------------------------------------------------------------------
(* Shutdown.  It cancels what is queued and waits for every thread that was *)
(* launched; it does not cancel running jobs.                               *)

\* Mutant: also waits for the jobs it has just withdrawn.
ThreadsAndQueued == workers \cup Queued

ThreadsToJoin == workers

ShutdownBegin(c) ==
  /\ pc[c] = "idle"
  /\ Unlocked
  /\ ~shutting_down
  /\ shutting_down' = TRUE
  /\ doomed' = [doomed EXCEPT ![c] = queue]
  /\ queue' = <<>>
  /\ Withdraw(Queued)
  /\ awaited' = [awaited EXCEPT ![c] = ThreadsToJoin]
  /\ Goto(c, "doom")
  /\ UNCHANGED <<id, cancellation, interruption, on_status, available_threads,
                 active_jobs, workers, mutex, next_job_id, handle,
                 launch_failures, emission, result, history>>

\* A later call finds nothing queued and waits for the same threads.
ShutdownAgain(c) ==
  /\ pc[c] = "idle"
  /\ Unlocked
  /\ shutting_down
  /\ awaited' = [awaited EXCEPT ![c] = ThreadsToJoin]
  /\ Goto(c, "doom")
  /\ UNCHANGED <<record_vars, pool_vars, emission, result, doomed, history>>

\* cancellation->Request() for the next cancelled record, then EmitStatus.
ShutdownNotify(c) ==
  /\ pc[c] = "doom"
  /\ doomed[c] # <<>>
  /\ cancellation' = [cancellation EXCEPT ![Head(doomed[c])] = TRUE]
  /\ doomed' = [doomed EXCEPT ![c] = Tail(@)]
  /\ Take(c, Head(doomed[c]), "announce_doomed")
  /\ UNCHANGED <<state, id, promise, interruption, on_status, pool_vars, emission,
                 result, awaited, history>>

\* The awaited threads have returned: drop their futures and return.
ShutdownEnd(c) ==
  /\ pc[c] = "doom"
  /\ doomed[c] = <<>>
  /\ \A j \in awaited[c] : pc[j] = "done"
  /\ Unlocked
  /\ workers' = {}
  /\ awaited' = [awaited EXCEPT ![c] = {}]
  /\ drained' = TRUE
  /\ Goto(c, "idle")
  /\ UNCHANGED <<record_vars, queue, available_threads, active_jobs, shutting_down,
                 mutex, next_job_id, handle, launch_failures, emission,
                 result, doomed, notified>>

-----------------------------------------------------------------------------
(* Run: the thread of job j.                                                *)

RunBegin(j) ==
  /\ pc[j] = "to_running"
  /\ Unlocked
  /\ state' = [state EXCEPT ![j] = IF @ = "cancelling" THEN @ ELSE "running"]
  /\ Goto(j, "announce_running")
  /\ UNCHANGED <<id, promise, cancellation, interruption, on_status, pool_vars, emission, result, doomed, awaited, history>>

\* Mutant: the cancellation is not looked at again.
SettledAsReturned(j, r) == r

\* A success is a cancellation if one has been requested by now.
Settled(j, r) == IF cancellation[j] /\ r = "succeeded" THEN "cancelled" ELSE r

\* The job's function returns, or throws (failed).
JobReturns(j) ==
  /\ pc[j] = "execute"
  /\ \E r \in Terminal : result' = [result EXCEPT ![j] = Settled(j, r)]
  /\ Goto(j, "finish")
  /\ UNCHANGED <<record_vars, pool_vars, emission, doomed, awaited, history>>

\* Mutant: the threads are not given back.
ReleaseCountOnly(j) ==
  /\ active_jobs' = active_jobs - 1
  /\ UNCHANGED available_threads

Release(j) ==
  /\ available_threads' = available_threads + Requested[j]
  /\ active_jobs' = active_jobs - 1

\* The state becomes terminal and the threads are given back in one section.
RunFinish(j) ==
  /\ pc[j] = "finish"
  /\ Unlocked
  /\ state' = [state EXCEPT ![j] = result[j]]
  /\ Release(j)
  /\ Goto(j, "publish")
  /\ UNCHANGED <<id, promise, cancellation, interruption, on_status, queue,
                 shutting_down, workers, mutex, next_job_id, handle,
                 launch_failures, emission, result, doomed, awaited, history>>

\* Mutant: the observer is dropped before it heard of the end.
RunPublishThenClear(j) ==
  /\ pc[j] = "publish"
  /\ promise' = [promise EXCEPT ![j] = result[j]]
  /\ Goto(j, "clear")
  /\ UNCHANGED <<state, id, cancellation, interruption, on_status, pool_vars,
                 emission, result, doomed, awaited, history>>

\* promise.set_value, after the mutex has been released.
RunPublish(j) ==
  /\ pc[j] = "publish"
  /\ promise' = [promise EXCEPT ![j] = result[j]]
  /\ Goto(j, "announce_end")
  /\ UNCHANGED <<state, id, cancellation, interruption, on_status, pool_vars, emission, result, doomed, awaited, history>>

\* Mutant: the thread ends without a last Dispatch.
ClearWithoutDispatch(j) ==
  /\ pc[j] = "clear"
  /\ on_status' = [on_status EXCEPT ![j] = FALSE]
  /\ Goto(j, "done")
  /\ UNCHANGED <<state, id, promise, cancellation, interruption, pool_vars,
                 emission, result, doomed, awaited, history>>

ClearStatusCallback(j) ==
  /\ pc[j] = "clear"
  /\ on_status' = [on_status EXCEPT ![j] = FALSE]
  /\ Goto(j, "dispatch")
  /\ UNCHANGED <<state, id, promise, cancellation, interruption, pool_vars,
                 emission, result, doomed, awaited, history>>

-----------------------------------------------------------------------------

\* What a caller chooses to begin.
Call(c) ==
  \/ \E j \in Jobs : Submit(c, j) \/ CancelRequest(c, j) \/ InterruptCheck(c, j)
  \/ ShutdownBegin(c) \/ ShutdownAgain(c)

\* What a caller does to end the call it is in.
Proceed(c) ==
  \/ EmitStatus(c) \/ Dispatch(c)
  \/ CancelTooLate(c) \/ CancelQueued(c) \/ CancelActive(c)
  \/ InterruptRequest(c)
  \/ ShutdownNotify(c) \/ ShutdownEnd(c)

Run(j) ==
  \/ EmitStatus(j) \/ Dispatch(j)
  \/ RunBegin(j) \/ JobReturns(j) \/ RunFinish(j) \/ RunPublish(j)
  \/ ClearStatusCallback(j)

Next ==
  \/ \E c \in Callers : Call(c) \/ Proceed(c)
  \/ \E j \in Jobs : Run(j)

Spec == Init /\ [][Next]_vars

\* A thread that can step does so, and a job's function returns.  No caller
\* has to begin a call.
FairSpec ==
  /\ Spec
  /\ \A c \in Callers : WF_vars(Proceed(c))
  /\ \A j \in Jobs : WF_vars(Run(j))

-----------------------------------------------------------------------------
(* Properties.                                                              *)

\* Program points, the records callers work on and the statuses in flight.
ControlOK ==
  /\ pc \in [Threads -> CallerPoints \cup WorkerPoints]
  /\ \A j \in Jobs : pc[j] \in WorkerPoints
  /\ \A c \in Callers : pc[c] \in CallerPoints
  /\ target \in [Callers -> Jobs \cup {NoJob}]
  /\ \A c \in Callers : pc[c] \notin {"idle", "doom"} => target[c] \in Jobs
  /\ emission \in [Threads -> States \cup {Unset}]
  /\ \A t \in Threads : emission[t] # Unset => pc[t] \in EmitPoints

RecordsOK ==
  /\ state \in [Jobs -> States]
  /\ id \in [Jobs -> Nat]
  /\ promise \in [Jobs -> Terminal \cup {Unset}]
  /\ cancellation \in [Jobs -> BOOLEAN]
  /\ interruption \in [Jobs -> BOOLEAN]
  /\ on_status \in [Jobs -> BOOLEAN]
  /\ result \in [Jobs -> Terminal \cup {Unset}]

PoolOK ==
  /\ queue \in Seq(Jobs)
  /\ available_threads \in Int
  /\ active_jobs \in Int
  /\ shutting_down \in BOOLEAN
  /\ workers \subseteq Jobs
  /\ mutex \in Threads \cup {Nobody}
  /\ next_job_id \in Nat \ {0}
  /\ handle \subseteq Jobs
  /\ launch_failures \in 0..MaxLaunchFailures
  /\ doomed \in [Callers -> Seq(Jobs)]
  /\ awaited \in [Callers -> SUBSET Jobs]
  /\ notified \in [Jobs -> BOOLEAN]
  /\ drained \in BOOLEAN

\* The type invariant.
TypeOK == ControlOK /\ RecordsOK /\ PoolOK

\* The threads in use and the threads available add up to the budget, and
\* active_jobs counts the jobs that hold some.
ThreadBudget ==
  /\ available_threads + Cardinality(Tokens(Reserved)) = TotalThreads
  /\ active_jobs = Cardinality(Reserved)
  /\ available_threads \in 0..TotalThreads

\* The queue holds exactly the jobs in state kQueued, each of them once: no
\* cancelled job is left in it and no queued job is lost from it.
QueueHoldsQueued ==
  /\ Queued = {j \in Jobs : state[j] = "queued"}
  /\ \A a, b \in 1..Len(queue) : a # b => queue[a] # queue[b]

\* A job that was admitted to the queue later never starts first, however
\* small its request (QueueHeadCannotBeSkippedBySmallerJob in the tests).
NoOvertaking ==
  \A waiting, started \in Jobs :
    state[waiting] = "queued" /\ pc[started] # "unlaunched"
      => id[started] < id[waiting]

\* A promise that is set agrees with the record's state.  In particular a job
\* withdrawn from the queue never runs.
PromiseMatchesState ==
  \A j \in Jobs :
    /\ promise[j] # Unset => promise[j] = state[j]
    /\ promise[j] # Unset /\ pc[j] = "unlaunched" => j \notin Queued
    /\ state[j] \in Terminal /\ pc[j] # "publish" => promise[j] # Unset

\* No wake-up is lost: a head of the queue that would fit is left waiting only
\* while some thread is still on its way into Dispatch.  (std::async throwing
\* does lose one: the job then waits for the next Submit, Cancel or Run.)
NoLostDispatch ==
  CanLaunch /\ launch_failures = 0 =>
    \E t \in Threads :
      pc[t] \in {"announce", "announce_withdrawn", "publish", "announce_end",
                 "clear", "dispatch", "dispatching"}

\* Once a call of Shutdown has returned nothing is queued, no thread of a job
\* runs or will run, every admitted job is resolved and the budget is whole.
ShutdownDrains ==
  drained =>
    /\ \A j \in Jobs : pc[j] \in {"unlaunched", "done"}
    /\ \A j \in Jobs : state[j] # "unborn" => promise[j] # Unset
    /\ available_threads = TotalThreads

\* No call is in progress and no thread runs.
AtRest ==
  /\ \A c \in Callers : pc[c] = "idle"
  /\ \A j \in Jobs : pc[j] \in {"unlaunched", "done"}

\* A scheduler that has come to rest left nothing undone: every admitted job is
\* resolved, its observer has been told, and the budget is whole.  (If
\* std::async threw, jobs may still be queued, but nothing else is open.)
RestsWhenDone ==
  AtRest =>
    /\ \A j \in Jobs : state[j] # "unborn" =>
         state[j] = "queued" \/ (promise[j] # Unset /\ notified[j])
    /\ launch_failures = 0 => queue = <<>>
    /\ available_threads = TotalThreads

\* A terminal state is final: neither a late Cancel nor Run overwrites it, and
\* the promise is satisfied once (a second set_value would throw).
TerminalIsFinal ==
  [][\A j \in Jobs :
       /\ state[j] \in Terminal => state'[j] = state[j]
       /\ promise[j] # Unset => promise'[j] = promise[j]]_vars

\* After a cancellation request that came before the job's function returned,
\* the job cannot be reported as succeeded.
CancelPreventsSuccess ==
  \A j \in Jobs :
    [](cancellation[j] /\ result[j] = Unset => [](state[j] # "succeeded"))

\* Every admitted job is resolved, and its observer told a terminal status ...
EveryJobEnds ==
  \A j \in Jobs : state[j] = "queued" ~> promise[j] # Unset /\ notified[j]

\* ... and a call of Shutdown returns.
ShutdownReturns ==
  \A c \in Callers : pc[c] = "doom" ~> pc[c] = "idle"

\* job_scheduler_test.cc: "Completion publishes the result before delivering
\* the status observer."  Refuted: a caller that reads the status between
\* RunFinish and RunPublish delivers the terminal status first.
PublishesBeforeNotifying ==
  \A j \in Jobs : notified[j] => promise[j] # Unset

-----------------------------------------------------------------------------
(* The inductive invariant behind the safety properties.                    *)

ActivePoints == {"announce_starting", "to_running", "announce_running", "execute",
                 "finish"}
EndedPoints == WorkerPoints \ (ActivePoints \cup {"unlaunched"})

\* How far a job's thread has come decides which states its record can have.
JobPhases ==
  \A j \in Jobs :
    /\ state[j] # "unborn" => AllocateThreads(j)
    /\ pc[j] = "unlaunched" => state[j] \in {"unborn", "queued", "cancelled"}
    /\ pc[j] \in ActivePoints => state[j] \in Occupying
    /\ pc[j] \in EndedPoints => state[j] \in Terminal /\ state[j] = result[j]
    /\ pc[j] = "finish" => result[j] \in Terminal

\* The promise is empty exactly until a terminal state has been published.
PromisePhases ==
  \A j \in Jobs :
    /\ promise[j] # Unset => promise[j] = state[j]
    /\ promise[j] = Unset <=> state[j] \notin Terminal \/ pc[j] = "publish"

\* Ids grow along the queue, and past every job that has started.
IdOrder ==
  /\ \A j \in Jobs : id[j] < next_job_id
  /\ \A a, b \in 1..Len(queue) : a < b => id[queue[a]] < id[queue[b]]
  /\ \A j \in Jobs : pc[j] # "unlaunched" =>
       \A a \in 1..Len(queue) : id[j] < id[queue[a]]

\* Callers work on records that were admitted.
TargetsAdmitted ==
  /\ \A j \in handle : state[j] # "unborn"
  /\ \A c \in Callers :
       pc[c] \notin {"idle", "doom", "announce_doomed"} => state[target[c]] # "unborn"

\* How far the shutdown has come.  A live thread is in State::workers until it
\* ends, so that whoever empties that list has waited for it.
Live == {j \in Jobs : pc[j] \notin {"unlaunched", "done"}}

ShutdownPhases ==
  /\ Live \subseteq workers
  /\ shutting_down => queue = <<>>
  /\ \A c \in Callers :
       pc[c] \in {"doom", "announce_doomed"} => shutting_down /\ Live \subseteq awaited[c]
  /\ drained => shutting_down /\ Live = {}

\* Who still has to tell the observer of j that j was withdrawn from the queue.
OwesNotice(c, j) ==
  \/ /\ pc[c] \in {"announce_withdrawn", "announce_doomed"}
     /\ target[c] = j
     /\ emission[c] \in Terminal \cup {Unset}
  \/ /\ pc[c] \in {"doom", "announce_doomed"}
     /\ \E i \in 1..Len(doomed[c]) : doomed[c][i] = j

\* An observer can be called from Submit until its job's thread drops it, has
\* been told of the end by then, and is owed a notice of a withdrawal until it
\* has one.
CallbackKept(j) ==
  on_status[j] <=>
    state[j] # "unborn" /\ pc[j] \notin {"dispatch", "dispatching", "done"}

EndTold(j) ==
  /\ pc[j] = "announce_end" => emission[j] \in Terminal \cup {Unset}
  /\ pc[j] \in {"clear", "dispatch", "dispatching", "done"} => notified[j]

WithdrawalTold(j) ==
  pc[j] = "unlaunched" /\ state[j] = "cancelled" =>
    notified[j] \/ \E c \in Callers : OwesNotice(c, j)

Notices == \A j \in Jobs : CallbackKept(j) /\ EndTold(j) /\ WithdrawalTold(j)

IndInv ==
  /\ TypeOK
  /\ TargetsAdmitted
  /\ JobPhases
  /\ PromisePhases
  /\ QueueHoldsQueued
  /\ IdOrder
  /\ ThreadBudget

=============================================================================
