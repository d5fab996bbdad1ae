# A TLA+ verification of the or-tools-wasm execution layer

`or-tools-wasm` offers the solvers of OR-Tools to JavaScript. A solve runs in
the page's own thread, in a Web Worker (WebAssembly) or on a native job server
that is reached over HTTP. The solvers are vendored; what this repository adds
is the layer that runs them: it queues jobs, shares threads, streams events,
answers callbacks across threads and machines, cancels, and keeps sessions. This
directory models that layer in TLA+, model-checks it with TLC and proves its
safety properties with TLAPS. All paths below are relative to `src/`.

* [Inventory](#inventory): the parts of the system and what makes each correct
* [Modules](#modules): how each specification corresponds to the code
* [Runs](#runs): what TLC checks, the bounds, the fairness
* [Findings](#findings): where the code and its own documents disagree
* [Proofs](#proofs): what is proved, from what, and how
* [Not modelled](#not-modelled) and [Plan](#plan)

## Inventory

```
 application
   │ solve(), cancel(), interrupt(), observers, callbacks
 solver_job.ts            one promise, a chain of observer calls
   ├── worker_helpers.ts ──postMessage──> solver_worker.ts ──> WASM bridge (*.cc)
   │        └──── shared memory: control words + reply chunk ────┘   │
   └── solver_server_executor.ts                              mp_solver_session.h
            │ HTTP: submit, stream or poll, callback,                │
            │ cancel, interrupt, result, release              session_registry.h
      http_server.cc, solver_job_routes.cc                           │
            │                                                        │
      solver_job_service.cc  (job table, EventLog, JobOutput) ───────┤
            │ Submit, Cancel, Interrupt        │ Call                │
      job_scheduler.cc  ── runs ──> executors: cp_sat, mathopt, mp_solver, ...
```

| component | state | operations | hard behaviour | what makes it correct |
|---|---|---|---|---|
| Job scheduler, `server/src/job_scheduler.cc` | one FIFO queue, free threads, job records with a promise, thread futures | `Submit`, `Cancel`, `Interrupt`, `Shutdown`, `Dispatch`, `Run` | callers and job threads interleave; status callbacks run outside the mutex on a snapshot; `std::async` may throw; shutdown races all of it | the budget is conserved; strict FIFO; no job is lost or runs after it was withdrawn; each promise is set once and agrees with the record; shutdown drains |
| Signals, `job_scheduler.cc:31-185` | a flag, a table of handlers, for each of cancellation and interruption | `Request`, `Register`, `Unregister` | the flag is set before the mutex is taken; handlers are registered and removed meanwhile | a handler runs exactly once, never after its registration is gone |
| Event history, `server/src/solver_job_service.cc`, `EventLog` | rolling window of responses, byte count, cursors | `Append`, `After`, `WaitAfter`, `ReleaseCallbackPayload` | eviction, oversized responses, payloads that shrink in the middle of the window | both limits hold, the count is exact, an expired cursor is told so and no event is skipped silently |
| Event delivery, `Events` and `StreamEvents` | one stream lease per job, the cursors of clients | poll, open, pull, disconnect | two subscribers, a stream that falls behind, a final response that was not retained | gap-free order across polls and streams; one live stream; streams end |
| Native callbacks, `JobOutput::Call`, `SolverJobService::Callback` | pending callbacks, a transport error | ask, answer, time out, stop | a reply races the timeout, another reply and both signals | a reply that was answered 200 is used; a callback left unanswered fails the job; an answered one is not blamed |
| Session registry, `javascript/session_registry.h`, and MPSolver sessions, `javascript/mp_solver_session.h` | handles, leases, last use; a solver per session | create, run, close, expire | cleanup races a lease that ends; two jobs on one session; closing twice; a handle drawn again | one job at a time on a live solver; only idle sessions expire; close erases its own entry; idle sessions are freed |
| Worker callback channel, `javascript/lib/worker_helpers.ts`, `solver_worker.ts` | shared control words and a reply buffer | publish, take and acknowledge a chunk, stop, give up | two threads on shared memory, `Atomics.wait` and `notify`, deadlines on both sides | replies arrive whole; the handler is blamed only if it threw; no lost wake-up |
| Job table, `solver_job_service.cc` | jobs by id, results, retention | submit, status, result, cancel, interrupt, release, expire | a launch that fails after queueing; expiry against readers | whatever order requests and expiry take, a client can follow the history without a silent gap and a finished result is there until it is released |
| HTTP server, `server/src/http_server.cc` | connections and stream slots | accept, stream, close | streams that are refused or break | never more streams than the limit; a refused client polls |
| Server client, `javascript/lib/solver_server_executor.ts` | one remote job: cursor, stop state, abandoned results | submit, stream with a fall-back to polling, answer, stop, release | late acceptance, deadlines, broken streams, answers that are lost | responses once and in order across stream and polls; a job accepted too late is stopped; a result has one owner; the promise settles within the stop deadline |
| Managed worker and worker executor, `worker_helpers.ts` | generations of a worker, pending requests, a shared cancel flag | load, call, interrupt, terminate | answers of a retired worker; a flag meant for the previous job; a handle that another worker gave out | a stop hits its own job; a worker dies for a cause of its own; no worker is left over; sessions stay with their worker |
| Job and observers, `solver_job.ts` | one promise, an event chain | start, abort, settle | observers that never settle or throw; a commit that comes last | no observer after a stop; all events before the value; an aborted call settles |

How they interact: HTTP threads call the job service, which calls the scheduler;
the scheduler runs the job's function on a thread of its own, and that function
calls back into the job service (`JobOutput`) to append events and to ask
questions; the status observer that the service gives the scheduler appends to
the same event log. The two signals travel from the scheduler's handle to
whatever the executor registered. The session registry is shared by jobs and by
the service's cleanup thread. On the JavaScript side the parent's event loop and
the worker share nothing but messages and one `SharedArrayBuffer` per callback.

`PROJECT.json` lists all components, also those left out, and under `hazards`
every place where a mistake would be hard to find with a test.

## Modules

| module | models | with |
|---|---|---|
| `JobScheduler` | `server/src/job_scheduler.cc`: `Submit`, `CancelRecord`, `Interrupt`, `Shutdown`, `Dispatch`, `Run`, `EmitStatus` | `AdmissionQueue` (abstract), `SchedulerAdmission` (the refinement mapping), `MCJobScheduler` (instances), `JobSchedulerProofs` |
| `EventLog` | class `EventLog`, one operator per method | |
| `EventDelivery` | `Events`, `StreamEvents`, and the threads of a job that append | EXTENDS `EventLog`; `EventDeliveryProofs` |
| `JobSignals` | `JobCancellationState`, twice | |
| `CallbackExchange` | `JobOutput::Call`, `Callback`, the end of the job's function | EXTENDS `JobSignals`; `CallbackExchangeProofs` |
| `SessionRegistry` | the template of `session_registry.h` | |
| `MpSolverSessions` | `mp_session::Registry` and the cleanup thread | EXTENDS `SessionRegistry`; `MpSolverSessionsProofs` |
| `WorkerCallback` | `onCallback`, `handleMessage`, `sendCallbackReply`, `stopCallbackReplies` | `WorkerCallbackProofs` |
| `JobService` | the job table and the HTTP handlers of `solver_job_service.cc`, as the client of one job meets them | |
| `ServerExecutor` | `execute()` of `solver_server_executor.ts` with its stops and its deadline | EXTENDS `JobService`; `ServerExecutorProofs` |
| `WorkerExecutor` | `ManagedWorker`, `SolverWorkerExecutor` and the loop of `solver_worker.ts` | |
| `SolverJob` | `executeSolverJob()`: observers, abort, commit, settlement | EXTENDS `WorkerExecutor`; `MCSolverJob` (an instance), `SolverJobProofs`, `ReportProofs` |

Names follow the code. `PROJECT.json`'s `map` gives the lines each definition
stands for. A definition whose comment starts with *Mutant* is a plausible mistake in the
definition below it; it is not part of the specification. Each property is
accompanied by a mistake of this kind that breaks it, so that none of them holds
by the shape of the model.

**JobScheduler.** A caller is a thread that uses the public interface and a job
is its `JobRecord` together with the `std::async` thread that runs it. A step is
one critical section of `State::mutex`, with one exception: the loop of
`Dispatch` launches one thread per step and keeps the mutex (variable `mutex`)
meanwhile, because any of the launches may throw after others have succeeded.
Everything the code does outside the mutex is a step of its own:
`cancellation->Request()` before the lock, `promise.set_value` after it, and the
two halves of `EmitStatus`, `Snapshot` (under the mutex) and `Deliver`. Rejected
calls change nothing and are not steps. `std::async` may throw, at most
`MaxLaunchFailures` times. `Stats` and `status()` only read.

**AdmissionQueue** is the promise without threads: a bounded line, a set of
running jobs, one outcome each. `SchedulerAdmission` maps the queue to the line,
the records in a state that holds threads to `running` and the terminal states to
outcomes.

**EventLog and EventDelivery.** A response is its sequence id, its kind, its
size and whether its payload is still there. `Retain` evicts as few of the oldest
responses as make room, `Discard` is the response that is larger than the whole
window, `AppendClose` is `Append(..., true)`. Around it, the job appends when the
code can: status observers at any time, also after the closing response, the
function's events only between the announcement of its start and its end. A
client joins with the cursor that `Submit` returns and then mixes polls and
streams freely; the check of the cursor and the acquisition of the lease are two
steps, as in the code.

**JobSignals and CallbackExchange.** `Request` is four kinds of step: set the
flag, take the mutex, call one handler, release. `Register` runs the handler
at once when it sees the flag, which it reads relaxed: between the setting of the
flag and `Request`'s own section it may read either value.
`CallbackExchange` registers the executor's handler and those of every
`Call` in the order of the C++ scopes and removes them in the opposite order.
HTTP threads look a callback up (`Find`) and settle it (`Accept`, `Reject`) in two
steps, as the code does under two mutexes.

**SessionRegistry and MpSolverSessions.** The end of a lease is two steps, the
store of `last_used` and the drop of the reference, since the deleter of a lease
runs outside the registry's mutex. A new handle is any that is not in use. Age is
counted up to `IdleTimeout` only: the code never tells older values apart.

**WorkerCallback.** Every access to the state word by `Atomics` is one step, as
are the fill and the copy of a chunk, so that a torn reply would show. Byte `i` of
the reply is the number `i`.

**JobService and ServerExecutor.** The service is what a client can tell of it: the
state of one job, the requested signals, and the kinds of all responses
it ever appended; a sequence id is a position in that history, and of the retained
window only the lower end is kept (`floor`, which an append may move by any amount).
The client is one call of `execute()`. A request is in flight until the server handles
it, when its answer is there until the client reads it, and it may be lost before or
after that: nothing is assumed of the network. The submission is kept apart from the
current request (`submission`), since the caller may give the call up while it is under
way and its acceptance is then handled by nobody but `StopsLate`. Three modes
cover the operations: `solve` streams and cancels; `callbacks` is MathOpt with a
handler, which polls, asks and only ever interrupts; `create` makes a native session and
leaves it to a hook (`onAbandonedResult`) if the caller has gone.

**WorkerExecutor and SolverJob.** The parent is one event loop, so a step is everything
that runs before control returns to it: what waits for nothing but settled promises
belongs to the step, in the order in which the continuations were registered. That
order matters: a stop that is parked until the worker is ready goes on *after* the job
that was parked before it, and not before. Workers run beside the parent. A
worker's messages are a queue per worker, whose head is read with the check of the
generation (`Heeds`); a retired worker's messages are still read and ignored. The shared
flag is a byte that the parent stores and the solver reads; the model remembers for
which job it was raised. How a request can be stopped (`StopsBy`) is an input:
by terminating the worker, by the flag, by the flag with the result kept, or not
at all. `SolverJob` lets several calls overlap on one executor: a call drains its
observers or commits while the next job already runs.

## Runs

| run | distinct states | question |
|---|---|---|
| `scheduler_safety` | 2,937,700 | budget, queue, promise and shutdown under every interleaving of two callers and two jobs, with one failed launch; a scheduler at rest has left nothing undone |
| `scheduler_fifo` | 4,043,101 | three jobs: no overtaking, no lost dispatch |
| `scheduler_liveness` | 195,566 | every admitted job is resolved and its end reported, shutdown returns, implements the fair `AdmissionQueue`; a cancellation before the function returns prevents success |
| `scheduler_notify` | (violation) | see Findings |
| `event_delivery` | 252,160 | window bounds, gap-free delivery, real expiry, one live stream, streams end |
| `callbacks` | 1,095,491 | signals reach handlers once; an accepted reply is returned; lost callbacks are blamed; a signal ends the waits |
| `sessions` | 1,764,214 | exclusive use, close, expiry, refusal, idle sessions are freed |
| `worker_callback` | 985 | replies are intact, small replies are not blamed, the call ends |
| `worker_callback_blame` | (violation) | see Findings |
| `server_executor` | 1,324,486 | one operation of each mode over a network that loses anything: order of responses, late acceptance, one owner of the result, silence after settling, the stop deadline |
| `server_executor_queued` | (violation) | see Findings |
| `worker_jobs` | 1,385,535 | two calls on one executor, two workers: stops, sessions, retired workers, observers, commits; an aborted call settles |

### Bounds and why they are enough

* *Scheduler.* A budget of two threads and jobs of one and two threads: one job
  always fits, both never do, so that a job waits for the other's threads. The
  queue holds two, so it can be full with a third job outside. Two callers
  suffice for a cancel that races a submit or a shutdown that races a cancel. The
  FIFO run has three jobs (small, large, small: the third could overtake the
  second) and therefore one caller, at most one cancellation and no interruption
  (`OneCancel`); an interruption does not move a job through the scheduler.
  One launch failure covers a throw in `Submit`, in `Cancel` and at the end of
  `Run`; two would only repeat it. The FIFO and the liveness run leave failures
  out: after a failed launch the queue really waits for the next call, as
  `NoLostDispatch` says.
* *Event delivery.* A window of two responses and three bytes; responses of one
  byte (a status, or a cleared payload), two bytes and four, which is larger than
  the window. Six appends fill the window three times, which is enough for an
  eviction, a discard and another fill with a payload released in each position.
  Two clients race for the lease.
* *Callbacks.* Two concurrent calls, one replier and the executor's own handler. A
  reply races the timeout, both signals and the other call; the replier answers
  again after its first reply. Replies of two threads to one callback at once are left to
  the proofs, which hold for any number of repliers.
* *Sessions.* Two handles and three session objects with room for two, so that a
  handle is drawn again while somebody still holds its old session. Two threads.
  A timeout of two ticks separates *just used*, *resting* and *expired*.
* *Worker callback.* A chunk of two bytes and replies of zero to five: none, one,
  two and three chunks, the last one full or partial.
* *Server client.* A history of up to four responses before the job ends, to which the
  end adds its own: enough for a stream that breaks in the middle, a batch of two,
  a callback between events and a window that has moved past the cursor. Any
  request or answer may be lost; the caller may cancel and interrupt at any point.
* *Worker jobs.* Two calls of which the first emits two events, so that one waits
  while the other is observed, and two workers, so that the second replaces the first.
  Three pairs of stops: termination before flag, flag before termination, and
  interruption before a request that cannot be stopped. The first call may make a session
  that the second uses.

### Fairness

* *Scheduler.* Weak fairness of what each thread does once it is inside a call
  (`Proceed`) and of each job's thread (`Run`). An operating system that schedules
  its threads gives that, and the one section that is longer than a step,
  `Dispatch`, runs finitely often for finitely many jobs, so that nobody is kept from
  the mutex for ever. No caller has to begin a call. A job's function is assumed to return;
  the code makes the same assumption when `Shutdown` joins it.
* *Event delivery.* Weak fairness of a live stream's pull: the HTTP library asks
  the source until it ends. The job need not append and no client need poll.
* *Callbacks.* One weak fairness condition: the threads that have begun something (the
  solver's own steps, a signal that was requested) go on; each can do so only finitely often.
  The timeout is not fair: the run shows that a signal ends the waits without the clock.
* *Sessions.* Weak fairness of the cleanup thread and of time. Clients owe nothing.
* *Worker callback.* Weak fairness of the parent's event loop and of the worker;
  the handler returns. No deadline has to pass.
* *Server client.* Weak fairness of the client's own steps and of its timer:
  JavaScript runs what can run. The server and the network owe nothing, so that
  `StopSettles` holds even if no request is ever answered.
* *Worker jobs.* One weak fairness condition: the parent handles its messages and
  continuations, workers that were created start, and a solver returns
  once its flag is raised or if nothing can stop it. The promise of `createWorker` is
  assumed to settle: a factory loads or fails, in its own time. A solver that nobody
  stops may run for ever, and an observer may never return.

Deadlock is checked in the scheduler's runs: a caller that is idle can always begin
another call, so that a state without a step would be a real one. It is not checked
in the others, where the system may stop: when all calls have returned, when no more
responses are appended (`MaxAppends`), when the callback or the operation is over. There the
liveness properties say what must not be left unfinished.

## Findings

* **The observer can hear of the end before the result can be read**
  (`scheduler_notify`, `PublishesBeforeNotifying`). `Run` makes the record
  terminal under the mutex (`job_scheduler.cc:408-415`) and sets the promise after
  releasing it (417). A `Submit` or `CancelRecord` that takes its status snapshot
  in between delivers the terminal status first. `job_scheduler_test.cc:107`
  says: "Completion publishes the result before delivering the status observer."
* **A handler that returned is reported as failed**
  (`worker_callback_blame`, `HandlerBlamedOnlyIfThrew`). The parent publishes a
  chunk (`worker_helpers.ts:386`) and wakes the worker in a second step (387). A
  worker that was not asleep takes the chunk, frees the buffer
  (`solver_worker.ts:96`) and sleeps for the next chunk (84); the late wake-up finds
  the state word 0, and line 91 takes it for a failed handler. It needs a reply of
  two or more chunks. `mathopt_callbacks.test.ts:11` says: "callback
  reply transport preserves empty and multi-chunk native protos and user errors".
  What does hold, `SmallReplyNotBlamed`, is proved.
* **A cancelled MathOpt job stays in the queue** (`server_executor_queued`,
  `QueuedCancellationIsImmediate`). `stop()` sends `/interrupt` instead of the cancel
  command for every MathOpt operation (`solver_server_executor.ts:239`), and an
  interruption leaves a queued job where it is (`job_scheduler.cc:238-240`,
  `solver_job_service.cc:665`), so that it goes on waiting for its threads.
  `server/README.md:145` says: "Cancellation uses the same generic protobuf command for
  every solver; queued cancellation is immediate." `docs/execution.md:159` repeats it.
  All calls of `stop()` share one request, so that a solver that supports both
  and was interrupted first is not sent the cancellation either.

## Proofs

The theorems are of the form `Spec => []Inv` or `Spec => [][A]_vars`, and one is a nested
temporal formula (`CancellationWins`). They hold for every value of the constants that the
named assumptions admit: any finite set of jobs, any number of callers, clients, repliers,
users and workers, any budget, window, capacity, history and chunk size. TLC evaluates the
assumptions in the runs, and every invariant and action property of a passing run is also
proved. Some theorems state more than the runs check: the type invariants, and properties
that were found on the way to a proof (`SleeperIsWoken`, `SignalsReachWaits`,
`StoppedHasDeadline`, `ClosedAreErased`, `CapacityKept`).

| module | theorems | inductive invariant |
|---|---|---|
| `JobSchedulerProofs` | `TypeCorrect`, `BudgetConserved`, `QueueExact`, `FirstInFirstOut`, `PromiseAgrees`, `SettledIsFinal`, `NoWakeUpLost`, `ShutdownLeavesNothing`, `RestIsDone`, `CancellationWins`, `SchedulerImplementsAdmission` | `IndInv` of `JobScheduler`, with `ShutdownPhases` and `Notices` |
| `EventDeliveryProofs` | `WindowIsContiguous`, `WindowStaysBounded`, `EventDeliveryTypeCorrect`, `NothingSkipped`, `LeaseIsExclusive`, `ExpiryIsJustified` | `LogShape`, `WindowContiguous`, `ClientShape`, `CursorsWithinLog`, `NoSilentGap`, `OneLiveStream`, with `CallbackSizes` for the limits |
| `CallbackExchangeProofs` | `CallbackTypeCorrect`, `SignalsReachHandlersOnce`, `AcceptedReplyIsReturned`, `LostCallbackIsBlamed`, `SignalsReachEveryWait` | `Registrations`, `CallProgress`, `Blame`, `SolveOutlivesCalls`, with `Reached` |
| `MpSolverSessionsProofs` | `SessionsTypeCorrect`, `WorkIsExclusive`, `CloseIsSafe`, `ClosedSessionsLeave`, `CapacityIsKept`, `OnlyIdleExpires`, `RefusalIsJustified` | `LeasesMatch`, `HandlesDistinct`, `MutexHeld`, `HandleLeadsToLease`, `AgeCountsIdleTime` |
| `WorkerCallbackProofs` | `WorkerCallbackTypeCorrect`, `RepliesArriveIntact`, `SmallReplyIsNotBlamed`, `SleeperIsNotForgotten` | `Sending`, `ChunkFollows`, `PrefixTaken`, `OneChunk`, with `Watch` |
| `ServerExecutorProofs` | `ServerExecutorTypeCorrect`, `ResponsesArriveInOrder`, `LateJobsAreTold`, `ResultsAreOwned`, `StoppedCallsEnd`, `SettledIsSilent` | `Progress`, `SettledExactlyOnce`, `AbortsUnknown` with the invariants themselves |
| `SolverJobProofs` | `SolverJobIndInvHolds`, `SolverJobTypeCorrect`, `StopsNeverStray`, `SessionsNeverMove`, `NobodyIsOrphaned`, `NoStrayTermination`, `StoppedIsSilent` | `WorkersKnown`, `ReadyOnce`, `OneJob`, `AnswersKnown`, `StopParked`, `SessionKnown`, `Released` |
| `ReportProofs` | `EventsAddUp`, `ValuesComeLast` | the above with `Orderly`, `ResultsKnown`, `CallKnown`, `InOrder`, `Progress` |

**Scheduler** (`SchedulerAssumption`: the budget and the queue's limit are
positive, the jobs finite, and jobs are not callers). None of the properties is
inductive alone. That threads are given back once needs `JobPhases`: how far a
job's thread has come decides which states its record can have, so that a finish
always leaves a state that holds threads and a withdrawal never does. `PromisePhases`
sharpens `PromiseMatchesState` to *empty exactly until published*, which makes a second
`set_value` impossible. FIFO order needs `IdOrder`: ids grow along the queue
and past every job that has started. The budget's sum is the cardinality of
a set of pairs (`Tokens`), so that the library's lemmas on finite sets apply and no
induction is needed. The refinement takes each critical section to one step of
`AdmissionQueue` and all others to stutters.

*Wake-ups.* `NoLostDispatch` is inductive over `IndInv` once the steps are sorted: whatever
gives threads back, shortens the queue at its head or admits a job leaves its thread on its
way into `Dispatch`, and `Dispatch` itself only ends when the head does not fit.

*Shutdown.* `ShutdownPhases` follows the lists of threads. A live thread is in `workers`
until somebody swaps that list out, and whoever did so awaits it; nothing is launched
afterwards, since the queue is empty from the first critical section of `Shutdown`. So when a call of `Shutdown`
has returned nothing lives, and by `PromisePhases` and `ThreadBudget` everything is resolved and
given back.

*Rest.* `RestIsDone` is the part of `EveryJobEnds` that needs no fairness: a
scheduler in which nobody is on the way has no admitted job left whose future is
unset or whose observer has not heard of the end. `Notices` follows the observer from `Submit` to
`ClearStatusCallback`: who withdraws a job owes its observer a notice until it is
delivered, also while `Shutdown` has several to give, and a job's thread drops the observer
only after it has told it.

*Cancellation.* `CancelPreventsSuccess` says that something holds from some state on.
`NeverSucceeds` holds in that state and no step ends it, which is all the temporal step needs.

TLC checked `ShutdownPhases` and `Notices` as invariants of the instance of
`scheduler_safety` before they were proved.

**Event delivery** (`EventLogAssumption`, `EventDeliveryAssumption`). The core is
`WindowContiguous`: the i-th retained response has the id that its distance from
the end gives it, and the minimum cursor never passes the window. From it, a cursor
that has not expired indexes its successor, and `NoSilentGap` follows for each kind
of receive. The limits (`WindowStaysBounded`) need what the byte count is, a sum that is
defined by a recursive function over the window. The provers cannot use the library's induction theorems, which
take an operator, so `RunningBytes` says what it means to be the partial sums of a window,
and the sums of a concatenation and of a window with one entry changed are found with
`InductionUpTo`, which is the library's well-founded minimum applied to the set of counterexamples. `CallbackSizes` is
needed since a release replaces a payload by its metadata, which must not make the
window larger.

**Callbacks** (`CallbackAssumption`). `Registrations` says what a table entry, a
handler's run and the owner's program point mean for each other, including the
window between the flag and the mutex. `CallProgress` ties `received`, `reply` and
`accepted` together; `Blame` says that the call in `transport_error` is
over and had no accepted reply, and that some call is blamed if one went unanswered
without a signal; `SolveOutlivesCalls` puts the verdict after all calls. `Reached`: from its registration to
its removal a handler is in the table or has run, which is why no `Call` can wait past a
signal whose handlers have been called (`SignalsReachEveryWait`).

**Sessions** (`RegistryAssumption`). `AgeCountsIdleTime` relates the age that the
registry computes to the true idle time, which a history variable keeps: the idle
time never exceeds the age, and they are equal while nobody uses the session.
`HandleLeadsToLease` is what makes a close that waits for the mutex erase its own entry or none;
with `HandlesDistinct` the entry that it erases is the only one of its session, so that a
closed session is not counted any more. The capacity is kept because `Insert` counts what
is left after the expiry under the same mutex.

**Worker callback** (`ChunkAssumption`). `Sending` and `ChunkFollows` say who owns
the buffer at each pair of program points; `PrefixTaken`, that the worker holds a
prefix of the reply; `OneChunk`, that a reply of one chunk never returns the state word to 0. `Watch` adds the parent's side of
each sleep: whoever changes the state word has the notification still before it, and a parent
that is done has sent the last chunk or told of the failure.

**Server client** (`ServerExecutorAssumption`). `Progress` says that the cursor counts what
was handed over until the operation is abandoned, and that a terminal response takes
the client out of its loop and clears the timer; without the second half the deadline could
give away a result that the caller already has. `SettledExactlyOnce` equates a settled
promise with an operation that is over or abandoned. `AbortsUnknown` covers the time before the job is
known: who cancels then takes the submission with him, which is why a late acceptance can
tell from `aborted` and `interrupted` alone what it has to do. `StoppedHasDeadline` is the
safety half of `StopSettles`: the step that stops a call arms the deadline or settles the
promise, and only what settles the promise, or a terminal response, disarms it.

**Worker jobs** (`WorkerExecutorAssumption`). The argument is about who may still speak.
`WorkersKnown`: a worker runs only if it is the current one, and a message that passes the
check of the generation comes from it. `ReadyOnce`: a worker announces its
flag before it is ready, so that a stop that waits for readiness finds the flag.
`OneJob`: the active job is parked at the worker that is coming or posted
at the current one, and a worker's task is that job. `AnswersKnown`: an answer in
the channel belongs to a job that was posted, and the worker is done with it. `StopParked`: a
stop that waits for the worker is that of the active job. From these, the flag of
a working solver is clear or its own, whatever was cancelled when. `SessionKnown` ties
the session's worker to the runtime that was remembered for it. `NoStrayTermination` and
`StoppedIsSilent` are action properties and follow from the invariant step by step.

**Reports.** `ReportProofs` adds the order of messages. `Orderly`: a worker that is ready
sends the events and then the answer of the posted job. `Progress`: the events
that were observed or wait for the observer, and those in the channel, are numbered
one after the other up to the number emitted, and the answer stands behind them. `InOrder` splits the first part
between what was observed and what waits. So, when an answer is read and the
observers are done, everything has been observed, which is `ReportsLast`.

### Only model-checked

Liveness is beyond the prover: `EveryJobEnds`, `ShutdownReturns`, `ImplementsFairAdmission`,
`StreamsEnd`, `SignalsEndWaits`, `IdleSessionsFreed`, `CallEnds`, `StopSettles`,
`AbortedCallsSettle`. What of them is safety is proved: the refinement without its fairness
(`SchedulerImplementsAdmission`), the state at rest (`RestIsDone`), the handlers that are told
(`SignalsReachEveryWait`), the wake-ups (`NoWakeUpLost`, `SleeperIsNotForgotten`), the deadline
of a stopped call (`StoppedCallsEnd`). The properties of the Findings are false and stay with TLC's counterexamples.

## Not modelled

* **Stream slots** of the HTTP server are one counter that is compared with a limit
  (`http_server.cc:130`); a refused stream is one of the answers in `JobService`.
* **The job service without its client's view**: several clients of one job meet in
  `EventDelivery` and `CallbackExchange`, but `JobService` has one. A submission that is
  refused after the scheduler has queued it (`solver_job_service.cc:451`) leaves a job
  that nobody can name; both models admit it, and no document promises otherwise.
* **Responses that arrive between the two requests of a poll** are not delivered when the
  result is there. `EventsInOrder` admits this missing tail: it says that nothing is left out in
  the middle. A client whose cursor has expired (410) cancels the job, except for a
  creation, which runs on with nobody to fetch its result; the model does the same.
* **Of the worker**: `terminate()` of an executor, which the library itself never
  calls; the `cancel` operation of `solver_worker.ts`, which no parent sends; malformed
  messages. A handler that fails during a solve is in `WorkerCallback` and not in `SolverJob`.
  An observer that throws on the failure event itself (`worker_helpers.ts:435`, into
  `solver_job.ts:80-104`) is left out: it ends where one that throws just before the
  answer is read does, with the job cancelled and the observer's error reported.
* **A callback that a signal ended and that is blamed all the same**: `BlameIsRight` speaks of
  callbacks that were answered and of those that nobody answered. That a signal which is
  seen excuses a call is the guard of `Blames`.
* **MathOpt and guided Set Cover sessions** use the registry that `SessionRegistry` models;
  that a handle is only used on the worker that gave it out is `SessionsStayHome`. What the
  client keeps beside the handle, the model it has sent and whether an operation failed
  (`mathopt/sessions.ts`), is left out.
* **The WASM runtime and its lock**: one promise per runtime, and a chain of
  promises in one event loop.
* **The relaxed read of `use_count`** in the registry: the model takes it and the
  read of `last_used` in program order, which x86-64 guarantees.
* **Per-solver executors**: how they register for signals and keep sessions is
  modelled; decoding a request and encoding a response is conversion.
* **Solver APIs in TypeScript, the WASM bridge, the bridge encoding**: sequential
  construction and conversion of data, without a protocol of their own.
* **Server configuration, the cloud executor**: no state; the cloud executor asks
  one URL and always fails.
* **OR-Tools** is vendored and makes up nearly all of
  the lines of code under `src/`. Its solvers are numerical and combinatorial search on
  data that no small instance stands for. A solve is a step that returns, throws or is interrupted.
* **Build scripts, patches, benchmarks, the site** are not part of the running system.

## Plan

Done, in this order: the scheduler and its abstract specification; event log and
delivery; signals and callbacks; session registry and MPSolver sessions; the worker
callback channel; the job service and its client; the worker executor, its workers and
the jobs with their observers; the proofs of each.

What is left, by importance:

1. A fourth mode of `ServerExecutor`, MathOpt without a handler, which streams and
   interrupts; both halves are in the present modes, their combination is not.
2. The incremental sessions of `mathopt/sessions.ts` as a client of the worker executor: that
   the model they remember is the one the native solver has, whatever fails around the commit.
