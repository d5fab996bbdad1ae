--------------------------- MODULE WorkerExecutor ---------------------------
(***************************************************************************)
(* javascript/lib/worker_helpers.ts: ManagedWorker and SolverWorkerExecutor*)
(* over the workers of solver_worker.ts.  The parent is single-threaded; a *)
(* step of it is what runs before control returns to the event loop, so    *)
(* whatever waits only for promises that are already settled belongs to the*)
(* step.  The workers run beside it; a stop is a shared byte that the      *)
(* parent stores and the native solver reads.  Workers are numbered as they*)
(* are created, 0 stands for none.                                         *)
(***************************************************************************)
EXTENDS Naturals, Sequences

CONSTANTS
  MaxJobs,      \* BOUND: calls of execute(); the first may make a session
  Requests,     \* how the requests can be stopped, see StopsBy
  MaxWorkers,   \* BOUND: workers ever created
  MaxEvents     \* BOUND: events of each job

Jobs == 1..MaxJobs
Workers == 1..MaxWorkers

\* How a request is stopped: its worker is terminated; the flag is raised and the
\* result dropped, or kept (MathOpt, sessions of MPSolver); or it cannot be.
StopsBy == {"termination", "flag", "interruption", "nothing"}

ASSUME WorkerExecutorAssumption ==
  /\ MaxJobs \in Nat \ {0} /\ MaxWorkers \in Nat
  /\ MaxEvents \in [Jobs -> Nat]
  /\ Requests \subseteq [Jobs -> StopsBy]

VARIABLES
  generation,   \* of the worker that is used
  created,      \* the last worker that was created
  birth,        \* the generation that waits for it
  phase,        \* of its thread: "loading" (its factory), "starting", "running"
  loading,      \* workerPromise
  current,      \* worker
  ready,        \* readyPromise is resolved
  signal,       \* cancellation: the worker whose flag is known
  channel,      \* messages of a worker to the parent
  task,         \* the request a worker has not answered
  flag,         \* the shared flag: the job for which it was raised
  stopsBy,      \* of a request; fixed
  active,       \* activeJob
  cancelled,    \* state.cancelled of a job
  place,        \* of a job: "parked" in ensureReady, "posted"
  target,       \* the worker at which the active job is parked or posted
  stop,         \* the job whose stop is parked in load()
  users,        \* jobs that use the session of the first job; fixed
  runtime,      \* runtimeIdentity at the dispatch of the first job
  home,         \* the worker that has its session
  emitted,      \* events of a job so far
  result        \* of the promise of a job

manager_vars == <<generation, created, birth, loading, current, ready, signal>>
thread_vars == <<phase, channel, task, flag, home, emitted>>
job_vars == <<active, target, cancelled, place, stop, runtime, result>>
input_vars == <<stopsBy, users>>
executor_vars == <<manager_vars, thread_vars, job_vars, input_vars>>

ExecutorInit ==
  /\ generation = 1 /\ created = 0
  /\ birth = [w \in Workers |-> 0]
  /\ phase = [w \in Workers |-> "none"]
  /\ loading = 0 /\ current = 0 /\ ready = FALSE /\ signal = 0
  /\ channel = [w \in Workers |-> <<>>]
  /\ task = [w \in Workers |-> 0]
  /\ flag = [w \in Workers |-> 0]
  /\ stopsBy \in Requests
  /\ active = 0 /\ target = 0 /\ cancelled = {} /\ stop = 0
  /\ place = [j \in Jobs |-> "new"]
  /\ users \in SUBSET (Jobs \ {1}) /\ runtime = 0 /\ home = 0
  /\ emitted = [j \in Jobs |-> 0]
  /\ result = [j \in Jobs |-> "none"]

Kinds == {"signal", "ready", "event", "ok", "error", "failed"}
Message(kind, job, value) == [kind |-> kind, job |-> job, value |-> value]

-----------------------------------------------------------------------------
(* The worker's side.                                                       *)

\* installSolverWorker: the flag is announced before readiness.
Boot(w) ==
  /\ phase[w] = "starting"
  /\ phase' = [phase EXCEPT ![w] = "running"]
  /\ channel' = [channel EXCEPT ![w] = @ \o <<Message("signal", 0, 0), Message("ready", 0, 0)>>]
  /\ UNCHANGED <<manager_vars, job_vars, input_vars, task, flag, home, emitted>>

Emit(w) ==
  LET j == task[w] IN
  /\ phase[w] = "running" /\ j # 0 /\ emitted[j] < MaxEvents[j]
  /\ emitted' = [emitted EXCEPT ![j] = @ + 1]
  /\ channel' = [channel EXCEPT ![w] = Append(@, Message("event", j, emitted'[j]))]
  /\ UNCHANGED <<manager_vars, job_vars, input_vars, phase, task, flag, home>>

\* The solver returns; some clear the flag on the way out.
Return(w) ==
  LET j == task[w] IN
  /\ phase[w] = "running" /\ j # 0
  /\ \E kind \in {"ok", "error"} :
       /\ channel' = [channel EXCEPT ![w] = Append(@, Message(kind, j, 0))]
       /\ home' = IF j = 1 /\ kind = "ok" THEN w ELSE home
  /\ task' = [task EXCEPT ![w] = 0]
  /\ \E after \in {0, flag[w]} : flag' = [flag EXCEPT ![w] = after]
  /\ UNCHANGED <<manager_vars, job_vars, input_vars, phase, emitted>>

\* An uncaught error, or an exit whatever its code.
Crash(w) ==
  /\ phase[w] \in {"starting", "running"}
  /\ phase' = [phase EXCEPT ![w] = "dead"]
  /\ task' = [task EXCEPT ![w] = 0]
  /\ channel' = [channel EXCEPT ![w] = Append(@, Message("failed", 0, 0))]
  /\ UNCHANGED <<manager_vars, job_vars, input_vars, flag, home, emitted>>

-----------------------------------------------------------------------------
(* ManagedWorker.                                                           *)

\* The promise of run() is settled; the executor is free again.
End(j, value) ==
  /\ result' = [result EXCEPT ![j] = IF j \in cancelled THEN "cancelled" ELSE value]
  /\ place' = [place EXCEPT ![j] = "over"]
  /\ active' = 0 /\ target' = 0

\* What waits at worker w, and nothing else, is rejected.
Reject(w, value) ==
  IF active # 0 /\ target = w THEN End(active, value)
                                      ELSE UNCHANGED <<result, place, active, target>>

\* ensureWorker: there is a worker, or it is being created, or it is created now.
EnsureWorker ==
  IF current # 0 \/ loading # 0
  THEN UNCHANGED <<created, loading, birth, phase>>
  ELSE /\ created < MaxWorkers
       /\ created' = created + 1
       /\ loading' = created'
       /\ birth' = [birth EXCEPT ![created'] = generation]
       /\ phase' = [phase EXCEPT ![created'] = "loading"]

\* terminate: who waits for readiness or an answer is rejected now, who waits for
\* a factory when the factory is done.
Terminate(value) ==
  /\ generation' = generation + 1
  /\ current' = 0 /\ loading' = 0 /\ ready' = FALSE /\ signal' = 0 /\ stop' = 0
  /\ phase' = [w \in Workers |-> IF w = current THEN "dead" ELSE phase[w]]
  /\ task' = [w \in Workers |-> IF w = current THEN 0 ELSE task[w]]
  /\ flag' = [w \in Workers |-> IF w = current THEN 0 ELSE flag[w]]
  /\ Reject(current, value)
  /\ UNCHANGED <<created, birth, home, emitted, runtime, input_vars>>

\* Mutant: a worker whose factory was slow is used although it has been retired.
WantsAny(w) == TRUE

\* The check after the factory's promise.
IsWanted(w) == birth[w] = generation

FactoryLoads(w) ==
  /\ phase[w] = "loading"
  /\ IF IsWanted(w)
     THEN /\ phase' = [phase EXCEPT ![w] = "starting"]
          /\ current' = w /\ loading' = 0
          /\ UNCHANGED <<result, place, active, target>>
     ELSE /\ phase' = [phase EXCEPT ![w] = "dead"]
          /\ Reject(w, "error")
          /\ UNCHANGED <<current, loading>>
  /\ UNCHANGED <<generation, created, birth, ready, signal, channel, task, flag,
                 home, emitted, cancelled, stop, runtime, input_vars>>

FactoryFails(w) ==
  /\ phase[w] = "loading"
  /\ phase' = [phase EXCEPT ![w] = "dead"]
  /\ Reject(w, "error")
  /\ IF loading = w THEN loading' = 0 /\ stop' = 0 ELSE UNCHANGED <<loading, stop>>
  /\ UNCHANGED <<generation, created, birth, current, ready, signal, channel,
                 task, flag, home, emitted, cancelled, runtime, input_vars>>

-----------------------------------------------------------------------------
(* SolverWorkerExecutor.                                                    *)

\* Mutant: the flag is left as the last job's stop has set it.
KeepsFlag(w) == flag[w]

\* beforePost clears the flag.
ClearedFlag(w) == 0

\* Mutant: a session is used whatever worker is there.
KnowsAnySession(j) == TRUE

\* onDispatch: a session is bound to the generation of the worker that made it.
KnowsSession(j) == j \in users => runtime = generation

\* beforePost and postMessage at worker w, and after them the stop that is parked.
Dispatch(j, w) ==
  /\ IF KnowsSession(j) /\ j \notin cancelled
     THEN /\ task' = [task EXCEPT ![w] = j]
          /\ place' = [place EXCEPT ![j] = "posted"]
          /\ active' = j /\ target' = w
          /\ UNCHANGED result
     ELSE End(j, "error") /\ UNCHANGED task
  /\ flag' = [flag EXCEPT ![w] = CASE stop # 0 -> stop
                                   [] stop = 0 /\ KnowsSession(j) -> ClearedFlag(w)
                                   [] OTHER -> @]
  /\ runtime' = IF j = 1 THEN generation ELSE runtime

\* execute: the request is dispatched, or parked until a worker is ready.
Execute(j) ==
  /\ active = 0 /\ place[j] = "new" /\ \A i \in 1..(j - 1) : place[i] # "new"
  /\ j \in users => result[1] = "ok"
  /\ EnsureWorker
  /\ IF ready
     THEN Dispatch(j, current)
     ELSE /\ place' = [place EXCEPT ![j] = "parked"]
          /\ active' = j /\ target' = IF current # 0 THEN current ELSE loading'
          /\ UNCHANGED <<task, flag, runtime, result>>
  /\ UNCHANGED <<generation, current, ready, signal, channel, home, emitted, cancelled,
                 stop, input_vars>>

\* load() ahead of the first job, or while a job waits for a retired factory.
Load ==
  /\ current = 0 /\ loading = 0
  /\ EnsureWorker
  /\ UNCHANGED <<generation, current, ready, signal, channel, task, flag, home,
                 emitted, job_vars, input_vars>>

\* The stop waits in load().
ParkedStop(j) == j

\* The flag is raised for job j, as soon as there is one.
Raise(j) ==
  /\ IF ready
     THEN flag' = [flag EXCEPT ![signal] = j] /\ UNCHANGED stop
     ELSE stop' = ParkedStop(j) /\ UNCHANGED flag
  /\ UNCHANGED <<manager_vars, phase, channel, task, home, emitted, active, target,
                 place, runtime, result, input_vars>>

\* activeJob === state
Holds(j) == active = j

\* cancel; what it tells the observers comes too late for them.
Cancel(j) ==
  IF ~Holds(j) \/ j \in cancelled \/ stopsBy[j] = "nothing"
  THEN UNCHANGED executor_vars
  ELSE CASE stopsBy[j] = "interruption" -> Raise(j) /\ UNCHANGED cancelled
         [] stopsBy[j] = "flag" -> Raise(j) /\ cancelled' = cancelled \cup {j}
         [] stopsBy[j] = "termination" ->
              Terminate("cancelled") /\ cancelled' = cancelled \cup {j}
                                     /\ UNCHANGED channel

\* interrupt
Interrupt(j) ==
  IF ~Holds(j) \/ stopsBy[j] \in {"nothing", "termination"}
  THEN UNCHANGED executor_vars
  ELSE Raise(j) /\ UNCHANGED cancelled

-----------------------------------------------------------------------------
(* Messages of a worker.                                                    *)

\* Mutant: the worker that sent a message may have been replaced.
HeedsAll(w) == TRUE

\* The check at the head of every listener.
Heeds(w) == birth[w] = generation

Arrives(w, kind) ==
  /\ channel[w] # <<>> /\ Head(channel[w]).kind = kind
  /\ channel' = [channel EXCEPT ![w] = Tail(@)]

Ignored(w) ==
  /\ \E kind \in Kinds : Arrives(w, kind)
  /\ ~Heeds(w)
  /\ UNCHANGED <<manager_vars, phase, task, flag, home, emitted, job_vars, input_vars>>

SignalArrives(w) ==
  /\ Heeds(w) /\ Arrives(w, "signal")
  /\ signal' = w
  /\ UNCHANGED <<generation, created, birth, loading, current, ready, phase,
                 task, flag, home, emitted, job_vars, input_vars>>

\* The job goes on before a stop of it, whichever was parked first.
ReadyArrives(w) ==
  /\ Heeds(w) /\ Arrives(w, "ready")
  /\ ready' = TRUE
  /\ stop' = 0
  /\ IF active # 0 /\ target = w
     THEN Dispatch(active, w)
     ELSE /\ flag' = [flag EXCEPT ![w] = IF stop # 0 THEN stop ELSE @]
          /\ UNCHANGED <<task, runtime, result, place, active, target>>
  /\ UNCHANGED <<generation, created, birth, loading, current, signal, phase,
                 home, emitted, cancelled, input_vars>>

EventArrives(w, j, k) ==
  /\ Heeds(w) /\ Arrives(w, "event")
  /\ Head(channel[w]).job = j /\ Head(channel[w]).value = k
  /\ UNCHANGED <<manager_vars, phase, task, flag, home, emitted, job_vars, input_vars>>

ResultArrives(w) ==
  /\ Heeds(w)
  /\ \E value \in {"ok", "error"} :
       LET j == Head(channel[w]).job IN
       /\ Arrives(w, value)
       /\ IF place[j] = "posted" THEN End(j, value)
                                 ELSE UNCHANGED <<result, place, active, target>>
  /\ UNCHANGED <<manager_vars, phase, task, flag, home, emitted, cancelled, stop,
                 runtime, input_vars>>

FailureArrives(w) ==
  /\ Heeds(w) /\ Arrives(w, "failed")
  /\ Terminate("error")
  /\ UNCHANGED cancelled

Thread == \E w \in Workers : Boot(w) \/ Emit(w) \/ Return(w) \/ Crash(w)

Manager ==
  \E w \in Workers : FactoryLoads(w) \/ FactoryFails(w) \/ Ignored(w) \/ SignalArrives(w)
    \/ ReadyArrives(w) \/ ResultArrives(w) \/ FailureArrives(w)

ExecutorTypeOK ==
  /\ generation \in Nat /\ created \in 0..MaxWorkers /\ runtime \in Nat
  /\ loading \in 0..MaxWorkers /\ current \in 0..MaxWorkers /\ signal \in 0..MaxWorkers
  /\ home \in 0..MaxWorkers
  /\ active \in 0..MaxJobs /\ target \in 0..MaxWorkers /\ stop \in 0..MaxJobs
  /\ ready \in BOOLEAN
  /\ birth \in [Workers -> Nat]
  /\ phase \in [Workers -> {"none", "loading", "starting", "running", "dead"}]
  /\ channel \in [Workers -> Seq([kind : Kinds, job : 0..MaxJobs, value : Nat])]
  /\ task \in [Workers -> 0..MaxJobs] /\ flag \in [Workers -> 0..MaxJobs]
  /\ stopsBy \in Requests /\ users \subseteq Jobs /\ cancelled \subseteq Jobs
  /\ place \in [Jobs -> {"new", "parked", "posted", "over"}]
  /\ emitted \in [Jobs -> Nat]
  /\ result \in [Jobs -> {"none", "ok", "error", "cancelled"}]
=============================================================================
