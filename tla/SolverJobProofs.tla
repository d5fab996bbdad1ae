--------------------------- MODULE SolverJobProofs ---------------------------
(***************************************************************************)
(* Proofs about SolverJob, for any number of jobs, workers and events.     *)
(***************************************************************************)
EXTENDS SolverJob, TLAPS

-----------------------------------------------------------------------------
(* The inductive invariant of the executor.                                 *)

Messages(w) == 1..Len(channel[w])

\* A worker is coming, or is the one that is used, or has nothing more to say.
Known(w) ==
  /\ phase[w] = "none" <=> w > created
  /\ birth[w] <= generation
  /\ phase[w] = "loading" /\ birth[w] = generation => w = loading
  /\ phase[w] \in {"starting", "running"} => w = current
  /\ phase[w] \in {"none", "loading", "starting"} => channel[w] = <<>>
  /\ birth[w] = generation /\ channel[w] # <<>> => w = current

WorkersKnown ==
  /\ \A w \in Workers : Known(w)
  /\ loading # 0 => current = 0 /\ phase[loading] = "loading" /\ birth[loading] = generation
  /\ current # 0 => birth[current] = generation /\ phase[current] \notin {"none", "loading"}
  /\ signal \in {0, current}

\* A worker tells its flag before it is ready, and becomes ready once; its failure
\* is the last thing that is heard of it.
Told(w, i) ==
  /\ channel[w][i].kind = "failed" => phase[w] = "dead"
  /\ birth[w] = generation /\ channel[w][i].kind = "ready" =>
       /\ ~ready
       /\ \/ i = 1 /\ signal = w
          \/ i = 2 /\ channel[w][1].kind = "signal"

ReadyOnce ==
  /\ ready => signal = current /\ current # 0 /\ phase[current] # "starting"
  /\ \A w \in Workers : \A i \in Messages(w) : Told(w, i)

\* The one job of the executor is parked or posted at the worker that is used or
\* coming, or has been given up and waits for the factory of a retired worker.
OneJob ==
  /\ active = 0 <=> target = 0
  /\ \A j \in Jobs : place[j] \in {"parked", "posted"} <=> active = j
  /\ active # 0 /\ place[active] = "posted" => ready /\ target = current
  /\ active # 0 /\ place[active] = "parked" =>
       \/ target = loading
       \/ target = current /\ ~ready
       \/ /\ phase[target] = "loading" /\ birth[target] # generation
          /\ stopsBy[active] = "termination" /\ active \in cancelled
  /\ \A w \in Workers : task[w] # 0 =>
       ready /\ w = current /\ active = task[w] /\ place[active] = "posted"

\* A worker answers a job that was posted, and works on it no longer.
Answer(w, i) ==
  channel[w][i].kind \in {"ok", "error"} =>
    /\ channel[w][i].job # 0
    /\ place[channel[w][i].job] \in {"posted", "over"}
    /\ place[channel[w][i].job] = "posted" => task[w] = 0

AnswersKnown == \A w \in Workers : \A i \in Messages(w) : Answer(w, i)

\* A stop waits with the job it is meant for.
StopParked ==
  stop # 0 => /\ active = stop /\ ~ready /\ target \in {loading, current}
              /\ stopsBy[stop] # "termination"

\* The session of the first job is on the worker that is used, as long as the
\* generation in which that job was dispatched lasts.
SessionMade(w, i) ==
  channel[w][i].kind = "ok" /\ channel[w][i].job = 1 => home # 0

SessionKnown ==
  /\ runtime <= generation
  /\ home # 0 => /\ runtime = generation => home = current
                 /\ place[1] \in {"posted", "over"}
                 /\ \A w \in Workers : task[w] # 1
  /\ \A w \in Workers : task[w] = 1 => runtime = generation
  /\ \A w \in Workers : \A i \in Messages(w) : SessionMade(w, i)
  /\ result[1] = "ok" => home # 0 /\ place[1] = "over"
  /\ \A j \in users : place[j] # "new" => result[1] = "ok"

ExecutorInd ==
  /\ ExecutorTypeOK
  /\ WorkersKnown
  /\ ReadyOnce
  /\ OneJob
  /\ AnswersKnown
  /\ StopParked
  /\ SessionKnown
  /\ StopsHitTheirJob
  /\ SessionsStayHome

-----------------------------------------------------------------------------
(* The steps of the executor.                                               *)

\* A stop that raises the flag.
Flags(j) ==
  /\ active = j /\ stopsBy[j] \in {"flag", "interruption"}
  /\ Raise(j)
  /\ cancelled' \in {cancelled, cancelled \cup {j}}

\* A stop that terminates the worker.
Kills(j) ==
  /\ active = j /\ stopsBy[j] = "termination"
  /\ Terminate("cancelled")
  /\ cancelled' = cancelled \cup {j}
  /\ UNCHANGED channel

ExecutorNext ==
  \/ \E j \in Jobs : Execute(j) \/ Flags(j) \/ Kills(j)
  \/ Load
  \/ \E w \in Workers : FactoryLoads(w) \/ FactoryFails(w) \/ Ignored(w)
       \/ SignalArrives(w) \/ ReadyArrives(w) \/ ResultArrives(w) \/ FailureArrives(w)
       \/ (\E j \in Jobs, k \in Nat : EventArrives(w, j, k))
       \/ Boot(w) \/ Emit(w) \/ Return(w) \/ Crash(w)


-----------------------------------------------------------------------------
(* Channels.                                                                *)

MessageSet == [kind : Kinds, job : 0..MaxJobs, value : Nat]

\* The first message is taken from a channel.
LEMMA Received ==
  ASSUME ExecutorTypeOK, NEW w \in Workers, NEW kind, Arrives(w, kind)
  PROVE  /\ channel[w] # <<>> /\ Len(channel[w]) \in Nat /\ 1 \in Messages(w)
         /\ channel[w][1] = Head(channel[w]) /\ channel[w][1].kind = kind
         /\ channel' \in [Workers -> Seq(MessageSet)]
         /\ \A v \in Workers : v # w => channel'[v] = channel[v]
         /\ Len(channel'[w]) = Len(channel[w]) - 1
         /\ \A i \in 1..Len(channel'[w]) :
              i + 1 \in Messages(w) /\ channel'[w][i] = channel[w][i + 1]
<1>1. channel[w] \in Seq(MessageSet) /\ channel[w] # <<>>
  BY DEF Arrives, ExecutorTypeOK, MessageSet
<1>2. channel' = [channel EXCEPT ![w] = Tail(channel[w])] /\ Head(channel[w]).kind = kind
  BY DEF Arrives
<1>3. Tail(channel[w]) \in Seq(MessageSet)
  BY <1>1
<1>4. Len(Tail(channel[w])) = Len(channel[w]) - 1 /\ Len(channel[w]) \in Nat
  BY <1>1
<1>5. \A i \in 1..Len(Tail(channel[w])) : Tail(channel[w])[i] = channel[w][i + 1]
  BY <1>1, <1>4
<1>6. channel'[w] = Tail(channel[w]) /\ \A v \in Workers : v # w => channel'[v] = channel[v]
  BY <1>2 DEF ExecutorTypeOK
<1>7. Len(channel[w]) \in Nat /\ Len(channel[w]) > 0 /\ channel[w][1] = Head(channel[w])
  BY <1>1
<1>8. channel' \in [Workers -> Seq(MessageSet)]
  BY <1>2, <1>3 DEF ExecutorTypeOK, MessageSet
<1> QED
  BY <1>1, <1>2, <1>4, <1>5, <1>6, <1>7, <1>8 DEF Messages

\* A message is sent.
Sends(w, m) ==
  /\ channel' \in [Workers -> Seq(MessageSet)]
  /\ channel'[w] # <<>> /\ Len(channel[w]) \in Nat
  /\ Len(channel'[w]) = Len(channel[w]) + 1
  /\ channel'[w][Len(channel'[w])] = m
  /\ \A v \in Workers : v # w => channel'[v] = channel[v]
  /\ \A i \in 1..Len(channel'[w]) :
       \/ i \in Messages(w) /\ channel'[w][i] = channel[w][i]
       \/ i = Len(channel[w]) + 1 /\ channel'[w][i] = m

LEMMA Sent ==
  ASSUME ExecutorTypeOK, NEW w \in Workers, NEW m \in MessageSet,
         channel' = [channel EXCEPT ![w] = Append(@, m)]
  PROVE  Sends(w, m)
<1>1. channel[w] \in Seq(MessageSet)
  BY DEF ExecutorTypeOK, MessageSet
<1>2. Append(channel[w], m) \in Seq(MessageSet)
      /\ Len(Append(channel[w], m)) = Len(channel[w]) + 1
      /\ Append(channel[w], m)[Len(channel[w]) + 1] = m
      /\ \A i \in 1..Len(channel[w]) : Append(channel[w], m)[i] = channel[w][i]
  BY <1>1
<1>3. channel'[w] = Append(channel[w], m) /\ \A v \in Workers : v # w => channel'[v] = channel[v]
  BY DEF ExecutorTypeOK
<1>4. channel' \in [Workers -> Seq(MessageSet)]
  BY <1>2 DEF ExecutorTypeOK, MessageSet
<1>5. Len(channel[w]) \in Nat
  BY <1>1
<1>6. channel'[w] # <<>>
  <2>1. Append(channel[w], m) # <<>>
    BY <1>1
  <2> QED
    BY <1>3, <2>1
<1> QED
  BY <1>2, <1>3, <1>4, <1>5, <1>6 DEF Messages, Sends

LEMMA MessageTypes ==
  ASSUME ExecutorTypeOK, NEW w \in Workers, NEW i \in Messages(w)
  PROVE  channel[w][i] \in MessageSet
<1>1. channel[w] \in Seq(MessageSet) /\ i \in 1..Len(channel[w])
  BY DEF ExecutorTypeOK, MessageSet, Messages
<1> QED
  BY <1>1

LEMMA SentOrThere ==
  ASSUME NEW w \in Workers, NEW m, Sends(w, m), NEW v \in Workers, NEW i \in Messages(v)'
  PROVE  \/ i \in Messages(v) /\ channel'[v][i] = channel[v][i]
            /\ (1 \in Messages(v) => channel'[v][1] = channel[v][1])
         \/ v = w /\ i = Len(channel[w]) + 1 /\ channel'[v][i] = m
BY DEF Sends, Messages

LEMMA Remaining ==
  ASSUME ExecutorTypeOK, NEW w \in Workers, NEW kind, Arrives(w, kind),
         NEW v \in Workers, NEW i \in Messages(v)'
  PROVE  /\ channel[v] # <<>>
         /\ \/ v # w /\ i \in Messages(v) /\ channel'[v] = channel[v]
            \/ v = w /\ i \in Nat \ {0} /\ i + 1 \in Messages(w)
               /\ channel'[w][i] = channel[w][i + 1]
<1>1. CASE v # w
  <2>1. i \in Messages(v) /\ channel'[v] = channel[v] /\ channel[v] \in Seq(MessageSet)
    BY <1>1, Received DEF Messages, ExecutorTypeOK, MessageSet
  <2>2. channel[v] # <<>>
    BY <2>1 DEF Messages
  <2> QED
    BY <1>1, <2>1, <2>2
<1>2. CASE v = w
  <2>1. i \in 1..Len(channel'[w]) /\ Len(channel[w]) \in Nat
        /\ Len(channel'[w]) = Len(channel[w]) - 1 /\ channel[w] # <<>>
    BY <1>2, Received DEF Messages
  <2>2. i \in Nat \ {0}
    BY <2>1
  <2> QED
    BY <1>2, <2>1, <2>2, Received
<1> QED
  BY <1>1, <1>2

LEMMA Shifted ==
  ASSUME ExecutorTypeOK, NEW w \in Workers, NEW kind, Arrives(w, kind),
         NEW v \in Workers, NEW i \in Messages(v)'
  PROVE  \E k \in Messages(v) : channel'[v][i] = channel[v][k]
<1>1. CASE v # w
  <2>1. i \in Messages(v) /\ channel'[v] = channel[v]
    BY <1>1, Remaining
  <2> QED
    BY <2>1
<1>2. CASE v = w
  <2>1. i + 1 \in Messages(w) /\ channel'[w][i] = channel[w][i + 1]
    BY <1>2, Remaining
  <2> QED
    BY <1>2, <2>1
<1> QED
  BY <1>1, <1>2

LEMMA EmitSends ==
  ASSUME WorkerExecutorAssumption, ExecutorTypeOK, NEW w \in Workers, Emit(w)
  PROVE  \E m \in MessageSet :
           /\ Sends(w, m)
           /\ m.kind = "event" /\ m.job = task[w] /\ m.value = emitted[task[w]] + 1
<1> DEFINE m == Message("event", task[w], emitted[task[w]] + 1)
<1>1. task[w] \in Jobs /\ task[w] \in 0..MaxJobs
  BY WorkerExecutorAssumption DEF Emit, ExecutorTypeOK, Jobs
<1>2. emitted'[task[w]] = emitted[task[w]] + 1 /\ emitted[task[w]] + 1 \in Nat
  BY <1>1 DEF Emit, ExecutorTypeOK
<1>3. m \in MessageSet
      /\ m.kind = "event" /\ m.job = task[w] /\ m.value = emitted[task[w]] + 1
  BY <1>1, <1>2 DEF Message, MessageSet, Kinds
<1>4. channel' = [channel EXCEPT ![w] = Append(@, m)]
  BY <1>2 DEF Emit
<1> HIDE DEF m
<1> QED
  BY <1>3, <1>4, Sent

LEMMA ReturnSends ==
  ASSUME WorkerExecutorAssumption, ExecutorTypeOK, NEW w \in Workers, Return(w)
  PROVE  \E m \in MessageSet :
           /\ Sends(w, m)
           /\ m.kind \in {"ok", "error"} /\ m.job = task[w]
           /\ home' = IF task[w] = 1 /\ m.kind = "ok" THEN w ELSE home
<1>1. PICK kind \in {"ok", "error"} :
        /\ channel' = [channel EXCEPT ![w] = Append(@, Message(kind, task[w], 0))]
        /\ home' = IF task[w] = 1 /\ kind = "ok" THEN w ELSE home
  BY DEF Return
<1> DEFINE m == Message(kind, task[w], 0)
<1>2. m \in MessageSet /\ m.kind = kind /\ m.job = task[w]
  BY DEF Message, MessageSet, Kinds, ExecutorTypeOK
<1>3. Sends(w, m)
  BY <1>1, <1>2, Sent
<1> HIDE DEF m
<1> QED
  BY <1>1, <1>2, <1>3

LEMMA CrashSends ==
  ASSUME WorkerExecutorAssumption, ExecutorTypeOK, NEW w \in Workers, Crash(w)
  PROVE  \E m \in MessageSet : Sends(w, m) /\ m.kind = "failed"
<1> DEFINE m == Message("failed", 0, 0)
<1>1. m \in MessageSet /\ m.kind = "failed"
  BY WorkerExecutorAssumption DEF WorkerExecutorAssumption, Message, MessageSet, Kinds
<1>2. Sends(w, m)
  BY <1>1, Sent DEF Crash
<1> HIDE DEF m
<1> QED
  BY <1>1, <1>2

\* A worker that starts sends two.
LEMMA BootSends ==
  ASSUME ExecutorTypeOK, NEW w \in Workers, Boot(w), channel[w] = <<>>
  PROVE  /\ channel' \in [Workers -> Seq(MessageSet)]
         /\ \A v \in Workers : v # w => channel'[v] = channel[v]
         /\ Len(channel'[w]) = 2
         /\ channel'[w][1].kind = "signal" /\ channel'[w][2].kind = "ready"
<1> DEFINE new == <<Message("signal", 0, 0), Message("ready", 0, 0)>>
<1>1. Message("signal", 0, 0) \in MessageSet /\ Message("ready", 0, 0) \in MessageSet
  BY WorkerExecutorAssumption DEF Message, MessageSet, Kinds
<1>2. new \in Seq(MessageSet) /\ Len(new) = 2
      /\ new[1].kind = "signal" /\ new[2].kind = "ready"
  BY <1>1 DEF Message
<1>3. <<>> \o new = new
  BY <1>2
<1>4. channel' = [channel EXCEPT ![w] = new]
  BY <1>3 DEF Boot
<1>5. channel'[w] = new /\ \A v \in Workers : v # w => channel'[v] = channel[v]
  BY <1>4 DEF ExecutorTypeOK
<1>6. channel' \in [Workers -> Seq(MessageSet)]
  BY <1>2, <1>4 DEF ExecutorTypeOK, MessageSet
<1> QED
  BY <1>2, <1>5, <1>6

-----------------------------------------------------------------------------
(* Each step of the executor preserves each part.                           *)

\* The types of the executor, in four parts.
ManagerTypes ==
  /\ generation \in Nat /\ created \in 0..MaxWorkers
  /\ loading \in 0..MaxWorkers /\ current \in 0..MaxWorkers /\ signal \in 0..MaxWorkers
  /\ birth \in [Workers -> Nat]

ThreadTypes ==
  /\ home \in 0..MaxWorkers
  /\ phase \in [Workers -> {"none", "loading", "starting", "running", "dead"}]
  /\ task \in [Workers -> 0..MaxJobs] /\ flag \in [Workers -> 0..MaxJobs]
  /\ emitted \in [Jobs -> Nat]

ChannelTypes == channel \in [Workers -> Seq(MessageSet)]

JobTypes ==
  /\ runtime \in Nat
  /\ active \in 0..MaxJobs /\ target \in 0..MaxWorkers /\ stop \in 0..MaxJobs
  /\ stopsBy \in Requests /\ users \subseteq Jobs /\ cancelled \subseteq Jobs
  /\ place \in [Jobs -> {"new", "parked", "posted", "over"}]
  /\ result \in [Jobs -> {"none", "ok", "error", "cancelled"}]

\* What a job goes through keeps the types.
LEMMA EndTypes ==
  ASSUME WorkerExecutorAssumption, JobTypes, NEW j \in Jobs,
         NEW value \in {"ok", "error", "cancelled"}, End(j, value)
  PROVE  /\ active' = 0 /\ target' = 0
         /\ active' \in 0..MaxJobs /\ target' \in 0..MaxWorkers
         /\ place' \in [Jobs -> {"new", "parked", "posted", "over"}]
         /\ result' \in [Jobs -> {"none", "ok", "error", "cancelled"}]
  BY DEF WorkerExecutorAssumption, JobTypes, End

LEMMA RejectTypes ==
  ASSUME WorkerExecutorAssumption, JobTypes, NEW w,
         NEW value \in {"ok", "error", "cancelled"}, Reject(w, value)
  PROVE  /\ active' \in 0..MaxJobs /\ target' \in 0..MaxWorkers
         /\ place' \in [Jobs -> {"new", "parked", "posted", "over"}]
         /\ result' \in [Jobs -> {"none", "ok", "error", "cancelled"}]
<1>1. CASE active # 0 /\ target = w
  <2>1. active \in Jobs
    BY <1>1 DEF JobTypes, Jobs, WorkerExecutorAssumption
  <2> QED
    BY <1>1, <2>1, EndTypes DEF Reject
<1>2. CASE ~(active # 0 /\ target = w)
  BY <1>2 DEF Reject, JobTypes
<1> QED
  BY <1>1, <1>2

LEMMA DispatchTypes ==
  ASSUME WorkerExecutorAssumption, ManagerTypes, ThreadTypes, JobTypes,
         NEW j \in Jobs, NEW w \in Workers, Dispatch(j, w)
  PROVE  /\ active' \in 0..MaxJobs /\ target' \in 0..MaxWorkers /\ runtime' \in Nat
         /\ place' \in [Jobs -> {"new", "parked", "posted", "over"}]
         /\ result' \in [Jobs -> {"none", "ok", "error", "cancelled"}]
         /\ task' \in [Workers -> 0..MaxJobs] /\ flag' \in [Workers -> 0..MaxJobs]
<1> USE WorkerExecutorAssumption
<1>1. j \in 0..MaxJobs /\ w \in 0..MaxWorkers /\ 0 \in 0..MaxJobs
  BY DEF Jobs, Workers
<1>2. runtime' \in Nat
  BY DEF Dispatch, ManagerTypes, JobTypes
<1>3. flag' \in [Workers -> 0..MaxJobs]
  <2>1. flag[w] \in 0..MaxJobs /\ stop \in 0..MaxJobs
    BY DEF ThreadTypes, JobTypes
  <2>2. PICK f \in 0..MaxJobs : flag' = [flag EXCEPT ![w] = f]
    BY <1>1, <2>1 DEF Dispatch, ClearedFlag
  <2> QED
    BY <2>2 DEF ThreadTypes
<1>4. CASE KnowsSession(j) /\ j \notin cancelled
  BY <1>1, <1>2, <1>3, <1>4 DEF Dispatch, ThreadTypes, JobTypes
<1>5. CASE ~(KnowsSession(j) /\ j \notin cancelled)
  <2>1. End(j, "error") /\ UNCHANGED task
    BY <1>5 DEF Dispatch
  <2> QED
    BY <1>2, <1>3, <2>1, EndTypes DEF ThreadTypes
<1> QED
  BY <1>4, <1>5

LEMMA StepManagerTypes ==
  ASSUME WorkerExecutorAssumption, ManagerTypes, ExecutorNext
  PROVE  ManagerTypes'
<1> USE WorkerExecutorAssumption DEF WorkerExecutorAssumption, Jobs, Workers,
   manager_vars, thread_vars, job_vars, input_vars, ManagerTypes
<1>1. ASSUME NEW j \in Jobs, Execute(j) PROVE ManagerTypes'
  BY <1>1 DEF Execute, EnsureWorker, Dispatch, End, ClearedFlag
<1>2. ASSUME NEW j \in Jobs, Flags(j) PROVE ManagerTypes'
  BY <1>2 DEF Flags, Raise, ParkedStop
<1>3. ASSUME NEW j \in Jobs, Kills(j) PROVE ManagerTypes'
  BY <1>3 DEF Kills, Terminate, Reject, End
<1>4. ASSUME Load PROVE ManagerTypes'
  <2>1. created' \in 0..MaxWorkers /\ loading' \in 0..MaxWorkers /\ birth' \in [Workers -> Nat]
    <3>1. CASE current # 0 \/ loading # 0
      BY <3>1, <1>4 DEF Load, EnsureWorker
    <3>2. CASE ~(current # 0 \/ loading # 0)
      BY <3>2, <1>4 DEF Load, EnsureWorker
    <3> QED
      BY <3>1, <3>2
  <2> QED
    BY <2>1, <1>4 DEF Load
<1>5. ASSUME NEW w \in Workers, FactoryLoads(w) PROVE ManagerTypes'
  BY <1>5 DEF FactoryLoads, IsWanted, Reject, End
<1>6. ASSUME NEW w \in Workers, FactoryFails(w) PROVE ManagerTypes'
  BY <1>6 DEF FactoryFails, Reject, End
<1>7. ASSUME NEW w \in Workers, Ignored(w) PROVE ManagerTypes'
  BY <1>7 DEF Ignored, Heeds
<1>8. ASSUME NEW w \in Workers, SignalArrives(w) PROVE ManagerTypes'
  BY <1>8 DEF SignalArrives, Heeds
<1>9. ASSUME NEW w \in Workers, ReadyArrives(w) PROVE ManagerTypes'
  BY <1>9 DEF ReadyArrives, Heeds, Dispatch, End, ClearedFlag
<1>10. ASSUME NEW w \in Workers, ResultArrives(w) PROVE ManagerTypes'
  BY <1>10 DEF ResultArrives, Heeds, End
<1>11. ASSUME NEW w \in Workers, FailureArrives(w) PROVE ManagerTypes'
  BY <1>11 DEF FailureArrives, Heeds, Terminate, Reject, End
<1>12. ASSUME NEW w \in Workers, NEW j \in Jobs, NEW k \in Nat, EventArrives(w, j, k)
       PROVE ManagerTypes'
  BY <1>12 DEF EventArrives, Heeds
<1>13. ASSUME NEW w \in Workers, Boot(w) PROVE ManagerTypes'
  BY <1>13 DEF Boot, Message
<1>14. ASSUME NEW w \in Workers, Emit(w) PROVE ManagerTypes'
  BY <1>14 DEF Emit, Sends, Message
<1>15. ASSUME NEW w \in Workers, Return(w) PROVE ManagerTypes'
  BY <1>15 DEF Return, Sends, Message
<1>16. ASSUME NEW w \in Workers, Crash(w) PROVE ManagerTypes'
  BY <1>16 DEF Crash, Sends, Message
<1> QED
  BY <1>1, <1>2, <1>3, <1>4, <1>5, <1>6, <1>7, <1>8, <1>9, <1>10, <1>11, <1>12,
     <1>13, <1>14, <1>15, <1>16 DEF ExecutorNext

LEMMA StepThreadTypes ==
  ASSUME WorkerExecutorAssumption, ManagerTypes, ThreadTypes, JobTypes, ReadyOnce,
     ExecutorNext
  PROVE  ThreadTypes'
<1> USE WorkerExecutorAssumption DEF WorkerExecutorAssumption, Jobs, Workers,
   manager_vars, thread_vars, job_vars, input_vars, ManagerTypes
<1>1. ASSUME NEW j \in Jobs, Execute(j) PROVE ThreadTypes'
  <2>1. phase' \in [Workers -> {"none", "loading", "starting", "running", "dead"}]
    BY <1>1 DEF Execute, EnsureWorker, ThreadTypes
  <2>2. task' \in [Workers -> 0..MaxJobs] /\ flag' \in [Workers -> 0..MaxJobs]
    <3>1. CASE ready
      <4>1. current \in Workers
        BY <3>1 DEF ReadyOnce
      <4> QED
        BY <1>1, <3>1, <4>1, DispatchTypes DEF Execute
    <3>2. CASE ~ready
      BY <1>1, <3>2 DEF Execute, ThreadTypes
    <3> QED
      BY <3>1, <3>2
  <2> QED
    BY <1>1, <2>1, <2>2 DEF Execute, ThreadTypes
<1>2. ASSUME NEW j \in Jobs, Flags(j) PROVE ThreadTypes'
  <2>1. j \in 0..MaxJobs
    OBVIOUS
  <2>2. flag' \in {flag, [flag EXCEPT ![signal] = j]}
    BY <1>2 DEF Flags, Raise
  <2>3. flag' \in [Workers -> 0..MaxJobs]
    BY <2>1, <2>2 DEF ThreadTypes
  <2>4. UNCHANGED <<home, phase, task, emitted>>
    BY <1>2 DEF Flags, Raise
  <2> QED
    BY <2>3, <2>4 DEF ThreadTypes
<1>3. ASSUME NEW j \in Jobs, Kills(j) PROVE ThreadTypes'
  <2>1. Terminate("cancelled")
    BY <1>3 DEF Kills
  <2> QED
    BY <2>1 DEF Terminate, ThreadTypes
<1>4. ASSUME Load PROVE ThreadTypes'
  BY <1>4 DEF Load, EnsureWorker, ThreadTypes
<1>5. ASSUME NEW w \in Workers, FactoryLoads(w) PROVE ThreadTypes'
  BY <1>5 DEF FactoryLoads, IsWanted, Reject, End, ThreadTypes
<1>6. ASSUME NEW w \in Workers, FactoryFails(w) PROVE ThreadTypes'
  BY <1>6 DEF FactoryFails, Reject, End, ThreadTypes
<1>7. ASSUME NEW w \in Workers, Ignored(w) PROVE ThreadTypes'
  BY <1>7 DEF Ignored, Heeds, ThreadTypes
<1>8. ASSUME NEW w \in Workers, SignalArrives(w) PROVE ThreadTypes'
  BY <1>8 DEF SignalArrives, Heeds, ThreadTypes
<1>9. ASSUME NEW w \in Workers, ReadyArrives(w) PROVE ThreadTypes'
  <2>1. task' \in [Workers -> 0..MaxJobs] /\ flag' \in [Workers -> 0..MaxJobs]
    <3>1. CASE active # 0 /\ target = w
      <4>1. active \in Jobs
        BY <3>1 DEF JobTypes
      <4> QED
        BY <1>9, <3>1, <4>1, DispatchTypes DEF ReadyArrives
    <3>2. CASE ~(active # 0 /\ target = w)
      <4>1. stop \in 0..MaxJobs /\ task' = task
        BY <1>9, <3>2 DEF ReadyArrives, JobTypes
      <4>2. flag' \in {flag, [flag EXCEPT ![w] = stop]}
        BY <1>9, <3>2 DEF ReadyArrives, ThreadTypes
      <4> QED
        BY <4>1, <4>2 DEF ThreadTypes
    <3> QED
      BY <3>1, <3>2
  <2> QED
    BY <1>9, <2>1 DEF ReadyArrives, ThreadTypes
<1>10. ASSUME NEW w \in Workers, ResultArrives(w) PROVE ThreadTypes'
  BY <1>10 DEF ResultArrives, Heeds, End, ThreadTypes
<1>11. ASSUME NEW w \in Workers, FailureArrives(w) PROVE ThreadTypes'
  <2>1. Terminate("error")
    BY <1>11 DEF FailureArrives
  <2> QED
    BY <2>1 DEF Terminate, ThreadTypes
<1>12. ASSUME NEW w \in Workers, NEW j \in Jobs, NEW k \in Nat, EventArrives(w, j, k)
       PROVE ThreadTypes'
  BY <1>12 DEF EventArrives, Heeds, ThreadTypes
<1>13. ASSUME NEW w \in Workers, Boot(w) PROVE ThreadTypes'
  BY <1>13 DEF Boot, Message, ThreadTypes
<1>14. ASSUME NEW w \in Workers, Emit(w) PROVE ThreadTypes'
  <2>1. task[w] \in Jobs
    BY <1>14 DEF Emit, ThreadTypes
  <2>2. emitted' = [emitted EXCEPT ![task[w]] = emitted[task[w]] + 1]
    BY <1>14 DEF Emit
  <2>3. emitted[task[w]] + 1 \in Nat
    BY <2>1 DEF ThreadTypes
  <2>4. emitted' \in [Jobs -> Nat]
    BY <2>2, <2>3 DEF ThreadTypes
  <2> QED
    BY <1>14, <2>4 DEF Emit, ThreadTypes
<1>15. ASSUME NEW w \in Workers, Return(w) PROVE ThreadTypes'
  <2>1. home' \in {w, home} /\ task' \in [Workers -> 0..MaxJobs]
    BY <1>15 DEF Return, ThreadTypes
  <2>2. PICK after \in {0, flag[w]} : flag' = [flag EXCEPT ![w] = after]
    BY <1>15 DEF Return
  <2>3. after \in 0..MaxJobs
    BY DEF ThreadTypes
  <2>4. flag' \in [Workers -> 0..MaxJobs]
    BY <2>2, <2>3 DEF ThreadTypes
  <2> QED
    BY <1>15, <2>1, <2>4 DEF Return, ThreadTypes
<1>16. ASSUME NEW w \in Workers, Crash(w) PROVE ThreadTypes'
  <2>1. phase' = [phase EXCEPT ![w] = "dead"] /\ task' = [task EXCEPT ![w] = 0]
    BY <1>16 DEF Crash
  <2>2. task' \in [Workers -> 0..MaxJobs]
    BY <2>1 DEF ThreadTypes
  <2>3. phase' \in [Workers -> {"none", "loading", "starting", "running", "dead"}]
    BY <2>1 DEF ThreadTypes
  <2> QED
    BY <1>16, <2>2, <2>3 DEF Crash, ThreadTypes
<1> QED
  BY <1>1, <1>2, <1>3, <1>4, <1>5, <1>6, <1>7, <1>8, <1>9, <1>10, <1>11, <1>12,
     <1>13, <1>14, <1>15, <1>16 DEF ExecutorNext

LEMMA StepChannelTypes ==
  ASSUME WorkerExecutorAssumption, ExecutorTypeOK, WorkersKnown, ExecutorNext
  PROVE  ChannelTypes'
<1> USE WorkerExecutorAssumption DEF WorkerExecutorAssumption, Jobs, Workers,
   manager_vars, thread_vars, job_vars, input_vars, ChannelTypes, ExecutorTypeOK,
   WorkersKnown, Known, MessageSet
<1>1. ASSUME NEW j \in Jobs, Execute(j) PROVE ChannelTypes'
  BY <1>1 DEF Execute, EnsureWorker, Dispatch, End, ClearedFlag
<1>2. ASSUME NEW j \in Jobs, Flags(j) PROVE ChannelTypes'
  BY <1>2 DEF Flags, Raise, ParkedStop
<1>3. ASSUME NEW j \in Jobs, Kills(j) PROVE ChannelTypes'
  BY <1>3 DEF Kills, Terminate, Reject, End
<1>4. ASSUME Load PROVE ChannelTypes'
  BY <1>4 DEF Load, EnsureWorker
<1>5. ASSUME NEW w \in Workers, FactoryLoads(w) PROVE ChannelTypes'
  BY <1>5 DEF FactoryLoads, IsWanted, Reject, End
<1>6. ASSUME NEW w \in Workers, FactoryFails(w) PROVE ChannelTypes'
  BY <1>6 DEF FactoryFails, Reject, End
<1>7. ASSUME NEW w \in Workers, Ignored(w) PROVE ChannelTypes'
  BY <1>7, Received DEF Ignored, Heeds
<1>8. ASSUME NEW w \in Workers, SignalArrives(w) PROVE ChannelTypes'
  BY <1>8, Received DEF SignalArrives, Heeds
<1>9. ASSUME NEW w \in Workers, ReadyArrives(w) PROVE ChannelTypes'
  BY <1>9, Received DEF ReadyArrives, Heeds, Dispatch, End, ClearedFlag
<1>10. ASSUME NEW w \in Workers, ResultArrives(w) PROVE ChannelTypes'
  BY <1>10, Received DEF ResultArrives, Heeds, End
<1>11. ASSUME NEW w \in Workers, FailureArrives(w) PROVE ChannelTypes'
  BY <1>11, Received DEF FailureArrives, Heeds, Terminate, Reject, End
<1>12. ASSUME NEW w \in Workers, NEW j \in Jobs, NEW k \in Nat, EventArrives(w, j, k)
       PROVE ChannelTypes'
  BY <1>12, Received DEF EventArrives, Heeds
<1>13. ASSUME NEW w \in Workers, Boot(w) PROVE ChannelTypes'
  BY <1>13, BootSends DEF Boot, Message
<1>14. ASSUME NEW w \in Workers, Emit(w) PROVE ChannelTypes'
  BY <1>14, EmitSends DEF Emit, Sends, Message
<1>15. ASSUME NEW w \in Workers, Return(w) PROVE ChannelTypes'
  BY <1>15, ReturnSends DEF Return, Sends, Message
<1>16. ASSUME NEW w \in Workers, Crash(w) PROVE ChannelTypes'
  BY <1>16, CrashSends DEF Crash, Sends, Message
<1> QED
  BY <1>1, <1>2, <1>3, <1>4, <1>5, <1>6, <1>7, <1>8, <1>9, <1>10, <1>11, <1>12,
     <1>13, <1>14, <1>15, <1>16 DEF ExecutorNext

LEMMA StepJobTypes ==
  ASSUME WorkerExecutorAssumption, ManagerTypes, ThreadTypes, JobTypes,
     ChannelTypes, ReadyOnce, ExecutorNext
  PROVE  JobTypes'
<1> USE WorkerExecutorAssumption DEF WorkerExecutorAssumption, Jobs, Workers,
   manager_vars, thread_vars, job_vars, input_vars, ManagerTypes
<1>1. ASSUME NEW j \in Jobs, Execute(j) PROVE JobTypes'
  <2>1. CASE ready
    <3>1. current \in Workers
      BY <2>1 DEF ReadyOnce
    <3>2. Dispatch(j, current) /\ UNCHANGED <<cancelled, stop, stopsBy, users>>
      BY <1>1, <2>1 DEF Execute
    <3> QED
      BY <3>1, <3>2, DispatchTypes DEF JobTypes
  <2>2. CASE ~ready
    <3>1. loading' \in 0..MaxWorkers
      BY <1>1, StepManagerTypes DEF ExecutorNext, ManagerTypes
    <3>2. active' \in 0..MaxJobs /\ target' \in 0..MaxWorkers
      BY <1>1, <2>2, <3>1 DEF Execute
    <3>3. place' \in [Jobs -> {"new", "parked", "posted", "over"}]
      BY <1>1, <2>2 DEF Execute, JobTypes
    <3> QED
      BY <1>1, <2>2, <3>2, <3>3 DEF Execute, JobTypes
  <2> QED
    BY <2>1, <2>2
<1>2. ASSUME NEW j \in Jobs, Flags(j) PROVE JobTypes'
  BY <1>2 DEF Flags, Raise, ParkedStop, JobTypes
<1>3. ASSUME NEW j \in Jobs, Kills(j) PROVE JobTypes'
  <2>1. Reject(current, "cancelled") /\ stop' = 0 /\ runtime' = runtime
    BY <1>3 DEF Kills, Terminate
  <2>2. /\ active' \in 0..MaxJobs /\ target' \in 0..MaxWorkers
        /\ place' \in [Jobs -> {"new", "parked", "posted", "over"}]
        /\ result' \in [Jobs -> {"none", "ok", "error", "cancelled"}]
    BY <2>1, RejectTypes
  <2> QED
    BY <1>3, <2>1, <2>2 DEF Kills, Terminate, JobTypes
<1>4. ASSUME Load PROVE JobTypes'
  BY <1>4 DEF Load, EnsureWorker, JobTypes
<1>5. ASSUME NEW w \in Workers, FactoryLoads(w) PROVE JobTypes'
  <2>1. Reject(w, "error") \/ UNCHANGED <<active, target, place, result>>
    BY <1>5 DEF FactoryLoads
  <2>2. /\ active' \in 0..MaxJobs /\ target' \in 0..MaxWorkers
        /\ place' \in [Jobs -> {"new", "parked", "posted", "over"}]
        /\ result' \in [Jobs -> {"none", "ok", "error", "cancelled"}]
    BY <2>1, RejectTypes DEF JobTypes
  <2> QED
    BY <1>5, <2>2 DEF FactoryLoads, JobTypes
<1>6. ASSUME NEW w \in Workers, FactoryFails(w) PROVE JobTypes'
  <2>1. Reject(w, "error") \/ UNCHANGED <<active, target, place, result>>
    BY <1>6 DEF FactoryFails
  <2>2. /\ active' \in 0..MaxJobs /\ target' \in 0..MaxWorkers
        /\ place' \in [Jobs -> {"new", "parked", "posted", "over"}]
        /\ result' \in [Jobs -> {"none", "ok", "error", "cancelled"}]
    BY <2>1, RejectTypes DEF JobTypes
  <2> QED
    BY <1>6, <2>2 DEF FactoryFails, JobTypes
<1>7. ASSUME NEW w \in Workers, Ignored(w) PROVE JobTypes'
  BY <1>7 DEF Ignored, Heeds, JobTypes
<1>8. ASSUME NEW w \in Workers, SignalArrives(w) PROVE JobTypes'
  BY <1>8 DEF SignalArrives, Heeds, JobTypes
<1>9. ASSUME NEW w \in Workers, ReadyArrives(w) PROVE JobTypes'
  <2>1. CASE active # 0 /\ target = w
    <3>1. active \in Jobs
      BY <2>1 DEF JobTypes
    <3>2. Dispatch(active, w) /\ stop' = 0 /\ UNCHANGED <<cancelled, stopsBy, users>>
      BY <1>9, <2>1 DEF ReadyArrives
    <3>3. /\ active' \in 0..MaxJobs /\ target' \in 0..MaxWorkers /\ runtime' \in Nat
          /\ place' \in [Jobs -> {"new", "parked", "posted", "over"}]
          /\ result' \in [Jobs -> {"none", "ok", "error", "cancelled"}]
      BY <3>1, <3>2, DispatchTypes
    <3> QED
      BY <3>2, <3>3 DEF JobTypes
  <2>2. CASE ~(active # 0 /\ target = w)
    <3>1. stop' = 0 /\ UNCHANGED <<active, target, runtime, place, result, cancelled,
                                   stopsBy, users>>
      BY <1>9, <2>2 DEF ReadyArrives
    <3> QED
      BY <3>1 DEF JobTypes
  <2> QED
    BY <2>1, <2>2
<1>10. ASSUME NEW w \in Workers, ResultArrives(w) PROVE JobTypes'
  <2> DEFINE j == Head(channel[w]).job
  <2>1. channel[w] \in Seq(MessageSet) /\ channel[w] # <<>>
    BY <1>10 DEF ResultArrives, Arrives, ChannelTypes
  <2>2. Head(channel[w]) \in MessageSet
    BY <2>1
  <2>3. \/ UNCHANGED <<active, target, place, result>>
        \/ place[j] = "posted" /\ \E value \in {"ok", "error"} : End(j, value)
    BY <1>10 DEF ResultArrives
  <2>4. CASE j \in Jobs
    <3>1. /\ active' \in 0..MaxJobs /\ target' \in 0..MaxWorkers
          /\ place' \in [Jobs -> {"new", "parked", "posted", "over"}]
          /\ result' \in [Jobs -> {"none", "ok", "error", "cancelled"}]
      BY <2>3, <2>4, EndTypes DEF JobTypes
    <3> QED
      BY <1>10, <3>1 DEF ResultArrives, JobTypes
  <2>5. CASE j \notin Jobs
    <3>1. place' = place /\ result' = result /\ active' \in {0, active}
          /\ target' \in {0, target}
      <4>1. [place EXCEPT ![j] = "over"] = place
        BY <2>5 DEF JobTypes
      <4>2. \A value : [result EXCEPT ![j] = value] = result
        BY <2>5 DEF JobTypes
      <4> QED
        BY <2>3, <4>1, <4>2 DEF End
    <3> QED
      BY <1>10, <3>1 DEF ResultArrives, JobTypes
  <2> QED
    BY <2>4, <2>5
<1>11. ASSUME NEW w \in Workers, FailureArrives(w) PROVE JobTypes'
  <2>1. Reject(current, "error") /\ stop' = 0 /\ runtime' = runtime
    BY <1>11 DEF FailureArrives, Terminate
  <2>2. /\ active' \in 0..MaxJobs /\ target' \in 0..MaxWorkers
        /\ place' \in [Jobs -> {"new", "parked", "posted", "over"}]
        /\ result' \in [Jobs -> {"none", "ok", "error", "cancelled"}]
    BY <2>1, RejectTypes
  <2> QED
    BY <1>11, <2>1, <2>2 DEF FailureArrives, Terminate, JobTypes
<1>12. ASSUME NEW w \in Workers, NEW j \in Jobs, NEW k \in Nat, EventArrives(w, j, k)
       PROVE JobTypes'
  BY <1>12 DEF EventArrives, Heeds, JobTypes
<1>13. ASSUME NEW w \in Workers, Boot(w) PROVE JobTypes'
  BY <1>13 DEF Boot, Message, JobTypes
<1>14. ASSUME NEW w \in Workers, Emit(w) PROVE JobTypes'
  BY <1>14 DEF Emit, Sends, Message, JobTypes
<1>15. ASSUME NEW w \in Workers, Return(w) PROVE JobTypes'
  BY <1>15 DEF Return, Sends, Message, JobTypes
<1>16. ASSUME NEW w \in Workers, Crash(w) PROVE JobTypes'
  BY <1>16 DEF Crash, Sends, Message, JobTypes
<1> QED
  BY <1>1, <1>2, <1>3, <1>4, <1>5, <1>6, <1>7, <1>8, <1>9, <1>10, <1>11, <1>12,
     <1>13, <1>14, <1>15, <1>16 DEF ExecutorNext

LEMMA StepReadyType ==
  ASSUME ready \in BOOLEAN, ExecutorNext
  PROVE  ready' \in BOOLEAN
<1> USE DEF manager_vars
<1> QED
  BY DEF ExecutorNext, Execute, Flags, Raise, Kills, Terminate, Load, FactoryLoads,
     FactoryFails, Ignored, SignalArrives, ReadyArrives, ResultArrives, FailureArrives,
     EventArrives, Boot, Emit, Return, Crash

LEMMA StepExecutorType ==
  ASSUME WorkerExecutorAssumption, ExecutorTypeOK, WorkersKnown, ReadyOnce, ExecutorNext
  PROVE  ExecutorTypeOK'
<1>1. ManagerTypes /\ ThreadTypes /\ ChannelTypes /\ JobTypes /\ ready \in BOOLEAN
  BY DEF ExecutorTypeOK, ManagerTypes, ThreadTypes, ChannelTypes, JobTypes, MessageSet
<1>2. ManagerTypes' /\ ThreadTypes' /\ ChannelTypes' /\ JobTypes'
  BY <1>1, StepManagerTypes, StepThreadTypes, StepChannelTypes, StepJobTypes
<1>3. ready' \in BOOLEAN
  BY <1>1, StepReadyType
<1> QED
  BY <1>2, <1>3 DEF ExecutorTypeOK, ManagerTypes, ThreadTypes, ChannelTypes, JobTypes,
     MessageSet

\* What EnsureWorker does, if there is no worker yet.
LEMMA EnsureEffect ==
  ASSUME WorkerExecutorAssumption, ExecutorTypeOK, WorkersKnown, EnsureWorker
  PROVE  /\ current # 0 \/ loading # 0 => UNCHANGED <<created, loading, birth, phase>>
         /\ ~(current # 0 \/ loading # 0) =>
              /\ created + 1 \in Workers /\ loading' = created + 1
              /\ birth'[created + 1] = generation /\ phase'[created + 1] = "loading"
         /\ \A v \in Workers : v # created + 1 => birth'[v] = birth[v] /\ phase'[v] = phase[v]
         /\ \A v \in Workers : channel[v] # <<>> => birth'[v] = birth[v] /\ phase'[v] = phase[v]
<1> USE WorkerExecutorAssumption DEF WorkerExecutorAssumption, Workers
<1>1. CASE current # 0 \/ loading # 0
  BY <1>1 DEF EnsureWorker
<1>2. CASE ~(current # 0 \/ loading # 0)
  <2> DEFINE n == created + 1
  <2>1. /\ created' = n /\ loading' = n /\ n \in Workers
        /\ birth' = [birth EXCEPT ![n] = generation]
        /\ phase' = [phase EXCEPT ![n] = "loading"]
    BY <1>2 DEF EnsureWorker, ExecutorTypeOK
  <2>2. /\ birth'[n] = generation /\ phase'[n] = "loading"
        /\ \A v \in Workers : v # n => birth'[v] = birth[v] /\ phase'[v] = phase[v]
    BY <2>1 DEF ExecutorTypeOK
  <2>3. channel[n] = <<>>
    BY <2>1 DEF WorkersKnown, Known, ExecutorTypeOK
  <2> QED
    BY <1>2, <2>1, <2>2, <2>3
<1> QED
  BY <1>1, <1>2

\* A worker that is created is the only one that is coming.
LEMMA EnsureKeepsWorkers ==
  ASSUME WorkerExecutorAssumption, ExecutorTypeOK, WorkersKnown, EnsureWorker,
         UNCHANGED <<generation, current, signal, channel>>
  PROVE  WorkersKnown'
<1> USE WorkerExecutorAssumption DEF WorkerExecutorAssumption, Workers
<1>1. CASE current # 0 \/ loading # 0
  BY <1>1 DEF EnsureWorker, WorkersKnown, Known
<1>2. CASE ~(current # 0 \/ loading # 0)
  <2> DEFINE n == created + 1
  <2>1. /\ created' = n /\ loading' = n /\ n \in Workers /\ n # 0 /\ current' = 0
        /\ birth' = [birth EXCEPT ![n] = generation]
        /\ phase' = [phase EXCEPT ![n] = "loading"]
    BY <1>2 DEF EnsureWorker, ExecutorTypeOK
  <2>2. /\ birth'[n] = generation /\ phase'[n] = "loading"
        /\ \A w \in Workers : w # n => birth'[w] = birth[w] /\ phase'[w] = phase[w]
    BY <2>1 DEF ExecutorTypeOK
  <2>3. channel[n] = <<>>
    BY <2>1 DEF WorkersKnown, Known, ExecutorTypeOK
  <2>4. ASSUME NEW w \in Workers
        PROVE  Known(w)'
    <3>1. CASE w = n
      BY <2>1, <2>2, <2>3, <3>1 DEF Known, ExecutorTypeOK
    <3>2. CASE w # n
      <4>1. Known(w) /\ created \in Nat /\ w # 0 /\ loading = 0 /\ current = 0
        BY <1>2 DEF WorkersKnown, ExecutorTypeOK
      <4>2. /\ birth'[w] = birth[w] /\ phase'[w] = phase[w] /\ channel'[w] = channel[w]
            /\ generation' = generation /\ created' = created + 1
        BY <2>1, <2>2, <3>2
      <4>3. w > created' <=> w > created
        BY <2>1, <3>2, <4>1
      <4> QED
        BY <2>1, <3>2, <4>1, <4>2, <4>3 DEF Known
    <3> QED
      BY <3>1, <3>2
  <2> QED
    BY <1>2, <2>1, <2>2, <2>4 DEF WorkersKnown
<1> QED
  BY <1>1, <1>2

\* After a termination no worker is of the generation.
LEMMA TerminateKeepsWorkers ==
  ASSUME WorkerExecutorAssumption, ExecutorTypeOK, WorkersKnown, NEW value,
         Terminate(value), \A w \in Workers : channel[w] = <<>> => channel'[w] = <<>>
  PROVE  WorkersKnown' /\ \A w \in Workers : birth'[w] # generation'
<1> USE DEF Terminate, Workers
<1>1. generation' = generation + 1 /\ birth' = birth /\ current' = 0 /\ loading' = 0
      /\ signal' = 0 /\ created' = created
  OBVIOUS
<1>2. ASSUME NEW w \in Workers
      PROVE  /\ birth'[w] # generation' /\ birth'[w] <= generation'
             /\ phase'[w] = IF w = current THEN "dead" ELSE phase[w]
  <2>1. birth[w] <= generation /\ birth[w] \in Nat /\ generation \in Nat
    BY DEF WorkersKnown, Known, ExecutorTypeOK
  <2>2. birth'[w] # generation' /\ birth'[w] <= generation'
    BY <1>1, <2>1
  <2> QED
    BY <2>2
<1>3. ASSUME NEW w \in Workers
      PROVE  /\ phase'[w] = "none" <=> w > created'
             /\ phase'[w] \in {"starting", "running"} => w = current'
             /\ phase'[w] \in {"none", "loading", "starting"} => channel'[w] = <<>>
  BY <1>1, <1>2 DEF WorkersKnown, Known, ExecutorTypeOK
<1> QED
  BY <1>1, <1>2, <1>3 DEF WorkersKnown, Known

LEMMA StepWorkersKnown ==
  ASSUME WorkerExecutorAssumption, ExecutorTypeOK, WorkersKnown, ExecutorNext
  PROVE  WorkersKnown'
<1> USE WorkerExecutorAssumption DEF WorkerExecutorAssumption, Jobs, Workers,
   manager_vars, thread_vars, job_vars, input_vars, WorkersKnown, Known
<1>1. ASSUME NEW j \in Jobs, Execute(j) PROVE WorkersKnown'
  BY <1>1, EnsureKeepsWorkers DEF Execute
<1>2. ASSUME NEW j \in Jobs, Flags(j) PROVE WorkersKnown'
  BY <1>2 DEF Flags, Raise, ParkedStop, ExecutorTypeOK
<1>3. ASSUME NEW j \in Jobs, Kills(j) PROVE WorkersKnown'
  BY <1>3, TerminateKeepsWorkers DEF Kills
<1>4. ASSUME Load PROVE WorkersKnown'
  BY <1>4, EnsureKeepsWorkers DEF Load
<1>5. ASSUME NEW w \in Workers, FactoryLoads(w) PROVE WorkersKnown'
  <2>1. CASE birth[w] = generation
    <3>1. phase'[w] = "starting" /\ \A v \in Workers : v # w => phase'[v] = phase[v]
      BY <1>5, <2>1 DEF FactoryLoads, IsWanted, ExecutorTypeOK
    <3>2. w = loading /\ current = 0 /\ current' = w /\ loading' = 0 /\ signal = 0
      BY <1>5, <2>1 DEF FactoryLoads, IsWanted
    <3>3. UNCHANGED <<generation, birth, channel, created, signal>>
      BY <1>5 DEF FactoryLoads
    <3>4. ASSUME NEW v \in Workers PROVE Known(v)'
      <4>1. Known(v) /\ birth'[v] = birth[v] /\ channel'[v] = channel[v]
        BY <3>3
      <4>2. CASE v = w
        BY <2>1, <3>1, <3>2, <3>3, <4>1, <4>2, <1>5 DEF FactoryLoads
      <4>3. CASE v # w
        BY <2>1, <3>1, <3>2, <3>3, <4>1, <4>3
      <4> QED
        BY <4>2, <4>3
    <3> QED
      BY <2>1, <3>1, <3>2, <3>3, <3>4
  <2>2. CASE birth[w] # generation
    <3>1. phase'[w] = "dead" /\ \A v \in Workers : v # w => phase'[v] = phase[v]
      BY <1>5, <2>2 DEF FactoryLoads, IsWanted, ExecutorTypeOK
    <3>2. UNCHANGED <<generation, birth, channel, created, signal, current, loading>>
      BY <1>5, <2>2 DEF FactoryLoads, IsWanted
    <3>3. phase[w] = "loading"
      BY <1>5 DEF FactoryLoads
    <3>4. ASSUME NEW v \in Workers PROVE Known(v)'
      BY <2>2, <3>1, <3>2, <3>3
    <3>5. loading # w /\ current # w
      BY <2>2, <3>3
    <3>6. loading # 0 => loading \in Workers
      BY DEF ExecutorTypeOK
    <3>7. current # 0 => current \in Workers
      BY DEF ExecutorTypeOK
    <3> QED
      BY <3>1, <3>2, <3>4, <3>5, <3>6, <3>7
  <2> QED
    BY <2>1, <2>2
<1>6. ASSUME NEW w \in Workers, FactoryFails(w) PROVE WorkersKnown'
  <2>1. phase'[w] = "dead" /\ \A v \in Workers : v # w => phase'[v] = phase[v]
    BY <1>6 DEF FactoryFails, ExecutorTypeOK
  <2>2. /\ UNCHANGED <<generation, birth, channel, created, signal, current>>
        /\ loading' = IF loading = w THEN 0 ELSE loading
    BY <1>6 DEF FactoryFails
  <2>3. phase[w] = "loading"
    BY <1>6 DEF FactoryFails
  <2>4. ASSUME NEW v \in Workers PROVE Known(v)'
    BY <2>1, <2>2, <2>3
  <2>5. loading # 0 => loading \in Workers
    BY DEF ExecutorTypeOK
  <2>6. current # 0 => current \in Workers /\ current # w
    BY <2>3 DEF ExecutorTypeOK
  <2> QED
    BY <2>1, <2>2, <2>4, <2>5, <2>6
<1>7. ASSUME NEW w \in Workers, Ignored(w) PROVE WorkersKnown'
  BY <1>7, Received DEF Ignored, Heeds, ExecutorTypeOK
<1>8. ASSUME NEW w \in Workers, SignalArrives(w) PROVE WorkersKnown'
  <2>1. Arrives(w, "signal") /\ birth[w] = generation /\ signal' = w
        /\ UNCHANGED <<phase, generation, birth, created, current, loading>>
    BY <1>8 DEF SignalArrives, Heeds
  <2>2. ASSUME NEW v \in Workers PROVE Known(v)'
    <3>1. channel[v] = <<>> => channel'[v] = <<>>
      BY <2>1, Received
    <3>2. channel'[v] # <<>> => channel[v] # <<>>
      BY <2>1, Received
    <3> QED
      BY <2>1, <3>1, <3>2
  <2>3. w = current
    BY <2>1, Received
  <2> QED
    BY <2>1, <2>2, <2>3
<1>9. ASSUME NEW w \in Workers, ReadyArrives(w) PROVE WorkersKnown'
  <2>1. (\E kind \in Kinds : Arrives(w, kind))
        /\ UNCHANGED <<phase, generation, birth, created, current, loading, signal>>
    BY <1>9 DEF ReadyArrives, Kinds
  <2>2. ASSUME NEW v \in Workers PROVE Known(v)'
    <3>1. channel[v] = <<>> => channel'[v] = <<>>
      BY <2>1, Received
    <3>2. channel'[v] # <<>> => channel[v] # <<>>
      BY <2>1, Received
    <3> QED
      BY <2>1, <3>1, <3>2
  <2> QED
    BY <2>1, <2>2
<1>10. ASSUME NEW w \in Workers, ResultArrives(w) PROVE WorkersKnown'
  <2>1. (\E kind \in Kinds : Arrives(w, kind))
        /\ UNCHANGED <<phase, generation, birth, created, current, loading, signal>>
    BY <1>10 DEF ResultArrives, Kinds
  <2>2. ASSUME NEW v \in Workers PROVE Known(v)'
    <3>1. channel[v] = <<>> => channel'[v] = <<>>
      BY <2>1, Received
    <3>2. channel'[v] # <<>> => channel[v] # <<>>
      BY <2>1, Received
    <3> QED
      BY <2>1, <3>1, <3>2
  <2> QED
    BY <2>1, <2>2
<1>11. ASSUME NEW w \in Workers, FailureArrives(w) PROVE WorkersKnown'
  <2>1. \A v \in Workers : channel[v] = <<>> => channel'[v] = <<>>
    BY <1>11, Received DEF FailureArrives
  <2> QED
    BY <1>11, <2>1, TerminateKeepsWorkers DEF FailureArrives
<1>12. ASSUME NEW w \in Workers, NEW j \in Jobs, NEW k \in Nat, EventArrives(w, j, k)
       PROVE WorkersKnown'
  <2>1. (\E kind \in Kinds : Arrives(w, kind))
        /\ UNCHANGED <<phase, generation, birth, created, current, loading, signal>>
    BY <1>12 DEF EventArrives, Kinds
  <2>2. ASSUME NEW v \in Workers PROVE Known(v)'
    <3>1. channel[v] = <<>> => channel'[v] = <<>>
      BY <2>1, Received
    <3>2. channel'[v] # <<>> => channel[v] # <<>>
      BY <2>1, Received
    <3> QED
      BY <2>1, <3>1, <3>2
  <2> QED
    BY <2>1, <2>2
<1>13. ASSUME NEW w \in Workers, Boot(w) PROVE WorkersKnown'
  <2>1. channel[w] = <<>> /\ w = current
    BY <1>13 DEF Boot
  <2>2. phase'[w] = "running" /\ \A v \in Workers : v # w => phase'[v] = phase[v]
    BY <1>13 DEF Boot, ExecutorTypeOK
  <2>3. \A v \in Workers : v # w => channel'[v] = channel[v]
    BY <1>13, <2>1, BootSends
  <2>4. UNCHANGED <<generation, birth, created, signal, current, loading>>
    BY <1>13 DEF Boot
  <2>5. phase[w] = "starting" /\ w # 0
    BY <1>13 DEF Boot
  <2>6. ASSUME NEW v \in Workers PROVE Known(v)'
    <3>1. CASE v = w
      BY <2>1, <2>2, <2>4, <2>5, <3>1
    <3>2. CASE v # w
      BY <2>2, <2>3, <2>4, <3>2
    <3> QED
      BY <3>1, <3>2
  <2> QED
    BY <2>1, <2>2, <2>4, <2>5, <2>6
<1>14. ASSUME NEW w \in Workers, Emit(w) PROVE WorkersKnown'
  <2>1. phase[w] = "running" /\ w = current
    BY <1>14 DEF Emit
  <2>2. UNCHANGED <<phase, generation, birth, created, signal, current, loading>>
    BY <1>14 DEF Emit
  <2>3. \A v \in Workers : v # w => channel'[v] = channel[v]
    BY <1>14, EmitSends DEF Sends
  <2>4. ASSUME NEW v \in Workers PROVE Known(v)'
    BY <2>1, <2>2, <2>3
  <2> QED
    BY <2>2, <2>4
<1>15. ASSUME NEW w \in Workers, Return(w) PROVE WorkersKnown'
  <2>1. phase[w] = "running" /\ w = current
    BY <1>15 DEF Return
  <2>2. UNCHANGED <<phase, generation, birth, created, signal, current, loading>>
    BY <1>15 DEF Return
  <2>3. \A v \in Workers : v # w => channel'[v] = channel[v]
    BY <1>15, ReturnSends DEF Sends
  <2>4. ASSUME NEW v \in Workers PROVE Known(v)'
    BY <2>1, <2>2, <2>3
  <2> QED
    BY <2>2, <2>4
<1>16. ASSUME NEW w \in Workers, Crash(w) PROVE WorkersKnown'
  <2>1. w = current
    BY <1>16 DEF Crash
  <2>2. phase'[w] = "dead" /\ \A v \in Workers : v # w => phase'[v] = phase[v]
    BY <1>16 DEF Crash, ExecutorTypeOK
  <2>3. \A v \in Workers : v # w => channel'[v] = channel[v]
    BY <1>16, CrashSends DEF Sends
  <2>4. UNCHANGED <<generation, birth, created, signal, current, loading>>
        /\ phase[w] \in {"starting", "running"}
    BY <1>16 DEF Crash
  <2>5. ASSUME NEW v \in Workers PROVE Known(v)'
    <3>1. CASE v = w
      BY <2>1, <2>2, <2>4, <3>1
    <3>2. CASE v # w
      BY <2>1, <2>2, <2>3, <2>4, <3>2
    <3> QED
      BY <3>1, <3>2
  <2> QED
    BY <2>1, <2>2, <2>4, <2>5
<1> QED
  BY <1>1, <1>2, <1>3, <1>4, <1>5, <1>6, <1>7, <1>8, <1>9, <1>10, <1>11, <1>12,
     <1>13, <1>14, <1>15, <1>16 DEF ExecutorNext

LEMMA StepReadyOnce ==
  ASSUME WorkerExecutorAssumption, ExecutorTypeOK, WorkersKnown, ReadyOnce,
     ExecutorNext
  PROVE  ReadyOnce'
<1> USE WorkerExecutorAssumption DEF WorkerExecutorAssumption, Jobs, Workers,
   manager_vars, thread_vars, job_vars, input_vars
<1>1. ASSUME NEW j \in Jobs, Execute(j) PROVE ReadyOnce'
  <2>1. UNCHANGED <<channel, ready, signal, generation>>
    BY <1>1 DEF Execute
  <2>2. ASSUME NEW v \in Workers, channel[v] # <<>>
        PROVE  birth'[v] = birth[v] /\ (phase[v] = "dead" => phase'[v] = "dead")
    BY <1>1, <2>2, EnsureEffect DEF Execute
  <2>3. ASSUME NEW v \in Workers, NEW i \in Messages(v)' PROVE Told(v, i)'
    <3>1. i \in Messages(v) /\ channel[v] # <<>>
      BY <2>1 DEF Messages, ExecutorTypeOK
    <3>2. Told(v, i)
      BY <3>1 DEF ReadyOnce
    <3>3. birth'[v] = birth[v] /\ (phase[v] = "dead" => phase'[v] = "dead")
      BY <3>1, <2>2
    <3> QED
      BY <2>1, <3>2, <3>3 DEF Told
  <2> QED
    <3>1. current' = current
      BY <1>1 DEF Execute
    <3>2. current # 0 => phase' = phase
      BY <1>1 DEF Execute, EnsureWorker
    <3> QED
      BY <2>1, <2>3, <3>1, <3>2 DEF ReadyOnce
<1>2. ASSUME NEW j \in Jobs, Flags(j) PROVE ReadyOnce'
  BY <1>2 DEF Flags, Raise, ReadyOnce, Told, Messages
<1>3. ASSUME NEW j \in Jobs, Kills(j) PROVE ReadyOnce'
  <2>1. ready' = FALSE /\ \A v \in Workers : birth'[v] # generation'
    <3>1. \A v \in Workers : channel[v] = <<>> => channel'[v] = <<>>
      BY <1>3, Received DEF Kills
    <3> QED
      BY <1>3, <3>1, TerminateKeepsWorkers DEF Kills, Terminate
  <2>2. ASSUME NEW v \in Workers, NEW i \in Messages(v)' PROVE Told(v, i)'
    <3>1. PICK k \in Messages(v) : channel'[v][i] = channel[v][k]
      BY <1>3 DEF Kills, Messages
    <3>2. Told(v, k)
      BY DEF ReadyOnce
    <3>3. phase[v] = "dead" => phase'[v] = "dead"
      BY <1>3 DEF Kills, Terminate
    <3> QED
      BY <2>1, <3>1, <3>2, <3>3 DEF Told
  <2> QED
    BY <2>1, <2>2 DEF ReadyOnce
<1>4. ASSUME Load PROVE ReadyOnce'
  <2>1. UNCHANGED <<channel, ready, signal, generation>>
    BY <1>4 DEF Load
  <2>2. ASSUME NEW v \in Workers, channel[v] # <<>>
        PROVE  birth'[v] = birth[v] /\ (phase[v] = "dead" => phase'[v] = "dead")
    BY <1>4, <2>2, EnsureEffect DEF Load
  <2>3. ASSUME NEW v \in Workers, NEW i \in Messages(v)' PROVE Told(v, i)'
    <3>1. i \in Messages(v) /\ channel[v] # <<>>
      BY <2>1 DEF Messages, ExecutorTypeOK
    <3>2. Told(v, i)
      BY <3>1 DEF ReadyOnce
    <3>3. birth'[v] = birth[v] /\ (phase[v] = "dead" => phase'[v] = "dead")
      BY <3>1, <2>2
    <3> QED
      BY <2>1, <3>2, <3>3 DEF Told
  <2> QED
    <3>1. current' = current
      BY <1>4 DEF Load
    <3>2. current # 0 => phase' = phase
      BY <1>4 DEF Load, EnsureWorker
    <3> QED
      BY <2>1, <2>3, <3>1, <3>2 DEF ReadyOnce
<1>5. ASSUME NEW w \in Workers, FactoryLoads(w) PROVE ReadyOnce'
  <2>1. UNCHANGED <<channel, ready, signal, generation>>
    BY <1>5 DEF FactoryLoads
  <2>2. ASSUME NEW v \in Workers, channel[v] # <<>>
        PROVE  birth'[v] = birth[v] /\ (phase[v] = "dead" => phase'[v] = "dead")
    BY <1>5 DEF FactoryLoads, ExecutorTypeOK
  <2>3. ASSUME NEW v \in Workers, NEW i \in Messages(v)' PROVE Told(v, i)'
    <3>1. i \in Messages(v) /\ channel[v] # <<>>
      BY <2>1 DEF Messages, ExecutorTypeOK
    <3>2. Told(v, i)
      BY <3>1 DEF ReadyOnce
    <3>3. birth'[v] = birth[v] /\ (phase[v] = "dead" => phase'[v] = "dead")
      BY <3>1, <2>2
    <3> QED
      BY <2>1, <3>2, <3>3 DEF Told
  <2> QED
    <3>1. phase[w] = "loading" /\ \A v \in Workers : v # w => phase'[v] = phase[v]
      BY <1>5 DEF FactoryLoads, ExecutorTypeOK
    <3>2. CASE birth[w] = generation
      <4>1. current = 0
        BY <3>1, <3>2 DEF WorkersKnown, Known
      <4>2. ~ready'
        BY <2>1, <4>1 DEF ReadyOnce
      <4> QED
        BY <2>3, <4>2 DEF ReadyOnce
    <3>3. CASE birth[w] # generation
      <4>1. current' = current /\ w # current
        BY <1>5, <3>1, <3>3 DEF FactoryLoads, IsWanted, WorkersKnown
      <4>2. ready' => signal' = current' /\ current' # 0 /\ phase'[current'] # "starting"
        <5>1. current # 0 => current \in Workers
          BY DEF ExecutorTypeOK
        <5> QED
          BY <2>1, <3>1, <4>1, <5>1 DEF ReadyOnce
      <4> QED
        BY <2>3, <4>2 DEF ReadyOnce
    <3> QED
      BY <3>2, <3>3
<1>6. ASSUME NEW w \in Workers, FactoryFails(w) PROVE ReadyOnce'
  <2>1. UNCHANGED <<channel, ready, signal, generation>>
    BY <1>6 DEF FactoryFails
  <2>2. ASSUME NEW v \in Workers, channel[v] # <<>>
        PROVE  birth'[v] = birth[v] /\ (phase[v] = "dead" => phase'[v] = "dead")
    BY <1>6 DEF FactoryFails, ExecutorTypeOK
  <2>3. ASSUME NEW v \in Workers, NEW i \in Messages(v)' PROVE Told(v, i)'
    <3>1. i \in Messages(v) /\ channel[v] # <<>>
      BY <2>1 DEF Messages, ExecutorTypeOK
    <3>2. Told(v, i)
      BY <3>1 DEF ReadyOnce
    <3>3. birth'[v] = birth[v] /\ (phase[v] = "dead" => phase'[v] = "dead")
      BY <3>1, <2>2
    <3> QED
      BY <2>1, <3>2, <3>3 DEF Told
  <2> QED
    <3>1. phase[w] = "loading" /\ \A v \in Workers : v # w => phase'[v] = phase[v]
      BY <1>6 DEF FactoryFails, ExecutorTypeOK
    <3>2. current' = current /\ w # current
      BY <1>6, <3>1 DEF FactoryFails, WorkersKnown
    <3>3. ready' => signal' = current' /\ current' # 0 /\ phase'[current'] # "starting"
      <4>1. current # 0 => current \in Workers
        BY DEF ExecutorTypeOK
      <4> QED
        BY <2>1, <3>1, <3>2, <4>1 DEF ReadyOnce
    <3> QED
      BY <2>3, <3>3 DEF ReadyOnce
<1>7. ASSUME NEW w \in Workers, Ignored(w) PROVE ReadyOnce'
  <2>1. UNCHANGED <<ready, signal, generation, birth, phase, current>>
        /\ \E kind \in Kinds :
             /\ Arrives(w, kind)
             /\ (kind # "signal" /\ kind # "ready") \/ birth[w] # generation
    BY <1>7 DEF Ignored, Heeds, Kinds
  <2>2. PICK kind \in Kinds :
          /\ Arrives(w, kind)
          /\ (kind # "signal" /\ kind # "ready") \/ birth[w] # generation
    BY <2>1
  <2>3. channel[w][1].kind = kind
    BY <2>2, Received
  <2>4. ASSUME NEW v \in Workers, NEW i \in Messages(v)' PROVE Told(v, i)'
    <3>1. CASE v # w
      BY <2>1, <2>2, <3>1, Remaining DEF ReadyOnce, Told
    <3>2. CASE v = w
      <4>1. i \in Nat \ {0} /\ i + 1 \in Messages(w) /\ channel'[w][i] = channel[w][i + 1]
        BY <2>2, <3>2, Remaining
      <4>2. Told(w, i + 1)
        BY <4>1 DEF ReadyOnce
      <4> QED
        BY <2>1, <2>2, <2>3, <3>2, <4>1, <4>2 DEF Told
    <3> QED
      BY <3>1, <3>2
  <2> QED
    BY <2>1, <2>4 DEF ReadyOnce
<1>8. ASSUME NEW w \in Workers, SignalArrives(w) PROVE ReadyOnce'
  <2>1. UNCHANGED <<ready, generation, birth, phase, current>> /\ signal' = w
        /\ birth[w] = generation /\ Arrives(w, "signal")
    BY <1>8 DEF SignalArrives, Heeds
  <2>2. w = current
    BY <2>1 DEF Arrives, WorkersKnown, Known
  <2>3. ASSUME NEW v \in Workers, NEW i \in Messages(v)' PROVE Told(v, i)'
    <3>1. CASE v # w
      <4>1. i \in Messages(v) /\ channel'[v] = channel[v] /\ channel[v] # <<>>
        BY <2>1, <3>1, Remaining
      <4>2. Told(v, i) /\ birth[v] # generation
        BY <2>2, <3>1, <4>1 DEF ReadyOnce, WorkersKnown, Known
      <4> QED
        BY <2>1, <4>1, <4>2 DEF Told
    <3>2. CASE v = w
      <4>1. i \in Nat \ {0} /\ i + 1 \in Messages(w) /\ channel'[w][i] = channel[w][i + 1]
        BY <2>1, <3>2, Remaining
      <4>2. Told(w, i + 1)
        BY <4>1 DEF ReadyOnce
      <4> QED
        BY <2>1, <3>2, <4>1, <4>2 DEF Told
    <3> QED
      BY <3>1, <3>2
  <2> QED
    BY <2>1, <2>2, <2>3 DEF ReadyOnce
<1>9. ASSUME NEW w \in Workers, ReadyArrives(w) PROVE ReadyOnce'
  <2>1. UNCHANGED <<signal, generation, birth, phase, current>> /\ ready' = TRUE
        /\ birth[w] = generation /\ Arrives(w, "ready")
    BY <1>9 DEF ReadyArrives, Heeds
  <2>2. channel[w] # <<>> /\ 1 \in Messages(w) /\ channel[w][1].kind = "ready"
    BY <2>1, Received
  <2>3. w = current /\ signal = w /\ phase[w] # "starting"
    BY <2>1, <2>2 DEF WorkersKnown, Known, ReadyOnce, Told
  <2>4. ASSUME NEW v \in Workers, NEW i \in Messages(v)' PROVE Told(v, i)'
    <3>1. CASE v # w
      <4>1. i \in Messages(v) /\ channel'[v] = channel[v] /\ channel[v] # <<>>
        BY <2>1, <3>1, Remaining
      <4>2. Told(v, i) /\ birth[v] # generation
        BY <2>3, <3>1, <4>1 DEF ReadyOnce, WorkersKnown, Known
      <4> QED
        BY <2>1, <4>1, <4>2 DEF Told
    <3>2. CASE v = w
      <4>1. i \in Nat \ {0} /\ i + 1 \in Messages(w) /\ channel'[w][i] = channel[w][i + 1]
        BY <2>1, <3>2, Remaining
      <4>2. Told(w, i + 1)
        BY <4>1 DEF ReadyOnce
      <4> QED
        BY <2>1, <2>2, <3>2, <4>1, <4>2 DEF Told
    <3> QED
      BY <3>1, <3>2
  <2> QED
    BY <2>1, <2>3, <2>4 DEF ReadyOnce
<1>10. ASSUME NEW w \in Workers, ResultArrives(w) PROVE ReadyOnce'
  <2>1. UNCHANGED <<ready, signal, generation, birth, phase, current>>
        /\ \E kind \in Kinds :
             /\ Arrives(w, kind)
             /\ (kind # "signal" /\ kind # "ready") \/ birth[w] # generation
    BY <1>10 DEF ResultArrives, Heeds, Kinds
  <2>2. PICK kind \in Kinds :
          /\ Arrives(w, kind)
          /\ (kind # "signal" /\ kind # "ready") \/ birth[w] # generation
    BY <2>1
  <2>3. channel[w][1].kind = kind
    BY <2>2, Received
  <2>4. ASSUME NEW v \in Workers, NEW i \in Messages(v)' PROVE Told(v, i)'
    <3>1. CASE v # w
      BY <2>1, <2>2, <3>1, Remaining DEF ReadyOnce, Told
    <3>2. CASE v = w
      <4>1. i \in Nat \ {0} /\ i + 1 \in Messages(w) /\ channel'[w][i] = channel[w][i + 1]
        BY <2>2, <3>2, Remaining
      <4>2. Told(w, i + 1)
        BY <4>1 DEF ReadyOnce
      <4> QED
        BY <2>1, <2>2, <2>3, <3>2, <4>1, <4>2 DEF Told
    <3> QED
      BY <3>1, <3>2
  <2> QED
    BY <2>1, <2>4 DEF ReadyOnce
<1>11. ASSUME NEW w \in Workers, FailureArrives(w) PROVE ReadyOnce'
  <2>1. ready' = FALSE /\ \A v \in Workers : birth'[v] # generation'
    <3>1. \A v \in Workers : channel[v] = <<>> => channel'[v] = <<>>
      BY <1>11, Received DEF FailureArrives
    <3> QED
      BY <1>11, <3>1, TerminateKeepsWorkers DEF FailureArrives, Terminate
  <2>2. ASSUME NEW v \in Workers, NEW i \in Messages(v)' PROVE Told(v, i)'
    <3>1. PICK k \in Messages(v) : channel'[v][i] = channel[v][k]
      BY <1>11, Shifted DEF FailureArrives
    <3>2. Told(v, k)
      BY DEF ReadyOnce
    <3>3. phase[v] = "dead" => phase'[v] = "dead"
      BY <1>11 DEF FailureArrives, Terminate
    <3> QED
      BY <2>1, <3>1, <3>2, <3>3 DEF Told
  <2> QED
    BY <2>1, <2>2 DEF ReadyOnce
<1>12. ASSUME NEW w \in Workers, NEW j \in Jobs, NEW k \in Nat, EventArrives(w, j, k)
       PROVE ReadyOnce'
  <2>1. UNCHANGED <<ready, signal, generation, birth, phase, current>>
        /\ \E kind \in Kinds :
             /\ Arrives(w, kind)
             /\ (kind # "signal" /\ kind # "ready") \/ birth[w] # generation
    BY <1>12 DEF EventArrives, Heeds, Kinds
  <2>2. PICK kind \in Kinds :
          /\ Arrives(w, kind)
          /\ (kind # "signal" /\ kind # "ready") \/ birth[w] # generation
    BY <2>1
  <2>3. channel[w][1].kind = kind
    BY <2>2, Received
  <2>4. ASSUME NEW v \in Workers, NEW i \in Messages(v)' PROVE Told(v, i)'
    <3>1. CASE v # w
      BY <2>1, <2>2, <3>1, Remaining DEF ReadyOnce, Told
    <3>2. CASE v = w
      <4>1. i \in Nat \ {0} /\ i + 1 \in Messages(w) /\ channel'[w][i] = channel[w][i + 1]
        BY <2>2, <3>2, Remaining
      <4>2. Told(w, i + 1)
        BY <4>1 DEF ReadyOnce
      <4> QED
        BY <2>1, <2>2, <2>3, <3>2, <4>1, <4>2 DEF Told
    <3> QED
      BY <3>1, <3>2
  <2> QED
    BY <2>1, <2>4 DEF ReadyOnce
<1>13. ASSUME NEW w \in Workers, Boot(w) PROVE ReadyOnce'
  <2>1. channel[w] = <<>> /\ w = current /\ w # 0 /\ ~ready
    BY <1>13 DEF Boot, WorkersKnown, Known, ReadyOnce
  <2>2. UNCHANGED <<ready, signal, current, generation, birth>>
    BY <1>13 DEF Boot
  <2>3. \A v \in Workers : v # w => phase'[v] = phase[v] /\ channel'[v] = channel[v]
    BY <1>13, <2>1, BootSends DEF Boot, ExecutorTypeOK
  <2>4. Len(channel'[w]) = 2 /\ channel'[w][1].kind = "signal" /\ channel'[w][2].kind = "ready"
    BY <1>13, <2>1, BootSends
  <2>5. ASSUME NEW v \in Workers, NEW i \in Messages(v)' PROVE Told(v, i)'
    <3>1. CASE v # w
      <4>1. i \in Messages(v) /\ channel'[v] = channel[v] /\ phase'[v] = phase[v]
        BY <2>3, <3>1 DEF Messages
      <4>2. Told(v, i)
        BY <4>1 DEF ReadyOnce
      <4> QED
        BY <2>2, <4>1, <4>2 DEF Told
    <3>2. CASE v = w
      <4>1. i \in 1..2
        BY <2>4, <3>2 DEF Messages
      <4> QED
        BY <2>1, <2>2, <2>4, <3>2, <4>1 DEF Told
    <3> QED
      BY <3>1, <3>2
  <2> QED
    BY <2>1, <2>2, <2>5 DEF ReadyOnce
<1>14. ASSUME NEW w \in Workers, Emit(w) PROVE ReadyOnce'
  <2>1. PICK m : Sends(w, m) /\ m.kind \in {"event"}
    BY <1>14, EmitSends
  <2>2. UNCHANGED <<ready, signal, current, generation, birth>> /\ w = current
    BY <1>14 DEF Emit, WorkersKnown, Known
  <2>3. \A v \in Workers : phase[v] = "dead" => phase'[v] = "dead"
    BY <1>14 DEF Emit, ExecutorTypeOK
  <2>4. phase'[w] # "starting" /\ ("failed" \in {"event"} => phase'[w] = "dead")
    BY <1>14 DEF Emit, ExecutorTypeOK
  <2>5. ASSUME NEW v \in Workers, NEW i \in Messages(v)' PROVE Told(v, i)'
    <3>1. CASE i \in Messages(v) /\ channel'[v][i] = channel[v][i]
               /\ (1 \in Messages(v) => channel'[v][1] = channel[v][1])
      <4>1. 1 \in Messages(v)
        BY <3>1 DEF Messages
      <4> QED
        BY <2>2, <2>3, <3>1, <4>1 DEF ReadyOnce, Told
    <3>2. CASE v = w /\ channel'[v][i] = m
      BY <2>1, <2>4, <3>2 DEF Told
    <3> QED
      BY <2>1, <3>1, <3>2, SentOrThere
  <2> QED
    BY <2>2, <2>4, <2>5 DEF ReadyOnce
<1>15. ASSUME NEW w \in Workers, Return(w) PROVE ReadyOnce'
  <2>1. PICK m : Sends(w, m) /\ m.kind \in {"ok", "error"}
    BY <1>15, ReturnSends
  <2>2. UNCHANGED <<ready, signal, current, generation, birth>> /\ w = current
    BY <1>15 DEF Return, WorkersKnown, Known
  <2>3. \A v \in Workers : phase[v] = "dead" => phase'[v] = "dead"
    BY <1>15 DEF Return, ExecutorTypeOK
  <2>4. phase'[w] # "starting" /\ ("failed" \in {"ok", "error"} => phase'[w] = "dead")
    BY <1>15 DEF Return, ExecutorTypeOK
  <2>5. ASSUME NEW v \in Workers, NEW i \in Messages(v)' PROVE Told(v, i)'
    <3>1. CASE i \in Messages(v) /\ channel'[v][i] = channel[v][i]
               /\ (1 \in Messages(v) => channel'[v][1] = channel[v][1])
      <4>1. 1 \in Messages(v)
        BY <3>1 DEF Messages
      <4> QED
        BY <2>2, <2>3, <3>1, <4>1 DEF ReadyOnce, Told
    <3>2. CASE v = w /\ channel'[v][i] = m
      BY <2>1, <2>4, <3>2 DEF Told
    <3> QED
      BY <2>1, <3>1, <3>2, SentOrThere
  <2> QED
    BY <2>2, <2>4, <2>5 DEF ReadyOnce
<1>16. ASSUME NEW w \in Workers, Crash(w) PROVE ReadyOnce'
  <2>1. PICK m : Sends(w, m) /\ m.kind \in {"failed"}
    BY <1>16, CrashSends
  <2>2. UNCHANGED <<ready, signal, current, generation, birth>> /\ w = current
    BY <1>16 DEF Crash, WorkersKnown, Known
  <2>3. \A v \in Workers : phase[v] = "dead" => phase'[v] = "dead"
    BY <1>16 DEF Crash, ExecutorTypeOK
  <2>4. phase'[w] # "starting" /\ ("failed" \in {"failed"} => phase'[w] = "dead")
    BY <1>16 DEF Crash, ExecutorTypeOK
  <2>5. ASSUME NEW v \in Workers, NEW i \in Messages(v)' PROVE Told(v, i)'
    <3>1. CASE i \in Messages(v) /\ channel'[v][i] = channel[v][i]
               /\ (1 \in Messages(v) => channel'[v][1] = channel[v][1])
      <4>1. 1 \in Messages(v)
        BY <3>1 DEF Messages
      <4> QED
        BY <2>2, <2>3, <3>1, <4>1 DEF ReadyOnce, Told
    <3>2. CASE v = w /\ channel'[v][i] = m
      BY <2>1, <2>4, <3>2 DEF Told
    <3> QED
      BY <2>1, <3>1, <3>2, SentOrThere
  <2> QED
    BY <2>2, <2>4, <2>5 DEF ReadyOnce
<1> QED
  BY <1>1, <1>2, <1>3, <1>4, <1>5, <1>6, <1>7, <1>8, <1>9, <1>10, <1>11, <1>12,
     <1>13, <1>14, <1>15, <1>16 DEF ExecutorNext

\* What becomes of the job that is dispatched.
LEMMA EndEffect ==
  ASSUME ExecutorTypeOK, NEW j \in Jobs, NEW value \in {"ok", "error", "cancelled"},
         End(j, value)
  PROVE  /\ active' = 0 /\ target' = 0
         /\ place'[j] = "over" /\ result'[j] \in {value, "cancelled"}
         /\ \A i \in Jobs \ {j} : place'[i] = place[i] /\ result'[i] = result[i]
BY DEF End, ExecutorTypeOK

LEMMA DispatchEffect ==
  ASSUME ExecutorTypeOK, NEW j \in Jobs, NEW w \in Workers, Dispatch(j, w)
  PROVE  /\ \A v \in Workers \ {w} : task'[v] = task[v] /\ flag'[v] = flag[v]
         /\ \A i \in Jobs \ {j} : place'[i] = place[i] /\ result'[i] = result[i]
         /\ \/ /\ KnowsSession(j) /\ j \notin cancelled
               /\ task'[w] = j /\ place'[j] = "posted"
               /\ active' = j /\ target' = w /\ result' = result
            \/ /\ task'[w] = task[w] /\ place'[j] = "over"
               /\ active' = 0 /\ target' = 0 /\ result'[j] \in {"error", "cancelled"}
         /\ stop # 0 => flag'[w] = stop
         /\ stop = 0 => flag'[w] \in {0, flag[w]}
         /\ stop = 0 /\ KnowsSession(j) => flag'[w] = 0
         /\ runtime' = IF j = 1 THEN generation ELSE runtime
<1>1. /\ stop # 0 => flag'[w] = stop
      /\ stop = 0 => flag'[w] \in {0, flag[w]}
      /\ stop = 0 /\ KnowsSession(j) => flag'[w] = 0
      /\ \A v \in Workers \ {w} : flag'[v] = flag[v]
  <2>1. PICK f : /\ flag' = [flag EXCEPT ![w] = f]
                 /\ stop # 0 => f = stop
                 /\ stop = 0 => f \in {0, flag[w]}
                 /\ stop = 0 /\ KnowsSession(j) => f = 0
    BY DEF Dispatch, ClearedFlag
  <2> QED
    BY <2>1 DEF ExecutorTypeOK
<1>2. CASE KnowsSession(j) /\ j \notin cancelled
  <2>1. /\ task' = [task EXCEPT ![w] = j] /\ place' = [place EXCEPT ![j] = "posted"]
        /\ active' = j /\ target' = w /\ result' = result
        /\ runtime' = IF j = 1 THEN generation ELSE runtime
    BY <1>2 DEF Dispatch
  <2>2. /\ task'[w] = j /\ \A v \in Workers \ {w} : task'[v] = task[v]
        /\ place'[j] = "posted" /\ \A i \in Jobs \ {j} : place'[i] = place[i]
    BY <2>1 DEF ExecutorTypeOK
  <2> QED
    BY <1>1, <1>2, <2>1, <2>2
<1>3. CASE ~(KnowsSession(j) /\ j \notin cancelled)
  <2>1. End(j, "error") /\ task' = task /\ runtime' = IF j = 1 THEN generation ELSE runtime
    BY <1>3 DEF Dispatch
  <2> QED
    BY <1>1, <2>1, EndEffect
<1> QED
  BY <1>2, <1>3

\* What becomes of the job that waits at a worker.
LEMMA RejectEffect ==
  ASSUME WorkerExecutorAssumption, ExecutorTypeOK, NEW w,
         NEW value \in {"error", "cancelled"}, Reject(w, value)
  PROVE  \/ /\ active = 0 \/ target # w
            /\ UNCHANGED <<result, place, active, target>>
         \/ /\ active \in Jobs /\ target = w
            /\ active' = 0 /\ target' = 0
            /\ place'[active] = "over" /\ result'[active] \in {"error", "cancelled"}
            /\ \A i \in Jobs \ {active} : place'[i] = place[i] /\ result'[i] = result[i]
<1>1. CASE active # 0 /\ target = w
  <2>1. active \in Jobs /\ End(active, value)
    BY <1>1 DEF Reject, ExecutorTypeOK, Jobs, WorkerExecutorAssumption
  <2> QED
    BY <1>1, <2>1, EndEffect
<1>2. CASE ~(active # 0 /\ target = w)
  BY <1>2 DEF Reject
<1> QED
  BY <1>1, <1>2

LEMMA TerminateEffect ==
  ASSUME NEW value, Terminate(value)
  PROVE  /\ generation' = generation + 1 /\ birth' = birth
         /\ current' = 0 /\ loading' = 0 /\ ready' = FALSE /\ signal' = 0 /\ stop' = 0
         /\ \A v \in Workers : v # current =>
              phase'[v] = phase[v] /\ task'[v] = task[v] /\ flag'[v] = flag[v]
         /\ \A v \in Workers : v = current => phase'[v] = "dead" /\ task'[v] = 0 /\ flag'[v] = 0
         /\ UNCHANGED <<home, emitted, runtime, users, stopsBy>>
BY DEF Terminate, input_vars

LEMMA StepOneJob ==
  ASSUME WorkerExecutorAssumption, ExecutorTypeOK, WorkersKnown, ReadyOnce, OneJob,
     AnswersKnown, ExecutorNext
  PROVE  OneJob'
<1> USE WorkerExecutorAssumption DEF WorkerExecutorAssumption, Jobs, Workers,
   manager_vars, thread_vars, job_vars, input_vars
<1>1. ASSUME NEW j \in Jobs, Execute(j) PROVE OneJob'
  <2>1. active = 0 /\ target = 0 /\ \A v \in Workers : task[v] = 0
    BY <1>1 DEF Execute, OneJob
  <2>2. CASE ready
    <3>1. current \in Workers /\ Dispatch(j, current) /\ UNCHANGED <<ready, current>>
      BY <1>1, <2>2 DEF Execute, ReadyOnce, ExecutorTypeOK
    <3>2. \A i \in Jobs : place[i] \notin {"parked", "posted"}
      BY <2>1 DEF OneJob
    <3> QED
      BY <2>1, <2>2, <3>1, <3>2, DispatchEffect DEF OneJob
  <2>3. CASE ~ready
    <3>1. /\ place' = [place EXCEPT ![j] = "parked"] /\ active' = j
          /\ target' = (IF current # 0 THEN current ELSE loading')
          /\ UNCHANGED <<ready, current, task>>
      BY <1>1, <2>3 DEF Execute
    <3>2. current = 0 => loading' # 0
      <4>1. current = 0 => (loading' = loading /\ loading # 0) \/ loading' = created + 1
        BY <1>1, EnsureEffect DEF Execute
      <4> QED
        BY <4>1 DEF ExecutorTypeOK
    <3>3. place'[j] = "parked" /\ \A i \in Jobs \ {j} : place'[i] = place[i]
      BY <3>1 DEF ExecutorTypeOK
    <3>4. \A i \in Jobs : place[i] \notin {"parked", "posted"}
      BY <2>1 DEF OneJob
    <3> QED
      BY <2>1, <2>3, <3>1, <3>2, <3>3, <3>4 DEF OneJob
  <2> QED
    BY <2>2, <2>3
<1>2. ASSUME NEW j \in Jobs, Flags(j) PROVE OneJob'
  BY <1>2 DEF Flags, Raise, ParkedStop, OneJob
<1>3. ASSUME NEW j \in Jobs, Kills(j) PROVE OneJob'
  <2>1. Terminate("cancelled") /\ Reject(current, "cancelled") /\ active = j
        /\ j \in cancelled' /\ stopsBy[j] = "termination"
    BY <1>3 DEF Kills, Terminate
  <2>2. CASE active = 0 \/ target # current
    <3>1. UNCHANGED <<result, place, active, target>>
      BY <2>1, <2>2, RejectEffect
    <3>2. target \in Workers /\ phase[target] = "loading"
      BY <2>1, <2>2 DEF OneJob, WorkersKnown, ExecutorTypeOK
    <3>3. place[j] # "posted"
      BY <2>1, <2>2 DEF OneJob
    <3>4. birth'[target] # generation'
      BY <1>3, <3>2, TerminateKeepsWorkers DEF Kills
    <3>5. phase'[target] = "loading"
      <4>1. target # current
        BY <2>1, <2>2
      <4> QED
        BY <2>1, <3>2, <4>1, TerminateEffect
    <3>6. \A v \in Workers : task'[v] = 0
      BY <2>1, TerminateEffect DEF OneJob
    <3> QED
      BY <2>1, <3>1, <3>3, <3>4, <3>5, <3>6, TerminateEffect DEF OneJob
  <2>3. CASE active # 0 /\ target = current
    <3>1. \A v \in Workers : task'[v] = 0
      BY <2>1, TerminateEffect DEF OneJob
    <3> QED
      BY <2>1, <2>3, <3>1, RejectEffect DEF OneJob
  <2> QED
    BY <2>2, <2>3
<1>4. ASSUME Load PROVE OneJob'
  <2>1. current = 0 /\ loading = 0 /\ ~ready
    BY <1>4 DEF Load, ReadyOnce
  <2>2. active # 0 => target \in Workers /\ phase[target] = "loading"
    BY <2>1 DEF OneJob, ExecutorTypeOK
  <2>3. active # 0 => target # created + 1
    BY <2>2 DEF WorkersKnown, Known, ExecutorTypeOK
  <2>4. active # 0 => birth'[target] = birth[target] /\ phase'[target] = phase[target]
    BY <1>4, <2>2, <2>3, EnsureEffect DEF Load
  <2>5. UNCHANGED <<active, target, place, task, ready, current, stopsBy, cancelled, generation>>
    BY <1>4 DEF Load
  <2> QED
    BY <2>1, <2>2, <2>4, <2>5 DEF OneJob
<1>5. ASSUME NEW w \in Workers, FactoryLoads(w) PROVE OneJob'
  <2>1. phase[w] = "loading" /\ UNCHANGED <<ready, task, stopsBy, cancelled, birth, generation>>
    BY <1>5 DEF FactoryLoads
  <2>2. \A v \in Workers \ {w} : phase'[v] = phase[v]
    BY <1>5 DEF FactoryLoads, ExecutorTypeOK
  <2>3. CASE birth[w] = generation
    <3>1. w = loading /\ current = 0 /\ ~ready /\ current' = w /\ loading' = 0
          /\ UNCHANGED <<active, target, place>>
      BY <1>5, <2>1, <2>3 DEF FactoryLoads, IsWanted, WorkersKnown, Known, ReadyOnce
    <3>2. active # 0 /\ target # w => phase'[target] = phase[target]
      <4>1. active # 0 => target \in Workers
        BY DEF OneJob, ExecutorTypeOK
      <4> QED
        BY <2>2, <4>1
    <3> QED
      BY <2>1, <2>3, <3>1, <3>2 DEF OneJob, ExecutorTypeOK
  <2>4. CASE birth[w] # generation
    <3>1. loading # w /\ current # w /\ UNCHANGED <<current, loading>> /\ Reject(w, "error")
      BY <1>5, <2>1, <2>4 DEF FactoryLoads, IsWanted, WorkersKnown
    <3>2. active # 0 /\ target # w => phase'[target] = phase[target]
      <4>1. active # 0 => target \in Workers
        BY DEF OneJob, ExecutorTypeOK
      <4> QED
        BY <2>2, <4>1
    <3>3. CASE active = 0 \/ target # w
      BY <2>1, <3>1, <3>2, <3>3, RejectEffect DEF OneJob
    <3>4. CASE active # 0 /\ target = w
      BY <2>1, <3>1, <3>4, RejectEffect DEF OneJob
    <3> QED
      BY <3>3, <3>4
  <2> QED
    BY <2>3, <2>4
<1>6. ASSUME NEW w \in Workers, FactoryFails(w) PROVE OneJob'
  <2>1. phase[w] = "loading" /\ UNCHANGED <<ready, task, stopsBy, cancelled, birth, generation>>
        /\ UNCHANGED current /\ loading' = (IF loading = w THEN 0 ELSE loading)
        /\ Reject(w, "error")
    BY <1>6 DEF FactoryFails
  <2>2. \A v \in Workers \ {w} : phase'[v] = phase[v]
    BY <1>6 DEF FactoryFails, ExecutorTypeOK
  <2>3. current # w
    BY <2>1 DEF WorkersKnown
  <2>4. active # 0 /\ target # w => phase'[target] = phase[target]
    <3>1. active # 0 => target \in Workers
      BY DEF OneJob, ExecutorTypeOK
    <3> QED
      BY <2>2, <3>1
  <2>5. CASE active = 0 \/ target # w
    BY <2>1, <2>3, <2>4, <2>5, RejectEffect DEF OneJob
  <2>6. CASE active # 0 /\ target = w
    BY <2>1, <2>3, <2>6, RejectEffect DEF OneJob
  <2> QED
    BY <2>5, <2>6
<1>7. ASSUME NEW w \in Workers, Ignored(w) PROVE OneJob'
  BY <1>7, Received DEF Ignored, Heeds, OneJob
<1>8. ASSUME NEW w \in Workers, SignalArrives(w) PROVE OneJob'
  BY <1>8, Received DEF SignalArrives, Heeds, OneJob
<1>9. ASSUME NEW w \in Workers, ReadyArrives(w) PROVE OneJob'
  <2>1. Arrives(w, "ready") /\ birth[w] = generation /\ ready' = TRUE
        /\ UNCHANGED <<current, loading, phase, birth, generation, stopsBy, cancelled>>
    BY <1>9 DEF ReadyArrives, Heeds
  <2>2. w = current /\ w # 0 /\ ~ready
    <3>1. channel[w] # <<>> /\ 1 \in Messages(w) /\ channel[w][1].kind = "ready"
      BY <2>1, Received
    <3> QED
      BY <2>1, <3>1 DEF WorkersKnown, Known, ReadyOnce, Told
  <2>3. \A v \in Workers : task[v] = 0
    BY <2>2 DEF OneJob
  <2>4. CASE active # 0 /\ target = w
    <3>1. active \in Jobs /\ Dispatch(active, w)
      BY <1>9, <2>4 DEF ReadyArrives, ExecutorTypeOK
    <3>2. \A i \in Jobs \ {active} : place'[i] \notin {"parked", "posted"}
      <4>1. \A i \in Jobs \ {active} : place'[i] = place[i]
        BY <3>1, DispatchEffect
      <4> QED
        BY <4>1 DEF OneJob
    <3>3. \A v \in Workers \ {w} : task'[v] = 0
      BY <2>3, <3>1, DispatchEffect
    <3>4. \/ /\ task'[w] = active /\ place'[active] = "posted"
             /\ active' = active /\ target' = w
          \/ task'[w] = 0 /\ place'[active] = "over" /\ active' = 0 /\ target' = 0
      BY <2>3, <3>1, DispatchEffect
    <3> QED
      BY <2>1, <2>2, <2>4, <3>1, <3>2, <3>3, <3>4 DEF OneJob
  <2>5. CASE ~(active # 0 /\ target = w)
    <3>1. UNCHANGED <<task, place, active, target>>
      BY <1>9, <2>5 DEF ReadyArrives
    <3>2. active # 0 => target # loading /\ target # current /\ place[active] # "posted"
      BY <2>2, <2>5 DEF OneJob, WorkersKnown
    <3> QED
      BY <2>1, <2>3, <3>1, <3>2 DEF OneJob
  <2> QED
    BY <2>4, <2>5
<1>10. ASSUME NEW w \in Workers, ResultArrives(w) PROVE OneJob'
  <2> DEFINE j == Head(channel[w]).job
  <2>1. PICK value \in {"ok", "error"} :
          /\ Arrives(w, value)
          /\ IF place[j] = "posted" THEN End(j, value)
                                    ELSE UNCHANGED <<result, place, active, target>>
    BY <1>10 DEF ResultArrives
  <2>2. /\ birth[w] = generation
        /\ UNCHANGED <<ready, task, stopsBy, cancelled, birth, generation, current,
                       loading, phase>>
    BY <1>10 DEF ResultArrives, Heeds
  <2>3. 1 \in Messages(w) /\ channel[w][1].kind = value /\ channel[w][1].job = j
        /\ w = current
    BY <2>1, <2>2, Received DEF WorkersKnown, Known
  <2>4. j \in Jobs /\ (place[j] = "posted" => task[w] = 0)
    <3>1. channel[w][1] \in MessageSet
      BY <2>3, MessageTypes
    <3>2. j \in 0..MaxJobs
      BY <2>3, <3>1 DEF MessageSet
    <3> QED
      BY <2>3, <3>2 DEF AnswersKnown, Answer
  <2>5. CASE place[j] = "posted"
    <3>1. End(j, value) /\ active = j /\ \A v \in Workers : task[v] = 0
      BY <2>1, <2>3, <2>4, <2>5 DEF OneJob
    <3>2. \A i \in Jobs \ {j} : place[i] \notin {"parked", "posted"}
      BY <3>1 DEF OneJob
    <3>3. active' = 0 /\ target' = 0 /\ \A i \in Jobs : place'[i] \notin {"parked", "posted"}
      BY <2>4, <3>1, <3>2, EndEffect
    <3>4. \A v \in Workers : task'[v] = 0
      BY <2>2, <3>1
    <3> QED
      BY <3>3, <3>4 DEF OneJob
  <2>6. CASE place[j] # "posted"
    BY <2>1, <2>2, <2>6 DEF OneJob
  <2> QED
    BY <2>5, <2>6
<1>11. ASSUME NEW w \in Workers, FailureArrives(w) PROVE OneJob'
  <2>1. Terminate("error") /\ Reject(current, "error") /\ UNCHANGED cancelled
    BY <1>11 DEF FailureArrives, Terminate
  <2>2. w = current /\ w # 0
    <3>1. birth[w] = generation /\ channel[w] # <<>>
      BY <1>11 DEF FailureArrives, Heeds, Arrives
    <3> QED
      BY <3>1 DEF WorkersKnown, Known
  <2>3. \A v \in Workers : task'[v] = 0
    BY <2>1, TerminateEffect DEF OneJob
  <2>4. CASE active = 0 \/ target # current
    <3>1. UNCHANGED <<result, place, active, target>>
      BY <2>1, <2>4, RejectEffect
    <3>2. CASE active = 0
      BY <2>3, <3>1, <3>2, TerminateEffect DEF OneJob
    <3>3. CASE active # 0
      <4>1. /\ target \in Workers /\ phase[target] = "loading"
            /\ active \in Jobs /\ place[active] = "parked"
            /\ stopsBy[active] = "termination" /\ active \in cancelled
        BY <2>2, <2>4, <3>3 DEF OneJob, WorkersKnown, ExecutorTypeOK
      <4>2. birth'[target] # generation'
        <5>1. \A v \in Workers : channel[v] = <<>> => channel'[v] = <<>>
          BY <1>11, Received DEF FailureArrives
        <5> QED
          BY <2>1, <4>1, <5>1, TerminateKeepsWorkers
      <4>3. phase'[target] = "loading" /\ stopsBy' = stopsBy
        BY <2>1, <2>4, <3>3, <4>1, TerminateEffect
      <4> QED
        BY <2>1, <2>3, <3>1, <3>3, <4>1, <4>2, <4>3 DEF OneJob
    <3> QED
      BY <3>2, <3>3
  <2>5. CASE active # 0 /\ target = current
    <3>1. /\ active \in Jobs /\ active' = 0 /\ target' = 0 /\ place'[active] = "over"
          /\ \A i \in Jobs \ {active} : place'[i] = place[i]
      BY <2>1, <2>5, RejectEffect
    <3> QED
      BY <2>3, <3>1 DEF OneJob
  <2> QED
    BY <2>4, <2>5
<1>12. ASSUME NEW w \in Workers, NEW j \in Jobs, NEW k \in Nat, EventArrives(w, j, k)
       PROVE OneJob'
  BY <1>12, Received DEF EventArrives, Heeds, OneJob
<1>13. ASSUME NEW w \in Workers, Boot(w) PROVE OneJob'
  <2>1. \A v \in Workers : phase[v] = "loading" => phase'[v] = "loading"
    BY <1>13 DEF Boot, ExecutorTypeOK
  <2>2. active # 0 => target \in Workers
    BY DEF OneJob, ExecutorTypeOK
  <2> QED
    BY <1>13, <2>1, <2>2 DEF Boot, OneJob
<1>14. ASSUME NEW w \in Workers, Emit(w) PROVE OneJob'
  BY <1>14, EmitSends DEF Emit, Sends, Message, OneJob
<1>15. ASSUME NEW w \in Workers, Return(w) PROVE OneJob'
  <2>1. \A v \in Workers : task'[v] \in {0, task[v]}
    BY <1>15 DEF Return, ExecutorTypeOK
  <2> QED
    BY <1>15, <2>1 DEF Return, OneJob
<1>16. ASSUME NEW w \in Workers, Crash(w) PROVE OneJob'
  <2>1. \A v \in Workers : /\ task'[v] \in {0, task[v]}
                           /\ phase[v] = "loading" => phase'[v] = "loading"
    BY <1>16 DEF Crash, ExecutorTypeOK
  <2>2. active # 0 => target \in Workers
    BY DEF OneJob, ExecutorTypeOK
  <2> QED
    BY <1>16, <2>1, <2>2 DEF Crash, OneJob
<1> QED
  BY <1>1, <1>2, <1>3, <1>4, <1>5, <1>6, <1>7, <1>8, <1>9, <1>10, <1>11, <1>12,
     <1>13, <1>14, <1>15, <1>16 DEF ExecutorNext

\* An answer stays one while its job goes on or ends, and its worker stays idle.
LEMMA AnswerStays ==
  ASSUME ExecutorTypeOK, AnswersKnown, NEW v \in Workers, NEW i, NEW k \in Messages(v),
         channel'[v][i] = channel[v][k],
         \A J \in Jobs : place[J] \in {"posted", "over"} => place'[J] \in {place[J], "over"},
         task[v] = 0 => task'[v] = 0
  PROVE  Answer(v, i)'
<1>1. Answer(v, k)
  BY DEF AnswersKnown
<1>2. channel[v][k].job \in 0..MaxJobs
  BY MessageTypes DEF MessageSet
<1> QED
  BY <1>1, <1>2 DEF Answer, Jobs

LEMMA StepAnswersKnown ==
  ASSUME WorkerExecutorAssumption, ExecutorTypeOK, WorkersKnown, ReadyOnce, OneJob,
     AnswersKnown, ExecutorNext
  PROVE  AnswersKnown'
<1> USE WorkerExecutorAssumption DEF WorkerExecutorAssumption, Jobs, Workers,
   manager_vars, thread_vars, job_vars, input_vars
<1>1. ASSUME NEW j \in Jobs, Execute(j) PROVE AnswersKnown'
  <2>1. active = 0 /\ place[j] = "new" /\ UNCHANGED channel
    BY <1>1 DEF Execute
  <2>2. \A J \in Jobs : place[J] # "posted"
    BY <2>1 DEF OneJob
  <2>3. \A J \in Jobs \ {j} : place'[J] = place[J]
    <3>1. CASE ready
      <4>1. current \in Workers /\ Dispatch(j, current)
        BY <1>1, <3>1 DEF Execute, ReadyOnce, ExecutorTypeOK
      <4> QED
        BY <4>1, DispatchEffect
    <3>2. CASE ~ready
      BY <1>1, <3>2 DEF Execute, ExecutorTypeOK
    <3> QED
      BY <3>1, <3>2
  <2>4. ASSUME NEW v \in Workers, NEW i \in Messages(v)' PROVE Answer(v, i)'
    <3>1. i \in Messages(v) /\ channel'[v][i] = channel[v][i]
      BY <2>1 DEF Messages
    <3>2. Answer(v, i)
      BY <3>1 DEF AnswersKnown
    <3>3. channel[v][i].job \in 0..MaxJobs
      BY <3>1, MessageTypes DEF MessageSet
    <3>4. ASSUME channel[v][i].kind \in {"ok", "error"}
          PROVE  channel[v][i].job # 0 /\ place'[channel[v][i].job] = "over"
      <4>1. channel[v][i].job \in Jobs /\ place[channel[v][i].job] = "over"
        BY <2>2, <3>2, <3>3, <3>4 DEF Answer
      <4> QED
        BY <2>1, <2>3, <4>1
    <3> QED
      BY <3>1, <3>4 DEF Answer
  <2> QED
    BY <2>4 DEF AnswersKnown
<1>2. ASSUME NEW j \in Jobs, Flags(j) PROVE AnswersKnown'
  <2>1. \A J \in Jobs : place[J] \in {"posted", "over"} => place'[J] \in {place[J], "over"}
    BY <1>2 DEF Flags, Raise
  <2>2. \A v \in Workers : task[v] = 0 => task'[v] = 0
    BY <1>2 DEF Flags, Raise
  <2>3. ASSUME NEW v \in Workers, NEW i \in Messages(v)' PROVE Answer(v, i)'
    <3>1. PICK k \in Messages(v) : channel'[v][i] = channel[v][k]
      BY <1>2 DEF Flags, Raise, Messages
    <3> QED
      BY <2>1, <2>2, <3>1, AnswerStays
  <2> QED
    BY <2>3 DEF AnswersKnown
<1>3. ASSUME NEW j \in Jobs, Kills(j) PROVE AnswersKnown'
  <2>1. \A J \in Jobs : place[J] \in {"posted", "over"} => place'[J] \in {place[J], "over"}
    <3>1. Reject(current, "cancelled")
      BY <1>3 DEF Kills, Terminate
    <3> QED
      BY <3>1, RejectEffect
  <2>2. \A v \in Workers : task[v] = 0 => task'[v] = 0
    BY <1>3 DEF Kills, Terminate
  <2>3. ASSUME NEW v \in Workers, NEW i \in Messages(v)' PROVE Answer(v, i)'
    <3>1. PICK k \in Messages(v) : channel'[v][i] = channel[v][k]
      BY <1>3 DEF Kills, Messages
    <3> QED
      BY <2>1, <2>2, <3>1, AnswerStays
  <2> QED
    BY <2>3 DEF AnswersKnown
<1>4. ASSUME Load PROVE AnswersKnown'
  <2>1. \A J \in Jobs : place[J] \in {"posted", "over"} => place'[J] \in {place[J], "over"}
    BY <1>4 DEF Load
  <2>2. \A v \in Workers : task[v] = 0 => task'[v] = 0
    BY <1>4 DEF Load
  <2>3. ASSUME NEW v \in Workers, NEW i \in Messages(v)' PROVE Answer(v, i)'
    <3>1. PICK k \in Messages(v) : channel'[v][i] = channel[v][k]
      BY <1>4 DEF Load, Messages
    <3> QED
      BY <2>1, <2>2, <3>1, AnswerStays
  <2> QED
    BY <2>3 DEF AnswersKnown
<1>5. ASSUME NEW w \in Workers, FactoryLoads(w) PROVE AnswersKnown'
  <2>1. \A J \in Jobs : place[J] \in {"posted", "over"} => place'[J] \in {place[J], "over"}
    <3>1. Reject(w, "error") \/ UNCHANGED place
      BY <1>5 DEF FactoryLoads
    <3> QED
      BY <3>1, RejectEffect
  <2>2. \A v \in Workers : task[v] = 0 => task'[v] = 0
    BY <1>5 DEF FactoryLoads
  <2>3. ASSUME NEW v \in Workers, NEW i \in Messages(v)' PROVE Answer(v, i)'
    <3>1. PICK k \in Messages(v) : channel'[v][i] = channel[v][k]
      BY <1>5 DEF FactoryLoads, Messages
    <3> QED
      BY <2>1, <2>2, <3>1, AnswerStays
  <2> QED
    BY <2>3 DEF AnswersKnown
<1>6. ASSUME NEW w \in Workers, FactoryFails(w) PROVE AnswersKnown'
  <2>1. \A J \in Jobs : place[J] \in {"posted", "over"} => place'[J] \in {place[J], "over"}
    <3>1. Reject(w, "error") \/ UNCHANGED place
      BY <1>6 DEF FactoryFails
    <3> QED
      BY <3>1, RejectEffect
  <2>2. \A v \in Workers : task[v] = 0 => task'[v] = 0
    BY <1>6 DEF FactoryFails
  <2>3. ASSUME NEW v \in Workers, NEW i \in Messages(v)' PROVE Answer(v, i)'
    <3>1. PICK k \in Messages(v) : channel'[v][i] = channel[v][k]
      BY <1>6 DEF FactoryFails, Messages
    <3> QED
      BY <2>1, <2>2, <3>1, AnswerStays
  <2> QED
    BY <2>3 DEF AnswersKnown
<1>7. ASSUME NEW w \in Workers, Ignored(w) PROVE AnswersKnown'
  <2>1. \A J \in Jobs : place[J] \in {"posted", "over"} => place'[J] \in {place[J], "over"}
    BY <1>7 DEF Ignored
  <2>2. \A v \in Workers : task[v] = 0 => task'[v] = 0
    BY <1>7 DEF Ignored
  <2>3. ASSUME NEW v \in Workers, NEW i \in Messages(v)' PROVE Answer(v, i)'
    <3>1. PICK k \in Messages(v) : channel'[v][i] = channel[v][k]
      BY <1>7, Shifted DEF Ignored
    <3> QED
      BY <2>1, <2>2, <3>1, AnswerStays
  <2> QED
    BY <2>3 DEF AnswersKnown
<1>8. ASSUME NEW w \in Workers, SignalArrives(w) PROVE AnswersKnown'
  <2>1. \A J \in Jobs : place[J] \in {"posted", "over"} => place'[J] \in {place[J], "over"}
    BY <1>8 DEF SignalArrives
  <2>2. \A v \in Workers : task[v] = 0 => task'[v] = 0
    BY <1>8 DEF SignalArrives
  <2>3. ASSUME NEW v \in Workers, NEW i \in Messages(v)' PROVE Answer(v, i)'
    <3>1. PICK k \in Messages(v) : channel'[v][i] = channel[v][k]
      BY <1>8, Shifted DEF SignalArrives
    <3> QED
      BY <2>1, <2>2, <3>1, AnswerStays
  <2> QED
    BY <2>3 DEF AnswersKnown
<1>9. ASSUME NEW w \in Workers, ReadyArrives(w) PROVE AnswersKnown'
  <2>1. Arrives(w, "ready") /\ ~ready
    <3>1. Arrives(w, "ready") /\ birth[w] = generation
      BY <1>9 DEF ReadyArrives, Heeds
    <3>2. channel[w] # <<>> /\ 1 \in Messages(w) /\ channel[w][1].kind = "ready"
      BY <3>1, Received
    <3> QED
      BY <3>1, <3>2 DEF ReadyOnce, Told
  <2>2. \A J \in Jobs : place[J] # "posted"
    BY <2>1 DEF OneJob
  <2>3. \A J \in Jobs : place[J] = "over" => place'[J] = "over"
    <3>1. CASE active # 0 /\ target = w
      <4>1. active \in Jobs /\ Dispatch(active, w) /\ place[active] = "parked"
        BY <1>9, <2>2, <3>1 DEF ReadyArrives, OneJob, ExecutorTypeOK
      <4> QED
        BY <4>1, DispatchEffect
    <3>2. CASE ~(active # 0 /\ target = w)
      BY <1>9, <3>2 DEF ReadyArrives
    <3> QED
      BY <3>1, <3>2
  <2>4. ASSUME NEW v \in Workers, NEW i \in Messages(v)' PROVE Answer(v, i)'
    <3>1. PICK k \in Messages(v) : channel'[v][i] = channel[v][k]
      BY <2>1, Shifted
    <3>2. Answer(v, k)
      BY <3>1 DEF AnswersKnown
    <3>3. channel[v][k].job \in 0..MaxJobs
      BY <3>1, MessageTypes DEF MessageSet
    <3> QED
      BY <2>2, <2>3, <3>1, <3>2, <3>3 DEF Answer
  <2> QED
    BY <2>4 DEF AnswersKnown
<1>10. ASSUME NEW w \in Workers, ResultArrives(w) PROVE AnswersKnown'
  <2>1. \A J \in Jobs : place[J] \in {"posted", "over"} => place'[J] \in {place[J], "over"}
    <3>1. UNCHANGED place \/ \E J : place' = [place EXCEPT ![J] = "over"]
      BY <1>10 DEF ResultArrives, End
    <3> QED
      BY <3>1 DEF ExecutorTypeOK
  <2>2. \A v \in Workers : task[v] = 0 => task'[v] = 0
    BY <1>10 DEF ResultArrives
  <2>3. ASSUME NEW v \in Workers, NEW i \in Messages(v)' PROVE Answer(v, i)'
    <3>1. PICK k \in Messages(v) : channel'[v][i] = channel[v][k]
      BY <1>10, Shifted DEF ResultArrives
    <3> QED
      BY <2>1, <2>2, <3>1, AnswerStays
  <2> QED
    BY <2>3 DEF AnswersKnown
<1>11. ASSUME NEW w \in Workers, FailureArrives(w) PROVE AnswersKnown'
  <2>1. \A J \in Jobs : place[J] \in {"posted", "over"} => place'[J] \in {place[J], "over"}
    <3>1. Reject(current, "error")
      BY <1>11 DEF FailureArrives, Terminate
    <3> QED
      BY <3>1, RejectEffect
  <2>2. \A v \in Workers : task[v] = 0 => task'[v] = 0
    BY <1>11 DEF FailureArrives, Terminate
  <2>3. ASSUME NEW v \in Workers, NEW i \in Messages(v)' PROVE Answer(v, i)'
    <3>1. PICK k \in Messages(v) : channel'[v][i] = channel[v][k]
      BY <1>11, Shifted DEF FailureArrives
    <3> QED
      BY <2>1, <2>2, <3>1, AnswerStays
  <2> QED
    BY <2>3 DEF AnswersKnown
<1>12. ASSUME NEW w \in Workers, NEW j \in Jobs, NEW k \in Nat, EventArrives(w, j, k)
       PROVE AnswersKnown'
  <2>1. \A J \in Jobs : place[J] \in {"posted", "over"} => place'[J] \in {place[J], "over"}
    BY <1>12 DEF EventArrives
  <2>2. \A v \in Workers : task[v] = 0 => task'[v] = 0
    BY <1>12 DEF EventArrives
  <2>3. ASSUME NEW v \in Workers, NEW i \in Messages(v)' PROVE Answer(v, i)'
    <3>1. PICK n \in Messages(v) : channel'[v][i] = channel[v][n]
      BY <1>12, Shifted DEF EventArrives
    <3> QED
      BY <2>1, <2>2, <3>1, AnswerStays
  <2> QED
    BY <2>3 DEF AnswersKnown
<1>13. ASSUME NEW w \in Workers, Boot(w) PROVE AnswersKnown'
  <2>1. channel[w] = <<>> /\ UNCHANGED <<place, task>>
    BY <1>13 DEF Boot, WorkersKnown, Known
  <2>2. Len(channel'[w]) = 2 /\ channel'[w][1].kind = "signal" /\ channel'[w][2].kind = "ready"
    BY <1>13, <2>1, BootSends
  <2>3. \A v \in Workers \ {w} : channel'[v] = channel[v]
    BY <1>13, <2>1, BootSends
  <2>4. ASSUME NEW v \in Workers, NEW i \in Messages(v)' PROVE Answer(v, i)'
    <3>1. CASE v # w
      <4>1. i \in Messages(v) /\ channel'[v] = channel[v]
        BY <2>3, <3>1 DEF Messages
      <4>2. Answer(v, i)
        BY <4>1 DEF AnswersKnown
      <4> QED
        BY <2>1, <4>1, <4>2 DEF Answer
    <3>2. CASE v = w
      <4>1. i \in 1..2
        BY <2>2, <3>2 DEF Messages
      <4> QED
        BY <2>2, <3>2, <4>1 DEF Answer
    <3> QED
      BY <3>1, <3>2
  <2> QED
    BY <2>4 DEF AnswersKnown
<1>14. ASSUME NEW w \in Workers, Emit(w) PROVE AnswersKnown'
  <2>1. \A J \in Jobs : place[J] \in {"posted", "over"} => place'[J] \in {place[J], "over"}
    BY <1>14 DEF Emit
  <2>2. \A v \in Workers : task[v] = 0 => task'[v] = 0
    BY <1>14 DEF Emit
  <2>3. PICK m : /\ Sends(w, m) /\ m.kind \in {"event"}
                 /\ m.kind \in {"ok", "error"} => m.job = task[w]
    BY <1>14, EmitSends
  <2>4. ASSUME NEW v \in Workers, NEW i \in Messages(v)' PROVE Answer(v, i)'
    <3>1. CASE i \in Messages(v) /\ channel'[v][i] = channel[v][i]
      BY <2>1, <2>2, <3>1, AnswerStays
    <3>2. CASE v = w /\ channel'[v][i] = m
      BY <2>3, <3>2 DEF Answer
    <3> QED
      BY <2>3, <3>1, <3>2, SentOrThere
  <2> QED
    BY <2>4 DEF AnswersKnown
<1>15. ASSUME NEW w \in Workers, Return(w) PROVE AnswersKnown'
  <2>1. \A J \in Jobs : place[J] \in {"posted", "over"} => place'[J] \in {place[J], "over"}
    BY <1>15 DEF Return
  <2>2. \A v \in Workers : task[v] = 0 => task'[v] = 0
    BY <1>15 DEF Return, ExecutorTypeOK
  <2>3. PICK m : /\ Sends(w, m) /\ m.kind \in {"ok", "error"}
                 /\ m.kind \in {"ok", "error"} => m.job = task[w]
    BY <1>15, ReturnSends
  <2>4. ASSUME NEW v \in Workers, NEW i \in Messages(v)' PROVE Answer(v, i)'
    <3>1. CASE i \in Messages(v) /\ channel'[v][i] = channel[v][i]
      BY <2>1, <2>2, <3>1, AnswerStays
    <3>2. CASE v = w /\ channel'[v][i] = m
      <4>1. task[w] # 0 /\ task'[w] = 0 /\ place' = place
        BY <1>15 DEF Return, ExecutorTypeOK
      <4>2. place[task[w]] = "posted"
        BY <4>1 DEF OneJob
      <4> QED
        BY <2>3, <3>2, <4>1, <4>2 DEF Answer
    <3> QED
      BY <2>3, <3>1, <3>2, SentOrThere
  <2> QED
    BY <2>4 DEF AnswersKnown
<1>16. ASSUME NEW w \in Workers, Crash(w) PROVE AnswersKnown'
  <2>1. \A J \in Jobs : place[J] \in {"posted", "over"} => place'[J] \in {place[J], "over"}
    BY <1>16 DEF Crash
  <2>2. \A v \in Workers : task[v] = 0 => task'[v] = 0
    BY <1>16 DEF Crash, ExecutorTypeOK
  <2>3. PICK m : /\ Sends(w, m) /\ m.kind \in {"failed"}
                 /\ m.kind \in {"ok", "error"} => m.job = task[w]
    BY <1>16, CrashSends
  <2>4. ASSUME NEW v \in Workers, NEW i \in Messages(v)' PROVE Answer(v, i)'
    <3>1. CASE i \in Messages(v) /\ channel'[v][i] = channel[v][i]
      BY <2>1, <2>2, <3>1, AnswerStays
    <3>2. CASE v = w /\ channel'[v][i] = m
      BY <2>3, <3>2 DEF Answer
    <3> QED
      BY <2>3, <3>1, <3>2, SentOrThere
  <2> QED
    BY <2>4 DEF AnswersKnown
<1> QED
  BY <1>1, <1>2, <1>3, <1>4, <1>5, <1>6, <1>7, <1>8, <1>9, <1>10, <1>11, <1>12,
     <1>13, <1>14, <1>15, <1>16 DEF ExecutorNext

LEMMA StepStopParked ==
  ASSUME WorkerExecutorAssumption, ExecutorTypeOK, WorkersKnown, ReadyOnce, OneJob,
     AnswersKnown, StopParked, ExecutorNext
  PROVE  StopParked'
<1> USE WorkerExecutorAssumption DEF WorkerExecutorAssumption, Jobs, Workers,
   manager_vars, thread_vars, job_vars, input_vars, StopParked
<1>1. ASSUME NEW j \in Jobs, Execute(j) PROVE StopParked'
  <2>1. active = 0 /\ stop' = stop
    BY <1>1 DEF Execute
  <2> QED
    BY <2>1 DEF OneJob
<1>2. ASSUME NEW j \in Jobs, Flags(j) PROVE StopParked'
  <2>1. CASE ready
    BY <1>2, <2>1 DEF Flags, Raise
  <2>2. CASE ~ready
    <3>1. target \in {loading, current}
      BY <1>2, <2>2 DEF Flags, OneJob
    <3> QED
      BY <1>2, <2>2, <3>1 DEF Flags, Raise, ParkedStop
  <2> QED
    BY <2>1, <2>2
<1>3. ASSUME NEW j \in Jobs, Kills(j) PROVE StopParked'
  BY <1>3 DEF Kills, Terminate
<1>4. ASSUME Load PROVE StopParked'
  <2>1. stop = 0
    BY <1>4 DEF Load, OneJob
  <2> QED
    BY <1>4, <2>1 DEF Load
<1>5. ASSUME NEW w \in Workers, FactoryLoads(w) PROVE StopParked'
  <2>1. UNCHANGED <<ready, stopsBy>> /\ phase[w] = "loading" /\ current # w
    BY <1>5 DEF FactoryLoads, WorkersKnown
  <2>2. stop # 0 => stop \in Jobs /\ active = stop /\ ~ready /\ target \in {loading, current}
    BY DEF StopParked, ExecutorTypeOK
  <2>3. CASE birth[w] = generation
    <3>1. loading = w /\ current = 0 /\ current' = w /\ UNCHANGED <<active, target, stop>>
      BY <1>5, <2>3 DEF FactoryLoads, IsWanted, WorkersKnown, Known
    <3> QED
      BY <2>1, <3>1 DEF OneJob
  <2>4. CASE birth[w] # generation
    <3>1. loading # w /\ UNCHANGED <<current, loading, stop>> /\ Reject(w, "error")
      BY <1>5, <2>4 DEF FactoryLoads, IsWanted, WorkersKnown
    <3> QED
      BY <2>1, <2>2, <3>1, RejectEffect
  <2> QED
    BY <2>3, <2>4
<1>6. ASSUME NEW w \in Workers, FactoryFails(w) PROVE StopParked'
  <2>1. UNCHANGED <<ready, stopsBy>> /\ phase[w] = "loading" /\ current # w
    BY <1>6 DEF FactoryFails, WorkersKnown
  <2>2. stop # 0 => stop \in Jobs /\ active = stop /\ ~ready /\ target \in {loading, current}
    BY DEF StopParked, ExecutorTypeOK
  <2>3. Reject(w, "error") /\ UNCHANGED current
        /\ IF loading = w THEN stop' = 0 ELSE UNCHANGED <<loading, stop>>
    BY <1>6 DEF FactoryFails
  <2> QED
    BY <2>1, <2>2, <2>3, RejectEffect
<1>7. ASSUME NEW w \in Workers, Ignored(w) PROVE StopParked'
  BY <1>7 DEF Ignored, Heeds
<1>8. ASSUME NEW w \in Workers, SignalArrives(w) PROVE StopParked'
  BY <1>8 DEF SignalArrives, Heeds
<1>9. ASSUME NEW w \in Workers, ReadyArrives(w) PROVE StopParked'
  BY <1>9 DEF ReadyArrives
<1>10. ASSUME NEW w \in Workers, ResultArrives(w) PROVE StopParked'
  <2>1. UNCHANGED <<ready, stopsBy, stop, loading, current>>
    BY <1>10 DEF ResultArrives
  <2>2. CASE UNCHANGED <<active, target>>
    BY <2>1, <2>2
  <2>3. CASE ~UNCHANGED <<active, target>>
    <3>1. place[Head(channel[w]).job] = "posted"
      BY <1>10, <2>3 DEF ResultArrives
    <3>2. channel[w] # <<>> /\ Head(channel[w]) = channel[w][1] /\ 1 \in Messages(w)
      BY <1>10, Received DEF ResultArrives
    <3>3. Head(channel[w]).job \in 0..MaxJobs /\ Head(channel[w]).job # 0
      BY <1>10, <3>2, MessageTypes DEF MessageSet, ResultArrives, Arrives, AnswersKnown, Answer
    <3>4. ready
      <4>1. active = Head(channel[w]).job
        BY <3>1, <3>3 DEF OneJob
      <4> QED
        BY <3>1, <3>3, <4>1 DEF OneJob
    <3> QED
      BY <2>1, <3>4
  <2> QED
    BY <2>2, <2>3
<1>11. ASSUME NEW w \in Workers, FailureArrives(w) PROVE StopParked'
  BY <1>11 DEF FailureArrives, Terminate
<1>12. ASSUME NEW w \in Workers, NEW j \in Jobs, NEW k \in Nat, EventArrives(w, j, k)
       PROVE StopParked'
  BY <1>12 DEF EventArrives, Heeds
<1>13. ASSUME NEW w \in Workers, Boot(w) PROVE StopParked'
  BY <1>13 DEF Boot, Message
<1>14. ASSUME NEW w \in Workers, Emit(w) PROVE StopParked'
  BY <1>14 DEF Emit, Sends, Message
<1>15. ASSUME NEW w \in Workers, Return(w) PROVE StopParked'
  BY <1>15 DEF Return, Sends, Message
<1>16. ASSUME NEW w \in Workers, Crash(w) PROVE StopParked'
  BY <1>16 DEF Crash, Sends, Message
<1> QED
  BY <1>1, <1>2, <1>3, <1>4, <1>5, <1>6, <1>7, <1>8, <1>9, <1>10, <1>11, <1>12,
     <1>13, <1>14, <1>15, <1>16 DEF ExecutorNext

LEMMA StepStopsHit ==
  ASSUME WorkerExecutorAssumption, ExecutorTypeOK, WorkersKnown, ReadyOnce, OneJob,
     StopParked, StopsHitTheirJob, ExecutorNext
  PROVE  StopsHitTheirJob'
<1> USE WorkerExecutorAssumption DEF WorkerExecutorAssumption, Jobs, Workers,
   manager_vars, thread_vars, job_vars, input_vars, StopsHitTheirJob
<1>1. ASSUME NEW j \in Jobs, Execute(j) PROVE StopsHitTheirJob'
  <2>1. active = 0 /\ stop = 0 /\ \A v \in Workers : task[v] = 0
    BY <1>1 DEF Execute, OneJob, StopParked
  <2>2. CASE ready
    <3>1. current \in Workers /\ Dispatch(j, current)
      BY <1>1, <2>2 DEF Execute, ReadyOnce, ExecutorTypeOK
    <3> QED
      BY <2>1, <3>1, DispatchEffect
  <2>3. CASE ~ready
    BY <1>1, <2>3 DEF Execute
  <2> QED
    BY <2>2, <2>3
<1>2. ASSUME NEW j \in Jobs, Flags(j) PROVE StopsHitTheirJob'
  <2>1. CASE ready
    <3>1. signal = current /\ signal \in Workers /\ active = j /\ task' = task
          /\ flag' = [flag EXCEPT ![signal] = j]
      BY <1>2, <2>1 DEF Flags, Raise, ReadyOnce, ExecutorTypeOK
    <3>2. flag'[current] = j /\ \A v \in Workers \ {current} : flag'[v] = flag[v]
      BY <3>1 DEF ExecutorTypeOK
    <3> QED
      BY <3>1, <3>2 DEF OneJob
  <2>2. CASE ~ready
    BY <1>2, <2>2 DEF Flags, Raise
  <2> QED
    BY <2>1, <2>2
<1>3. ASSUME NEW j \in Jobs, Kills(j) PROVE StopsHitTheirJob'
  <2>1. Terminate("cancelled")
    BY <1>3 DEF Kills
  <2> QED
    BY <2>1, TerminateEffect
<1>4. ASSUME Load PROVE StopsHitTheirJob'
  BY <1>4 DEF Load, EnsureWorker
<1>5. ASSUME NEW w \in Workers, FactoryLoads(w) PROVE StopsHitTheirJob'
  BY <1>5 DEF FactoryLoads, IsWanted, Reject, End
<1>6. ASSUME NEW w \in Workers, FactoryFails(w) PROVE StopsHitTheirJob'
  BY <1>6 DEF FactoryFails, Reject, End
<1>7. ASSUME NEW w \in Workers, Ignored(w) PROVE StopsHitTheirJob'
  BY <1>7 DEF Ignored, Heeds
<1>8. ASSUME NEW w \in Workers, SignalArrives(w) PROVE StopsHitTheirJob'
  BY <1>8 DEF SignalArrives, Heeds
<1>9. ASSUME NEW w \in Workers, ReadyArrives(w) PROVE StopsHitTheirJob'
  <2>1. ~ready
    <3>1. Arrives(w, "ready") /\ birth[w] = generation
      BY <1>9 DEF ReadyArrives, Heeds
    <3>2. channel[w] # <<>> /\ 1 \in Messages(w) /\ channel[w][1].kind = "ready"
      BY <3>1, Received
    <3> QED
      BY <3>1, <3>2 DEF ReadyOnce, Told
  <2>2. \A v \in Workers : task[v] = 0
    BY <2>1 DEF OneJob
  <2>3. CASE active # 0 /\ target = w
    <3>1. active \in Jobs /\ Dispatch(active, w)
      BY <1>9, <2>3 DEF ReadyArrives, ExecutorTypeOK
    <3>2. stop \in {0, active}
      BY DEF StopParked
    <3> QED
      BY <2>2, <3>1, <3>2, DispatchEffect
  <2>4. CASE ~(active # 0 /\ target = w)
    BY <1>9, <2>2, <2>4 DEF ReadyArrives
  <2> QED
    BY <2>3, <2>4
<1>10. ASSUME NEW w \in Workers, ResultArrives(w) PROVE StopsHitTheirJob'
  BY <1>10 DEF ResultArrives, Heeds, End
<1>11. ASSUME NEW w \in Workers, FailureArrives(w) PROVE StopsHitTheirJob'
  <2>1. Terminate("error")
    BY <1>11 DEF FailureArrives
  <2> QED
    BY <2>1, TerminateEffect
<1>12. ASSUME NEW w \in Workers, NEW j \in Jobs, NEW k \in Nat, EventArrives(w, j, k)
       PROVE StopsHitTheirJob'
  BY <1>12 DEF EventArrives, Heeds
<1>13. ASSUME NEW w \in Workers, Boot(w) PROVE StopsHitTheirJob'
  BY <1>13 DEF Boot, Message
<1>14. ASSUME NEW w \in Workers, Emit(w) PROVE StopsHitTheirJob'
  BY <1>14 DEF Emit, Sends, Message
<1>15. ASSUME NEW w \in Workers, Return(w) PROVE StopsHitTheirJob'
  <2>1. task'[w] = 0 /\ \A v \in Workers \ {w} : task'[v] = task[v] /\ flag'[v] = flag[v]
    BY <1>15 DEF Return, ExecutorTypeOK
  <2> QED
    BY <2>1
<1>16. ASSUME NEW w \in Workers, Crash(w) PROVE StopsHitTheirJob'
  <2>1. task'[w] = 0 /\ \A v \in Workers \ {w} : task'[v] = task[v] /\ flag'[v] = flag[v]
    BY <1>16 DEF Crash, ExecutorTypeOK
  <2> QED
    BY <2>1
<1> QED
  BY <1>1, <1>2, <1>3, <1>4, <1>5, <1>6, <1>7, <1>8, <1>9, <1>10, <1>11, <1>12,
     <1>13, <1>14, <1>15, <1>16 DEF ExecutorNext

\* A job that waits goes on to wait or fails.
Kept(i) ==
  \/ place'[i] = place[i] /\ result'[i] = result[i]
  \/ /\ place[i] \in {"parked", "posted"} /\ place'[i] = "over"
     /\ result'[i] \in {"error", "cancelled"}

\* The session survives what dispatches nothing and makes no session.
LEMMA SessionStays ==
  ASSUME WorkerExecutorAssumption, ExecutorTypeOK, SessionKnown,
         UNCHANGED <<users, runtime, home>>,
         \/ generation' = generation /\ (current' = current \/ current = 0)
         \/ generation' = generation + 1 /\ \A v \in Workers : task'[v] = 0,
         \A v \in Workers : task'[v] \in {0, task[v]},
         \A i \in Jobs : Kept(i),
         \A v \in Workers : \A i \in Messages(v)' : SessionMade(v, i)'
  PROVE  SessionKnown'
<1> USE WorkerExecutorAssumption DEF WorkerExecutorAssumption, ExecutorTypeOK, Jobs
<1>1. 1 \in Jobs
  OBVIOUS
<1>2. runtime' <= generation'
  BY DEF SessionKnown
<1>3. home' # 0 => /\ runtime' = generation' => home' = current'
                   /\ place'[1] \in {"posted", "over"}
                   /\ \A w \in Workers : task'[w] # 1
  <2>1. ASSUME home # 0
        PROVE  /\ runtime = generation' => home = current'
               /\ \A w \in Workers : task'[w] # 1
    BY <2>1 DEF SessionKnown
  <2>2. home # 0 => place'[1] \in {"posted", "over"}
    BY <1>1 DEF SessionKnown, Kept
  <2> QED
    BY <2>1, <2>2
<1>4. \A w \in Workers : task'[w] = 1 => runtime' = generation'
  BY DEF SessionKnown
<1>5. result'[1] = "ok" <=> result[1] = "ok"
  BY <1>1 DEF SessionKnown, Kept
<1>6. result'[1] = "ok" => home' # 0 /\ place'[1] = "over"
  BY <1>1, <1>5 DEF SessionKnown, Kept
<1>7. \A j \in users' : place'[j] # "new" => result'[1] = "ok"
  BY <1>5 DEF SessionKnown, Kept
<1> QED
  BY <1>2, <1>3, <1>4, <1>6, <1>7 DEF SessionKnown

\* The session survives a dispatch, which may be that of the job that makes it.
LEMMA SessionSurvives ==
  ASSUME WorkerExecutorAssumption, ExecutorTypeOK, SessionKnown,
         NEW j \in Jobs, NEW w \in Workers, Dispatch(j, w),
         \A v \in Workers : task[v] = 0,
         place[j] \in {"new", "parked"}, j \in users => result[1] = "ok",
         UNCHANGED <<users, home, generation, current>>,
         \A v \in Workers : \A i \in Messages(v)' : SessionMade(v, i)'
  PROVE  SessionKnown'
<1> USE WorkerExecutorAssumption DEF WorkerExecutorAssumption, Jobs
<1>1. 1 \in Jobs
  OBVIOUS
<1>2. /\ \A i \in Jobs \ {j} : place'[i] = place[i] /\ result'[i] = result[i]
      /\ result'[j] \in {result[j], "error", "cancelled"} /\ place'[j] \in {"posted", "over"}
      /\ \A v \in Workers : task'[v] \in {0, j}
      /\ runtime' = IF j = 1 THEN generation ELSE runtime
  <2>1. /\ \A i \in Jobs \ {j} : place'[i] = place[i] /\ result'[i] = result[i]
        /\ runtime' = IF j = 1 THEN generation ELSE runtime
        /\ \A v \in Workers \ {w} : task'[v] = task[v]
    BY DispatchEffect
  <2>2. \/ task'[w] = j /\ place'[j] = "posted" /\ result' = result
        \/ task'[w] = task[w] /\ place'[j] = "over" /\ result'[j] \in {"error", "cancelled"}
    BY DispatchEffect
  <2> QED
    BY <2>1, <2>2
<1>3. CASE j = 1
  <2>1. home = 0 /\ result[1] # "ok" /\ 1 \notin users
    BY <1>3 DEF SessionKnown
  <2>2. \A i \in users : place'[i] = "new"
    BY <1>2, <1>3, <2>1 DEF SessionKnown, ExecutorTypeOK
  <2>3. result'[1] # "ok"
    BY <1>2, <1>3, <2>1
  <2>4. runtime' = generation'
    BY <1>2, <1>3
  <2>5. generation \in Nat
    BY DEF ExecutorTypeOK
  <2> QED
    BY <2>1, <2>2, <2>3, <2>4, <2>5 DEF SessionKnown
<1>4. CASE j # 1
  <2>1. place'[1] = place[1] /\ result'[1] = result[1] /\ runtime' = runtime
    BY <1>1, <1>2, <1>4
  <2>2. \A v \in Workers : task'[v] # 1
    BY <1>2, <1>4
  <2>3. \A i \in users : place'[i] # "new" => result'[1] = "ok"
    <3>1. ASSUME NEW i \in users, i # j, place'[i] # "new" PROVE result'[1] = "ok"
      BY <1>2, <2>1, <3>1 DEF SessionKnown, ExecutorTypeOK
    <3> QED
      BY <2>1, <3>1
  <2> QED
    BY <2>1, <2>2, <2>3 DEF SessionKnown
<1> QED
  BY <1>3, <1>4

\* An event and a failure make no session, nor does what is there already.
LEMMA MessagesStay ==
  ASSUME SessionKnown, home' = home, NEW v \in Workers, NEW i,
         \/ \E k \in Messages(v) : channel'[v][i] = channel[v][k]
         \/ channel'[v][i].kind # "ok"
  PROVE  SessionMade(v, i)'
BY DEF SessionKnown, SessionMade

LEMMA StepSessionKnown ==
  ASSUME WorkerExecutorAssumption, ExecutorTypeOK, WorkersKnown, ReadyOnce, OneJob,
     AnswersKnown, SessionKnown, ExecutorNext
  PROVE  SessionKnown'
<1> USE WorkerExecutorAssumption DEF WorkerExecutorAssumption, Jobs, Workers,
   manager_vars, thread_vars, job_vars, input_vars
<1>1. ASSUME NEW j \in Jobs, Execute(j) PROVE SessionKnown'
  <2>1. /\ active = 0 /\ place[j] = "new" /\ (j \in users => result[1] = "ok")
        /\ UNCHANGED <<users, home, generation, current, channel>>
        /\ \A v \in Workers : task[v] = 0
    BY <1>1 DEF Execute, OneJob
  <2>2. \A v \in Workers : \A i \in Messages(v)' : SessionMade(v, i)'
    BY <2>1 DEF SessionKnown, SessionMade, Messages
  <2>3. CASE ready
    <3>1. current \in Workers /\ Dispatch(j, current)
      BY <1>1, <2>3 DEF Execute, ReadyOnce, ExecutorTypeOK
    <3> QED
      BY <2>1, <2>2, <3>1, SessionSurvives
  <2>4. CASE ~ready
    <3>1. UNCHANGED <<task, result, runtime>> /\ place' = [place EXCEPT ![j] = "parked"]
      BY <1>1, <2>4 DEF Execute
    <3>2. place'[j] = "parked" /\ \A i \in Jobs \ {j} : place'[i] = place[i]
      BY <3>1 DEF ExecutorTypeOK
    <3>3. 1 \in Jobs /\ users \subseteq Jobs
      BY DEF ExecutorTypeOK
    <3>4. CASE j = 1
      <4>1. home = 0 /\ result[1] # "ok"
        BY <2>1, <3>4 DEF SessionKnown
      <4>2. \A i \in users : place'[i] = "new"
        BY <2>1, <3>2, <3>3, <3>4, <4>1 DEF SessionKnown
      <4> QED
        BY <2>1, <2>2, <3>1, <3>2, <4>1, <4>2 DEF SessionKnown
    <3>5. CASE j # 1
      <4>1. place'[1] = place[1]
        BY <3>2, <3>3, <3>5
      <4>2. \A i \in users : place'[i] # "new" => result'[1] = "ok"
        BY <2>1, <3>1, <3>2, <3>3 DEF SessionKnown
      <4> QED
        BY <2>1, <2>2, <3>1, <4>1, <4>2 DEF SessionKnown
    <3> QED
      BY <3>4, <3>5
  <2> QED
    BY <2>3, <2>4
<1>2. ASSUME NEW j \in Jobs, Flags(j) PROVE SessionKnown'
  <2>1. UNCHANGED <<users, runtime, home>>
    BY <1>2 DEF Flags, Raise
  <2>2. \/ generation' = generation /\ (current' = current \/ current = 0)
        \/ generation' = generation + 1 /\ \A v \in Workers : task'[v] = 0
    BY <1>2 DEF Flags, Raise
  <2>3. \A v \in Workers : task'[v] \in {0, task[v]}
    BY <1>2 DEF Flags, Raise
  <2>4. \A i \in Jobs : Kept(i)
    BY <1>2 DEF Flags, Raise, Kept
  <2>5. ASSUME NEW v \in Workers, NEW i \in Messages(v)' PROVE SessionMade(v, i)'
    <3>1. \/ \E k \in Messages(v) : channel'[v][i] = channel[v][k]
          \/ channel'[v][i].kind # "ok"
      BY <1>2 DEF Flags, Raise, Messages
    <3> QED
      BY <2>1, <3>1, MessagesStay
  <2> QED
    BY <2>1, <2>2, <2>3, <2>4, <2>5, SessionStays
<1>3. ASSUME NEW j \in Jobs, Kills(j) PROVE SessionKnown'
  <2>1. UNCHANGED <<users, runtime, home>>
    BY <1>3 DEF Kills, Terminate
  <2>2. \/ generation' = generation /\ (current' = current \/ current = 0)
        \/ generation' = generation + 1 /\ \A v \in Workers : task'[v] = 0
    <3>1. generation' = generation + 1 /\ \A v \in Workers : task'[v] \in {0, task[v]}
      BY <1>3, TerminateEffect DEF Kills
    <3>2. \A v \in Workers : v = current => task'[v] = 0
      BY <1>3, TerminateEffect DEF Kills
    <3> QED
      BY <3>1, <3>2 DEF OneJob
  <2>3. \A v \in Workers : task'[v] \in {0, task[v]}
    BY <1>3, TerminateEffect DEF Kills
  <2>4. \A i \in Jobs : Kept(i)
    <3>1. Reject(current, "cancelled") \/ UNCHANGED <<place, result>>
      BY <1>3 DEF Kills, Terminate
    <3> QED
      BY <3>1, RejectEffect DEF Kept, OneJob
  <2>5. ASSUME NEW v \in Workers, NEW i \in Messages(v)' PROVE SessionMade(v, i)'
    <3>1. \/ \E k \in Messages(v) : channel'[v][i] = channel[v][k]
          \/ channel'[v][i].kind # "ok"
      BY <1>3 DEF Kills, Terminate, Messages
    <3> QED
      BY <2>1, <3>1, MessagesStay
  <2> QED
    BY <2>1, <2>2, <2>3, <2>4, <2>5, SessionStays
<1>4. ASSUME Load PROVE SessionKnown'
  <2>1. UNCHANGED <<users, runtime, home>>
    BY <1>4 DEF Load
  <2>2. \/ generation' = generation /\ (current' = current \/ current = 0)
        \/ generation' = generation + 1 /\ \A v \in Workers : task'[v] = 0
    BY <1>4 DEF Load
  <2>3. \A v \in Workers : task'[v] \in {0, task[v]}
    BY <1>4 DEF Load
  <2>4. \A i \in Jobs : Kept(i)
    BY <1>4 DEF Load, Kept
  <2>5. ASSUME NEW v \in Workers, NEW i \in Messages(v)' PROVE SessionMade(v, i)'
    <3>1. \/ \E k \in Messages(v) : channel'[v][i] = channel[v][k]
          \/ channel'[v][i].kind # "ok"
      BY <1>4 DEF Load, Messages
    <3> QED
      BY <2>1, <3>1, MessagesStay
  <2> QED
    BY <2>1, <2>2, <2>3, <2>4, <2>5, SessionStays
<1>5. ASSUME NEW w \in Workers, FactoryLoads(w) PROVE SessionKnown'
  <2>1. UNCHANGED <<users, runtime, home>>
    BY <1>5 DEF FactoryLoads
  <2>2. \/ generation' = generation /\ (current' = current \/ current = 0)
        \/ generation' = generation + 1 /\ \A v \in Workers : task'[v] = 0
    BY <1>5 DEF FactoryLoads, IsWanted, WorkersKnown, Known
  <2>3. \A v \in Workers : task'[v] \in {0, task[v]}
    BY <1>5 DEF FactoryLoads
  <2>4. \A i \in Jobs : Kept(i)
    <3>1. Reject(w, "error") \/ UNCHANGED <<place, result>>
      BY <1>5 DEF FactoryLoads
    <3> QED
      BY <3>1, RejectEffect DEF Kept, OneJob
  <2>5. ASSUME NEW v \in Workers, NEW i \in Messages(v)' PROVE SessionMade(v, i)'
    <3>1. \/ \E k \in Messages(v) : channel'[v][i] = channel[v][k]
          \/ channel'[v][i].kind # "ok"
      BY <1>5 DEF FactoryLoads, Messages
    <3> QED
      BY <2>1, <3>1, MessagesStay
  <2> QED
    BY <2>1, <2>2, <2>3, <2>4, <2>5, SessionStays
<1>6. ASSUME NEW w \in Workers, FactoryFails(w) PROVE SessionKnown'
  <2>1. UNCHANGED <<users, runtime, home>>
    BY <1>6 DEF FactoryFails
  <2>2. \/ generation' = generation /\ (current' = current \/ current = 0)
        \/ generation' = generation + 1 /\ \A v \in Workers : task'[v] = 0
    BY <1>6 DEF FactoryFails
  <2>3. \A v \in Workers : task'[v] \in {0, task[v]}
    BY <1>6 DEF FactoryFails
  <2>4. \A i \in Jobs : Kept(i)
    <3>1. Reject(w, "error") \/ UNCHANGED <<place, result>>
      BY <1>6 DEF FactoryFails
    <3> QED
      BY <3>1, RejectEffect DEF Kept, OneJob
  <2>5. ASSUME NEW v \in Workers, NEW i \in Messages(v)' PROVE SessionMade(v, i)'
    <3>1. \/ \E k \in Messages(v) : channel'[v][i] = channel[v][k]
          \/ channel'[v][i].kind # "ok"
      BY <1>6 DEF FactoryFails, Messages
    <3> QED
      BY <2>1, <3>1, MessagesStay
  <2> QED
    BY <2>1, <2>2, <2>3, <2>4, <2>5, SessionStays
<1>7. ASSUME NEW w \in Workers, Ignored(w) PROVE SessionKnown'
  <2>1. UNCHANGED <<users, runtime, home>>
    BY <1>7 DEF Ignored
  <2>2. \/ generation' = generation /\ (current' = current \/ current = 0)
        \/ generation' = generation + 1 /\ \A v \in Workers : task'[v] = 0
    BY <1>7 DEF Ignored
  <2>3. \A v \in Workers : task'[v] \in {0, task[v]}
    BY <1>7 DEF Ignored
  <2>4. \A i \in Jobs : Kept(i)
    BY <1>7 DEF Ignored, Kept
  <2>5. ASSUME NEW v \in Workers, NEW i \in Messages(v)' PROVE SessionMade(v, i)'
    <3>1. \/ \E k \in Messages(v) : channel'[v][i] = channel[v][k]
          \/ channel'[v][i].kind # "ok"
      <4>1. PICK kind \in Kinds : Arrives(w, kind)
        BY <1>7 DEF Ignored
      <4> QED
        BY <4>1, Shifted
    <3> QED
      BY <2>1, <3>1, MessagesStay
  <2> QED
    BY <2>1, <2>2, <2>3, <2>4, <2>5, SessionStays
<1>8. ASSUME NEW w \in Workers, SignalArrives(w) PROVE SessionKnown'
  <2>1. UNCHANGED <<users, runtime, home>>
    BY <1>8 DEF SignalArrives
  <2>2. \/ generation' = generation /\ (current' = current \/ current = 0)
        \/ generation' = generation + 1 /\ \A v \in Workers : task'[v] = 0
    BY <1>8 DEF SignalArrives
  <2>3. \A v \in Workers : task'[v] \in {0, task[v]}
    BY <1>8 DEF SignalArrives
  <2>4. \A i \in Jobs : Kept(i)
    BY <1>8 DEF SignalArrives, Kept
  <2>5. ASSUME NEW v \in Workers, NEW i \in Messages(v)' PROVE SessionMade(v, i)'
    <3>1. \/ \E k \in Messages(v) : channel'[v][i] = channel[v][k]
          \/ channel'[v][i].kind # "ok"
      <4>1. Arrives(w, "signal")
        BY <1>8 DEF SignalArrives
      <4> QED
        BY <4>1, Shifted
    <3> QED
      BY <2>1, <3>1, MessagesStay
  <2> QED
    BY <2>1, <2>2, <2>3, <2>4, <2>5, SessionStays
<1>9. ASSUME NEW w \in Workers, ReadyArrives(w) PROVE SessionKnown'
  <2>1. Arrives(w, "ready") /\ w = current /\ ~ready
        /\ UNCHANGED <<users, home, generation, current>>
    <3>1. Arrives(w, "ready") /\ birth[w] = generation
      BY <1>9 DEF ReadyArrives, Heeds
    <3>2. channel[w] # <<>> /\ 1 \in Messages(w) /\ channel[w][1].kind = "ready"
      BY <3>1, Received
    <3> QED
      BY <1>9, <3>1, <3>2 DEF ReadyOnce, Told, WorkersKnown, Known, ReadyArrives
  <2>2. \A v \in Workers : task[v] = 0
    BY <2>1 DEF OneJob
  <2>3. ASSUME NEW v \in Workers, NEW i \in Messages(v)' PROVE SessionMade(v, i)'
    <3>1. \E k \in Messages(v) : channel'[v][i] = channel[v][k]
      BY <2>1, Shifted
    <3> QED
      BY <2>1, <3>1, MessagesStay
  <2>4. CASE active # 0 /\ target = w
    <3>1. active \in Jobs /\ Dispatch(active, w) /\ place[active] = "parked"
      BY <1>9, <2>1, <2>4 DEF ReadyArrives, OneJob, ExecutorTypeOK
    <3>2. active \in users => result[1] = "ok"
      BY <3>1 DEF SessionKnown
    <3> QED
      BY <2>1, <2>2, <2>3, <3>1, <3>2, SessionSurvives
  <2>5. CASE ~(active # 0 /\ target = w)
    <3>1. UNCHANGED <<task, runtime, result, place>>
      BY <1>9, <2>5 DEF ReadyArrives
    <3> QED
      BY <2>1, <2>3, <3>1 DEF SessionKnown
  <2> QED
    BY <2>4, <2>5
<1>10. ASSUME NEW w \in Workers, ResultArrives(w) PROVE SessionKnown'
  <2> DEFINE j == Head(channel[w]).job
  <2>1. PICK value \in {"ok", "error"} :
          /\ Arrives(w, value)
          /\ IF place[j] = "posted" THEN End(j, value)
                                    ELSE UNCHANGED <<result, place, active, target>>
    BY <1>10 DEF ResultArrives
  <2>2. UNCHANGED <<users, home, generation, current, task, runtime>>
    BY <1>10 DEF ResultArrives
  <2>3. 1 \in Messages(w) /\ channel[w][1].kind = value /\ channel[w][1].job = j
    BY <2>1, Received
  <2>4. j \in Jobs
    <3>1. channel[w][1] \in MessageSet
      BY <2>3, MessageTypes
    <3> QED
      BY <2>3, <3>1 DEF MessageSet, AnswersKnown, Answer
  <2>5. ASSUME NEW v \in Workers, NEW i \in Messages(v)' PROVE SessionMade(v, i)'
    <3>1. \E k \in Messages(v) : channel'[v][i] = channel[v][k]
      BY <2>1, Shifted
    <3> QED
      BY <2>2, <3>1, MessagesStay
  <2>6. CASE place[j] = "posted"
    <3>1. /\ place'[j] = "over" /\ result'[j] \in {value, "cancelled"}
          /\ \A i \in Jobs \ {j} : place'[i] = place[i] /\ result'[i] = result[i]
      BY <2>1, <2>4, <2>6, EndEffect
    <3>2. 1 \in Jobs /\ users \subseteq Jobs
      BY DEF ExecutorTypeOK
    <3>3. result[1] = "ok" => place[1] = "over" /\ home # 0
      BY DEF SessionKnown
    <3>4. result'[1] = "ok" => home # 0 /\ place'[1] = "over"
      <4>1. CASE j = 1
        BY <2>3, <3>1, <4>1 DEF SessionKnown, SessionMade
      <4>2. CASE j # 1
        BY <3>1, <3>2, <3>3, <4>2
      <4> QED
        BY <4>1, <4>2
    <3>5. result[1] = "ok" => result'[1] = "ok"
      BY <2>6, <3>1, <3>2, <3>3
    <3>6. \A i \in users : place'[i] # "new" => result'[1] = "ok"
      BY <2>6, <3>1, <3>2, <3>5 DEF SessionKnown
    <3>7. home # 0 => place'[1] \in {"posted", "over"}
      BY <3>1, <3>2 DEF SessionKnown
    <3> QED
      BY <2>2, <2>5, <3>4, <3>6, <3>7 DEF SessionKnown
  <2>7. CASE place[j] # "posted"
    BY <2>1, <2>2, <2>5, <2>7 DEF SessionKnown
  <2> QED
    BY <2>6, <2>7
<1>11. ASSUME NEW w \in Workers, FailureArrives(w) PROVE SessionKnown'
  <2>1. UNCHANGED <<users, runtime, home>>
    BY <1>11 DEF FailureArrives, Terminate
  <2>2. \/ generation' = generation /\ (current' = current \/ current = 0)
        \/ generation' = generation + 1 /\ \A v \in Workers : task'[v] = 0
    <3>1. generation' = generation + 1 /\ \A v \in Workers : task'[v] \in {0, task[v]}
      BY <1>11, TerminateEffect DEF FailureArrives
    <3>2. \A v \in Workers : v = current => task'[v] = 0
      BY <1>11, TerminateEffect DEF FailureArrives
    <3> QED
      BY <3>1, <3>2 DEF OneJob
  <2>3. \A v \in Workers : task'[v] \in {0, task[v]}
    BY <1>11, TerminateEffect DEF FailureArrives
  <2>4. \A i \in Jobs : Kept(i)
    <3>1. Reject(current, "error") \/ UNCHANGED <<place, result>>
      BY <1>11 DEF FailureArrives, Terminate
    <3> QED
      BY <3>1, RejectEffect DEF Kept, OneJob
  <2>5. ASSUME NEW v \in Workers, NEW i \in Messages(v)' PROVE SessionMade(v, i)'
    <3>1. \/ \E k \in Messages(v) : channel'[v][i] = channel[v][k]
          \/ channel'[v][i].kind # "ok"
      <4>1. Arrives(w, "failed")
        BY <1>11 DEF FailureArrives
      <4> QED
        BY <4>1, Shifted
    <3> QED
      BY <2>1, <3>1, MessagesStay
  <2> QED
    BY <2>1, <2>2, <2>3, <2>4, <2>5, SessionStays
<1>12. ASSUME NEW w \in Workers, NEW j \in Jobs, NEW k \in Nat, EventArrives(w, j, k)
       PROVE SessionKnown'
  <2>1. UNCHANGED <<users, runtime, home>>
    BY <1>12 DEF EventArrives
  <2>2. \/ generation' = generation /\ (current' = current \/ current = 0)
        \/ generation' = generation + 1 /\ \A v \in Workers : task'[v] = 0
    BY <1>12 DEF EventArrives
  <2>3. \A v \in Workers : task'[v] \in {0, task[v]}
    BY <1>12 DEF EventArrives
  <2>4. \A i \in Jobs : Kept(i)
    BY <1>12 DEF EventArrives, Kept
  <2>5. ASSUME NEW v \in Workers, NEW i \in Messages(v)' PROVE SessionMade(v, i)'
    <3>1. \/ \E n \in Messages(v) : channel'[v][i] = channel[v][n]
          \/ channel'[v][i].kind # "ok"
      <4>1. Arrives(w, "event")
        BY <1>12 DEF EventArrives
      <4> QED
        BY <4>1, Shifted
    <3> QED
      BY <2>1, <3>1, MessagesStay
  <2> QED
    BY <2>1, <2>2, <2>3, <2>4, <2>5, SessionStays
<1>13. ASSUME NEW w \in Workers, Boot(w) PROVE SessionKnown'
  <2>1. UNCHANGED <<users, runtime, home>>
    BY <1>13 DEF Boot
  <2>2. \/ generation' = generation /\ (current' = current \/ current = 0)
        \/ generation' = generation + 1 /\ \A v \in Workers : task'[v] = 0
    BY <1>13 DEF Boot
  <2>3. \A v \in Workers : task'[v] \in {0, task[v]}
    BY <1>13 DEF Boot
  <2>4. \A i \in Jobs : Kept(i)
    BY <1>13 DEF Boot, Kept
  <2>5. ASSUME NEW v \in Workers, NEW i \in Messages(v)' PROVE SessionMade(v, i)'
    <3>1. \/ \E k \in Messages(v) : channel'[v][i] = channel[v][k]
          \/ channel'[v][i].kind # "ok"
      <4>1. channel[w] = <<>>
        BY <1>13 DEF Boot, WorkersKnown, Known
      <4>2. CASE v = w
        BY <1>13, <4>1, <4>2, BootSends DEF Messages
      <4>3. CASE v # w
        BY <1>13, <4>1, <4>3, BootSends DEF Messages
      <4> QED
        BY <4>2, <4>3
    <3> QED
      BY <2>1, <3>1, MessagesStay
  <2> QED
    BY <2>1, <2>2, <2>3, <2>4, <2>5, SessionStays
<1>14. ASSUME NEW w \in Workers, Emit(w) PROVE SessionKnown'
  <2>1. UNCHANGED <<users, runtime, home>>
    BY <1>14 DEF Emit
  <2>2. \/ generation' = generation /\ (current' = current \/ current = 0)
        \/ generation' = generation + 1 /\ \A v \in Workers : task'[v] = 0
    BY <1>14 DEF Emit
  <2>3. \A v \in Workers : task'[v] \in {0, task[v]}
    BY <1>14 DEF Emit
  <2>4. \A i \in Jobs : Kept(i)
    BY <1>14 DEF Emit, Kept
  <2>5. ASSUME NEW v \in Workers, NEW i \in Messages(v)' PROVE SessionMade(v, i)'
    <3>1. \/ \E k \in Messages(v) : channel'[v][i] = channel[v][k]
          \/ channel'[v][i].kind # "ok"
      <4>1. PICK m : Sends(w, m) /\ m.kind = "event"
        BY <1>14, EmitSends
      <4> QED
        BY <4>1, SentOrThere
    <3> QED
      BY <2>1, <3>1, MessagesStay
  <2> QED
    BY <2>1, <2>2, <2>3, <2>4, <2>5, SessionStays
<1>15. ASSUME NEW w \in Workers, Return(w) PROVE SessionKnown'
  <2>1. UNCHANGED <<users, runtime, generation, current, place, result>>
    BY <1>15 DEF Return
  <2>2. /\ w = current /\ w # 0 /\ task[w] # 0 /\ place[task[w]] = "posted"
        /\ \A v \in Workers : task'[v] = 0
    <3>1. task[w] # 0 /\ w # 0 /\ task' = [task EXCEPT ![w] = 0]
      BY <1>15 DEF Return
    <3>2. \A v \in Workers \ {w} : task[v] = 0
      BY <3>1 DEF OneJob
    <3> QED
      BY <3>1, <3>2 DEF OneJob, ExecutorTypeOK
  <2>3. PICK m : /\ Sends(w, m) /\ m.job = task[w]
                 /\ home' = IF task[w] = 1 /\ m.kind = "ok" THEN w ELSE home
    BY <1>15, ReturnSends
  <2>4. home # 0 => home' # 0
    BY <2>2, <2>3
  <2>5. ASSUME NEW v \in Workers, NEW i \in Messages(v)' PROVE SessionMade(v, i)'
    <3>1. CASE i \in Messages(v) /\ channel'[v][i] = channel[v][i]
      BY <2>4, <3>1 DEF SessionKnown, SessionMade
    <3>2. CASE v = w /\ channel'[v][i] = m
      BY <2>2, <2>3, <3>2 DEF SessionMade
    <3> QED
      BY <2>3, <3>1, <3>2, SentOrThere
  <2>6. home' # 0 => /\ runtime = generation => home' = current
                     /\ place[1] \in {"posted", "over"}
    BY <2>2, <2>3 DEF SessionKnown
  <2> QED
    BY <2>1, <2>2, <2>4, <2>5, <2>6 DEF SessionKnown
<1>16. ASSUME NEW w \in Workers, Crash(w) PROVE SessionKnown'
  <2>1. UNCHANGED <<users, runtime, home>>
    BY <1>16 DEF Crash
  <2>2. \/ generation' = generation /\ (current' = current \/ current = 0)
        \/ generation' = generation + 1 /\ \A v \in Workers : task'[v] = 0
    BY <1>16 DEF Crash
  <2>3. \A v \in Workers : task'[v] \in {0, task[v]}
    BY <1>16 DEF Crash, ExecutorTypeOK
  <2>4. \A i \in Jobs : Kept(i)
    BY <1>16 DEF Crash, Kept
  <2>5. ASSUME NEW v \in Workers, NEW i \in Messages(v)' PROVE SessionMade(v, i)'
    <3>1. \/ \E k \in Messages(v) : channel'[v][i] = channel[v][k]
          \/ channel'[v][i].kind # "ok"
      <4>1. PICK m : Sends(w, m) /\ m.kind = "failed"
        BY <1>16, CrashSends
      <4> QED
        BY <4>1, SentOrThere
    <3> QED
      BY <2>1, <3>1, MessagesStay
  <2> QED
    BY <2>1, <2>2, <2>3, <2>4, <2>5, SessionStays
<1> QED
  BY <1>1, <1>2, <1>3, <1>4, <1>5, <1>6, <1>7, <1>8, <1>9, <1>10, <1>11, <1>12,
     <1>13, <1>14, <1>15, <1>16 DEF ExecutorNext

LEMMA StepSessionsStayHome ==
  ASSUME WorkerExecutorAssumption, ExecutorTypeOK, WorkersKnown, ReadyOnce, OneJob,
     SessionKnown, SessionsStayHome, ExecutorNext
  PROVE  SessionsStayHome'
<1> USE WorkerExecutorAssumption DEF WorkerExecutorAssumption, Jobs, Workers,
   manager_vars, thread_vars, job_vars, input_vars, SessionsStayHome
<1>1. ASSUME NEW j \in Jobs, Execute(j) PROVE SessionsStayHome'
  <2>1. UNCHANGED <<users, home>> /\ 0 \notin users /\ (j \in users => result[1] = "ok")
    BY <1>1 DEF Execute, ExecutorTypeOK
  <2>2. \A v \in Workers : task[v] = 0
    BY <1>1 DEF Execute, OneJob
  <2>3. CASE ready
    <3>1. current \in Workers /\ Dispatch(j, current)
      BY <1>1, <2>3 DEF Execute, ReadyOnce, ExecutorTypeOK
    <3>2. \A v \in Workers \ {current} : task'[v] = 0
      BY <2>2, <3>1, DispatchEffect
    <3>3. CASE task'[current] = 0
      BY <2>1, <3>2, <3>3 DEF ExecutorTypeOK
    <3>4. CASE task'[current] = j /\ KnowsSession(j)
      <4>1. j \in users => home = current
        BY <2>1, <3>1, <3>4 DEF SessionKnown, KnowsSession
      <4> QED
        BY <2>1, <3>2, <3>4, <4>1 DEF ExecutorTypeOK
    <3> QED
      BY <2>2, <3>1, <3>3, <3>4, DispatchEffect
  <2>4. CASE ~ready
    BY <1>1, <2>1, <2>4 DEF Execute
  <2> QED
    BY <2>3, <2>4
<1>2. ASSUME NEW j \in Jobs, Flags(j) PROVE SessionsStayHome'
  <2>1. UNCHANGED <<users, home>> /\ \A v \in Workers : task'[v] \in {0, task[v]}
    BY <1>2, TerminateEffect DEF Flags, Raise, ExecutorTypeOK
  <2>2. 0 \notin users
    BY DEF ExecutorTypeOK
  <2> QED
    BY <2>1, <2>2
<1>3. ASSUME NEW j \in Jobs, Kills(j) PROVE SessionsStayHome'
  <2>1. UNCHANGED <<users, home>> /\ \A v \in Workers : task'[v] \in {0, task[v]}
    BY <1>3, TerminateEffect DEF Kills, ExecutorTypeOK
  <2>2. 0 \notin users
    BY DEF ExecutorTypeOK
  <2> QED
    BY <2>1, <2>2
<1>4. ASSUME Load PROVE SessionsStayHome'
  <2>1. UNCHANGED <<users, home>> /\ \A v \in Workers : task'[v] \in {0, task[v]}
    BY <1>4, TerminateEffect DEF Load, ExecutorTypeOK
  <2>2. 0 \notin users
    BY DEF ExecutorTypeOK
  <2> QED
    BY <2>1, <2>2
<1>5. ASSUME NEW w \in Workers, FactoryLoads(w) PROVE SessionsStayHome'
  <2>1. UNCHANGED <<users, home>> /\ \A v \in Workers : task'[v] \in {0, task[v]}
    BY <1>5, TerminateEffect DEF FactoryLoads, ExecutorTypeOK
  <2>2. 0 \notin users
    BY DEF ExecutorTypeOK
  <2> QED
    BY <2>1, <2>2
<1>6. ASSUME NEW w \in Workers, FactoryFails(w) PROVE SessionsStayHome'
  <2>1. UNCHANGED <<users, home>> /\ \A v \in Workers : task'[v] \in {0, task[v]}
    BY <1>6, TerminateEffect DEF FactoryFails, ExecutorTypeOK
  <2>2. 0 \notin users
    BY DEF ExecutorTypeOK
  <2> QED
    BY <2>1, <2>2
<1>7. ASSUME NEW w \in Workers, Ignored(w) PROVE SessionsStayHome'
  <2>1. UNCHANGED <<users, home>> /\ \A v \in Workers : task'[v] \in {0, task[v]}
    BY <1>7, TerminateEffect DEF Ignored, ExecutorTypeOK
  <2>2. 0 \notin users
    BY DEF ExecutorTypeOK
  <2> QED
    BY <2>1, <2>2
<1>8. ASSUME NEW w \in Workers, SignalArrives(w) PROVE SessionsStayHome'
  <2>1. UNCHANGED <<users, home>> /\ \A v \in Workers : task'[v] \in {0, task[v]}
    BY <1>8, TerminateEffect DEF SignalArrives, ExecutorTypeOK
  <2>2. 0 \notin users
    BY DEF ExecutorTypeOK
  <2> QED
    BY <2>1, <2>2
<1>9. ASSUME NEW w \in Workers, ReadyArrives(w) PROVE SessionsStayHome'
  <2>1. UNCHANGED <<users, home>> /\ 0 \notin users /\ w = current /\ ~ready
    <3>1. Arrives(w, "ready") /\ birth[w] = generation
      BY <1>9 DEF ReadyArrives, Heeds
    <3>2. channel[w] # <<>> /\ 1 \in Messages(w) /\ channel[w][1].kind = "ready"
      BY <3>1, Received
    <3>3. w = current /\ ~ready
      BY <3>1, <3>2 DEF ReadyOnce, Told, WorkersKnown, Known
    <3>4. 0 \notin users /\ UNCHANGED <<users, home>>
      BY <1>9 DEF ReadyArrives, ExecutorTypeOK
    <3> QED
      BY <3>1, <3>3, <3>4
  <2>2. \A v \in Workers : task[v] = 0
    BY <2>1 DEF OneJob
  <2>3. CASE active # 0 /\ target = w
    <3>1. active \in Jobs /\ Dispatch(active, w) /\ (active \in users => result[1] = "ok")
      <4>1. active \in Jobs /\ Dispatch(active, w)
        BY <1>9, <2>3 DEF ReadyArrives, ExecutorTypeOK
      <4>2. place[active] # "new"
        BY <4>1 DEF OneJob
      <4> QED
        BY <4>1, <4>2 DEF SessionKnown
    <3>2. \A v \in Workers \ {w} : task'[v] = 0
      BY <2>2, <3>1, DispatchEffect
    <3>3. CASE task'[w] = 0
      BY <2>1, <3>2, <3>3 DEF ExecutorTypeOK
    <3>4. CASE task'[w] = active /\ KnowsSession(active)
      <4>1. active \in users => home = w
        BY <2>1, <3>1, <3>4 DEF SessionKnown, KnowsSession
      <4> QED
        BY <2>1, <3>2, <3>4, <4>1 DEF ExecutorTypeOK
    <3> QED
      BY <2>2, <3>1, <3>3, <3>4, DispatchEffect
  <2>4. CASE ~(active # 0 /\ target = w)
    <3>1. UNCHANGED task
      BY <1>9, <2>4 DEF ReadyArrives
    <3> QED
      BY <2>1, <3>1
  <2> QED
    BY <2>3, <2>4
<1>10. ASSUME NEW w \in Workers, ResultArrives(w) PROVE SessionsStayHome'
  <2>1. UNCHANGED <<users, home>> /\ \A v \in Workers : task'[v] \in {0, task[v]}
    BY <1>10, TerminateEffect DEF ResultArrives, ExecutorTypeOK
  <2>2. 0 \notin users
    BY DEF ExecutorTypeOK
  <2> QED
    BY <2>1, <2>2
<1>11. ASSUME NEW w \in Workers, FailureArrives(w) PROVE SessionsStayHome'
  <2>1. UNCHANGED <<users, home>> /\ \A v \in Workers : task'[v] \in {0, task[v]}
    BY <1>11, TerminateEffect DEF FailureArrives, ExecutorTypeOK
  <2>2. 0 \notin users
    BY DEF ExecutorTypeOK
  <2> QED
    BY <2>1, <2>2
<1>12. ASSUME NEW w \in Workers, NEW j \in Jobs, NEW k \in Nat, EventArrives(w, j, k)
       PROVE SessionsStayHome'
  <2>1. UNCHANGED <<users, home>> /\ \A v \in Workers : task'[v] \in {0, task[v]}
    BY <1>12, TerminateEffect DEF EventArrives, ExecutorTypeOK
  <2>2. 0 \notin users
    BY DEF ExecutorTypeOK
  <2> QED
    BY <2>1, <2>2
<1>13. ASSUME NEW w \in Workers, Boot(w) PROVE SessionsStayHome'
  <2>1. UNCHANGED <<users, home>> /\ \A v \in Workers : task'[v] \in {0, task[v]}
    BY <1>13, TerminateEffect DEF Boot, ExecutorTypeOK
  <2>2. 0 \notin users
    BY DEF ExecutorTypeOK
  <2> QED
    BY <2>1, <2>2
<1>14. ASSUME NEW w \in Workers, Emit(w) PROVE SessionsStayHome'
  <2>1. UNCHANGED <<users, home>> /\ \A v \in Workers : task'[v] \in {0, task[v]}
    BY <1>14, TerminateEffect DEF Emit, ExecutorTypeOK
  <2>2. 0 \notin users
    BY DEF ExecutorTypeOK
  <2> QED
    BY <2>1, <2>2
<1>15. ASSUME NEW w \in Workers, Return(w) PROVE SessionsStayHome'
  <2>1. task' = [task EXCEPT ![w] = 0] /\ task[w] # 0 /\ users' = users
    BY <1>15 DEF Return
  <2>2. \A v \in Workers : task'[v] = 0
    BY <2>1 DEF OneJob, ExecutorTypeOK
  <2>3. 0 \notin users
    BY DEF ExecutorTypeOK
  <2> QED
    BY <2>1, <2>2, <2>3
<1>16. ASSUME NEW w \in Workers, Crash(w) PROVE SessionsStayHome'
  <2>1. UNCHANGED <<users, home>> /\ \A v \in Workers : task'[v] \in {0, task[v]}
    BY <1>16, TerminateEffect DEF Crash, ExecutorTypeOK
  <2>2. 0 \notin users
    BY DEF ExecutorTypeOK
  <2> QED
    BY <2>1, <2>2
<1> QED
  BY <1>1, <1>2, <1>3, <1>4, <1>5, <1>6, <1>7, <1>8, <1>9, <1>10, <1>11, <1>12,
     <1>13, <1>14, <1>15, <1>16 DEF ExecutorNext

LEMMA StepExecutorInd ==
  ASSUME WorkerExecutorAssumption, ExecutorInd, ExecutorNext
  PROVE  ExecutorInd'
BY StepExecutorType, StepWorkersKnown, StepReadyOnce, StepOneJob, StepAnswersKnown,
   StepStopParked, StepSessionKnown, StepStopsHit, StepSessionsStayHome DEF ExecutorInd

LEMMA StutterExecutorInd ==
  ASSUME ExecutorInd, UNCHANGED executor_vars
  PROVE  ExecutorInd'
<1> USE DEF executor_vars, manager_vars, thread_vars, job_vars, input_vars, Messages
<1>1. ExecutorTypeOK'
  BY DEF ExecutorInd, ExecutorTypeOK
<1>2. WorkersKnown' /\ ReadyOnce'
  BY DEF ExecutorInd, WorkersKnown, Known, ReadyOnce, Told
<1>3. OneJob' /\ AnswersKnown' /\ StopParked'
  BY DEF ExecutorInd, OneJob, AnswersKnown, Answer, StopParked
<1>4. SessionKnown' /\ StopsHitTheirJob' /\ SessionsStayHome'
  BY DEF ExecutorInd, SessionKnown, SessionMade, StopsHitTheirJob, SessionsStayHome
<1> QED
  BY <1>1, <1>2, <1>3, <1>4 DEF ExecutorInd

-----------------------------------------------------------------------------
(* The calls over the executor.                                             *)

\* Nobody waits for an observer that is stopped.
Released == \A j \in stopped : observing[j] = 0

IndInv == TypeOK /\ ExecutorInd /\ Released

\* A stop does nothing, or raises the flag, or terminates the worker.
LEMMA CancelSteps ==
  ASSUME WorkerExecutorAssumption, ExecutorTypeOK, NEW j \in Jobs, Cancel(j)
  PROVE  UNCHANGED executor_vars \/ Flags(j) \/ Kills(j)
<1>1. stopsBy[j] \in StopsBy
  BY DEF WorkerExecutorAssumption, ExecutorTypeOK
<1>2. CASE ~Holds(j) \/ j \in cancelled \/ stopsBy[j] = "nothing"
  BY <1>2 DEF Cancel
<1>3. CASE ~(~Holds(j) \/ j \in cancelled \/ stopsBy[j] = "nothing")
  <2>1. active = j
    BY <1>3 DEF Holds
  <2>2. CASE stopsBy[j] = "interruption"
    BY <1>3, <2>1, <2>2 DEF Cancel, Flags
  <2>3. CASE stopsBy[j] = "flag"
    BY <1>3, <2>1, <2>3 DEF Cancel, Flags
  <2>4. CASE stopsBy[j] = "termination"
    BY <1>3, <2>1, <2>4 DEF Cancel, Kills
  <2> QED
    BY <1>1, <1>3, <2>2, <2>3, <2>4 DEF StopsBy
<1> QED
  BY <1>2, <1>3

LEMMA InterruptSteps ==
  ASSUME WorkerExecutorAssumption, ExecutorTypeOK, NEW j \in Jobs, Interrupt(j)
  PROVE  UNCHANGED executor_vars \/ Flags(j)
<1>1. stopsBy[j] \in StopsBy
  BY DEF WorkerExecutorAssumption, ExecutorTypeOK
<1> QED
  BY <1>1 DEF Interrupt, Holds, Flags, StopsBy

\* What a step of the whole does to the executor.
LEMMA ExecutorSteps ==
  ASSUME WorkerExecutorAssumption, ExecutorTypeOK, Next
  PROVE  ExecutorNext \/ UNCHANGED executor_vars
<1>1. ASSUME NEW j \in Jobs, Calls(j) PROVE ExecutorNext
  BY <1>1 DEF Calls, ExecutorNext
<1>2. ASSUME NEW j \in Jobs, Abort(j) \/ ObserverFails(j)
      PROVE  ExecutorNext \/ UNCHANGED executor_vars
  BY <1>2, CancelSteps DEF Abort, ObserverFails, ExecutorNext
<1>3. ASSUME NEW j \in Jobs, InterruptCall(j)
      PROVE  ExecutorNext \/ UNCHANGED executor_vars
  BY <1>3, InterruptSteps DEF InterruptCall, ExecutorNext
<1>4. ASSUME NEW j \in Jobs,
             ObserverReturns(j) \/ Rejected(j) \/ Answered(j) \/ Commit(j) \/ Conclude(j)
      PROVE  UNCHANGED executor_vars
  BY <1>4 DEF ObserverReturns, Rejected, Answered, Commit, Conclude
<1>5. ASSUME NEW j \in Jobs, EventArrivesAt(j) PROVE ExecutorNext
  <2>1. PICK w \in Workers, k \in 1..emitted[j] : EventArrives(w, j, k)
    BY <1>5 DEF EventArrivesAt
  <2>2. k \in Nat
    BY DEF ExecutorTypeOK
  <2> QED
    BY <2>1, <2>2 DEF ExecutorNext
<1>6. ASSUME Manager \/ Load \/ Thread PROVE ExecutorNext
  BY <1>6 DEF Manager, Thread, ExecutorNext
<1> QED
  BY <1>1, <1>2, <1>3, <1>4, <1>5, <1>6 DEF Next, Caller, User, Parent

CallTypes ==
  /\ call \in [Jobs -> {"idle", "waiting", "draining", "committing", "settled"}]
  /\ stopped \subseteq Jobs /\ aborted \subseteq Jobs /\ failed \subseteq Jobs
  /\ outcome \in [Jobs -> {"pending", "value", "aborted", "observer", "error"}]

ObserverTypes ==
  /\ chain \in [Jobs -> Seq(Nat)]
  /\ observing \in [Jobs -> Nat]
  /\ seen \in [Jobs -> Seq(Nat)]

LEMMA StepCallTypes ==
  ASSUME CallTypes, [Next]_vars
  PROVE  CallTypes'
<1> USE DEF CallTypes, call_vars, observer_vars
<1>1. ASSUME NEW j \in Jobs, Calls(j) PROVE CallTypes'
  BY <1>1 DEF Calls
<1>2. ASSUME NEW j \in Jobs, Abort(j) PROVE CallTypes'
  BY <1>2 DEF Abort, StopObservers
<1>3. ASSUME NEW j \in Jobs, InterruptCall(j) PROVE CallTypes'
  BY <1>3 DEF InterruptCall
<1>4. ASSUME NEW j \in Jobs, ObserverReturns(j) PROVE CallTypes'
  BY <1>4 DEF ObserverReturns
<1>5. ASSUME NEW j \in Jobs, ObserverFails(j) PROVE CallTypes'
  BY <1>5 DEF ObserverFails, StopObservers
<1>6. ASSUME NEW j \in Jobs, EventArrivesAt(j) PROVE CallTypes'
  BY <1>6 DEF EventArrivesAt, OnEvent
<1>7. ASSUME NEW j \in Jobs, Rejected(j) PROVE CallTypes'
  <2>1. stopped' = stopped \cup {j}
        /\ \E value \in {"error", "observer", "aborted"} : Settle(j, value)
    BY <1>7 DEF Rejected
  <2> QED
    BY <2>1 DEF Settle
<1>8. ASSUME NEW j \in Jobs, Answered(j) PROVE CallTypes'
  BY <1>8 DEF Answered
<1>9. ASSUME NEW j \in Jobs, Commit(j) PROVE CallTypes'
  BY <1>9 DEF Commit
<1>10. ASSUME NEW j \in Jobs, Conclude(j) PROVE CallTypes'
  <2>1. stopped' = stopped \cup {j}
        /\ \E value \in {"error", "observer", "aborted", "value"} : Settle(j, value)
    BY <1>10 DEF Conclude, StopObservers
  <2> QED
    BY <2>1 DEF Settle
<1>11. CASE UNCHANGED <<observer_vars, call_vars>>
  BY <1>11
<1>12. CASE UNCHANGED vars
  BY <1>12 DEF vars
<1> QED
  BY <1>1, <1>2, <1>3, <1>4, <1>5, <1>6, <1>7, <1>8, <1>9, <1>10, <1>11, <1>12
     DEF Next, Caller, User, Parent

\* The observer is called: what it has seen is longer by that event.
LEMMA CallEffect ==
  ASSUME ObserverTypes, NEW j \in Jobs, NEW k \in Nat, Call(j, k)
  PROVE  observing' \in [Jobs -> Nat] /\ seen' \in [Jobs -> Seq(Nat)]
<1>1. Append(seen[j], k) \in Seq(Nat)
  BY DEF ObserverTypes
<1> QED
  BY <1>1 DEF Call, ObserverTypes

LEMMA StopEffect ==
  ASSUME ObserverTypes, NEW j \in Jobs,
         observing' = [observing EXCEPT ![j] = 0], chain' = [chain EXCEPT ![j] = <<>>]
  PROVE  observing' \in [Jobs -> Nat] /\ chain' \in [Jobs -> Seq(Nat)]
<1>1. <<>> \in Seq(Nat)
  OBVIOUS
<1> QED
  BY <1>1 DEF ObserverTypes

LEMMA StepObserverTypes ==
  ASSUME ExecutorTypeOK, ObserverTypes, [Next]_vars
  PROVE  ObserverTypes'
<1> USE DEF call_vars, observer_vars
<1>1. ASSUME NEW j \in Jobs, StopObservers(j) PROVE ObserverTypes'
  BY <1>1, StopEffect DEF StopObservers, ObserverTypes
<1>2. ASSUME NEW j \in Jobs, Abort(j) \/ ObserverFails(j) \/ Conclude(j) PROVE ObserverTypes'
  BY <1>1, <1>2 DEF Abort, ObserverFails, Conclude
<1>3. ASSUME NEW j \in Jobs, Calls(j) \/ InterruptCall(j) \/ Answered(j) \/ Commit(j)
      PROVE  ObserverTypes'
  BY <1>3 DEF Calls, InterruptCall, Answered, Commit, ObserverTypes
<1>4. ASSUME NEW j \in Jobs, ObserverReturns(j) PROVE ObserverTypes'
  <2>1. Advance(j)
    BY <1>4 DEF ObserverReturns
  <2>2. CASE chain[j] = <<>>
    <3>1. observing' = [observing EXCEPT ![j] = 0] /\ chain' = chain /\ seen' = seen
      BY <2>1, <2>2 DEF Advance
    <3> QED
      BY <3>1 DEF ObserverTypes
  <2>3. CASE chain[j] # <<>>
    <3>1. Head(chain[j]) \in Nat /\ Tail(chain[j]) \in Seq(Nat)
      BY <2>3 DEF ObserverTypes
    <3>2. Call(j, Head(chain[j])) /\ chain' = [chain EXCEPT ![j] = Tail(chain[j])]
      BY <2>1, <2>3 DEF Advance
    <3>3. observing' \in [Jobs -> Nat] /\ seen' \in [Jobs -> Seq(Nat)]
      BY <3>1, <3>2, CallEffect
    <3>4. chain' \in [Jobs -> Seq(Nat)]
      BY <3>1, <3>2 DEF ObserverTypes
    <3> QED
      BY <3>3, <3>4 DEF ObserverTypes
  <2> QED
    BY <2>2, <2>3
<1>5. ASSUME NEW j \in Jobs, EventArrivesAt(j) PROVE ObserverTypes'
  <2>1. PICK k \in 1..emitted[j] : OnEvent(j, k) \/ UNCHANGED observer_vars
    BY <1>5 DEF EventArrivesAt
  <2>2. k \in Nat
    BY DEF ExecutorTypeOK
  <2>3. CASE Call(j, k) /\ UNCHANGED chain
    BY <2>2, <2>3, CallEffect DEF ObserverTypes
  <2>4. CASE chain' = [chain EXCEPT ![j] = Append(@, k)] /\ UNCHANGED <<observing, seen>>
    <3>1. Append(chain[j], k) \in Seq(Nat)
      BY <2>2 DEF ObserverTypes
    <3> QED
      BY <2>4, <3>1 DEF ObserverTypes
  <2>5. CASE UNCHANGED <<chain, observing, seen>>
    BY <2>5 DEF ObserverTypes
  <2> QED
    BY <2>1, <2>3, <2>4, <2>5 DEF OnEvent
<1>6. ASSUME NEW j \in Jobs, Rejected(j) PROVE ObserverTypes'
  <2>1. observing' \in [Jobs -> Nat] /\ chain' \in [Jobs -> Seq(Nat)]
    BY <1>6, StopEffect DEF Rejected
  <2>2. Append(seen[j], 0) \in Seq(Nat)
    BY DEF ObserverTypes
  <2>3. seen' \in {seen, [seen EXCEPT ![j] = Append(seen[j], 0)]}
    BY <1>6 DEF Rejected
  <2>4. seen' \in [Jobs -> Seq(Nat)]
    BY <2>2, <2>3 DEF ObserverTypes
  <2> QED
    BY <2>1, <2>4 DEF ObserverTypes
<1>7. CASE UNCHANGED <<observer_vars, call_vars>>
  BY <1>7 DEF ObserverTypes
<1>8. CASE UNCHANGED vars
  BY <1>8 DEF vars, ObserverTypes
<1> QED
  BY <1>2, <1>3, <1>4, <1>5, <1>6, <1>7, <1>8 DEF Next, Caller, User, Parent

LEMMA StepReleased ==
  ASSUME ObserverTypes, CallTypes, Released, [Next]_vars
  PROVE  Released'
<1> USE DEF Released, ObserverTypes, CallTypes
<1>1. ASSUME NEW j \in Jobs,
             stopped' = stopped \cup {j}, observing' = [observing EXCEPT ![j] = 0]
      PROVE  Released'
  BY <1>1
<1>2. ASSUME NEW j \in Jobs, Abort(j) \/ ObserverFails(j) \/ Conclude(j) \/ Rejected(j)
      PROVE  Released'
  BY <1>1, <1>2 DEF Abort, ObserverFails, Conclude, Rejected, StopObservers
<1>3. ASSUME NEW j \in Jobs, Calls(j) \/ InterruptCall(j) \/ Answered(j) \/ Commit(j)
      PROVE  Released'
  BY <1>3 DEF Calls, InterruptCall, Answered, Commit, observer_vars
<1>4. ASSUME NEW j \in Jobs, ObserverReturns(j) PROVE Released'
  <2>1. j \notin stopped /\ stopped' = stopped
    BY <1>4 DEF ObserverReturns
  <2>2. \A i \in Jobs \ {j} : observing'[i] = observing[i]
    BY <1>4 DEF ObserverReturns, Advance, Call
  <2> QED
    BY <2>1, <2>2
<1>5. ASSUME NEW j \in Jobs, EventArrivesAt(j) PROVE Released'
  <2>1. stopped' = stopped
    BY <1>5 DEF EventArrivesAt, OnEvent, observer_vars
  <2>2. j \in stopped => observing' = observing
    BY <1>5 DEF EventArrivesAt, OnEvent, observer_vars
  <2>3. \A i \in Jobs \ {j} : observing'[i] = observing[i]
    BY <1>5 DEF EventArrivesAt, OnEvent, Call, observer_vars
  <2> QED
    BY <2>1, <2>2, <2>3
<1>6. CASE UNCHANGED <<observer_vars, call_vars>>
  BY <1>6 DEF observer_vars
<1>7. CASE UNCHANGED vars
  BY <1>7 DEF vars, observer_vars
<1> QED
  BY <1>2, <1>3, <1>4, <1>5, <1>6, <1>7 DEF Next, Caller, User, Parent

LEMMA InitInd ==
  ASSUME WorkerExecutorAssumption, Init
  PROVE  IndInv
<1> USE WorkerExecutorAssumption DEF WorkerExecutorAssumption, Init, ExecutorInit
<1>1. ExecutorTypeOK
  <2>1. <<>> \in Seq([kind : Kinds, job : 0..MaxJobs, value : Nat])
    OBVIOUS
  <2>2. channel \in [Workers -> Seq([kind : Kinds, job : 0..MaxJobs, value : Nat])]
    BY <2>1
  <2>3. ManagerTypes
    <3>1. birth \in [Workers -> Nat]
      OBVIOUS
    <3>2. /\ generation \in Nat /\ created \in 0..MaxWorkers /\ loading \in 0..MaxWorkers
          /\ current \in 0..MaxWorkers /\ signal \in 0..MaxWorkers
      OBVIOUS
    <3> QED
      BY <3>1, <3>2 DEF ManagerTypes
  <2>4. ready \in BOOLEAN
    OBVIOUS
  <2>5. ThreadTypes
    BY DEF ThreadTypes
  <2>6. JobTypes
    BY DEF JobTypes, Jobs
  <2> QED
    BY <2>2, <2>3, <2>4, <2>5, <2>6 DEF ExecutorTypeOK, ManagerTypes, ThreadTypes, JobTypes
<1>2. TypeOK
  <2>1. <<>> \in Seq(Nat)
    OBVIOUS
  <2> QED
    BY <1>1, <2>1 DEF TypeOK
<1>3. \A w \in Workers : Messages(w) = {}
  BY DEF Messages
<1>4. WorkersKnown
  BY DEF WorkersKnown, Known, Workers
<1>5. ReadyOnce /\ AnswersKnown
  BY <1>3 DEF ReadyOnce, AnswersKnown
<1>6. OneJob /\ StopParked /\ StopsHitTheirJob
  BY DEF OneJob, StopParked, StopsHitTheirJob, Jobs
<1>7. SessionKnown
  BY <1>3 DEF SessionKnown, Jobs
<1>8. SessionsStayHome
  BY DEF SessionsStayHome, Jobs
<1> QED
  BY <1>1, <1>2, <1>4, <1>5, <1>6, <1>7, <1>8 DEF IndInv, ExecutorInd, Released

LEMMA StepInd ==
  ASSUME WorkerExecutorAssumption, IndInv, [Next]_vars
  PROVE  IndInv'
<1>1. ExecutorInd'
  <2>1. CASE Next
    BY <2>1, ExecutorSteps, StepExecutorInd, StutterExecutorInd DEF IndInv, ExecutorInd
  <2>2. CASE UNCHANGED vars
    BY <2>2, StutterExecutorInd DEF IndInv, vars
  <2> QED
    BY <2>1, <2>2
<1>2. ExecutorTypeOK /\ CallTypes /\ ObserverTypes /\ Released
  BY DEF IndInv, TypeOK, CallTypes, ObserverTypes
<1>3. CallTypes' /\ ObserverTypes' /\ Released'
  BY <1>2, StepCallTypes, StepObserverTypes, StepReleased
<1> QED
  BY <1>1, <1>3 DEF IndInv, TypeOK, ExecutorInd, CallTypes, ObserverTypes

-----------------------------------------------------------------------------
(* The theorems.                                                            *)

\* The inductive invariant holds in every reachable state.
THEOREM SolverJobIndInvHolds == Spec => []IndInv
<1>1. Init => IndInv
  BY WorkerExecutorAssumption, InitInd
<1>2. IndInv /\ [Next]_vars => IndInv'
  BY WorkerExecutorAssumption, StepInd
<1> QED
  BY <1>1, <1>2, PTL DEF Spec

\* Types: every channel holds messages, every parked, posted or active job is one
\* that was started.
THEOREM SolverJobTypeCorrect == Spec => []TypeOK
<1>1. IndInv => TypeOK
  BY DEF IndInv
<1> QED
  BY <1>1, SolverJobIndInvHolds, PTL

\* A stop never hits a job it was not meant for, although cancel and interrupt wait
\* for the worker between the check of the job and the store of the flag.
THEOREM StopsNeverStray == Spec => []StopsHitTheirJob
<1>1. IndInv => StopsHitTheirJob
  BY DEF IndInv, ExecutorInd
<1> QED
  BY <1>1, SolverJobIndInvHolds, PTL

\* A job that uses a session runs on the worker that has it, for any number of
\* replacements of the worker.
THEOREM SessionsNeverMove == Spec => []SessionsStayHome
<1>1. IndInv => SessionsStayHome
  BY DEF IndInv, ExecutorInd
<1> QED
  BY <1>1, SolverJobIndInvHolds, PTL

\* A worker that has been retired does not run on, at whatever point of its start
\* it was.
THEOREM NobodyIsOrphaned == Spec => []NoOrphans
<1>1. IndInv => NoOrphans
  BY DEF IndInv, ExecutorInd, WorkersKnown, Known, NoOrphans
<1> QED
  BY <1>1, SolverJobIndInvHolds, PTL

\* No step of the executor takes the worker from under a job, but the cancellation
\* of that job and the crash of that worker.
LEMMA DeathsHaveACause ==
  ASSUME WorkerExecutorAssumption, ExecutorInd, ExecutorNext, NEW v \in Workers,
         task[v] # 0, phase[v] # "dead", phase'[v] = "dead"
  PROVE  \/ task[v] \in cancelled'
         \/ channel'[v] # <<>> /\ channel'[v][Len(channel'[v])].kind = "failed"
<1> USE DEF manager_vars, thread_vars, job_vars, input_vars
<1>1. v = current /\ active = task[v] /\ phase[v] \notin {"none", "loading"} /\ v # 0
      /\ ExecutorTypeOK
  BY DEF ExecutorInd, OneJob, WorkersKnown, ReadyOnce
<1>2. ASSUME NEW j \in Jobs, Kills(j) PROVE task[v] \in cancelled'
  BY <1>1, <1>2 DEF Kills
<1>3. ASSUME NEW w \in Workers, FailureArrives(w) PROVE FALSE
  <2>1. w = current /\ phase[w] = "dead"
    <3>1. birth[w] = generation /\ channel[w] # <<>> /\ 1 \in Messages(w)
          /\ channel[w][1].kind = "failed"
      BY <1>1, <1>3, Received DEF FailureArrives, Heeds
    <3> QED
      BY <3>1 DEF ExecutorInd, WorkersKnown, Known, ReadyOnce, Told
  <2> QED
    BY <1>1, <2>1
<1>4. ASSUME NEW w \in Workers, FactoryLoads(w) \/ FactoryFails(w) PROVE FALSE
  <2>1. v # w
    BY <1>1, <1>4 DEF FactoryLoads, FactoryFails
  <2>2. phase'[v] = phase[v]
    BY <1>1, <1>4, <2>1 DEF FactoryLoads, FactoryFails, ExecutorTypeOK
  <2> QED
    BY <2>2
<1>5. ASSUME NEW w \in Workers, Crash(w)
      PROVE  channel'[v] # <<>> /\ channel'[v][Len(channel'[v])].kind = "failed"
  <2>1. v = w
    BY <1>1, <1>5 DEF Crash, ExecutorTypeOK
  <2> QED
    BY <1>1, <1>5, <2>1, CrashSends DEF Sends
<1>6. ASSUME NEW j \in Jobs, Execute(j) PROVE FALSE
  BY <1>1, <1>6 DEF Execute, EnsureWorker
<1>7. ASSUME Load PROVE FALSE
  BY <1>1, <1>7 DEF Load
<1>8. ASSUME NEW j \in Jobs, Flags(j) PROVE FALSE
  BY <1>8 DEF Flags, Raise
<1>9. ASSUME NEW w \in Workers,
             Ignored(w) \/ SignalArrives(w) \/ ReadyArrives(w) \/ ResultArrives(w)
             \/ Emit(w) \/ Return(w) \/ \E j \in Jobs, k \in Nat : EventArrives(w, j, k)
      PROVE  FALSE
  BY <1>9 DEF Ignored, SignalArrives, ReadyArrives, ResultArrives, Emit, Return,
     EventArrives
<1>10. ASSUME NEW w \in Workers, Boot(w) PROVE FALSE
  BY <1>1, <1>10 DEF Boot, ExecutorTypeOK
<1> QED
  BY <1>2, <1>3, <1>4, <1>5, <1>6, <1>7, <1>8, <1>9, <1>10 DEF ExecutorNext

\* The worker of a job goes only with the cancellation of that job or by its own
\* failure, whatever is still to be heard from the workers before it.
THEOREM NoStrayTermination == Spec => WorkersDieForACause
<1>1. IndInv /\ Next =>
        \A v \in Workers :
          task[v] # 0 /\ phase[v] # "dead" /\ phase'[v] = "dead" =>
            \/ task[v] \in cancelled'
            \/ channel'[v] # <<>> /\ channel'[v][Len(channel'[v])].kind = "failed"
  <2> SUFFICES ASSUME IndInv, Next, NEW v \in Workers,
                      task[v] # 0, phase[v] # "dead", phase'[v] = "dead"
               PROVE  \/ task[v] \in cancelled'
                      \/ channel'[v] # <<>> /\ channel'[v][Len(channel'[v])].kind = "failed"
    OBVIOUS
  <2>1. ExecutorInd /\ ExecutorTypeOK
    BY DEF IndInv, ExecutorInd
  <2>2. ExecutorNext
    BY <2>1, WorkerExecutorAssumption, ExecutorSteps DEF executor_vars, thread_vars
  <2> QED
    BY <2>1, <2>2, WorkerExecutorAssumption, DeathsHaveACause
<1>2. IndInv /\ [Next]_vars =>
        [\A w \in Workers :
           task[w] # 0 /\ phase[w] # "dead" /\ phase'[w] = "dead" =>
             task[w] \in cancelled'
             \/ (channel'[w] # <<>> /\ channel'[w][Len(channel'[w])].kind = "failed")]_vars
  BY <1>1
<1> QED
  BY <1>2, SolverJobIndInvHolds, PTL DEF Spec, WorkersDieForACause

\* No observer is called once the observers of a job are stopped, be it by an abort,
\* by the failure of one of them or by the end of the call.
THEOREM StoppedIsSilent == Spec => SilentOnceStopped
<1>1. ASSUME IndInv, Next, NEW i \in Jobs, i \in stopped PROVE seen'[i] = seen[i]
  <2> USE DEF observer_vars
  <2>1. observing[i] = 0 /\ seen \in [Jobs -> Seq(Nat)]
    BY <1>1 DEF IndInv, Released, TypeOK
  <2>2. ASSUME NEW j \in Jobs, Abort(j) \/ ObserverFails(j) \/ Conclude(j) \/ Calls(j)
                 \/ InterruptCall(j) \/ Answered(j) \/ Commit(j)
        PROVE  seen' = seen
    BY <2>2 DEF Abort, ObserverFails, Conclude, Calls, InterruptCall, Answered, Commit,
       StopObservers
  <2>3. ASSUME NEW j \in Jobs, ObserverReturns(j) PROVE seen'[i] = seen[i]
    BY <2>1, <2>3 DEF ObserverReturns, Advance, Call
  <2>4. ASSUME NEW j \in Jobs, EventArrivesAt(j) PROVE seen'[i] = seen[i]
    BY <1>1, <2>1, <2>4 DEF EventArrivesAt, OnEvent, Call
  <2>5. ASSUME NEW j \in Jobs, Rejected(j) PROVE seen'[i] = seen[i]
    BY <1>1, <2>1, <2>5 DEF Rejected
  <2>6. CASE UNCHANGED <<observer_vars, call_vars>>
    BY <2>6
  <2> QED
    BY <1>1, <2>2, <2>3, <2>4, <2>5, <2>6 DEF Next, Caller, User, Parent
<1>2. IndInv /\ [Next]_vars => [\A j \in Jobs : j \in stopped => seen'[j] = seen[j]]_vars
  BY <1>1
<1> QED
  BY <1>2, SolverJobIndInvHolds, PTL DEF Spec, SilentOnceStopped

=============================================================================
