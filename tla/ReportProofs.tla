----------------------------- MODULE ReportProofs -----------------------------
(***************************************************************************)
(* A proof about SolverJob: what the observer has seen when a value is     *)
(* given, for any number of jobs, workers and events.                      *)
(***************************************************************************)
EXTENDS SolverJobProofs

-----------------------------------------------------------------------------
(* The messages of the worker that is used.                                 *)

Kind(i) == channel[current][i].kind

\* Before it is ready a worker announces its flag and itself, after that it sends the
\* events and the answer of the job that is posted; a failure ends all of it.
OrderlyAt(i) ==
  /\ Kind(i) \in IF ready THEN {"event", "ok", "error", "failed"}
                          ELSE {"signal", "ready", "failed"}
  /\ Kind(i) \in {"event", "ok", "error"} =>
       channel[current][i].job # 0 /\ place[channel[current][i].job] = "posted"
  /\ Kind(i) \in {"ready", "ok", "error"} =>
       \A k \in Messages(current) : k > i => Kind(k) = "failed"

Orderly == current # 0 => \A i \in Messages(current) : OrderlyAt(i)

\* A job has a result when it is over.
ResultsKnown == \A j \in Jobs : result[j] = "none" <=> place[j] # "over"

\* Every step but the arrival of an event.
QuietNext ==
  \/ \E j \in Jobs : Execute(j) \/ Flags(j) \/ Kills(j)
  \/ Load
  \/ \E w \in Workers : FactoryLoads(w) \/ FactoryFails(w) \/ Ignored(w)
       \/ SignalArrives(w) \/ ReadyArrives(w) \/ ResultArrives(w) \/ FailureArrives(w)
       \/ Boot(w) \/ Emit(w) \/ Return(w) \/ Crash(w)

LEMMA PostedThere ==
  ASSUME ExecutorTypeOK, ReadyOnce, OneJob, NEW i \in Jobs, place[i] = "posted"
  PROVE  /\ active = i /\ ready /\ current \in Workers /\ current # 0 /\ target = current
         /\ \A J \in Jobs : J # i => place[J] # "posted"
<1>1. active = i /\ i # 0
  BY DEF OneJob, Jobs
<1>2. ready /\ target = current /\ current # 0
  BY <1>1 DEF OneJob, ReadyOnce
<1>3. current \in Workers
  BY <1>2 DEF ExecutorTypeOK, Workers
<1> QED
  BY <1>1, <1>2, <1>3 DEF OneJob

LEMMA OrderlyStays ==
  ASSUME ExecutorTypeOK, Orderly, current' = current, ready' = ready,
         current # 0 => channel'[current] = channel[current],
         \A J \in Jobs : place[J] = "posted" => place'[J] = "posted"
  PROVE  Orderly'
<1> SUFFICES ASSUME current # 0, NEW i \in Messages(current)' PROVE OrderlyAt(i)'
  BY DEF Orderly
<1>1. current \in Workers /\ Messages(current)' = Messages(current)
      /\ i \in Messages(current)
  BY DEF ExecutorTypeOK, Workers, Messages
<1>2. channel[current][i].job \in 0..MaxJobs
  BY <1>1, MessageTypes DEF MessageSet
<1>3. OrderlyAt(i)
  BY <1>1 DEF Orderly
<1> QED
  BY <1>1, <1>2, <1>3 DEF OrderlyAt, Kind, Jobs

\* The worker that is listened to is the current one.
LEMMA HeededIsCurrent ==
  ASSUME WorkersKnown, NEW w \in Workers, NEW kind, Arrives(w, kind), birth[w] = generation
  PROVE  w = current /\ w # 0
<1>1. channel[w] # <<>>
  BY DEF Arrives
<1>2. Known(w)
  BY DEF WorkersKnown
<1>3. w = current
  BY <1>1, <1>2 DEF Known
<1> QED
  BY <1>3 DEF Workers

LEMMA OrderlyShift ==
  ASSUME ExecutorTypeOK, Orderly, current \in Workers, current # 0, NEW kind,
         Arrives(current, kind), current' = current,
         \/ /\ ready' = ready
            /\ \A J \in Jobs : place[J] = "posted" => place'[J] = "posted"
         \/ kind \in {"ready", "ok", "error"}
  PROVE  Orderly'
<1> SUFFICES ASSUME NEW i \in Messages(current)' PROVE OrderlyAt(i)'
  BY DEF Orderly
<1>1. /\ i \in Nat \ {0} /\ i + 1 \in Messages(current)
      /\ channel'[current][i] = channel[current][i + 1]
  BY Remaining
<1>2. OrderlyAt(i + 1) /\ OrderlyAt(1) /\ Kind(1) = kind
  BY <1>1, Received DEF Orderly, Kind
<1>3. CASE kind \in {"ready", "ok", "error"}
  <2>1. Kind(i + 1) = "failed"
    BY <1>1, <1>2, <1>3 DEF OrderlyAt
  <2> QED
    BY <1>1, <2>1 DEF OrderlyAt, Kind
<1>4. CASE ready' = ready /\ \A J \in Jobs : place[J] = "posted" => place'[J] = "posted"
  <2>1. channel[current][i + 1].job \in 0..MaxJobs
    BY <1>1, MessageTypes DEF MessageSet
  <2>2. ASSUME Kind(i + 1) \in {"ready", "ok", "error"}, NEW k \in Messages(current)', k > i
        PROVE  channel'[current][k].kind = "failed"
    <3>1. /\ k \in Nat \ {0} /\ k + 1 \in Messages(current)
          /\ channel'[current][k] = channel[current][k + 1]
      BY Remaining
    <3>2. k + 1 > i + 1
      BY <1>1, <2>2, <3>1
    <3>3. Kind(k + 1) = "failed"
      BY <1>2, <2>2, <3>1, <3>2 DEF OrderlyAt
    <3> QED
      BY <3>1, <3>3 DEF Kind
  <2> QED
    BY <1>1, <1>2, <1>4, <2>1, <2>2 DEF OrderlyAt, Kind, Jobs
<1> QED
  BY <1>3, <1>4

LEMMA OrderlySent ==
  ASSUME ExecutorTypeOK, Orderly, AnswersKnown, current \in Workers, current # 0, NEW m,
         Sends(current, m), current' = current, ready' = ready, place' = place,
         \/ m.kind = "failed"
         \/ /\ m.kind \in {"event", "ok", "error"} /\ ready /\ task[current] # 0
            /\ m.job # 0 /\ place[m.job] = "posted"
  PROVE  Orderly'
<1> SUFFICES ASSUME NEW i \in Messages(current)' PROVE OrderlyAt(i)'
  BY DEF Orderly
<1>1. \/ i \in Messages(current) /\ channel'[current][i] = channel[current][i]
      \/ i = Len(channel[current]) + 1 /\ channel'[current][i] = m
  BY SentOrThere
<1>2. Len(channel[current]) \in Nat /\ Messages(current)' = 1..(Len(channel[current]) + 1)
  BY DEF Sends, Messages
<1>3. CASE i \in Messages(current) /\ channel'[current][i] = channel[current][i]
  <2>1. OrderlyAt(i)
    BY <1>3 DEF Orderly
  <2>2. ASSUME Kind(i) \in {"ready", "ok", "error"} PROVE m.kind = "failed"
    <3>1. CASE ready
      <4>1. Answer(current, i) /\ place[channel[current][i].job] = "posted"
        BY <1>3, <2>1, <2>2, <3>1 DEF OrderlyAt, AnswersKnown
      <4>2. task[current] = 0
        BY <2>1, <2>2, <3>1, <4>1 DEF Answer, Kind, OrderlyAt
      <4> QED
        BY <4>2
    <3>2. CASE ~ready
      BY <3>2
    <3> QED
      BY <3>1, <3>2
  <2>3. ASSUME Kind(i) \in {"ready", "ok", "error"}, NEW k \in Messages(current)', k > i
        PROVE  channel'[current][k].kind = "failed"
    <3>1. \/ k \in Messages(current) /\ channel'[current][k] = channel[current][k]
          \/ channel'[current][k] = m
      BY SentOrThere
    <3> QED
      BY <2>1, <2>2, <2>3, <3>1 DEF OrderlyAt, Kind
  <2> QED
    BY <1>3, <2>1, <2>3 DEF OrderlyAt, Kind
<1>4. CASE i = Len(channel[current]) + 1 /\ channel'[current][i] = m
  <2>1. \A k \in Messages(current)' : ~(k > i)
    BY <1>2, <1>4
  <2> QED
    BY <1>4, <2>1 DEF OrderlyAt, Kind
<1> QED
  BY <1>1, <1>3, <1>4

LEMMA StepOrderly ==
  ASSUME WorkerExecutorAssumption, ExecutorTypeOK, WorkersKnown, ReadyOnce, OneJob,
     AnswersKnown, Orderly, ExecutorNext
  PROVE  Orderly'
<1> USE WorkerExecutorAssumption DEF Workers,
   manager_vars, thread_vars, job_vars, input_vars
<1>1. ASSUME NEW j \in Jobs, Execute(j) PROVE Orderly'
  <2>1. active = 0 /\ UNCHANGED <<current, ready, channel>>
    BY <1>1 DEF Execute
  <2>2. \A J \in Jobs : place[J] # "posted"
    BY <2>1 DEF OneJob, Jobs
  <2> QED
    BY <2>1, <2>2, OrderlyStays
<1>2. ASSUME NEW j \in Jobs, Flags(j) PROVE Orderly'
  <2>1. UNCHANGED <<current, ready, channel, place>>
    BY <1>2 DEF Flags, Raise
  <2> QED
    BY <2>1, OrderlyStays
<1>3. ASSUME NEW j \in Jobs, Kills(j) PROVE Orderly'
  BY <1>3 DEF Kills, Terminate, Orderly
<1>4. ASSUME Load PROVE Orderly'
  <2>1. UNCHANGED <<current, ready, channel, place>>
    BY <1>4 DEF Load
  <2> QED
    BY <2>1, OrderlyStays
<1>5. ASSUME NEW w \in Workers, FactoryLoads(w) PROVE Orderly'
  <2>1. phase[w] = "loading" /\ UNCHANGED <<ready, channel>> /\ w # 0
    BY <1>5 DEF FactoryLoads
  <2>2. ASSUME NEW J \in Jobs, place[J] = "posted" PROVE place'[J] = "posted"
    <3>1. active = J /\ target = current /\ current # 0
      BY <2>2, PostedThere
    <3>2. target # w
      BY <2>1, <3>1 DEF WorkersKnown
    <3>3. Reject(w, "error") \/ UNCHANGED place
      BY <1>5 DEF FactoryLoads
    <3> QED
      BY <2>2, <3>2, <3>3 DEF Reject
  <2>3. CASE birth[w] = generation
    <3>1. channel'[w] = <<>> /\ current' = w
      BY <1>5, <2>1, <2>3 DEF FactoryLoads, IsWanted, WorkersKnown, Known
    <3> QED
      BY <3>1 DEF Orderly, Messages
  <2>4. CASE birth[w] # generation
    <3>1. UNCHANGED current
      BY <1>5, <2>4 DEF FactoryLoads, IsWanted
    <3> QED
      BY <2>1, <2>2, <3>1, OrderlyStays
  <2> QED
    BY <2>3, <2>4
<1>6. ASSUME NEW w \in Workers, FactoryFails(w) PROVE Orderly'
  <2>1. phase[w] = "loading" /\ UNCHANGED <<ready, channel>> /\ w # 0
    BY <1>6 DEF FactoryFails
  <2>2. ASSUME NEW J \in Jobs, place[J] = "posted" PROVE place'[J] = "posted"
    <3>1. active = J /\ target = current /\ current # 0
      BY <2>2, PostedThere
    <3>2. target # w
      BY <2>1, <3>1 DEF WorkersKnown
    <3>3. Reject(w, "error") \/ UNCHANGED place
      BY <1>6 DEF FactoryFails
    <3> QED
      BY <2>2, <3>2, <3>3 DEF Reject
  <2>3. UNCHANGED current
    BY <1>6 DEF FactoryFails
  <2> QED
    BY <2>1, <2>2, <2>3, OrderlyStays
<1>7. ASSUME NEW w \in Workers, Ignored(w) PROVE Orderly'
  <2>1. PICK kind \in Kinds : Arrives(w, kind)
    BY <1>7 DEF Ignored
  <2>2. UNCHANGED <<current, ready, place>> /\ birth[w] # generation
    BY <1>7 DEF Ignored, Heeds
  <2>3. current # 0 => current # w /\ current \in Workers
    BY <2>2 DEF WorkersKnown, ExecutorTypeOK
  <2>4. current # 0 => channel'[current] = channel[current]
    BY <2>1, <2>3, Received
  <2> QED
    BY <2>2, <2>4, OrderlyStays
<1>8. ASSUME NEW w \in Workers, SignalArrives(w) PROVE Orderly'
  <2>1. Arrives(w, "signal") /\ birth[w] = generation
    BY <1>8 DEF SignalArrives, Heeds
  <2>2. UNCHANGED <<current, ready>> /\ UNCHANGED place
    BY <1>8 DEF SignalArrives
  <2>3. w = current /\ w # 0
    BY <2>1, HeededIsCurrent
  <2> QED
    BY <2>1, <2>2, <2>3, OrderlyShift
<1>9. ASSUME NEW w \in Workers, ReadyArrives(w) PROVE Orderly'
  <2>1. Arrives(w, "ready") /\ birth[w] = generation /\ UNCHANGED current
    BY <1>9 DEF ReadyArrives, Heeds
  <2>2. w = current /\ w # 0
    BY <2>1, HeededIsCurrent
  <2> QED
    BY <2>1, <2>2, OrderlyShift
<1>10. ASSUME NEW w \in Workers, ResultArrives(w) PROVE Orderly'
  <2>1. PICK value \in {"ok", "error"} : Arrives(w, value)
    BY <1>10 DEF ResultArrives
  <2>2. birth[w] = generation /\ UNCHANGED current
    BY <1>10 DEF ResultArrives, Heeds
  <2>3. w = current /\ w # 0
    BY <2>1, <2>2, HeededIsCurrent
  <2> QED
    BY <2>1, <2>2, <2>3, OrderlyShift
<1>11. ASSUME NEW w \in Workers, FailureArrives(w) PROVE Orderly'
  BY <1>11 DEF FailureArrives, Terminate, Orderly
<1>12. ASSUME NEW w \in Workers, NEW j \in Jobs, NEW k \in Nat, EventArrives(w, j, k)
       PROVE Orderly'
  <2>1. Arrives(w, "event") /\ birth[w] = generation
    BY <1>12 DEF EventArrives, Heeds
  <2>2. UNCHANGED <<current, ready>> /\ UNCHANGED place
    BY <1>12 DEF EventArrives
  <2>3. w = current /\ w # 0
    BY <2>1, HeededIsCurrent
  <2> QED
    BY <2>1, <2>2, <2>3, OrderlyShift
<1>13. ASSUME NEW w \in Workers, Boot(w) PROVE Orderly'
  <2>1. channel[w] = <<>> /\ w = current /\ w # 0 /\ ~ready /\ UNCHANGED <<current, ready>>
    BY <1>13 DEF Boot, WorkersKnown, Known, ReadyOnce
  <2>2. Len(channel'[w]) = 2 /\ channel'[w][1].kind = "signal"
        /\ channel'[w][2].kind = "ready"
    BY <1>13, <2>1, BootSends
  <2>3. Messages(current)' = 1..2
    BY <2>1, <2>2 DEF Messages
  <2> QED
    BY <2>1, <2>2, <2>3 DEF Orderly, OrderlyAt, Kind
<1>14. ASSUME NEW w \in Workers, Emit(w) PROVE Orderly'
  <2>1. w = current /\ w # 0 /\ UNCHANGED <<current, ready, place>> /\ task[w] # 0
    BY <1>14 DEF Emit, WorkersKnown, Known
  <2>2. ready /\ place[task[w]] = "posted"
    BY <2>1 DEF OneJob
  <2>3. PICK m : Sends(w, m) /\ m.kind \in {"event"} /\ m.job = task[w]
    BY <1>14, EmitSends
  <2> QED
    BY <2>1, <2>2, <2>3, OrderlySent
<1>15. ASSUME NEW w \in Workers, Return(w) PROVE Orderly'
  <2>1. w = current /\ w # 0 /\ UNCHANGED <<current, ready, place>> /\ task[w] # 0
    BY <1>15 DEF Return, WorkersKnown, Known
  <2>2. ready /\ place[task[w]] = "posted"
    BY <2>1 DEF OneJob
  <2>3. PICK m : Sends(w, m) /\ m.kind \in {"ok", "error"} /\ m.job = task[w]
    BY <1>15, ReturnSends
  <2> QED
    BY <2>1, <2>2, <2>3, OrderlySent
<1>16. ASSUME NEW w \in Workers, Crash(w) PROVE Orderly'
  <2>1. w = current /\ w # 0 /\ UNCHANGED <<current, ready, place>>
    BY <1>16 DEF Crash, WorkersKnown, Known
  <2>2. PICK m : Sends(w, m) /\ m.kind \in {"failed"}
    BY <1>16, CrashSends
  <2> QED
    BY <2>1, <2>2, OrderlySent
<1> QED
  BY <1>1, <1>2, <1>3, <1>4, <1>5, <1>6, <1>7, <1>8, <1>9, <1>10, <1>11, <1>12,
     <1>13, <1>14, <1>15, <1>16 DEF ExecutorNext

\* What a step does to the place and the result of a job: it goes on towards its end,
\* and only an answer gives it a value.
Advances(i) ==
  \/ place'[i] = place[i] /\ result'[i] = result[i]
  \/ place[i] = "new" /\ place'[i] = "parked" /\ result'[i] = result[i]
  \/ place[i] \in {"new", "parked"} /\ place'[i] = "posted" /\ result'[i] = result[i]
  \/ place[i] # "over" /\ place'[i] = "over" /\ result'[i] \in {"error", "cancelled"}
  \/ place[i] = "posted" /\ place'[i] = "over" /\ result'[i] = "ok"

LEMMA StepAdvances ==
  ASSUME WorkerExecutorAssumption, ExecutorTypeOK, WorkersKnown, ReadyOnce, OneJob,
     AnswersKnown, NEW i \in Jobs, ExecutorNext
  PROVE  Advances(i)
<1> USE WorkerExecutorAssumption DEF WorkerExecutorAssumption, Jobs, Workers,
   manager_vars, thread_vars, job_vars, input_vars,
   Advances
<1>1. ASSUME NEW j \in Jobs, Execute(j) PROVE Advances(i)
  <2>1. place[j] = "new"
    BY <1>1 DEF Execute
  <2>2. CASE ready
    <3>1. current \in Workers /\ Dispatch(j, current)
      BY <1>1, <2>2 DEF Execute, ReadyOnce, ExecutorTypeOK
    <3>2. i # j => place'[i] = place[i] /\ result'[i] = result[i]
      BY <3>1, DispatchEffect
    <3>3. \/ place'[j] = "posted" /\ result' = result
          \/ place'[j] = "over" /\ result'[j] \in {"error", "cancelled"}
      BY <3>1, DispatchEffect
    <3> QED
      BY <2>1, <3>2, <3>3
  <2>3. CASE ~ready
    BY <1>1, <2>1, <2>3 DEF Execute, ExecutorTypeOK
  <2> QED
    BY <2>2, <2>3
<1>2. ASSUME NEW j \in Jobs, Flags(j) PROVE Advances(i)
  BY <1>2 DEF Flags, Raise, Advances
<1>3. ASSUME NEW j \in Jobs, Kills(j) PROVE Advances(i)
  <2>1. Reject(current, "cancelled") \/ UNCHANGED <<place, result>>
    BY <1>3 DEF Kills, Terminate
  <2> QED
    BY <2>1, RejectEffect DEF OneJob
<1>4. ASSUME Load PROVE Advances(i)
  BY <1>4 DEF Load, Advances
<1>5. ASSUME NEW w \in Workers, FactoryLoads(w) PROVE Advances(i)
  <2>1. Reject(w, "error") \/ UNCHANGED <<place, result>>
    BY <1>5 DEF FactoryLoads
  <2> QED
    BY <2>1, RejectEffect DEF OneJob
<1>6. ASSUME NEW w \in Workers, FactoryFails(w) PROVE Advances(i)
  <2>1. Reject(w, "error") \/ UNCHANGED <<place, result>>
    BY <1>6 DEF FactoryFails
  <2> QED
    BY <2>1, RejectEffect DEF OneJob
<1>7. ASSUME NEW w \in Workers, Ignored(w) PROVE Advances(i)
  BY <1>7 DEF Ignored, Advances
<1>8. ASSUME NEW w \in Workers, SignalArrives(w) PROVE Advances(i)
  BY <1>8 DEF SignalArrives, Advances
<1>9. ASSUME NEW w \in Workers, ReadyArrives(w) PROVE Advances(i)
  <2>1. CASE active # 0 /\ target = w
    <3>1. active \in Jobs /\ Dispatch(active, w)
      BY <1>9, <2>1 DEF ReadyArrives, ExecutorTypeOK
    <3>2. ~ready
      <4>1. Arrives(w, "ready") /\ birth[w] = generation
        BY <1>9 DEF ReadyArrives, Heeds
      <4>2. channel[w] # <<>> /\ 1 \in Messages(w) /\ channel[w][1].kind = "ready"
        BY <4>1, Received
      <4> QED
        BY <4>1, <4>2 DEF ReadyOnce, Told
    <3>3. place[active] = "parked"
      BY <3>1, <3>2 DEF OneJob
    <3>4. i # active => place'[i] = place[i] /\ result'[i] = result[i]
      BY <3>1, DispatchEffect
    <3>5. \/ place'[active] = "posted" /\ result' = result
          \/ place'[active] = "over" /\ result'[active] \in {"error", "cancelled"}
      BY <3>1, DispatchEffect
    <3> QED
      BY <3>3, <3>4, <3>5
  <2>2. CASE ~(active # 0 /\ target = w)
    BY <1>9, <2>2 DEF ReadyArrives
  <2> QED
    BY <2>1, <2>2
<1>10. ASSUME NEW w \in Workers, ResultArrives(w) PROVE Advances(i)
  <2> DEFINE h == Head(channel[w]).job
  <2>1. PICK value \in {"ok", "error"} :
          /\ Arrives(w, value)
          /\ IF place[h] = "posted" THEN End(h, value)
                                    ELSE UNCHANGED <<result, place, active, target>>
    BY <1>10 DEF ResultArrives
  <2>2. h \in Jobs
    <3>1. 1 \in Messages(w) /\ channel[w][1] = Head(channel[w])
          /\ channel[w][1].kind = value
      BY <2>1, Received
    <3>2. channel[w][1] \in MessageSet
      BY <3>1, MessageTypes
    <3> QED
      BY <3>1, <3>2 DEF MessageSet, AnswersKnown, Answer
  <2>3. CASE place[h] = "posted"
    <3>1. /\ place'[h] = "over" /\ result'[h] \in {value, "cancelled"}
          /\ \A J \in Jobs \ {h} : place'[J] = place[J] /\ result'[J] = result[J]
      BY <2>1, <2>2, <2>3, EndEffect
    <3> QED
      BY <2>3, <3>1
  <2>4. CASE place[h] # "posted"
    BY <2>1, <2>4
  <2> QED
    BY <2>3, <2>4
<1>11. ASSUME NEW w \in Workers, FailureArrives(w) PROVE Advances(i)
  <2>1. Reject(current, "error") \/ UNCHANGED <<place, result>>
    BY <1>11 DEF FailureArrives, Terminate
  <2> QED
    BY <2>1, RejectEffect DEF OneJob
<1>12. ASSUME NEW w \in Workers, NEW j \in Jobs, NEW k \in Nat, EventArrives(w, j, k)
       PROVE Advances(i)
  BY <1>12 DEF EventArrives, Advances
<1>13. ASSUME NEW w \in Workers, Boot(w) PROVE Advances(i)
  BY <1>13 DEF Boot, Advances
<1>14. ASSUME NEW w \in Workers, Emit(w) PROVE Advances(i)
  BY <1>14 DEF Emit, Advances
<1>15. ASSUME NEW w \in Workers, Return(w) PROVE Advances(i)
  BY <1>15 DEF Return, Advances
<1>16. ASSUME NEW w \in Workers, Crash(w) PROVE Advances(i)
  BY <1>16 DEF Crash, Advances
<1> QED
  BY <1>1, <1>2, <1>3, <1>4, <1>5, <1>6, <1>7, <1>8, <1>9, <1>10, <1>11, <1>12,
     <1>13, <1>14, <1>15, <1>16 DEF ExecutorNext

LEMMA StepResultsKnown ==
  ASSUME ResultsKnown, \A i \in Jobs : Advances(i)
  PROVE  ResultsKnown'
BY DEF ResultsKnown, Advances

-----------------------------------------------------------------------------
(* The events of a job.                                                     *)

\* Events that have been observed or wait for the observer.
Got(i) == Len(seen[i]) + Len(chain[i])

\* What has been got, what is in the channel and what is still to be sent make up the
\* events of a job, in order.
Progress(i) ==
  /\ place[i] \in {"new", "parked"} => emitted[i] = 0 /\ Got(i) = 0
  /\ result[i] = "ok" => Got(i) = emitted[i]
  /\ place[i] = "posted" =>
       /\ \A k \in Messages(current) :
            /\ Kind(k) = "event" => channel[current][k].value = Got(i) + k
            /\ Kind(k) = "ok" => Got(i) + k = emitted[i] + 1
       /\ task[current] = i /\ phase[current] = "running" =>
            Got(i) + Len(channel[current]) = emitted[i]

LEMMA ProgressStays ==
  ASSUME NEW i \in Jobs, Progress(i), Got(i) \in Nat, Got(i)' = Got(i),
         emitted'[i] = emitted[i], place'[i] = place[i], result'[i] = result[i],
         place[i] = "posted" =>
           /\ current' = current /\ channel'[current] = channel[current]
           /\ phase'[current] = "running" => phase[current] = "running"
           /\ task'[current] = task[current]
  PROVE  Progress(i)'
<1>1. place'[i] \in {"new", "parked"} => emitted'[i] = 0 /\ Got(i)' = 0
  BY DEF Progress
<1>2. result'[i] = "ok" => Got(i)' = emitted'[i]
  BY DEF Progress
<1>3. ASSUME place[i] = "posted" PROVE Progress(i)'
  BY <1>1, <1>2, <1>3 DEF Progress, Kind, Messages
<1>4. CASE place[i] # "posted"
  BY <1>1, <1>2, <1>4 DEF Progress
<1> QED
  BY <1>3, <1>4

LEMMA ProgressFails ==
  ASSUME NEW i \in Jobs, place'[i] = "over", result'[i] \in {"error", "cancelled"}
  PROVE  Progress(i)'
BY DEF Progress

\* The job is posted: nothing is in the channel yet but a failure of the worker.
LEMMA ProgressStarts ==
  ASSUME NEW i \in Jobs, Progress(i), Got(i) \in Nat, Got(i)' = Got(i),
         emitted'[i] = emitted[i], place[i] \in {"new", "parked"}, place'[i] = "posted",
         result'[i] # "ok",
         \A k \in Messages(current)' : channel'[current'][k].kind = "failed",
         phase'[current'] = "running" => Len(channel'[current']) = 0
  PROVE  Progress(i)'
<1>1. Got(i)' = 0 /\ emitted'[i] = 0
  BY DEF Progress
<1>2. phase'[current'] = "running" => Got(i)' + Len(channel'[current']) = emitted'[i]
  BY <1>1
<1> QED
  BY <1>1, <1>2 DEF Progress, Kind

LEMMA StepProgress ==
  ASSUME WorkerExecutorAssumption, ExecutorTypeOK, WorkersKnown, ReadyOnce, OneJob,
     AnswersKnown, Orderly, ResultsKnown, NEW i \in Jobs, Progress(i),
     Got(i) \in Nat, Got(i)' = Got(i), QuietNext
  PROVE  Progress(i)'
<1> USE WorkerExecutorAssumption DEF Workers,
   manager_vars, thread_vars, job_vars, input_vars
<1>1. ASSUME NEW j \in Jobs, Execute(j) PROVE Progress(i)'
  <2>1. active = 0 /\ place[j] = "new" /\ UNCHANGED <<emitted, current, channel>>
    BY <1>1 DEF Execute
  <2>2. \A J \in Jobs : place[J] # "posted"
    BY <2>1 DEF OneJob, Jobs
  <2>3. CASE i # j
    <3>1. place'[i] = place[i] /\ result'[i] = result[i]
      <4>1. CASE ready
        <5>1. current \in Workers /\ Dispatch(j, current)
          BY <1>1, <4>1 DEF Execute, ReadyOnce, ExecutorTypeOK, Workers
        <5> QED
          BY <2>3, <5>1, DispatchEffect
      <4>2. CASE ~ready
        BY <1>1, <2>3, <4>2 DEF Execute, ExecutorTypeOK
      <4> QED
        BY <4>1, <4>2
    <3> QED
      BY <2>1, <2>2, <3>1, ProgressStays
  <2>4. CASE i = j /\ ready
    <3>1. current \in Workers /\ current # 0 /\ Dispatch(j, current)
      BY <1>1, <2>4 DEF Execute, ReadyOnce, ExecutorTypeOK, Workers
    <3>2. CASE place'[j] = "over" /\ result'[j] \in {"error", "cancelled"}
      BY <2>4, <3>2, ProgressFails
    <3>3. CASE place'[j] = "posted" /\ result' = result
      <4>1. \A k \in Messages(current) : channel[current][k].kind = "failed"
        <5>1. ASSUME NEW k \in Messages(current) PROVE Kind(k) = "failed"
          <6>1. OrderlyAt(k) /\ channel[current][k].job \in 0..MaxJobs
            BY <3>1, MessageTypes DEF Orderly, MessageSet
          <6> QED
            BY <2>2, <2>4, <6>1 DEF OrderlyAt, Jobs
        <5> QED
          BY <5>1 DEF Kind
      <4>2. phase'[current] = phase[current]
        BY <1>1, <3>1 DEF Execute, EnsureWorker
      <4>3. phase[current] = "running" => Len(channel[current]) = 0
        <5>1. channel[current] \in Seq(MessageSet)
          BY <3>1 DEF ExecutorTypeOK, MessageSet
        <5>2. ASSUME Len(channel[current]) # 0 PROVE phase[current] = "dead"
          <6>1. 1 \in Messages(current)
            BY <5>1, <5>2 DEF Messages
          <6> QED
            BY <3>1, <4>1, <6>1 DEF ReadyOnce, Told
        <5> QED
          BY <5>2
      <4>4. result'[j] # "ok"
        BY <2>1, <3>3 DEF ResultsKnown
      <4>5. Messages(current)' = Messages(current)
        BY <2>1 DEF Messages
      <4> QED
        BY <2>1, <2>4, <3>3, <4>1, <4>2, <4>3, <4>4, <4>5, ProgressStarts
    <3> QED
      BY <3>1, <3>2, <3>3, DispatchEffect
  <2>5. CASE i = j /\ ~ready
    <3>1. place'[i] = "parked" /\ result' = result
      BY <1>1, <2>5 DEF Execute, ExecutorTypeOK
    <3> QED
      BY <2>1, <2>5, <3>1 DEF Progress
  <2> QED
    BY <2>3, <2>4, <2>5
<1>2. ASSUME NEW j \in Jobs, Flags(j) PROVE Progress(i)'
  <2>1. UNCHANGED <<emitted, place, result, current, channel, phase, task>>
    BY <1>2 DEF Flags, Raise
  <2> QED
    BY <2>1, ProgressStays
<1>3. ASSUME NEW j \in Jobs, Kills(j) PROVE Progress(i)'
  <2>1. Reject(current, "cancelled") /\ UNCHANGED emitted
    BY <1>3 DEF Kills, Terminate
  <2>2. CASE place'[i] = place[i] /\ result'[i] = result[i]
    <3>1. place[i] # "posted"
      <4>1. ASSUME place[i] = "posted" PROVE FALSE
        <5>1. active = i /\ active # 0 /\ target = current
          BY <4>1, PostedThere DEF Jobs
        <5>2. place'[i] = "over"
          BY <2>1, <5>1, RejectEffect
        <5> QED
          BY <2>2, <4>1, <5>2
      <4> QED
        BY <4>1
    <3> QED
      BY <2>1, <2>2, <3>1, ProgressStays
  <2>3. CASE place'[i] = "over" /\ result'[i] \in {"error", "cancelled"}
    BY <2>3, ProgressFails
  <2> QED
    BY <2>1, <2>2, <2>3, RejectEffect
<1>4. ASSUME Load PROVE Progress(i)'
  <2>1. UNCHANGED <<emitted, place, result>> /\ current = 0
    BY <1>4 DEF Load
  <2>2. place[i] # "posted"
    BY <2>1, PostedThere
  <2> QED
    BY <2>1, <2>2, ProgressStays
<1>5. ASSUME NEW w \in Workers, FactoryLoads(w) PROVE Progress(i)'
  <2>1. phase[w] = "loading" /\ UNCHANGED <<emitted, channel, task>> /\ w # 0
    BY <1>5 DEF FactoryLoads, Workers
  <2>2. Reject(w, "error") \/ UNCHANGED <<place, result>>
    BY <1>5 DEF FactoryLoads
  <2>3. CASE place'[i] = place[i] /\ result'[i] = result[i]
    <3>1. ASSUME place[i] = "posted"
          PROVE  current' = current /\ phase'[current] = phase[current]
      <4>1. current \in Workers /\ current # 0 /\ w # current
        BY <2>1, <3>1, PostedThere DEF WorkersKnown
      <4>2. phase'[current] = phase[current]
        BY <1>5, <4>1 DEF FactoryLoads, ExecutorTypeOK
      <4>3. current' = current
        BY <1>5, <4>1 DEF FactoryLoads, IsWanted, WorkersKnown, Known
      <4> QED
        BY <4>2, <4>3
    <3> QED
      BY <2>1, <2>3, <3>1, ProgressStays
  <2>4. CASE place'[i] = "over" /\ result'[i] \in {"error", "cancelled"}
    BY <2>4, ProgressFails
  <2> QED
    BY <2>2, <2>3, <2>4, RejectEffect
<1>6. ASSUME NEW w \in Workers, FactoryFails(w) PROVE Progress(i)'
  <2>1. phase[w] = "loading" /\ UNCHANGED <<emitted, channel, task>> /\ w # 0
    BY <1>6 DEF FactoryFails, Workers
  <2>2. Reject(w, "error") \/ UNCHANGED <<place, result>>
    BY <1>6 DEF FactoryFails
  <2>3. CASE place'[i] = place[i] /\ result'[i] = result[i]
    <3>1. ASSUME place[i] = "posted"
          PROVE  current' = current /\ phase'[current] = phase[current]
      <4>1. current \in Workers /\ current # 0 /\ w # current
        BY <2>1, <3>1, PostedThere DEF WorkersKnown
      <4>2. phase'[current] = phase[current]
        BY <1>6, <4>1 DEF FactoryFails, ExecutorTypeOK
      <4>3. current' = current
        BY <1>6, <4>1 DEF FactoryFails
      <4> QED
        BY <4>2, <4>3
    <3> QED
      BY <2>1, <2>3, <3>1, ProgressStays
  <2>4. CASE place'[i] = "over" /\ result'[i] \in {"error", "cancelled"}
    BY <2>4, ProgressFails
  <2> QED
    BY <2>2, <2>3, <2>4, RejectEffect
<1>7. ASSUME NEW w \in Workers, Ignored(w) PROVE Progress(i)'
  <2>1. PICK kind \in Kinds : Arrives(w, kind)
    BY <1>7 DEF Ignored
  <2>2. UNCHANGED <<emitted, place, result, current, phase, task>> /\ birth[w] # generation
    BY <1>7 DEF Ignored, Heeds
  <2>3. place[i] = "posted" => channel'[current] = channel[current]
    <3>1. place[i] = "posted" => current \in Workers /\ current # w
      BY <2>2, PostedThere DEF WorkersKnown
    <3> QED
      BY <2>1, <3>1, Received
  <2> QED
    BY <2>2, <2>3, ProgressStays
<1>8. ASSUME NEW w \in Workers, SignalArrives(w) PROVE Progress(i)'
  <2>1. Arrives(w, "signal") /\ birth[w] = generation /\ UNCHANGED <<emitted, place, result>>
    BY <1>8 DEF SignalArrives, Heeds
  <2>2. /\ w = current /\ w # 0 /\ 1 \in Messages(current)
        /\ Kind(1) = "signal"
    BY <2>1, Received DEF WorkersKnown, Known, Kind, Workers
  <2>3. ~ready
    BY <2>2 DEF Orderly, OrderlyAt
  <2>4. place[i] # "posted"
    BY <2>3, PostedThere
  <2> QED
    BY <2>1, <2>4, ProgressStays
<1>9. ASSUME NEW w \in Workers, ReadyArrives(w) PROVE Progress(i)'
  <2>1. Arrives(w, "ready") /\ birth[w] = generation /\ UNCHANGED <<emitted, current, phase>>
    BY <1>9 DEF ReadyArrives, Heeds
  <2>2. /\ w = current /\ w # 0 /\ 1 \in Messages(current) /\ Kind(1) = "ready"
    BY <2>1, Received DEF WorkersKnown, Known, Kind, Workers
  <2>3. ~ready /\ place[i] # "posted"
    <3>1. ~ready
      BY <2>2 DEF Orderly, OrderlyAt
    <3> QED
      BY <3>1, PostedThere
  <2>4. CASE active # 0 /\ target = w /\ i = active
    <3>1. Dispatch(i, w) /\ place[i] = "parked"
      BY <1>9, <2>3, <2>4 DEF ReadyArrives, OneJob
    <3>2. CASE place'[i] = "over" /\ result'[i] \in {"error", "cancelled"}
      BY <3>2, ProgressFails
    <3>3. CASE place'[i] = "posted" /\ result' = result
      <4>1. ASSUME NEW k \in Messages(w)' PROVE channel'[w][k].kind = "failed"
        <5>1. k \in Nat \ {0} /\ k + 1 \in Messages(w) /\ channel'[w][k] = channel[w][k + 1]
          BY <2>1, Remaining
        <5>2. k + 1 > 1
          BY <5>1
        <5>3. OrderlyAt(1)
          BY <2>2 DEF Orderly
        <5>4. Kind(k + 1) = "failed"
          BY <2>2, <5>1, <5>2, <5>3 DEF OrderlyAt
        <5> QED
          BY <2>2, <5>1, <5>4 DEF Kind
      <4>2. phase[w] = "running" => Len(channel'[w]) = 0
        <5>1. ASSUME Len(channel'[w]) # 0 PROVE phase[w] = "dead"
          <6>1. 1 \in Messages(w)'
            <7>1. channel'[w] \in Seq(MessageSet)
              BY <2>1, Received
            <7> QED
              BY <5>1, <7>1 DEF Messages
          <6>2. 2 \in Messages(w) /\ channel[w][2].kind = "failed"
            BY <2>1, <4>1, <6>1, Remaining
          <6> QED
            BY <6>2 DEF ReadyOnce, Told
        <5> QED
          BY <5>1
      <4>3. result'[i] # "ok"
        BY <3>1, <3>3 DEF ResultsKnown
      <4> QED
        BY <2>1, <2>2, <3>1, <3>3, <4>1, <4>2, <4>3, ProgressStarts
    <3> QED
      BY <3>1, <3>2, <3>3, DispatchEffect
  <2>5. CASE active # 0 /\ target = w /\ i # active
    <3>1. active \in Jobs /\ Dispatch(active, w)
      BY <1>9, <2>5 DEF ReadyArrives, ExecutorTypeOK, Jobs
    <3>2. place'[i] = place[i] /\ result'[i] = result[i]
      BY <2>5, <3>1, DispatchEffect
    <3> QED
      BY <2>1, <2>3, <3>2, ProgressStays
  <2>6. CASE ~(active # 0 /\ target = w)
    <3>1. UNCHANGED <<place, result>>
      BY <1>9, <2>6 DEF ReadyArrives
    <3> QED
      BY <2>1, <2>3, <3>1, ProgressStays
  <2> QED
    BY <2>4, <2>5, <2>6
<1>10. ASSUME NEW w \in Workers, ResultArrives(w) PROVE Progress(i)'
  <2> DEFINE h == Head(channel[w]).job
  <2>1. PICK value \in {"ok", "error"} :
          /\ Arrives(w, value)
          /\ IF place[h] = "posted" THEN End(h, value)
                                    ELSE UNCHANGED <<result, place, active, target>>
    BY <1>10 DEF ResultArrives
  <2>2. birth[w] = generation /\ UNCHANGED emitted
    BY <1>10 DEF ResultArrives, Heeds
  <2>3. /\ w = current /\ w # 0 /\ 1 \in Messages(current)
        /\ channel[current][1].job = h /\ Kind(1) = value
    <3>1. channel[w] # <<>> /\ 1 \in Messages(w) /\ channel[w][1] = Head(channel[w])
          /\ channel[w][1].kind = value
      BY <2>1, Received
    <3>2. w = current /\ w # 0
      BY <2>2, <3>1 DEF WorkersKnown, Known
    <3> QED
      BY <3>1, <3>2 DEF Kind
  <2>4. h \in Jobs /\ place[h] = "posted"
    <3>1. OrderlyAt(1)
      BY <2>3 DEF Orderly
    <3>2. h # 0 /\ place[h] = "posted"
      BY <2>3, <3>1 DEF OrderlyAt
    <3>3. channel[current][1].job \in 0..MaxJobs
      BY <2>3, MessageTypes DEF MessageSet
    <3> QED
      BY <2>3, <3>2, <3>3 DEF Jobs
  <2>5. /\ place'[h] = "over" /\ result'[h] \in {value, "cancelled"}
        /\ \A J \in Jobs \ {h} : place'[J] = place[J] /\ result'[J] = result[J]
    BY <2>1, <2>4, EndEffect
  <2>6. CASE i = h
    <3>1. value = "ok" => Got(i) + 1 = emitted[i] + 1
      BY <2>3, <2>4, <2>6 DEF Progress
    <3>2. emitted[i] \in Nat
      BY DEF ExecutorTypeOK
    <3>3. value = "ok" => Got(i) = emitted[i]
      BY <3>1, <3>2
    <3> QED
      BY <2>2, <2>5, <2>6, <3>3 DEF Progress
  <2>7. CASE i # h
    <3>1. place[i] # "posted"
      BY <2>4, <2>7, PostedThere
    <3> QED
      BY <2>2, <2>5, <2>7, <3>1, ProgressStays
  <2> QED
    BY <2>6, <2>7
<1>11. ASSUME NEW w \in Workers, FailureArrives(w) PROVE Progress(i)'
  <2>1. Reject(current, "error") /\ UNCHANGED emitted
    BY <1>11 DEF FailureArrives, Terminate
  <2>2. CASE place'[i] = place[i] /\ result'[i] = result[i]
    <3>1. place[i] # "posted"
      <4>1. ASSUME place[i] = "posted" PROVE FALSE
        <5>1. active = i /\ active # 0 /\ target = current
          BY <4>1, PostedThere DEF Jobs
        <5>2. place'[i] = "over"
          BY <2>1, <5>1, RejectEffect
        <5> QED
          BY <2>2, <4>1, <5>2
      <4> QED
        BY <4>1
    <3> QED
      BY <2>1, <2>2, <3>1, ProgressStays
  <2>3. CASE place'[i] = "over" /\ result'[i] \in {"error", "cancelled"}
    BY <2>3, ProgressFails
  <2> QED
    BY <2>1, <2>2, <2>3, RejectEffect
<1>12. ASSUME NEW w \in Workers, Boot(w) PROVE Progress(i)'
  <2>1. UNCHANGED <<emitted, place, result>> /\ phase[w] = "starting" /\ w = current
    BY <1>12 DEF Boot, WorkersKnown, Known
  <2>2. place[i] # "posted"
    BY <2>1, PostedThere DEF ReadyOnce
  <2> QED
    BY <2>1, <2>2, ProgressStays
<1>13. ASSUME NEW w \in Workers, Emit(w) PROVE Progress(i)'
  <2>1. w = current /\ w # 0 /\ current \in Workers /\ UNCHANGED <<place, result, current>>
        /\ \A v \in Workers \ {w} : task'[v] = task[v]
    BY <1>13 DEF Emit, WorkersKnown, Known, Workers, ExecutorTypeOK
  <2>2. CASE place[i] # "posted"
    <3>1. i # task[w]
      BY <1>13, <2>2 DEF OneJob, Emit
    <3>2. emitted'[i] = emitted[i]
      BY <1>13, <3>1 DEF Emit, ExecutorTypeOK
    <3> QED
      BY <2>1, <2>2, <3>2, ProgressStays
  <2>3. CASE place[i] = "posted"
    <3>1. i = task[w] /\ phase[w] = "running" /\ UNCHANGED <<task, phase>>
      <4>1. task[w] # 0
        BY <1>13 DEF Emit
      <4>2. active = task[w] /\ active = i
        BY <2>3, <4>1, PostedThere DEF OneJob
      <4> QED
        BY <1>13, <4>2 DEF Emit
    <3>2. emitted'[i] = emitted[i] + 1 /\ emitted[i] \in Nat
      BY <1>13, <3>1 DEF Emit, ExecutorTypeOK
    <3>3. PICK m : Sends(w, m) /\ m.kind = "event" /\ m.value = emitted[i] + 1
      BY <1>13, <3>1, EmitSends
    <3>4. /\ Len(channel'[w]) = Len(channel[w]) + 1 /\ Len(channel[w]) \in Nat
          /\ Got(i) + Len(channel[w]) = emitted[i]
      BY <2>1, <2>3, <3>1, <3>3 DEF Sends, Progress
    <3>5. ASSUME NEW k \in Messages(w)'
          PROVE  /\ channel'[w][k].kind = "event" => channel'[w][k].value = Got(i) + k
                 /\ channel'[w][k].kind # "ok"
      <4>1. CASE k \in Messages(w) /\ channel'[w][k] = channel[w][k]
        <5>1. Kind(k) = "event" => channel[w][k].value = Got(i) + k
          BY <2>1, <2>3, <4>1 DEF Progress, Kind
        <5>2. Kind(k) # "ok"
          <6>1. ASSUME Kind(k) = "ok" PROVE FALSE
            <7>1. OrderlyAt(k) /\ Answer(w, k)
              BY <2>1, <4>1 DEF Orderly, AnswersKnown
            <7>2. ready
              BY <2>3, PostedThere
            <7>3. task[w] = 0
              BY <2>1, <6>1, <7>1, <7>2 DEF OrderlyAt, Answer, Kind
            <7> QED
              BY <1>13, <7>3 DEF Emit
          <6> QED
            BY <6>1
        <5> QED
          BY <2>1, <4>1, <5>1, <5>2 DEF Kind
      <4>2. CASE k = Len(channel[w]) + 1 /\ channel'[w][k] = m
        <5>1. Got(i) + k = emitted[i] + 1
          BY <3>2, <3>4, <4>2
        <5> QED
          BY <3>3, <4>2, <5>1
      <4> QED
        BY <3>3, <4>1, <4>2, SentOrThere
    <3>6. Got(i) + Len(channel'[w]) = emitted'[i]
      BY <3>2, <3>4
    <3>7. result'[i] # "ok"
      BY <2>1, <2>3 DEF ResultsKnown
    <3> QED
      BY <2>1, <2>3, <3>1, <3>5, <3>6, <3>7 DEF Progress, Kind
  <2> QED
    BY <2>2, <2>3
<1>14. ASSUME NEW w \in Workers, Return(w) PROVE Progress(i)'
  <2>1. w = current /\ w # 0 /\ current \in Workers /\ UNCHANGED <<place, result, current>>
        /\ \A v \in Workers \ {w} : task'[v] = task[v]
    BY <1>14 DEF Return, WorkersKnown, Known, Workers, ExecutorTypeOK
  <2>2. CASE place[i] # "posted"
    <3>1. UNCHANGED emitted
      BY <1>14 DEF Return
    <3> QED
      BY <2>1, <2>2, <3>1, ProgressStays
  <2>3. CASE place[i] = "posted"
    <3>1. i = task[w] /\ phase[w] = "running" /\ task'[w] = 0 /\ UNCHANGED emitted
      <4>1. task[w] # 0 /\ task'[w] = 0
        BY <1>14 DEF Return, ExecutorTypeOK
      <4>2. active = task[w] /\ active = i
        BY <2>3, <4>1, PostedThere DEF OneJob
      <4> QED
        BY <1>14, <4>1, <4>2 DEF Return
    <3>2. PICK m : Sends(w, m) /\ m.kind \in {"ok", "error"}
      BY <1>14, ReturnSends
    <3>3. Len(channel[w]) \in Nat /\ Got(i) + Len(channel[w]) = emitted[i]
      BY <2>1, <2>3, <3>1, <3>2 DEF Sends, Progress
    <3>4. ASSUME NEW k \in Messages(w)'
          PROVE  /\ channel'[w][k].kind = "event" => channel'[w][k].value = Got(i) + k
                 /\ channel'[w][k].kind = "ok" => Got(i) + k = emitted[i] + 1
      <4>1. CASE k \in Messages(w) /\ channel'[w][k] = channel[w][k]
        BY <2>1, <2>3, <4>1 DEF Progress, Kind
      <4>2. CASE k = Len(channel[w]) + 1 /\ channel'[w][k] = m
        <5>1. \A a, b \in Nat : a + (b + 1) = (a + b) + 1
          OBVIOUS
        <5>2. Got(i) + k = emitted[i] + 1
          BY <3>3, <4>2, <5>1
        <5> QED
          BY <3>2, <4>2, <5>2
      <4> QED
        BY <3>2, <4>1, <4>2, SentOrThere
    <3>5. result'[i] # "ok" /\ i # 0
      BY <2>1, <2>3 DEF ResultsKnown, Jobs
    <3> QED
      BY <2>1, <2>3, <3>1, <3>4, <3>5 DEF Progress, Kind
  <2> QED
    BY <2>2, <2>3
<1>15. ASSUME NEW w \in Workers, Crash(w) PROVE Progress(i)'
  <2>1. w = current /\ w # 0 /\ current \in Workers /\ UNCHANGED <<place, result, current>>
        /\ \A v \in Workers \ {w} : task'[v] = task[v]
    BY <1>15 DEF Crash, WorkersKnown, Known, Workers, ExecutorTypeOK
  <2>2. CASE place[i] # "posted"
    <3>1. UNCHANGED emitted
      BY <1>15 DEF Crash
    <3> QED
      BY <2>1, <2>2, <3>1, ProgressStays
  <2>3. CASE place[i] = "posted"
    <3>1. phase'[w] = "dead" /\ UNCHANGED emitted
      BY <1>15 DEF Crash, ExecutorTypeOK
    <3>2. PICK m : Sends(w, m) /\ m.kind = "failed"
      BY <1>15, CrashSends
    <3>3. ASSUME NEW k \in Messages(w)'
          PROVE  /\ channel'[w][k].kind = "event" => channel'[w][k].value = Got(i) + k
                 /\ channel'[w][k].kind = "ok" => Got(i) + k = emitted[i] + 1
      <4>1. CASE k \in Messages(w) /\ channel'[w][k] = channel[w][k]
        BY <2>1, <2>3, <4>1 DEF Progress, Kind
      <4>2. CASE channel'[w][k] = m
        BY <3>2, <4>2
      <4> QED
        BY <3>2, <4>1, <4>2, SentOrThere
    <3>4. result'[i] # "ok"
      BY <2>1, <2>3 DEF ResultsKnown
    <3> QED
      BY <2>1, <2>3, <3>1, <3>3, <3>4 DEF Progress, Kind
  <2> QED
    BY <2>2, <2>3
<1> QED
  BY <1>1, <1>2, <1>3, <1>4, <1>5, <1>6, <1>7, <1>8, <1>9, <1>10, <1>11, <1>12,
     <1>13, <1>14, <1>15 DEF QuietNext

\* An event arrives for the job that is posted, and it is the next one.
LEMMA EventIsNext ==
  ASSUME WorkerExecutorAssumption, ExecutorTypeOK, WorkersKnown, ReadyOnce, OneJob, Orderly,
         NEW w \in Workers, NEW j \in Jobs, NEW k \in Nat, EventArrives(w, j, k)
  PROVE  /\ w = current /\ w # 0 /\ place[j] = "posted"
         /\ 1 \in Messages(current) /\ Kind(1) = "event" /\ channel[current][1].value = k
         /\ Progress(j) => k = Got(j) + 1
<1>1. /\ Arrives(w, "event") /\ birth[w] = generation
      /\ Head(channel[w]).job = j /\ Head(channel[w]).value = k
  BY DEF EventArrives, Heeds
<1>2. channel[w] # <<>> /\ 1 \in Messages(w) /\ channel[w][1] = Head(channel[w])
      /\ channel[w][1].kind = "event"
  BY <1>1, Received
<1>3. w = current /\ w # 0
  BY <1>1, <1>2 DEF WorkersKnown, Known, Workers
<1>4. place[j] = "posted"
  BY <1>1, <1>2, <1>3 DEF Orderly, OrderlyAt, Kind
<1> QED
  BY <1>1, <1>2, <1>3, <1>4 DEF Progress, Kind

LEMMA EventProgress ==
  ASSUME WorkerExecutorAssumption, ExecutorTypeOK, WorkersKnown, ReadyOnce, OneJob, Orderly,
         ResultsKnown,
         NEW w \in Workers, NEW j \in Jobs, NEW k \in Nat, EventArrives(w, j, k),
         NEW i \in Jobs, Progress(i), Got(i) \in Nat,
         Got(i)' = IF i = j THEN Got(i) + 1 ELSE Got(i)
  PROVE  Progress(i)'
<1>1. /\ w = current /\ w # 0 /\ place[j] = "posted" /\ Arrives(w, "event")
      /\ UNCHANGED <<emitted, place, result, phase, task, current>>
  BY EventIsNext DEF EventArrives, manager_vars, job_vars
<1>2. CASE i # j
  <2>1. place[i] # "posted"
    BY <1>1, <1>2, PostedThere
  <2> QED
    BY <1>1, <1>2, <2>1, ProgressStays
<1>3. CASE i = j
  <2>1. ASSUME NEW n \in Messages(w)'
        PROVE  /\ channel'[w][n].kind = "event" => channel'[w][n].value = Got(i)' + n
               /\ channel'[w][n].kind = "ok" => Got(i)' + n = emitted[i] + 1
    <3>1. n \in Nat \ {0} /\ n + 1 \in Messages(w) /\ channel'[w][n] = channel[w][n + 1]
      BY <1>1, Remaining
    <3>2. /\ Kind(n + 1) = "event" => channel[w][n + 1].value = Got(i) + (n + 1)
          /\ Kind(n + 1) = "ok" => Got(i) + (n + 1) = emitted[i] + 1
      BY <1>1, <1>3, <3>1 DEF Progress
    <3>3. Got(i) + (n + 1) = Got(i)' + n
      BY <1>3, <3>1
    <3> QED
      BY <1>1, <3>1, <3>2, <3>3 DEF Kind
  <2>2. task[current] = i /\ phase[current] = "running" =>
          Got(i)' + Len(channel'[current]) = emitted[i]
    <3>1. Len(channel'[w]) = Len(channel[w]) - 1 /\ Len(channel[w]) \in Nat
      BY <1>1, Received
    <3> QED
      BY <1>1, <1>3, <3>1 DEF Progress
  <2>3. result'[i] # "ok"
    BY <1>1, <1>3 DEF ResultsKnown
  <2> QED
    BY <1>1, <1>3, <2>1, <2>2, <2>3 DEF Progress, Kind
<1> QED
  BY <1>2, <1>3

-----------------------------------------------------------------------------
(* The calls and their observers.                                           *)

\* The observer sees the events in order, and those that wait go on from there.
InOrder(i) ==
  /\ observing[i] = 0 => chain[i] = <<>>
  /\ \A k \in 1..Len(seen[i]) : seen[i][k] = k
  /\ \A k \in 1..Len(chain[i]) : chain[i][k] = Len(seen[i]) + k

\* Observers are only stopped before the end for a reason that is remembered; a call
\* gets past its job with a value, and past its observers when none is awaited.
CallKnown(i) ==
  /\ i \in stopped /\ call[i] # "settled" => i \in aborted \cup failed
  /\ call[i] \in {"draining", "committing"} => result[i] = "ok"
  /\ call[i] = "committing" /\ i \notin stopped => observing[i] = 0
  /\ call[i] = "settled" => place[i] = "over"

Observed(i) == i \notin stopped => InOrder(i) /\ Progress(i)

ReportInd ==
  /\ IndInv
  /\ Orderly
  /\ ResultsKnown
  /\ \A i \in Jobs : CallKnown(i) /\ Observed(i)

LEMMA AppendedInOrder ==
  ASSUME NEW s \in Seq(Nat), NEW k \in Nat, NEW n \in Nat, k = n + Len(s) + 1,
         \A i \in 1..Len(s) : s[i] = n + i
  PROVE  /\ Len(Append(s, k)) = Len(s) + 1
         /\ \A i \in 1..Len(Append(s, k)) : Append(s, k)[i] = n + i
<1>1. Len(s) \in Nat /\ Len(Append(s, k)) = Len(s) + 1
  OBVIOUS
<1>2. ASSUME NEW i \in 1..Len(Append(s, k)) PROVE Append(s, k)[i] = n + i
  <2>1. CASE i = Len(s) + 1
    BY <2>1
  <2>2. CASE i # Len(s) + 1
    <3>1. i \in 1..Len(s)
      BY <1>1, <2>2
    <3> QED
      BY <3>1
  <2> QED
    BY <2>1, <2>2
<1> QED
  BY <1>1, <1>2

LEMMA SeenTypes ==
  ASSUME ObserverTypes, NEW i \in Jobs
  PROVE  /\ seen[i] \in Seq(Nat) /\ chain[i] \in Seq(Nat)
         /\ Len(seen[i]) \in Nat /\ Len(chain[i]) \in Nat /\ Got(i) \in Nat
<1>1. seen[i] \in Seq(Nat) /\ chain[i] \in Seq(Nat)
  BY DEF ObserverTypes
<1>2. Len(seen[i]) \in Nat /\ Len(chain[i]) \in Nat
  BY <1>1
<1>3. \A m, n \in Nat : m + n \in Nat
  OBVIOUS
<1>4. Len(seen[i]) + Len(chain[i]) \in Nat
  BY <1>2, <1>3
<1> QED
  BY <1>1, <1>2, <1>4 DEF Got

\* The next event of the chain is observed.
LEMMA AdvanceInOrder ==
  ASSUME ObserverTypes, NEW j \in Jobs, Advance(j), InOrder(j)
  PROVE  /\ InOrder(j)' /\ Got(j)' = Got(j)
         /\ \A i \in Jobs \ {j} : /\ seen'[i] = seen[i] /\ chain'[i] = chain[i]
                                  /\ observing'[i] = observing[i]
<1>1. \A i \in Jobs \ {j} : /\ seen'[i] = seen[i] /\ chain'[i] = chain[i]
                            /\ observing'[i] = observing[i]
  BY DEF Advance, Call, ObserverTypes
<1>2. CASE chain[j] = <<>>
  <2>1. chain' = chain /\ seen' = seen
    BY <1>2 DEF Advance
  <2> QED
    BY <1>1, <1>2, <2>1 DEF InOrder, Got
<1>3. CASE chain[j] # <<>>
  <2> DEFINE s == seen[j]
             c == chain[j]
  <2>1. /\ s \in Seq(Nat) /\ c \in Seq(Nat) /\ c # <<>>
        /\ Len(s) \in Nat /\ Len(c) \in Nat \ {0}
    BY <1>3, SeenTypes
  <2>2. /\ seen'[j] = Append(s, Head(c)) /\ chain'[j] = Tail(c) /\ observing'[j] = Head(c)
    BY <1>3 DEF Advance, Call, ObserverTypes
  <2>3. Head(c) = Len(s) + 1
    <3>1. Head(c) = c[1] /\ 1 \in 1..Len(c)
      BY <2>1
    <3> QED
      BY <3>1 DEF InOrder
  <2>4. /\ Len(Append(s, Head(c))) = Len(s) + 1
        /\ \A k \in 1..Len(Append(s, Head(c))) : Append(s, Head(c))[k] = 0 + k
    <3>1. Head(c) \in Nat /\ Head(c) = 0 + Len(s) + 1
      BY <2>1, <2>3
    <3>2. \A k \in 1..Len(s) : s[k] = 0 + k
      BY DEF InOrder
    <3> HIDE DEF s, c
    <3> QED
      BY <2>1, <3>1, <3>2, AppendedInOrder
  <2>5. /\ Len(Tail(c)) = Len(c) - 1
        /\ \A k \in 1..Len(Tail(c)) : Tail(c)[k] = c[k + 1] /\ k + 1 \in 1..Len(c)
    BY <2>1
  <2>6. \A k \in 1..Len(Tail(c)) : Tail(c)[k] = (Len(s) + 1) + k
    <3> SUFFICES ASSUME NEW k \in 1..Len(Tail(c)) PROVE Tail(c)[k] = (Len(s) + 1) + k
      OBVIOUS
    <3>1. Tail(c)[k] = Len(s) + (k + 1)
      BY <2>5 DEF InOrder
    <3>2. k \in Nat /\ Len(s) \in Nat
      BY <2>1, <2>5
    <3> HIDE DEF s, c
    <3>3. Len(s) + (k + 1) = (Len(s) + 1) + k
      BY <3>2
    <3> QED
      BY <3>1, <3>3
  <2>7. \A k \in 1..Len(seen'[j]) : seen'[j][k] = k
    BY <2>2, <2>4
  <2>8. Len(seen'[j]) = Len(s) + 1 /\ Len(chain'[j]) = Len(c) - 1
    BY <2>2, <2>4, <2>5
  <2>9. \A k \in 1..Len(chain'[j]) : chain'[j][k] = Len(seen'[j]) + k
    BY <2>2, <2>6, <2>8
  <2>10. observing'[j] # 0
    BY <2>1, <2>2, <2>3
  <2>11. Got(j)' = Got(j)
    <3>1. Got(j) = Len(s) + Len(c) /\ Got(j)' = Len(seen'[j]) + Len(chain'[j])
      BY DEF Got
    <3>2. Len(s) + Len(c) = (Len(s) + 1) + (Len(c) - 1)
      <4> HIDE DEF s, c
      <4> QED
        BY <2>1
    <3> QED
      BY <2>8, <3>1, <3>2
  <2> QED
    BY <1>1, <2>7, <2>9, <2>10, <2>11 DEF InOrder
<1> QED
  BY <1>2, <1>3

\* The event that is next is observed or waits.
LEMMA EventInOrder ==
  ASSUME ObserverTypes, NEW j \in Jobs, NEW k \in Nat, OnEvent(j, k), j \notin stopped,
         InOrder(j), k = Got(j) + 1
  PROVE  InOrder(j)' /\ Got(j)' = Got(j) + 1
<1> DEFINE s == seen[j]
           c == chain[j]
<1>1. s \in Seq(Nat) /\ c \in Seq(Nat) /\ Len(s) \in Nat /\ Len(c) \in Nat
  BY SeenTypes
<1>2. k = Len(s) + Len(c) + 1
  BY DEF Got
<1>3. CASE IsFree(j)
  <2>1. seen'[j] = Append(s, k) /\ chain' = chain /\ observing'[j] = k
    BY <1>3 DEF OnEvent, Call, ObserverTypes
  <2>2. c = <<>> /\ Len(c) = 0
    BY <1>3 DEF InOrder, IsFree
  <2>3. /\ Len(Append(s, k)) = Len(s) + 1
        /\ \A i \in 1..Len(Append(s, k)) : Append(s, k)[i] = 0 + i
    <3>1. k = 0 + Len(s) + 1 /\ \A i \in 1..Len(s) : s[i] = 0 + i
      BY <1>1, <1>2, <2>2 DEF InOrder
    <3> HIDE DEF s, c
    <3> QED
      BY <1>1, <3>1, AppendedInOrder
  <2>4. \A i \in 1..Len(seen'[j]) : seen'[j][i] = i
    BY <2>1, <2>3
  <2>5. Got(j)' = Got(j) + 1
    <3>1. Got(j) = Len(s) + Len(c) /\ Got(j)' = Len(seen'[j]) + Len(chain'[j])
      BY DEF Got
    <3>2. (Len(s) + 1) + Len(c) = (Len(s) + Len(c)) + 1
      <4> HIDE DEF s, c
      <4> QED
        BY <1>1
    <3> QED
      BY <2>1, <2>3, <3>1, <3>2
  <2> QED
    BY <2>1, <2>2, <2>4, <2>5 DEF InOrder
<1>4. CASE ~IsFree(j)
  <2>1. chain'[j] = Append(c, k) /\ seen' = seen /\ observing' = observing
    BY <1>4 DEF OnEvent, ObserverTypes
  <2>2. /\ Len(Append(c, k)) = Len(c) + 1
        /\ \A i \in 1..Len(Append(c, k)) : Append(c, k)[i] = Len(s) + i
    <3>1. \A i \in 1..Len(c) : c[i] = Len(s) + i
      BY DEF InOrder
    <3> HIDE DEF s, c
    <3> QED
      BY <1>1, <1>2, <3>1, AppendedInOrder
  <2>3. \A i \in 1..Len(chain'[j]) : chain'[j][i] = Len(seen'[j]) + i
    BY <2>1, <2>2
  <2>4. Got(j)' = Got(j) + 1
    <3>1. Got(j) = Len(s) + Len(c) /\ Got(j)' = Len(seen'[j]) + Len(chain'[j])
      BY DEF Got
    <3>2. Len(s) + (Len(c) + 1) = (Len(s) + Len(c)) + 1
      <4> HIDE DEF s, c
      <4> QED
        BY <1>1
    <3> QED
      BY <2>1, <2>2, <3>1, <3>2
  <2> QED
    BY <1>4, <2>1, <2>3, <2>4 DEF InOrder, IsFree
<1> QED
  BY <1>3, <1>4

\* Who is not acted on is observed as before.
LEMMA ObservedStays ==
  ASSUME WorkerExecutorAssumption, ReportInd, QuietNext \/ UNCHANGED executor_vars,
         NEW i \in Jobs, i \notin stopped,
         seen'[i] = seen[i], chain'[i] = chain[i], observing'[i] = observing[i]
  PROVE  Observed(i)'
<1>1. InOrder(i) /\ Progress(i) /\ Got(i) \in Nat /\ Got(i)' = Got(i)
  <2>1. ObserverTypes
    BY DEF ReportInd, IndInv, TypeOK, ObserverTypes
  <2> QED
    BY <2>1, SeenTypes DEF ReportInd, Observed, Got
<1>2. InOrder(i)'
  BY <1>1 DEF InOrder
<1>3. Progress(i)'
  <2>1. CASE QuietNext
    BY <1>1, <2>1, StepProgress DEF ReportInd, IndInv, ExecutorInd
  <2>2. CASE UNCHANGED executor_vars
    <3>1. UNCHANGED <<emitted, place, result, current, channel, phase, task>>
      BY <2>2 DEF executor_vars, manager_vars, thread_vars, job_vars
    <3> QED
      BY <1>1, <3>1, ProgressStays
  <2> QED
    BY <2>1, <2>2
<1> QED
  BY <1>2, <1>3 DEF Observed

LEMMA StepObserved ==
  ASSUME WorkerExecutorAssumption, ReportInd, [Next]_vars, NEW i \in Jobs
  PROVE  Observed(i)'
<1> USE DEF observer_vars
<1>1. ExecutorTypeOK /\ ObserverTypes
  BY DEF ReportInd, IndInv, TypeOK, ObserverTypes
<1>2. ASSUME UNCHANGED observer_vars, QuietNext \/ UNCHANGED executor_vars
      PROVE  Observed(i)'
  <2>1. CASE i \in stopped
    BY <1>2, <2>1 DEF Observed
  <2>2. CASE i \notin stopped
    BY <1>2, <2>2, ObservedStays
  <2> QED
    BY <2>1, <2>2
<1>3. ASSUME NEW j \in Jobs, stopped' = stopped \cup {j},
             \A J \in Jobs \ {j} : /\ seen'[J] = seen[J] /\ chain'[J] = chain[J]
                                   /\ observing'[J] = observing[J],
             QuietNext \/ UNCHANGED executor_vars
      PROVE  Observed(i)'
  <2>1. CASE i \in stopped'
    BY <2>1 DEF Observed
  <2>2. CASE i \notin stopped'
    BY <1>3, <2>2, ObservedStays
  <2> QED
    BY <2>1, <2>2
<1>4. ASSUME NEW j \in Jobs, Calls(j) PROVE Observed(i)'
  BY <1>2, <1>4 DEF Calls, QuietNext
<1>5. ASSUME NEW j \in Jobs, Cancel(j) PROVE QuietNext \/ UNCHANGED executor_vars
  BY <1>1, <1>5, CancelSteps DEF QuietNext
<1>6. ASSUME NEW j \in Jobs, StopObservers(j), QuietNext \/ UNCHANGED executor_vars
      PROVE  Observed(i)'
  <2>1. stopped' = stopped \cup {j}
    BY <1>6 DEF StopObservers
  <2>2. \A J \in Jobs \ {j} : /\ seen'[J] = seen[J] /\ chain'[J] = chain[J]
                              /\ observing'[J] = observing[J]
    BY <1>1, <1>6 DEF StopObservers, ObserverTypes
  <2> QED
    BY <1>3, <1>6, <2>1, <2>2
<1>7. ASSUME NEW j \in Jobs, Abort(j) \/ ObserverFails(j) PROVE Observed(i)'
  <2>1. StopObservers(j) /\ Cancel(j)
    BY <1>7 DEF Abort, ObserverFails
  <2> QED
    BY <1>5, <1>6, <2>1
<1>8. ASSUME NEW j \in Jobs, InterruptCall(j) PROVE Observed(i)'
  <2>1. QuietNext \/ UNCHANGED executor_vars
    BY <1>1, <1>8, InterruptSteps DEF InterruptCall, QuietNext
  <2>2. UNCHANGED observer_vars
    BY <1>8 DEF InterruptCall
  <2> QED
    BY <1>2, <2>1, <2>2
<1>9. ASSUME NEW j \in Jobs, Answered(j) \/ Commit(j) PROVE Observed(i)'
  BY <1>2, <1>9 DEF Answered, Commit
<1>10. ASSUME NEW j \in Jobs, Conclude(j) PROVE Observed(i)'
  BY <1>6, <1>10 DEF Conclude
<1>11. ASSUME NEW j \in Jobs, Rejected(j) PROVE Observed(i)'
  <2>1. stopped' = stopped \cup {j} /\ UNCHANGED executor_vars
    BY <1>11 DEF Rejected
  <2>2. \A J \in Jobs \ {j} : /\ seen'[J] = seen[J] /\ chain'[J] = chain[J]
                              /\ observing'[J] = observing[J]
    BY <1>1, <1>11 DEF Rejected, ObserverTypes
  <2> QED
    BY <1>3, <2>1, <2>2
<1>12. ASSUME NEW j \in Jobs, ObserverReturns(j) PROVE Observed(i)'
  <2>1. Advance(j) /\ UNCHANGED executor_vars /\ stopped' = stopped /\ observing[j] # 0
    BY <1>12 DEF ObserverReturns
  <2>2. CASE i \in stopped
    BY <2>1, <2>2 DEF Observed
  <2>3. CASE i \notin stopped
    <3>1. j \notin stopped /\ InOrder(j)
      BY <2>1 DEF ReportInd, IndInv, Released, Observed
    <3>2. CASE i # j
      BY <1>1, <2>1, <2>3, <3>1, <3>2, AdvanceInOrder, ObservedStays
    <3>3. CASE i = j
      <4>1. InOrder(i)' /\ Got(i)' = Got(i) /\ Progress(i) /\ Got(i) \in Nat
        BY <1>1, <2>1, <2>3, <3>1, <3>3, AdvanceInOrder, SeenTypes DEF ReportInd, Observed
      <4>2. UNCHANGED <<emitted, place, result, current, channel, phase, task>>
        BY <2>1 DEF executor_vars, manager_vars, thread_vars, job_vars
      <4>3. Progress(i)'
        BY <4>1, <4>2, ProgressStays
      <4> QED
        BY <4>1, <4>3 DEF Observed
    <3> QED
      BY <3>2, <3>3
  <2> QED
    BY <2>2, <2>3
<1>13. ASSUME NEW j \in Jobs, EventArrivesAt(j) PROVE Observed(i)'
  <2>1. PICK w \in Workers, k \in 1..emitted[j] :
          /\ EventArrives(w, j, k)
          /\ IF place[j] = "posted" THEN OnEvent(j, k) ELSE UNCHANGED observer_vars
    BY <1>13 DEF EventArrivesAt
  <2>2. k \in Nat
    BY <1>1 DEF ExecutorTypeOK
  <2>3. place[j] = "posted" /\ (Progress(j) => k = Got(j) + 1)
    BY <2>1, <2>2, EventIsNext DEF ReportInd, IndInv, ExecutorInd
  <2>4. OnEvent(j, k) /\ stopped' = stopped
    BY <2>1, <2>3 DEF OnEvent
  <2>5. CASE i \in stopped
    BY <2>4, <2>5 DEF Observed
  <2>6. CASE i \notin stopped
    <3>1. InOrder(i) /\ Progress(i) /\ Got(i) \in Nat
      BY <1>1, <2>6, SeenTypes DEF ReportInd, Observed
    <3>2. CASE i # j
      <4>1. /\ seen'[i] = seen[i] /\ chain'[i] = chain[i] /\ observing'[i] = observing[i]
        BY <1>1, <2>4, <3>2 DEF OnEvent, Call, ObserverTypes
      <4>2. InOrder(i)' /\ Got(i)' = Got(i)
        BY <3>1, <4>1 DEF InOrder, Got
      <4>3. Progress(i)'
        BY <2>1, <2>2, <3>1, <3>2, <4>2, EventProgress DEF ReportInd, IndInv, ExecutorInd
      <4> QED
        BY <4>2, <4>3 DEF Observed
    <3>3. CASE i = j
      <4>1. InOrder(i)' /\ Got(i)' = Got(i) + 1
        BY <1>1, <2>2, <2>3, <2>4, <2>6, <3>1, <3>3, EventInOrder
      <4>2. Progress(i)'
        BY <2>1, <2>2, <3>1, <3>3, <4>1, EventProgress DEF ReportInd, IndInv, ExecutorInd
      <4> QED
        BY <4>1, <4>2 DEF Observed
    <3> QED
      BY <3>2, <3>3
  <2> QED
    BY <2>5, <2>6
<1>14. ASSUME Manager \/ Load \/ Thread, UNCHANGED observer_vars PROVE Observed(i)'
  <2>1. QuietNext
    BY <1>14 DEF Manager, Thread, QuietNext
  <2> QED
    BY <1>2, <1>14, <2>1
<1>15. CASE UNCHANGED vars
  BY <1>2, <1>15 DEF vars
<1> QED
  BY <1>4, <1>7, <1>8, <1>9, <1>10, <1>11, <1>12, <1>13, <1>14, <1>15
     DEF Next, Caller, User, Parent

LEMMA StepAdvancesAll ==
  ASSUME WorkerExecutorAssumption, ReportInd, [Next]_vars
  PROVE  \A i \in Jobs : Advances(i)
<1>1. ExecutorTypeOK /\ WorkersKnown /\ ReadyOnce /\ OneJob /\ AnswersKnown
  BY DEF ReportInd, IndInv, ExecutorInd
<1>2. CASE ExecutorNext
  BY <1>1, <1>2, StepAdvances
<1>3. CASE UNCHANGED executor_vars
  BY <1>3 DEF executor_vars, job_vars, Advances
<1>4. CASE UNCHANGED vars
  BY <1>3, <1>4 DEF vars
<1> QED
  BY <1>1, <1>2, <1>3, <1>4, ExecutorSteps

LEMMA StepCallKnown ==
  ASSUME WorkerExecutorAssumption, ReportInd, [Next]_vars, NEW i \in Jobs
  PROVE  CallKnown(i)'
<1> USE DEF observer_vars, call_vars
<1>1. CallKnown(i) /\ CallTypes /\ ObserverTypes
  BY DEF ReportInd, IndInv, TypeOK, CallTypes, ObserverTypes
<1>2. Advances(i)
  BY StepAdvancesAll
<1>3. /\ result[i] = "ok" => result'[i] = "ok"
      /\ place[i] = "over" => place'[i] = "over"
      /\ result[i] # "none" => place'[i] = "over"
  BY <1>2 DEF Advances, ReportInd, ResultsKnown
<1>4. ASSUME UNCHANGED <<observer_vars, call_vars>> PROVE CallKnown(i)'
  BY <1>1, <1>3, <1>4 DEF CallKnown
<1>5. ASSUME NEW j \in Jobs, i # j,
             /\ call'[i] = call[i] /\ observing'[i] = observing[i]
             /\ (i \in stopped' <=> i \in stopped) /\ (i \in aborted' <=> i \in aborted)
             /\ (i \in failed' <=> i \in failed)
      PROVE  CallKnown(i)'
  BY <1>1, <1>3, <1>5 DEF CallKnown
<1>6. ASSUME NEW j \in Jobs, Calls(j) PROVE CallKnown(i)'
  <2>1. /\ call' = [call EXCEPT ![j] = "waiting"]
        /\ UNCHANGED <<observing, stopped, aborted, failed>> /\ place[j] = "new"
    BY <1>6 DEF Calls, Execute
  <2>2. CASE i = j
    BY <1>1, <1>3, <2>1, <2>2 DEF CallKnown, CallTypes
  <2>3. CASE i # j
    BY <1>1, <1>5, <2>1, <2>3 DEF CallTypes
  <2> QED
    BY <2>2, <2>3
<1>7. ASSUME NEW j \in Jobs, Abort(j) \/ ObserverFails(j) PROVE CallKnown(i)'
  <2>1. /\ call' = call /\ stopped' = stopped \cup {j}
        /\ observing' = [observing EXCEPT ![j] = 0]
        /\ \/ aborted' = aborted \cup {j} /\ failed' = failed
           \/ failed' = failed \cup {j} /\ aborted' = aborted
    BY <1>7 DEF Abort, ObserverFails, StopObservers
  <2>2. CASE i = j
    BY <1>1, <1>3, <2>1, <2>2 DEF CallKnown
  <2>3. CASE i # j
    BY <1>1, <1>5, <2>1, <2>3 DEF ObserverTypes
  <2> QED
    BY <2>2, <2>3
<1>8. ASSUME NEW j \in Jobs, InterruptCall(j) PROVE CallKnown(i)'
  BY <1>4, <1>8 DEF InterruptCall
<1>9. ASSUME NEW j \in Jobs, ObserverReturns(j) PROVE CallKnown(i)'
  <2>1. /\ UNCHANGED <<call, stopped, aborted, failed>> /\ observing[j] # 0
        /\ \A J \in Jobs \ {j} : observing'[J] = observing[J]
    BY <1>1, <1>9 DEF ObserverReturns, Advance, Call, ObserverTypes
  <2>2. CASE i = j
    BY <1>1, <1>3, <2>1, <2>2 DEF CallKnown
  <2>3. CASE i # j
    BY <1>5, <2>1, <2>3
  <2> QED
    BY <2>2, <2>3
<1>10. ASSUME NEW j \in Jobs, EventArrivesAt(j) PROVE CallKnown(i)'
  <2>1. /\ UNCHANGED <<call, stopped, aborted, failed>>
        /\ \A J \in Jobs \ {j} : observing'[J] = observing[J]
    BY <1>1, <1>10 DEF EventArrivesAt, OnEvent, Call, ObserverTypes
  <2>2. result[j] # "ok"
    <3>1. PICK w \in Workers, k \in 1..emitted[j] : EventArrives(w, j, k)
      BY <1>10 DEF EventArrivesAt
    <3>2. k \in Nat
      BY DEF ReportInd, IndInv, ExecutorInd, ExecutorTypeOK
    <3>3. place[j] = "posted"
      BY <3>1, <3>2, EventIsNext DEF ReportInd, IndInv, ExecutorInd
    <3> QED
      BY <3>3 DEF ReportInd, ResultsKnown
  <2>3. CASE i = j
    BY <1>1, <1>3, <2>1, <2>2, <2>3 DEF CallKnown
  <2>4. CASE i # j
    BY <1>5, <2>1, <2>4
  <2> QED
    BY <2>3, <2>4
<1>11. ASSUME NEW j \in Jobs, Rejected(j) \/ Conclude(j) PROVE CallKnown(i)'
  <2>1. /\ call' = [call EXCEPT ![j] = "settled"] /\ stopped' = stopped \cup {j}
        /\ observing' = [observing EXCEPT ![j] = 0]
        /\ aborted' = aborted \ {j} /\ failed' = failed \ {j}
    BY <1>11 DEF Rejected, Conclude, StopObservers, Settle
  <2>2. CASE i = j
    <3>1. result[i] # "none"
      BY <1>1, <1>11, <2>2 DEF Rejected, Conclude, CallKnown
    <3> QED
      BY <1>1, <1>3, <2>1, <2>2, <3>1 DEF CallKnown, CallTypes
  <2>3. CASE i # j
    BY <1>1, <1>5, <2>1, <2>3 DEF CallTypes, ObserverTypes
  <2> QED
    BY <2>2, <2>3
<1>12. ASSUME NEW j \in Jobs, Answered(j) PROVE CallKnown(i)'
  <2>1. /\ call' = [call EXCEPT ![j] = "draining"] /\ result[j] = "ok"
        /\ call[j] = "waiting" /\ UNCHANGED <<observing, stopped, aborted, failed>>
    BY <1>12 DEF Answered
  <2>2. CASE i = j
    BY <1>1, <1>3, <2>1, <2>2 DEF CallKnown, CallTypes
  <2>3. CASE i # j
    BY <1>1, <1>5, <2>1, <2>3 DEF CallTypes
  <2> QED
    BY <2>2, <2>3
<1>13. ASSUME NEW j \in Jobs, Commit(j) PROVE CallKnown(i)'
  <2>1. /\ call' = [call EXCEPT ![j] = "committing"] /\ call[j] = "draining"
        /\ j \notin stopped => observing[j] = 0
        /\ UNCHANGED <<observing, stopped, aborted, failed>>
    BY <1>13 DEF Commit, ObserversDone
  <2>2. CASE i = j
    BY <1>1, <1>3, <2>1, <2>2 DEF CallKnown, CallTypes
  <2>3. CASE i # j
    BY <1>1, <1>5, <2>1, <2>3 DEF CallTypes
  <2> QED
    BY <2>2, <2>3
<1>14. CASE UNCHANGED vars
  BY <1>4, <1>14 DEF vars
<1> QED
  BY <1>4, <1>6, <1>7, <1>8, <1>9, <1>10, <1>11, <1>12, <1>13, <1>14
     DEF Next, Caller, User, Parent

LEMMA InitReportInd ==
  ASSUME WorkerExecutorAssumption, Init
  PROVE  ReportInd
<1>1. IndInv
  BY InitInd
<1>2. Orderly /\ ResultsKnown
  BY DEF Init, ExecutorInit, Orderly, ResultsKnown
<1>3. ASSUME NEW i \in Jobs PROVE CallKnown(i)
  BY DEF Init, CallKnown
<1>4. ASSUME NEW i \in Jobs PROVE Observed(i)
  <2>1. /\ seen[i] = <<>> /\ chain[i] = <<>> /\ emitted[i] = 0 /\ place[i] = "new"
        /\ result[i] = "none"
    BY DEF Init, ExecutorInit
  <2>2. Len(seen[i]) = 0 /\ Len(chain[i]) = 0
    BY <2>1
  <2> QED
    BY <2>1, <2>2 DEF Observed, InOrder, Progress, Got
<1> QED
  BY <1>1, <1>2, <1>3, <1>4 DEF ReportInd

LEMMA StepReportInd ==
  ASSUME WorkerExecutorAssumption, ReportInd, [Next]_vars
  PROVE  ReportInd'
<1>1. IndInv'
  BY StepInd DEF ReportInd
<1>2. Orderly'
  <2>1. CASE ExecutorNext
    BY <2>1, StepOrderly DEF ReportInd, IndInv, ExecutorInd
  <2>2. CASE UNCHANGED executor_vars
    BY <2>2 DEF executor_vars, manager_vars, thread_vars, job_vars, ReportInd, Orderly,
       OrderlyAt, Kind, Messages
  <2>3. CASE UNCHANGED vars
    BY <2>2, <2>3 DEF vars
  <2> QED
    BY <2>1, <2>2, <2>3, ExecutorSteps DEF ReportInd, IndInv, ExecutorInd
<1>3. ResultsKnown'
  BY StepAdvancesAll, StepResultsKnown DEF ReportInd
<1>4. \A i \in Jobs : CallKnown(i)' /\ Observed(i)'
  BY StepCallKnown, StepObserved
<1> QED
  BY <1>1, <1>2, <1>3, <1>4 DEF ReportInd

-----------------------------------------------------------------------------
(* The theorems.                                                            *)

\* What has been observed, what waits for the observer, what is under way and what
\* the solver has emitted agree in every reachable state.
THEOREM EventsAddUp == Spec => []ReportInd
<1>1. Init => ReportInd
  BY WorkerExecutorAssumption, InitReportInd
<1>2. ReportInd /\ [Next]_vars => ReportInd'
  BY WorkerExecutorAssumption, StepReportInd
<1> QED
  BY <1>1, <1>2, PTL DEF Spec

\* A call that is about to end with a value has shown every event to its observer.
LEMMA ValueComesLast ==
  ASSUME ReportInd, NEW j \in Jobs, call[j] = "committing", j \notin aborted \cup failed
  PROVE  seen[j] = [k \in 1..emitted[j] |-> k]
<1>1. j \notin stopped /\ observing[j] = 0 /\ result[j] = "ok"
  BY DEF ReportInd, CallKnown
<1>2. InOrder(j) /\ chain[j] = <<>> /\ Got(j) = emitted[j]
  BY <1>1 DEF ReportInd, Observed, InOrder, Progress
<1>3. seen[j] \in Seq(Nat) /\ Len(seen[j]) \in Nat
  BY SeenTypes DEF ReportInd, IndInv, TypeOK, ObserverTypes
<1>4. Len(seen[j]) = emitted[j]
  BY <1>2, <1>3 DEF Got
<1>5. seen[j] = [k \in 1..Len(seen[j]) |-> seen[j][k]]
  BY <1>3
<1> QED
  BY <1>2, <1>4, <1>5 DEF InOrder

\* A value is given after the observer has seen every event of the job in order, and a
\* job that has a value is committed before anything is reported of it.
THEOREM ValuesComeLast == Spec => ReportsLast
<1>1. ASSUME ReportInd, Next, NEW j \in Jobs, outcome'[j] # outcome[j]
      PROVE  /\ outcome'[j] = "value" => seen[j] = [k \in 1..emitted[j] |-> k]
             /\ result[j] = "ok" => call[j] = "committing"
  <2> USE DEF call_vars
  <2>1. CallTypes
    BY <1>1 DEF ReportInd, IndInv, TypeOK, CallTypes
  <2>2. ASSUME NEW i \in Jobs,
               Calls(i) \/ Abort(i) \/ InterruptCall(i) \/ ObserverReturns(i)
               \/ ObserverFails(i) \/ EventArrivesAt(i) \/ Answered(i) \/ Commit(i)
        PROVE  outcome' = outcome
    BY <2>2 DEF Calls, Abort, InterruptCall, ObserverReturns, ObserverFails,
       EventArrivesAt, Answered, Commit
  <2>3. ASSUME NEW i \in Jobs, NEW value, Settle(i, value)
        PROVE  i = j /\ outcome'[j] = value
    BY <1>1, <2>1, <2>3 DEF Settle, CallTypes
  <2>4. ASSUME NEW i \in Jobs, Rejected(i)
        PROVE  outcome'[j] # "value" /\ result[j] # "ok"
    <3>1. /\ result[i] \in {"error", "cancelled"}
          /\ \E value \in {"error", "observer", "aborted"} : Settle(i, value)
      BY <2>4 DEF Rejected
    <3> QED
      BY <2>3, <3>1
  <2>5. ASSUME NEW i \in Jobs, Conclude(i)
        PROVE  /\ call[j] = "committing"
               /\ outcome'[j] = "value" => j \notin aborted \cup failed
    <3>1. call[i] = "committing"
      BY <2>5 DEF Conclude
    <3>2. PICK value \in {"error", CASE i \in failed -> "observer"
                                     [] i \notin failed /\ i \in aborted -> "aborted"
                                     [] OTHER -> "value"} : Settle(i, value)
      BY <2>5 DEF Conclude
    <3>3. i = j /\ outcome'[j] = value
      BY <2>3, <3>2
    <3>4. value = "value" => i \notin failed /\ i \notin aborted
      BY <3>2
    <3> QED
      BY <3>1, <3>3, <3>4
  <2>6. ASSUME NEW i \in Jobs, Conclude(i)
        PROVE  outcome'[j] = "value" => seen[j] = [k \in 1..emitted[j] |-> k]
    BY <1>1, <2>5, <2>6, ValueComesLast
  <2> QED
    BY <1>1, <2>2, <2>4, <2>5, <2>6 DEF Next, Caller, User, Parent
<1>2. ReportInd /\ [Next]_vars =>
        [\A j \in Jobs : outcome'[j] # outcome[j] =>
           /\ outcome'[j] = "value" => seen[j] = [k \in 1..emitted[j] |-> k]
           /\ result[j] = "ok" => call[j] = "committing"]_vars
  BY <1>1
<1> QED
  BY <1>2, EventsAddUp, PTL DEF Spec, ReportsLast

=============================================================================
