------------------------- MODULE JobSchedulerProofs -------------------------
(***************************************************************************)
(* Proofs about JobScheduler, for any set of jobs and callers, any budget  *)
(* and any queue bound.                                                    *)
(***************************************************************************)
EXTENDS SchedulerAdmission, FiniteSetTheorems, SequenceTheorems, TLAPS

-----------------------------------------------------------------------------
(* Counting threads.                                                       *)

\* The threads of one job, as many as it asks for.
LEMMA OneJobTokens ==
  ASSUME NEW j, NEW n \in Nat
  PROVE  /\ IsFiniteSet({j} \X (1..n))
         /\ Cardinality({j} \X (1..n)) = n
<1> DEFINE f == [i \in 1..n |-> <<j, i>>]
<1>1. f \in Bijection(1..n, {j} \X (1..n))
  <2>1. f \in [1..n -> {j} \X (1..n)]
    OBVIOUS
  <2>2. \A a, b \in 1..n : f[a] = f[b] => a = b
    OBVIOUS
  <2>3. \A y \in {j} \X (1..n) : \E i \in 1..n : f[i] = y
    OBVIOUS
  <2> QED BY <2>1, <2>2, <2>3 DEF Bijection, Injection, Surjection, IsInjective
<1>2. IsFiniteSet(1..n) /\ Cardinality(1..n) = n
  BY FS_Interval
<1>3. ExistsBijection(1..n, {j} \X (1..n))
  BY <1>1 DEF ExistsBijection
<1> QED BY <1>2, <1>3, FS_Bijection

\* The threads that a set of jobs holds are finitely many.
LEMMA TokensFinite ==
  ASSUME SchedulerAssumption, NEW S \in SUBSET Jobs
  PROVE  /\ IsFiniteSet(Tokens(S))
         /\ Cardinality(Tokens(S)) \in Nat
<1>1. IsFiniteSet(S)
  BY FS_Subset DEF SchedulerAssumption
<1>2. IsFiniteSet(1..TotalThreads)
  BY FS_Interval DEF SchedulerAssumption
<1>3. IsFiniteSet(S \X (1..TotalThreads))
  BY <1>1, <1>2, FS_Product
<1>4. Tokens(S) \in SUBSET (S \X (1..TotalThreads))
  BY DEF Tokens
<1>5. IsFiniteSet(Tokens(S))
  BY <1>3, <1>4, FS_Subset
<1> QED BY <1>5, FS_CardinalityType

\* One more job holds exactly its request more.
LEMMA TokensAdd ==
  ASSUME SchedulerAssumption, NEW S \in SUBSET Jobs, NEW j \in Jobs \ S,
         Requested[j] \in 1..TotalThreads
  PROVE  Cardinality(Tokens(S \cup {j})) = Cardinality(Tokens(S)) + Requested[j]
<1> DEFINE own == {j} \X (1..Requested[j])
<1>1. Requested[j] \in Nat
  BY DEF SchedulerAssumption
<1>2. IsFiniteSet(own) /\ Cardinality(own) = Requested[j]
  BY <1>1, OneJobTokens
<1>3. IsFiniteSet(Tokens(S)) /\ Cardinality(Tokens(S)) \in Nat
  BY TokensFinite
<1>4. Tokens(S \cup {j}) = Tokens(S) \cup own
  BY <1>1 DEF Tokens, SchedulerAssumption
<1>5. Tokens(S) \cap own = {}
  BY DEF Tokens
<1>6. Cardinality(Tokens(S) \cap own) = 0
  BY <1>5, FS_EmptySet
<1>7. Cardinality(Tokens(S) \cup own)
        = Cardinality(Tokens(S)) + Cardinality(own) - Cardinality(Tokens(S) \cap own)
  BY <1>2, <1>3, FS_Union
<1>8. Cardinality(Tokens(S \cup {j})) = Cardinality(Tokens(S) \cup own)
  BY <1>4
<1> HIDE DEF own
<1> QED BY <1>1, <1>2, <1>3, <1>6, <1>7, <1>8

\* Taking a job away releases exactly its request.
LEMMA TokensRemove ==
  ASSUME SchedulerAssumption, NEW S \in SUBSET Jobs, NEW j \in S,
         Requested[j] \in 1..TotalThreads
  PROVE  Cardinality(Tokens(S \ {j})) = Cardinality(Tokens(S)) - Requested[j]
<1>1. (S \ {j}) \in SUBSET Jobs /\ j \in Jobs \ (S \ {j})
  OBVIOUS
<1>2. (S \ {j}) \cup {j} = S
  OBVIOUS
<1>3. Cardinality(Tokens(S)) = Cardinality(Tokens(S \ {j})) + Requested[j]
  BY <1>1, <1>2, TokensAdd
<1>4. Cardinality(Tokens(S \ {j})) \in Nat
  BY <1>1, TokensFinite
<1> QED BY <1>3, <1>4

-----------------------------------------------------------------------------
(* The queue as a sequence.                                                *)

\* Erasing j shifts what stood behind it by one place.
LEMMA WithoutShifts ==
  ASSUME NEW q \in Seq(Jobs), NEW i \in 1..Len(q),
         \A a, b \in 1..Len(q) : a # b => q[a] # q[b]
  PROVE  /\ Without(q, q[i]) \in Seq(Jobs)
         /\ Len(Without(q, q[i])) = Len(q) - 1
         /\ \A k \in 1..(Len(q) - 1) :
              Without(q, q[i])[k] = IF k < i THEN q[k] ELSE q[k + 1]
<1> DEFINE at == CHOOSE k \in 1..Len(q) : q[k] = q[i]
<1>1. at = i
  OBVIOUS
<1>2. Without(q, q[i]) = SubSeq(q, 1, i - 1) \o SubSeq(q, i + 1, Len(q))
  BY <1>1 DEF Without
<1> DEFINE front == SubSeq(q, 1, i - 1)
           back  == SubSeq(q, i + 1, Len(q))
<1>3. /\ front \in Seq(Jobs) /\ Len(front) = i - 1
      /\ \A k \in 1..(i - 1) : front[k] = q[k]
  OBVIOUS
<1>4. /\ back \in Seq(Jobs) /\ Len(back) = Len(q) - i
      /\ \A k \in 1..(Len(q) - i) : back[k] = q[k + i]
  OBVIOUS
<1>5. Without(q, q[i]) = front \o back
  BY <1>2
<1> HIDE DEF front, back, at
<1>6. /\ front \o back \in Seq(Jobs)
      /\ Len(front \o back) = Len(front) + Len(back)
      /\ \A k \in 1..(Len(front) + Len(back)) :
           (front \o back)[k] = IF k <= Len(front) THEN front[k]
                                ELSE back[k - Len(front)]
  BY <1>3, <1>4, ConcatProperties
<1>7. Len(q) \in Nat /\ i \in 1..Len(q)
  OBVIOUS
<1>8. ASSUME NEW k \in 1..(Len(q) - 1)
      PROVE  (front \o back)[k] = IF k < i THEN q[k] ELSE q[k + 1]
  <2>1. CASE k < i
    BY <2>1, <1>3, <1>4, <1>6, <1>7
  <2>2. CASE ~(k < i)
    <3>1. (front \o back)[k] = back[k - (i - 1)]
      BY <2>2, <1>3, <1>4, <1>6, <1>7
    <3>2. k - (i - 1) \in 1..(Len(q) - i)
      BY <2>2, <1>7
    <3>3. back[k - (i - 1)] = q[k - (i - 1) + i]
      BY <3>2, <1>4
    <3> QED BY <3>1, <3>3, <2>2, <1>7
  <2> QED BY <2>1, <2>2
<1>9. Len(front \o back) = Len(q) - 1
  BY <1>3, <1>4, <1>6, <1>7
<1> QED BY <1>5, <1>6, <1>8, <1>9

-----------------------------------------------------------------------------
(* Types and control.                                                      *)

\* A thread that is in EmitStatus has a record to report on.
LEMMA SubjectIsJob ==
  ASSUME TypeOK, NEW t \in Threads, pc[t] \in EmitPoints
  PROVE  Subject(t) \in Jobs
BY DEF TypeOK, ControlOK, Threads, Subject, EmitPoints, CallerEmits, WorkerEmits

\* What Goto must be given for a caller ...
LEMMA CallerGoto ==
  ASSUME SchedulerAssumption, TypeOK, NEW c \in Callers, NEW point \in CallerPoints,
         Goto(c, point), pc[c] \notin {"idle", "doom"} \/ point \in {"idle", "doom"},
         emission' = [emission EXCEPT ![c] = Unset]
  PROVE  ControlOK'
<1>1. c \notin Jobs
  BY DEF SchedulerAssumption
<1> QED BY <1>1 DEF TypeOK, ControlOK, Goto, Threads

\* ... and for the thread of a job.
LEMMA WorkerGoto ==
  ASSUME SchedulerAssumption, TypeOK, NEW j \in Jobs,
         NEW point \in WorkerPoints, Goto(j, point),
         emission' = [emission EXCEPT ![j] = Unset]
  PROVE  ControlOK'
<1>1. j \notin Callers /\ point # "idle"
  BY DEF SchedulerAssumption, WorkerPoints, WorkerEmits
<1> QED BY <1>1 DEF TypeOK, ControlOK, Goto, Threads

\* A thread outside EmitStatus carries no status.
LEMMA NoEmission ==
  ASSUME TypeOK, NEW t \in Threads, pc[t] \notin EmitPoints, UNCHANGED emission
  PROVE  emission' = [emission EXCEPT ![t] = Unset]
BY DEF TypeOK, ControlOK

\* A caller takes up a record.
LEMMA TakeControl ==
  ASSUME SchedulerAssumption, TypeOK, NEW c \in Callers, NEW j \in Jobs,
         NEW point \in CallerPoints, Take(c, j, point),
         emission' = [emission EXCEPT ![c] = Unset]
  PROVE  ControlOK'
<1>1. c \notin Jobs
  BY DEF SchedulerAssumption
<1> QED BY <1>1 DEF TypeOK, ControlOK, Take, Threads

-----------------------------------------------------------------------------
(* Every step keeps the types.                                             *)

\* The head of the queue has not been launched and may be.
LEMMA HeadIsQueued ==
  ASSUME IndInv, queue # <<>>
  PROVE  /\ Head(queue) \in Jobs
         /\ state[Head(queue)] = "queued"
         /\ pc[Head(queue)] = "unlaunched"
         /\ AllocateThreads(Head(queue))
<1>1. queue[1] = Head(queue) /\ 1 \in 1..Len(queue)
  BY DEF IndInv, TypeOK, PoolOK
<1>2. Head(queue) \in Jobs /\ state[Head(queue)] = "queued"
  BY <1>1 DEF IndInv, QueueHoldsQueued, Queued
<1> QED
  BY <1>2 DEF IndInv, TypeOK, ControlOK, JobPhases, EndedPoints, Occupying, Terminal

\* A queued record stands at one place of the queue; erasing it closes the gap.
LEMMA QueuedIsErased ==
  ASSUME IndInv, NEW j \in Jobs, state[j] = "queued"
  PROVE  /\ Without(queue, j) \in Seq(Jobs)
         /\ \E i \in 1..Len(queue) :
              /\ queue[i] = j
              /\ Len(Without(queue, j)) = Len(queue) - 1
              /\ \A k \in 1..(Len(queue) - 1) :
                   Without(queue, j)[k] = IF k < i THEN queue[k] ELSE queue[k + 1]
<1>1. PICK i \in 1..Len(queue) : queue[i] = j
  BY DEF IndInv, QueueHoldsQueued, Queued
<1>2. queue \in Seq(Jobs) /\ \A a, b \in 1..Len(queue) : a # b => queue[a] # queue[b]
  BY DEF IndInv, TypeOK, PoolOK, QueueHoldsQueued
<1> QED BY <1>1, <1>2, WithoutShifts

\* The jobs that hold threads are finitely many.
LEMMA ReservedFinite == SchedulerAssumption => IsFiniteSet(Reserved)
BY FS_Subset DEF Reserved, SchedulerAssumption

\* A queued record has no thread.
LEMMA QueuedUnlaunched ==
  ASSUME IndInv, NEW j \in Jobs, state[j] = "queued"
  PROVE  pc[j] = "unlaunched"
BY DEF IndInv, TypeOK, ControlOK, JobPhases, EndedPoints, Occupying, Terminal

\* Every step keeps the types.
LEMMA TypeOKStep ==
  ASSUME SchedulerAssumption, IndInv, [Next]_vars
  PROVE  TypeOK'
<1>0. TypeOK
  BY DEF IndInv
<1>1. ASSUME NEW t \in Threads, Snapshot(t) PROVE TypeOK'
  <2>1. Subject(t) \in Jobs
    BY <1>0, <1>1, SubjectIsJob DEF Snapshot
  <2>2. ControlOK'
    BY <1>0, <1>1, <2>1 DEF TypeOK, ControlOK, RecordsOK, Snapshot
  <2>3. RecordsOK'
    BY <1>0, <1>1 DEF TypeOK, RecordsOK, Snapshot, record_vars
  <2>4. PoolOK'
    BY <1>0, <1>1 DEF TypeOK, PoolOK, Snapshot, pool_vars, history
  <2> QED BY <2>2, <2>3, <2>4 DEF TypeOK
<1>2. ASSUME NEW t \in Threads, Deliver(t) PROVE TypeOK'
  <2>1. pc[t] \in EmitPoints /\ Subject(t) \in Jobs
    BY <1>0, <1>2, SubjectIsJob DEF Deliver, TypeOK, ControlOK
  <2>2. ControlOK'
    <3>1. CASE t \in Callers
      BY <1>0, <1>2, <2>1, <3>1, CallerGoto
         DEF Deliver, Continuation, TypeOK, ControlOK, CallerPoints, CallerEmits, WorkerPoints, WorkerEmits, EmitPoints, Threads
    <3>2. CASE t \in Jobs
      BY <1>0, <1>2, <2>1, <3>2, WorkerGoto
         DEF Deliver, Continuation, TypeOK, ControlOK, CallerPoints, CallerEmits, WorkerPoints, WorkerEmits, EmitPoints, Threads
    <3> QED BY <3>1, <3>2 DEF Threads
  <2>3. RecordsOK'
    BY <1>0, <1>2 DEF TypeOK, RecordsOK, Deliver, record_vars
  <2>4. PoolOK'
    BY <1>0, <1>2, <2>1 DEF TypeOK, PoolOK, Deliver, pool_vars
  <2> QED BY <2>2, <2>3, <2>4 DEF TypeOK
<1>3. ASSUME NEW t \in Threads, DispatchEnter(t) PROVE TypeOK'
  <2>1. emission' = [emission EXCEPT ![t] = Unset]
    BY <1>0, <1>3, NoEmission DEF DispatchEnter, EmitPoints, CallerEmits, WorkerEmits
  <2>2. ControlOK'
    <3>1. CASE t \in Callers
      BY <1>0, <1>3, <2>1, <3>1, CallerGoto
         DEF DispatchEnter, SchedulerAssumption, CallerPoints
    <3>2. CASE t \in Jobs
      BY <1>0, <1>3, <2>1, <3>2, WorkerGoto DEF DispatchEnter, WorkerPoints
    <3> QED BY <3>1, <3>2 DEF Threads
  <2>3. RecordsOK'
    BY <1>0, <1>3 DEF TypeOK, RecordsOK, DispatchEnter, record_vars
  <2>4. PoolOK'
    BY <1>0, <1>3 DEF TypeOK, ControlOK, PoolOK, DispatchEnter, history, CanLaunch, SchedulerAssumption, Threads, NotReady
  <2> QED BY <2>2, <2>3, <2>4 DEF TypeOK
<1>4. ASSUME NEW t \in Threads, DispatchLaunch(t) PROVE TypeOK'
  <2> DEFINE h == Head(queue)
  <2>1. h \in Jobs /\ Tail(queue) \in Seq(Jobs)
    BY <1>0, <1>4 DEF DispatchLaunch, CanLaunch, TypeOK, PoolOK
  <2>2. pc[h] \notin EmitPoints
    BY <1>0, <1>4, HeadIsQueued DEF DispatchLaunch, CanLaunch, EmitPoints, CallerEmits, WorkerEmits
  <2>3. emission' = [emission EXCEPT ![h] = Unset]
    BY <1>0, <1>4, <2>1, <2>2, NoEmission DEF DispatchLaunch, Launch, Threads
  <2>4. ControlOK'
    BY <1>0, <1>4, <2>1, <2>3, WorkerGoto DEF DispatchLaunch, Launch, WorkerPoints, WorkerEmits
  <2>5. RecordsOK'
    BY <1>0, <1>4, <2>1 DEF TypeOK, RecordsOK, DispatchLaunch, Launch, States, Occupying
  <2>6. PoolOK'
    BY <1>0, <1>4, <2>1 DEF TypeOK, PoolOK, DispatchLaunch, Launch, SchedulerAssumption, history
  <2> QED BY <2>4, <2>5, <2>6 DEF TypeOK
<1>5. ASSUME NEW t \in Threads, DispatchExit(t) PROVE TypeOK'
  <2>1. emission' = [emission EXCEPT ![t] = Unset]
    BY <1>0, <1>5, NoEmission DEF DispatchExit, EmitPoints, CallerEmits, WorkerEmits
  <2>2. ControlOK'
    <3>1. CASE t \in Callers
      BY <1>0, <1>5, <2>1, <3>1, CallerGoto
         DEF DispatchExit, SchedulerAssumption, CallerPoints, AfterDispatch
    <3>2. CASE t \in Jobs
      BY <1>0, <1>5, <2>1, <3>2, WorkerGoto DEF DispatchExit, WorkerPoints, AfterDispatch
    <3> QED BY <3>1, <3>2 DEF Threads
  <2>3. RecordsOK'
    BY <1>0, <1>5 DEF TypeOK, RecordsOK, DispatchExit, record_vars
  <2>4. PoolOK'
    <3>1. handle' \subseteq Jobs
      BY <1>0, <1>5 DEF TypeOK, ControlOK, PoolOK, DispatchExit
    <3> QED
      BY <1>0, <1>5, <3>1 DEF TypeOK, PoolOK, DispatchExit, history
  <2> QED BY <2>2, <2>3, <2>4 DEF TypeOK
<1>6. ASSUME NEW t \in Threads, DispatchThrow(t) PROVE TypeOK'
  <2>1. emission' = [emission EXCEPT ![t] = Unset]
    BY <1>0, <1>6, NoEmission DEF DispatchThrow, EmitPoints, CallerEmits, WorkerEmits
  <2>2. ControlOK'
    <3>1. CASE t \in Callers
      BY <1>0, <1>6, <2>1, <3>1, CallerGoto
         DEF DispatchThrow, SchedulerAssumption, CallerPoints, AfterDispatch
    <3>2. CASE t \in Jobs
      BY <1>0, <1>6, <2>1, <3>2, WorkerGoto DEF DispatchThrow, WorkerPoints, AfterDispatch
    <3> QED BY <3>1, <3>2 DEF Threads
  <2>3. RecordsOK'
    BY <1>0, <1>6 DEF TypeOK, RecordsOK, DispatchThrow, record_vars
  <2>4. PoolOK'
    BY <1>0, <1>6 DEF TypeOK, ControlOK, PoolOK, DispatchThrow, history, CanLaunch, SchedulerAssumption, Threads, AfterDispatch
  <2> QED BY <2>2, <2>3, <2>4 DEF TypeOK
<1>7. ASSUME NEW c \in Callers, NEW j \in Jobs, Submit(c, j) PROVE TypeOK'
  <2>1. emission' = [emission EXCEPT ![c] = Unset]
    BY <1>0, <1>7, NoEmission DEF Submit, Threads, EmitPoints, CallerEmits, WorkerEmits
  <2>2. ControlOK'
    BY <1>0, <1>7, <2>1, TakeControl DEF Submit, CallerPoints, CallerEmits
  <2>3. RecordsOK'
    BY <1>0, <1>7 DEF TypeOK, RecordsOK, Submit, record_vars, States, PoolOK
  <2>4. PoolOK'
    BY <1>0, <1>7 DEF TypeOK, PoolOK, Submit, pool_vars, history
  <2> QED BY <2>2, <2>3, <2>4 DEF TypeOK
<1>8. ASSUME NEW c \in Callers, NEW j \in Jobs, CancelRequest(c, j) PROVE TypeOK'
  <2>1. emission' = [emission EXCEPT ![c] = Unset]
    BY <1>0, <1>8, NoEmission DEF CancelRequest, Threads, EmitPoints, CallerEmits, WorkerEmits
  <2>2. ControlOK'
    BY <1>0, <1>8, <2>1, TakeControl DEF CancelRequest, CallerPoints, CallerEmits
  <2>3. RecordsOK'
    BY <1>0, <1>8 DEF TypeOK, RecordsOK, CancelRequest, record_vars
  <2>4. PoolOK'
    BY <1>0, <1>8 DEF TypeOK, PoolOK, CancelRequest, pool_vars, history
  <2> QED BY <2>2, <2>3, <2>4 DEF TypeOK
<1>9. ASSUME NEW c \in Callers, NEW j \in Jobs, InterruptCheck(c, j) PROVE TypeOK'
  <2>1. emission' = [emission EXCEPT ![c] = Unset]
    BY <1>0, <1>9, NoEmission DEF InterruptCheck, Threads, EmitPoints, CallerEmits, WorkerEmits
  <2>2. ControlOK'
    BY <1>0, <1>9, <2>1, TakeControl DEF InterruptCheck, CallerPoints, CallerEmits
  <2>3. RecordsOK'
    BY <1>0, <1>9 DEF TypeOK, RecordsOK, InterruptCheck, record_vars
  <2>4. PoolOK'
    BY <1>0, <1>9 DEF TypeOK, PoolOK, InterruptCheck, pool_vars, history
  <2> QED BY <2>2, <2>3, <2>4 DEF TypeOK
<1>10. ASSUME NEW c \in Callers, ShutdownBegin(c) PROVE TypeOK'
  <2>1. emission' = [emission EXCEPT ![c] = Unset]
    BY <1>0, <1>10, NoEmission DEF ShutdownBegin, Threads, EmitPoints, CallerEmits, WorkerEmits
  <2>2. ControlOK'
    BY <1>0, <1>10, <2>1, CallerGoto DEF ShutdownBegin, CallerPoints, CallerEmits
  <2>3. RecordsOK'
    BY <1>0, <1>10 DEF TypeOK, RecordsOK, ShutdownBegin, record_vars, Withdraw, States, Terminal
  <2>4. PoolOK'
    BY <1>0, <1>10 DEF TypeOK, PoolOK, ShutdownBegin, pool_vars, history, ThreadsToJoin
  <2> QED BY <2>2, <2>3, <2>4 DEF TypeOK
<1>11. ASSUME NEW c \in Callers, ShutdownAgain(c) PROVE TypeOK'
  <2>1. emission' = [emission EXCEPT ![c] = Unset]
    BY <1>0, <1>11, NoEmission DEF ShutdownAgain, Threads, EmitPoints, CallerEmits, WorkerEmits
  <2>2. ControlOK'
    BY <1>0, <1>11, <2>1, CallerGoto DEF ShutdownAgain, CallerPoints, CallerEmits
  <2>3. RecordsOK'
    BY <1>0, <1>11 DEF TypeOK, RecordsOK, ShutdownAgain, record_vars
  <2>4. PoolOK'
    BY <1>0, <1>11 DEF TypeOK, PoolOK, ShutdownAgain, pool_vars, history, ThreadsToJoin
  <2> QED BY <2>2, <2>3, <2>4 DEF TypeOK
<1>12. ASSUME NEW c \in Callers, CancelTooLate(c) PROVE TypeOK'
  <2>1. emission' = [emission EXCEPT ![c] = Unset]
    BY <1>0, <1>12, NoEmission DEF CancelTooLate, Threads, EmitPoints, CallerEmits, WorkerEmits
  <2>2. ControlOK'
    BY <1>0, <1>12, <2>1, CallerGoto DEF CancelTooLate, CallerPoints, CallerEmits
  <2>3. RecordsOK'
    BY <1>0, <1>12 DEF TypeOK, RecordsOK, CancelTooLate, record_vars
  <2>4. PoolOK'
    BY <1>0, <1>12 DEF TypeOK, PoolOK, CancelTooLate, pool_vars, history
  <2> QED BY <2>2, <2>3, <2>4 DEF TypeOK
<1>13. ASSUME NEW c \in Callers, CancelQueued(c) PROVE TypeOK'
  <2>1. emission' = [emission EXCEPT ![c] = Unset]
    BY <1>0, <1>13, NoEmission DEF CancelQueued, Threads, EmitPoints, CallerEmits, WorkerEmits
  <2>2. ControlOK'
    BY <1>0, <1>13, <2>1, CallerGoto DEF CancelQueued, CallerPoints, CallerEmits
  <2>3. Without(queue, target[c]) \in Seq(Jobs)
    BY <1>0, <1>13, QueuedIsErased DEF CancelQueued, TypeOK, ControlOK
  <2>4. RecordsOK'
    BY <1>0, <1>13 DEF TypeOK, RecordsOK, CancelQueued, record_vars, Withdraw, States, Terminal
  <2>5. PoolOK'
    BY <1>0, <1>13, <2>3 DEF TypeOK, PoolOK, CancelQueued, pool_vars, history
  <2> QED BY <2>2, <2>4, <2>5 DEF TypeOK
<1>14. ASSUME NEW c \in Callers, CancelActive(c) PROVE TypeOK'
  <2>1. emission' = [emission EXCEPT ![c] = Unset]
    BY <1>0, <1>14, NoEmission DEF CancelActive, Threads, EmitPoints, CallerEmits, WorkerEmits
  <2>2. ControlOK'
    BY <1>0, <1>14, <2>1, CallerGoto DEF CancelActive, CallerPoints, CallerEmits
  <2>3. RecordsOK'
    BY <1>0, <1>14 DEF TypeOK, RecordsOK, CancelActive, record_vars, States, Occupying
  <2>4. PoolOK'
    BY <1>0, <1>14 DEF TypeOK, PoolOK, CancelActive, pool_vars, history
  <2> QED BY <2>2, <2>3, <2>4 DEF TypeOK
<1>15. ASSUME NEW c \in Callers, InterruptRequest(c) PROVE TypeOK'
  <2>1. emission' = [emission EXCEPT ![c] = Unset]
    BY <1>0, <1>15, NoEmission DEF InterruptRequest, Threads, EmitPoints, CallerEmits, WorkerEmits
  <2>2. ControlOK'
    BY <1>0, <1>15, <2>1, CallerGoto DEF InterruptRequest, CallerPoints, CallerEmits
  <2>3. RecordsOK'
    BY <1>0, <1>15 DEF TypeOK, RecordsOK, InterruptRequest, record_vars
  <2>4. PoolOK'
    BY <1>0, <1>15 DEF TypeOK, PoolOK, InterruptRequest, pool_vars, history
  <2> QED BY <2>2, <2>3, <2>4 DEF TypeOK
<1>16. ASSUME NEW c \in Callers, ShutdownNotify(c) PROVE TypeOK'
  <2>1. emission' = [emission EXCEPT ![c] = Unset]
    BY <1>0, <1>16, NoEmission DEF ShutdownNotify, Threads, EmitPoints, CallerEmits, WorkerEmits
  <2>2. Head(doomed[c]) \in Jobs /\ Tail(doomed[c]) \in Seq(Jobs)
    BY <1>0, <1>16 DEF ShutdownNotify, TypeOK, PoolOK
  <2>3. ControlOK'
    BY <1>0, <1>16, <2>1, <2>2, TakeControl DEF ShutdownNotify, CallerPoints, CallerEmits
  <2>4. RecordsOK'
    BY <1>0, <1>16, <2>2 DEF TypeOK, RecordsOK, ShutdownNotify
  <2>5. PoolOK'
    BY <1>0, <1>16, <2>2 DEF TypeOK, PoolOK, ShutdownNotify, pool_vars, history
  <2> QED BY <2>3, <2>4, <2>5 DEF TypeOK
<1>17. ASSUME NEW c \in Callers, ShutdownEnd(c) PROVE TypeOK'
  <2>1. emission' = [emission EXCEPT ![c] = Unset]
    BY <1>0, <1>17, NoEmission DEF ShutdownEnd, Threads, EmitPoints, CallerEmits, WorkerEmits
  <2>2. ControlOK'
    BY <1>0, <1>17, <2>1, CallerGoto DEF ShutdownEnd, CallerPoints, CallerEmits
  <2>3. RecordsOK'
    BY <1>0, <1>17 DEF TypeOK, RecordsOK, ShutdownEnd, record_vars
  <2>4. PoolOK'
    BY <1>0, <1>17 DEF TypeOK, PoolOK, ShutdownEnd, pool_vars, history
  <2> QED BY <2>2, <2>3, <2>4 DEF TypeOK
<1>18. ASSUME NEW j \in Jobs, RunBegin(j) PROVE TypeOK'
  <2>1. emission' = [emission EXCEPT ![j] = Unset]
    BY <1>0, <1>18, NoEmission DEF RunBegin, Threads, EmitPoints, CallerEmits, WorkerEmits
  <2>2. ControlOK'
    BY <1>0, <1>18, <2>1, WorkerGoto DEF RunBegin, WorkerPoints, WorkerEmits
  <2>3. RecordsOK'
    BY <1>0, <1>18 DEF TypeOK, RecordsOK, RunBegin, record_vars, States, Occupying
  <2>4. PoolOK'
    BY <1>0, <1>18 DEF TypeOK, PoolOK, RunBegin, pool_vars, history
  <2> QED BY <2>2, <2>3, <2>4 DEF TypeOK
<1>19. ASSUME NEW j \in Jobs, JobReturns(j) PROVE TypeOK'
  <2>1. emission' = [emission EXCEPT ![j] = Unset]
    BY <1>0, <1>19, NoEmission DEF JobReturns, Threads, EmitPoints, CallerEmits, WorkerEmits
  <2>2. ControlOK'
    BY <1>0, <1>19, <2>1, WorkerGoto DEF JobReturns, WorkerPoints, WorkerEmits
  <2>3. RecordsOK'
    BY <1>0, <1>19 DEF TypeOK, RecordsOK, JobReturns, record_vars, Settled, Terminal
  <2>4. PoolOK'
    BY <1>0, <1>19 DEF TypeOK, PoolOK, JobReturns, pool_vars, history
  <2> QED BY <2>2, <2>3, <2>4 DEF TypeOK
<1>20. ASSUME NEW j \in Jobs, RunFinish(j) PROVE TypeOK'
  <2>1. emission' = [emission EXCEPT ![j] = Unset]
    BY <1>0, <1>20, NoEmission DEF RunFinish, Threads, EmitPoints, CallerEmits, WorkerEmits
  <2>2. ControlOK'
    BY <1>0, <1>20, <2>1, WorkerGoto DEF RunFinish, WorkerPoints, WorkerEmits
  <2>3. RecordsOK'
    BY <1>0, <1>20 DEF TypeOK, RecordsOK, RunFinish, record_vars, IndInv, JobPhases, States
  <2>4. PoolOK'
    BY <1>0, <1>20 DEF TypeOK, PoolOK, RunFinish, pool_vars, history, Release, SchedulerAssumption
  <2> QED BY <2>2, <2>3, <2>4 DEF TypeOK
<1>21. ASSUME NEW j \in Jobs, RunPublish(j) PROVE TypeOK'
  <2>1. emission' = [emission EXCEPT ![j] = Unset]
    BY <1>0, <1>21, NoEmission DEF RunPublish, Threads, EmitPoints, CallerEmits, WorkerEmits
  <2>2. ControlOK'
    BY <1>0, <1>21, <2>1, WorkerGoto DEF RunPublish, WorkerPoints, WorkerEmits
  <2>3. result[j] \in Terminal
    BY <1>0, <1>21 DEF RunPublish, IndInv, JobPhases, EndedPoints, ActivePoints, WorkerPoints
  <2>4. RecordsOK'
    BY <1>0, <1>21, <2>3 DEF TypeOK, RecordsOK, RunPublish, record_vars
  <2>5. PoolOK'
    BY <1>0, <1>21 DEF TypeOK, PoolOK, RunPublish, pool_vars, history
  <2> QED BY <2>2, <2>4, <2>5 DEF TypeOK
<1>22. ASSUME NEW j \in Jobs, ClearStatusCallback(j) PROVE TypeOK'
  <2>1. emission' = [emission EXCEPT ![j] = Unset]
    BY <1>0, <1>22, NoEmission DEF ClearStatusCallback, Threads, EmitPoints, CallerEmits, WorkerEmits
  <2>2. ControlOK'
    BY <1>0, <1>22, <2>1, WorkerGoto DEF ClearStatusCallback, WorkerPoints, WorkerEmits
  <2>3. RecordsOK'
    BY <1>0, <1>22 DEF TypeOK, RecordsOK, ClearStatusCallback, record_vars
  <2>4. PoolOK'
    BY <1>0, <1>22 DEF TypeOK, PoolOK, ClearStatusCallback, pool_vars, history
  <2> QED BY <2>2, <2>3, <2>4 DEF TypeOK
<1>23. CASE UNCHANGED vars
  BY <1>0, <1>23 DEF TypeOK, ControlOK, RecordsOK, PoolOK, vars, record_vars,
     pool_vars, thread_vars, history
<1> QED
  BY <1>1, <1>2, <1>3, <1>4, <1>5, <1>6, <1>7, <1>8, <1>9, <1>10, <1>11,
     <1>12, <1>13, <1>14, <1>15, <1>16, <1>17, <1>18, <1>19, <1>20, <1>21, <1>22, <1>23
     DEF Next, Call, Proceed, Run, EmitStatus, Dispatch, Threads

-----------------------------------------------------------------------------
(* Every step keeps the rest of IndInv.                                    *)

\* A record's state keeps up with its thread.
LEMMA JobPhasesStep ==
  ASSUME SchedulerAssumption, IndInv, [Next]_vars
  PROVE  JobPhases'
<1>0. TypeOK /\ TypeOK'
  BY TypeOKStep DEF IndInv
<1>1. ASSUME NEW t \in Threads, Snapshot(t) PROVE JobPhases'
  BY <1>0, <1>1
     DEF Snapshot, Goto, IndInv, JobPhases, AllocateThreads, ActivePoints, EndedPoints, WorkerPoints, WorkerEmits, Occupying, Terminal, TypeOK, ControlOK, RecordsOK, Threads,
         SchedulerAssumption, record_vars
<1>2. ASSUME NEW t \in Threads, Deliver(t) PROVE JobPhases'
  BY <1>0, <1>2
     DEF Deliver, Goto, IndInv, JobPhases, AllocateThreads, ActivePoints, EndedPoints, WorkerPoints, WorkerEmits, Occupying, Terminal, TypeOK, ControlOK, RecordsOK, Threads,
         SchedulerAssumption, record_vars, Continuation, EmitPoints, CallerEmits, CallerPoints
<1>3. ASSUME NEW t \in Threads, DispatchEnter(t) PROVE JobPhases'
  BY <1>0, <1>3
     DEF DispatchEnter, Goto, IndInv, JobPhases, AllocateThreads, ActivePoints, EndedPoints, WorkerPoints, WorkerEmits, Occupying, Terminal, TypeOK, ControlOK, RecordsOK, Threads,
         SchedulerAssumption, record_vars, AfterDispatch
<1>4. ASSUME NEW t \in Threads, DispatchLaunch(t) PROVE JobPhases'
  BY <1>0, <1>4, HeadIsQueued
     DEF DispatchLaunch, Goto, IndInv, JobPhases, AllocateThreads, ActivePoints, EndedPoints, WorkerPoints, WorkerEmits, Occupying, Terminal, TypeOK, ControlOK, RecordsOK, Threads,
         SchedulerAssumption, Launch, CanLaunch
<1>5. ASSUME NEW t \in Threads, DispatchExit(t) PROVE JobPhases'
  BY <1>0, <1>5
     DEF DispatchExit, Goto, IndInv, JobPhases, AllocateThreads, ActivePoints, EndedPoints, WorkerPoints, WorkerEmits, Occupying, Terminal, TypeOK, ControlOK, RecordsOK, Threads,
         SchedulerAssumption, record_vars, AfterDispatch
<1>6. ASSUME NEW t \in Threads, DispatchThrow(t) PROVE JobPhases'
  BY <1>0, <1>6
     DEF DispatchThrow, Goto, IndInv, JobPhases, AllocateThreads, ActivePoints, EndedPoints, WorkerPoints, WorkerEmits, Occupying, Terminal, TypeOK, ControlOK, RecordsOK, Threads,
         SchedulerAssumption, record_vars, AfterDispatch
<1>7. ASSUME NEW c \in Callers, NEW j \in Jobs, Submit(c, j) PROVE JobPhases'
  BY <1>0, <1>7
     DEF Submit, Goto, IndInv, JobPhases, AllocateThreads, ActivePoints, EndedPoints, WorkerPoints, WorkerEmits, Occupying, Terminal, TypeOK, ControlOK, RecordsOK, Threads,
         SchedulerAssumption, Take, record_vars
<1>8. ASSUME NEW c \in Callers, NEW j \in Jobs, CancelRequest(c, j) PROVE JobPhases'
  BY <1>0, <1>8
     DEF CancelRequest, Goto, IndInv, JobPhases, AllocateThreads, ActivePoints, EndedPoints, WorkerPoints, WorkerEmits, Occupying, Terminal, TypeOK, ControlOK, RecordsOK, Threads,
         SchedulerAssumption, Take, record_vars
<1>9. ASSUME NEW c \in Callers, NEW j \in Jobs, InterruptCheck(c, j) PROVE JobPhases'
  BY <1>0, <1>9
     DEF InterruptCheck, Goto, IndInv, JobPhases, AllocateThreads, ActivePoints, EndedPoints, WorkerPoints, WorkerEmits, Occupying, Terminal, TypeOK, ControlOK, RecordsOK, Threads,
         SchedulerAssumption, Take, record_vars
<1>10. ASSUME NEW c \in Callers, ShutdownBegin(c) PROVE JobPhases'
  BY <1>0, <1>10
     DEF ShutdownBegin, Goto, IndInv, JobPhases, AllocateThreads, ActivePoints, EndedPoints, WorkerPoints, WorkerEmits, Occupying, Terminal, TypeOK, ControlOK, RecordsOK, Threads,
         SchedulerAssumption, Withdraw, Queued, QueueHoldsQueued
<1>11. ASSUME NEW c \in Callers, ShutdownAgain(c) PROVE JobPhases'
  BY <1>0, <1>11
     DEF ShutdownAgain, Goto, IndInv, JobPhases, AllocateThreads, ActivePoints, EndedPoints, WorkerPoints, WorkerEmits, Occupying, Terminal, TypeOK, ControlOK, RecordsOK, Threads,
         SchedulerAssumption, record_vars
<1>12. ASSUME NEW c \in Callers, CancelTooLate(c) PROVE JobPhases'
  BY <1>0, <1>12
     DEF CancelTooLate, Goto, IndInv, JobPhases, AllocateThreads, ActivePoints, EndedPoints, WorkerPoints, WorkerEmits, Occupying, Terminal, TypeOK, ControlOK, RecordsOK, Threads,
         SchedulerAssumption, record_vars
<1>13. ASSUME NEW c \in Callers, CancelQueued(c) PROVE JobPhases'
  BY <1>0, <1>13
     DEF CancelQueued, Goto, IndInv, JobPhases, AllocateThreads, ActivePoints, EndedPoints, WorkerPoints, WorkerEmits, Occupying, Terminal, TypeOK, ControlOK, RecordsOK, Threads,
         SchedulerAssumption, Withdraw
<1>14. ASSUME NEW c \in Callers, CancelActive(c) PROVE JobPhases'
  <2>1. target[c] \in Jobs /\ state[target[c]] \in Occupying
    BY <1>0, <1>14 DEF CancelActive, IsTerminal, IndInv, TargetsAdmitted, TypeOK, ControlOK, RecordsOK, States
  <2>2. state' = [state EXCEPT ![target[c]] = "cancelling"] /\ UNCHANGED result
    BY <1>14 DEF CancelActive
  <2>3. \A j \in Jobs : pc'[j] = pc[j]
    BY <1>0, <1>14 DEF CancelActive, Goto, SchedulerAssumption, TypeOK, ControlOK, RecordsOK
  <2> QED
    BY <1>0, <2>1, <2>2, <2>3 DEF IndInv, JobPhases, AllocateThreads, ActivePoints, EndedPoints, WorkerPoints, WorkerEmits, Occupying, Terminal, TypeOK, ControlOK, RecordsOK
<1>15. ASSUME NEW c \in Callers, InterruptRequest(c) PROVE JobPhases'
  BY <1>0, <1>15
     DEF InterruptRequest, Goto, IndInv, JobPhases, AllocateThreads, ActivePoints, EndedPoints, WorkerPoints, WorkerEmits, Occupying, Terminal, TypeOK, ControlOK, RecordsOK, Threads,
         SchedulerAssumption, record_vars
<1>16. ASSUME NEW c \in Callers, ShutdownNotify(c) PROVE JobPhases'
  BY <1>0, <1>16
     DEF ShutdownNotify, Goto, IndInv, JobPhases, AllocateThreads, ActivePoints, EndedPoints, WorkerPoints, WorkerEmits, Occupying, Terminal, TypeOK, ControlOK, RecordsOK, Threads,
         SchedulerAssumption, Take, PoolOK
<1>17. ASSUME NEW c \in Callers, ShutdownEnd(c) PROVE JobPhases'
  BY <1>0, <1>17
     DEF ShutdownEnd, Goto, IndInv, JobPhases, AllocateThreads, ActivePoints, EndedPoints, WorkerPoints, WorkerEmits, Occupying, Terminal, TypeOK, ControlOK, RecordsOK, Threads,
         SchedulerAssumption, record_vars
<1>18. ASSUME NEW j \in Jobs, RunBegin(j) PROVE JobPhases'
  BY <1>0, <1>18
     DEF RunBegin, Goto, IndInv, JobPhases, AllocateThreads, ActivePoints, EndedPoints, WorkerPoints, WorkerEmits, Occupying, Terminal, TypeOK, ControlOK, RecordsOK, Threads,
         SchedulerAssumption, record_vars
<1>19. ASSUME NEW j \in Jobs, JobReturns(j) PROVE JobPhases'
  BY <1>0, <1>19
     DEF JobReturns, Goto, IndInv, JobPhases, AllocateThreads, ActivePoints, EndedPoints, WorkerPoints, WorkerEmits, Occupying, Terminal, TypeOK, ControlOK, RecordsOK, Threads,
         SchedulerAssumption, record_vars, Settled
<1>20. ASSUME NEW j \in Jobs, RunFinish(j) PROVE JobPhases'
  BY <1>0, <1>20
     DEF RunFinish, Goto, IndInv, JobPhases, AllocateThreads, ActivePoints, EndedPoints, WorkerPoints, WorkerEmits, Occupying, Terminal, TypeOK, ControlOK, RecordsOK, Threads,
         SchedulerAssumption, record_vars
<1>21. ASSUME NEW j \in Jobs, RunPublish(j) PROVE JobPhases'
  BY <1>0, <1>21
     DEF RunPublish, Goto, IndInv, JobPhases, AllocateThreads, ActivePoints, EndedPoints, WorkerPoints, WorkerEmits, Occupying, Terminal, TypeOK, ControlOK, RecordsOK, Threads,
         SchedulerAssumption, record_vars
<1>22. ASSUME NEW j \in Jobs, ClearStatusCallback(j) PROVE JobPhases'
  BY <1>0, <1>22
     DEF ClearStatusCallback, Goto, IndInv, JobPhases, AllocateThreads, ActivePoints, EndedPoints, WorkerPoints, WorkerEmits, Occupying, Terminal, TypeOK, ControlOK, RecordsOK, Threads,
         SchedulerAssumption, record_vars
<1>23. CASE UNCHANGED vars
  BY <1>23 DEF IndInv, JobPhases, AllocateThreads, record_vars, pool_vars, history, vars, thread_vars
<1> QED
  BY <1>1, <1>2, <1>3, <1>4, <1>5, <1>6, <1>7, <1>8, <1>9, <1>10, <1>11,
     <1>12, <1>13, <1>14, <1>15, <1>16, <1>17, <1>18, <1>19, <1>20, <1>21, <1>22, <1>23
     DEF Next, Call, Proceed, Run, EmitStatus, Dispatch, Threads

\* Callers only ever hold admitted records.
LEMMA TargetsAdmittedStep ==
  ASSUME SchedulerAssumption, IndInv, [Next]_vars
  PROVE  TargetsAdmitted'
<1>0. TypeOK /\ TypeOK'
  BY TypeOKStep DEF IndInv
<1>1. ASSUME NEW t \in Threads, Snapshot(t) PROVE TargetsAdmitted'
  BY <1>0, <1>1
     DEF Snapshot, Goto, IndInv, TargetsAdmitted, TypeOK, ControlOK, RecordsOK, PoolOK,
         Threads, SchedulerAssumption, record_vars, pool_vars
<1>2. ASSUME NEW t \in Threads, Deliver(t) PROVE TargetsAdmitted'
  BY <1>0, <1>2
     DEF Deliver, Goto, IndInv, TargetsAdmitted, TypeOK, ControlOK, RecordsOK, PoolOK,
         Threads, SchedulerAssumption, record_vars, pool_vars, Continuation, EmitPoints, CallerEmits,
         WorkerEmits, WorkerPoints, CallerPoints
<1>3. ASSUME NEW t \in Threads, DispatchEnter(t) PROVE TargetsAdmitted'
  BY <1>0, <1>3
     DEF DispatchEnter, Goto, IndInv, TargetsAdmitted, TypeOK, ControlOK, RecordsOK, PoolOK,
         Threads, SchedulerAssumption, record_vars, AfterDispatch
<1>4. ASSUME NEW t \in Threads, DispatchLaunch(t) PROVE TargetsAdmitted'
  BY <1>0, <1>4, HeadIsQueued
     DEF DispatchLaunch, Goto, IndInv, TargetsAdmitted, TypeOK, ControlOK, RecordsOK, PoolOK,
         Threads, SchedulerAssumption, Launch, CanLaunch
<1>5. ASSUME NEW t \in Threads, DispatchExit(t) PROVE TargetsAdmitted'
  <2>1. t \in Callers => target[t] \in Jobs /\ state[target[t]] # "unborn"
    BY <1>0, <1>5 DEF DispatchExit, IndInv, TargetsAdmitted, TypeOK, ControlOK, RecordsOK
  <2>2. UNCHANGED <<state, target>> \/ (t \in Callers /\ UNCHANGED state)
    BY <1>5 DEF DispatchExit, Goto, AfterDispatch, record_vars, Threads
  <2>3. \A h \in handle' : state'[h] # "unborn"
    BY <1>0, <1>5, <2>1, <2>2 DEF DispatchExit, IndInv, TargetsAdmitted
  <2>4. \A k \in Callers : k # t => pc'[k] = pc[k] /\ target'[k] = target[k]
    BY <1>0, <1>5 DEF DispatchExit, Goto, TypeOK, ControlOK, RecordsOK, Threads
  <2>5. t \in Callers => pc'[t] = "idle"
    BY <1>0, <1>5 DEF DispatchExit, Goto, AfterDispatch, TypeOK, ControlOK, RecordsOK, Threads,
       SchedulerAssumption
  <2> QED BY <2>2, <2>3, <2>4, <2>5 DEF IndInv, TargetsAdmitted
<1>6. ASSUME NEW t \in Threads, DispatchThrow(t) PROVE TargetsAdmitted'
  BY <1>0, <1>6
     DEF DispatchThrow, Goto, IndInv, TargetsAdmitted, TypeOK, ControlOK, RecordsOK, PoolOK,
         Threads, SchedulerAssumption, record_vars, AfterDispatch
<1>7. ASSUME NEW c \in Callers, NEW j \in Jobs, Submit(c, j) PROVE TargetsAdmitted'
  BY <1>0, <1>7
     DEF Submit, Goto, IndInv, TargetsAdmitted, TypeOK, ControlOK, RecordsOK, PoolOK,
         Threads, SchedulerAssumption, Take, record_vars, pool_vars
<1>8. ASSUME NEW c \in Callers, NEW j \in Jobs, CancelRequest(c, j) PROVE TargetsAdmitted'
  BY <1>0, <1>8
     DEF CancelRequest, Goto, IndInv, TargetsAdmitted, TypeOK, ControlOK, RecordsOK, PoolOK,
         Threads, SchedulerAssumption, Take, record_vars, pool_vars
<1>9. ASSUME NEW c \in Callers, NEW j \in Jobs, InterruptCheck(c, j) PROVE TargetsAdmitted'
  BY <1>0, <1>9
     DEF InterruptCheck, Goto, IndInv, TargetsAdmitted, TypeOK, ControlOK, RecordsOK, PoolOK,
         Threads, SchedulerAssumption, Take, record_vars, pool_vars
<1>10. ASSUME NEW c \in Callers, ShutdownBegin(c) PROVE TargetsAdmitted'
  BY <1>0, <1>10
     DEF ShutdownBegin, Goto, IndInv, TargetsAdmitted, TypeOK, ControlOK, RecordsOK, PoolOK,
         Threads, SchedulerAssumption, Withdraw
<1>11. ASSUME NEW c \in Callers, ShutdownAgain(c) PROVE TargetsAdmitted'
  BY <1>0, <1>11
     DEF ShutdownAgain, Goto, IndInv, TargetsAdmitted, TypeOK, ControlOK, RecordsOK, PoolOK,
         Threads, SchedulerAssumption, record_vars, pool_vars
<1>12. ASSUME NEW c \in Callers, CancelTooLate(c) PROVE TargetsAdmitted'
  BY <1>0, <1>12
     DEF CancelTooLate, Goto, IndInv, TargetsAdmitted, TypeOK, ControlOK, RecordsOK, PoolOK,
         Threads, SchedulerAssumption, record_vars, pool_vars
<1>13. ASSUME NEW c \in Callers, CancelQueued(c) PROVE TargetsAdmitted'
  BY <1>0, <1>13
     DEF CancelQueued, Goto, IndInv, TargetsAdmitted, TypeOK, ControlOK, RecordsOK, PoolOK,
         Threads, SchedulerAssumption, Withdraw
<1>14. ASSUME NEW c \in Callers, CancelActive(c) PROVE TargetsAdmitted'
  BY <1>0, <1>14
     DEF CancelActive, Goto, IndInv, TargetsAdmitted, TypeOK, ControlOK, RecordsOK, PoolOK,
         Threads, SchedulerAssumption, record_vars, pool_vars
<1>15. ASSUME NEW c \in Callers, InterruptRequest(c) PROVE TargetsAdmitted'
  BY <1>0, <1>15
     DEF InterruptRequest, Goto, IndInv, TargetsAdmitted, TypeOK, ControlOK, RecordsOK, PoolOK,
         Threads, SchedulerAssumption, record_vars, pool_vars
<1>16. ASSUME NEW c \in Callers, ShutdownNotify(c) PROVE TargetsAdmitted'
  BY <1>0, <1>16
     DEF ShutdownNotify, Goto, IndInv, TargetsAdmitted, TypeOK, ControlOK, RecordsOK, PoolOK,
         Threads, SchedulerAssumption, Take, pool_vars
<1>17. ASSUME NEW c \in Callers, ShutdownEnd(c) PROVE TargetsAdmitted'
  BY <1>0, <1>17
     DEF ShutdownEnd, Goto, IndInv, TargetsAdmitted, TypeOK, ControlOK, RecordsOK, PoolOK,
         Threads, SchedulerAssumption, record_vars, pool_vars
<1>18. ASSUME NEW j \in Jobs, RunBegin(j) PROVE TargetsAdmitted'
  BY <1>0, <1>18
     DEF RunBegin, Goto, IndInv, TargetsAdmitted, TypeOK, ControlOK, RecordsOK, PoolOK,
         Threads, SchedulerAssumption, record_vars, pool_vars
<1>19. ASSUME NEW j \in Jobs, JobReturns(j) PROVE TargetsAdmitted'
  BY <1>0, <1>19
     DEF JobReturns, Goto, IndInv, TargetsAdmitted, TypeOK, ControlOK, RecordsOK, PoolOK,
         Threads, SchedulerAssumption, record_vars, pool_vars
<1>20. ASSUME NEW j \in Jobs, RunFinish(j) PROVE TargetsAdmitted'
  BY <1>0, <1>20
     DEF RunFinish, Goto, IndInv, TargetsAdmitted, TypeOK, ControlOK, RecordsOK, PoolOK,
         Threads, SchedulerAssumption, JobPhases, Terminal, pool_vars
<1>21. ASSUME NEW j \in Jobs, RunPublish(j) PROVE TargetsAdmitted'
  BY <1>0, <1>21
     DEF RunPublish, Goto, IndInv, TargetsAdmitted, TypeOK, ControlOK, RecordsOK, PoolOK,
         Threads, SchedulerAssumption, record_vars, pool_vars
<1>22. ASSUME NEW j \in Jobs, ClearStatusCallback(j) PROVE TargetsAdmitted'
  BY <1>0, <1>22
     DEF ClearStatusCallback, Goto, IndInv, TargetsAdmitted, TypeOK, ControlOK, RecordsOK, PoolOK,
         Threads, SchedulerAssumption, record_vars, pool_vars
<1>23. CASE UNCHANGED vars
  BY <1>23 DEF IndInv, TargetsAdmitted, record_vars, pool_vars, history, vars, thread_vars
<1> QED
  BY <1>1, <1>2, <1>3, <1>4, <1>5, <1>6, <1>7, <1>8, <1>9, <1>10, <1>11,
     <1>12, <1>13, <1>14, <1>15, <1>16, <1>17, <1>18, <1>19, <1>20, <1>21, <1>22, <1>23
     DEF Next, Call, Proceed, Run, EmitStatus, Dispatch, Threads

\* Promises are set once, with the state of the record.
LEMMA PromisePhasesStep ==
  ASSUME SchedulerAssumption, IndInv, [Next]_vars
  PROVE  PromisePhases'
<1>0. TypeOK /\ TypeOK'
  BY TypeOKStep DEF IndInv
<1>1. ASSUME NEW t \in Threads, Snapshot(t) PROVE PromisePhases'
  BY <1>0, <1>1
     DEF Snapshot, Goto, IndInv, PromisePhases, JobPhases, ActivePoints, EndedPoints,
         WorkerPoints, WorkerEmits, Occupying, Terminal, TypeOK, ControlOK, RecordsOK,
         Threads, SchedulerAssumption, record_vars
<1>2. ASSUME NEW t \in Threads, Deliver(t) PROVE PromisePhases'
  BY <1>0, <1>2
     DEF Deliver, Goto, IndInv, PromisePhases, JobPhases, ActivePoints, EndedPoints,
         WorkerPoints, WorkerEmits, Occupying, Terminal, TypeOK, ControlOK, RecordsOK,
         Threads, SchedulerAssumption, record_vars, Continuation, EmitPoints, CallerEmits,
         CallerPoints
<1>3. ASSUME NEW t \in Threads, DispatchEnter(t) PROVE PromisePhases'
  BY <1>0, <1>3
     DEF DispatchEnter, Goto, IndInv, PromisePhases, JobPhases, ActivePoints, EndedPoints,
         WorkerPoints, WorkerEmits, Occupying, Terminal, TypeOK, ControlOK, RecordsOK,
         Threads, SchedulerAssumption, record_vars, AfterDispatch
<1>4. ASSUME NEW t \in Threads, DispatchLaunch(t) PROVE PromisePhases'
  BY <1>0, <1>4, HeadIsQueued
     DEF DispatchLaunch, Goto, IndInv, PromisePhases, JobPhases, ActivePoints, EndedPoints,
         WorkerPoints, WorkerEmits, Occupying, Terminal, TypeOK, ControlOK, RecordsOK,
         Threads, SchedulerAssumption, Launch, CanLaunch
<1>5. ASSUME NEW t \in Threads, DispatchExit(t) PROVE PromisePhases'
  BY <1>0, <1>5
     DEF DispatchExit, Goto, IndInv, PromisePhases, JobPhases, ActivePoints, EndedPoints,
         WorkerPoints, WorkerEmits, Occupying, Terminal, TypeOK, ControlOK, RecordsOK,
         Threads, SchedulerAssumption, record_vars, AfterDispatch
<1>6. ASSUME NEW t \in Threads, DispatchThrow(t) PROVE PromisePhases'
  BY <1>0, <1>6
     DEF DispatchThrow, Goto, IndInv, PromisePhases, JobPhases, ActivePoints, EndedPoints,
         WorkerPoints, WorkerEmits, Occupying, Terminal, TypeOK, ControlOK, RecordsOK,
         Threads, SchedulerAssumption, record_vars, AfterDispatch
<1>7. ASSUME NEW c \in Callers, NEW j \in Jobs, Submit(c, j) PROVE PromisePhases'
  BY <1>0, <1>7
     DEF Submit, Goto, IndInv, PromisePhases, JobPhases, ActivePoints, EndedPoints,
         WorkerPoints, WorkerEmits, Occupying, Terminal, TypeOK, ControlOK, RecordsOK,
         Threads, SchedulerAssumption, Take, record_vars
<1>8. ASSUME NEW c \in Callers, NEW j \in Jobs, CancelRequest(c, j) PROVE PromisePhases'
  BY <1>0, <1>8
     DEF CancelRequest, Goto, IndInv, PromisePhases, JobPhases, ActivePoints, EndedPoints,
         WorkerPoints, WorkerEmits, Occupying, Terminal, TypeOK, ControlOK, RecordsOK,
         Threads, SchedulerAssumption, Take, record_vars
<1>9. ASSUME NEW c \in Callers, NEW j \in Jobs, InterruptCheck(c, j) PROVE PromisePhases'
  BY <1>0, <1>9
     DEF InterruptCheck, Goto, IndInv, PromisePhases, JobPhases, ActivePoints, EndedPoints,
         WorkerPoints, WorkerEmits, Occupying, Terminal, TypeOK, ControlOK, RecordsOK,
         Threads, SchedulerAssumption, Take, record_vars
<1>10. ASSUME NEW c \in Callers, ShutdownBegin(c) PROVE PromisePhases'
  <2>1. \A j \in Queued : j \in Jobs /\ state[j] = "queued"
    BY <1>0, <1>10 DEF ShutdownBegin, IndInv, QueueHoldsQueued
  <2>2. Withdraw(Queued)
    BY <1>10 DEF ShutdownBegin
  <2>3. \A j \in Jobs : pc'[j] = pc[j]
    BY <1>0, <1>10 DEF ShutdownBegin, Goto, SchedulerAssumption, TypeOK, ControlOK, RecordsOK
  <2>4. ASSUME NEW j \in Jobs, j \in Queued
        PROVE  promise'[j] = "cancelled" /\ state'[j] = "cancelled" /\ pc'[j] # "publish"
    BY <2>1, <2>2, <2>3, <2>4, QueuedUnlaunched DEF Withdraw
  <2>5. ASSUME NEW j \in Jobs, j \notin Queued
        PROVE  promise'[j] = promise[j] /\ state'[j] = state[j] /\ pc'[j] = pc[j]
    BY <2>2, <2>3, <2>5 DEF Withdraw
  <2> QED BY <2>4, <2>5 DEF IndInv, PromisePhases, Terminal, Unset
<1>11. ASSUME NEW c \in Callers, ShutdownAgain(c) PROVE PromisePhases'
  BY <1>0, <1>11
     DEF ShutdownAgain, Goto, IndInv, PromisePhases, JobPhases, ActivePoints, EndedPoints,
         WorkerPoints, WorkerEmits, Occupying, Terminal, TypeOK, ControlOK, RecordsOK,
         Threads, SchedulerAssumption, record_vars
<1>12. ASSUME NEW c \in Callers, CancelTooLate(c) PROVE PromisePhases'
  BY <1>0, <1>12
     DEF CancelTooLate, Goto, IndInv, PromisePhases, JobPhases, ActivePoints, EndedPoints,
         WorkerPoints, WorkerEmits, Occupying, Terminal, TypeOK, ControlOK, RecordsOK,
         Threads, SchedulerAssumption, record_vars
<1>13. ASSUME NEW c \in Callers, CancelQueued(c) PROVE PromisePhases'
  <2>1. \A j \in {target[c]} : j \in Jobs /\ state[j] = "queued"
    BY <1>0, <1>13 DEF CancelQueued, TypeOK, ControlOK, RecordsOK
  <2>2. Withdraw({target[c]})
    BY <1>13 DEF CancelQueued
  <2>3. \A j \in Jobs : pc'[j] = pc[j]
    BY <1>0, <1>13 DEF CancelQueued, Goto, SchedulerAssumption, TypeOK, ControlOK, RecordsOK
  <2>4. ASSUME NEW j \in Jobs, j \in {target[c]}
        PROVE  promise'[j] = "cancelled" /\ state'[j] = "cancelled" /\ pc'[j] # "publish"
    BY <2>1, <2>2, <2>3, <2>4, QueuedUnlaunched DEF Withdraw
  <2>5. ASSUME NEW j \in Jobs, j \notin {target[c]}
        PROVE  promise'[j] = promise[j] /\ state'[j] = state[j] /\ pc'[j] = pc[j]
    BY <2>2, <2>3, <2>5 DEF Withdraw
  <2> QED BY <2>4, <2>5 DEF IndInv, PromisePhases, Terminal, Unset
<1>14. ASSUME NEW c \in Callers, CancelActive(c) PROVE PromisePhases'
  BY <1>0, <1>14
     DEF CancelActive, Goto, IndInv, PromisePhases, JobPhases, ActivePoints, EndedPoints,
         WorkerPoints, WorkerEmits, Occupying, Terminal, TypeOK, ControlOK, RecordsOK,
         Threads, SchedulerAssumption, IsTerminal
<1>15. ASSUME NEW c \in Callers, InterruptRequest(c) PROVE PromisePhases'
  BY <1>0, <1>15
     DEF InterruptRequest, Goto, IndInv, PromisePhases, JobPhases, ActivePoints, EndedPoints,
         WorkerPoints, WorkerEmits, Occupying, Terminal, TypeOK, ControlOK, RecordsOK,
         Threads, SchedulerAssumption, record_vars
<1>16. ASSUME NEW c \in Callers, ShutdownNotify(c) PROVE PromisePhases'
  BY <1>0, <1>16
     DEF ShutdownNotify, Goto, IndInv, PromisePhases, JobPhases, ActivePoints, EndedPoints,
         WorkerPoints, WorkerEmits, Occupying, Terminal, TypeOK, ControlOK, RecordsOK,
         Threads, SchedulerAssumption, Take, PoolOK
<1>17. ASSUME NEW c \in Callers, ShutdownEnd(c) PROVE PromisePhases'
  BY <1>0, <1>17
     DEF ShutdownEnd, Goto, IndInv, PromisePhases, JobPhases, ActivePoints, EndedPoints,
         WorkerPoints, WorkerEmits, Occupying, Terminal, TypeOK, ControlOK, RecordsOK,
         Threads, SchedulerAssumption, record_vars
<1>18. ASSUME NEW j \in Jobs, RunBegin(j) PROVE PromisePhases'
  BY <1>0, <1>18
     DEF RunBegin, Goto, IndInv, PromisePhases, JobPhases, ActivePoints, EndedPoints,
         WorkerPoints, WorkerEmits, Occupying, Terminal, TypeOK, ControlOK, RecordsOK,
         Threads, SchedulerAssumption, record_vars
<1>19. ASSUME NEW j \in Jobs, JobReturns(j) PROVE PromisePhases'
  BY <1>0, <1>19
     DEF JobReturns, Goto, IndInv, PromisePhases, JobPhases, ActivePoints, EndedPoints,
         WorkerPoints, WorkerEmits, Occupying, Terminal, TypeOK, ControlOK, RecordsOK,
         Threads, SchedulerAssumption, record_vars, Settled
<1>20. ASSUME NEW j \in Jobs, RunFinish(j) PROVE PromisePhases'
  BY <1>0, <1>20
     DEF RunFinish, Goto, IndInv, PromisePhases, JobPhases, ActivePoints, EndedPoints,
         WorkerPoints, WorkerEmits, Occupying, Terminal, TypeOK, ControlOK, RecordsOK,
         Threads, SchedulerAssumption, record_vars
<1>21. ASSUME NEW j \in Jobs, RunPublish(j) PROVE PromisePhases'
  <2>1. state[j] \in Terminal /\ state[j] = result[j]
    BY <1>0, <1>21 DEF RunPublish, IndInv, JobPhases, EndedPoints, ActivePoints,
       WorkerPoints
  <2>2. /\ promise' = [promise EXCEPT ![j] = result[j]] /\ UNCHANGED state
        /\ pc' = [pc EXCEPT ![j] = "announce_end"]
    BY <1>21 DEF RunPublish, Goto
  <2>3. promise'[j] = state'[j] /\ state'[j] \in Terminal /\ pc'[j] # "publish"
    BY <1>0, <2>1, <2>2 DEF TypeOK, ControlOK, RecordsOK, Threads
  <2>4. \A k \in Jobs : k # j => /\ promise'[k] = promise[k] /\ state'[k] = state[k]
                                 /\ pc'[k] = pc[k]
    BY <1>0, <2>2 DEF TypeOK, ControlOK, RecordsOK, Threads
  <2> QED BY <2>3, <2>4 DEF IndInv, PromisePhases, Terminal, Unset
<1>22. ASSUME NEW j \in Jobs, ClearStatusCallback(j) PROVE PromisePhases'
  BY <1>0, <1>22
     DEF ClearStatusCallback, Goto, IndInv, PromisePhases, JobPhases, ActivePoints, EndedPoints,
         WorkerPoints, WorkerEmits, Occupying, Terminal, TypeOK, ControlOK, RecordsOK,
         Threads, SchedulerAssumption, record_vars
<1>23. CASE UNCHANGED vars
  BY <1>23 DEF IndInv, PromisePhases, record_vars, pool_vars, history, vars, thread_vars
<1> QED
  BY <1>1, <1>2, <1>3, <1>4, <1>5, <1>6, <1>7, <1>8, <1>9, <1>10, <1>11,
     <1>12, <1>13, <1>14, <1>15, <1>16, <1>17, <1>18, <1>19, <1>20, <1>21, <1>22, <1>23
     DEF Next, Call, Proceed, Run, EmitStatus, Dispatch, Threads

\* The queue and the states of the records agree.
LEMMA QueueHoldsQueuedStep ==
  ASSUME SchedulerAssumption, IndInv, [Next]_vars
  PROVE  QueueHoldsQueued'
<1>0. TypeOK /\ TypeOK'
  BY TypeOKStep DEF IndInv
<1>1. ASSUME NEW t \in Threads, Snapshot(t) PROVE QueueHoldsQueued'
  BY <1>0, <1>1 DEF Snapshot, IndInv, QueueHoldsQueued, Queued, record_vars, pool_vars, history
<1>2. ASSUME NEW t \in Threads, Deliver(t) PROVE QueueHoldsQueued'
  BY <1>0, <1>2 DEF Deliver, IndInv, QueueHoldsQueued, Queued, record_vars, pool_vars, history
<1>3. ASSUME NEW t \in Threads, DispatchEnter(t) PROVE QueueHoldsQueued'
  BY <1>0, <1>3 DEF DispatchEnter, IndInv, QueueHoldsQueued, Queued, record_vars, pool_vars, history
<1>4. ASSUME NEW t \in Threads, DispatchLaunch(t) PROVE QueueHoldsQueued'
  <2> DEFINE h == Head(queue)
  <2>1. queue # <<>> /\ queue' = Tail(queue) /\ state' = [state EXCEPT ![h] = "starting"]
    BY <1>4 DEF DispatchLaunch, CanLaunch, Launch
  <2>2. /\ queue \in Seq(Jobs) /\ Len(queue) \in Nat \ {0} /\ Len(queue') = Len(queue) - 1
        /\ \A k \in 1..Len(queue') : queue'[k] = queue[k + 1]
        /\ h = queue[1]
    BY <1>0, <2>1 DEF TypeOK, PoolOK
  <2>3. \A a, b \in 1..Len(queue) : a # b => queue[a] # queue[b]
    BY DEF IndInv, QueueHoldsQueued, Queued
  <2>4. \A a, b \in 1..Len(queue') : a # b => queue'[a] # queue'[b]
    <3>1. \A k \in 1..Len(queue') : k + 1 \in 1..Len(queue) /\ k + 1 # 1
      BY <2>2
    <3>2. ASSUME NEW a \in 1..Len(queue'), NEW b \in 1..Len(queue'), a # b
          PROVE  queue'[a] # queue'[b]
      <4>1. a + 1 # b + 1
        BY <3>2
      <4> QED BY <4>1, <3>1, <2>2, <2>3
    <3> QED BY <3>2
  <2>5. Queued' = Queued \ {h}
    <3>1. ASSUME NEW a \in 1..Len(queue') PROVE queue'[a] \in Queued \ {h}
      <4>1. a + 1 \in 1..Len(queue) /\ a + 1 # 1 /\ 1 \in 1..Len(queue)
        BY <2>2
      <4> QED BY <4>1, <2>2, <2>3 DEF Queued
    <3>2. ASSUME NEW a \in 1..Len(queue), queue[a] # h
          PROVE  \E b \in 1..Len(queue') : queue'[b] = queue[a]
      <4>1. a # 1
        BY <3>2, <2>2
      <4>2. a - 1 \in 1..Len(queue') /\ queue'[a - 1] = queue[a]
        BY <4>1, <2>2
      <4> QED BY <4>2
    <3> QED BY <3>1, <3>2 DEF Queued
  <2>6. {j \in Jobs : state'[j] = "queued"} = {j \in Jobs : state[j] = "queued"} \ {h}
    BY <1>0, <2>1 DEF TypeOK, RecordsOK
  <2> QED BY <2>4, <2>5, <2>6 DEF IndInv, QueueHoldsQueued
<1>5. ASSUME NEW t \in Threads, DispatchExit(t) PROVE QueueHoldsQueued'
  BY <1>0, <1>5 DEF DispatchExit, IndInv, QueueHoldsQueued, Queued, record_vars, pool_vars, history
<1>6. ASSUME NEW t \in Threads, DispatchThrow(t) PROVE QueueHoldsQueued'
  BY <1>0, <1>6 DEF DispatchThrow, IndInv, QueueHoldsQueued, Queued, record_vars, pool_vars, history
<1>7. ASSUME NEW c \in Callers, NEW j \in Jobs, Submit(c, j) PROVE QueueHoldsQueued'
  <2>1. queue' = Append(queue, j) /\ state' = [state EXCEPT ![j] = "queued"]
        /\ state[j] = "unborn"
    BY <1>7 DEF Submit
  <2>2. /\ queue \in Seq(Jobs) /\ Len(queue) \in Nat /\ Len(queue') = Len(queue) + 1
        /\ \A k \in 1..Len(queue) : queue'[k] = queue[k]
        /\ queue'[Len(queue) + 1] = j
    BY <1>0, <2>1 DEF TypeOK, PoolOK
  <2>3. j \notin Queued
    BY <2>1 DEF IndInv, QueueHoldsQueued
  <2>4. ASSUME NEW a \in 1..Len(queue'), NEW b \in 1..Len(queue'), a # b
        PROVE  queue'[a] # queue'[b]
    <3>1. \A k \in 1..Len(queue) : queue[k] # j
      BY <2>3 DEF Queued
    <3>2. /\ a \in 1..Len(queue) \/ a = Len(queue) + 1
          /\ b \in 1..Len(queue) \/ b = Len(queue) + 1
      BY <2>2
    <3>3. CASE a \in 1..Len(queue) /\ b \in 1..Len(queue)
      BY <2>2, <2>4, <3>3 DEF IndInv, QueueHoldsQueued
    <3>4. CASE a = Len(queue) + 1 \/ b = Len(queue) + 1
      BY <2>2, <2>4, <3>1, <3>2, <3>4
    <3> QED BY <3>2, <3>3, <3>4
  <2>5. Queued' = Queued \cup {j}
    BY <2>2 DEF Queued
  <2>6. {k \in Jobs : state'[k] = "queued"} = {k \in Jobs : state[k] = "queued"} \cup {j}
    BY <1>0, <2>1 DEF TypeOK, RecordsOK
  <2> QED BY <2>4, <2>5, <2>6 DEF IndInv, QueueHoldsQueued
<1>8. ASSUME NEW c \in Callers, NEW j \in Jobs, CancelRequest(c, j) PROVE QueueHoldsQueued'
  BY <1>0, <1>8 DEF CancelRequest, IndInv, QueueHoldsQueued, Queued, record_vars, pool_vars, history
<1>9. ASSUME NEW c \in Callers, NEW j \in Jobs, InterruptCheck(c, j) PROVE QueueHoldsQueued'
  BY <1>0, <1>9 DEF InterruptCheck, IndInv, QueueHoldsQueued, Queued, record_vars, pool_vars, history
<1>10. ASSUME NEW c \in Callers, ShutdownBegin(c) PROVE QueueHoldsQueued'
  <2>1. queue' = <<>> /\ Withdraw(Queued)
    BY <1>10 DEF ShutdownBegin
  <2>2. Queued' = {} /\ Len(queue') = 0
    BY <2>1 DEF Queued
  <2>3. \A j \in Jobs : state'[j] # "queued"
    BY <2>1 DEF IndInv, QueueHoldsQueued, Withdraw
  <2> QED BY <2>2, <2>3 DEF QueueHoldsQueued
<1>11. ASSUME NEW c \in Callers, ShutdownAgain(c) PROVE QueueHoldsQueued'
  BY <1>0, <1>11 DEF ShutdownAgain, IndInv, QueueHoldsQueued, Queued, record_vars, pool_vars, history
<1>12. ASSUME NEW c \in Callers, CancelTooLate(c) PROVE QueueHoldsQueued'
  BY <1>0, <1>12 DEF CancelTooLate, IndInv, QueueHoldsQueued, Queued, record_vars, pool_vars, history
<1>13. ASSUME NEW c \in Callers, CancelQueued(c) PROVE QueueHoldsQueued'
  <2> DEFINE j == target[c]
  <2>1. j \in Jobs /\ state[j] = "queued"
    BY <1>0, <1>13 DEF CancelQueued, TypeOK, ControlOK, RecordsOK
  <2>2. queue' = Without(queue, j) /\ Withdraw({j})
    BY <1>13 DEF CancelQueued
  <2> HIDE DEF j
  <2>3. PICK i \in 1..Len(queue) :
          /\ queue[i] = j
          /\ Len(queue') = Len(queue) - 1
          /\ \A k \in 1..(Len(queue) - 1) :
               queue'[k] = IF k < i THEN queue[k] ELSE queue[k + 1]
    BY <2>1, <2>2, QueuedIsErased
  <2>4. Len(queue) \in Nat /\ \A a, b \in 1..Len(queue) : a # b => queue[a] # queue[b]
    BY <1>0 DEF TypeOK, PoolOK, IndInv, QueueHoldsQueued
  <2>5. \A a, b \in 1..Len(queue') : a # b => queue'[a] # queue'[b]
    <3> DEFINE from(k) == IF k < i THEN k ELSE k + 1
    <3>1. \A k \in 1..Len(queue') : from(k) \in 1..Len(queue) /\ queue'[k] = queue[from(k)]
      BY <2>3, <2>4
    <3>2. \A a, b \in 1..Len(queue') : a # b => from(a) # from(b)
      BY <2>3, <2>4
    <3> HIDE DEF from
    <3> QED BY <3>1, <3>2, <2>4
  <2>6. Queued' = Queued \ {j}
    <3>1. ASSUME NEW a \in 1..Len(queue') PROVE queue'[a] \in Queued \ {j}
      BY <2>3, <2>4 DEF Queued
    <3>2. ASSUME NEW a \in 1..Len(queue), queue[a] # j
          PROVE  \E b \in 1..Len(queue') : queue'[b] = queue[a]
      <4>1. CASE a < i
        BY <4>1, <2>3, <2>4
      <4>2. CASE a > i
        <5>1. a - 1 \in 1..Len(queue') /\ queue'[a - 1] = queue[a]
          BY <4>2, <2>3, <2>4
        <5> QED BY <5>1
      <4> QED BY <4>1, <4>2, <3>2, <2>3, <2>4
    <3> QED BY <3>1, <3>2 DEF Queued
  <2>7. {k \in Jobs : state'[k] = "queued"} = {k \in Jobs : state[k] = "queued"} \ {j}
    BY <2>2 DEF Withdraw
  <2> QED BY <2>5, <2>6, <2>7 DEF IndInv, QueueHoldsQueued
<1>14. ASSUME NEW c \in Callers, CancelActive(c) PROVE QueueHoldsQueued'
  <2>1. \A k \in Jobs : state'[k] = "queued" <=> state[k] = "queued"
    BY <1>0, <1>14 DEF CancelActive, IndInv, JobPhases, ActivePoints, Occupying, Terminal,
       TypeOK, ControlOK, RecordsOK, Threads
  <2>2. UNCHANGED queue
    BY <1>14 DEF CancelActive, pool_vars
  <2> QED BY <2>1, <2>2 DEF IndInv, QueueHoldsQueued, Queued
<1>15. ASSUME NEW c \in Callers, InterruptRequest(c) PROVE QueueHoldsQueued'
  BY <1>0, <1>15 DEF InterruptRequest, IndInv, QueueHoldsQueued, Queued, record_vars, pool_vars, history
<1>16. ASSUME NEW c \in Callers, ShutdownNotify(c) PROVE QueueHoldsQueued'
  BY <1>0, <1>16 DEF ShutdownNotify, IndInv, QueueHoldsQueued, Queued, record_vars, pool_vars, history
<1>17. ASSUME NEW c \in Callers, ShutdownEnd(c) PROVE QueueHoldsQueued'
  BY <1>0, <1>17 DEF ShutdownEnd, IndInv, QueueHoldsQueued, Queued, record_vars, pool_vars, history
<1>18. ASSUME NEW j \in Jobs, RunBegin(j) PROVE QueueHoldsQueued'
  <2>1. \A k \in Jobs : state'[k] = "queued" <=> state[k] = "queued"
    BY <1>0, <1>18 DEF RunBegin, IndInv, JobPhases, ActivePoints, Occupying, Terminal,
       TypeOK, ControlOK, RecordsOK, Threads
  <2>2. UNCHANGED queue
    BY <1>18 DEF RunBegin, pool_vars
  <2> QED BY <2>1, <2>2 DEF IndInv, QueueHoldsQueued, Queued
<1>19. ASSUME NEW j \in Jobs, JobReturns(j) PROVE QueueHoldsQueued'
  BY <1>0, <1>19 DEF JobReturns, IndInv, QueueHoldsQueued, Queued, record_vars, pool_vars, history
<1>20. ASSUME NEW j \in Jobs, RunFinish(j) PROVE QueueHoldsQueued'
  <2>1. \A k \in Jobs : state'[k] = "queued" <=> state[k] = "queued"
    BY <1>0, <1>20 DEF RunFinish, IndInv, JobPhases, ActivePoints, Occupying, Terminal,
       TypeOK, ControlOK, RecordsOK, Threads
  <2>2. UNCHANGED queue
    BY <1>20 DEF RunFinish, pool_vars
  <2> QED BY <2>1, <2>2 DEF IndInv, QueueHoldsQueued, Queued
<1>21. ASSUME NEW j \in Jobs, RunPublish(j) PROVE QueueHoldsQueued'
  BY <1>0, <1>21 DEF RunPublish, IndInv, QueueHoldsQueued, Queued, record_vars, pool_vars, history
<1>22. ASSUME NEW j \in Jobs, ClearStatusCallback(j) PROVE QueueHoldsQueued'
  BY <1>0, <1>22 DEF ClearStatusCallback, IndInv, QueueHoldsQueued, Queued, record_vars, pool_vars, history
<1>23. CASE UNCHANGED vars
  BY <1>23 DEF IndInv, QueueHoldsQueued, Queued, record_vars, pool_vars, history, vars, thread_vars
<1> QED
  BY <1>1, <1>2, <1>3, <1>4, <1>5, <1>6, <1>7, <1>8, <1>9, <1>10, <1>11,
     <1>12, <1>13, <1>14, <1>15, <1>16, <1>17, <1>18, <1>19, <1>20, <1>21, <1>22, <1>23
     DEF Next, Call, Proceed, Run, EmitStatus, Dispatch, Threads

\* Ids keep the order of admission.
LEMMA IdOrderStep ==
  ASSUME SchedulerAssumption, IndInv, [Next]_vars
  PROVE  IdOrder'
<1>0. TypeOK /\ TypeOK'
  BY TypeOKStep DEF IndInv
<1>1. ASSUME NEW t \in Threads, Snapshot(t) PROVE IdOrder'
  <2>1. UNCHANGED <<id, next_job_id, queue>>
    BY <1>1 DEF Snapshot, record_vars, pool_vars
  <2>2. \A k \in Jobs : pc'[k] # "unlaunched" => pc[k] # "unlaunched"
    BY <1>0, <1>1 DEF Snapshot, Goto, TypeOK, ControlOK, RecordsOK, Threads, SchedulerAssumption
  <2> QED BY <2>1, <2>2 DEF IndInv, IdOrder
<1>2. ASSUME NEW t \in Threads, Deliver(t) PROVE IdOrder'
  <2>1. UNCHANGED <<id, next_job_id, queue>>
    BY <1>2 DEF Deliver, record_vars, pool_vars
  <2>2. \A k \in Jobs : pc'[k] # "unlaunched" => pc[k] # "unlaunched"
    BY <1>0, <1>2 DEF Deliver, Goto, EmitPoints, CallerEmits, WorkerEmits, TypeOK, ControlOK, RecordsOK, Threads, SchedulerAssumption
  <2> QED BY <2>1, <2>2 DEF IndInv, IdOrder
<1>3. ASSUME NEW t \in Threads, DispatchEnter(t) PROVE IdOrder'
  <2>1. UNCHANGED <<id, next_job_id, queue>>
    BY <1>3 DEF DispatchEnter, record_vars, pool_vars
  <2>2. \A k \in Jobs : pc'[k] # "unlaunched" => pc[k] # "unlaunched"
    BY <1>0, <1>3 DEF DispatchEnter, Goto, TypeOK, ControlOK, RecordsOK, Threads, SchedulerAssumption
  <2> QED BY <2>1, <2>2 DEF IndInv, IdOrder
<1>4. ASSUME NEW t \in Threads, DispatchLaunch(t) PROVE IdOrder'
  <2> DEFINE h == Head(queue)
  <2>1. /\ queue # <<>> /\ queue' = Tail(queue) /\ UNCHANGED <<id, next_job_id>>
        /\ pc' = [pc EXCEPT ![h] = "announce_starting"]
    BY <1>4 DEF DispatchLaunch, CanLaunch, Launch, Goto
  <2>2. /\ queue \in Seq(Jobs) /\ Len(queue) \in Nat \ {0} /\ Len(queue') = Len(queue) - 1
        /\ \A k \in 1..Len(queue') : queue'[k] = queue[k + 1]
        /\ h = queue[1] /\ h \in Jobs
    BY <1>0, <2>1 DEF TypeOK, PoolOK
  <2>3. \A k \in 1..Len(queue') : k + 1 \in 1..Len(queue) /\ 1 \in 1..Len(queue) /\ 1 < k + 1
    BY <2>2
  <2>4. \A x, y \in 1..Len(queue) : x < y => id[queue[x]] < id[queue[y]]
    BY DEF IndInv, IdOrder
  <2>5. \A x, y \in 1..Len(queue') : x < y => id'[queue'[x]] < id'[queue'[y]]
    <3>1. \A x, y \in 1..Len(queue') : x < y => x + 1 < y + 1
      BY <2>2
    <3> QED BY <3>1, <2>1, <2>2, <2>3, <2>4
  <2>6. ASSUME NEW k \in Jobs, pc'[k] # "unlaunched", NEW x \in 1..Len(queue')
        PROVE  id'[k] < id'[queue'[x]]
    <3>1. CASE k = h
      BY <3>1, <2>1, <2>2, <2>3, <2>4
    <3>2. CASE k # h
      <4>1. pc[k] # "unlaunched"
        BY <1>0, <2>1, <2>6, <3>2 DEF TypeOK, ControlOK, RecordsOK, Threads
      <4> QED BY <4>1, <2>1, <2>2, <2>3 DEF IndInv, IdOrder
    <3> QED BY <3>1, <3>2
  <2> QED BY <2>1, <2>5, <2>6 DEF IndInv, IdOrder
<1>5. ASSUME NEW t \in Threads, DispatchExit(t) PROVE IdOrder'
  <2>1. UNCHANGED <<id, next_job_id, queue>>
    BY <1>5 DEF DispatchExit, record_vars, pool_vars
  <2>2. \A k \in Jobs : pc'[k] # "unlaunched" => pc[k] # "unlaunched"
    BY <1>0, <1>5 DEF DispatchExit, Goto, TypeOK, ControlOK, RecordsOK, Threads, SchedulerAssumption
  <2> QED BY <2>1, <2>2 DEF IndInv, IdOrder
<1>6. ASSUME NEW t \in Threads, DispatchThrow(t) PROVE IdOrder'
  <2>1. UNCHANGED <<id, next_job_id, queue>>
    BY <1>6 DEF DispatchThrow, record_vars, pool_vars
  <2>2. \A k \in Jobs : pc'[k] # "unlaunched" => pc[k] # "unlaunched"
    BY <1>0, <1>6 DEF DispatchThrow, Goto, TypeOK, ControlOK, RecordsOK, Threads, SchedulerAssumption
  <2> QED BY <2>1, <2>2 DEF IndInv, IdOrder
<1>7. ASSUME NEW c \in Callers, NEW j \in Jobs, Submit(c, j) PROVE IdOrder'
  <2>1. /\ queue' = Append(queue, j) /\ state[j] = "unborn"
        /\ id' = [id EXCEPT ![j] = next_job_id] /\ next_job_id' = next_job_id + 1
    BY <1>7 DEF Submit
  <2>2. /\ queue \in Seq(Jobs) /\ Len(queue) \in Nat /\ Len(queue') = Len(queue) + 1
        /\ \A k \in 1..Len(queue) : queue'[k] = queue[k] /\ queue[k] \in Jobs
        /\ queue'[Len(queue) + 1] = j
    BY <1>0, <2>1 DEF TypeOK, PoolOK
  <2>3. /\ \A k \in Jobs \ {j} : id'[k] = id[k]
        /\ id'[j] = next_job_id /\ next_job_id \in Nat
        /\ \A k \in Jobs : id[k] \in Nat /\ id[k] < next_job_id
    BY <1>0, <2>1 DEF TypeOK, PoolOK, RecordsOK, IndInv, IdOrder
  <2>4. \A k \in 1..Len(queue) : queue[k] # j
    BY <2>1 DEF IndInv, QueueHoldsQueued, Queued
  <2>5. \A k \in Jobs : id'[k] < next_job_id'
    BY <2>1, <2>3
  <2>6. ASSUME NEW x \in 1..Len(queue'), NEW y \in 1..Len(queue'), x < y
        PROVE  id'[queue'[x]] < id'[queue'[y]]
    <3>1. x \in 1..Len(queue) /\ (y \in 1..Len(queue) \/ y = Len(queue) + 1)
      BY <2>2, <2>6
    <3>2. queue'[x] = queue[x] /\ queue[x] \in Jobs \ {j} /\ id'[queue'[x]] = id[queue[x]]
      BY <3>1, <2>2, <2>3, <2>4
    <3>3. CASE y \in 1..Len(queue)
      <4>1. queue'[y] = queue[y] /\ id'[queue'[y]] = id[queue[y]]
        BY <3>3, <2>2, <2>3, <2>4
      <4> QED BY <3>1, <3>2, <3>3, <4>1, <2>6 DEF IndInv, IdOrder
    <3>4. CASE y = Len(queue) + 1
      BY <3>2, <3>4, <2>2, <2>3
    <3> QED BY <3>1, <3>3, <3>4
  <2>7. ASSUME NEW k \in Jobs, pc'[k] # "unlaunched", NEW x \in 1..Len(queue')
        PROVE  id'[k] < id'[queue'[x]]
    <3>1. pc[k] # "unlaunched"
      BY <1>0, <1>7, <2>7 DEF Submit, Take, TypeOK, ControlOK, RecordsOK, Threads, SchedulerAssumption
    <3>2. k # j
      BY <3>1, <2>1, <1>0 DEF IndInv, JobPhases, ActivePoints, EndedPoints, Occupying,
         Terminal, TypeOK, ControlOK, RecordsOK
    <3>3. x \in 1..Len(queue) \/ x = Len(queue) + 1
      BY <2>2
    <3> QED BY <3>1, <3>2, <3>3, <2>2, <2>3, <2>4 DEF IndInv, IdOrder
  <2> QED BY <2>5, <2>6, <2>7 DEF IdOrder
<1>8. ASSUME NEW c \in Callers, NEW j \in Jobs, CancelRequest(c, j) PROVE IdOrder'
  <2>1. UNCHANGED <<id, next_job_id, queue>>
    BY <1>8 DEF CancelRequest, record_vars, pool_vars
  <2>2. \A k \in Jobs : pc'[k] # "unlaunched" => pc[k] # "unlaunched"
    BY <1>0, <1>8 DEF CancelRequest, Take, PoolOK, TypeOK, ControlOK, RecordsOK, Threads, SchedulerAssumption
  <2> QED BY <2>1, <2>2 DEF IndInv, IdOrder
<1>9. ASSUME NEW c \in Callers, NEW j \in Jobs, InterruptCheck(c, j) PROVE IdOrder'
  <2>1. UNCHANGED <<id, next_job_id, queue>>
    BY <1>9 DEF InterruptCheck, record_vars, pool_vars
  <2>2. \A k \in Jobs : pc'[k] # "unlaunched" => pc[k] # "unlaunched"
    BY <1>0, <1>9 DEF InterruptCheck, Take, PoolOK, TypeOK, ControlOK, RecordsOK, Threads, SchedulerAssumption
  <2> QED BY <2>1, <2>2 DEF IndInv, IdOrder
<1>10. ASSUME NEW c \in Callers, ShutdownBegin(c) PROVE IdOrder'
  <2>1. queue' = <<>> /\ Len(queue') = 0 /\ UNCHANGED <<id, next_job_id>>
    BY <1>10 DEF ShutdownBegin
  <2> QED BY <2>1 DEF IndInv, IdOrder
<1>11. ASSUME NEW c \in Callers, ShutdownAgain(c) PROVE IdOrder'
  <2>1. UNCHANGED <<id, next_job_id, queue>>
    BY <1>11 DEF ShutdownAgain, record_vars, pool_vars
  <2>2. \A k \in Jobs : pc'[k] # "unlaunched" => pc[k] # "unlaunched"
    BY <1>0, <1>11 DEF ShutdownAgain, Goto, TypeOK, ControlOK, RecordsOK, Threads, SchedulerAssumption
  <2> QED BY <2>1, <2>2 DEF IndInv, IdOrder
<1>12. ASSUME NEW c \in Callers, CancelTooLate(c) PROVE IdOrder'
  <2>1. UNCHANGED <<id, next_job_id, queue>>
    BY <1>12 DEF CancelTooLate, record_vars, pool_vars
  <2>2. \A k \in Jobs : pc'[k] # "unlaunched" => pc[k] # "unlaunched"
    BY <1>0, <1>12 DEF CancelTooLate, Goto, TypeOK, ControlOK, RecordsOK, Threads, SchedulerAssumption
  <2> QED BY <2>1, <2>2 DEF IndInv, IdOrder
<1>13. ASSUME NEW c \in Callers, CancelQueued(c) PROVE IdOrder'
  <2>1. UNCHANGED <<id, next_job_id>> /\ queue' = Without(queue, target[c])
    BY <1>13 DEF CancelQueued
  <2>2. target[c] \in Jobs /\ state[target[c]] = "queued"
    BY <1>0, <1>13 DEF CancelQueued, TypeOK, ControlOK, RecordsOK
  <2>3. \A k \in Jobs : pc'[k] = pc[k]
    BY <1>0, <1>13 DEF CancelQueued, Goto, TypeOK, ControlOK, RecordsOK, SchedulerAssumption
  <2>4. PICK i \in 1..Len(queue) :
          /\ Len(queue') = Len(queue) - 1
          /\ \A k \in 1..(Len(queue) - 1) :
               queue'[k] = IF k < i THEN queue[k] ELSE queue[k + 1]
    BY <2>1, <2>2, QueuedIsErased
  <2>5. Len(queue) \in Nat
    BY <1>0 DEF TypeOK, PoolOK
  <2> DEFINE from(k) == IF k < i THEN k ELSE k + 1
  <2>6. \A k \in 1..Len(queue') : from(k) \in 1..Len(queue) /\ queue'[k] = queue[from(k)]
    BY <2>4, <2>5
  <2>7. \A x, y \in 1..Len(queue') : x < y => from(x) < from(y)
    BY <2>4, <2>5
  <2> HIDE DEF from
  <2>8. \A x, y \in 1..Len(queue') : x < y => id'[queue'[x]] < id'[queue'[y]]
    BY <2>1, <2>6, <2>7 DEF IndInv, IdOrder
  <2>9. \A k \in Jobs : pc'[k] # "unlaunched" =>
          \A x \in 1..Len(queue') : id'[k] < id'[queue'[x]]
    BY <2>1, <2>3, <2>6 DEF IndInv, IdOrder
  <2> QED BY <2>1, <2>8, <2>9 DEF IndInv, IdOrder
<1>14. ASSUME NEW c \in Callers, CancelActive(c) PROVE IdOrder'
  <2>1. UNCHANGED <<id, next_job_id, queue>>
    BY <1>14 DEF CancelActive, record_vars, pool_vars
  <2>2. \A k \in Jobs : pc'[k] # "unlaunched" => pc[k] # "unlaunched"
    BY <1>0, <1>14 DEF CancelActive, Goto, TypeOK, ControlOK, RecordsOK, Threads, SchedulerAssumption
  <2> QED BY <2>1, <2>2 DEF IndInv, IdOrder
<1>15. ASSUME NEW c \in Callers, InterruptRequest(c) PROVE IdOrder'
  <2>1. UNCHANGED <<id, next_job_id, queue>>
    BY <1>15 DEF InterruptRequest, record_vars, pool_vars
  <2>2. \A k \in Jobs : pc'[k] # "unlaunched" => pc[k] # "unlaunched"
    BY <1>0, <1>15 DEF InterruptRequest, Goto, TypeOK, ControlOK, RecordsOK, Threads, SchedulerAssumption
  <2> QED BY <2>1, <2>2 DEF IndInv, IdOrder
<1>16. ASSUME NEW c \in Callers, ShutdownNotify(c) PROVE IdOrder'
  <2>1. UNCHANGED <<id, next_job_id, queue>>
    BY <1>16 DEF ShutdownNotify, record_vars, pool_vars
  <2>2. \A k \in Jobs : pc'[k] # "unlaunched" => pc[k] # "unlaunched"
    BY <1>0, <1>16 DEF ShutdownNotify, Take, PoolOK, TypeOK, ControlOK, RecordsOK, Threads, SchedulerAssumption
  <2> QED BY <2>1, <2>2 DEF IndInv, IdOrder
<1>17. ASSUME NEW c \in Callers, ShutdownEnd(c) PROVE IdOrder'
  <2>1. UNCHANGED <<id, next_job_id, queue>>
    BY <1>17 DEF ShutdownEnd, record_vars, pool_vars
  <2>2. \A k \in Jobs : pc'[k] # "unlaunched" => pc[k] # "unlaunched"
    BY <1>0, <1>17 DEF ShutdownEnd, Goto, TypeOK, ControlOK, RecordsOK, Threads, SchedulerAssumption
  <2> QED BY <2>1, <2>2 DEF IndInv, IdOrder
<1>18. ASSUME NEW j \in Jobs, RunBegin(j) PROVE IdOrder'
  <2>1. UNCHANGED <<id, next_job_id, queue>>
    BY <1>18 DEF RunBegin, record_vars, pool_vars
  <2>2. \A k \in Jobs : pc'[k] # "unlaunched" => pc[k] # "unlaunched"
    BY <1>0, <1>18 DEF RunBegin, Goto, TypeOK, ControlOK, RecordsOK, Threads, SchedulerAssumption
  <2> QED BY <2>1, <2>2 DEF IndInv, IdOrder
<1>19. ASSUME NEW j \in Jobs, JobReturns(j) PROVE IdOrder'
  <2>1. UNCHANGED <<id, next_job_id, queue>>
    BY <1>19 DEF JobReturns, record_vars, pool_vars
  <2>2. \A k \in Jobs : pc'[k] # "unlaunched" => pc[k] # "unlaunched"
    BY <1>0, <1>19 DEF JobReturns, Goto, TypeOK, ControlOK, RecordsOK, Threads, SchedulerAssumption
  <2> QED BY <2>1, <2>2 DEF IndInv, IdOrder
<1>20. ASSUME NEW j \in Jobs, RunFinish(j) PROVE IdOrder'
  <2>1. UNCHANGED <<id, next_job_id, queue>>
    BY <1>20 DEF RunFinish, record_vars, pool_vars
  <2>2. \A k \in Jobs : pc'[k] # "unlaunched" => pc[k] # "unlaunched"
    BY <1>0, <1>20 DEF RunFinish, Goto, TypeOK, ControlOK, RecordsOK, Threads, SchedulerAssumption
  <2> QED BY <2>1, <2>2 DEF IndInv, IdOrder
<1>21. ASSUME NEW j \in Jobs, RunPublish(j) PROVE IdOrder'
  <2>1. UNCHANGED <<id, next_job_id, queue>>
    BY <1>21 DEF RunPublish, record_vars, pool_vars
  <2>2. \A k \in Jobs : pc'[k] # "unlaunched" => pc[k] # "unlaunched"
    BY <1>0, <1>21 DEF RunPublish, Goto, TypeOK, ControlOK, RecordsOK, Threads, SchedulerAssumption
  <2> QED BY <2>1, <2>2 DEF IndInv, IdOrder
<1>22. ASSUME NEW j \in Jobs, ClearStatusCallback(j) PROVE IdOrder'
  <2>1. UNCHANGED <<id, next_job_id, queue>>
    BY <1>22 DEF ClearStatusCallback, record_vars, pool_vars
  <2>2. \A k \in Jobs : pc'[k] # "unlaunched" => pc[k] # "unlaunched"
    BY <1>0, <1>22 DEF ClearStatusCallback, Goto, TypeOK, ControlOK, RecordsOK, Threads, SchedulerAssumption
  <2> QED BY <2>1, <2>2 DEF IndInv, IdOrder
<1>23. CASE UNCHANGED vars
  BY <1>23 DEF IndInv, IdOrder, record_vars, pool_vars, history, vars, thread_vars
<1> QED
  BY <1>1, <1>2, <1>3, <1>4, <1>5, <1>6, <1>7, <1>8, <1>9, <1>10, <1>11,
     <1>12, <1>13, <1>14, <1>15, <1>16, <1>17, <1>18, <1>19, <1>20, <1>21, <1>22, <1>23
     DEF Next, Call, Proceed, Run, EmitStatus, Dispatch, Threads

\* The budget stays whole.
LEMMA ThreadBudgetStep ==
  ASSUME SchedulerAssumption, IndInv, [Next]_vars
  PROVE  ThreadBudget'
<1>0. TypeOK /\ TypeOK'
  BY TypeOKStep DEF IndInv
<1>1. ASSUME NEW t \in Threads, Snapshot(t) PROVE ThreadBudget'
  BY <1>0, <1>1 DEF Snapshot, IndInv, ThreadBudget, Tokens, Reserved, record_vars, pool_vars, history
<1>2. ASSUME NEW t \in Threads, Deliver(t) PROVE ThreadBudget'
  BY <1>0, <1>2 DEF Deliver, IndInv, ThreadBudget, Tokens, Reserved, record_vars, pool_vars, history
<1>3. ASSUME NEW t \in Threads, DispatchEnter(t) PROVE ThreadBudget'
  BY <1>0, <1>3 DEF DispatchEnter, IndInv, ThreadBudget, Tokens, Reserved, record_vars, pool_vars, history
<1>4. ASSUME NEW t \in Threads, DispatchLaunch(t) PROVE ThreadBudget'
  <2> DEFINE h == Head(queue)
  <2>1. /\ Requested[h] <= available_threads
        /\ available_threads' = available_threads - Requested[h]
        /\ active_jobs' = active_jobs + 1
        /\ state' = [state EXCEPT ![h] = "starting"]
    BY <1>4 DEF DispatchLaunch, CanLaunch, Launch
  <2>2. h \in Jobs /\ state[h] = "queued" /\ Requested[h] \in 1..TotalThreads
    BY <1>4, HeadIsQueued DEF DispatchLaunch, CanLaunch, AllocateThreads
  <2>3. Reserved' = Reserved \cup {h} /\ h \in Jobs \ Reserved
    BY <1>0, <2>1, <2>2 DEF Reserved, Occupying, TypeOK, ControlOK, RecordsOK
  <2> HIDE DEF h
  <2>4. Cardinality(Tokens(Reserved')) = Cardinality(Tokens(Reserved)) + Requested[h]
    BY <2>2, <2>3, TokensAdd DEF Reserved
  <2>5. Cardinality(Reserved') = Cardinality(Reserved) + 1
    BY <2>3, ReservedFinite, FS_AddElement
  <2>6. /\ available_threads + Cardinality(Tokens(Reserved)) = TotalThreads
        /\ active_jobs = Cardinality(Reserved) /\ available_threads \in 0..TotalThreads
    BY DEF IndInv, ThreadBudget
  <2>7. Cardinality(Tokens(Reserved)) \in Nat
    BY TokensFinite DEF Reserved
  <2>8. Requested[h] \in Int /\ TotalThreads \in Nat
    BY <2>2 DEF SchedulerAssumption
  <2>9. available_threads' \in 0..TotalThreads
    BY <2>1, <2>2, <2>6, <2>8
  <2>10. available_threads' + Cardinality(Tokens(Reserved')) = TotalThreads
    BY <2>1, <2>4, <2>6, <2>7, <2>8
  <2> QED BY <2>1, <2>5, <2>6, <2>9, <2>10 DEF ThreadBudget, Tokens
<1>5. ASSUME NEW t \in Threads, DispatchExit(t) PROVE ThreadBudget'
  BY <1>0, <1>5 DEF DispatchExit, IndInv, ThreadBudget, Tokens, Reserved, record_vars, pool_vars, history
<1>6. ASSUME NEW t \in Threads, DispatchThrow(t) PROVE ThreadBudget'
  BY <1>0, <1>6 DEF DispatchThrow, IndInv, ThreadBudget, Tokens, Reserved, record_vars, pool_vars, history
<1>7. ASSUME NEW c \in Callers, NEW j \in Jobs, Submit(c, j) PROVE ThreadBudget'
  <2>1. \A k \in Jobs : state'[k] \in Occupying <=> state[k] \in Occupying
    BY <1>0, <1>7
       DEF Submit, Occupying, Terminal, TypeOK, ControlOK, RecordsOK
  <2>2. Reserved' = Reserved /\ UNCHANGED <<available_threads, active_jobs>>
    BY <1>7, <2>1 DEF Submit, Reserved, pool_vars
  <2> QED BY <2>2 DEF IndInv, ThreadBudget, Tokens
<1>8. ASSUME NEW c \in Callers, NEW j \in Jobs, CancelRequest(c, j) PROVE ThreadBudget'
  BY <1>0, <1>8 DEF CancelRequest, IndInv, ThreadBudget, Tokens, Reserved, record_vars, pool_vars, history
<1>9. ASSUME NEW c \in Callers, NEW j \in Jobs, InterruptCheck(c, j) PROVE ThreadBudget'
  BY <1>0, <1>9 DEF InterruptCheck, IndInv, ThreadBudget, Tokens, Reserved, record_vars, pool_vars, history
<1>10. ASSUME NEW c \in Callers, ShutdownBegin(c) PROVE ThreadBudget'
  <2>1. \A k \in Jobs : state'[k] \in Occupying <=> state[k] \in Occupying
    BY <1>0, <1>10
       DEF ShutdownBegin, Occupying, Terminal, TypeOK, ControlOK, RecordsOK, Withdraw, IndInv, QueueHoldsQueued
  <2>2. Reserved' = Reserved /\ UNCHANGED <<available_threads, active_jobs>>
    BY <1>10, <2>1 DEF ShutdownBegin, Reserved, pool_vars
  <2> QED BY <2>2 DEF IndInv, ThreadBudget, Tokens
<1>11. ASSUME NEW c \in Callers, ShutdownAgain(c) PROVE ThreadBudget'
  BY <1>0, <1>11 DEF ShutdownAgain, IndInv, ThreadBudget, Tokens, Reserved, record_vars, pool_vars, history
<1>12. ASSUME NEW c \in Callers, CancelTooLate(c) PROVE ThreadBudget'
  BY <1>0, <1>12 DEF CancelTooLate, IndInv, ThreadBudget, Tokens, Reserved, record_vars, pool_vars, history
<1>13. ASSUME NEW c \in Callers, CancelQueued(c) PROVE ThreadBudget'
  <2>1. \A k \in Jobs : state'[k] \in Occupying <=> state[k] \in Occupying
    BY <1>0, <1>13
       DEF CancelQueued, Occupying, Terminal, TypeOK, ControlOK, RecordsOK, Withdraw
  <2>2. Reserved' = Reserved /\ UNCHANGED <<available_threads, active_jobs>>
    BY <1>13, <2>1 DEF CancelQueued, Reserved, pool_vars
  <2> QED BY <2>2 DEF IndInv, ThreadBudget, Tokens
<1>14. ASSUME NEW c \in Callers, CancelActive(c) PROVE ThreadBudget'
  <2>1. \A k \in Jobs : state'[k] \in Occupying <=> state[k] \in Occupying
    BY <1>0, <1>14
       DEF CancelActive, Occupying, Terminal, TypeOK, ControlOK, RecordsOK, IsTerminal, States, IndInv, TargetsAdmitted
  <2>2. Reserved' = Reserved /\ UNCHANGED <<available_threads, active_jobs>>
    BY <1>14, <2>1 DEF CancelActive, Reserved, pool_vars
  <2> QED BY <2>2 DEF IndInv, ThreadBudget, Tokens
<1>15. ASSUME NEW c \in Callers, InterruptRequest(c) PROVE ThreadBudget'
  BY <1>0, <1>15 DEF InterruptRequest, IndInv, ThreadBudget, Tokens, Reserved, record_vars, pool_vars, history
<1>16. ASSUME NEW c \in Callers, ShutdownNotify(c) PROVE ThreadBudget'
  BY <1>0, <1>16 DEF ShutdownNotify, IndInv, ThreadBudget, Tokens, Reserved, record_vars, pool_vars, history
<1>17. ASSUME NEW c \in Callers, ShutdownEnd(c) PROVE ThreadBudget'
  BY <1>0, <1>17 DEF ShutdownEnd, IndInv, ThreadBudget, Tokens, Reserved, record_vars, pool_vars, history
<1>18. ASSUME NEW j \in Jobs, RunBegin(j) PROVE ThreadBudget'
  <2>1. \A k \in Jobs : state'[k] \in Occupying <=> state[k] \in Occupying
    BY <1>0, <1>18
       DEF RunBegin, Occupying, Terminal, TypeOK, ControlOK, RecordsOK, IndInv, JobPhases, ActivePoints
  <2>2. Reserved' = Reserved /\ UNCHANGED <<available_threads, active_jobs>>
    BY <1>18, <2>1 DEF RunBegin, Reserved, pool_vars
  <2> QED BY <2>2 DEF IndInv, ThreadBudget, Tokens
<1>19. ASSUME NEW j \in Jobs, JobReturns(j) PROVE ThreadBudget'
  BY <1>0, <1>19 DEF JobReturns, IndInv, ThreadBudget, Tokens, Reserved, record_vars, pool_vars, history
<1>20. ASSUME NEW j \in Jobs, RunFinish(j) PROVE ThreadBudget'
  <2>1. /\ available_threads' = available_threads + Requested[j]
        /\ active_jobs' = active_jobs - 1
        /\ state' = [state EXCEPT ![j] = result[j]] /\ pc[j] = "finish"
    BY <1>20 DEF RunFinish, Release
  <2>2. state[j] \in Occupying /\ result[j] \in Terminal /\ Requested[j] \in 1..TotalThreads
    BY <2>1 DEF IndInv, JobPhases, ActivePoints, AllocateThreads, Occupying
  <2>3. Reserved' = Reserved \ {j} /\ j \in Reserved
    BY <1>0, <2>1, <2>2 DEF Reserved, Occupying, Terminal, TypeOK, ControlOK, RecordsOK
  <2>4. Cardinality(Tokens(Reserved')) = Cardinality(Tokens(Reserved)) - Requested[j]
    BY <2>2, <2>3, TokensRemove DEF Reserved
  <2>5. Cardinality(Reserved') = Cardinality(Reserved) - 1
    BY <2>3, ReservedFinite, FS_RemoveElement
  <2>6. /\ available_threads + Cardinality(Tokens(Reserved)) = TotalThreads
        /\ active_jobs = Cardinality(Reserved) /\ available_threads \in 0..TotalThreads
    BY DEF IndInv, ThreadBudget
  <2>7. Cardinality(Tokens(Reserved)) \in Nat /\ Cardinality(Tokens(Reserved')) \in Nat
    BY <2>3, TokensFinite DEF Reserved
  <2>8. Requested[j] \in Int /\ TotalThreads \in Nat
    BY <2>2 DEF SchedulerAssumption
  <2>9. available_threads' + Cardinality(Tokens(Reserved')) = TotalThreads
    BY <2>1, <2>4, <2>6, <2>7, <2>8
  <2>10. available_threads' \in 0..TotalThreads
    BY <2>1, <2>2, <2>6, <2>7, <2>8, <2>9
  <2> QED BY <2>1, <2>5, <2>6, <2>9, <2>10 DEF ThreadBudget, Tokens
<1>21. ASSUME NEW j \in Jobs, RunPublish(j) PROVE ThreadBudget'
  BY <1>0, <1>21 DEF RunPublish, IndInv, ThreadBudget, Tokens, Reserved, record_vars, pool_vars, history
<1>22. ASSUME NEW j \in Jobs, ClearStatusCallback(j) PROVE ThreadBudget'
  BY <1>0, <1>22 DEF ClearStatusCallback, IndInv, ThreadBudget, Tokens, Reserved, record_vars, pool_vars, history
<1>23. CASE UNCHANGED vars
  BY <1>23 DEF IndInv, ThreadBudget, Tokens, Reserved, record_vars, pool_vars, history, vars, thread_vars
<1> QED
  BY <1>1, <1>2, <1>3, <1>4, <1>5, <1>6, <1>7, <1>8, <1>9, <1>10, <1>11,
     <1>12, <1>13, <1>14, <1>15, <1>16, <1>17, <1>18, <1>19, <1>20, <1>21, <1>22, <1>23
     DEF Next, Call, Proceed, Run, EmitStatus, Dispatch, Threads

-----------------------------------------------------------------------------
(* The theorems.                                                           *)

\* The initial state satisfies the inductive invariant.
LEMMA InitIndInv ==
  ASSUME SchedulerAssumption, Init
  PROVE  IndInv
<1>1. Reserved = {}
  BY DEF Init, Reserved, Occupying
<1>2. Tokens({}) = {} /\ Cardinality({}) = 0
  BY FS_EmptySet DEF Tokens
<1>3. ThreadBudget
  <2>1. Cardinality(Tokens(Reserved)) = 0 /\ Cardinality(Reserved) = 0
    BY <1>1, <1>2
  <2>2. available_threads = TotalThreads /\ active_jobs = 0 /\ TotalThreads \in Nat
    BY DEF Init, SchedulerAssumption
  <2> QED BY <2>1, <2>2 DEF ThreadBudget
<1>4. ControlOK
  BY DEF Init, ControlOK, Threads, CallerPoints, WorkerPoints, SchedulerAssumption
<1>5. RecordsOK /\ PoolOK
  <2>1. RecordsOK
    BY DEF Init, RecordsOK, States
  <2>2. <<>> \in Seq(Jobs)
    OBVIOUS
  <2>3. TotalThreads \in Int /\ 0 \in 0..MaxLaunchFailures
    BY DEF SchedulerAssumption
  <2>4. doomed \in [Callers -> Seq(Jobs)] /\ queue \in Seq(Jobs)
    BY <2>2, Zenon DEF Init
  <2>5. awaited \in [Callers -> SUBSET Jobs] /\ notified \in [Jobs -> BOOLEAN]
    BY DEF Init
  <2>6. /\ shutting_down \in BOOLEAN /\ drained \in BOOLEAN
        /\ workers \subseteq Jobs /\ handle \subseteq Jobs
        /\ mutex \in Threads \cup {Nobody}
    BY DEF Init
  <2>7. /\ available_threads \in Int /\ active_jobs \in Int
        /\ next_job_id \in Nat \ {0} /\ launch_failures \in 0..MaxLaunchFailures
    BY <2>3 DEF Init
  <2> QED BY <2>1, <2>4, <2>5, <2>6, <2>7 DEF PoolOK
<1>6. JobPhases /\ PromisePhases /\ TargetsAdmitted
  BY DEF Init, JobPhases, PromisePhases, TargetsAdmitted, Threads, ActivePoints,
     EndedPoints, Terminal, SchedulerAssumption
<1>7. QueueHoldsQueued /\ IdOrder
  BY DEF Init, QueueHoldsQueued, Queued, IdOrder
<1> QED BY <1>3, <1>4, <1>5, <1>6, <1>7 DEF IndInv, TypeOK

\* The inductive invariant holds in every reachable state.
THEOREM IndInvHolds == Spec => []IndInv
<1>1. Init => IndInv
  BY InitIndInv, SchedulerAssumption
<1>2. IndInv /\ [Next]_vars => IndInv'
  BY SchedulerAssumption, TypeOKStep, TargetsAdmittedStep, JobPhasesStep,
     PromisePhasesStep, QueueHoldsQueuedStep, IdOrderStep, ThreadBudgetStep DEF IndInv
<1> QED BY <1>1, <1>2, PTL DEF Spec

\* Type correctness.
THEOREM TypeCorrect == Spec => []TypeOK
BY IndInvHolds, PTL DEF IndInv

\* No thread of the budget leaks and none is handed out twice, however jobs
\* are submitted, cancelled, drained and finished.
THEOREM BudgetConserved == Spec => []ThreadBudget
BY IndInvHolds, PTL DEF IndInv

\* No queued job is lost and no withdrawn job stays in the queue.
THEOREM QueueExact == Spec => []QueueHoldsQueued
BY IndInvHolds, PTL DEF IndInv

\* Jobs start in the order of their admission.
THEOREM FirstInFirstOut == Spec => []NoOvertaking
<1>1. IndInv => NoOvertaking
  BY DEF IndInv, IdOrder, QueueHoldsQueued, Queued, NoOvertaking
<1> QED BY <1>1, IndInvHolds, PTL

\* A promise agrees with its record, and is empty only while the result of a
\* finished job is about to be published.
THEOREM PromiseAgrees == Spec => []PromiseMatchesState
<1>1. IndInv => PromiseMatchesState
  BY DEF IndInv, PromisePhases, QueueHoldsQueued, Queued, PromiseMatchesState,
     IsTerminal, Terminal, Unset
<1> QED BY <1>1, IndInvHolds, PTL

-----------------------------------------------------------------------------
(* What is settled stays settled.                                          *)

\* Every record keeps its terminal state and its promise.
SettledStay ==
  \A j \in Jobs :
    /\ state[j] \in Terminal => state'[j] = state[j]
    /\ promise[j] # Unset => promise'[j] = promise[j]

\* No step changes a terminal state or a promise that is set.
LEMMA SettledStayStep ==
  ASSUME SchedulerAssumption, IndInv, IndInv', [Next]_vars
  PROVE  SettledStay
<1>0. TypeOK /\ TypeOK'
  BY DEF IndInv
<1>1. ASSUME NEW t \in Threads, Snapshot(t) PROVE SettledStay
  BY <1>0, <1>1 DEF Snapshot, SettledStay, record_vars
<1>2. ASSUME NEW t \in Threads, Deliver(t) PROVE SettledStay
  BY <1>0, <1>2 DEF Deliver, SettledStay, record_vars
<1>3. ASSUME NEW t \in Threads, DispatchEnter(t) PROVE SettledStay
  BY <1>0, <1>3 DEF DispatchEnter, SettledStay, record_vars
<1>4. ASSUME NEW t \in Threads, DispatchLaunch(t) PROVE SettledStay
  BY <1>0, <1>4, HeadIsQueued
     DEF DispatchLaunch, Launch, CanLaunch, SettledStay, IsTerminal, Terminal, TypeOK, ControlOK, RecordsOK
<1>5. ASSUME NEW t \in Threads, DispatchExit(t) PROVE SettledStay
  BY <1>0, <1>5 DEF DispatchExit, SettledStay, record_vars
<1>6. ASSUME NEW t \in Threads, DispatchThrow(t) PROVE SettledStay
  BY <1>0, <1>6 DEF DispatchThrow, SettledStay, record_vars
<1>7. ASSUME NEW c \in Callers, NEW j \in Jobs, Submit(c, j) PROVE SettledStay
  BY <1>0, <1>7 DEF Submit, SettledStay, IsTerminal, Terminal, TypeOK, ControlOK, RecordsOK
<1>8. ASSUME NEW c \in Callers, NEW j \in Jobs, CancelRequest(c, j) PROVE SettledStay
  BY <1>0, <1>8 DEF CancelRequest, SettledStay, record_vars
<1>9. ASSUME NEW c \in Callers, NEW j \in Jobs, InterruptCheck(c, j) PROVE SettledStay
  BY <1>0, <1>9 DEF InterruptCheck, SettledStay, record_vars
<1>10. ASSUME NEW c \in Callers, ShutdownBegin(c) PROVE SettledStay
  <2>1. Withdraw(Queued) /\ \A j \in Queued : state[j] = "queued"
    BY <1>0, <1>10 DEF ShutdownBegin, IndInv, QueueHoldsQueued
  <2> QED BY <2>1 DEF Withdraw, SettledStay, IsTerminal, Terminal, IndInv, PromisePhases
<1>11. ASSUME NEW c \in Callers, ShutdownAgain(c) PROVE SettledStay
  BY <1>0, <1>11 DEF ShutdownAgain, SettledStay, record_vars
<1>12. ASSUME NEW c \in Callers, CancelTooLate(c) PROVE SettledStay
  BY <1>0, <1>12 DEF CancelTooLate, SettledStay, record_vars
<1>13. ASSUME NEW c \in Callers, CancelQueued(c) PROVE SettledStay
  <2>1. Withdraw({target[c]}) /\ \A j \in {target[c]} : state[j] = "queued"
    BY <1>0, <1>13 DEF CancelQueued
  <2> QED BY <2>1 DEF Withdraw, SettledStay, IsTerminal, Terminal, IndInv, PromisePhases
<1>14. ASSUME NEW c \in Callers, CancelActive(c) PROVE SettledStay
  BY <1>0, <1>14 DEF CancelActive, SettledStay, IsTerminal, Terminal, TypeOK, ControlOK, RecordsOK
<1>15. ASSUME NEW c \in Callers, InterruptRequest(c) PROVE SettledStay
  BY <1>0, <1>15 DEF InterruptRequest, SettledStay, record_vars
<1>16. ASSUME NEW c \in Callers, ShutdownNotify(c) PROVE SettledStay
  BY <1>0, <1>16 DEF ShutdownNotify, SettledStay, record_vars
<1>17. ASSUME NEW c \in Callers, ShutdownEnd(c) PROVE SettledStay
  BY <1>0, <1>17 DEF ShutdownEnd, SettledStay, record_vars
<1>18. ASSUME NEW j \in Jobs, RunBegin(j) PROVE SettledStay
  BY <1>0, <1>18 DEF RunBegin, SettledStay, IsTerminal, Terminal, Occupying, TypeOK, ControlOK, RecordsOK,
     IndInv, JobPhases, ActivePoints
<1>19. ASSUME NEW j \in Jobs, JobReturns(j) PROVE SettledStay
  BY <1>0, <1>19 DEF JobReturns, SettledStay, record_vars
<1>20. ASSUME NEW j \in Jobs, RunFinish(j) PROVE SettledStay
  BY <1>0, <1>20 DEF RunFinish, SettledStay, IsTerminal, Terminal, Occupying, TypeOK, ControlOK, RecordsOK,
     IndInv, JobPhases, ActivePoints
<1>21. ASSUME NEW j \in Jobs, RunPublish(j) PROVE SettledStay
  <2>1. promise[j] = Unset
    BY <1>21 DEF RunPublish, IndInv, PromisePhases
  <2> QED BY <1>0, <1>21, <2>1 DEF RunPublish, SettledStay, TypeOK, ControlOK, RecordsOK
<1>22. ASSUME NEW j \in Jobs, ClearStatusCallback(j) PROVE SettledStay
  BY <1>0, <1>22 DEF ClearStatusCallback, SettledStay, record_vars
<1>23. CASE UNCHANGED vars
  BY <1>23 DEF SettledStay, record_vars, vars, thread_vars
<1> QED
  BY <1>1, <1>2, <1>3, <1>4, <1>5, <1>6, <1>7, <1>8, <1>9, <1>10, <1>11,
     <1>12, <1>13, <1>14, <1>15, <1>16, <1>17, <1>18, <1>19, <1>20, <1>21, <1>22, <1>23
     DEF Next, Call, Proceed, Run, EmitStatus, Dispatch, Threads

\* Terminal states and results are final in every behaviour.
THEOREM SettledIsFinal == Spec => TerminalIsFinal
<1>1. IndInv /\ IndInv' /\ [Next]_vars => [SettledStay]_vars
  BY SchedulerAssumption, SettledStayStep
<1>2. Spec => [][SettledStay]_vars
  BY <1>1, IndInvHolds, PTL DEF Spec
<1> QED BY <1>2, PTL DEF TerminalIsFinal, SettledStay

-----------------------------------------------------------------------------
(* No wake-up is lost.                                                      *)

\* The program points from which a thread goes on to look at the queue.
TowardsDispatch == {"announce", "announce_withdrawn", "publish", "announce_end",
                    "clear", "dispatch", "dispatching"}

\* A step after which a thread of Threads is on its way into Dispatch is safe.
LEMMA OnTheWay ==
  ASSUME NEW t \in Threads, pc'[t] \in TowardsDispatch
  PROVE  NoLostDispatch'
BY DEF NoLostDispatch, TowardsDispatch

\* So is one that takes no thread off that way and offers the queue nothing new.
LEMMA NoneLeavesTheWay ==
  ASSUME NoLostDispatch, CanLaunch' => CanLaunch, launch_failures' = launch_failures,
         \A t \in Threads : pc[t] \in TowardsDispatch => pc'[t] \in TowardsDispatch
  PROVE  NoLostDispatch'
BY DEF NoLostDispatch, TowardsDispatch

\* A thread that was not on the way moves by itself.
LEMMA AnotherMoves ==
  ASSUME TypeOK, NoLostDispatch, NEW t \in Threads, NEW point,
         pc[t] \notin TowardsDispatch \/ point \in TowardsDispatch,
         pc' = [pc EXCEPT ![t] = point], CanLaunch' => CanLaunch,
         launch_failures' = launch_failures
  PROVE  NoLostDispatch'
<1>1. \A u \in Threads : pc[u] \in TowardsDispatch => pc'[u] \in TowardsDispatch
  BY DEF TypeOK, ControlOK
<1> QED BY <1>1, NoneLeavesTheWay

\* Every step leaves somebody to serve a head that would fit.
LEMMA NoLostDispatchStep ==
  ASSUME SchedulerAssumption, IndInv, NoLostDispatch, [Next]_vars
  PROVE  NoLostDispatch'
<1>0. TypeOK /\ pc \in [Threads -> CallerPoints \cup WorkerPoints]
  BY DEF IndInv, TypeOK, ControlOK
<1>1. ASSUME NEW t \in Threads, Snapshot(t) PROVE NoLostDispatch'
  BY <1>1, NoneLeavesTheWay DEF Snapshot, pool_vars, CanLaunch
<1>2. ASSUME NEW t \in Threads, Deliver(t) PROVE NoLostDispatch'
  <2>1. pc' = [pc EXCEPT ![t] = Continuation[pc[t]]] /\ pc[t] \in EmitPoints
    BY <1>0, <1>2 DEF Deliver, Goto, TypeOK, ControlOK
  <2>2. pc[t] \in TowardsDispatch => Continuation[pc[t]] \in TowardsDispatch
    BY <2>1 DEF TowardsDispatch, Continuation, EmitPoints, CallerEmits, WorkerEmits
  <2>3. UNCHANGED <<queue, shutting_down, available_threads, launch_failures>>
    BY <1>2 DEF Deliver, pool_vars
  <2> QED BY <1>0, <2>1, <2>2, <2>3, AnotherMoves DEF CanLaunch
<1>3. ASSUME NEW t \in Threads, DispatchEnter(t) PROVE NoLostDispatch'
  BY <1>0, <1>3, OnTheWay DEF DispatchEnter, Goto, TowardsDispatch
<1>4. ASSUME NEW t \in Threads, DispatchLaunch(t) PROVE NoLostDispatch'
  <2>1. Head(queue) \in Jobs /\ pc[Head(queue)] = "unlaunched" /\ pc[t] = "dispatching"
        /\ pc' = [pc EXCEPT ![Head(queue)] = "announce_starting"]
    BY <1>4, HeadIsQueued DEF DispatchLaunch, CanLaunch, Launch, Goto
  <2>2. pc'[t] = "dispatching"
    BY <1>0, <2>1
  <2> QED BY <2>2, OnTheWay DEF TowardsDispatch
<1>5. ASSUME NEW t \in Threads, DispatchExit(t) PROVE NoLostDispatch'
  <2>1. ~CanLaunch /\ UNCHANGED <<queue, shutting_down, available_threads>>
    BY <1>5 DEF DispatchExit
  <2>2. ~CanLaunch'
    BY <2>1 DEF CanLaunch
  <2> QED BY <2>2 DEF NoLostDispatch
<1>6. ASSUME NEW t \in Threads, DispatchThrow(t) PROVE NoLostDispatch'
  <2>1. launch_failures' # 0
    BY <1>0, <1>6 DEF DispatchThrow, TypeOK, PoolOK
  <2> QED BY <2>1 DEF NoLostDispatch
<1>7. ASSUME NEW c \in Callers, NEW j \in Jobs, Submit(c, j) PROVE NoLostDispatch'
  BY <1>0, <1>7, OnTheWay DEF Submit, Take, Threads, TowardsDispatch
<1>8. ASSUME NEW c \in Callers, NEW j \in Jobs, CancelRequest(c, j) PROVE NoLostDispatch'
  BY <1>0, <1>8, AnotherMoves
     DEF CancelRequest, Take, Threads, TowardsDispatch, pool_vars, CanLaunch
<1>9. ASSUME NEW c \in Callers, NEW j \in Jobs, InterruptCheck(c, j) PROVE NoLostDispatch'
  BY <1>0, <1>9, AnotherMoves
     DEF InterruptCheck, Take, Threads, TowardsDispatch, pool_vars, CanLaunch
<1>10. ASSUME NEW c \in Callers, ShutdownBegin(c) PROVE NoLostDispatch'
  BY <1>10 DEF ShutdownBegin, CanLaunch, NoLostDispatch
<1>11. ASSUME NEW c \in Callers, ShutdownAgain(c) PROVE NoLostDispatch'
  BY <1>11 DEF ShutdownAgain, CanLaunch, NoLostDispatch, pool_vars
<1>12. ASSUME NEW c \in Callers, CancelTooLate(c) PROVE NoLostDispatch'
  BY <1>0, <1>12, AnotherMoves
     DEF CancelTooLate, Goto, Threads, TowardsDispatch, pool_vars, CanLaunch
<1>13. ASSUME NEW c \in Callers, CancelQueued(c) PROVE NoLostDispatch'
  BY <1>0, <1>13, OnTheWay DEF CancelQueued, Goto, Threads, TowardsDispatch
<1>14. ASSUME NEW c \in Callers, CancelActive(c) PROVE NoLostDispatch'
  BY <1>0, <1>14, AnotherMoves
     DEF CancelActive, Goto, Threads, TowardsDispatch, pool_vars, CanLaunch
<1>15. ASSUME NEW c \in Callers, InterruptRequest(c) PROVE NoLostDispatch'
  BY <1>0, <1>15, AnotherMoves
     DEF InterruptRequest, Goto, Threads, TowardsDispatch, pool_vars, CanLaunch
<1>16. ASSUME NEW c \in Callers, ShutdownNotify(c) PROVE NoLostDispatch'
  BY <1>0, <1>16, AnotherMoves
     DEF ShutdownNotify, Take, Threads, TowardsDispatch, pool_vars, CanLaunch
<1>17. ASSUME NEW c \in Callers, ShutdownEnd(c) PROVE NoLostDispatch'
  BY <1>0, <1>17, AnotherMoves
     DEF ShutdownEnd, Goto, Threads, TowardsDispatch, CanLaunch
<1>18. ASSUME NEW j \in Jobs, RunBegin(j) PROVE NoLostDispatch'
  BY <1>0, <1>18, AnotherMoves
     DEF RunBegin, Goto, Threads, TowardsDispatch, pool_vars, CanLaunch
<1>19. ASSUME NEW j \in Jobs, JobReturns(j) PROVE NoLostDispatch'
  BY <1>0, <1>19, AnotherMoves
     DEF JobReturns, Goto, Threads, TowardsDispatch, pool_vars, CanLaunch
<1>20. ASSUME NEW j \in Jobs, RunFinish(j) PROVE NoLostDispatch'
  BY <1>0, <1>20, OnTheWay DEF RunFinish, Goto, Threads, TowardsDispatch
<1>21. ASSUME NEW j \in Jobs, RunPublish(j) PROVE NoLostDispatch'
  BY <1>0, <1>21, OnTheWay DEF RunPublish, Goto, Threads, TowardsDispatch
<1>22. ASSUME NEW j \in Jobs, ClearStatusCallback(j) PROVE NoLostDispatch'
  BY <1>0, <1>22, OnTheWay DEF ClearStatusCallback, Goto, Threads, TowardsDispatch
<1>23. CASE UNCHANGED vars
  BY <1>23, NoneLeavesTheWay DEF vars, pool_vars, thread_vars, CanLaunch
<1> QED
  BY <1>1, <1>2, <1>3, <1>4, <1>5, <1>6, <1>7, <1>8, <1>9, <1>10, <1>11,
     <1>12, <1>13, <1>14, <1>15, <1>16, <1>17, <1>18, <1>19, <1>20, <1>21, <1>22, <1>23
     DEF Next, Call, Proceed, Run, EmitStatus, Dispatch, Threads

\* Unless a launch has thrown, a head of the queue that would fit never waits
\* with no thread on its way to launch it.
THEOREM NoWakeUpLost == Spec => []NoLostDispatch
<1>1. Init => NoLostDispatch
  BY DEF Init, NoLostDispatch, CanLaunch
<1>2. IndInv /\ NoLostDispatch /\ [Next]_vars => NoLostDispatch'
  BY SchedulerAssumption, NoLostDispatchStep
<1> QED BY <1>1, <1>2, IndInvHolds, PTL DEF Spec

-----------------------------------------------------------------------------
(* What Shutdown promises.                                                  *)

\* A step on which no thread of a job ends or begins and no list changes.
LEMMA ShutdownPhasesKept ==
  ASSUME ShutdownPhases, Live' = Live, drained' = drained, workers' = workers,
         awaited' = awaited, shutting_down' = shutting_down,
         queue' = queue \/ ~shutting_down,
         \A c \in Callers : pc'[c] \in {"doom", "announce_doomed"}
                              => pc[c] \in {"doom", "announce_doomed"}
  PROVE  ShutdownPhases'
BY DEF ShutdownPhases

\* A caller moves within a call other than Shutdown.
LEMMA CallerKeepsPhases ==
  ASSUME SchedulerAssumption, TypeOK, ShutdownPhases, NEW c \in Callers, NEW point,
         pc' = [pc EXCEPT ![c] = point],
         point \in {"doom", "announce_doomed"} => pc[c] \in {"doom", "announce_doomed"},
         UNCHANGED <<drained, workers, awaited, shutting_down>>,
         queue' = queue \/ ~shutting_down
  PROVE  ShutdownPhases'
<1>1. pc \in [Threads -> CallerPoints \cup WorkerPoints] /\ c \in Threads /\ c \notin Jobs
  BY DEF TypeOK, ControlOK, Threads, SchedulerAssumption
<1>2. \A t \in Threads \ {c} : pc'[t] = pc[t]
  BY <1>1
<1>3. Live' = Live
  BY <1>1, <1>2 DEF Live, Threads
<1>4. \A d \in Callers : pc'[d] \in {"doom", "announce_doomed"}
                           => pc[d] \in {"doom", "announce_doomed"}
  BY <1>1, <1>2 DEF Threads
<1> QED BY <1>3, <1>4, ShutdownPhasesKept

\* A job's thread, once launched, moves on or ends.
LEMMA WorkerKeepsPhases ==
  ASSUME SchedulerAssumption, TypeOK, ShutdownPhases, NEW j \in Live, NEW point,
         pc' = [pc EXCEPT ![j] = point],
         UNCHANGED <<drained, workers, awaited, shutting_down, queue>>
  PROVE  ShutdownPhases'
<1>1. pc \in [Threads -> CallerPoints \cup WorkerPoints] /\ j \in Threads /\ j \in Jobs
      /\ j \notin Callers
  BY DEF TypeOK, ControlOK, Threads, SchedulerAssumption, Live
<1>2. \A t \in Threads \ {j} : pc'[t] = pc[t]
  BY <1>1
<1>3. Live' \subseteq Live
  BY <1>1, <1>2 DEF Live, Threads
<1>4. \A c \in Callers : pc'[c] = pc[c]
  BY <1>1, <1>2 DEF Threads
<1> QED BY <1>3, <1>4 DEF ShutdownPhases

\* A thread that leaves EmitStatus or Dispatch.
LEMMA ThreadKeepsPhases ==
  ASSUME SchedulerAssumption, TypeOK, ShutdownPhases, NEW t \in Threads, NEW point,
         pc[t] \notin {"unlaunched", "done"}, pc' = [pc EXCEPT ![t] = point],
         point \in {"doom", "announce_doomed"} => pc[t] \in {"doom", "announce_doomed"},
         UNCHANGED <<drained, workers, awaited, shutting_down, queue>>
  PROVE  ShutdownPhases'
<1>1. CASE t \in Callers
  BY <1>1, CallerKeepsPhases
<1>2. CASE t \in Jobs
  BY <1>2, WorkerKeepsPhases DEF Live
<1> QED BY <1>1, <1>2 DEF Threads

\* Every step keeps the shutdown in order.
LEMMA ShutdownPhasesStep ==
  ASSUME SchedulerAssumption, IndInv, ShutdownPhases, [Next]_vars
  PROVE  ShutdownPhases'
<1>0. TypeOK /\ pc \in [Threads -> CallerPoints \cup WorkerPoints]
  BY DEF IndInv, TypeOK, ControlOK
<1>1. ASSUME NEW t \in Threads, Snapshot(t) PROVE ShutdownPhases'
  BY <1>1, ShutdownPhasesKept DEF Snapshot, pool_vars, history, Live
<1>2. ASSUME NEW t \in Threads, Deliver(t) PROVE ShutdownPhases'
  <2>1. pc' = [pc EXCEPT ![t] = Continuation[pc[t]]] /\ pc[t] \in EmitPoints
    BY <1>0, <1>2 DEF Deliver, Goto, TypeOK, ControlOK
  <2>2. /\ Continuation[pc[t]] \in {"doom", "announce_doomed"} => pc[t] = "announce_doomed"
        /\ pc[t] \notin {"unlaunched", "done"}
    BY <2>1 DEF Continuation, EmitPoints, CallerEmits, WorkerEmits
  <2>3. UNCHANGED <<drained, workers, awaited, shutting_down, queue>>
    BY <1>2 DEF Deliver, pool_vars
  <2> QED BY <1>0, <2>1, <2>2, <2>3, ThreadKeepsPhases
<1>3. ASSUME NEW t \in Threads, DispatchEnter(t) PROVE ShutdownPhases'
  <2>1. /\ pc[t] = "dispatch" /\ pc' = [pc EXCEPT ![t] = "dispatching"]
        /\ workers' = NotReady
        /\ UNCHANGED <<drained, awaited, shutting_down, queue>>
    BY <1>3 DEF DispatchEnter, Goto, history
  <2>2. Live' = Live
    BY <1>0, <2>1 DEF Live, Threads
  <2>3. Live \subseteq workers'
    BY <2>1 DEF ShutdownPhases, NotReady, Live
  <2>4. \A c \in Callers : pc'[c] \in {"doom", "announce_doomed"}
                             => pc[c] \in {"doom", "announce_doomed"}
    BY <1>0, <2>1 DEF Threads
  <2> QED BY <2>1, <2>2, <2>3, <2>4 DEF ShutdownPhases
<1>4. ASSUME NEW t \in Threads, DispatchLaunch(t) PROVE ShutdownPhases'
  <2> DEFINE h == Head(queue)
  <2>1. /\ h \in Jobs /\ ~shutting_down /\ pc' = [pc EXCEPT ![h] = "announce_starting"]
        /\ workers' = workers \cup {h} /\ UNCHANGED <<drained, awaited, shutting_down>>
    BY <1>4, HeadIsQueued DEF DispatchLaunch, CanLaunch, Launch, Goto, history
  <2> HIDE DEF h
  <2>2. Live' \subseteq Live \cup {h}
    BY <1>0, <2>1 DEF Live, Threads
  <2>3. \A c \in Callers : pc'[c] = pc[c]
    BY <1>0, <2>1 DEF Threads, SchedulerAssumption
  <2> QED BY <2>1, <2>2, <2>3 DEF ShutdownPhases
<1>5. ASSUME NEW t \in Threads, DispatchExit(t) PROVE ShutdownPhases'
  BY <1>0, <1>5, ThreadKeepsPhases DEF DispatchExit, Goto, AfterDispatch, history
<1>6. ASSUME NEW t \in Threads, DispatchThrow(t) PROVE ShutdownPhases'
  BY <1>0, <1>6, ThreadKeepsPhases DEF DispatchThrow, Goto, AfterDispatch, history
<1>7. ASSUME NEW c \in Callers, NEW j \in Jobs, Submit(c, j) PROVE ShutdownPhases'
  BY <1>0, <1>7, CallerKeepsPhases DEF Submit, Take, history
<1>8. ASSUME NEW c \in Callers, NEW j \in Jobs, CancelRequest(c, j) PROVE ShutdownPhases'
  BY <1>0, <1>8, CallerKeepsPhases DEF CancelRequest, Take, history, pool_vars
<1>9. ASSUME NEW c \in Callers, NEW j \in Jobs, InterruptCheck(c, j) PROVE ShutdownPhases'
  BY <1>0, <1>9, CallerKeepsPhases DEF InterruptCheck, Take, history, pool_vars
<1>10. ASSUME NEW c \in Callers, ShutdownBegin(c) PROVE ShutdownPhases'
  <2>1. /\ ~shutting_down /\ shutting_down' /\ queue' = <<>>
        /\ awaited' = [awaited EXCEPT ![c] = workers]
        /\ pc[c] = "idle" /\ pc' = [pc EXCEPT ![c] = "doom"]
        /\ UNCHANGED <<drained, workers>>
    BY <1>10 DEF ShutdownBegin, Goto, history, ThreadsToJoin
  <2>2. Live' = Live
    BY <1>0, <2>1 DEF Live, Threads, SchedulerAssumption
  <2>3. awaited'[c] = workers
    BY <1>0, <2>1 DEF TypeOK, PoolOK
  <2>4. \A d \in Callers \ {c} : pc'[d] \notin {"doom", "announce_doomed"}
    BY <1>0, <2>1 DEF Threads, ShutdownPhases
  <2> QED BY <2>1, <2>2, <2>3, <2>4 DEF ShutdownPhases
<1>11. ASSUME NEW c \in Callers, ShutdownAgain(c) PROVE ShutdownPhases'
  <2>1. /\ shutting_down /\ awaited' = [awaited EXCEPT ![c] = workers]
        /\ pc[c] = "idle" /\ pc' = [pc EXCEPT ![c] = "doom"]
        /\ UNCHANGED <<drained, workers, shutting_down, queue>>
    BY <1>11 DEF ShutdownAgain, Goto, history, ThreadsToJoin, pool_vars
  <2>2. Live' = Live
    BY <1>0, <2>1 DEF Live, Threads, SchedulerAssumption
  <2>3. awaited'[c] = workers
    BY <1>0, <2>1 DEF TypeOK, PoolOK
  <2>4. \A d \in Callers \ {c} : pc'[d] = pc[d] /\ awaited'[d] = awaited[d]
    BY <1>0, <2>1 DEF Threads, TypeOK, PoolOK
  <2> QED BY <2>1, <2>2, <2>3, <2>4 DEF ShutdownPhases
<1>12. ASSUME NEW c \in Callers, CancelTooLate(c) PROVE ShutdownPhases'
  BY <1>0, <1>12, CallerKeepsPhases DEF CancelTooLate, Goto, history, pool_vars
<1>13. ASSUME NEW c \in Callers, CancelQueued(c) PROVE ShutdownPhases'
  <2>1. ~shutting_down
    <3>1. target[c] \in Queued
      BY <1>0, <1>13 DEF CancelQueued, IndInv, QueueHoldsQueued, TypeOK, ControlOK
    <3>2. queue # <<>>
      BY <3>1 DEF Queued
    <3> QED BY <3>2 DEF ShutdownPhases
  <2> QED BY <1>0, <1>13, <2>1, CallerKeepsPhases DEF CancelQueued, Goto, history
<1>14. ASSUME NEW c \in Callers, CancelActive(c) PROVE ShutdownPhases'
  BY <1>0, <1>14, CallerKeepsPhases DEF CancelActive, Goto, history, pool_vars
<1>15. ASSUME NEW c \in Callers, InterruptRequest(c) PROVE ShutdownPhases'
  BY <1>0, <1>15, CallerKeepsPhases DEF InterruptRequest, Goto, history, pool_vars
<1>16. ASSUME NEW c \in Callers, ShutdownNotify(c) PROVE ShutdownPhases'
  BY <1>0, <1>16, CallerKeepsPhases DEF ShutdownNotify, Take, history, pool_vars
<1>17. ASSUME NEW c \in Callers, ShutdownEnd(c) PROVE ShutdownPhases'
  <2>1. /\ pc[c] = "doom" /\ \A j \in awaited[c] : pc[j] = "done"
        /\ workers' = {} /\ awaited' = [awaited EXCEPT ![c] = {}]
        /\ pc' = [pc EXCEPT ![c] = "idle"] /\ UNCHANGED <<queue, shutting_down>>
    BY <1>17 DEF ShutdownEnd, Goto
  <2>2. Live = {} /\ shutting_down
    BY <2>1 DEF ShutdownPhases, Live
  <2>3. Live' = {}
    BY <1>0, <2>1, <2>2 DEF Live, Threads, SchedulerAssumption
  <2> QED BY <2>1, <2>2, <2>3 DEF ShutdownPhases
<1>18. ASSUME NEW j \in Jobs, RunBegin(j) PROVE ShutdownPhases'
  BY <1>0, <1>18, WorkerKeepsPhases DEF RunBegin, Goto, Live, history, pool_vars
<1>19. ASSUME NEW j \in Jobs, JobReturns(j) PROVE ShutdownPhases'
  BY <1>0, <1>19, WorkerKeepsPhases DEF JobReturns, Goto, Live, history, pool_vars
<1>20. ASSUME NEW j \in Jobs, RunFinish(j) PROVE ShutdownPhases'
  BY <1>0, <1>20, WorkerKeepsPhases DEF RunFinish, Goto, Live, history
<1>21. ASSUME NEW j \in Jobs, RunPublish(j) PROVE ShutdownPhases'
  BY <1>0, <1>21, WorkerKeepsPhases DEF RunPublish, Goto, Live, history, pool_vars
<1>22. ASSUME NEW j \in Jobs, ClearStatusCallback(j) PROVE ShutdownPhases'
  BY <1>0, <1>22, WorkerKeepsPhases DEF ClearStatusCallback, Goto, Live, history, pool_vars
<1>23. CASE UNCHANGED vars
  BY <1>23, ShutdownPhasesKept DEF vars, pool_vars, thread_vars, history, Live
<1> QED
  BY <1>1, <1>2, <1>3, <1>4, <1>5, <1>6, <1>7, <1>8, <1>9, <1>10, <1>11,
     <1>12, <1>13, <1>14, <1>15, <1>16, <1>17, <1>18, <1>19, <1>20, <1>21, <1>22, <1>23
     DEF Next, Call, Proceed, Run, EmitStatus, Dispatch, Threads

\* The shutdown is in order in every reachable state.
LEMMA ShutdownPhasesHolds == Spec => []ShutdownPhases
<1>1. Init => ShutdownPhases
  BY SchedulerAssumption
     DEF Init, ShutdownPhases, Live, Threads, SchedulerAssumption
<1>2. IndInv /\ ShutdownPhases /\ [Next]_vars => ShutdownPhases'
  BY SchedulerAssumption, ShutdownPhasesStep
<1> QED BY <1>1, <1>2, IndInvHolds, PTL DEF Spec

\* When a call of Shutdown has returned, nothing runs and nothing will, every
\* admitted job is resolved and the whole budget is back.
THEOREM ShutdownLeavesNothing == Spec => []ShutdownDrains
<1>1. IndInv /\ ShutdownPhases => ShutdownDrains
  <2> SUFFICES ASSUME IndInv, ShutdownPhases, drained PROVE
                 /\ \A j \in Jobs : pc[j] \in {"unlaunched", "done"}
                 /\ \A j \in Jobs : state[j] # "unborn" => promise[j] # Unset
                 /\ available_threads = TotalThreads
    BY DEF ShutdownDrains
  <2>1. \A j \in Jobs : pc[j] \in {"unlaunched", "done"}
    BY DEF ShutdownPhases, Live
  <2>2. \A j \in Jobs : state[j] # "queued"
    BY DEF ShutdownPhases, IndInv, QueueHoldsQueued, Queued
  <2>3. \A j \in Jobs : state[j] \in {"unborn"} \cup Terminal
    BY <2>1, <2>2 DEF IndInv, JobPhases, EndedPoints, ActivePoints, WorkerPoints,
       WorkerEmits, Terminal
  <2>4. \A j \in Jobs : state[j] # "unborn" => promise[j] # Unset
    BY <2>1, <2>3 DEF IndInv, PromisePhases
  <2>5. Tokens(Reserved) = {}
    BY <2>3 DEF Reserved, Tokens, Occupying, Terminal
  <2>6. Cardinality(Tokens(Reserved)) = 0
    BY <2>5, FS_EmptySet
  <2>7. available_threads = TotalThreads
    BY <2>6 DEF IndInv, ThreadBudget, TypeOK, PoolOK
  <2> QED BY <2>1, <2>4, <2>7
<1> QED BY <1>1, IndInvHolds, ShutdownPhasesHolds, PTL

-----------------------------------------------------------------------------
(* What rest means.                                                         *)

\* A caller that is left alone owes what it owed.
LEMMA OwesKept ==
  ASSUME NEW c \in Callers, NEW j \in Jobs, OwesNotice(c, j),
         pc'[c] = pc[c], target'[c] = target[c], emission'[c] = emission[c],
         doomed'[c] = doomed[c]
  PROVE  OwesNotice(c, j)'
BY DEF OwesNotice

\* A caller moves by itself and owes a notice for all it withdraws.
LEMMA CallerKeepsNotices ==
  ASSUME SchedulerAssumption, TypeOK, Notices, NEW c \in Callers, NEW point,
         pc' = [pc EXCEPT ![c] = point],
         \A d \in Callers \ {c} : target'[d] = target[d] /\ doomed'[d] = doomed[d],
         UNCHANGED <<on_status, notified, emission>>,
         \A j \in Jobs : state'[j] = "unborn" <=> state[j] = "unborn",
         \A j \in Jobs : pc[j] = "unlaunched" /\ state'[j] = "cancelled" =>
           OwesNotice(c, j)' \/ (state[j] = "cancelled" /\ ~OwesNotice(c, j))
  PROVE  Notices'
<1> SUFFICES ASSUME NEW j \in Jobs
             PROVE  CallbackKept(j)' /\ EndTold(j)' /\ WithdrawalTold(j)'
  BY DEF Notices
<1>1. pc'[j] = pc[j] /\ \A d \in Callers \ {c} : pc'[d] = pc[d]
  BY DEF TypeOK, ControlOK, Threads, SchedulerAssumption
<1>2. CallbackKept(j)' /\ EndTold(j)'
  BY <1>1 DEF Notices, CallbackKept, EndTold
<1>3. ASSUME pc[j] = "unlaunched", state'[j] = "cancelled", ~notified[j],
             ~OwesNotice(c, j)'
      PROVE  \E d \in Callers : OwesNotice(d, j)'
  <2>1. PICK d \in Callers : OwesNotice(d, j) /\ d # c
    BY <1>3 DEF Notices, WithdrawalTold
  <2> QED BY <1>1, <2>1, OwesKept
<1>4. WithdrawalTold(j)'
  BY <1>1, <1>3 DEF WithdrawalTold
<1> QED BY <1>2, <1>4

\* The thread of a job moves by itself.
LEMMA WorkerKeepsNotices ==
  ASSUME SchedulerAssumption, TypeOK, Notices, NEW w \in Jobs, NEW point,
         pc' = [pc EXCEPT ![w] = point], point # "unlaunched",
         UNCHANGED <<target, doomed, emission, notified>>,
         \A j \in Jobs \ {w} : state'[j] = state[j] /\ on_status'[j] = on_status[j],
         CallbackKept(w)', EndTold(w)'
  PROVE  Notices'
<1> SUFFICES ASSUME NEW j \in Jobs
             PROVE  CallbackKept(j)' /\ EndTold(j)' /\ WithdrawalTold(j)'
  BY DEF Notices
<1>1. /\ \A d \in Callers : pc'[d] = pc[d]
      /\ \A i \in Jobs \ {w} : pc'[i] = pc[i]
      /\ pc'[w] = point
  BY DEF TypeOK, ControlOK, Threads, SchedulerAssumption
<1>2. CASE j = w
  BY <1>1, <1>2 DEF WithdrawalTold
<1>3. CASE j # w
  <2>1. CallbackKept(j)' /\ EndTold(j)'
    BY <1>1, <1>3 DEF Notices, CallbackKept, EndTold
  <2>2. \A d \in Callers : OwesNotice(d, j) => OwesNotice(d, j)'
    BY <1>1, OwesKept
  <2>3. WithdrawalTold(j)'
    BY <1>1, <1>3, <2>2 DEF Notices, WithdrawalTold
  <2> QED BY <2>1, <2>3
<1> QED BY <1>2, <1>3

\* A caller at another point owes nothing.
LEMMA OwesNothing ==
  ASSUME NEW c \in Callers, NEW j \in Jobs,
         pc[c] \notin {"announce_withdrawn", "announce_doomed", "doom"}
  PROVE  ~OwesNotice(c, j)
BY DEF OwesNotice

\* A status that is delivered.
LEMMA DeliverKeepsNotices ==
  ASSUME SchedulerAssumption, IndInv, Notices, NEW t \in Threads, Deliver(t)
  PROVE  Notices'
<1>0. TypeOK /\ pc \in [Threads -> CallerPoints \cup WorkerPoints]
  BY DEF IndInv, TypeOK, ControlOK
<1>1. /\ pc[t] \in EmitPoints /\ Subject(t) \in Jobs
      /\ pc' = [pc EXCEPT ![t] = Continuation[pc[t]]]
      /\ emission[t] # Unset /\ emission' = [emission EXCEPT ![t] = Unset]
      /\ target' = IF Continuation[pc[t]] = "idle" THEN [target EXCEPT ![t] = NoJob]
                   ELSE target
      /\ UNCHANGED <<state, on_status, doomed>>
  BY <1>0, SubjectIsJob DEF Deliver, Goto, TypeOK, ControlOK, record_vars
<1>2. /\ \A j \in Jobs : notified[j] => notified'[j]
      /\ on_status[Subject(t)] /\ emission[t] \in Terminal => notified'[Subject(t)]
  BY <1>0, <1>1 DEF Deliver, IsTerminal, TypeOK, PoolOK
<1> SUFFICES ASSUME NEW j \in Jobs
             PROVE  CallbackKept(j)' /\ EndTold(j)' /\ WithdrawalTold(j)'
  BY DEF Notices
<1>3. \A u \in Threads \ {t} : pc'[u] = pc[u] /\ emission'[u] = emission[u]
  BY <1>0, <1>1 DEF TypeOK, ControlOK
<1>4. pc'[t] = Continuation[pc[t]] /\ emission'[t] = Unset
  BY <1>0, <1>1 DEF TypeOK, ControlOK
<1>5. CASE t = j
  <2>1. /\ Subject(t) = j /\ pc[j] \in WorkerEmits
        /\ \A c \in Callers : c # t
    BY <1>0, <1>1, <1>5
       DEF Subject, TypeOK, ControlOK, EmitPoints, CallerEmits, WorkerPoints,
           WorkerEmits, SchedulerAssumption
  <2>2. pc'[j] \in {"to_running", "execute", "clear"} /\ (pc'[j] = "clear" => pc[j] = "announce_end")
    BY <1>4, <1>5, <2>1 DEF Continuation, EmitPoints, WorkerEmits
  <2>3. CallbackKept(j)'
    BY <1>1, <2>1, <2>2 DEF Notices, CallbackKept, WorkerEmits
  <2>4. pc[j] = "announce_end" => on_status[j] /\ emission[j] \in Terminal
    BY <1>1, <1>5 DEF Notices, CallbackKept, EndTold, IndInv, JobPhases, EndedPoints,
       ActivePoints, WorkerPoints, WorkerEmits, Terminal
  <2>5. EndTold(j)'
    BY <1>2, <1>5, <2>1, <2>2, <2>4 DEF EndTold
  <2> QED BY <2>2, <2>3, <2>5 DEF WithdrawalTold
<1>6. CASE t # j
  <2>1. pc'[j] = pc[j] /\ emission'[j] = emission[j]
    BY <1>3, <1>6 DEF Threads
  <2>2. CallbackKept(j)' /\ EndTold(j)'
    BY <1>1, <1>2, <2>1 DEF Notices, CallbackKept, EndTold
  <2>3. ASSUME pc[j] = "unlaunched", state[j] = "cancelled", ~notified'[j]
        PROVE  \E d \in Callers : OwesNotice(d, j)'
    <3>1. PICK d \in Callers : OwesNotice(d, j)
      BY <1>2, <2>3 DEF Notices, WithdrawalTold
    <3>2. CASE d # t
      <4>1. target'[d] = target[d]
        BY <1>0, <1>1, <3>2 DEF TypeOK, ControlOK
      <4> QED BY <1>1, <1>3, <3>1, <3>2, <4>1, OwesKept DEF Threads
    <3>3. CASE d = t
      <4>1. on_status[j]
        BY <2>3 DEF Notices, CallbackKept
      <4>2. Subject(t) = target[t]
        BY <3>3 DEF Subject, SchedulerAssumption
      <4>3. /\ pc[t] = "announce_doomed"
            /\ \E i \in 1..Len(doomed[t]) : doomed[t][i] = j
        BY <1>1, <1>2, <2>3, <3>1, <3>3, <4>1, <4>2
           DEF OwesNotice, EmitPoints, CallerEmits, WorkerEmits
      <4>4. pc'[t] = "doom" /\ doomed'[t] = doomed[t]
        BY <1>1, <1>4, <4>3 DEF Continuation, EmitPoints, CallerEmits
      <4> QED BY <3>3, <4>3, <4>4 DEF OwesNotice
    <3> QED BY <3>2, <3>3
  <2> QED BY <1>1, <2>1, <2>2, <2>3 DEF WithdrawalTold
<1> QED BY <1>5, <1>6

\* What one caller does leaves the locals of the others alone.
LEMMA OthersKept ==
  ASSUME TypeOK, NEW c \in Callers,
         target' = target \/ \E x : target' = [target EXCEPT ![c] = x],
         doomed' = doomed \/ \E x : doomed' = [doomed EXCEPT ![c] = x]
  PROVE  \A d \in Callers \ {c} : target'[d] = target[d] /\ doomed'[d] = doomed[d]
BY DEF TypeOK, ControlOK, PoolOK

\* Every step keeps the observers told, or somebody due to tell them.
LEMMA NoticesStep ==
  ASSUME SchedulerAssumption, IndInv, Notices, [Next]_vars
  PROVE  Notices'
<1>0. TypeOK /\ pc \in [Threads -> CallerPoints \cup WorkerPoints]
  BY DEF IndInv, TypeOK, ControlOK
<1>1. ASSUME NEW t \in Threads, Snapshot(t) PROVE Notices'
  <2>1. /\ UNCHANGED <<pc, target, doomed, state, on_status, notified>>
        /\ emission' = [emission EXCEPT ![t] = state[Subject(t)]]
        /\ pc[t] \in EmitPoints /\ emission[t] = Unset
    BY <1>1 DEF Snapshot, record_vars, history
  <2>2. ASSUME NEW j \in Jobs PROVE EndTold(j)'
    <3>1. pc[j] = "announce_end" => state[j] \in Terminal
      BY DEF IndInv, JobPhases, EndedPoints, ActivePoints, WorkerPoints, WorkerEmits
    <3>2. emission'[j] \in {emission[j], state[j]}
      BY <1>0, <2>1 DEF TypeOK, ControlOK, Threads, Subject
    <3> QED BY <2>1, <3>1, <3>2 DEF Notices, EndTold
  <2>3. ASSUME NEW j \in Jobs, state[j] = "cancelled", NEW d \in Callers, OwesNotice(d, j)
        PROVE  OwesNotice(d, j)'
    <3>1. emission'[d] = IF d = t THEN state[target[d]] ELSE emission[d]
      BY <1>0, <2>1 DEF TypeOK, ControlOK, Threads, Subject, SchedulerAssumption
    <3> QED BY <2>1, <2>3, <3>1 DEF OwesNotice, Terminal
  <2> QED BY <2>1, <2>2, <2>3 DEF Notices, CallbackKept, WithdrawalTold
<1>2. ASSUME NEW t \in Threads, Deliver(t) PROVE Notices'
  BY <1>2, DeliverKeepsNotices
<1>3. ASSUME NEW t \in Threads, DispatchEnter(t) PROVE Notices'
  <2>1. CASE t \in Callers
    BY <1>0, <1>3, <2>1, CallerKeepsNotices, OwesNothing, OthersKept
       DEF DispatchEnter, Goto, record_vars, history
  <2>2. CASE t \in Jobs
    BY <1>0, <1>3, <2>2, WorkerKeepsNotices
       DEF DispatchEnter, Goto, record_vars, history, CallbackKept, EndTold, Notices, Threads
  <2> QED BY <2>1, <2>2 DEF Threads
<1>4. ASSUME NEW t \in Threads, DispatchLaunch(t) PROVE Notices'
  <2>1. PICK h \in Jobs :
          /\ state[h] = "queued" /\ pc[h] = "unlaunched"
          /\ pc' = [pc EXCEPT ![h] = "announce_starting"]
          /\ state' = [state EXCEPT ![h] = "starting"]
          /\ UNCHANGED <<target, doomed, emission, notified, on_status>>
    BY <1>4, HeadIsQueued DEF DispatchLaunch, CanLaunch, Launch, Goto, history
  <2>2. pc'[h] = "announce_starting" /\ state'[h] = "starting"
    BY <1>0, <2>1 DEF Threads, TypeOK, RecordsOK
  <2>3. CallbackKept(h)'
    <3>1. on_status[h]
      BY <2>1 DEF CallbackKept, Notices
    <3>2. on_status'[h]
      BY <2>1, <3>1
    <3> QED BY <2>2, <3>2 DEF CallbackKept
  <2>4. EndTold(h)'
    BY <2>2 DEF EndTold
  <2>5. UNCHANGED <<target, doomed, emission, notified>> /\ "announce_starting" # "unlaunched"
    BY <2>1
  <2>6. \A j \in Jobs \ {h} : state'[j] = state[j] /\ on_status'[j] = on_status[j]
    BY <1>0, <2>1 DEF TypeOK, RecordsOK
  <2> QED BY <1>0, <2>1, <2>3, <2>4, <2>5, <2>6, WorkerKeepsNotices
<1>5. ASSUME NEW t \in Threads, DispatchExit(t) PROVE Notices'
  <2>1. CASE t \in Callers
    BY <1>0, <1>5, <2>1, CallerKeepsNotices, OwesNothing, OthersKept
       DEF DispatchExit, Goto, record_vars, history
  <2>2. CASE t \in Jobs
    BY <1>0, <1>5, <2>2, WorkerKeepsNotices
       DEF DispatchExit, AfterDispatch, Goto, record_vars, history, CallbackKept, EndTold,
           Notices, Threads
  <2> QED BY <2>1, <2>2 DEF Threads
<1>6. ASSUME NEW t \in Threads, DispatchThrow(t) PROVE Notices'
  <2>1. CASE t \in Callers
    BY <1>0, <1>6, <2>1, CallerKeepsNotices, OwesNothing, OthersKept
       DEF DispatchThrow, Goto, record_vars, history
  <2>2. CASE t \in Jobs
    BY <1>0, <1>6, <2>2, WorkerKeepsNotices
       DEF DispatchThrow, AfterDispatch, Goto, record_vars, history, CallbackKept, EndTold,
           Notices, Threads
  <2> QED BY <2>1, <2>2 DEF Threads
<1>7. ASSUME NEW c \in Callers, NEW j \in Jobs, Submit(c, j) PROVE Notices'
  <2>1. /\ pc[c] = "idle" /\ pc' = [pc EXCEPT ![c] = "announce"]
        /\ target' = [target EXCEPT ![c] = j] /\ state[j] = "unborn"
        /\ state' = [state EXCEPT ![j] = "queued"]
        /\ on_status' = [on_status EXCEPT ![j] = TRUE]
        /\ UNCHANGED <<doomed, emission, notified>>
    BY <1>7 DEF Submit, Take, history
  <2> SUFFICES ASSUME NEW i \in Jobs
               PROVE  CallbackKept(i)' /\ EndTold(i)' /\ WithdrawalTold(i)'
    BY DEF Notices
  <2>2. pc'[i] = pc[i] /\ \A d \in Callers \ {c} : pc'[d] = pc[d]
    BY <1>0, <2>1 DEF Threads, SchedulerAssumption
  <2>3. /\ state'[i] = IF i = j THEN "queued" ELSE state[i]
        /\ on_status'[i] = IF i = j THEN TRUE ELSE on_status[i]
    BY <1>0, <2>1 DEF TypeOK, RecordsOK
  <2>4. i = j => pc[i] = "unlaunched"
    BY <1>0, <2>1 DEF IndInv, JobPhases, TypeOK, ControlOK, EndedPoints, Occupying, Terminal
  <2>5. CallbackKept(i)' /\ EndTold(i)'
    <3>1. CASE i = j
      BY <2>2, <2>3, <2>4, <3>1 DEF CallbackKept, EndTold
    <3>2. CASE i # j
      BY <2>1, <2>2, <2>3, <3>2 DEF Notices, CallbackKept, EndTold
    <3> QED BY <3>1, <3>2
  <2>6. \A d \in Callers : OwesNotice(d, i) => d # c /\ OwesNotice(d, i)'
    BY <1>0, <2>1, <2>2, OwesKept, OwesNothing, OthersKept
  <2>7. WithdrawalTold(i)'
    BY <2>1, <2>2, <2>3, <2>6 DEF Notices, WithdrawalTold
  <2> QED BY <2>5, <2>7
<1>8. ASSUME NEW c \in Callers, NEW j \in Jobs, CancelRequest(c, j) PROVE Notices'
  BY <1>0, <1>8, CallerKeepsNotices, OwesNothing, OthersKept
     DEF CancelRequest, Take, record_vars, history
<1>9. ASSUME NEW c \in Callers, NEW j \in Jobs, InterruptCheck(c, j) PROVE Notices'
  BY <1>0, <1>9, CallerKeepsNotices, OwesNothing, OthersKept
     DEF InterruptCheck, Take, record_vars, history
<1>10. ASSUME NEW c \in Callers, ShutdownBegin(c) PROVE Notices'
  <2>1. /\ pc[c] = "idle" /\ pc' = [pc EXCEPT ![c] = "doom"]
        /\ doomed' = [doomed EXCEPT ![c] = queue]
        /\ UNCHANGED <<target, emission, notified, on_status>>
    BY <1>10 DEF ShutdownBegin, Goto, history
  <2>2. \A j \in Jobs : state'[j] = IF state[j] = "queued" THEN "cancelled" ELSE state[j]
    BY <1>10 DEF ShutdownBegin, Withdraw, IndInv, QueueHoldsQueued
  <2>3. ASSUME NEW j \in Jobs, state[j] = "queued" PROVE OwesNotice(c, j)'
    <3>1. pc'[c] = "doom" /\ doomed'[c] = queue
      BY <1>0, <2>1 DEF Threads, TypeOK, PoolOK
    <3>2. \E i \in 1..Len(queue) : queue[i] = j
      BY <2>3 DEF IndInv, QueueHoldsQueued, Queued
    <3> QED BY <3>1, <3>2 DEF OwesNotice
  <2>4. /\ \A j \in Jobs : state'[j] = "unborn" <=> state[j] = "unborn"
        /\ \A j \in Jobs : pc[j] = "unlaunched" /\ state'[j] = "cancelled" =>
             OwesNotice(c, j)' \/ (state[j] = "cancelled" /\ ~OwesNotice(c, j))
    BY <2>1, <2>2, <2>3, OwesNothing
  <2>5. \A d \in Callers \ {c} : target'[d] = target[d] /\ doomed'[d] = doomed[d]
    BY <1>0, <2>1, OthersKept
  <2>6. UNCHANGED <<on_status, notified, emission>>
    BY <2>1
  <2> QED BY <1>0, <2>1, <2>4, <2>5, <2>6, CallerKeepsNotices
<1>11. ASSUME NEW c \in Callers, ShutdownAgain(c) PROVE Notices'
  BY <1>0, <1>11, CallerKeepsNotices, OwesNothing, OthersKept
     DEF ShutdownAgain, Goto, record_vars, history
<1>12. ASSUME NEW c \in Callers, CancelTooLate(c) PROVE Notices'
  BY <1>0, <1>12, CallerKeepsNotices, OwesNothing, OthersKept
     DEF CancelTooLate, Goto, record_vars, history
<1>13. ASSUME NEW c \in Callers, CancelQueued(c) PROVE Notices'
  <2> DEFINE j == target[c]
  <2>1. /\ pc[c] = "cancel" /\ pc' = [pc EXCEPT ![c] = "announce_withdrawn"]
        /\ state[j] = "queued" /\ UNCHANGED <<target, doomed, emission, notified, on_status>>
        /\ \A i \in Jobs : state'[i] = IF i = j THEN "cancelled" ELSE state[i]
    BY <1>13 DEF CancelQueued, Goto, Withdraw, history
  <2>2. emission[c] = Unset /\ pc'[c] = "announce_withdrawn"
    BY <1>0, <2>1 DEF TypeOK, ControlOK, Threads, EmitPoints, CallerEmits, WorkerEmits
  <2>3. OwesNotice(c, j)'
    BY <2>1, <2>2 DEF OwesNotice
  <2>4. /\ \A i \in Jobs : state'[i] = "unborn" <=> state[i] = "unborn"
        /\ \A i \in Jobs : pc[i] = "unlaunched" /\ state'[i] = "cancelled" =>
             OwesNotice(c, i)' \/ (state[i] = "cancelled" /\ ~OwesNotice(c, i))
    BY <2>1, <2>3, OwesNothing
  <2>5. \A d \in Callers \ {c} : target'[d] = target[d] /\ doomed'[d] = doomed[d]
    BY <1>0, <2>1, OthersKept
  <2>6. UNCHANGED <<on_status, notified, emission>>
    BY <2>1
  <2> QED BY <1>0, <2>1, <2>4, <2>5, <2>6, CallerKeepsNotices
<1>14. ASSUME NEW c \in Callers, CancelActive(c) PROVE Notices'
  <2> DEFINE j == target[c]
  <2>1. /\ pc[c] = "cancel" /\ pc' = [pc EXCEPT ![c] = "announce_cancelling"]
        /\ state' = [state EXCEPT ![j] = "cancelling"]
        /\ UNCHANGED <<target, doomed, emission, notified, on_status>>
    BY <1>14 DEF CancelActive, Goto, history
  <2>2. state[j] # "unborn"
    BY <2>1 DEF IndInv, TargetsAdmitted
  <2>3. \A i \in Jobs : state'[i] = IF i = j THEN "cancelling" ELSE state[i]
    BY <1>0, <2>1 DEF TypeOK, RecordsOK
  <2> HIDE DEF j
  <2>4. /\ \A i \in Jobs : state'[i] = "unborn" <=> state[i] = "unborn"
        /\ \A i \in Jobs : pc[i] = "unlaunched" /\ state'[i] = "cancelled" =>
             OwesNotice(c, i)' \/ (state[i] = "cancelled" /\ ~OwesNotice(c, i))
    BY <2>1, <2>2, <2>3, OwesNothing
  <2>5. \A d \in Callers \ {c} : target'[d] = target[d] /\ doomed'[d] = doomed[d]
    BY <1>0, <2>1, OthersKept
  <2>6. UNCHANGED <<on_status, notified, emission>>
    BY <2>1
  <2> QED BY <1>0, <2>1, <2>4, <2>5, <2>6, CallerKeepsNotices
<1>15. ASSUME NEW c \in Callers, InterruptRequest(c) PROVE Notices'
  BY <1>0, <1>15, CallerKeepsNotices, OwesNothing, OthersKept
     DEF InterruptRequest, Goto, record_vars, history
<1>16. ASSUME NEW c \in Callers, ShutdownNotify(c) PROVE Notices'
  <2> DEFINE h == Head(doomed[c])
  <2>1. /\ pc[c] = "doom" /\ doomed[c] # <<>> /\ doomed[c] \in Seq(Jobs)
        /\ pc' = [pc EXCEPT ![c] = "announce_doomed"]
        /\ target' = [target EXCEPT ![c] = h]
        /\ doomed' = [doomed EXCEPT ![c] = Tail(doomed[c])]
        /\ UNCHANGED <<emission, notified, on_status, state>>
    BY <1>0, <1>16 DEF ShutdownNotify, Take, history, TypeOK, PoolOK
  <2>2. /\ pc'[c] = "announce_doomed" /\ target'[c] = h /\ doomed'[c] = Tail(doomed[c])
        /\ emission[c] = Unset
    BY <1>0, <2>1 DEF TypeOK, ControlOK, PoolOK, Threads, EmitPoints, CallerEmits, WorkerEmits
  <2>3. ASSUME NEW j \in Jobs, OwesNotice(c, j) PROVE OwesNotice(c, j)'
    <3>1. PICK i \in 1..Len(doomed[c]) : doomed[c][i] = j
      BY <2>1, <2>3 DEF OwesNotice
    <3>2. CASE i = 1
      BY <2>1, <2>2, <3>1, <3>2 DEF OwesNotice
    <3>3. CASE i # 1
      <4>1. i - 1 \in 1..Len(Tail(doomed[c])) /\ Tail(doomed[c])[i - 1] = j
        BY <2>1, <3>1, <3>3
      <4> QED BY <2>2, <4>1 DEF OwesNotice
    <3> QED BY <3>2, <3>3
  <2>4. \A d \in Callers \ {c} : target'[d] = target[d] /\ doomed'[d] = doomed[d]
    BY <1>0, <2>1, OthersKept
  <2> HIDE DEF h
  <2> QED BY <1>0, <2>1, <2>3, <2>4, CallerKeepsNotices
<1>17. ASSUME NEW c \in Callers, ShutdownEnd(c) PROVE Notices'
  <2>1. \A j \in Jobs : ~OwesNotice(c, j)
    BY <1>17 DEF ShutdownEnd, OwesNotice
  <2> QED
    BY <1>0, <1>17, <2>1, CallerKeepsNotices, OthersKept
       DEF ShutdownEnd, Goto, record_vars
<1>18. ASSUME NEW j \in Jobs, RunBegin(j) PROVE Notices'
  <2>1. CallbackKept(j)' /\ EndTold(j)'
    BY <1>0, <1>18 DEF RunBegin, Goto, record_vars, history, Notices, CallbackKept, EndTold,
       TypeOK, ControlOK, RecordsOK, Threads, IndInv, JobPhases, ActivePoints, EndedPoints,
       WorkerPoints, WorkerEmits, EmitPoints, Occupying, Terminal
  <2> QED
    BY <1>0, <1>18, <2>1, WorkerKeepsNotices
       DEF RunBegin, Goto, record_vars, history, TypeOK, RecordsOK
<1>19. ASSUME NEW j \in Jobs, JobReturns(j) PROVE Notices'
  <2>1. CallbackKept(j)' /\ EndTold(j)'
    BY <1>0, <1>19 DEF JobReturns, Goto, record_vars, history, Notices, CallbackKept, EndTold,
       TypeOK, ControlOK, RecordsOK, Threads, IndInv, JobPhases, ActivePoints, EndedPoints,
       WorkerPoints, WorkerEmits, EmitPoints, Occupying, Terminal
  <2> QED
    BY <1>0, <1>19, <2>1, WorkerKeepsNotices
       DEF JobReturns, Goto, record_vars, history, TypeOK, RecordsOK
<1>20. ASSUME NEW j \in Jobs, RunFinish(j) PROVE Notices'
  <2>1. CallbackKept(j)' /\ EndTold(j)'
    BY <1>0, <1>20 DEF RunFinish, Goto, record_vars, history, Notices, CallbackKept, EndTold,
       TypeOK, ControlOK, RecordsOK, Threads, IndInv, JobPhases, ActivePoints, EndedPoints,
       WorkerPoints, WorkerEmits, EmitPoints, Occupying, Terminal
  <2> QED
    BY <1>0, <1>20, <2>1, WorkerKeepsNotices
       DEF RunFinish, Goto, record_vars, history, TypeOK, RecordsOK
<1>21. ASSUME NEW j \in Jobs, RunPublish(j) PROVE Notices'
  <2>1. /\ pc[j] = "publish" /\ pc' = [pc EXCEPT ![j] = "announce_end"]
        /\ UNCHANGED <<target, doomed, emission, notified, on_status, state>>
    BY <1>21 DEF RunPublish, Goto, history
  <2>2. pc'[j] = "announce_end" /\ emission[j] = Unset
    BY <1>0, <2>1 DEF TypeOK, ControlOK, Threads, EmitPoints, CallerEmits, WorkerEmits
  <2>3. CallbackKept(j)'
    BY <2>1, <2>2 DEF Notices, CallbackKept
  <2>4. EndTold(j)'
    BY <2>1, <2>2 DEF EndTold
  <2> QED BY <1>0, <2>1, <2>3, <2>4, WorkerKeepsNotices
<1>22. ASSUME NEW j \in Jobs, ClearStatusCallback(j) PROVE Notices'
  <2>1. CallbackKept(j)' /\ EndTold(j)'
    BY <1>0, <1>22 DEF ClearStatusCallback, Goto, record_vars, history, Notices, CallbackKept, EndTold,
       TypeOK, ControlOK, RecordsOK, Threads, IndInv, JobPhases, ActivePoints, EndedPoints,
       WorkerPoints, WorkerEmits, EmitPoints, Occupying, Terminal
  <2> QED
    BY <1>0, <1>22, <2>1, WorkerKeepsNotices
       DEF ClearStatusCallback, Goto, record_vars, history, TypeOK, RecordsOK
<1>23. CASE UNCHANGED vars
  BY <1>23 DEF vars, record_vars, thread_vars, history, Notices, CallbackKept, EndTold,
     WithdrawalTold, OwesNotice
<1> QED
  BY <1>1, <1>2, <1>3, <1>4, <1>5, <1>6, <1>7, <1>8, <1>9, <1>10, <1>11,
     <1>12, <1>13, <1>14, <1>15, <1>16, <1>17, <1>18, <1>19, <1>20, <1>21, <1>22, <1>23
     DEF Next, Call, Proceed, Run, EmitStatus, Dispatch, Threads

\* In every reachable state an observer that has not been told will be.
LEMMA NoticesHold == Spec => []Notices
<1>1. Init => Notices
  BY DEF Init, Notices, CallbackKept, EndTold, WithdrawalTold, Threads
<1>2. IndInv /\ Notices /\ [Next]_vars => Notices'
  BY SchedulerAssumption, NoticesStep
<1> QED BY <1>1, <1>2, IndInvHolds, PTL DEF Spec

\* A scheduler at rest has left nothing undone: the part of EveryJobEnds and
\* ShutdownReturns that needs no fairness.  No admitted job is forgotten in a
\* state from which nothing would move it on.
THEOREM RestIsDone == Spec => []RestsWhenDone
<1>1. IndInv /\ ShutdownPhases /\ Notices /\ NoLostDispatch => RestsWhenDone
  <2> SUFFICES ASSUME IndInv, ShutdownPhases, Notices, NoLostDispatch, AtRest PROVE
                 /\ \A j \in Jobs : state[j] # "unborn" =>
                      state[j] = "queued" \/ (promise[j] # Unset /\ notified[j])
                 /\ launch_failures = 0 => queue = <<>>
                 /\ available_threads = TotalThreads
    BY DEF RestsWhenDone
  <2>1. \A j \in Jobs : state[j] \in {"unborn", "queued"} \cup Terminal
    BY DEF AtRest, IndInv, JobPhases, EndedPoints, ActivePoints, WorkerPoints, WorkerEmits,
       Terminal
  <2>2. \A j \in Jobs, c \in Callers : ~OwesNotice(c, j)
    BY OwesNothing DEF AtRest
  <2>3. ASSUME NEW j \in Jobs, state[j] \in Terminal
        PROVE  promise[j] # Unset /\ notified[j]
    <3>1. promise[j] # Unset
      BY <2>3 DEF AtRest, IndInv, PromisePhases
    <3>2. CASE pc[j] = "done"
      BY <3>1, <3>2 DEF Notices, EndTold
    <3>3. CASE pc[j] = "unlaunched"
      <4>1. state[j] = "cancelled"
        BY <2>3, <3>3 DEF IndInv, JobPhases, Terminal
      <4> QED BY <2>2, <3>1, <3>3, <4>1 DEF Notices, WithdrawalTold
    <3> QED BY <3>2, <3>3 DEF AtRest
  <2>4. Tokens(Reserved) = {}
    BY <2>1 DEF Reserved, Tokens, Occupying, Terminal
  <2>5. Cardinality(Tokens(Reserved)) = 0
    BY <2>4, FS_EmptySet
  <2>6. available_threads = TotalThreads
    BY <2>5 DEF IndInv, ThreadBudget, TypeOK, PoolOK
  <2>7. ASSUME launch_failures = 0, queue # <<>> PROVE FALSE
    <3>1. ~CanLaunch
      BY <2>7 DEF NoLostDispatch, AtRest, Threads
    <3>2. Requested[Head(queue)] <= available_threads
      BY <2>6, <2>7, HeadIsQueued, SchedulerAssumption DEF AllocateThreads
    <3>3. shutting_down
      BY <2>7, <3>1, <3>2 DEF CanLaunch
    <3> QED BY <2>7, <3>3 DEF ShutdownPhases
  <2> QED BY <2>1, <2>3, <2>6, <2>7
<1> QED BY <1>1, IndInvHolds, ShutdownPhasesHolds, NoticesHold, NoWakeUpLost, PTL

-----------------------------------------------------------------------------
(* What a cancellation promises.                                            *)

\* j has been asked to stop and has not succeeded.
NeverSucceeds(j) ==
  cancellation[j] /\ result[j] # "succeeded" /\ state[j] # "succeeded"

\* A job that is asked to stop before its function returned has not succeeded.
LEMMA CancelledInTime ==
  ASSUME IndInv, NEW j \in Jobs, cancellation[j], result[j] = Unset
  PROVE  NeverSucceeds(j)
<1>1. pc[j] \in WorkerPoints
  BY DEF IndInv, TypeOK, ControlOK
<1>2. state[j] # "succeeded"
  BY <1>1 DEF IndInv, JobPhases, EndedPoints, Occupying, Unset
<1> QED BY <1>2 DEF NeverSucceeds, Unset

\* No step lets it succeed.
LEMMA NeverSucceedsStep ==
  ASSUME IndInv, NEW j \in Jobs, NeverSucceeds(j), [Next]_vars
  PROVE  NeverSucceeds(j)'
<1>0. /\ state \in [Jobs -> States] /\ result \in [Jobs -> Terminal \cup {Unset}]
      /\ cancellation \in [Jobs -> BOOLEAN]
  BY DEF IndInv, TypeOK, RecordsOK
<1> USE DEF NeverSucceeds
<1>1. ASSUME NEW t \in Threads, Snapshot(t) \/ Deliver(t) PROVE NeverSucceeds(j)'
  BY <1>1 DEF Snapshot, Deliver, record_vars
<1>2. ASSUME NEW t \in Threads, Dispatch(t) PROVE NeverSucceeds(j)'
  <2>1. cancellation' = cancellation /\ result' = result
    BY <1>2 DEF Dispatch, DispatchEnter, DispatchLaunch, Launch, DispatchExit,
       DispatchThrow, record_vars
  <2>2. state' = state \/ state' = [state EXCEPT ![Head(queue)] = "starting"]
    BY <1>2 DEF Dispatch, DispatchEnter, DispatchLaunch, Launch, DispatchExit,
       DispatchThrow, record_vars
  <2> QED BY <1>0, <2>1, <2>2
<1>3. ASSUME NEW c \in Callers, Call(c) PROVE NeverSucceeds(j)'
  <2>1. ASSUME NEW k \in Jobs, Submit(c, k) PROVE NeverSucceeds(j)'
    BY <1>0, <2>1 DEF Submit
  <2>2. ASSUME NEW k \in Jobs, CancelRequest(c, k) \/ InterruptCheck(c, k) PROVE NeverSucceeds(j)'
    BY <1>0, <2>2 DEF CancelRequest, InterruptCheck, record_vars
  <2>3. CASE ShutdownBegin(c) \/ ShutdownAgain(c)
    BY <1>0, <2>3 DEF ShutdownBegin, ShutdownAgain, Withdraw, record_vars
  <2> QED BY <1>3, <2>1, <2>2, <2>3 DEF Call
<1>4. ASSUME NEW c \in Callers, CancelTooLate(c) \/ InterruptRequest(c) \/ ShutdownEnd(c)
      PROVE  NeverSucceeds(j)'
  BY <1>4 DEF CancelTooLate, InterruptRequest, ShutdownEnd, record_vars
<1>5. ASSUME NEW c \in Callers, CancelQueued(c) \/ CancelActive(c) PROVE NeverSucceeds(j)'
  BY <1>0, <1>5 DEF CancelQueued, CancelActive, Withdraw
<1>6. ASSUME NEW c \in Callers, ShutdownNotify(c) PROVE NeverSucceeds(j)'
  BY <1>0, <1>6 DEF ShutdownNotify
<1>7. ASSUME NEW k \in Jobs, RunBegin(k) PROVE NeverSucceeds(j)'
  BY <1>0, <1>7 DEF RunBegin
<1>8. ASSUME NEW k \in Jobs, JobReturns(k) PROVE NeverSucceeds(j)'
  BY <1>0, <1>8 DEF JobReturns, Settled, record_vars
<1>9. ASSUME NEW k \in Jobs, RunFinish(k) PROVE NeverSucceeds(j)'
  BY <1>0, <1>9 DEF RunFinish
<1>10. ASSUME NEW k \in Jobs, RunPublish(k) \/ ClearStatusCallback(k) PROVE NeverSucceeds(j)'
  BY <1>10 DEF RunPublish, ClearStatusCallback
<1>11. CASE UNCHANGED vars
  BY <1>11 DEF vars, record_vars, thread_vars
<1> HIDE DEF NeverSucceeds
<1> QED
  BY <1>1, <1>2, <1>3, <1>4, <1>5, <1>6, <1>7, <1>8, <1>9, <1>10, <1>11
     DEF Next, Proceed, Run, EmitStatus, Threads

\* A job whose cancellation was requested before its function returned is never
\* reported as succeeded.
THEOREM CancellationWins == Spec => CancelPreventsSuccess
<1>1. ASSUME NEW j \in Jobs
      PROVE  Spec => [](cancellation[j] /\ result[j] = Unset => [](state[j] # "succeeded"))
  <2>1. IndInv /\ cancellation[j] /\ result[j] = Unset => NeverSucceeds(j)
    BY CancelledInTime
  <2>2. IndInv /\ NeverSucceeds(j) /\ [Next]_vars => NeverSucceeds(j)'
    BY NeverSucceedsStep
  <2>3. NeverSucceeds(j) => state[j] # "succeeded"
    BY DEF NeverSucceeds
  <2> QED BY <2>1, <2>2, <2>3, IndInvHolds, PTL DEF Spec
<1> QED BY <1>1 DEF CancelPreventsSuccess

-----------------------------------------------------------------------------
(* The scheduler implements the admission queue.                           *)

\* A step of the admission queue, or none.
AdmissionStep == [Admission!Next]_(Admission!admission)

\* Every step of the scheduler is a step of the queue or a stutter.
LEMMA RefinesStep ==
  ASSUME SchedulerAssumption, IndInv, IndInv', [Next]_vars
  PROVE  AdmissionStep
<1>0. TypeOK /\ TypeOK'
  BY DEF IndInv
<1>1. ASSUME NEW t \in Threads, Snapshot(t) PROVE AdmissionStep
  BY <1>0, <1>1 DEF Snapshot, AdmissionStep, Admission!admission, Reserved, Outcome,
     record_vars, pool_vars
<1>2. ASSUME NEW t \in Threads, Deliver(t) PROVE AdmissionStep
  BY <1>0, <1>2 DEF Deliver, AdmissionStep, Admission!admission, Reserved, Outcome,
     record_vars, pool_vars
<1>3. ASSUME NEW t \in Threads, DispatchEnter(t) PROVE AdmissionStep
  BY <1>0, <1>3 DEF DispatchEnter, AdmissionStep, Admission!admission, Reserved, Outcome,
     record_vars, pool_vars
<1>4. ASSUME NEW t \in Threads, DispatchLaunch(t) PROVE AdmissionStep
  <2> DEFINE h == Head(queue)
  <2>1. /\ ~shutting_down /\ UNCHANGED shutting_down
        /\ queue # <<>> /\ queue' = Tail(queue) /\ Requested[h] <= available_threads
        /\ state' = [state EXCEPT ![h] = "starting"]
    BY <1>4 DEF DispatchLaunch, CanLaunch, Launch
  <2>2. h \in Jobs /\ state[h] = "queued"
    BY <2>1, HeadIsQueued
  <2>3. Reserved' = Reserved \cup {h} /\ UNCHANGED Outcome
    BY <1>0, <2>1, <2>2 DEF Reserved, Outcome, Occupying, IsTerminal, Terminal, TypeOK, ControlOK, RecordsOK
  <2>4. Weight(Reserved) + Requested[h] <= TotalThreads
    <3>1. Weight(Reserved) = Cardinality(Tokens(Reserved))
      BY DEF Weight
    <3>2. available_threads + Cardinality(Tokens(Reserved)) = TotalThreads
          /\ available_threads \in Int
      BY <1>0 DEF IndInv, ThreadBudget, TypeOK, PoolOK
    <3>3. Cardinality(Tokens(Reserved)) \in Nat
      BY TokensFinite DEF Reserved
    <3>4. Requested[h] \in Int /\ TotalThreads \in Int
      BY <2>2 DEF SchedulerAssumption
    <3> QED BY <3>1, <3>2, <3>3, <3>4, <2>1
  <2>5. Admission!Start
    BY <2>1, <2>3, <2>4 DEF Admission!Start
  <2> QED BY <2>5 DEF AdmissionStep, Admission!Next
<1>5. ASSUME NEW t \in Threads, DispatchExit(t) PROVE AdmissionStep
  BY <1>0, <1>5 DEF DispatchExit, AdmissionStep, Admission!admission, Reserved, Outcome,
     record_vars, pool_vars
<1>6. ASSUME NEW t \in Threads, DispatchThrow(t) PROVE AdmissionStep
  BY <1>0, <1>6 DEF DispatchThrow, AdmissionStep, Admission!admission, Reserved, Outcome,
     record_vars, pool_vars
<1>7. ASSUME NEW c \in Callers, NEW j \in Jobs, Submit(c, j) PROVE AdmissionStep
  <2>1. /\ ~shutting_down /\ UNCHANGED shutting_down
        /\ Len(queue) < MaxQueueSize /\ Requested[j] \in 1..TotalThreads
        /\ queue' = Append(queue, j)
        /\ state[j] = "unborn" /\ state' = [state EXCEPT ![j] = "queued"]
    BY <1>7 DEF Submit, AllocateThreads
  <2>2. j \notin Queued \cup Reserved
    BY <2>1 DEF IndInv, QueueHoldsQueued, Reserved, Occupying
  <2>3. Outcome[j] = Unset
    BY <2>1 DEF Outcome, IsTerminal, Terminal
  <2>4. UNCHANGED <<Reserved, Outcome>>
    BY <1>0, <2>1 DEF Reserved, Outcome, Occupying, IsTerminal, Terminal, TypeOK, ControlOK, RecordsOK
  <2>5. Admission!Admit(j)
    BY <2>1, <2>2, <2>3, <2>4
       DEF Admission!Admit, Admission!Waiting, Admission!Unset, Queued, Unset
  <2> QED BY <2>5 DEF AdmissionStep, Admission!Next
<1>8. ASSUME NEW c \in Callers, NEW j \in Jobs, CancelRequest(c, j) PROVE AdmissionStep
  BY <1>0, <1>8 DEF CancelRequest, AdmissionStep, Admission!admission, Reserved, Outcome,
     record_vars, pool_vars
<1>9. ASSUME NEW c \in Callers, NEW j \in Jobs, InterruptCheck(c, j) PROVE AdmissionStep
  BY <1>0, <1>9 DEF InterruptCheck, AdmissionStep, Admission!admission, Reserved, Outcome,
     record_vars, pool_vars
<1>10. ASSUME NEW c \in Callers, ShutdownBegin(c) PROVE AdmissionStep
  <2>1. ~shutting_down /\ shutting_down' /\ queue' = <<>> /\ Withdraw(Queued)
    BY <1>10 DEF ShutdownBegin
  <2>2. \A j \in Queued : state[j] = "queued"
    BY DEF IndInv, QueueHoldsQueued
  <2>3. UNCHANGED Reserved
        /\ Outcome' = [j \in Jobs |-> IF j \in Queued THEN "cancelled" ELSE Outcome[j]]
    BY <2>1, <2>2 DEF Withdraw, Outcome, Reserved, Occupying, IsTerminal, Terminal
  <2>4. shutting_down' = TRUE
    BY <1>10 DEF ShutdownBegin
  <2>5. Admission!Close
    BY <2>1, <2>3, <2>4 DEF Admission!Close, Admission!Waiting, Queued
  <2> QED BY <2>5 DEF AdmissionStep, Admission!Next
<1>11. ASSUME NEW c \in Callers, ShutdownAgain(c) PROVE AdmissionStep
  BY <1>0, <1>11 DEF ShutdownAgain, AdmissionStep, Admission!admission, Reserved, Outcome,
     record_vars, pool_vars
<1>12. ASSUME NEW c \in Callers, CancelTooLate(c) PROVE AdmissionStep
  BY <1>0, <1>12 DEF CancelTooLate, AdmissionStep, Admission!admission, Reserved, Outcome,
     record_vars, pool_vars
<1>13. ASSUME NEW c \in Callers, CancelQueued(c) PROVE AdmissionStep
  <2> DEFINE j == target[c]
  <2>1. j \in Jobs /\ state[j] = "queued"
    BY <1>0, <1>13 DEF CancelQueued, TypeOK, ControlOK, RecordsOK
  <2>2. queue' = Without(queue, j) /\ Withdraw({j}) /\ UNCHANGED shutting_down
    BY <1>13 DEF CancelQueued
  <2> HIDE DEF j
  <2>3. \E i \in 1..Len(queue) : queue[i] = j
    BY <2>1 DEF IndInv, QueueHoldsQueued, Queued
  <2>4. \E i \in 1..Len(queue) :
          /\ queue[i] = j
          /\ queue' = SubSeq(queue, 1, i - 1) \o SubSeq(queue, i + 1, Len(queue))
    BY <2>2, <2>3 DEF Without
  <2>5. Outcome' = [Outcome EXCEPT ![j] = "cancelled"] /\ UNCHANGED Reserved
    BY <2>1, <2>2 DEF Withdraw, Outcome, Reserved, Occupying, IsTerminal, Terminal
  <2>6. Admission!Withdraw(j)
    BY <2>2, <2>4, <2>5 DEF Admission!Withdraw
  <2> QED BY <2>1, <2>6 DEF AdmissionStep, Admission!Next
<1>14. ASSUME NEW c \in Callers, CancelActive(c) PROVE AdmissionStep
  <2>1. \A k \in Jobs : /\ state'[k] \in Occupying <=> state[k] \in Occupying
                        /\ IsTerminal(state[k]) \/ IsTerminal(state'[k])
                             => state'[k] = state[k]
    BY <1>0, <1>14 DEF CancelActive, Occupying, IsTerminal, Terminal, TypeOK, ControlOK, RecordsOK, States, IndInv, TargetsAdmitted
  <2>2. UNCHANGED <<queue, shutting_down, Reserved, Outcome>>
    <3>1. UNCHANGED <<queue, shutting_down>>
      BY <1>14 DEF CancelActive, pool_vars
    <3>2. Reserved' = Reserved
      BY <2>1 DEF Reserved
    <3>3. \A k \in Jobs : Outcome'[k] = Outcome[k]
      BY <2>1 DEF Outcome
    <3>4. Outcome' = Outcome
      BY <3>3 DEF Outcome
    <3> QED BY <3>1, <3>2, <3>4
  <2> QED BY <2>2 DEF AdmissionStep, Admission!admission
<1>15. ASSUME NEW c \in Callers, InterruptRequest(c) PROVE AdmissionStep
  BY <1>0, <1>15 DEF InterruptRequest, AdmissionStep, Admission!admission, Reserved, Outcome,
     record_vars, pool_vars
<1>16. ASSUME NEW c \in Callers, ShutdownNotify(c) PROVE AdmissionStep
  BY <1>0, <1>16 DEF ShutdownNotify, AdmissionStep, Admission!admission, Reserved, Outcome,
     record_vars, pool_vars
<1>17. ASSUME NEW c \in Callers, ShutdownEnd(c) PROVE AdmissionStep
  BY <1>0, <1>17 DEF ShutdownEnd, AdmissionStep, Admission!admission, Reserved, Outcome,
     record_vars, pool_vars
<1>18. ASSUME NEW j \in Jobs, RunBegin(j) PROVE AdmissionStep
  <2>1. \A k \in Jobs : /\ state'[k] \in Occupying <=> state[k] \in Occupying
                        /\ IsTerminal(state[k]) \/ IsTerminal(state'[k])
                             => state'[k] = state[k]
    BY <1>0, <1>18 DEF RunBegin, Occupying, IsTerminal, Terminal, TypeOK, ControlOK, RecordsOK, IndInv, JobPhases, ActivePoints
  <2>2. UNCHANGED <<queue, shutting_down, Reserved, Outcome>>
    <3>1. UNCHANGED <<queue, shutting_down>>
      BY <1>18 DEF RunBegin, pool_vars
    <3>2. Reserved' = Reserved
      BY <2>1 DEF Reserved
    <3>3. \A k \in Jobs : Outcome'[k] = Outcome[k]
      BY <2>1 DEF Outcome
    <3>4. Outcome' = Outcome
      BY <3>3 DEF Outcome
    <3> QED BY <3>1, <3>2, <3>4
  <2> QED BY <2>2 DEF AdmissionStep, Admission!admission
<1>19. ASSUME NEW j \in Jobs, JobReturns(j) PROVE AdmissionStep
  BY <1>0, <1>19 DEF JobReturns, AdmissionStep, Admission!admission, Reserved, Outcome,
     record_vars, pool_vars
<1>20. ASSUME NEW j \in Jobs, RunFinish(j) PROVE AdmissionStep
  <2>1. /\ state' = [state EXCEPT ![j] = result[j]] /\ pc[j] = "finish"
        /\ UNCHANGED <<queue, shutting_down>>
    BY <1>20 DEF RunFinish
  <2>2. state[j] \in Occupying /\ result[j] \in Terminal
    BY <2>1 DEF IndInv, JobPhases, ActivePoints
  <2>3. Reserved' = Reserved \ {j} /\ j \in Reserved
    BY <1>0, <2>1, <2>2 DEF Reserved, Occupying, Terminal, TypeOK, ControlOK, RecordsOK
  <2>4. Outcome' = [Outcome EXCEPT ![j] = result[j]]
    BY <1>0, <2>1, <2>2 DEF Outcome, IsTerminal, TypeOK, ControlOK, RecordsOK
  <2>5. Admission!Finish(j)
    BY <2>1, <2>2, <2>3, <2>4 DEF Admission!Finish, Admission!Outcomes, Terminal
  <2> QED BY <2>5 DEF AdmissionStep, Admission!Next
<1>21. ASSUME NEW j \in Jobs, RunPublish(j) PROVE AdmissionStep
  BY <1>0, <1>21 DEF RunPublish, AdmissionStep, Admission!admission, Reserved, Outcome,
     record_vars, pool_vars
<1>22. ASSUME NEW j \in Jobs, ClearStatusCallback(j) PROVE AdmissionStep
  BY <1>0, <1>22 DEF ClearStatusCallback, AdmissionStep, Admission!admission, Reserved, Outcome,
     record_vars, pool_vars
<1>23. CASE UNCHANGED vars
  BY <1>23 DEF AdmissionStep, Admission!admission, Reserved, Outcome,
     record_vars, pool_vars, vars, thread_vars
<1> QED
  BY <1>1, <1>2, <1>3, <1>4, <1>5, <1>6, <1>7, <1>8, <1>9, <1>10, <1>11,
     <1>12, <1>13, <1>14, <1>15, <1>16, <1>17, <1>18, <1>19, <1>20, <1>21, <1>22, <1>23
     DEF Next, Call, Proceed, Run, EmitStatus, Dispatch, Threads

\* The scheduler starts as an empty queue.
LEMMA RefinesInit == Init => Admission!Init
BY DEF Init, Admission!Init, Reserved, Outcome, Occupying, IsTerminal, Terminal,
   Unset, Admission!Unset

\* Safety of the implementation: strict FIFO admission under the budget, and one
\* outcome per job.
THEOREM SchedulerImplementsAdmission == Spec => ImplementsAdmission
<1>1. IndInv /\ IndInv' /\ [Next]_vars => AdmissionStep
  BY SchedulerAssumption, RefinesStep
<1> QED
  BY <1>1, RefinesInit, IndInvHolds, PTL
     DEF Spec, ImplementsAdmission, Admission!Spec, AdmissionStep

=============================================================================
