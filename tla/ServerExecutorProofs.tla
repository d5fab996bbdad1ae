------------------------ MODULE ServerExecutorProofs ------------------------
(***************************************************************************)
(* Proofs about ServerExecutor, for histories of any length.               *)
(***************************************************************************)
EXTENDS ServerExecutor, TLAPS

-----------------------------------------------------------------------------
(* The inductive invariant.                                                 *)

\* What run() has handled when it waits, and that a terminal response ends it.
Progress ==
  /\ pc = "submit" => cursor = 0 /\ delivered = <<>>
  /\ ~abandoned /\ terminal = "none" => Len(delivered) = cursor
  /\ terminal # "none" => pc \in {"release", "done"} /\ ~timer
  /\ pc = "release" => terminal # "none"

\* The promise is settled when the operation is over or abandoned, and by nothing else.
SettledExactlyOnce ==
  /\ outcome # "pending" <=> abandoned \/ Finished
  /\ outcome \in {"result", "failure"} => Finished
  /\ ~Finished => ~disposed

\* Who cancels before the job is known takes the submission with him.
AbortsUnknown == cancelled /\ ~Settled /\ ~abandoned => aborted

IndInv ==
  /\ TypeOK
  /\ Progress
  /\ SettledExactlyOnce
  /\ AbortsUnknown
  /\ EventsInOrder
  /\ LateJobsAreStopped
  /\ ResultHasOneOwner
  /\ StoppedHasDeadline

-----------------------------------------------------------------------------
(* The types of the client, in three parts.                                 *)

Words ==
  /\ mode \in Modes
  /\ submission \in {"sent", "ok", "refused", "known", "failed"}
  /\ pc \in {"submit", "stream", "streaming", "events", "batch", "reply", "result",
             "release", "done"}
  /\ answer \in {"none", "ok", "missing", "expired", "conflict", "refused", "empty",
                 "lost", "closed"}
  /\ terminal \in {"none", "result", "failure"}
  /\ controls \subseteq {"cancel", "interrupt"}
  /\ outcome \in {"pending", "result", "failure", "error", "cancelled", "timeout"}

Counters ==
  /\ cursor \in Nat /\ received \in Nat
  /\ delivered \in Seq(Nat)

Flags ==
  /\ again \in BOOLEAN
  /\ cancelled \in BOOLEAN /\ interrupted \in BOOLEAN /\ abandoned \in BOOLEAN
  /\ aborted \in BOOLEAN /\ timer \in BOOLEAN /\ disposed \in BOOLEAN
  /\ stopping \in BOOLEAN /\ late \in BOOLEAN

-----------------------------------------------------------------------------
(* Each step preserves each part.                                           *)

LEMMA StepWords ==
  ASSUME Words, Progress, [Next]_vars
  PROVE  Words'
<1> USE DEF vars, service_vars, read_vars, stop_vars
<1>0. SUFFICES ASSUME Next PROVE Words'
  BY DEF Words
<1>1. ASSUME NEW abort \in BOOLEAN, Stop(abort) PROVE Words'
  BY <1>1 DEF Stop, StopRequest, SendStop, Arms, Fail, Settle, Settled, Finished,
     Native, Creates, Words
<1>2. ASSUME Deadline PROVE Words'
  BY <1>2 DEF Deadline, Settle, Creates, Words
<1>3. ASSUME Server PROVE Words'
  BY <1>3 DEF Server, Words
<1>4. ASSUME HandleControl PROVE Words'
  BY <1>4 DEF HandleControl, Words
<1>5. ASSUME HandleSubmit PROVE Words'
  BY <1>5 DEF HandleSubmit, Words
<1>6. ASSUME LoseSubmission PROVE Words'
  BY <1>6 DEF LoseSubmission, Words
<1>7. ASSUME HandleRequest PROVE Words'
  BY <1>7 DEF HandleRequest, StreamAnswers, EventsAnswer, ResultAnswer,
     CallbackAnswer, Words
<1>8. ASSUME LoseRequest PROVE Words'
  BY <1>8 DEF LoseRequest, Words
<1>9. ASSUME StreamSends PROVE Words'
  BY <1>9 DEF StreamSends, Words
<1>10. ASSUME StreamBreaks PROVE Words'
  BY <1>10 DEF StreamBreaks, Words
<1>11. ASSUME Refused PROVE Words'
  BY <1>11 DEF Refused, Fail, Settle, Words
<1>12. ASSUME Accepted PROVE Words'
  BY <1>12 DEF Accepted, StopsLate, SendStop, StopRequest, Delivers, Native, Words
<1>13. ASSUME StreamAnswered PROVE Words'
  BY <1>13 DEF StreamAnswered, Goto, Words
<1>14. ASSUME StreamEnds PROVE Words'
  BY <1>14 DEF StreamEnds, Goto, ResumeAt, Words
<1>15. ASSUME EventsAnswered PROVE Words'
  BY <1>15 DEF EventsAnswered, Words
<1>16. ASSUME BatchEnds PROVE Words'
  BY <1>16 DEF BatchEnds, Goto, Words
<1>17. ASSUME RequestFails PROVE Words'
  BY <1>17 DEF RequestFails, Fail, Settle, Words
<1>18. ASSUME Observe PROVE Words'
  BY <1>18 DEF Observe, Delivers, Words
<1>19. ASSUME Invoke PROVE Words'
  BY <1>19 DEF Invoke, Delivers, Goto, Words
<1>20. ASSUME Replied PROVE Words'
  BY <1>20 DEF Replied, Words
<1>21. ASSUME Conclude PROVE Words'
  BY <1>21 DEF Conclude, ClearsTimer, Words
<1>22. ASSUME EmptyResult PROVE Words'
  BY <1>22 DEF EmptyResult, Goto, Words
<1>23. ASSUME Released PROVE Words'
  BY <1>23 DEF Released, Settle, Words, Progress
<1> QED
  BY <1>0, <1>1, <1>2, <1>3, <1>4, <1>5, <1>6, <1>7, <1>8, <1>9, <1>10, <1>11,
     <1>12, <1>13, <1>14, <1>15, <1>16, <1>17, <1>18, <1>19, <1>20, <1>21, <1>22,
     <1>23 DEF Next, Network, Client

LEMMA StepCounters ==
  ASSUME ServiceTypeOK, Counters, [Next]_vars
  PROVE  Counters'
<1> USE DEF vars, service_vars, read_vars, stop_vars
<1>0. SUFFICES ASSUME Next PROVE Counters'
  BY DEF ServiceTypeOK, Counters
<1>1. ASSUME NEW abort \in BOOLEAN, Stop(abort) PROVE Counters'
  BY <1>1 DEF Stop, StopRequest, SendStop, Arms, Fail, Settle, Settled, Finished,
     Native, Creates, ServiceTypeOK, Counters
<1>2. ASSUME Deadline PROVE Counters'
  BY <1>2 DEF Deadline, Settle, Creates, ServiceTypeOK, Counters
<1>3. ASSUME Server PROVE Counters'
  BY <1>3 DEF Server, ServiceTypeOK, Counters
<1>4. ASSUME HandleControl PROVE Counters'
  BY <1>4 DEF HandleControl, ServiceTypeOK, Counters
<1>5. ASSUME HandleSubmit PROVE Counters'
  BY <1>5 DEF HandleSubmit, ServiceTypeOK, Counters
<1>6. ASSUME LoseSubmission PROVE Counters'
  BY <1>6 DEF LoseSubmission, ServiceTypeOK, Counters
<1>7. ASSUME HandleRequest PROVE Counters'
  BY <1>7 DEF HandleRequest, StreamAnswers, EventsAnswer, ResultAnswer,
     CallbackAnswer, ServiceTypeOK, Counters
<1>8. ASSUME LoseRequest PROVE Counters'
  BY <1>8 DEF LoseRequest, ServiceTypeOK, Counters
<1>9. ASSUME StreamSends PROVE Counters'
  BY <1>9 DEF StreamSends, ServiceTypeOK, Counters
<1>10. ASSUME StreamBreaks PROVE Counters'
  BY <1>10 DEF StreamBreaks, ServiceTypeOK, Counters
<1>11. ASSUME Refused PROVE Counters'
  BY <1>11 DEF Refused, Fail, Settle, ServiceTypeOK, Counters
<1>12. ASSUME Accepted PROVE Counters'
  <2>1. cursor' \in Nat /\ received' \in Nat
    BY <1>12 DEF Accepted, Counters
  <2>2. delivered' = delivered \/ delivered' = Append(delivered, 1)
    BY <1>12 DEF Accepted, Delivers
  <2>3. delivered' \in Seq(Nat)
    BY <2>2 DEF Counters
  <2> QED
    BY <2>1, <2>3 DEF Counters
<1>13. ASSUME StreamAnswered PROVE Counters'
  BY <1>13 DEF StreamAnswered, Goto, ServiceTypeOK, Counters
<1>14. ASSUME StreamEnds PROVE Counters'
  BY <1>14 DEF StreamEnds, Goto, ResumeAt, ServiceTypeOK, Counters
<1>15. ASSUME EventsAnswered PROVE Counters'
  BY <1>15 DEF EventsAnswered, ServiceTypeOK, Counters
<1>16. ASSUME BatchEnds PROVE Counters'
  BY <1>16 DEF BatchEnds, Goto, ServiceTypeOK, Counters
<1>17. ASSUME RequestFails PROVE Counters'
  BY <1>17 DEF RequestFails, Fail, Settle, ServiceTypeOK, Counters
<1>18. ASSUME Observe PROVE Counters'
  BY <1>18 DEF Observe, Delivers, ServiceTypeOK, Counters
<1>19. ASSUME Invoke PROVE Counters'
  BY <1>19 DEF Invoke, Delivers, Goto, ServiceTypeOK, Counters
<1>20. ASSUME Replied PROVE Counters'
  BY <1>20 DEF Replied, ServiceTypeOK, Counters
<1>21. ASSUME Conclude PROVE Counters'
  BY <1>21 DEF Conclude, ClearsTimer, ServiceTypeOK, Counters
<1>22. ASSUME EmptyResult PROVE Counters'
  BY <1>22 DEF EmptyResult, Goto, ServiceTypeOK, Counters
<1>23. ASSUME Released PROVE Counters'
  BY <1>23 DEF Released, Settle, ServiceTypeOK, Counters
<1> QED
  BY <1>0, <1>1, <1>2, <1>3, <1>4, <1>5, <1>6, <1>7, <1>8, <1>9, <1>10, <1>11,
     <1>12, <1>13, <1>14, <1>15, <1>16, <1>17, <1>18, <1>19, <1>20, <1>21, <1>22,
     <1>23 DEF Next, Network, Client

LEMMA StepFlags ==
  ASSUME Flags, [Next]_vars
  PROVE  Flags'
<1> USE DEF vars, service_vars, read_vars, stop_vars
<1>0. SUFFICES ASSUME Next PROVE Flags'
  BY DEF Flags
<1>1. ASSUME NEW abort \in BOOLEAN, Stop(abort) PROVE Flags'
  BY <1>1 DEF Stop, StopRequest, SendStop, Arms, Fail, Settle, Settled, Finished,
     Native, Creates, Flags
<1>2. ASSUME Deadline PROVE Flags'
  BY <1>2 DEF Deadline, Settle, Creates, Flags
<1>3. ASSUME Server PROVE Flags'
  BY <1>3 DEF Server, Flags
<1>4. ASSUME HandleControl PROVE Flags'
  BY <1>4 DEF HandleControl, Flags
<1>5. ASSUME HandleSubmit PROVE Flags'
  BY <1>5 DEF HandleSubmit, Flags
<1>6. ASSUME LoseSubmission PROVE Flags'
  BY <1>6 DEF LoseSubmission, Flags
<1>7. ASSUME HandleRequest PROVE Flags'
  BY <1>7 DEF HandleRequest, StreamAnswers, EventsAnswer, ResultAnswer,
     CallbackAnswer, Flags
<1>8. ASSUME LoseRequest PROVE Flags'
  BY <1>8 DEF LoseRequest, Flags
<1>9. ASSUME StreamSends PROVE Flags'
  BY <1>9 DEF StreamSends, Flags
<1>10. ASSUME StreamBreaks PROVE Flags'
  BY <1>10 DEF StreamBreaks, Flags
<1>11. ASSUME Refused PROVE Flags'
  BY <1>11 DEF Refused, Fail, Settle, Flags
<1>12. ASSUME Accepted PROVE Flags'
  BY <1>12 DEF Accepted, StopsLate, SendStop, StopRequest, Delivers, Native, Flags
<1>13. ASSUME StreamAnswered PROVE Flags'
  BY <1>13 DEF StreamAnswered, Goto, Flags
<1>14. ASSUME StreamEnds PROVE Flags'
  BY <1>14 DEF StreamEnds, Goto, ResumeAt, Flags
<1>15. ASSUME EventsAnswered PROVE Flags'
  BY <1>15 DEF EventsAnswered, Flags
<1>16. ASSUME BatchEnds PROVE Flags'
  BY <1>16 DEF BatchEnds, Goto, Flags
<1>17. ASSUME RequestFails PROVE Flags'
  BY <1>17 DEF RequestFails, Fail, Settle, Flags
<1>18. ASSUME Observe PROVE Flags'
  BY <1>18 DEF Observe, Delivers, Flags
<1>19. ASSUME Invoke PROVE Flags'
  BY <1>19 DEF Invoke, Delivers, Goto, Flags
<1>20. ASSUME Replied PROVE Flags'
  BY <1>20 DEF Replied, Flags
<1>21. ASSUME Conclude PROVE Flags'
  BY <1>21 DEF Conclude, ClearsTimer, Flags
<1>22. ASSUME EmptyResult PROVE Flags'
  BY <1>22 DEF EmptyResult, Goto, Flags
<1>23. ASSUME Released PROVE Flags'
  BY <1>23 DEF Released, Settle, Flags
<1> QED
  BY <1>0, <1>1, <1>2, <1>3, <1>4, <1>5, <1>6, <1>7, <1>8, <1>9, <1>10, <1>11,
     <1>12, <1>13, <1>14, <1>15, <1>16, <1>17, <1>18, <1>19, <1>20, <1>21, <1>22,
     <1>23 DEF Next, Network, Client

LEMMA StepClientType ==
  ASSUME ServiceTypeOK, ClientTypeOK, Progress, [Next]_vars
  PROVE  ClientTypeOK'
<1>1. Words /\ Counters /\ Flags
  BY DEF ClientTypeOK, Words, Counters, Flags
<1>2. Words' /\ Counters' /\ Flags'
  BY <1>1, StepWords, StepCounters, StepFlags
<1> QED
  BY <1>2 DEF ClientTypeOK, Words, Counters, Flags

LEMMA RetainTypes ==
  ASSUME ServiceTypeOK, NEW kind \in Kinds, Retain(kind) \/ Discard(kind)
  PROVE  history' \in Seq(Kinds) /\ floor' \in Nat
<1>1. history' = Append(history, kind) /\ history \in Seq(Kinds)
  BY DEF Retain, Discard, ServiceTypeOK
<1>2. Len(history) \in Nat /\ Len(history') \in Nat
  BY <1>1
<1>3. floor' \in floor..Len(history) \/ floor' = Len(history')
  BY DEF Retain, Discard
<1> QED
  BY <1>1, <1>2, <1>3 DEF ServiceTypeOK

\* The threads of the job and the handlers keep the types of the service.
LEMMA StepService ==
  ASSUME ServiceTypeOK, Service \/ Ask
  PROVE  ServiceTypeOK'
<1> USE DEF States, Terminal, Signals
<1>1. "status" \in Kinds /\ "event" \in Kinds /\ "callback" \in Kinds /\ "ended" \in Kinds
      /\ "final" \in Kinds
  BY DEF Kinds
<1>2. ASSUME Start PROVE ServiceTypeOK'
  BY <1>1, <1>2, RetainTypes DEF Start, ServiceTypeOK
<1>3. ASSUME Report PROVE ServiceTypeOK'
  BY <1>1, <1>3, RetainTypes DEF Report, ServiceTypeOK
<1>4. ASSUME Ask PROVE ServiceTypeOK'
  <2>1. history' \in Seq(Kinds) /\ floor' \in Nat
    BY <1>1, <1>4, RetainTypes DEF Ask
  <2>2. pending' \in Nat
    BY <2>1, <1>4 DEF Ask
  <2> QED
    BY <1>4, <2>1, <2>2 DEF Ask, ServiceTypeOK
<1>5. ASSUME GiveUp PROVE ServiceTypeOK'
  BY <1>5 DEF GiveUp, ServiceTypeOK
<1>6. ASSUME Finish PROVE ServiceTypeOK'
  BY <1>6 DEF Finish, ServiceTypeOK
<1>7. ASSUME Announce PROVE ServiceTypeOK'
  BY <1>1, <1>7, RetainTypes DEF Announce, ServiceTypeOK
<1>8. ASSUME Close PROVE ServiceTypeOK'
  <2>1. history' \in Seq(Kinds) /\ floor' \in Nat
    BY <1>1, <1>8, RetainTypes DEF Close, ServiceTypeOK
  <2> QED
    BY <1>8, <2>1 DEF Close, ServiceTypeOK
<1>9. ASSUME Expire PROVE ServiceTypeOK'
  BY <1>9 DEF Expire, ServiceTypeOK
<1> QED
  BY <1>2, <1>3, <1>4, <1>5, <1>6, <1>7, <1>8, <1>9 DEF Service

LEMMA StepServiceType ==
  ASSUME ServiceTypeOK, ClientTypeOK, [Next]_vars
  PROVE  ServiceTypeOK'
<1> USE DEF States, Terminal, Signals
<1>1. ASSUME UNCHANGED service_vars PROVE ServiceTypeOK'
  BY <1>1 DEF service_vars, ServiceTypeOK
<1>2. ASSUME Server PROVE ServiceTypeOK'
  BY <1>2, StepService DEF Server, Asks
<1>3. ASSUME Cancel PROVE ServiceTypeOK'
  <2>1. CASE listed /\ state = "queued"
    BY <1>3, <2>1 DEF Cancel, ServiceTypeOK
  <2>2. CASE listed /\ state = "running"
    <3>1. Retain("status") /\ "status" \in Kinds
      BY <1>3, <2>2 DEF Cancel, Kinds
    <3>2. history' \in Seq(Kinds) /\ floor' \in Nat
      BY <3>1, RetainTypes
    <3> QED
      BY <1>3, <2>2, <3>2 DEF Cancel, ServiceTypeOK
  <2>3. CASE ~(listed /\ state = "queued") /\ ~(listed /\ state = "running")
    BY <1>3, <2>3 DEF Cancel, ServiceTypeOK
  <2> QED
    BY <2>1, <2>2, <2>3
<1>4. ASSUME Interrupt PROVE ServiceTypeOK'
  BY <1>4 DEF Interrupt, ServiceTypeOK
<1>5. ASSUME HandleControl PROVE ServiceTypeOK'
  BY <1>3, <1>4, <1>5 DEF HandleControl
<1>6. ASSUME HandleSubmit PROVE ServiceTypeOK'
  <2>1. <<"status">> \in Seq(Kinds)
    BY DEF Kinds
  <2> QED
    BY <1>6, <2>1 DEF HandleSubmit, Submit, ServiceTypeOK
<1>7. ASSUME NEW id, Callback(id) PROVE ServiceTypeOK'
  BY <1>7 DEF Callback, ServiceTypeOK
<1>8. ASSUME Release PROVE ServiceTypeOK'
  BY <1>8 DEF Release, ServiceTypeOK
<1>9. ASSUME HandleRequest PROVE ServiceTypeOK'
  BY <1>1, <1>7, <1>8, <1>9 DEF HandleRequest
<1>10. ASSUME Client \/ Deadline \/ LoseSubmission \/ LoseRequest \/ StreamSends \/ StreamBreaks
       PROVE  UNCHANGED service_vars
  BY <1>10 DEF Client, Deadline, LoseSubmission, LoseRequest, StreamSends,
     StreamBreaks,
     Refused, Accepted, StreamAnswered, StreamEnds, EventsAnswered, BatchEnds,
     RequestFails, Observe, Invoke, Replied, Conclude, EmptyResult, Released, Goto
<1>11. ASSUME NEW abort \in BOOLEAN, Stop(abort) PROVE UNCHANGED service_vars
  BY <1>11 DEF Stop
<1>12. ASSUME UNCHANGED vars PROVE UNCHANGED service_vars
  BY <1>12 DEF vars
<1> QED
  BY <1>1, <1>2, <1>5, <1>6, <1>9, <1>10, <1>11, <1>12 DEF Next, Network

LEMMA StepProgress ==
  ASSUME ClientTypeOK, Progress, [Next]_vars
  PROVE  Progress'
<1> USE DEF vars, service_vars, read_vars, stop_vars
<1>0. SUFFICES ASSUME Next PROVE Progress'
  BY DEF ClientTypeOK, Progress
<1>1. ASSUME NEW abort \in BOOLEAN, Stop(abort) PROVE Progress'
  BY <1>1 DEF Stop, StopRequest, SendStop, Arms, Fail, Settle, Settled, Finished,
     Native, Creates, ClientTypeOK, Progress
<1>2. ASSUME Deadline PROVE Progress'
  BY <1>2 DEF Deadline, Settle, Creates, ClientTypeOK, Progress
<1>3. ASSUME Server PROVE Progress'
  BY <1>3 DEF Server, ClientTypeOK, Progress
<1>4. ASSUME HandleControl PROVE Progress'
  BY <1>4 DEF HandleControl, ClientTypeOK, Progress
<1>5. ASSUME HandleSubmit PROVE Progress'
  BY <1>5 DEF HandleSubmit, ClientTypeOK, Progress
<1>6. ASSUME LoseSubmission PROVE Progress'
  BY <1>6 DEF LoseSubmission, ClientTypeOK, Progress
<1>7. ASSUME HandleRequest PROVE Progress'
  BY <1>7 DEF HandleRequest, StreamAnswers, EventsAnswer, ResultAnswer,
     CallbackAnswer, ClientTypeOK, Progress
<1>8. ASSUME LoseRequest PROVE Progress'
  BY <1>8 DEF LoseRequest, ClientTypeOK, Progress
<1>9. ASSUME StreamSends PROVE Progress'
  BY <1>9 DEF StreamSends, ClientTypeOK, Progress
<1>10. ASSUME StreamBreaks PROVE Progress'
  BY <1>10 DEF StreamBreaks, ClientTypeOK, Progress
<1>11. ASSUME Refused PROVE Progress'
  BY <1>11 DEF Refused, Fail, Settle, ClientTypeOK, Progress
<1>12. ASSUME Accepted PROVE Progress'
  BY <1>12 DEF Accepted, StopsLate, SendStop, StopRequest, Delivers, Native,
     ClientTypeOK, Progress
<1>13. ASSUME StreamAnswered PROVE Progress'
  BY <1>13 DEF StreamAnswered, Goto, ClientTypeOK, Progress
<1>14. ASSUME StreamEnds PROVE Progress'
  BY <1>14 DEF StreamEnds, Goto, ResumeAt, ClientTypeOK, Progress
<1>15. ASSUME EventsAnswered PROVE Progress'
  BY <1>15 DEF EventsAnswered, ClientTypeOK, Progress
<1>16. ASSUME BatchEnds PROVE Progress'
  BY <1>16 DEF BatchEnds, Goto, ClientTypeOK, Progress
<1>17. ASSUME RequestFails PROVE Progress'
  BY <1>17 DEF RequestFails, Fail, Settle, ClientTypeOK, Progress
<1>18. ASSUME Observe PROVE Progress'
  BY <1>18 DEF Observe, Delivers, ClientTypeOK, Progress
<1>19. ASSUME Invoke PROVE Progress'
  BY <1>19 DEF Invoke, Delivers, Goto, ClientTypeOK, Progress
<1>20. ASSUME Replied PROVE Progress'
  BY <1>20 DEF Replied, ClientTypeOK, Progress
<1>21. ASSUME Conclude PROVE Progress'
  BY <1>21 DEF Conclude, ClearsTimer, ClientTypeOK, Progress
<1>22. ASSUME EmptyResult PROVE Progress'
  BY <1>22 DEF EmptyResult, Goto, ClientTypeOK, Progress
<1>23. ASSUME Released PROVE Progress'
  BY <1>23 DEF Released, Settle, ClientTypeOK, Progress
<1> QED
  BY <1>0, <1>1, <1>2, <1>3, <1>4, <1>5, <1>6, <1>7, <1>8, <1>9, <1>10, <1>11,
     <1>12, <1>13, <1>14, <1>15, <1>16, <1>17, <1>18, <1>19, <1>20, <1>21, <1>22,
     <1>23 DEF Next, Network, Client

LEMMA StepSettled ==
  ASSUME ClientTypeOK, Progress, SettledExactlyOnce, [Next]_vars
  PROVE  SettledExactlyOnce'
<1> USE DEF vars, service_vars, read_vars, stop_vars
<1>0. SUFFICES ASSUME Next PROVE SettledExactlyOnce'
  BY DEF ClientTypeOK, Progress, SettledExactlyOnce, Finished
<1>1. ASSUME NEW abort \in BOOLEAN, Stop(abort) PROVE SettledExactlyOnce'
  BY <1>1 DEF Stop, StopRequest, SendStop, Arms, Fail, Settle, Settled, Finished,
     Native, Creates, ClientTypeOK, Progress, SettledExactlyOnce
<1>2. ASSUME Deadline PROVE SettledExactlyOnce'
  BY <1>2 DEF Deadline, Settle, Creates, ClientTypeOK, Progress, SettledExactlyOnce,
     Finished
<1>3. ASSUME Server PROVE SettledExactlyOnce'
  BY <1>3 DEF Server, ClientTypeOK, Progress, SettledExactlyOnce, Finished
<1>4. ASSUME HandleControl PROVE SettledExactlyOnce'
  BY <1>4 DEF HandleControl, ClientTypeOK, Progress, SettledExactlyOnce, Finished
<1>5. ASSUME HandleSubmit PROVE SettledExactlyOnce'
  BY <1>5 DEF HandleSubmit, ClientTypeOK, Progress, SettledExactlyOnce, Finished
<1>6. ASSUME LoseSubmission PROVE SettledExactlyOnce'
  BY <1>6 DEF LoseSubmission, ClientTypeOK, Progress, SettledExactlyOnce, Finished
<1>7. ASSUME HandleRequest PROVE SettledExactlyOnce'
  BY <1>7 DEF HandleRequest, StreamAnswers, EventsAnswer, ResultAnswer,
     CallbackAnswer, ClientTypeOK, Progress, SettledExactlyOnce, Finished
<1>8. ASSUME LoseRequest PROVE SettledExactlyOnce'
  BY <1>8 DEF LoseRequest, ClientTypeOK, Progress, SettledExactlyOnce, Finished
<1>9. ASSUME StreamSends PROVE SettledExactlyOnce'
  BY <1>9 DEF StreamSends, ClientTypeOK, Progress, SettledExactlyOnce, Finished
<1>10. ASSUME StreamBreaks PROVE SettledExactlyOnce'
  BY <1>10 DEF StreamBreaks, ClientTypeOK, Progress, SettledExactlyOnce, Finished
<1>11. ASSUME Refused PROVE SettledExactlyOnce'
  BY <1>11 DEF Refused, Fail, Settle, ClientTypeOK, Progress, SettledExactlyOnce,
     Finished
<1>12. ASSUME Accepted PROVE SettledExactlyOnce'
  BY <1>12 DEF Accepted, StopsLate, SendStop, StopRequest, Delivers, Native,
     ClientTypeOK, Progress, SettledExactlyOnce, Finished
<1>13. ASSUME StreamAnswered PROVE SettledExactlyOnce'
  BY <1>13 DEF StreamAnswered, Goto, ClientTypeOK, Progress, SettledExactlyOnce,
     Finished
<1>14. ASSUME StreamEnds PROVE SettledExactlyOnce'
  BY <1>14 DEF StreamEnds, Goto, ResumeAt, ClientTypeOK, Progress,
     SettledExactlyOnce, Finished
<1>15. ASSUME EventsAnswered PROVE SettledExactlyOnce'
  BY <1>15 DEF EventsAnswered, ClientTypeOK, Progress, SettledExactlyOnce, Finished
<1>16. ASSUME BatchEnds PROVE SettledExactlyOnce'
  BY <1>16 DEF BatchEnds, Goto, ClientTypeOK, Progress, SettledExactlyOnce, Finished
<1>17. ASSUME RequestFails PROVE SettledExactlyOnce'
  BY <1>17 DEF RequestFails, Fail, Settle, ClientTypeOK, Progress,
     SettledExactlyOnce, Finished
<1>18. ASSUME Observe PROVE SettledExactlyOnce'
  BY <1>18 DEF Observe, Delivers, ClientTypeOK, Progress, SettledExactlyOnce,
     Finished
<1>19. ASSUME Invoke PROVE SettledExactlyOnce'
  BY <1>19 DEF Invoke, Delivers, Goto, ClientTypeOK, Progress, SettledExactlyOnce,
     Finished
<1>20. ASSUME Replied PROVE SettledExactlyOnce'
  BY <1>20 DEF Replied, ClientTypeOK, Progress, SettledExactlyOnce, Finished
<1>21. ASSUME Conclude PROVE SettledExactlyOnce'
  BY <1>21 DEF Conclude, ClearsTimer, ClientTypeOK, Progress, SettledExactlyOnce,
     Finished
<1>22. ASSUME EmptyResult PROVE SettledExactlyOnce'
  BY <1>22 DEF EmptyResult, Goto, ClientTypeOK, Progress, SettledExactlyOnce,
     Finished
<1>23. ASSUME Released PROVE SettledExactlyOnce'
  BY <1>23 DEF Released, Settle, ClientTypeOK, Progress, SettledExactlyOnce,
     Finished
<1> QED
  BY <1>0, <1>1, <1>2, <1>3, <1>4, <1>5, <1>6, <1>7, <1>8, <1>9, <1>10, <1>11,
     <1>12, <1>13, <1>14, <1>15, <1>16, <1>17, <1>18, <1>19, <1>20, <1>21, <1>22,
     <1>23 DEF Next, Network, Client

LEMMA StepAborts ==
  ASSUME ClientTypeOK, AbortsUnknown, [Next]_vars
  PROVE  AbortsUnknown'
<1> USE DEF vars, service_vars, read_vars, stop_vars
<1>0. SUFFICES ASSUME Next PROVE AbortsUnknown'
  BY DEF AbortsUnknown, Settled
<1>1. ASSUME NEW abort \in BOOLEAN, Stop(abort) PROVE AbortsUnknown'
  BY <1>1 DEF Stop, StopRequest, SendStop, Arms, Fail, Settle, Settled, Finished,
     Native, Creates, AbortsUnknown
<1>2. ASSUME Deadline PROVE AbortsUnknown'
  BY <1>2 DEF Deadline, Settle, Creates, AbortsUnknown, Settled
<1>3. ASSUME Server PROVE AbortsUnknown'
  BY <1>3 DEF Server, AbortsUnknown, Settled
<1>4. ASSUME HandleControl PROVE AbortsUnknown'
  BY <1>4 DEF HandleControl, AbortsUnknown, Settled
<1>5. ASSUME HandleSubmit PROVE AbortsUnknown'
  BY <1>5 DEF HandleSubmit, AbortsUnknown, Settled
<1>6. ASSUME LoseSubmission PROVE AbortsUnknown'
  BY <1>6 DEF LoseSubmission, AbortsUnknown, Settled
<1>7. ASSUME HandleRequest PROVE AbortsUnknown'
  BY <1>7 DEF HandleRequest, StreamAnswers, EventsAnswer, ResultAnswer,
     CallbackAnswer, AbortsUnknown, Settled
<1>8. ASSUME LoseRequest PROVE AbortsUnknown'
  BY <1>8 DEF LoseRequest, AbortsUnknown, Settled
<1>9. ASSUME StreamSends PROVE AbortsUnknown'
  BY <1>9 DEF StreamSends, AbortsUnknown, Settled
<1>10. ASSUME StreamBreaks PROVE AbortsUnknown'
  BY <1>10 DEF StreamBreaks, AbortsUnknown, Settled
<1>11. ASSUME Refused PROVE AbortsUnknown'
  BY <1>11 DEF Refused, Fail, Settle, AbortsUnknown, Settled
<1>12. ASSUME Accepted PROVE AbortsUnknown'
  BY <1>12 DEF Accepted, StopsLate, SendStop, StopRequest, Delivers, Native,
     AbortsUnknown, Settled
<1>13. ASSUME StreamAnswered PROVE AbortsUnknown'
  BY <1>13 DEF StreamAnswered, Goto, AbortsUnknown, Settled
<1>14. ASSUME StreamEnds PROVE AbortsUnknown'
  BY <1>14 DEF StreamEnds, Goto, ResumeAt, AbortsUnknown, Settled
<1>15. ASSUME EventsAnswered PROVE AbortsUnknown'
  BY <1>15 DEF EventsAnswered, AbortsUnknown, Settled
<1>16. ASSUME BatchEnds PROVE AbortsUnknown'
  BY <1>16 DEF BatchEnds, Goto, AbortsUnknown, Settled
<1>17. ASSUME RequestFails PROVE AbortsUnknown'
  BY <1>17 DEF RequestFails, Fail, Settle, AbortsUnknown, Settled
<1>18. ASSUME Observe PROVE AbortsUnknown'
  BY <1>18 DEF Observe, Delivers, AbortsUnknown, Settled
<1>19. ASSUME Invoke PROVE AbortsUnknown'
  BY <1>19 DEF Invoke, Delivers, Goto, AbortsUnknown, Settled
<1>20. ASSUME Replied PROVE AbortsUnknown'
  BY <1>20 DEF Replied, AbortsUnknown, Settled
<1>21. ASSUME Conclude PROVE AbortsUnknown'
  BY <1>21 DEF Conclude, ClearsTimer, AbortsUnknown, Settled
<1>22. ASSUME EmptyResult PROVE AbortsUnknown'
  BY <1>22 DEF EmptyResult, Goto, AbortsUnknown, Settled
<1>23. ASSUME Released PROVE AbortsUnknown'
  BY <1>23 DEF Released, Settle, AbortsUnknown, Settled
<1> QED
  BY <1>0, <1>1, <1>2, <1>3, <1>4, <1>5, <1>6, <1>7, <1>8, <1>9, <1>10, <1>11,
     <1>12, <1>13, <1>14, <1>15, <1>16, <1>17, <1>18, <1>19, <1>20, <1>21, <1>22,
     <1>23 DEF Next, Network, Client

LEMMA StepInOrder ==
  ASSUME ClientTypeOK, Progress, EventsInOrder, [Next]_vars
  PROVE  EventsInOrder'
<1> USE DEF vars, service_vars, read_vars, stop_vars
<1>0. SUFFICES ASSUME Next PROVE EventsInOrder'
  BY DEF ClientTypeOK, Progress, EventsInOrder
<1>1. ASSUME NEW abort \in BOOLEAN, Stop(abort) PROVE EventsInOrder'
  BY <1>1 DEF Stop, StopRequest, SendStop, Arms, Fail, Settle, Settled, Finished,
     Native, Creates, ClientTypeOK, Progress, EventsInOrder
<1>2. ASSUME Deadline PROVE EventsInOrder'
  BY <1>2 DEF Deadline, Settle, Creates, ClientTypeOK, Progress, EventsInOrder
<1>3. ASSUME Server PROVE EventsInOrder'
  BY <1>3 DEF Server, ClientTypeOK, Progress, EventsInOrder
<1>4. ASSUME HandleControl PROVE EventsInOrder'
  BY <1>4 DEF HandleControl, ClientTypeOK, Progress, EventsInOrder
<1>5. ASSUME HandleSubmit PROVE EventsInOrder'
  BY <1>5 DEF HandleSubmit, ClientTypeOK, Progress, EventsInOrder
<1>6. ASSUME LoseSubmission PROVE EventsInOrder'
  BY <1>6 DEF LoseSubmission, ClientTypeOK, Progress, EventsInOrder
<1>7. ASSUME HandleRequest PROVE EventsInOrder'
  BY <1>7 DEF HandleRequest, StreamAnswers, EventsAnswer, ResultAnswer,
     CallbackAnswer, ClientTypeOK, Progress, EventsInOrder
<1>8. ASSUME LoseRequest PROVE EventsInOrder'
  BY <1>8 DEF LoseRequest, ClientTypeOK, Progress, EventsInOrder
<1>9. ASSUME StreamSends PROVE EventsInOrder'
  BY <1>9 DEF StreamSends, ClientTypeOK, Progress, EventsInOrder
<1>10. ASSUME StreamBreaks PROVE EventsInOrder'
  BY <1>10 DEF StreamBreaks, ClientTypeOK, Progress, EventsInOrder
<1>11. ASSUME Refused PROVE EventsInOrder'
  BY <1>11 DEF Refused, Fail, Settle, ClientTypeOK, Progress, EventsInOrder
<1>12. ASSUME Accepted PROVE EventsInOrder'
  BY <1>12 DEF Accepted, StopsLate, SendStop, StopRequest, Delivers, Native,
     ClientTypeOK, Progress, EventsInOrder
<1>13. ASSUME StreamAnswered PROVE EventsInOrder'
  BY <1>13 DEF StreamAnswered, Goto, ClientTypeOK, Progress, EventsInOrder
<1>14. ASSUME StreamEnds PROVE EventsInOrder'
  BY <1>14 DEF StreamEnds, Goto, ResumeAt, ClientTypeOK, Progress, EventsInOrder
<1>15. ASSUME EventsAnswered PROVE EventsInOrder'
  BY <1>15 DEF EventsAnswered, ClientTypeOK, Progress, EventsInOrder
<1>16. ASSUME BatchEnds PROVE EventsInOrder'
  BY <1>16 DEF BatchEnds, Goto, ClientTypeOK, Progress, EventsInOrder
<1>17. ASSUME RequestFails PROVE EventsInOrder'
  BY <1>17 DEF RequestFails, Fail, Settle, ClientTypeOK, Progress, EventsInOrder
<1>18. ASSUME Observe PROVE EventsInOrder'
  BY <1>18 DEF Observe, Delivers, ClientTypeOK, Progress, EventsInOrder
<1>19. ASSUME Invoke PROVE EventsInOrder'
  BY <1>19 DEF Invoke, Delivers, Goto, ClientTypeOK, Progress, EventsInOrder
<1>20. ASSUME Replied PROVE EventsInOrder'
  BY <1>20 DEF Replied, ClientTypeOK, Progress, EventsInOrder
<1>21. ASSUME Conclude PROVE EventsInOrder'
  BY <1>21 DEF Conclude, ClearsTimer, ClientTypeOK, Progress, EventsInOrder
<1>22. ASSUME EmptyResult PROVE EventsInOrder'
  BY <1>22 DEF EmptyResult, Goto, ClientTypeOK, Progress, EventsInOrder
<1>23. ASSUME Released PROVE EventsInOrder'
  BY <1>23 DEF Released, Settle, ClientTypeOK, Progress, EventsInOrder
<1> QED
  BY <1>0, <1>1, <1>2, <1>3, <1>4, <1>5, <1>6, <1>7, <1>8, <1>9, <1>10, <1>11,
     <1>12, <1>13, <1>14, <1>15, <1>16, <1>17, <1>18, <1>19, <1>20, <1>21, <1>22,
     <1>23 DEF Next, Network, Client

LEMMA StepLate ==
  ASSUME ClientTypeOK, AbortsUnknown, LateJobsAreStopped, [Next]_vars
  PROVE  LateJobsAreStopped'
<1> USE DEF vars, service_vars, read_vars, stop_vars
<1>0. SUFFICES ASSUME Next PROVE LateJobsAreStopped'
  BY DEF AbortsUnknown, LateJobsAreStopped, Settled
<1>1. ASSUME NEW abort \in BOOLEAN, Stop(abort) PROVE LateJobsAreStopped'
  BY <1>1 DEF Stop, StopRequest, SendStop, Arms, Fail, Settle, Settled, Finished,
     Native, Creates, AbortsUnknown, LateJobsAreStopped
<1>2. ASSUME Deadline PROVE LateJobsAreStopped'
  BY <1>2 DEF Deadline, Settle, Creates, AbortsUnknown, LateJobsAreStopped, Settled
<1>3. ASSUME Server PROVE LateJobsAreStopped'
  BY <1>3 DEF Server, AbortsUnknown, LateJobsAreStopped, Settled
<1>4. ASSUME HandleControl PROVE LateJobsAreStopped'
  BY <1>4 DEF HandleControl, AbortsUnknown, LateJobsAreStopped, Settled
<1>5. ASSUME HandleSubmit PROVE LateJobsAreStopped'
  BY <1>5 DEF HandleSubmit, AbortsUnknown, LateJobsAreStopped, Settled
<1>6. ASSUME LoseSubmission PROVE LateJobsAreStopped'
  BY <1>6 DEF LoseSubmission, AbortsUnknown, LateJobsAreStopped, Settled
<1>7. ASSUME HandleRequest PROVE LateJobsAreStopped'
  BY <1>7 DEF HandleRequest, StreamAnswers, EventsAnswer, ResultAnswer,
     CallbackAnswer, AbortsUnknown, LateJobsAreStopped, Settled
<1>8. ASSUME LoseRequest PROVE LateJobsAreStopped'
  BY <1>8 DEF LoseRequest, AbortsUnknown, LateJobsAreStopped, Settled
<1>9. ASSUME StreamSends PROVE LateJobsAreStopped'
  BY <1>9 DEF StreamSends, AbortsUnknown, LateJobsAreStopped, Settled
<1>10. ASSUME StreamBreaks PROVE LateJobsAreStopped'
  BY <1>10 DEF StreamBreaks, AbortsUnknown, LateJobsAreStopped, Settled
<1>11. ASSUME Refused PROVE LateJobsAreStopped'
  BY <1>11 DEF Refused, Fail, Settle, AbortsUnknown, LateJobsAreStopped, Settled
<1>12. ASSUME Accepted PROVE LateJobsAreStopped'
  BY <1>12 DEF Accepted, StopsLate, SendStop, StopRequest, Delivers, Native,
     AbortsUnknown, LateJobsAreStopped, Settled
<1>13. ASSUME StreamAnswered PROVE LateJobsAreStopped'
  BY <1>13 DEF StreamAnswered, Goto, AbortsUnknown, LateJobsAreStopped, Settled
<1>14. ASSUME StreamEnds PROVE LateJobsAreStopped'
  BY <1>14 DEF StreamEnds, Goto, ResumeAt, AbortsUnknown, LateJobsAreStopped,
     Settled
<1>15. ASSUME EventsAnswered PROVE LateJobsAreStopped'
  BY <1>15 DEF EventsAnswered, AbortsUnknown, LateJobsAreStopped, Settled
<1>16. ASSUME BatchEnds PROVE LateJobsAreStopped'
  BY <1>16 DEF BatchEnds, Goto, AbortsUnknown, LateJobsAreStopped, Settled
<1>17. ASSUME RequestFails PROVE LateJobsAreStopped'
  BY <1>17 DEF RequestFails, Fail, Settle, AbortsUnknown, LateJobsAreStopped,
     Settled
<1>18. ASSUME Observe PROVE LateJobsAreStopped'
  BY <1>18 DEF Observe, Delivers, AbortsUnknown, LateJobsAreStopped, Settled
<1>19. ASSUME Invoke PROVE LateJobsAreStopped'
  BY <1>19 DEF Invoke, Delivers, Goto, AbortsUnknown, LateJobsAreStopped, Settled
<1>20. ASSUME Replied PROVE LateJobsAreStopped'
  BY <1>20 DEF Replied, AbortsUnknown, LateJobsAreStopped, Settled
<1>21. ASSUME Conclude PROVE LateJobsAreStopped'
  BY <1>21 DEF Conclude, ClearsTimer, AbortsUnknown, LateJobsAreStopped, Settled
<1>22. ASSUME EmptyResult PROVE LateJobsAreStopped'
  BY <1>22 DEF EmptyResult, Goto, AbortsUnknown, LateJobsAreStopped, Settled
<1>23. ASSUME Released PROVE LateJobsAreStopped'
  BY <1>23 DEF Released, Settle, AbortsUnknown, LateJobsAreStopped, Settled
<1> QED
  BY <1>0, <1>1, <1>2, <1>3, <1>4, <1>5, <1>6, <1>7, <1>8, <1>9, <1>10, <1>11,
     <1>12, <1>13, <1>14, <1>15, <1>16, <1>17, <1>18, <1>19, <1>20, <1>21, <1>22,
     <1>23 DEF Next, Network, Client

LEMMA StepOwner ==
  ASSUME ClientTypeOK, Progress, SettledExactlyOnce, ResultHasOneOwner, [Next]_vars
  PROVE  ResultHasOneOwner'
<1> USE DEF vars, service_vars, read_vars, stop_vars
<1>0. SUFFICES ASSUME Next PROVE ResultHasOneOwner'
  BY DEF ClientTypeOK, Progress, SettledExactlyOnce, ResultHasOneOwner, Finished
<1>1. ASSUME NEW abort \in BOOLEAN, Stop(abort) PROVE ResultHasOneOwner'
  BY <1>1 DEF Stop, StopRequest, SendStop, Arms, Fail, Settle, Settled, Finished,
     Native, Creates, ClientTypeOK, Progress, SettledExactlyOnce, ResultHasOneOwner
<1>2. ASSUME Deadline PROVE ResultHasOneOwner'
  BY <1>2 DEF Deadline, Settle, Creates, ClientTypeOK, Progress, SettledExactlyOnce,
     ResultHasOneOwner, Finished
<1>3. ASSUME Server PROVE ResultHasOneOwner'
  BY <1>3 DEF Server, ClientTypeOK, Progress, SettledExactlyOnce, ResultHasOneOwner,
     Finished
<1>4. ASSUME HandleControl PROVE ResultHasOneOwner'
  BY <1>4 DEF HandleControl, ClientTypeOK, Progress, SettledExactlyOnce,
     ResultHasOneOwner, Finished
<1>5. ASSUME HandleSubmit PROVE ResultHasOneOwner'
  BY <1>5 DEF HandleSubmit, ClientTypeOK, Progress, SettledExactlyOnce,
     ResultHasOneOwner, Finished
<1>6. ASSUME LoseSubmission PROVE ResultHasOneOwner'
  BY <1>6 DEF LoseSubmission, ClientTypeOK, Progress, SettledExactlyOnce,
     ResultHasOneOwner, Finished
<1>7. ASSUME HandleRequest PROVE ResultHasOneOwner'
  BY <1>7 DEF HandleRequest, StreamAnswers, EventsAnswer, ResultAnswer,
     CallbackAnswer, ClientTypeOK, Progress, SettledExactlyOnce, ResultHasOneOwner,
     Finished
<1>8. ASSUME LoseRequest PROVE ResultHasOneOwner'
  BY <1>8 DEF LoseRequest, ClientTypeOK, Progress, SettledExactlyOnce,
     ResultHasOneOwner, Finished
<1>9. ASSUME StreamSends PROVE ResultHasOneOwner'
  BY <1>9 DEF StreamSends, ClientTypeOK, Progress, SettledExactlyOnce,
     ResultHasOneOwner, Finished
<1>10. ASSUME StreamBreaks PROVE ResultHasOneOwner'
  BY <1>10 DEF StreamBreaks, ClientTypeOK, Progress, SettledExactlyOnce,
     ResultHasOneOwner, Finished
<1>11. ASSUME Refused PROVE ResultHasOneOwner'
  BY <1>11 DEF Refused, Fail, Settle, ClientTypeOK, Progress, SettledExactlyOnce,
     ResultHasOneOwner, Finished
<1>12. ASSUME Accepted PROVE ResultHasOneOwner'
  BY <1>12 DEF Accepted, StopsLate, SendStop, StopRequest, Delivers, Native,
     ClientTypeOK, Progress, SettledExactlyOnce, ResultHasOneOwner, Finished
<1>13. ASSUME StreamAnswered PROVE ResultHasOneOwner'
  BY <1>13 DEF StreamAnswered, Goto, ClientTypeOK, Progress, SettledExactlyOnce,
     ResultHasOneOwner, Finished
<1>14. ASSUME StreamEnds PROVE ResultHasOneOwner'
  BY <1>14 DEF StreamEnds, Goto, ResumeAt, ClientTypeOK, Progress,
     SettledExactlyOnce, ResultHasOneOwner, Finished
<1>15. ASSUME EventsAnswered PROVE ResultHasOneOwner'
  BY <1>15 DEF EventsAnswered, ClientTypeOK, Progress, SettledExactlyOnce,
     ResultHasOneOwner, Finished
<1>16. ASSUME BatchEnds PROVE ResultHasOneOwner'
  BY <1>16 DEF BatchEnds, Goto, ClientTypeOK, Progress, SettledExactlyOnce,
     ResultHasOneOwner, Finished
<1>17. ASSUME RequestFails PROVE ResultHasOneOwner'
  BY <1>17 DEF RequestFails, Fail, Settle, ClientTypeOK, Progress,
     SettledExactlyOnce, ResultHasOneOwner, Finished
<1>18. ASSUME Observe PROVE ResultHasOneOwner'
  BY <1>18 DEF Observe, Delivers, ClientTypeOK, Progress, SettledExactlyOnce,
     ResultHasOneOwner, Finished
<1>19. ASSUME Invoke PROVE ResultHasOneOwner'
  BY <1>19 DEF Invoke, Delivers, Goto, ClientTypeOK, Progress, SettledExactlyOnce,
     ResultHasOneOwner, Finished
<1>20. ASSUME Replied PROVE ResultHasOneOwner'
  BY <1>20 DEF Replied, ClientTypeOK, Progress, SettledExactlyOnce,
     ResultHasOneOwner, Finished
<1>21. ASSUME Conclude PROVE ResultHasOneOwner'
  BY <1>21 DEF Conclude, ClearsTimer, ClientTypeOK, Progress, SettledExactlyOnce,
     ResultHasOneOwner, Finished
<1>22. ASSUME EmptyResult PROVE ResultHasOneOwner'
  BY <1>22 DEF EmptyResult, Goto, ClientTypeOK, Progress, SettledExactlyOnce,
     ResultHasOneOwner, Finished
<1>23. ASSUME Released PROVE ResultHasOneOwner'
  BY <1>23 DEF Released, Settle, ClientTypeOK, Progress, SettledExactlyOnce,
     ResultHasOneOwner, Finished
<1> QED
  BY <1>0, <1>1, <1>2, <1>3, <1>4, <1>5, <1>6, <1>7, <1>8, <1>9, <1>10, <1>11,
     <1>12, <1>13, <1>14, <1>15, <1>16, <1>17, <1>18, <1>19, <1>20, <1>21, <1>22,
     <1>23 DEF Next, Network, Client

\* A step that stops the call sets the deadline, or ends it; only the end of the
\* call and the abandonment clear it.
LEMMA StepStopped ==
  ASSUME ClientTypeOK, Progress, SettledExactlyOnce, StoppedHasDeadline, [Next]_vars
  PROVE  StoppedHasDeadline'
<1> USE DEF vars, service_vars, read_vars, stop_vars
<1>0. SUFFICES ASSUME Next PROVE StoppedHasDeadline'
  BY DEF ClientTypeOK, Progress, SettledExactlyOnce, StoppedHasDeadline, Finished
<1>1. ASSUME NEW abort \in BOOLEAN, Stop(abort) PROVE StoppedHasDeadline'
  BY <1>1 DEF Stop, StopRequest, SendStop, Arms, Fail, Settle, Settled, Finished,
     Native, Creates, ClientTypeOK, Progress, SettledExactlyOnce,
     StoppedHasDeadline
<1>2. ASSUME Deadline PROVE StoppedHasDeadline'
  BY <1>2 DEF Deadline, Settle, Creates, ClientTypeOK, Progress,
     SettledExactlyOnce, StoppedHasDeadline, Finished
<1>3. ASSUME Server PROVE StoppedHasDeadline'
  BY <1>3 DEF Server, ClientTypeOK, Progress, SettledExactlyOnce,
     StoppedHasDeadline, Finished
<1>4. ASSUME HandleControl PROVE StoppedHasDeadline'
  BY <1>4 DEF HandleControl, ClientTypeOK, Progress, SettledExactlyOnce,
     StoppedHasDeadline, Finished
<1>5. ASSUME HandleSubmit PROVE StoppedHasDeadline'
  BY <1>5 DEF HandleSubmit, ClientTypeOK, Progress, SettledExactlyOnce,
     StoppedHasDeadline, Finished
<1>6. ASSUME LoseSubmission PROVE StoppedHasDeadline'
  BY <1>6 DEF LoseSubmission, ClientTypeOK, Progress, SettledExactlyOnce,
     StoppedHasDeadline, Finished
<1>7. ASSUME HandleRequest PROVE StoppedHasDeadline'
  BY <1>7 DEF HandleRequest, StreamAnswers, EventsAnswer, ResultAnswer,
     CallbackAnswer, ClientTypeOK, Progress, SettledExactlyOnce,
     StoppedHasDeadline, Finished
<1>8. ASSUME LoseRequest PROVE StoppedHasDeadline'
  BY <1>8 DEF LoseRequest, ClientTypeOK, Progress, SettledExactlyOnce,
     StoppedHasDeadline, Finished
<1>9. ASSUME StreamSends PROVE StoppedHasDeadline'
  BY <1>9 DEF StreamSends, ClientTypeOK, Progress, SettledExactlyOnce,
     StoppedHasDeadline, Finished
<1>10. ASSUME StreamBreaks PROVE StoppedHasDeadline'
  BY <1>10 DEF StreamBreaks, ClientTypeOK, Progress, SettledExactlyOnce,
     StoppedHasDeadline, Finished
<1>11. ASSUME Refused PROVE StoppedHasDeadline'
  BY <1>11 DEF Refused, Fail, Settle, ClientTypeOK, Progress, SettledExactlyOnce,
     StoppedHasDeadline, Finished
<1>12. ASSUME Accepted PROVE StoppedHasDeadline'
  BY <1>12 DEF Accepted, StopsLate, SendStop, StopRequest, Delivers, Native,
     ClientTypeOK, Progress, SettledExactlyOnce, StoppedHasDeadline, Finished
<1>13. ASSUME StreamAnswered PROVE StoppedHasDeadline'
  BY <1>13 DEF StreamAnswered, Goto, ClientTypeOK, Progress, SettledExactlyOnce,
     StoppedHasDeadline, Finished
<1>14. ASSUME StreamEnds PROVE StoppedHasDeadline'
  BY <1>14 DEF StreamEnds, Goto, ResumeAt, ClientTypeOK, Progress,
     SettledExactlyOnce, StoppedHasDeadline, Finished
<1>15. ASSUME EventsAnswered PROVE StoppedHasDeadline'
  BY <1>15 DEF EventsAnswered, ClientTypeOK, Progress, SettledExactlyOnce,
     StoppedHasDeadline, Finished
<1>16. ASSUME BatchEnds PROVE StoppedHasDeadline'
  BY <1>16 DEF BatchEnds, Goto, ClientTypeOK, Progress, SettledExactlyOnce,
     StoppedHasDeadline, Finished
<1>17. ASSUME RequestFails PROVE StoppedHasDeadline'
  BY <1>17 DEF RequestFails, Fail, Settle, ClientTypeOK, Progress,
     SettledExactlyOnce, StoppedHasDeadline, Finished
<1>18. ASSUME Observe PROVE StoppedHasDeadline'
  BY <1>18 DEF Observe, Delivers, ClientTypeOK, Progress, SettledExactlyOnce,
     StoppedHasDeadline, Finished
<1>19. ASSUME Invoke PROVE StoppedHasDeadline'
  BY <1>19 DEF Invoke, Delivers, Goto, ClientTypeOK, Progress, SettledExactlyOnce,
     StoppedHasDeadline, Finished
<1>20. ASSUME Replied PROVE StoppedHasDeadline'
  BY <1>20 DEF Replied, ClientTypeOK, Progress, SettledExactlyOnce,
     StoppedHasDeadline, Finished
<1>21. ASSUME Conclude PROVE StoppedHasDeadline'
  BY <1>21 DEF Conclude, ClearsTimer, ClientTypeOK, Progress, SettledExactlyOnce,
     StoppedHasDeadline, Finished
<1>22. ASSUME EmptyResult PROVE StoppedHasDeadline'
  BY <1>22 DEF EmptyResult, Goto, ClientTypeOK, Progress, SettledExactlyOnce,
     StoppedHasDeadline, Finished
<1>23. ASSUME Released PROVE StoppedHasDeadline'
  BY <1>23 DEF Released, Settle, ClientTypeOK, Progress, SettledExactlyOnce,
     StoppedHasDeadline, Finished
<1> QED
  BY <1>0, <1>1, <1>2, <1>3, <1>4, <1>5, <1>6, <1>7, <1>8, <1>9, <1>10, <1>11,
     <1>12, <1>13, <1>14, <1>15, <1>16, <1>17, <1>18, <1>19, <1>20, <1>21, <1>22,
     <1>23 DEF Next, Network, Client

-----------------------------------------------------------------------------
(* The theorems.                                                            *)

\* The initial states satisfy the invariant.
LEMMA InitInd ==
  ASSUME ServerExecutorAssumption, Init
  PROVE  IndInv
<1> USE DEF Init, ServiceInit
<1>1. TypeOK
  <2>1. ServiceTypeOK
    <3>1. <<>> \in Seq(Kinds)
      OBVIOUS
    <3> QED
      BY <3>1 DEF ServiceTypeOK, States, Signals
  <2>2. Words
    BY DEF Words
  <2>3. Counters
    BY DEF Counters
  <2>4. Flags
    BY DEF Flags
  <2> QED
    BY <2>1, <2>2, <2>3, <2>4 DEF TypeOK, ClientTypeOK, Words, Counters, Flags
<1>2. Progress /\ SettledExactlyOnce /\ AbortsUnknown
  BY DEF Progress, SettledExactlyOnce, AbortsUnknown, Finished
<1>3. EventsInOrder /\ LateJobsAreStopped /\ ResultHasOneOwner /\ StoppedHasDeadline
  BY DEF EventsInOrder, LateJobsAreStopped, ResultHasOneOwner, StoppedHasDeadline,
     Finished
<1> QED
  BY <1>1, <1>2, <1>3 DEF IndInv

\* Every step preserves the invariant.
LEMMA StepInd ==
  ASSUME IndInv, [Next]_vars
  PROVE  IndInv'
<1>1. ServiceTypeOK /\ ClientTypeOK
  BY DEF IndInv, TypeOK
<1>2. TypeOK'
  BY <1>1, StepServiceType, StepClientType DEF IndInv, TypeOK
<1> QED
  BY <1>1, <1>2, StepProgress, StepSettled, StepAborts, StepInOrder, StepLate,
     StepOwner, StepStopped
  DEF IndInv

\* The inductive invariant holds, whatever the network, the server and the caller
\* of execute() do.
THEOREM ServerExecutorIndInvHolds == Spec => []IndInv
<1>1. Init => IndInv
  BY ServerExecutorAssumption, InitInd
<1>2. IndInv /\ [Next]_vars => IndInv'
  BY StepInd
<1> QED
  BY <1>1, <1>2, PTL DEF Spec

\* The state of the client and of the job service has its types, for a history of
\* any length.
THEOREM ServerExecutorTypeCorrect == Spec => []TypeOK
<1>1. IndInv => TypeOK
  BY DEF IndInv
<1> QED
  BY <1>1, ServerExecutorIndInvHolds, PTL

\* Reading through a stream, breaking off and going on with batches hands each
\* response over once and in the order of the history.
THEOREM ResponsesArriveInOrder == Spec => []EventsInOrder
<1>1. IndInv => EventsInOrder
  BY DEF IndInv
<1> QED
  BY <1>1, ServerExecutorIndInvHolds, PTL

\* A job that is accepted after the caller has cancelled or interrupted it is told
\* to stop.
THEOREM LateJobsAreTold == Spec => []LateJobsAreStopped
<1>1. IndInv => LateJobsAreStopped
  BY DEF IndInv
<1> QED
  BY <1>1, ServerExecutorIndInvHolds, PTL

\* A result that was read goes to the caller or to the hook of an abandoned
\* creation: never to both, and never to neither.
THEOREM ResultsAreOwned == Spec => []ResultHasOneOwner
<1>1. IndInv => ResultHasOneOwner
  BY DEF IndInv
<1> QED
  BY <1>1, ServerExecutorIndInvHolds, PTL

\* Whoever has stopped a call and still waits has a deadline to wait for, or only the
\* release of the job; the network can delay neither.
THEOREM StoppedCallsEnd == Spec => []StoppedHasDeadline
<1>1. IndInv => StoppedHasDeadline
  BY DEF IndInv
<1> QED
  BY <1>1, ServerExecutorIndInvHolds, PTL

\* Once the promise is settled nothing more is handed to the observers.
THEOREM SettledIsSilent == Spec => SilentOnceSettled
<1>1. ASSUME IndInv, Next, outcome # "pending" PROVE UNCHANGED delivered
  <2>1. abandoned \/ pc = "done"
    BY <1>1 DEF IndInv, SettledExactlyOnce, Finished
  <2>2. ASSUME NEW id, Delivers(id), pc # "done" PROVE UNCHANGED delivered
    BY <2>1, <2>2 DEF Delivers
  <2>3. ASSUME Accepted PROVE UNCHANGED delivered
    BY <2>2, <2>3 DEF Accepted
  <2>4. ASSUME Observe \/ Invoke PROVE UNCHANGED delivered
    BY <2>2, <2>4 DEF Observe, Invoke
  <2>5. ASSUME Refused \/ StreamAnswered \/ StreamEnds \/ EventsAnswered \/ BatchEnds
                 \/ RequestFails \/ Replied \/ Conclude \/ EmptyResult \/ Released
        PROVE  UNCHANGED delivered
    BY <2>5 DEF Refused, StreamAnswered, StreamEnds, EventsAnswered, BatchEnds,
       RequestFails, Replied, Conclude, EmptyResult, Released, read_vars
  <2>6. ASSUME Deadline \/ Server \/ Network PROVE UNCHANGED delivered
    BY <2>6 DEF Deadline, Server, Network, HandleControl, HandleSubmit,
       LoseSubmission,
       HandleRequest, LoseRequest, StreamSends, StreamBreaks, read_vars
  <2>7. ASSUME NEW abort \in BOOLEAN, Stop(abort) PROVE UNCHANGED delivered
    BY <2>7 DEF Stop, read_vars
  <2> QED
    BY <1>1, <2>3, <2>4, <2>5, <2>6, <2>7 DEF Next, Client
<1>2. IndInv /\ [Next]_vars => [outcome # "pending" => UNCHANGED delivered]_vars
  BY <1>1
<1> QED
  BY <1>2, ServerExecutorIndInvHolds, PTL DEF Spec, SilentOnceSettled

=============================================================================
