------------------------ MODULE WorkerCallbackProofs ------------------------
(***************************************************************************)
(* Proofs about WorkerCallback, for chunks and replies of any size.        *)
(***************************************************************************)
EXTENDS WorkerCallback, TLAPS

-----------------------------------------------------------------------------
(* The inductive invariant.                                                 *)

\* The parent has not begun to send.
Unsent == {"message", "handle", "report"}

\* The parent is filling the buffer, which the worker must not read.
Filling == {"fill", "publish"}

\* The worker owns the buffer, or has just read it.
Reading == {"copy", "acknowledge"}

\* What the parent has published; at "notify" the offset lags behind.
Offered == IF parent = "notify" THEN sent + count ELSE sent

\* The parent's side of the transfer.
Sending ==
  /\ parent \in Unsent =>
       /\ reply = 0 /\ sent = 0 /\ count = 0 /\ taken = 0
       /\ state = Free \/ (state = Failed /\ broken_off /\ worker = "transport_failed")
       /\ worker \notin Reading \cup {"replied", "look", "look_again", "handler_failed"}
  /\ sent <= reply
  /\ parent \in {"publish", "notify"} => sent + count <= reply
  /\ parent = "publish" =>
       \A i \in 1..count : buffer[i] = sent + i
  /\ parent \in Filling => worker \notin Reading \cup {"replied"}
  /\ parent \in Filling => state \in {Free, Failed}
  /\ threw => parent \in {"report", "notify_end", "done"}
  /\ threw => state \notin {Published, Complete}
  /\ threw => worker \notin Reading \cup {"replied"}
  /\ worker = "replied" => state \in {Complete, Failed}

\* The chunk the worker may read is the one that follows what it has taken.
ChunkFollows ==
  /\ (state = Published /\ worker # "acknowledge") \/ worker = "copy" =>
       /\ total = reply
       /\ taken + count = Offered
       /\ Offered <= reply
       /\ \A i \in 1..count : buffer[i] = taken + i
  /\ worker = "acknowledge" => total = reply /\ taken = Offered /\ Offered <= reply
  /\ worker \in Reading => state \in {Published, Failed}
  /\ state = Free /\ parent \notin Unsent \cup {"notify_end", "done"} => taken = Offered

\* What the worker has is a prefix of the reply.
PrefixTaken ==
  /\ \A i \in 1..taken : bytes[i] = i
  /\ taken <= reply
  /\ worker = "replied" => taken = reply
  /\ parent \notin Unsent \cup {"notify_end", "done"} => total = reply

\* A reply of one chunk that nothing breaks off: the state word is Free until
\* the chunk is there, and never again.
OneChunk ==
  /\ state = Threw => threw
  /\ ~broken_off /\ reply <= ChunkSize =>
       /\ parent \in Unsent \cup Filling \cup {"poll"} <=> state = Free
       /\ parent \notin {"await", "notify_stop", "give_up"}
       /\ parent \in Filling \cup {"poll", "notify"} => sent = 0
       /\ parent \in {"publish", "notify"} => count = reply
       /\ parent \in Filling \cup {"poll"} => taken = 0
       /\ state = Published => Offered = reply
       /\ worker = "acknowledge" => taken = reply
       /\ state = Free => worker \in {"wait", "asleep", "close"}
       /\ state = Failed => worker # "look_again"
       /\ worker \in Reading => state = Published
       /\ state = Complete <=> worker = "replied"
       /\ worker = "handler_failed" => threw

\* Where the parent is between changing the state word and waking the worker.
Notifying == {"notify", "notify_end", "notify_stop"}

\* The parent leaves a call that nothing broke off only when the worker has, or
\* will take, the last chunk, or when the state word tells of a failure.
Watch ==
  /\ worker = "asleep" /\ state # Free => parent \in Notifying
  /\ ~broken_off =>
       /\ state \in {Threw, Failed} => parent \in {"notify_end", "done"}
       /\ parent = "notify_end" => state \in {Threw, Failed}
       /\ state = Complete => worker = "replied"
       /\ worker \in Reading => state = Published
       /\ parent = "done" => state # Free
       /\ parent = "done" /\ state = Published => sent = reply
       /\ parent = "notify" => state # Free \/ Offered < reply

IndInv ==
  /\ TypeOK
  /\ Sending
  /\ ChunkFollows
  /\ PrefixTaken
  /\ OneChunk

-----------------------------------------------------------------------------
(* Induction.                                                               *)

\* A chunk is no longer than the buffer and than what is left of the reply.
LEMMA NextChunkFits ==
  ASSUME ChunkAssumption, reply \in Nat, sent \in Nat, sent <= reply
  PROVE  /\ NextChunk \in 0..ChunkSize
         /\ sent + NextChunk <= reply
         /\ reply <= ChunkSize /\ sent = 0 => NextChunk = reply
<1>1. PICK m \in {ChunkSize, reply - sent} :
        m <= ChunkSize /\ m <= reply - sent /\ NextChunk = m
  <2>1. \E m \in {ChunkSize, reply - sent} :
          \A y \in {ChunkSize, reply - sent} : m <= y
    OBVIOUS
  <2> QED BY <2>1 DEF NextChunk, Min
<1> QED BY <1>1

\* The initial states satisfy the invariant.
LEMMA InitInd ==
  ASSUME ChunkAssumption, Init
  PROVE  IndInv
<1> USE ChunkAssumption DEF Init, Unsent, Free, Published, Complete, Threw, Failed
<1>1. TypeOK
  <2>1. buffer \in [1..ChunkSize -> 0..MaxLength] /\ bytes \in [1..MaxLength -> 0..MaxLength]
    OBVIOUS
  <2>2. 0 \in 0..ChunkSize /\ 0 \in 0..MaxLength
    OBVIOUS
  <2> QED BY <2>1, <2>2 DEF TypeOK, Over
<1>2. Sending
  BY DEF Sending, Filling, Reading
<1>3. ChunkFollows
  BY DEF ChunkFollows, Reading
<1>4. PrefixTaken
  BY DEF PrefixTaken
<1>5. OneChunk
  BY DEF OneChunk, Filling, Reading
<1> QED BY <1>1, <1>2, <1>3, <1>4, <1>5 DEF IndInv

\* Every step preserves the types.
LEMMA StepType ==
  ASSUME ChunkAssumption, IndInv, [Next]_vars
  PROVE  TypeOK'
<1> USE ChunkAssumption DEF IndInv, TypeOK, parent_vars, worker_vars, Free, Published,
        Complete, Threw, Failed, Over, Sending, ChunkFollows, PrefixTaken, Unsent,
        Filling, Reading, Offered
<1>1. CASE Receive
  BY <1>1 DEF Receive
<1>2. CASE HandlerThrows
  BY <1>2 DEF HandlerThrows
<1>3. CASE NoReply
  BY <1>3 DEF NoReply
<1>4. ASSUME NEW n \in 0..MaxLength, Handle(n) PROVE TypeOK'
  BY <1>4 DEF Handle
<1>5. CASE Report
  BY <1>5 DEF Report, FailureState
<1>6. CASE NotifyEnd
  BY <1>6 DEF NotifyEnd, Notify
<1>7. CASE Poll
  BY <1>7 DEF Poll
<1>8. CASE CloseTransfer
  BY <1>8 DEF CloseTransfer
<1>9. CASE Resume
  BY <1>9 DEF Resume
<1>10. CASE NotifyStop
  BY <1>10 DEF NotifyStop, Notify
<1>11. CASE Fill
  BY NextChunkFits, <1>11 DEF Fill
<1>12. CASE Publish
  BY <1>12 DEF Publish
<1>13. CASE NotifyChunk
  BY <1>13 DEF NotifyChunk, Notify
<1>14. CASE Wait
  BY <1>14 DEF Wait
<1>15. CASE Close
  BY <1>15 DEF Close
<1>16. CASE Look
  BY <1>16 DEF Look
<1>17. CASE LookAgain
  BY <1>17 DEF LookAgain
<1>18. CASE Copy
  BY <1>18 DEF Copy
<1>19. CASE Acknowledge
  BY <1>19 DEF Acknowledge
<1>20. CASE GiveUp
  BY <1>20 DEF GiveUp
<1>21. CASE Stop
  BY <1>21 DEF Stop
<1>22. CASE TimeOut
  BY <1>22 DEF TimeOut
<1>23. CASE UNCHANGED vars
  BY <1>23 DEF vars, parent_vars, worker_vars
<1> QED
  BY <1>1, <1>2, <1>3, <1>4, <1>5, <1>6, <1>7, <1>8, <1>9, <1>10, <1>11, <1>12, <1>13,
     <1>14, <1>15, <1>16, <1>17, <1>18, <1>19, <1>20, <1>21, <1>22, <1>23 DEF Next,
     Parent, Worker

\* Every step preserves the parent's side.
LEMMA StepSending ==
  ASSUME ChunkAssumption, IndInv, [Next]_vars
  PROVE  Sending'
<1> USE ChunkAssumption DEF IndInv, TypeOK, parent_vars, worker_vars, Free, Published,
        Complete, Threw, Failed, Over, Sending, ChunkFollows, OneChunk, Unsent,
        Filling, Reading, Offered
<1>1. CASE Receive
  BY <1>1 DEF Receive
<1>2. CASE HandlerThrows
  BY <1>2 DEF HandlerThrows
<1>3. CASE NoReply
  BY <1>3 DEF NoReply
<1>4. ASSUME NEW n \in 0..MaxLength, Handle(n) PROVE Sending'
  BY <1>4 DEF Handle
<1>5. CASE Report
  BY <1>5 DEF Report, FailureState
<1>6. CASE NotifyEnd
  BY <1>6 DEF NotifyEnd, Notify
<1>7. CASE Poll
  BY <1>7 DEF Poll
<1>8. CASE CloseTransfer
  BY <1>8 DEF CloseTransfer
<1>9. CASE Resume
  BY <1>9 DEF Resume
<1>10. CASE NotifyStop
  BY <1>10 DEF NotifyStop, Notify
<1>11. CASE Fill
  BY NextChunkFits, <1>11 DEF Fill
<1>12. CASE Publish
  BY <1>12 DEF Publish
<1>13. CASE NotifyChunk
  BY <1>13 DEF NotifyChunk, Notify
<1>14. CASE Wait
  BY <1>14 DEF Wait
<1>15. CASE Close
  BY <1>15 DEF Close
<1>16. CASE Look
  BY <1>16 DEF Look
<1>17. CASE LookAgain
  BY <1>17 DEF LookAgain
<1>18. CASE Copy
  BY <1>18 DEF Copy
<1>19. CASE Acknowledge
  BY <1>19 DEF Acknowledge
<1>20. CASE GiveUp
  BY <1>20 DEF GiveUp
<1>21. CASE Stop
  BY <1>21 DEF Stop
<1>22. CASE TimeOut
  BY <1>22 DEF TimeOut
<1>23. CASE UNCHANGED vars
  BY <1>23 DEF vars, parent_vars, worker_vars
<1> QED
  BY <1>1, <1>2, <1>3, <1>4, <1>5, <1>6, <1>7, <1>8, <1>9, <1>10, <1>11, <1>12, <1>13,
     <1>14, <1>15, <1>16, <1>17, <1>18, <1>19, <1>20, <1>21, <1>22, <1>23 DEF Next,
     Parent, Worker

\* Every step keeps the published chunk next in line.
LEMMA StepChunkFollows ==
  ASSUME ChunkAssumption, IndInv, [Next]_vars
  PROVE  ChunkFollows'
<1> USE ChunkAssumption DEF IndInv, TypeOK, parent_vars, worker_vars, Free, Published,
        Complete, Threw, Failed, Over, Sending, ChunkFollows, PrefixTaken, Unsent,
        Filling, Reading, Offered
<1>1. CASE Receive
  BY <1>1 DEF Receive
<1>2. CASE HandlerThrows
  BY <1>2 DEF HandlerThrows
<1>3. CASE NoReply
  BY <1>3 DEF NoReply
<1>4. ASSUME NEW n \in 0..MaxLength, Handle(n) PROVE ChunkFollows'
  BY <1>4 DEF Handle
<1>5. CASE Report
  BY <1>5 DEF Report, FailureState
<1>6. CASE NotifyEnd
  BY <1>6 DEF NotifyEnd, Notify
<1>7. CASE Poll
  BY <1>7 DEF Poll
<1>8. CASE CloseTransfer
  BY <1>8 DEF CloseTransfer
<1>9. CASE Resume
  BY <1>9 DEF Resume
<1>10. CASE NotifyStop
  BY <1>10 DEF NotifyStop, Notify
<1>11. CASE Fill
  BY NextChunkFits, <1>11 DEF Fill
<1>12. CASE Publish
  <2> USE <1>12 DEF Publish
  <2>1. (state = Published /\ worker # "acknowledge") \/ worker = "copy" =>
          /\ total = reply /\ taken + count = Offered' /\ Offered' <= reply
          /\ \A i \in 1..count : buffer[i] = taken + i
    OBVIOUS
  <2>2. state = Free =>
          /\ total = reply /\ taken + count = Offered' /\ Offered' <= reply
          /\ \A i \in 1..count : buffer[i] = taken + i
    OBVIOUS
  <2>3. worker \notin Reading
    OBVIOUS
  <2>4. state' = Free => FALSE
    OBVIOUS
  <2> QED BY <2>1, <2>2, <2>3, <2>4
<1>13. CASE NotifyChunk
  BY <1>13 DEF NotifyChunk, Notify
<1>14. CASE Wait
  BY <1>14 DEF Wait
<1>15. CASE Close
  BY <1>15 DEF Close
<1>16. CASE Look
  BY <1>16 DEF Look
<1>17. CASE LookAgain
  BY <1>17 DEF LookAgain
<1>18. CASE Copy
  BY <1>18 DEF Copy
<1>19. CASE Acknowledge
  BY <1>19 DEF Acknowledge
<1>20. CASE GiveUp
  BY <1>20 DEF GiveUp
<1>21. CASE Stop
  BY <1>21 DEF Stop
<1>22. CASE TimeOut
  BY <1>22 DEF TimeOut
<1>23. CASE UNCHANGED vars
  BY <1>23 DEF vars, parent_vars, worker_vars
<1> QED
  BY <1>1, <1>2, <1>3, <1>4, <1>5, <1>6, <1>7, <1>8, <1>9, <1>10, <1>11, <1>12, <1>13,
     <1>14, <1>15, <1>16, <1>17, <1>18, <1>19, <1>20, <1>21, <1>22, <1>23 DEF Next,
     Parent, Worker

\* Every step extends the prefix or leaves it.
LEMMA StepPrefixTaken ==
  ASSUME ChunkAssumption, IndInv, [Next]_vars
  PROVE  PrefixTaken'
<1> USE ChunkAssumption DEF IndInv, TypeOK, parent_vars, worker_vars, Free, Published,
        Complete, Threw, Failed, Over, Sending, ChunkFollows, PrefixTaken, Unsent,
        Filling, Reading, Offered
<1>1. CASE Receive
  BY <1>1 DEF Receive
<1>2. CASE HandlerThrows
  BY <1>2 DEF HandlerThrows
<1>3. CASE NoReply
  BY <1>3 DEF NoReply
<1>4. ASSUME NEW n \in 0..MaxLength, Handle(n) PROVE PrefixTaken'
  BY <1>4 DEF Handle
<1>5. CASE Report
  BY <1>5 DEF Report, FailureState
<1>6. CASE NotifyEnd
  BY <1>6 DEF NotifyEnd, Notify
<1>7. CASE Poll
  BY <1>7 DEF Poll
<1>8. CASE CloseTransfer
  BY <1>8 DEF CloseTransfer
<1>9. CASE Resume
  BY <1>9 DEF Resume
<1>10. CASE NotifyStop
  BY <1>10 DEF NotifyStop, Notify
<1>11. CASE Fill
  BY NextChunkFits, <1>11 DEF Fill
<1>12. CASE Publish
  BY <1>12 DEF Publish
<1>13. CASE NotifyChunk
  BY <1>13 DEF NotifyChunk, Notify
<1>14. CASE Wait
  BY <1>14 DEF Wait
<1>15. CASE Close
  BY <1>15 DEF Close
<1>16. CASE Look
  BY <1>16 DEF Look
<1>17. CASE LookAgain
  BY <1>17 DEF LookAgain
<1>18. CASE Copy
  BY <1>18 DEF Copy
<1>19. CASE Acknowledge
  BY <1>19 DEF Acknowledge
<1>20. CASE GiveUp
  BY <1>20 DEF GiveUp
<1>21. CASE Stop
  BY <1>21 DEF Stop
<1>22. CASE TimeOut
  BY <1>22 DEF TimeOut
<1>23. CASE UNCHANGED vars
  BY <1>23 DEF vars, parent_vars, worker_vars
<1> QED
  BY <1>1, <1>2, <1>3, <1>4, <1>5, <1>6, <1>7, <1>8, <1>9, <1>10, <1>11, <1>12, <1>13,
     <1>14, <1>15, <1>16, <1>17, <1>18, <1>19, <1>20, <1>21, <1>22, <1>23 DEF Next,
     Parent, Worker

\* Every step preserves what is known of small replies.
LEMMA StepOneChunk ==
  ASSUME ChunkAssumption, IndInv, [Next]_vars
  PROVE  OneChunk'
<1> USE ChunkAssumption DEF IndInv, TypeOK, parent_vars, worker_vars, Free, Published,
        Complete, Threw, Failed, Over, Sending, ChunkFollows, PrefixTaken, OneChunk,
        Unsent, Filling, Reading, Offered
<1>1. CASE Receive
  BY <1>1 DEF Receive
<1>2. CASE HandlerThrows
  BY <1>2 DEF HandlerThrows
<1>3. CASE NoReply
  BY <1>3 DEF NoReply
<1>4. ASSUME NEW n \in 0..MaxLength, Handle(n) PROVE OneChunk'
  BY <1>4 DEF Handle
<1>5. CASE Report
  BY <1>5 DEF Report, FailureState
<1>6. CASE NotifyEnd
  BY <1>6 DEF NotifyEnd, Notify
<1>7. CASE Poll
  BY <1>7 DEF Poll
<1>8. CASE CloseTransfer
  BY <1>8 DEF CloseTransfer
<1>9. CASE Resume
  BY <1>9 DEF Resume
<1>10. CASE NotifyStop
  BY <1>10 DEF NotifyStop, Notify
<1>11. CASE Fill
  BY NextChunkFits, <1>11 DEF Fill
<1>12. CASE Publish
  BY <1>12 DEF Publish
<1>13. CASE NotifyChunk
  <2>1. ~broken_off /\ reply <= ChunkSize => parent' = "done"
    BY <1>13 DEF NotifyChunk
  <2> QED BY <1>13, <2>1 DEF NotifyChunk, Notify
<1>14. CASE Wait
  BY <1>14 DEF Wait
<1>15. CASE Close
  BY <1>15 DEF Close
<1>16. CASE Look
  BY <1>16 DEF Look
<1>17. CASE LookAgain
  BY <1>17 DEF LookAgain
<1>18. CASE Copy
  BY <1>18 DEF Copy
<1>19. CASE Acknowledge
  BY <1>19 DEF Acknowledge
<1>20. CASE GiveUp
  BY <1>20 DEF GiveUp
<1>21. CASE Stop
  BY <1>21 DEF Stop
<1>22. CASE TimeOut
  BY <1>22 DEF TimeOut
<1>23. CASE UNCHANGED vars
  BY <1>23 DEF vars, parent_vars, worker_vars
<1> QED
  BY <1>1, <1>2, <1>3, <1>4, <1>5, <1>6, <1>7, <1>8, <1>9, <1>10, <1>11, <1>12, <1>13,
     <1>14, <1>15, <1>16, <1>17, <1>18, <1>19, <1>20, <1>21, <1>22, <1>23 DEF Next,
     Parent, Worker

\* Every step preserves what is known of a sleeping worker.
LEMMA StepWatch ==
  ASSUME ChunkAssumption, IndInv, Watch, [Next]_vars
  PROVE  Watch'
<1> USE ChunkAssumption DEF IndInv, TypeOK, parent_vars, worker_vars, Free, Published,
        Complete, Threw, Failed, Over, Sending, ChunkFollows, PrefixTaken, OneChunk, Watch,
        Unsent, Filling, Reading, Offered, Notifying
<1>1. CASE Receive
  BY <1>1 DEF Receive
<1>2. CASE HandlerThrows
  BY <1>2 DEF HandlerThrows
<1>3. CASE NoReply
  BY <1>3 DEF NoReply
<1>4. ASSUME NEW n \in 0..MaxLength, Handle(n) PROVE Watch'
  BY <1>4 DEF Handle
<1>5. CASE Report
  BY <1>5 DEF Report, FailureState
<1>6. CASE NotifyEnd
  BY <1>6 DEF NotifyEnd, Notify
<1>7. CASE Poll
  BY <1>7 DEF Poll
<1>8. CASE CloseTransfer
  BY <1>8 DEF CloseTransfer
<1>9. CASE Resume
  BY <1>9 DEF Resume
<1>10. CASE NotifyStop
  BY <1>10 DEF NotifyStop, Notify
<1>11. CASE Fill
  BY NextChunkFits, <1>11 DEF Fill
<1>12. CASE Publish
  BY <1>12 DEF Publish
<1>13. CASE NotifyChunk
  BY <1>13 DEF NotifyChunk, Notify
<1>14. CASE Wait
  BY <1>14 DEF Wait
<1>15. CASE Close
  BY <1>15 DEF Close
<1>16. CASE Look
  BY <1>16 DEF Look
<1>17. CASE LookAgain
  BY <1>17 DEF LookAgain
<1>18. CASE Copy
  BY <1>18 DEF Copy
<1>19. CASE Acknowledge
  BY <1>19 DEF Acknowledge
<1>20. CASE GiveUp
  BY <1>20 DEF GiveUp
<1>21. CASE Stop
  BY <1>21 DEF Stop
<1>22. CASE TimeOut
  BY <1>22 DEF TimeOut
<1>23. CASE UNCHANGED vars
  BY <1>23 DEF vars, parent_vars, worker_vars
<1> QED
  BY <1>1, <1>2, <1>3, <1>4, <1>5, <1>6, <1>7, <1>8, <1>9, <1>10, <1>11, <1>12, <1>13,
     <1>14, <1>15, <1>16, <1>17, <1>18, <1>19, <1>20, <1>21, <1>22, <1>23 DEF Next,
     Parent, Worker

-----------------------------------------------------------------------------
(* Theorems.                                                                *)

\* The invariant holds in every reachable state.
THEOREM WorkerCallbackIndInvHolds == Spec => []IndInv
<1>1. IndInv /\ [Next]_vars => IndInv'
  BY ChunkAssumption, StepType, StepSending, StepChunkFollows, StepPrefixTaken,
     StepOneChunk DEF IndInv
<1> QED BY <1>1, InitInd, ChunkAssumption, PTL DEF Spec

\* The type invariant, for chunks and replies of any size.
THEOREM WorkerCallbackTypeCorrect == Spec => []TypeOK
<1>1. IndInv => TypeOK
  BY DEF IndInv
<1> QED BY <1>1, WorkerCallbackIndInvHolds, PTL

\* The bytes that onCallback returns are the bytes the handler returned.
THEOREM RepliesArriveIntact == Spec => []RepliesIntact
<1>1. IndInv => RepliesIntact
  BY DEF IndInv, Sending, PrefixTaken, RepliesIntact
<1> QED BY <1>1, WorkerCallbackIndInvHolds, PTL

\* A reply that fits into one chunk is never taken for a handler's failure.
THEOREM SmallReplyIsNotBlamed == Spec => []SmallReplyNotBlamed
<1>1. IndInv => SmallReplyNotBlamed
  BY ChunkAssumption DEF IndInv, TypeOK, OneChunk, SmallReplyNotBlamed
<1> QED BY <1>1, WorkerCallbackIndInvHolds, PTL

\* A sleeping worker is never forgotten: the part of CallEnds that needs no fairness.
THEOREM SleeperIsNotForgotten == Spec => []SleeperIsWoken
<1>1. Init => Watch
  BY DEF Init, Watch, Reading, Notifying, Free, Threw, Failed, Complete
<1>2. IndInv /\ Watch /\ [Next]_vars => Watch'
  BY ChunkAssumption, StepWatch
<1>3. Watch => SleeperIsWoken
  BY DEF Watch, SleeperIsWoken, Notifying
<1> QED BY <1>1, <1>2, <1>3, WorkerCallbackIndInvHolds, PTL DEF Spec

=============================================================================
