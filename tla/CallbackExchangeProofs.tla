----------------------- MODULE CallbackExchangeProofs -----------------------
(***************************************************************************)
(* Proofs about CallbackExchange, for any number of calls and repliers.    *)
(***************************************************************************)
EXTENDS CallbackExchange, TLAPS

-----------------------------------------------------------------------------
(* The inductive invariant.                                                 *)

\* Where the owner of a handler has not registered it with s yet ...
Before(s) == {"unborn", "reg_cancellation"} \cup
             (IF s = "interruption" THEN {"reg_interruption"} ELSE {})

\* ... and where it has removed the registration again.
After(s) == {"returned"} \cup
            (IF s = "interruption" THEN {"unreg_cancellation"} ELSE {})

\* A registration exists only between the two, and the loop of Request goes
\* over registrations that exist.
Registrations ==
  \A s \in Signals, h \in Handlers :
    /\ at[h] \in Before(s) => h \notin handlers[s] /\ called[s][h] = 0
    /\ at[h] \in After(s) => h \notin handlers[s]
    /\ h \in todo[s] => phase[s] = "calling" /\ h \in handlers[s]
    /\ h \in handlers[s] =>
         called[s][h] = IF phase[s] = "over" \/ (phase[s] = "calling" /\ h \notin todo[s])
                        THEN 1 ELSE 0
    /\ called[s][h] \in {0, 1}
    /\ called[s][h] = 1 => requested(s)

\* Before the request is in the log, and after Call has dealt with the reply.
Early == {"unborn", "reg_cancellation", "reg_interruption", "announce"}
Settled(k) == at[k] \in {"unreg_interruption", "unreg_cancellation", "returned"}

\* What is known of a call: only an announced one is answered, the first answer
\* is the reply, and no answer comes once the wait is over.
CallSound(k) ==
  /\ at[k] # "solve"
  /\ at[k] \in Early => payload[k] = "unsent"
  /\ at[k] \in {"wait", "clear", "forget"} => payload[k] # "unsent"
  /\ payload[k] = "unsent" =>
       /\ accepted[k] = {} /\ result[k] = NoReply
       /\ \A r \in Repliers : answering[r] # k
  /\ accepted[k] = {} => ~received[k] /\ reply[k] = NoReply
  /\ \A a \in accepted[k] : done[k] /\ received[k] /\ a[2] = reply[k]
  /\ \A a, b \in accepted[k] : a = b
  /\ ~Over(k) => result[k] = NoReply
  /\ Over(k) /\ payload[k] # "unsent" => done[k] /\ result[k] = reply[k]

CallProgress == \A k \in Calls : CallSound(k)

\* Who is blamed for a failure, and when somebody has to be.
Blame ==
  /\ transport_error # 0 => Settled(transport_error) /\ accepted[transport_error] = {}
  /\ \A k \in Calls :
       Settled(k) /\ accepted[k] = {} /\ (\A s \in Signals : ~requested(s)) =>
         transport_error # 0

\* The job's function returns after its calls.
SolveOutlivesCalls ==
  /\ at[Solver] \notin Early \cup {"solve"} =>
       \A k \in Calls : at[k] \in {"unborn", "returned"}
  /\ outcome # "pending" => at[Solver] = "returned"
  /\ outcome = "succeeded" => transport_error = 0

\* In between its handler is stored, or it has run, which ends the wait.
Reached ==
  /\ \A s \in Signals, h \in Handlers :
       at[h] \notin Before(s) \cup After(s) => h \in handlers[s] \/ called[s][h] = 1
  /\ \A s \in Signals, k \in Calls : called[s][k] = 1 => done[k]

\* The inductive invariant.
IndInv ==
  /\ TypeOK
  /\ Registrations
  /\ CallProgress
  /\ Blame
  /\ SolveOutlivesCalls

-----------------------------------------------------------------------------
(* The steps.                                                               *)

\* Every step keeps the types.
LEMMA StepType ==
  ASSUME CallbackAssumption, IndInv, [Next]_vars
  PROVE  TypeOK'
<1> USE CallbackAssumption DEF IndInv
<1>1. ASSUME NEW s \in Signals, Request(s) PROVE TypeOK'
  <2>1. /\ done' \in [Calls -> BOOLEAN]
        /\ UNCHANGED <<at, callbacks, received, reply, payload, transport_error,
                       outcome, result, reply_vars>>
    BY <1>1 DEF TypeOK, Request, Handle
  <2>2. SignalTypeOK'
    <3>1. CASE RequestExchange(s) \/ RequestLock(s) \/ RequestUnlock(s)
      BY <3>1 DEF TypeOK, SignalTypeOK, RequestExchange, RequestLock, RequestUnlock
    <3>2. ASSUME NEW h \in Handlers, RequestCall(s, h) PROVE SignalTypeOK'
      BY <3>2 DEF TypeOK, SignalTypeOK, RequestCall, Ran
    <3> QED BY <1>1, <3>1, <3>2 DEF Request
  <2> QED BY <2>1, <2>2 DEF TypeOK, reply_vars
<1>2. ASSUME NEW s \in Signals, NEW h \in Handlers, Register(s, h) PROVE TypeOK'
  <2>1. /\ done' \in [Calls -> BOOLEAN]
        /\ at' \in [Handlers -> Points]
        /\ UNCHANGED <<callbacks, received, reply, payload, transport_error,
                       outcome, result, reply_vars>>
    BY <1>2 DEF TypeOK, Points, Register, Registered, Handle, Goto
  <2>2. SignalTypeOK'
    <3>1. CASE RegisterRuns(s, h)
      BY <3>1 DEF TypeOK, SignalTypeOK, RegisterRuns, Ran
    <3>2. CASE RegisterStores(s, h)
      BY <3>2 DEF TypeOK, SignalTypeOK, RegisterStores
    <3> QED BY <1>2, <3>1, <3>2 DEF Register
  <2> QED BY <2>1, <2>2 DEF TypeOK, reply_vars
<1>3. ASSUME NEW s \in Signals, NEW h \in Handlers, Deregister(s, h) PROVE TypeOK'
  BY <1>3 DEF TypeOK, SignalTypeOK, Points, Deregister, Unregister, Free, Goto,
       reply_vars
<1>4. ASSUME NEW k \in Calls, Begin(k) PROVE TypeOK'
  BY <1>4 DEF TypeOK, SignalTypeOK, Points, Begin, Goto, signal_vars, reply_vars
<1>5. ASSUME NEW k \in Calls, Announce(k) PROVE TypeOK'
  BY <1>5 DEF TypeOK, SignalTypeOK, Points, Announce, Goto, signal_vars, reply_vars
<1>6. ASSUME NEW k \in Calls, AnnounceTooLarge(k) PROVE TypeOK'
  BY <1>6 DEF TypeOK, SignalTypeOK, Points, AnnounceTooLarge, Goto, signal_vars,
       reply_vars
<1>7. ASSUME NEW k \in Calls, Answered(k) PROVE TypeOK'
  BY <1>7 DEF TypeOK, SignalTypeOK, Points, Answered, TakeReply, Goto, signal_vars,
       reply_vars
<1>8. ASSUME NEW k \in Calls, TimeOut(k) PROVE TypeOK'
  BY <1>8 DEF TypeOK, SignalTypeOK, Points, TimeOut, TakeReply, Goto, signal_vars,
       reply_vars
<1>9. ASSUME NEW k \in Calls, Clear(k) PROVE TypeOK'
  BY <1>9 DEF TypeOK, SignalTypeOK, Points, Clear, Goto, signal_vars, reply_vars
<1>10. ASSUME NEW k \in Calls, Forget(k) PROVE TypeOK'
  BY <1>10 DEF TypeOK, SignalTypeOK, Points, Forget, Blames, Goto, signal_vars,
       reply_vars
<1>11. ASSUME SolveEnds PROVE TypeOK'
  BY <1>11 DEF TypeOK, SignalTypeOK, Points, SolveEnds, Goto, signal_vars, reply_vars
<1>12. ASSUME Conclude PROVE TypeOK'
  BY <1>12 DEF TypeOK, SignalTypeOK, Points, Conclude, Verdict, signal_vars, reply_vars
<1>13. ASSUME NEW r \in Repliers, NEW k \in Calls, Find(r, k) PROVE TypeOK'
  BY <1>13 DEF TypeOK, SignalTypeOK, Points, Find, signal_vars, call_vars
<1>14. ASSUME NEW r \in Repliers, Reject(r) PROVE TypeOK'
  BY <1>14 DEF TypeOK, SignalTypeOK, Points, Reject, signal_vars, call_vars
<1>15. ASSUME NEW r \in Repliers, NEW value \in {r, NoReply}, Accept(r, value)
      PROVE  TypeOK'
  <2>1. answering[r] \in Calls /\ value \in Repliers \cup {NoReply}
    BY <1>15 DEF TypeOK, Accept
  <2>2. accepted' = [accepted EXCEPT ![answering[r]] = @ \cup {<<r, value>>}]
    BY <1>15 DEF Accept
  <2>3. accepted' \in [Calls -> SUBSET (Repliers \X (Repliers \cup {NoReply}))]
    <3> DEFINE answer == <<r, value>>
    <3>1. answer \in Repliers \X (Repliers \cup {NoReply})
      BY <2>1
    <3>2. accepted' = [accepted EXCEPT ![answering[r]] = @ \cup {answer}]
      BY <2>2
    <3> HIDE DEF answer
    <3>3. accepted \in [Calls -> SUBSET (Repliers \X (Repliers \cup {NoReply}))]
      BY DEF TypeOK
    <3> QED BY <2>1, <3>1, <3>2, <3>3
  <2> QED BY <1>15, <2>1, <2>3 DEF TypeOK, SignalTypeOK, Accept, signal_vars
<1>16. ASSUME UNCHANGED vars PROVE TypeOK'
  BY <1>16 DEF TypeOK, SignalTypeOK, Points, vars, signal_vars, call_vars, reply_vars
<1> QED BY <1>1, <1>2, <1>3, <1>4, <1>5, <1>6, <1>7, <1>8, <1>9,
           <1>10, <1>11, <1>12, <1>13, <1>14, <1>15, <1>16
       DEF Next, Solve, Reply

\* No step leaves a registration behind or reaches one twice.
LEMMA StepRegistrations ==
  ASSUME CallbackAssumption, IndInv, [Next]_vars
  PROVE  Registrations'
<1> USE CallbackAssumption DEF IndInv
<1>1. ASSUME NEW s \in Signals, Request(s) PROVE Registrations'
  BY <1>1 DEF Registrations, Before, After, requested, TypeOK, SignalTypeOK,
       Request, RequestExchange, RequestLock, RequestCall, RequestUnlock, Ran,
       Handle, reply_vars
<1>2. ASSUME NEW s \in Signals, NEW h \in Handlers, Register(s, h) PROVE Registrations'
  <2>1. at[h] \in Before(s) /\ phase[s] # "calling"
        /\ at' = [at EXCEPT ![h] = Registered(s, h)]
    BY <1>2 DEF Register, RegisterRuns, RegisterStores, Free, Before, Goto
  <2>2. at'[h] \notin After(s)
    BY <2>1 DEF TypeOK, Registered, After
  <2>3. \A t \in Signals \ {s} :
          /\ at'[h] \in Before(t) => at[h] \in Before(t)
          /\ at'[h] \notin After(t)
    BY <1>2, <2>1 DEF TypeOK, Register, Registered, Before, After
  <2>4. at'[h] \notin Before(s)
    BY <1>2, <2>1 DEF TypeOK, Register, Registered, Before
  <2>5. \A g \in Handlers \ {h} : at'[g] = at[g]
    BY <2>1 DEF TypeOK
  <2>6. CASE RegisterRuns(s, h)
    <3>1. called[s][h] = 0 /\ h \notin handlers[s]
      BY <2>1 DEF Registrations
    <3>2. UNCHANGED <<phase, handlers, todo>> /\ phase[s] # "none"
      BY <2>6 DEF RegisterRuns, Reads
    <3>3. \A t \in Signals, g \in Handlers :
            called'[t][g] = IF t = s /\ g = h THEN 1 ELSE called[t][g]
      BY <2>6, <3>1 DEF TypeOK, SignalTypeOK, RegisterRuns, Ran
    <3> QED BY <2>1, <2>2, <2>3, <2>4, <2>5, <3>1, <3>2, <3>3 DEF Registrations, requested
  <2>7. CASE RegisterStores(s, h)
    <3>1. /\ UNCHANGED <<phase, called, todo>>
          /\ phase[s] \in {"none", "due"}
          /\ \A t \in Signals, g \in Handlers :
               g \in handlers'[t] <=> (g \in handlers[t] \/ (t = s /\ g = h))
      BY <2>1, <2>7 DEF TypeOK, SignalTypeOK, RegisterStores, Reads
    <3> QED BY <2>1, <2>2, <2>3, <2>4, <2>5, <3>1 DEF Registrations, requested
  <2> QED BY <1>2, <2>6, <2>7 DEF Register
<1>3. ASSUME NEW s \in Signals, NEW h \in Handlers, Deregister(s, h)
      PROVE  Registrations'
  BY <1>3 DEF Registrations, Before, After, requested, TypeOK, SignalTypeOK,
       Deregister, Unregister, Free, Goto, reply_vars
<1>4. ASSUME NEW k \in Calls, Begin(k) PROVE Registrations'
  BY <1>4 DEF Registrations, Before, After, requested, TypeOK, SignalTypeOK, Begin,
       Goto, signal_vars, reply_vars
<1>5. ASSUME NEW k \in Calls, Announce(k) PROVE Registrations'
  BY <1>5 DEF Registrations, Before, After, requested, TypeOK, SignalTypeOK,
       Announce, Goto, signal_vars, reply_vars
<1>6. ASSUME NEW k \in Calls, AnnounceTooLarge(k) PROVE Registrations'
  BY <1>6 DEF Registrations, Before, After, requested, TypeOK, SignalTypeOK,
       AnnounceTooLarge, Goto, signal_vars, reply_vars
<1>7. ASSUME NEW k \in Calls, Answered(k) PROVE Registrations'
  BY <1>7 DEF Registrations, Before, After, requested, TypeOK, SignalTypeOK,
       Answered, TakeReply, Goto, signal_vars, reply_vars
<1>8. ASSUME NEW k \in Calls, TimeOut(k) PROVE Registrations'
  BY <1>8 DEF Registrations, Before, After, requested, TypeOK, SignalTypeOK,
       TimeOut, TakeReply, Goto, signal_vars, reply_vars
<1>9. ASSUME NEW k \in Calls, Clear(k) PROVE Registrations'
  BY <1>9 DEF Registrations, Before, After, requested, TypeOK, SignalTypeOK, Clear,
       Goto, signal_vars, reply_vars
<1>10. ASSUME NEW k \in Calls, Forget(k) PROVE Registrations'
  BY <1>10 DEF Registrations, Before, After, requested, TypeOK, SignalTypeOK,
       Forget, Blames, Goto, signal_vars, reply_vars
<1>11. ASSUME SolveEnds PROVE Registrations'
  BY <1>11 DEF Registrations, Before, After, requested, TypeOK, SignalTypeOK,
       SolveEnds, Goto, signal_vars, reply_vars
<1>12. ASSUME Conclude PROVE Registrations'
  BY <1>12 DEF Registrations, Before, After, requested, TypeOK, SignalTypeOK,
       Conclude, Verdict, signal_vars, reply_vars
<1>13. ASSUME NEW r \in Repliers, NEW k \in Calls, Find(r, k) PROVE Registrations'
  BY <1>13 DEF Registrations, Before, After, requested, TypeOK, SignalTypeOK, Find,
       signal_vars, call_vars
<1>14. ASSUME NEW r \in Repliers, Reject(r) PROVE Registrations'
  BY <1>14 DEF Registrations, Before, After, requested, TypeOK, SignalTypeOK,
       Reject, signal_vars, call_vars
<1>15. ASSUME NEW r \in Repliers, NEW value \in {r, NoReply}, Accept(r, value)
      PROVE  Registrations'
  BY <1>15 DEF Registrations, Before, After, requested, TypeOK, SignalTypeOK,
       Accept, signal_vars
<1>16. ASSUME UNCHANGED vars PROVE Registrations'
  BY <1>16 DEF Registrations, Before, After, requested, TypeOK, SignalTypeOK, vars,
       signal_vars, call_vars, reply_vars
<1> QED BY <1>1, <1>2, <1>3, <1>4, <1>5, <1>6, <1>7, <1>8, <1>9,
           <1>10, <1>11, <1>12, <1>13, <1>14, <1>15, <1>16
       DEF Next, Solve, Reply

\* Every step keeps what is known of a call.
LEMMA StepCallProgress ==
  ASSUME CallbackAssumption, IndInv, [Next]_vars
  PROVE  CallProgress'
<1> USE CallbackAssumption DEF IndInv
<1>1. ASSUME NEW s \in Signals, Request(s) PROVE CallProgress'
  BY <1>1 DEF CallProgress, CallSound, Early, Over, TypeOK, SignalTypeOK, Request,
       RequestExchange, RequestLock, RequestCall, RequestUnlock, Ran, Handle,
       reply_vars
<1>2. ASSUME NEW s \in Signals, NEW h \in Handlers, Register(s, h) PROVE CallProgress'
  <2>1. /\ UNCHANGED <<received, reply, payload, result, answering, accepted>>
        /\ \A k \in Calls : done[k] => done'[k]
        /\ at' = [at EXCEPT ![h] = Registered(s, h)]
        /\ at[h] \in Early
    BY <1>2 DEF TypeOK, Register, Handle, Goto, reply_vars, Early
  <2>2. h \in Calls => Registered(s, h) \in Early \ {"unborn"}
    BY DEF Registered, Early
  <2> QED BY <2>1, <2>2 DEF CallProgress, CallSound, TypeOK, Over, Early
<1>3. ASSUME NEW s \in Signals, NEW h \in Handlers, Deregister(s, h) PROVE CallProgress'
  BY <1>3 DEF CallProgress, CallSound, Early, Over, TypeOK, SignalTypeOK,
       Deregister, Unregister, Free, Goto, reply_vars
<1>4. ASSUME NEW k \in Calls, Begin(k) PROVE CallProgress'
  BY <1>4 DEF CallProgress, CallSound, Early, Over, TypeOK, SignalTypeOK, Begin,
       Goto, signal_vars, reply_vars
<1>5. ASSUME NEW k \in Calls, Announce(k) PROVE CallProgress'
  BY <1>5 DEF CallProgress, CallSound, Early, Over, TypeOK, SignalTypeOK, Announce,
       Goto, signal_vars, reply_vars
<1>6. ASSUME NEW k \in Calls, AnnounceTooLarge(k) PROVE CallProgress'
  BY <1>6 DEF CallProgress, CallSound, Early, Over, TypeOK, SignalTypeOK,
       AnnounceTooLarge, Goto, signal_vars, reply_vars
<1>7. ASSUME NEW k \in Calls, Answered(k) PROVE CallProgress'
  BY <1>7 DEF CallProgress, CallSound, Early, Over, TypeOK, SignalTypeOK, Answered,
       TakeReply, Goto, signal_vars, reply_vars
<1>8. ASSUME NEW k \in Calls, TimeOut(k) PROVE CallProgress'
  BY <1>8 DEF CallProgress, CallSound, Early, Over, TypeOK, SignalTypeOK, TimeOut,
       TakeReply, Goto, signal_vars, reply_vars
<1>9. ASSUME NEW k \in Calls, Clear(k) PROVE CallProgress'
  BY <1>9 DEF CallProgress, CallSound, Early, Over, TypeOK, SignalTypeOK, Clear,
       Goto, signal_vars, reply_vars
<1>10. ASSUME NEW k \in Calls, Forget(k) PROVE CallProgress'
  BY <1>10 DEF CallProgress, CallSound, Early, Over, TypeOK, SignalTypeOK, Forget,
       Blames, Goto, signal_vars, reply_vars
<1>11. ASSUME SolveEnds PROVE CallProgress'
  BY <1>11 DEF CallProgress, CallSound, Early, Over, TypeOK, SignalTypeOK,
       SolveEnds, Goto, signal_vars, reply_vars
<1>12. ASSUME Conclude PROVE CallProgress'
  BY <1>12 DEF CallProgress, CallSound, Early, Over, TypeOK, SignalTypeOK, Conclude,
       Verdict, signal_vars, reply_vars
<1>13. ASSUME NEW r \in Repliers, NEW k \in Calls, Find(r, k) PROVE CallProgress'
  BY <1>13 DEF CallProgress, CallSound, Early, Over, TypeOK, SignalTypeOK, Find,
       signal_vars, call_vars
<1>14. ASSUME NEW r \in Repliers, Reject(r) PROVE CallProgress'
  BY <1>14 DEF CallProgress, CallSound, Early, Over, TypeOK, SignalTypeOK, Reject,
       signal_vars, call_vars
<1>15. ASSUME NEW r \in Repliers, NEW value \in {r, NoReply}, Accept(r, value)
      PROVE  CallProgress'
  <2>1. PICK k \in Calls : answering[r] = k /\ ~done[k] /\ payload[k] # "unsent"
    BY <1>15 DEF TypeOK, Accept, CallProgress, CallSound
  <2>2. accepted[k] = {} /\ ~Over(k) /\ at[k] \notin Early
    BY <2>1 DEF CallProgress, CallSound
  <2>3. UNCHANGED <<at, result>>
        /\ \A q \in Repliers : answering'[q] \in {0, answering[q]}
    BY <1>15 DEF TypeOK, Accept
  <2>4. /\ done'[k] /\ received'[k] /\ reply'[k] = value /\ payload'[k] = "released"
        /\ accepted'[k] = {<<r, value>>}
    BY <1>15, <2>1, <2>2 DEF TypeOK, Accept
  <2>5. \A j \in Calls \ {k} :
          /\ done'[j] = done[j] /\ received'[j] = received[j] /\ reply'[j] = reply[j]
          /\ payload'[j] = payload[j] /\ accepted'[j] = accepted[j]
    BY <1>15, <2>1 DEF TypeOK, Accept
  <2>6. \A j \in Calls, q \in Repliers : answering'[q] = j => answering[q] = j
    BY <2>3
  <2> DEFINE answer == <<r, value>>
  <2>7. accepted'[k] = {answer} /\ answer[2] = reply'[k]
    BY <2>4
  <2> HIDE DEF answer
  <2>8. CallSound(k)'
    BY <2>1, <2>2, <2>3, <2>4, <2>7 DEF CallProgress, CallSound, Over
  <2>9. ASSUME NEW j \in Calls \ {k} PROVE CallSound(j)'
    BY <2>3, <2>5, <2>6 DEF CallProgress, CallSound, Over
  <2> QED BY <2>8, <2>9 DEF CallProgress
<1>16. ASSUME UNCHANGED vars PROVE CallProgress'
  BY <1>16 DEF CallProgress, CallSound, Early, Over, TypeOK, SignalTypeOK, vars,
       signal_vars, call_vars, reply_vars
<1> QED BY <1>1, <1>2, <1>3, <1>4, <1>5, <1>6, <1>7, <1>8, <1>9,
           <1>10, <1>11, <1>12, <1>13, <1>14, <1>15, <1>16
       DEF Next, Solve, Reply

\* A call is blamed once it is over and was not answered.
LEMMA StepBlame ==
  ASSUME CallbackAssumption, IndInv, [Next]_vars
  PROVE  Blame'
<1> USE CallbackAssumption DEF IndInv
<1>1. ASSUME NEW s \in Signals, Request(s) PROVE Blame'
  BY <1>1 DEF Blame, Settled, CallProgress, CallSound, Over, Early, requested,
       TypeOK, SignalTypeOK, Request, RequestExchange, RequestLock, RequestCall,
       RequestUnlock, Ran, Handle, reply_vars
<1>2. ASSUME NEW s \in Signals, NEW h \in Handlers, Register(s, h) PROVE Blame'
  <2>1. /\ at[h] \in {"reg_cancellation", "reg_interruption"}
        /\ at' = [at EXCEPT ![h] = Registered(s, h)]
        /\ UNCHANGED <<transport_error, accepted>>
        /\ \A t \in Signals : requested(t) => requested(t)'
    BY <1>2 DEF Register, RegisterRuns, RegisterStores, Goto, requested, reply_vars
  <2>2. Registered(s, h) \in {"reg_interruption", "solve", "announce"}
    BY DEF Registered, CallbackAssumption
  <2>3. \A k \in Calls : Settled(k)' <=> Settled(k)
    BY <2>1, <2>2 DEF Settled, TypeOK
  <2> QED BY <2>1, <2>3 DEF Blame, TypeOK
<1>3. ASSUME NEW s \in Signals, NEW h \in Handlers, Deregister(s, h) PROVE Blame'
  BY <1>3 DEF Blame, Settled, CallProgress, CallSound, Over, Early, requested,
       TypeOK, SignalTypeOK, Deregister, Unregister, Free, Goto, reply_vars
<1>4. ASSUME NEW k \in Calls, Begin(k) PROVE Blame'
  BY <1>4 DEF Blame, Settled, CallProgress, CallSound, Over, Early, requested,
       TypeOK, SignalTypeOK, Begin, Goto, signal_vars, reply_vars
<1>5. ASSUME NEW k \in Calls, Announce(k) PROVE Blame'
  BY <1>5 DEF Blame, Settled, CallProgress, CallSound, Over, Early, requested,
       TypeOK, SignalTypeOK, Announce, Goto, signal_vars, reply_vars
<1>6. ASSUME NEW k \in Calls, AnnounceTooLarge(k) PROVE Blame'
  BY <1>6 DEF Blame, Settled, CallProgress, CallSound, Over, Early, requested,
       TypeOK, SignalTypeOK, AnnounceTooLarge, Goto, signal_vars, reply_vars
<1>7. ASSUME NEW k \in Calls, Answered(k) PROVE Blame'
  BY <1>7 DEF Blame, Settled, CallProgress, CallSound, Over, Early, requested,
       TypeOK, SignalTypeOK, Answered, TakeReply, Goto, signal_vars, reply_vars
<1>8. ASSUME NEW k \in Calls, TimeOut(k) PROVE Blame'
  BY <1>8 DEF Blame, Settled, CallProgress, CallSound, Over, Early, requested,
       TypeOK, SignalTypeOK, TimeOut, TakeReply, Goto, signal_vars, reply_vars
<1>9. ASSUME NEW k \in Calls, Clear(k) PROVE Blame'
  BY <1>9 DEF Blame, Settled, CallProgress, CallSound, Over, Early, requested,
       TypeOK, SignalTypeOK, Clear, Goto, signal_vars, reply_vars
<1>10. ASSUME NEW k \in Calls, Forget(k) PROVE Blame'
  BY <1>10 DEF Blame, Settled, CallProgress, CallSound, Over, Early, requested,
       TypeOK, SignalTypeOK, Forget, Blames, Goto, signal_vars, reply_vars
<1>11. ASSUME SolveEnds PROVE Blame'
  BY <1>11 DEF Blame, Settled, CallProgress, CallSound, Over, Early, requested,
       TypeOK, SignalTypeOK, SolveEnds, Goto, signal_vars, reply_vars
<1>12. ASSUME Conclude PROVE Blame'
  BY <1>12 DEF Blame, Settled, CallProgress, CallSound, Over, Early, requested,
       TypeOK, SignalTypeOK, Conclude, Verdict, signal_vars, reply_vars
<1>13. ASSUME NEW r \in Repliers, NEW k \in Calls, Find(r, k) PROVE Blame'
  BY <1>13 DEF Blame, Settled, CallProgress, CallSound, Over, Early, requested,
       TypeOK, SignalTypeOK, Find, signal_vars, call_vars
<1>14. ASSUME NEW r \in Repliers, Reject(r) PROVE Blame'
  BY <1>14 DEF Blame, Settled, CallProgress, CallSound, Over, Early, requested,
       TypeOK, SignalTypeOK, Reject, signal_vars, call_vars
<1>15. ASSUME NEW r \in Repliers, NEW value \in {r, NoReply}, Accept(r, value)
      PROVE  Blame'
  BY <1>15 DEF Blame, Settled, CallProgress, CallSound, Over, Early, requested,
       TypeOK, SignalTypeOK, Accept, signal_vars
<1>16. ASSUME UNCHANGED vars PROVE Blame'
  BY <1>16 DEF Blame, Settled, CallProgress, CallSound, Over, Early, requested,
       TypeOK, SignalTypeOK, vars, signal_vars, call_vars, reply_vars
<1> QED BY <1>1, <1>2, <1>3, <1>4, <1>5, <1>6, <1>7, <1>8, <1>9,
           <1>10, <1>11, <1>12, <1>13, <1>14, <1>15, <1>16
       DEF Next, Solve, Reply

\* No call goes on after the solve.
LEMMA StepSolveOutlivesCalls ==
  ASSUME CallbackAssumption, IndInv, [Next]_vars
  PROVE  SolveOutlivesCalls'
<1> USE CallbackAssumption DEF IndInv
<1>1. ASSUME NEW s \in Signals, Request(s) PROVE SolveOutlivesCalls'
  BY <1>1 DEF SolveOutlivesCalls, Blame, Settled, Early, TypeOK, SignalTypeOK,
       Points, Request, RequestExchange, RequestLock, RequestCall, RequestUnlock,
       Ran, Handle, reply_vars
<1>2. ASSUME NEW s \in Signals, NEW h \in Handlers, Register(s, h)
      PROVE  SolveOutlivesCalls'
  BY <1>2 DEF SolveOutlivesCalls, Blame, Settled, Early, TypeOK, SignalTypeOK,
       Points, Register, RegisterRuns, RegisterStores, Registered, Reads, Free, Ran,
       Handle, Goto, reply_vars
<1>3. ASSUME NEW s \in Signals, NEW h \in Handlers, Deregister(s, h)
      PROVE  SolveOutlivesCalls'
  BY <1>3 DEF SolveOutlivesCalls, Blame, Settled, Early, TypeOK, SignalTypeOK,
       Points, Deregister, Unregister, Free, Goto, reply_vars
<1>4. ASSUME NEW k \in Calls, Begin(k) PROVE SolveOutlivesCalls'
  BY <1>4 DEF SolveOutlivesCalls, Blame, Settled, Early, TypeOK, SignalTypeOK,
       Points, Begin, Goto, signal_vars, reply_vars
<1>5. ASSUME NEW k \in Calls, Announce(k) PROVE SolveOutlivesCalls'
  BY <1>5 DEF SolveOutlivesCalls, Blame, Settled, Early, TypeOK, SignalTypeOK,
       Points, Announce, Goto, signal_vars, reply_vars
<1>6. ASSUME NEW k \in Calls, AnnounceTooLarge(k) PROVE SolveOutlivesCalls'
  BY <1>6 DEF SolveOutlivesCalls, Blame, Settled, Early, TypeOK, SignalTypeOK,
       Points, AnnounceTooLarge, Goto, signal_vars, reply_vars
<1>7. ASSUME NEW k \in Calls, Answered(k) PROVE SolveOutlivesCalls'
  BY <1>7 DEF SolveOutlivesCalls, Blame, Settled, Early, TypeOK, SignalTypeOK,
       Points, Answered, TakeReply, Goto, signal_vars, reply_vars
<1>8. ASSUME NEW k \in Calls, TimeOut(k) PROVE SolveOutlivesCalls'
  BY <1>8 DEF SolveOutlivesCalls, Blame, Settled, Early, TypeOK, SignalTypeOK,
       Points, TimeOut, TakeReply, Goto, signal_vars, reply_vars
<1>9. ASSUME NEW k \in Calls, Clear(k) PROVE SolveOutlivesCalls'
  BY <1>9 DEF SolveOutlivesCalls, Blame, Settled, Early, TypeOK, SignalTypeOK,
       Points, Clear, Goto, signal_vars, reply_vars
<1>10. ASSUME NEW k \in Calls, Forget(k) PROVE SolveOutlivesCalls'
  BY <1>10 DEF SolveOutlivesCalls, Blame, Settled, Early, TypeOK, SignalTypeOK,
       Points, Forget, Blames, Goto, signal_vars, reply_vars
<1>11. ASSUME SolveEnds PROVE SolveOutlivesCalls'
  BY <1>11 DEF SolveOutlivesCalls, Blame, Settled, Early, TypeOK, SignalTypeOK,
       Points, SolveEnds, Goto, signal_vars, reply_vars
<1>12. ASSUME Conclude PROVE SolveOutlivesCalls'
  BY <1>12 DEF SolveOutlivesCalls, Blame, Settled, Early, TypeOK, SignalTypeOK,
       Points, Conclude, Verdict, signal_vars, reply_vars
<1>13. ASSUME NEW r \in Repliers, NEW k \in Calls, Find(r, k) PROVE SolveOutlivesCalls'
  BY <1>13 DEF SolveOutlivesCalls, Blame, Settled, Early, TypeOK, SignalTypeOK,
       Points, Find, signal_vars, call_vars
<1>14. ASSUME NEW r \in Repliers, Reject(r) PROVE SolveOutlivesCalls'
  BY <1>14 DEF SolveOutlivesCalls, Blame, Settled, Early, TypeOK, SignalTypeOK,
       Points, Reject, signal_vars, call_vars
<1>15. ASSUME NEW r \in Repliers, NEW value \in {r, NoReply}, Accept(r, value)
      PROVE  SolveOutlivesCalls'
  BY <1>15 DEF SolveOutlivesCalls, Blame, Settled, Early, TypeOK, SignalTypeOK,
       Points, Accept, signal_vars
<1>16. ASSUME UNCHANGED vars PROVE SolveOutlivesCalls'
  BY <1>16 DEF SolveOutlivesCalls, Blame, Settled, Early, TypeOK, SignalTypeOK,
       Points, vars, signal_vars, call_vars, reply_vars
<1> QED BY <1>1, <1>2, <1>3, <1>4, <1>5, <1>6, <1>7, <1>8, <1>9,
           <1>10, <1>11, <1>12, <1>13, <1>14, <1>15, <1>16
       DEF Next, Solve, Reply

\* Every step keeps a handler stored until it has run or its owner goes.
LEMMA StepReached ==
  ASSUME CallbackAssumption, IndInv, Reached, [Next]_vars
  PROVE  Reached'
<1> USE CallbackAssumption DEF IndInv
<1>1. ASSUME NEW s \in Signals, Request(s) PROVE Reached'
  <2>1. UNCHANGED <<at, handlers>> /\ \A k \in Calls : done[k] => done'[k]
    BY <1>1 DEF Request, RequestExchange, RequestLock, RequestCall, RequestUnlock, Handle,
       TypeOK
  <2>2. CASE UNCHANGED called
    BY <2>1, <2>2 DEF Reached, Before, After
  <2>3. ASSUME NEW h \in Handlers, RequestCall(s, h), Handle(h) PROVE Reached'
    <3>1. /\ called[s][h] = 0
          /\ \A t \in Signals, g \in Handlers :
               called'[t][g] = IF t = s /\ g = h THEN 1 ELSE called[t][g]
      BY <2>3 DEF TypeOK, SignalTypeOK, Registrations, RequestCall, Ran
    <3>2. h \in Calls => done'[h]
      BY <2>3 DEF Handle
    <3>3. \A t \in Signals, g \in Handlers :
            at'[g] \notin Before(t) \cup After(t) => g \in handlers'[t] \/ called'[t][g] = 1
      BY <2>1, <3>1 DEF Reached
    <3>4. ASSUME NEW t \in Signals, NEW k \in Calls, called'[t][k] = 1 PROVE done'[k]
      <4>1. k \in Handlers
        BY DEF CallbackAssumption
      <4>2. CASE k = h
        BY <3>2, <4>2
      <4>3. CASE k # h
        BY <2>1, <3>1, <3>4, <4>1, <4>3 DEF Reached
      <4> QED BY <4>2, <4>3
    <3> QED BY <3>3, <3>4 DEF Reached, Before, After
  <2> QED BY <1>1, <2>2, <2>3 DEF Request, RequestExchange, RequestLock, RequestUnlock
<1>2. ASSUME NEW s \in Signals, NEW h \in Handlers, Register(s, h) PROVE Reached'
  <2>1. /\ at[h] \in Before(s) /\ at' = [at EXCEPT ![h] = Registered(s, h)]
        /\ \A k \in Calls : done[k] => done'[k]
    BY <1>2 DEF Register, Before, Goto, Handle, TypeOK
  <2>2. \A t \in Signals \ {s} :
          at'[h] \notin Before(t) \cup After(t) => at[h] \notin Before(t) \cup After(t)
    <3>1. CASE s = "cancellation"
      <4>1. at'[h] = "reg_interruption"
        BY <2>1, <3>1 DEF TypeOK, Registered
      <4> QED BY <3>1, <4>1 DEF Before
    <3>2. CASE s = "interruption"
      <4>1. at[h] = "reg_interruption"
        BY <1>2, <3>2 DEF Register
      <4> QED BY <3>2, <4>1 DEF Before, After
    <3> QED BY <3>1, <3>2
  <2>3. \A g \in Handlers \ {h} : at'[g] = at[g]
    BY <2>1 DEF TypeOK
  <2>4. CASE RegisterRuns(s, h) /\ Handle(h)
    <3>1. called[s][h] = 0 /\ UNCHANGED handlers
      BY <2>1, <2>4 DEF Registrations, RegisterRuns
    <3>2. \A t \in Signals, g \in Handlers :
            called'[t][g] = IF t = s /\ g = h THEN 1 ELSE called[t][g]
      BY <2>4, <3>1 DEF TypeOK, SignalTypeOK, RegisterRuns, Ran
    <3>3. h \in Calls => done'[h]
      BY <2>4 DEF Handle
    <3>4. ASSUME NEW t \in Signals, NEW g \in Handlers,
                 at'[g] \notin Before(t) \cup After(t)
          PROVE  g \in handlers'[t] \/ called'[t][g] = 1
      <4>1. (t = s /\ g = h) \/ at[g] \notin Before(t) \cup After(t)
        BY <2>2, <2>3, <3>4 DEF Before, After
      <4> QED BY <3>1, <3>2, <4>1 DEF Reached
    <3> QED BY <2>1, <3>2, <3>3, <3>4 DEF Reached, Before, After
  <2>5. CASE RegisterStores(s, h)
    <3>1. /\ UNCHANGED called
          /\ \A t \in Signals, g \in Handlers :
               g \in handlers'[t] <=> (g \in handlers[t] \/ (t = s /\ g = h))
      BY <2>5 DEF TypeOK, SignalTypeOK, RegisterStores
    <3>2. ASSUME NEW t \in Signals, NEW g \in Handlers,
                 at'[g] \notin Before(t) \cup After(t)
          PROVE  g \in handlers'[t] \/ called'[t][g] = 1
      <4>1. (t = s /\ g = h) \/ at[g] \notin Before(t) \cup After(t)
        BY <2>2, <2>3, <3>2 DEF Before, After
      <4> QED BY <3>1, <4>1 DEF Reached
    <3> QED BY <2>1, <3>1, <3>2 DEF Reached, Before, After
  <2> QED BY <1>2, <2>4, <2>5 DEF Register
<1>3. ASSUME NEW s \in Signals, NEW h \in Handlers, Deregister(s, h)
      PROVE  Reached'
  BY <1>3 DEF Registrations, Reached, Before, After, requested, TypeOK, SignalTypeOK,
       Deregister, Unregister, Free, Goto, reply_vars
<1>4. ASSUME NEW k \in Calls, Begin(k) PROVE Reached'
  BY <1>4 DEF Registrations, Reached, Before, After, requested, TypeOK, SignalTypeOK, Begin,
       Goto, signal_vars, reply_vars
<1>5. ASSUME NEW k \in Calls, Announce(k) PROVE Reached'
  BY <1>5 DEF Registrations, Reached, Before, After, requested, TypeOK, SignalTypeOK,
       Announce, Goto, signal_vars, reply_vars
<1>6. ASSUME NEW k \in Calls, AnnounceTooLarge(k) PROVE Reached'
  BY <1>6 DEF Registrations, Reached, Before, After, requested, TypeOK, SignalTypeOK,
       AnnounceTooLarge, Goto, signal_vars, reply_vars
<1>7. ASSUME NEW k \in Calls, Answered(k) PROVE Reached'
  BY <1>7 DEF Registrations, Reached, Before, After, requested, TypeOK, SignalTypeOK,
       Answered, TakeReply, Goto, signal_vars, reply_vars
<1>8. ASSUME NEW k \in Calls, TimeOut(k) PROVE Reached'
  BY <1>8 DEF Registrations, Reached, Before, After, requested, TypeOK, SignalTypeOK,
       TimeOut, TakeReply, Goto, signal_vars, reply_vars
<1>9. ASSUME NEW k \in Calls, Clear(k) PROVE Reached'
  BY <1>9 DEF Registrations, Reached, Before, After, requested, TypeOK, SignalTypeOK, Clear,
       Goto, signal_vars, reply_vars
<1>10. ASSUME NEW k \in Calls, Forget(k) PROVE Reached'
  BY <1>10 DEF Registrations, Reached, Before, After, requested, TypeOK, SignalTypeOK,
       Forget, Blames, Goto, signal_vars, reply_vars
<1>11. ASSUME SolveEnds PROVE Reached'
  BY <1>11 DEF Registrations, Reached, Before, After, requested, TypeOK, SignalTypeOK,
       SolveEnds, Goto, signal_vars, reply_vars
<1>12. ASSUME Conclude PROVE Reached'
  BY <1>12 DEF Registrations, Reached, Before, After, requested, TypeOK, SignalTypeOK,
       Conclude, Verdict, signal_vars, reply_vars
<1>13. ASSUME NEW r \in Repliers, NEW k \in Calls, Find(r, k) PROVE Reached'
  BY <1>13 DEF Registrations, Reached, Before, After, requested, TypeOK, SignalTypeOK, Find,
       signal_vars, call_vars
<1>14. ASSUME NEW r \in Repliers, Reject(r) PROVE Reached'
  BY <1>14 DEF Registrations, Reached, Before, After, requested, TypeOK, SignalTypeOK,
       Reject, signal_vars, call_vars
<1>15. ASSUME NEW r \in Repliers, NEW value \in {r, NoReply}, Accept(r, value)
      PROVE  Reached'
  BY <1>15 DEF Registrations, Reached, Before, After, requested, TypeOK, SignalTypeOK,
       Accept, signal_vars
<1>16. ASSUME UNCHANGED vars PROVE Reached'
  BY <1>16 DEF Registrations, Reached, Before, After, requested, TypeOK, SignalTypeOK, vars,
       signal_vars, call_vars, reply_vars
<1> QED BY <1>1, <1>2, <1>3, <1>4, <1>5, <1>6, <1>7, <1>8, <1>9,
           <1>10, <1>11, <1>12, <1>13, <1>14, <1>15, <1>16
       DEF Next, Solve, Reply

-----------------------------------------------------------------------------
(* The theorems.                                                            *)

\* The invariant holds from the start, before anything is registered.
LEMMA InitInd ==
  ASSUME CallbackAssumption, Init
  PROVE  IndInv
<1> USE CallbackAssumption DEF Init, InitSignals
<1>1. TypeOK
  BY DEF TypeOK, SignalTypeOK, Points
<1>2. Registrations
  BY DEF Registrations, Before, After, requested
<1>3. CallProgress
  BY DEF CallProgress, CallSound, Over, Early
<1>4. Blame
  BY DEF Blame, Settled
<1>5. SolveOutlivesCalls
  BY DEF SolveOutlivesCalls, Early
<1> QED BY <1>1, <1>2, <1>3, <1>4, <1>5 DEF IndInv

\* It holds in every reachable state.
THEOREM CallbackIndInvHolds == Spec => []IndInv
<1>1. IndInv /\ [Next]_vars => IndInv'
  BY CallbackAssumption, StepType, StepRegistrations, StepCallProgress, StepBlame,
     StepSolveOutlivesCalls DEF IndInv
<1> QED BY <1>1, InitInd, CallbackAssumption, PTL DEF Spec

\* The type invariant, for any number of calls and repliers.
THEOREM CallbackTypeCorrect == Spec => []TypeOK
<1>1. IndInv => TypeOK
  BY DEF IndInv
<1> QED BY <1>1, CallbackIndInvHolds, PTL

\* JobCancellationState delivers a signal to each registered handler exactly
\* once, and never to a handler whose owner has gone.
THEOREM SignalsReachHandlersOnce == Spec => []SignalsDelivered
<1>1. IndInv => SignalsDelivered
  BY DEF IndInv, Registrations, SignalsDelivered
<1> QED BY <1>1, CallbackIndInvHolds, PTL

\* JobOutput::Call returns the one reply that was answered with 200.
THEOREM AcceptedReplyIsReturned == Spec => []AcceptedReplyReturned
<1>1. IndInv => AcceptedReplyReturned
  <2> SUFFICES ASSUME IndInv, NEW k \in Calls
               PROVE  /\ \A a, b \in accepted[k] : a = b
                      /\ Over(k) => \A a \in accepted[k] : result[k] = a[2]
                      /\ result[k] # NoReply => accepted[k] # {}
    BY DEF AcceptedReplyReturned
  <2>1. CallSound(k)
    BY DEF IndInv, CallProgress
  <2> QED BY <2>1 DEF CallSound
<1> QED BY <1>1, CallbackIndInvHolds, PTL

\* Between SolveEnds and Conclude the job's function fails a job over a question
\* that nobody answered, and never over one that was answered.
THEOREM LostCallbackIsBlamed == Spec => []BlameIsRight
<1>1. IndInv => BlameIsRight
  BY DEF IndInv, Blame, Settled, SolveOutlivesCalls, BlameIsRight
<1> QED BY <1>1, CallbackIndInvHolds, PTL

\* JobOutput::Call registers before it waits, so that a signal finds the handler or
\* the registration finds the signal: the part of SignalsEndWaits that needs no
\* fairness.
THEOREM SignalsReachEveryWait == Spec => []SignalsReachWaits
<1>1. Init => Reached
  BY CallbackAssumption DEF Init, InitSignals, Reached, Before, After
<1>2. IndInv /\ Reached /\ [Next]_vars => Reached'
  BY CallbackAssumption, StepReached
<1>3. IndInv /\ Reached => SignalsReachWaits
  BY CallbackAssumption DEF IndInv, Registrations, Reached, SignalsReachWaits, Before, After
<1> QED BY <1>1, <1>2, <1>3, CallbackIndInvHolds, PTL DEF Spec

=============================================================================
