-------------------------- MODULE CallbackExchange --------------------------
(***************************************************************************)
(* server/src/solver_job_service.cc, JobOutput::Call and                   *)
(* SolverJobService::Callback: a solver that needs an answer from the      *)
(* client announces the question in the event log and waits, for at most   *)
(* 30 seconds, while HTTP threads bring answers and either signal of the   *)
(* job may end the wait.  The executor's own handler is registered with    *)
(* both signals around the solve (mathopt_executor.cc).                    *)
(*                                                                         *)
(* PendingCallback::mutex and callbacks_mutex guard single steps; one that *)
(* is nested (Call holds the first while it appends) belongs to the step.  *)
(***************************************************************************)
EXTENDS JobSignals

CONSTANTS
  Calls,     \* BOUND: the ids of the callbacks the solver may make
  Repliers,  \* HTTP threads that carry a reply
  Solver     \* the executor's handler

ASSUME CallbackAssumption ==
  /\ Signals = {"cancellation", "interruption"}
  /\ Calls \subseteq Nat \ {0}
  /\ Solver \notin Calls
  /\ Handlers = Calls \cup {Solver}

VARIABLES
  at,               \* where the solve and each call of Call is
  callbacks,        \* JobOutput::callbacks: the ids that can be answered
  done,             \* PendingCallback::done
  received,         \* PendingCallback::received
  reply,            \* PendingCallback::reply, or NoReply
  payload,          \* the request's payload in the event log
  transport_error,  \* 0, or the call that set callback_transport_error
  outcome,          \* what the job's function returned
  answering,        \* the PendingCallback an HTTP thread has found, or 0
  accepted,         \* history: the replies that were answered with 200
  result            \* history: what Call returned

call_vars == <<at, callbacks, done, received, reply, payload, transport_error,
               outcome, result>>
reply_vars == <<answering, accepted>>
vars == <<signal_vars, call_vars, reply_vars>>

NoReply == "none"

\* Register cancellation, register interruption, announce, wait, ...; the
\* registrations are destroyed in the opposite order.
Points == {"unborn", "reg_cancellation", "reg_interruption", "announce", "wait",
           "solve", "clear", "forget", "unreg_interruption", "unreg_cancellation",
           "returned"}

Goto(h, point) == at' = [at EXCEPT ![h] = point]

Init ==
  /\ InitSignals
  /\ at = [h \in Handlers |-> IF h = Solver THEN "reg_cancellation" ELSE "unborn"]
  /\ callbacks = {}
  /\ done = [k \in Calls |-> FALSE]
  /\ received = [k \in Calls |-> FALSE]
  /\ reply = [k \in Calls |-> NoReply]
  /\ payload = [k \in Calls |-> "unsent"]
  /\ transport_error = 0
  /\ outcome = "pending"
  /\ answering = [r \in Repliers |-> 0]
  /\ accepted = [k \in Calls |-> {}]
  /\ result = [k \in Calls |-> NoReply]

\* What a handler does: Call's `stop`, or interrupting the solver.
Handle(h) == done' = [k \in Calls |-> done[k] \/ k = h]

-----------------------------------------------------------------------------
(* The signals.                                                             *)

Request(s) ==
  /\ \/ (RequestExchange(s) \/ RequestLock(s) \/ RequestUnlock(s)) /\ UNCHANGED done
     \/ \E h \in Handlers : RequestCall(s, h) /\ Handle(h)
  /\ UNCHANGED <<at, callbacks, received, reply, payload, transport_error, outcome,
                 result, reply_vars>>

\* Where the owner of h goes on after registering with s.
Registered(s, h) ==
  CASE s = "cancellation"                  -> "reg_interruption"
    [] s = "interruption" /\ h = Solver    -> "solve"
    [] s = "interruption" /\ h \in Calls   -> "announce"

Register(s, h) ==
  /\ at[h] = IF s = "cancellation" THEN "reg_cancellation" ELSE "reg_interruption"
  /\ \/ RegisterRuns(s, h) /\ Handle(h)
     \/ RegisterStores(s, h) /\ UNCHANGED done
  /\ Goto(h, Registered(s, h))
  /\ UNCHANGED <<callbacks, received, reply, payload, transport_error, outcome,
                 result, reply_vars>>

Deregister(s, h) ==
  /\ at[h] = IF s = "cancellation" THEN "unreg_cancellation" ELSE "unreg_interruption"
  /\ Unregister(s, h)
  /\ Goto(h, IF s = "cancellation" THEN "returned" ELSE "unreg_cancellation")
  /\ UNCHANGED <<callbacks, done, received, reply, payload, transport_error, outcome,
                 result, reply_vars>>

-----------------------------------------------------------------------------
(* Call.                                                                    *)

\* The solver asks; next_callback numbers the calls.
Begin(k) ==
  /\ at[Solver] = "solve"
  /\ at[k] = "unborn"
  /\ \A i \in Calls : i < k => at[i] # "unborn"
  /\ callbacks' = callbacks \cup {k}
  /\ Goto(k, "reg_cancellation")
  /\ UNCHANGED <<signal_vars, done, received, reply, payload, transport_error, outcome,
                 result, reply_vars>>

Announce(k) ==
  /\ at[k] = "announce"
  /\ payload' = [payload EXCEPT ![k] = "held"]
  /\ Goto(k, "wait")
  /\ UNCHANGED <<signal_vars, callbacks, done, received, reply, transport_error,
                 outcome, result, reply_vars>>

\* The request is larger than the event history: sequence id 0.
AnnounceTooLarge(k) ==
  /\ at[k] = "announce"
  /\ callbacks' = callbacks \ {k}
  /\ transport_error' = k
  /\ Goto(k, "unreg_interruption")
  /\ UNCHANGED <<signal_vars, done, received, reply, payload, outcome, result,
                 reply_vars>>

\* The reply is read in the section that ends the wait.
TakeReply(k) ==
  /\ result' = [result EXCEPT ![k] = reply[k]]
  /\ Goto(k, "clear")

Answered(k) ==
  /\ at[k] = "wait"
  /\ done[k]
  /\ TakeReply(k)
  /\ UNCHANGED <<signal_vars, callbacks, done, received, reply, payload,
                 transport_error, outcome, reply_vars>>

\* Mutant: a call that has timed out can still be answered.
TimeOutOpen(k) ==
  /\ at[k] = "wait"
  /\ ~done[k]
  /\ TakeReply(k)
  /\ UNCHANGED <<signal_vars, callbacks, done, received, reply, payload,
                 transport_error, outcome, reply_vars>>

\* 30 seconds have passed.
TimeOut(k) ==
  /\ at[k] = "wait"
  /\ ~done[k]
  /\ done' = [done EXCEPT ![k] = TRUE]
  /\ TakeReply(k)
  /\ UNCHANGED <<signal_vars, callbacks, received, reply, payload, transport_error,
                 outcome, reply_vars>>

Clear(k) ==
  /\ at[k] = "clear"
  /\ payload' = [payload EXCEPT ![k] = "released"]
  /\ Goto(k, "forget")
  /\ UNCHANGED <<signal_vars, callbacks, done, received, reply, transport_error,
                 outcome, result, reply_vars>>

\* Mutant: an answer that carries an error counts as no answer.
BlamesEmptyReply(k, seen) == reply[k] = NoReply /\ seen = {}

\* Nobody answered and no signal explains why.
Blames(k, seen) == ~received[k] /\ seen = {}

\* The flags are read without a lock: one that is set may be read as not yet
\* set, unless its handler has run and so ended this wait.
Forget(k) ==
  /\ at[k] = "forget"
  /\ callbacks' = callbacks \ {k}
  /\ \E seen \in SUBSET {s \in Signals : requested(s)} :
       /\ \A s \in Signals : called[s][k] > 0 => s \in seen
       /\ transport_error' = IF Blames(k, seen) THEN k ELSE transport_error
  /\ Goto(k, "unreg_interruption")
  /\ UNCHANGED <<signal_vars, done, received, reply, payload, outcome, result,
                 reply_vars>>

-----------------------------------------------------------------------------
(* The rest of the job's function.                                          *)

SolveEnds ==
  /\ at[Solver] = "solve"
  /\ \A k \in Calls : at[k] \in {"unborn", "returned"}
  /\ Goto(Solver, "unreg_interruption")
  /\ UNCHANGED <<signal_vars, callbacks, done, received, reply, payload,
                 transport_error, outcome, result, reply_vars>>

\* A transport error overrides what the executor returned.
Verdict == IF transport_error # 0 THEN "failed" ELSE "succeeded"

Conclude ==
  /\ at[Solver] = "returned"
  /\ outcome = "pending"
  /\ outcome' = Verdict
  /\ UNCHANGED <<signal_vars, at, callbacks, done, received, reply, payload,
                 transport_error, result, reply_vars>>

-----------------------------------------------------------------------------
(* Callback: an HTTP thread brings a reply to a request it has read.        *)

\* Looks the id up; an unknown one is answered 409 and changes nothing.
Find(r, k) ==
  /\ answering[r] = 0
  /\ payload[k] # "unsent"
  /\ k \in callbacks
  /\ answering' = [answering EXCEPT ![r] = k]
  /\ UNCHANGED <<signal_vars, call_vars, accepted>>

\* 409: it was answered, timed out or stopped in the meantime.
Reject(r) ==
  /\ answering[r] # 0
  /\ done[answering[r]]
  /\ answering' = [answering EXCEPT ![r] = 0]
  /\ UNCHANGED <<signal_vars, call_vars, accepted>>

\* 200; a reply that carries an error leaves `reply` empty.
Accept(r, value) ==
  /\ answering[r] # 0
  /\ ~done[answering[r]]
  /\ LET k == answering[r] IN
       /\ done' = [done EXCEPT ![k] = TRUE]
       /\ received' = [received EXCEPT ![k] = TRUE]
       /\ reply' = [reply EXCEPT ![k] = value]
       /\ payload' = [payload EXCEPT ![k] = "released"]
       /\ accepted' = [accepted EXCEPT ![k] = @ \cup {<<r, value>>}]
  /\ answering' = [answering EXCEPT ![r] = 0]
  /\ UNCHANGED <<signal_vars, at, callbacks, transport_error, outcome, result>>

-----------------------------------------------------------------------------

\* The solver thread's own steps; TimeOut is the clock's.
Solve ==
  \/ \E h \in Handlers, s \in Signals : Register(s, h) \/ Deregister(s, h)
  \/ \E k \in Calls : Answered(k) \/ Clear(k) \/ Forget(k)
                      \/ Announce(k) \/ AnnounceTooLarge(k)
  \/ Conclude

Reply(r) ==
  \/ \E k \in Calls : Find(r, k)
  \/ Reject(r) \/ Accept(r, r) \/ Accept(r, NoReply)

Next ==
  \/ \E s \in Signals : Request(s)
  \/ Solve \/ SolveEnds
  \/ \E k \in Calls : Begin(k) \/ TimeOut(k)
  \/ \E r \in Repliers : Reply(r)

Spec == Init /\ [][Next]_vars

\* Threads that have begun a call end it, each of which they do only so often.
\* Nobody has to reply or to request, and the clock is not needed.
FairSpec == Spec /\ WF_vars(Solve \/ \E s \in Signals : requested(s) /\ Request(s))

-----------------------------------------------------------------------------
(* Properties.                                                              *)

\* The type invariant.
TypeOK ==
  /\ SignalTypeOK
  /\ at \in [Handlers -> Points]
  /\ callbacks \subseteq Calls
  /\ done \in [Calls -> BOOLEAN]
  /\ received \in [Calls -> BOOLEAN]
  /\ reply \in [Calls -> Repliers \cup {NoReply}]
  /\ payload \in [Calls -> {"unsent", "held", "released"}]
  /\ transport_error \in Calls \cup {0}
  /\ outcome \in {"pending", "succeeded", "failed"}
  /\ answering \in [Repliers -> Calls \cup {0}]
  /\ accepted \in [Calls -> SUBSET (Repliers \X (Repliers \cup {NoReply}))]
  /\ result \in [Calls -> Repliers \cup {NoReply}]

Over(k) == at[k] \notin {"unborn", "reg_cancellation", "reg_interruption", "announce",
                         "wait"}

\* A reply that was answered 200 is the one the solver gets, however it races
\* the timeout, a signal and other replies; and no other is answered 200.
AcceptedReplyReturned ==
  \A k \in Calls :
    /\ \A a, b \in accepted[k] : a = b
    /\ Over(k) => \A a \in accepted[k] : result[k] = a[2]
    /\ result[k] # NoReply => accepted[k] # {}

\* A lost callback is blamed for the job's failure, and only a lost one: a job that
\* had a callback go unanswered, with no signal to explain it, does not succeed, and
\* a callback that was answered is never the one that is blamed.
BlameIsRight ==
  /\ transport_error # 0 => accepted[transport_error] = {}
  /\ (outcome = "succeeded" /\ \A s \in Signals : ~requested(s)) =>
       \A k \in Calls : at[k] = "returned" => accepted[k] # {}

\* Once a Request of either signal has run its handlers no call waits that is not
\* told to stop, however its registration raced the request.
SignalsReachWaits ==
  \A s \in Signals, k \in Calls : phase[s] = "over" /\ at[k] = "wait" => done[k]

\* A signal ends the waits of all callbacks before their timeout.
SignalsEndWaits ==
  (\E s \in Signals : requested(s)) ~> \A k \in Calls : at[k] # "wait"

=============================================================================
