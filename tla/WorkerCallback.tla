--------------------------- MODULE WorkerCallback ---------------------------
(***************************************************************************)
(* javascript/lib/solver_worker.ts, onCallback, and worker_helpers.ts,     *)
(* handleMessage, sendCallbackReply and stopCallbackReplies: one callback  *)
(* of a solver in a Web Worker.  The worker posts the question and blocks  *)
(* on shared memory; the parent's event loop runs the user's handler and   *)
(* sends the reply back in chunks.  Both sides use Atomics, so every       *)
(* access to the state word is a step of its own; the words a chunk        *)
(* consists of are written and read while the other side must stay away.   *)
(*                                                                         *)
(* Byte i of the reply is the number i.  The worker's own notify is left   *)
(* out: the parent polls and never waits.  So is a worker that is killed:  *)
(* nobody is left to return to.                                            *)
(***************************************************************************)
EXTENDS Integers, FiniteSetsExt

CONSTANTS
  ChunkSize,  \* WORKER_CALLBACK_REPLY_CHUNK_SIZE
  MaxLength   \* BOUND: the longest reply

ASSUME ChunkAssumption == ChunkSize \in Nat \ {0} /\ MaxLength \in Nat

VARIABLES
  state,       \* control[0]
  count,       \* control[1]: bytes in the buffer
  total,       \* control[2]: bytes of the whole reply
  buffer,      \* the shared bytes behind the control words
  parent,      \* where the parent's event loop is with this callback
  listed,      \* the control words are in callbackReplies
  reply,       \* length of the handler's reply
  sent,        \* sendCallbackReply: offset
  worker,      \* where the worker is, and in the end how the call ended
  taken,       \* onCallback: offset
  bytes,       \* onCallback: bytes
  threw,       \* history: the user's handler threw
  broken_off   \* history: a deadline passed or the transfer was stopped

parent_vars == <<parent, listed, reply, sent, threw>>
worker_vars == <<worker, taken, bytes>>
vars == <<state, count, total, buffer, parent_vars, worker_vars, broken_off>>

Free == 0        \* the buffer belongs to the parent
Published == 1   \* the buffer belongs to the worker
Complete == 2
Threw == -1      \* the handler threw
Failed == -2     \* the transport failed or was stopped

Over == {"replied", "handler_failed", "transport_failed"}

Init ==
  /\ state = Free
  /\ count = 0
  /\ total = 0
  /\ buffer = [i \in 1..ChunkSize |-> 0]
  /\ parent = "message"
  /\ listed = FALSE
  /\ reply = 0
  /\ sent = 0
  /\ worker = "wait"
  /\ taken = 0
  /\ bytes = [i \in 1..MaxLength |-> 0]
  /\ threw = FALSE
  /\ broken_off = FALSE

\* Atomics.notify wakes a sleeper whatever the state word says.
Notify == worker' = IF worker = "asleep" THEN "look" ELSE worker

-----------------------------------------------------------------------------
(* The parent.                                                              *)

Receive ==
  /\ parent = "message"
  /\ parent' = IF state = Free THEN "handle" ELSE "done"
  /\ listed' = (state = Free)
  /\ UNCHANGED <<state, count, total, buffer, reply, sent, worker_vars, threw,
                 broken_off>>

\* The handler returns n bytes.
Handle(n) ==
  /\ parent = "handle"
  /\ reply' = n
  /\ total' = n
  /\ parent' = "poll"
  /\ UNCHANGED <<state, count, buffer, listed, sent, worker_vars, threw, broken_off>>

HandlerThrows ==
  /\ parent = "handle"
  /\ threw' = TRUE
  /\ parent' = "report"
  /\ UNCHANGED <<state, count, total, buffer, listed, reply, sent, worker_vars,
                 broken_off>>

\* The job has no handler or is over, or the reply is not a byte array.
NoReply ==
  /\ parent = "handle"
  /\ parent' = "report"
  /\ UNCHANGED <<state, count, total, buffer, listed, reply, sent, worker_vars, threw,
                 broken_off>>

\* Mutant: a job without a handler is reported like a handler that threw.
ThrewAlways == Threw

FailureState == IF threw THEN Threw ELSE Failed

Report ==
  /\ parent = "report"
  /\ state' = IF state = Free THEN FailureState ELSE state
  /\ parent' = "notify_end"
  /\ UNCHANGED <<count, total, buffer, listed, reply, sent, worker_vars, threw,
                 broken_off>>

NotifyEnd ==
  /\ parent = "notify_end"
  /\ Notify
  /\ parent' = "done"
  /\ listed' = FALSE
  /\ UNCHANGED <<state, count, total, buffer, reply, sent, taken, bytes, threw,
                 broken_off>>

\* Mutant: does not wait until the worker has taken the chunk.
PollAhead ==
  /\ parent = "poll"
  /\ parent' = IF state \in {Free, Published} THEN "fill" ELSE "done"
  /\ listed' = (listed /\ state \in {Free, Published})
  /\ UNCHANGED <<state, count, total, buffer, reply, sent, worker_vars, threw,
                 broken_off>>

\* Waits until the worker has taken the last chunk; stops if it is gone.
Poll ==
  /\ parent = "poll"
  /\ parent' = CASE state = Published -> "await"
                 [] state = Free -> "fill"
                 [] OTHER -> "done"
  /\ listed' = (listed /\ state \in {Free, Published})
  /\ UNCHANGED <<state, count, total, buffer, reply, sent, worker_vars, threw,
                 broken_off>>

\* The worker has not taken the chunk in 30 seconds.
GiveUp ==
  /\ parent = "poll"
  /\ state = Published
  /\ parent' = "give_up"
  /\ UNCHANGED <<state, count, total, buffer, listed, reply, sent, worker_vars, threw,
                 broken_off>>

CloseTransfer ==
  /\ parent = "give_up"
  /\ state' = Failed
  /\ broken_off' = TRUE
  /\ parent' = "notify_end"
  /\ UNCHANGED <<count, total, buffer, listed, reply, sent, worker_vars, threw>>

Resume ==
  /\ parent = "await"
  /\ parent' = "poll"
  /\ UNCHANGED <<state, count, total, buffer, listed, reply, sent, worker_vars, threw,
                 broken_off>>

\* Between two polls the event loop may run stopCallbackReplies, because an event
\* of the job could not be delivered or the worker is terminated.
Stop ==
  /\ parent = "await"
  /\ listed
  /\ state' = Failed
  /\ broken_off' = TRUE
  /\ parent' = "notify_stop"
  /\ UNCHANGED <<count, total, buffer, listed, reply, sent, worker_vars, threw>>

NotifyStop ==
  /\ parent = "notify_stop"
  /\ Notify
  /\ listed' = FALSE
  /\ parent' = "await"
  /\ UNCHANGED <<state, count, total, buffer, reply, sent, taken, bytes, threw,
                 broken_off>>

NextChunk == Min({ChunkSize, reply - sent})

Fill ==
  /\ parent = "fill"
  /\ buffer' = [i \in 1..ChunkSize |-> IF i <= NextChunk THEN sent + i ELSE buffer[i]]
  /\ count' = NextChunk
  /\ parent' = "publish"
  /\ UNCHANGED <<state, total, listed, reply, sent, worker_vars, threw, broken_off>>

\* compareExchange: a worker that has given up is left alone.
Publish ==
  /\ parent = "publish"
  /\ state' = IF state = Free THEN Published ELSE state
  /\ parent' = "notify"
  /\ UNCHANGED <<count, total, buffer, listed, reply, sent, worker_vars, threw,
                 broken_off>>

\* Mutant: the worker is not woken.
ChunkUnnotified ==
  /\ parent = "notify"
  /\ sent' = sent + count
  /\ parent' = IF sent' < reply THEN "poll" ELSE "done"
  /\ listed' = (listed /\ sent' < reply)
  /\ UNCHANGED <<state, count, total, buffer, reply, worker_vars, threw, broken_off>>

NotifyChunk ==
  /\ parent = "notify"
  /\ Notify
  /\ sent' = sent + count
  /\ parent' = IF sent' < reply THEN "poll" ELSE "done"
  /\ listed' = (listed /\ sent' < reply)
  /\ UNCHANGED <<state, count, total, buffer, reply, taken, bytes, threw, broken_off>>

-----------------------------------------------------------------------------
(* The worker.                                                              *)

\* Atomics.wait sleeps only if the state word is Free.
Wait ==
  /\ worker = "wait"
  /\ worker' = IF state = Free THEN "asleep" ELSE "look"
  /\ UNCHANGED <<state, count, total, buffer, parent_vars, taken, bytes, broken_off>>

\* 30 seconds have passed.
TimeOut ==
  /\ worker = "asleep"
  /\ worker' = "close"
  /\ UNCHANGED <<state, count, total, buffer, parent_vars, taken, bytes, broken_off>>

Close ==
  /\ worker = "close"
  /\ state' = Failed
  /\ broken_off' = TRUE
  /\ worker' = "transport_failed"
  /\ UNCHANGED <<count, total, buffer, parent_vars, taken, bytes>>

\* The state word is loaded twice.
Look ==
  /\ worker = "look"
  /\ worker' = IF state = Failed THEN "transport_failed" ELSE "look_again"
  /\ UNCHANGED <<state, count, total, buffer, parent_vars, taken, bytes, broken_off>>

LookAgain ==
  /\ worker = "look_again"
  /\ worker' = IF state = Published THEN "copy" ELSE "handler_failed"
  /\ UNCHANGED <<state, count, total, buffer, parent_vars, taken, bytes, broken_off>>

Copy ==
  /\ worker = "copy"
  /\ bytes' = [i \in 1..MaxLength |->
                 IF i \in taken + 1 .. taken + count THEN buffer[i - taken] ELSE bytes[i]]
  /\ taken' = taken + count
  /\ worker' = "acknowledge"
  /\ UNCHANGED <<state, count, total, buffer, parent_vars, broken_off>>

\* An unconditional store, whatever the parent has stored in the meantime.
Acknowledge ==
  /\ worker = "acknowledge"
  /\ state' = IF taken = total THEN Complete ELSE Free
  /\ worker' = IF taken < total THEN "wait" ELSE "replied"
  /\ UNCHANGED <<count, total, buffer, parent_vars, taken, bytes, broken_off>>

-----------------------------------------------------------------------------

Parent ==
  \/ Receive \/ HandlerThrows \/ NoReply \/ \E n \in 0..MaxLength : Handle(n)
  \/ Report \/ NotifyEnd
  \/ Poll \/ CloseTransfer \/ Resume \/ NotifyStop
  \/ Fill \/ Publish \/ NotifyChunk

Worker == Wait \/ Close \/ Look \/ LookAgain \/ Copy \/ Acknowledge

\* The clock's steps and the stop are nobody's duty.
Next == Parent \/ Worker \/ GiveUp \/ Stop \/ TimeOut

Spec == Init /\ [][Next]_vars

\* Both threads run, and the handler returns; no deadline has to pass.
FairSpec == Spec /\ WF_vars(Parent) /\ WF_vars(Worker)

-----------------------------------------------------------------------------
(* Properties.                                                              *)

\* The type invariant.
TypeOK ==
  /\ state \in {Free, Published, Complete, Threw, Failed}
  /\ count \in 0..ChunkSize
  /\ total \in 0..MaxLength
  /\ buffer \in [1..ChunkSize -> 0..MaxLength]
  /\ parent \in {"message", "handle", "report", "notify_end", "poll", "give_up", "await",
                 "notify_stop", "fill", "publish", "notify", "done"}
  /\ listed \in BOOLEAN
  /\ reply \in 0..MaxLength
  /\ sent \in 0..MaxLength
  /\ worker \in {"wait", "asleep", "close", "look", "look_again", "copy",
                 "acknowledge"} \cup Over
  /\ taken \in 0..MaxLength
  /\ bytes \in [1..MaxLength -> 0..MaxLength]
  /\ threw \in BOOLEAN
  /\ broken_off \in BOOLEAN

\* A reply the solver gets is the handler's, whole and in order, however
\* chunks, acknowledgements, deadlines and stops interleave.
RepliesIntact ==
  worker = "replied" =>
    /\ ~threw
    /\ taken = reply
    /\ \A i \in 1..reply : bytes[i] = i

\* The handler is blamed for a reply of one chunk only if it threw, unless the
\* transfer is broken off while the worker looks at it.
SmallReplyNotBlamed ==
  worker = "handler_failed" /\ ~broken_off => threw \/ reply > ChunkSize

\* What the tests say of replies of every size: a handler that did not throw
\* is not reported to have failed.
HandlerBlamedOnlyIfThrew ==
  worker = "handler_failed" /\ ~broken_off => threw

\* No wake-up is lost: a worker that sleeps although the state word has changed is
\* about to be notified, and the parent is never done with a call whose worker
\* sleeps, unless the transfer was broken off.
SleeperIsWoken ==
  worker = "asleep" =>
    /\ state # Free => parent \in {"notify", "notify_end", "notify_stop"}
    /\ parent = "done" => broken_off

\* A call ends without the help of a deadline, unless one breaks it off.
CallEnds == worker = "wait" ~> worker \in Over \/ broken_off

=============================================================================
