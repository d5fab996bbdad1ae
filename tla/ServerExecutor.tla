--------------------------- MODULE ServerExecutor ---------------------------
(***************************************************************************)
(* javascript/lib/solver_server_executor.ts: one call of execute(), against*)
(* the JobService.  The client is a single thread; a step is what it does  *)
(* between two awaits, or less: a batch of events is read one by one.  An  *)
(* HTTP request is in flight in `answer` until the server handles it, when *)
(* the answer is there until the client reads it; an answer may be lost    *)
(* before or after the server acts.  Nothing is assumed of the network.    *)
(***************************************************************************)
EXTENDS JobService

CONSTANT Modes   \* the kinds of operation that may be executed, see Kind

\* "solve": CP-SAT, or a solver that only cancels; streams.
\* "callbacks": MathOpt with onCallback; polls, and only ever interrupts.
\* "create": MathOpt with onAbandonedResult, which makes a native session.
Kind == {"solve", "callbacks", "create"}

ASSUME ServerExecutorAssumption == Modes \subseteq Kind /\ MaxHistory \in Nat

VARIABLES
  mode,        \* what is executed; fixed
  submission,  \* "sent", then the answer: "ok" or "refused"; "failed", "known"
  pc,          \* where run() waits
  answer,      \* of the current request: "none" until the server handles it
  cursor,      \* sequenceId: the last response that was handled
  received,    \* the last response that has arrived
  again,       \* pollImmediately
  delivered,   \* sequence ids of the responses handed to the observers, in order
  terminal,    \* "none", "result" or "failure": the terminal response that was read
  cancelled, interrupted, abandoned,
  aborted,     \* controller.signal.aborted
  timer,       \* stopTimeout is set
  stopping,    \* stopRequest exists
  late,        \* a job that nobody waits for was told to stop
  controls,    \* cancel and interrupt requests in flight
  outcome,     \* of the promise the caller holds
  disposed     \* onAbandonedResult has the result

stop_vars == <<cancelled, interrupted, abandoned, aborted, timer, stopping, late>>
read_vars == <<cursor, received, again, delivered, terminal>>
vars == <<service_vars, mode, submission, pc, answer, read_vars, stop_vars,
          controls, outcome, disposed>>

Native == mode # "solve"       \* codec.solver === 'mathopt'
Creates == mode = "create"     \* options.onAbandonedResult
Settled == submission \in {"known", "failed"}
Finished == pc = "done"

Init ==
  /\ ServiceInit
  /\ mode \in Modes
  /\ submission = "sent"
  /\ pc = "submit"
  /\ answer = "none"
  /\ cursor = 0 /\ received = 0 /\ again = FALSE
  /\ delivered = <<>>
  /\ terminal = "none"
  /\ cancelled = FALSE /\ interrupted = FALSE /\ abandoned = FALSE
  /\ aborted = FALSE /\ timer = FALSE /\ stopping = FALSE /\ late = FALSE
  /\ controls = {}
  /\ outcome = "pending"
  /\ disposed = FALSE

-----------------------------------------------------------------------------
(* Stopping.                                                                *)

\* The promise of the caller is settled once; later attempts change nothing.
Settle(value) == outcome' = IF outcome = "pending" THEN value ELSE outcome

\* run() ends with an error, which is reported before the promise is settled.
Fail(value) ==
  /\ pc' = "done"
  /\ timer' = FALSE
  /\ Settle(value)

\* The request that stops the job.
StopRequest(abort) == IF Native \/ ~abort THEN "interrupt" ELSE "cancel"

\* All calls of stop() share one request.
SendStop(abort) ==
  /\ stopping' = TRUE
  /\ controls' = IF stopping THEN controls ELSE controls \cup {StopRequest(abort)}

\* Mutant: the deadline is only set once the job is known.
ArmsWhenKnown(abort) == Settled

\* stop(abort) sets the 30 second deadline.
Arms(abort) == Settled \/ ~abort

\* cancel() and interrupt() of the job.  A creation that is cancelled runs on
\* for the hook; a job that is not known yet can only be given up.
Stop(abort) ==
  /\ ~Finished /\ terminal = "none"
  /\ cancelled' = (cancelled \/ abort)
  /\ interrupted' = (interrupted \/ ~abort)
  /\ \/ /\ abandoned \/ (abort /\ Creates)
        /\ abandoned' = TRUE
        /\ timer' = FALSE
        /\ Settle("cancelled")
        /\ UNCHANGED <<stopping, controls, aborted, pc>>
     \/ /\ ~abandoned /\ ~(abort /\ Creates)
        /\ IF Settled THEN SendStop(abort) ELSE UNCHANGED <<stopping, controls>>
        /\ IF abort /\ ~Settled
           THEN aborted' = TRUE /\ Fail("cancelled")
           ELSE timer' = (timer \/ Arms(abort)) /\ UNCHANGED <<aborted, pc, outcome>>
        /\ UNCHANGED abandoned
  /\ UNCHANGED <<service_vars, mode, submission, answer, read_vars, late, disposed>>

\* The deadline passes: the operation is given up, or left to the hook.
Deadline ==
  /\ timer
  /\ timer' = FALSE
  /\ IF Creates THEN abandoned' = TRUE /\ UNCHANGED <<aborted, pc>>
                ELSE aborted' = TRUE /\ pc' = "done" /\ UNCHANGED abandoned
  /\ Settle(IF cancelled THEN "cancelled" ELSE "timeout")
  /\ UNCHANGED <<service_vars, mode, submission, answer, read_vars, cancelled,
                 interrupted, stopping, late, controls, disposed>>

\* A stop request arrives, if ever.
HandleControl ==
  /\ \E op \in controls :
       /\ controls' = controls \ {op}
       /\ IF op = "cancel" THEN Cancel ELSE Interrupt
  /\ UNCHANGED <<mode, submission, pc, answer, read_vars, stop_vars, outcome, disposed>>

-----------------------------------------------------------------------------
(* Submission.                                                              *)

HandleSubmit ==
  /\ submission = "sent"
  /\ Submit(submission')
  /\ submission' \in {"ok", "refused"}
  /\ UNCHANGED <<mode, pc, answer, read_vars, stop_vars, controls, outcome, disposed>>

LoseSubmission ==
  /\ submission \in {"sent", "ok"}
  /\ submission' = "refused"
  /\ UNCHANGED <<service_vars, mode, pc, answer, read_vars, stop_vars, controls,
                 outcome, disposed>>

Refused ==
  /\ submission = "refused"
  /\ submission' = "failed"
  /\ IF pc = "submit" THEN Fail("error") ELSE UNCHANGED <<pc, timer, outcome>>
  /\ UNCHANGED <<service_vars, mode, answer, read_vars, cancelled, interrupted,
                 abandoned, aborted, stopping, late, controls, disposed>>

\* Mutant: an interruption from before the job was known is forgotten.
StopsLateOnlyAborted ==
  IF aborted
  THEN /\ late' = TRUE
       /\ controls' = controls \cup {StopRequest(TRUE)}
       /\ UNCHANGED stopping
  ELSE UNCHANGED <<late, controls, stopping>>

\* What was asked while the submission was under way is done now.
StopsLate ==
  CASE aborted ->
         /\ late' = TRUE
         /\ controls' = controls \cup {StopRequest(TRUE)}
         /\ UNCHANGED stopping
    [] ~aborted /\ interrupted /\ ~abandoned -> SendStop(FALSE) /\ UNCHANGED late
    [] OTHER -> UNCHANGED <<late, controls, stopping>>

\* Mutant: an abandoned operation still reports to its observers.
DeliversAlways(id) == delivered' = Append(delivered, id)

\* onEvent: status and solver events, and callbacks in their place.
Delivers(id) == delivered' = IF abandoned THEN delivered ELSE Append(delivered, id)

\* The acceptance is the first response of the job.
Accepted ==
  /\ submission = "ok"
  /\ submission' = "known"
  /\ StopsLate
  /\ IF pc = "submit"
     THEN /\ cursor' = 1 /\ received' = 1
          /\ Delivers(1)
          /\ pc' = IF mode = "callbacks" THEN "events" ELSE "stream"
     ELSE UNCHANGED <<cursor, received, delivered, pc>>
  /\ UNCHANGED <<service_vars, mode, answer, again, terminal, cancelled, interrupted,
                 abandoned, aborted, timer, outcome, disposed>>

-----------------------------------------------------------------------------
(* Reading.                                                                 *)

\* The server handles the request at which run() waits.
HandleRequest ==
  /\ answer = "none"
  /\ \/ /\ pc = "stream"
        /\ answer' \in StreamAnswers(cursor)
        /\ UNCHANGED <<service_vars, received>>
     \/ /\ pc = "events"
        /\ answer' = EventsAnswer(cursor)
        /\ received' = IF answer' = "ok" THEN Len(history) ELSE received
        /\ UNCHANGED service_vars
     \/ /\ pc = "result"
        /\ answer' = ResultAnswer
        /\ UNCHANGED <<service_vars, received>>
     \/ /\ pc = "reply"
        /\ answer' = CallbackAnswer(cursor)
        /\ Callback(cursor)
        /\ UNCHANGED received
     \/ /\ pc = "release"
        /\ answer' = "ok"
        /\ Release
        /\ UNCHANGED received
  /\ UNCHANGED <<mode, submission, pc, cursor, again, delivered, terminal, stop_vars,
                 controls, outcome, disposed>>

\* A request or its answer is lost, or a callback reply misses its deadline.
LoseRequest ==
  /\ pc \in {"stream", "events", "result", "reply"} /\ answer # "lost"
  /\ answer' = "lost"
  /\ received' = cursor
  /\ UNCHANGED <<service_vars, mode, submission, pc, cursor, again, delivered,
                 terminal, stop_vars, controls, outcome, disposed>>

\* The server's end of a stream sends the next response, or closes.
StreamSends ==
  /\ pc = "streaming" /\ answer = "ok"
  /\ \/ /\ received >= floor /\ received < Len(history)
        /\ received' = received + 1
        /\ UNCHANGED answer
     \/ /\ received < floor \/ (closed /\ received = Len(history))
        /\ answer' = "closed"
        /\ UNCHANGED received
  /\ UNCHANGED <<service_vars, mode, submission, pc, cursor, again, delivered,
                 terminal, stop_vars, controls, outcome, disposed>>

\* The connection of a stream breaks; what was on its way may be lost.
StreamBreaks ==
  /\ pc = "streaming" /\ answer = "ok"
  /\ answer' = "closed"
  /\ received' \in cursor..received
  /\ UNCHANGED <<service_vars, mode, submission, pc, cursor, again, delivered,
                 terminal, stop_vars, controls, outcome, disposed>>

\* run() goes on to its next request.
Goto(next) ==
  /\ pc' = next
  /\ answer' = "none"
  /\ UNCHANGED <<service_vars, mode, submission, stop_vars, controls, outcome, disposed>>

StreamAnswered ==
  /\ pc = "stream" /\ answer \in {"ok", "missing", "conflict", "refused", "lost"}
  /\ IF answer = "ok"
     THEN pc' = "streaming" /\ UNCHANGED <<service_vars, mode, submission, answer,
                                           stop_vars, controls, outcome, disposed>>
     ELSE Goto("events")
  /\ UNCHANGED read_vars

\* Mutant: polling starts where the stream started.
ResumeAtStart == 1

\* Where polling resumes after a stream.
ResumeAt == cursor

StreamEnds ==
  /\ pc = "streaming" /\ answer = "closed" /\ cursor = received
  /\ Goto("events")
  /\ cursor' = ResumeAt
  /\ UNCHANGED <<received, again, delivered, terminal>>

EventsAnswered ==
  /\ pc = "events" /\ answer = "ok"
  /\ pc' = "batch"
  /\ UNCHANGED <<service_vars, mode, submission, answer, read_vars, stop_vars,
                 controls, outcome, disposed>>

\* After a callback the events are read again before the result is asked for.
BatchEnds ==
  /\ pc = "batch" /\ cursor = received
  /\ Goto(IF again THEN "events" ELSE "result")
  /\ again' = FALSE
  /\ UNCHANGED <<cursor, received, delivered, terminal>>

\* The errors of run(): 410 and a failed callback reply also cancel the job.
RequestFails ==
  /\ \/ answer = "expired" /\ pc \in {"stream", "events"}
     \/ answer \in {"missing", "lost"} /\ pc \in {"events", "result", "reply"}
  /\ Fail("error")
  /\ IF (answer = "expired" /\ ~Creates) \/ pc = "reply"
     THEN late' = TRUE /\ controls' = controls \cup {"cancel"}
     ELSE UNCHANGED <<late, controls>>
  /\ UNCHANGED <<service_vars, mode, submission, answer, read_vars, cancelled,
                 interrupted, abandoned, aborted, stopping, disposed>>

-----------------------------------------------------------------------------
(* handleResponse.                                                          *)

Observe ==
  /\ pc \in {"streaming", "batch"} /\ cursor < received
  /\ history[cursor + 1] \in {"status", "event", "ended"}
  /\ cursor' = cursor + 1
  /\ Delivers(cursor + 1)
  /\ UNCHANGED <<service_vars, mode, submission, pc, answer, received, again,
                 terminal, stop_vars, controls, outcome, disposed>>

\* The handler is called and its reply posted.
Invoke ==
  /\ pc = "batch" /\ cursor < received
  /\ history[cursor + 1] = "callback"
  /\ cursor' = cursor + 1
  /\ Delivers(cursor + 1)
  /\ Goto("reply")
  /\ UNCHANGED <<received, again, terminal>>

\* 409 is tolerated: the wait was closed, the terminal response will tell.
Replied ==
  /\ pc = "reply" /\ answer \in {"ok", "conflict"}
  /\ pc' = "batch"
  /\ again' = TRUE
  /\ UNCHANGED <<service_vars, mode, submission, answer, cursor, received, delivered,
                 terminal, stop_vars, controls, outcome, disposed>>

\* Mutant: the deadline goes on while the result is handled.
KeepsTimer == UNCHANGED timer

\* terminalReceived clears the deadline.
ClearsTimer == timer' = FALSE

\* The terminal response, from the history or from /result.
Conclude ==
  /\ \/ /\ pc \in {"streaming", "batch"} /\ cursor < received
        /\ history[cursor + 1] = "final"
        /\ cursor' = cursor + 1
     \/ pc = "result" /\ answer = "ok" /\ UNCHANGED cursor
  /\ terminal' = IF state = "succeeded" THEN "result" ELSE "failure"
  /\ ClearsTimer
  /\ pc' = "release"
  /\ answer' = "none"
  /\ UNCHANGED <<service_vars, mode, submission, received, again, delivered, cancelled,
                 interrupted, abandoned, aborted, stopping, late, controls, outcome,
                 disposed>>

EmptyResult ==
  /\ pc = "result" /\ answer = "empty"
  /\ Goto("events")
  /\ UNCHANGED read_vars

\* The job was released, or one second went by: the promise is settled, or the
\* hook gets what nobody waits for any more.
Released ==
  /\ pc = "release"
  /\ pc' = "done"
  /\ disposed' = (terminal = "result" /\ abandoned)
  /\ Settle(terminal)
  /\ UNCHANGED <<service_vars, mode, submission, answer, read_vars, stop_vars, controls>>

-----------------------------------------------------------------------------

Asks == mode = "callbacks" /\ Ask

Server ==
  /\ Service \/ Asks
  /\ UNCHANGED <<mode, submission, pc, answer, read_vars, stop_vars, controls,
                 outcome, disposed>>

Network == HandleControl \/ HandleSubmit \/ LoseSubmission \/ HandleRequest
             \/ LoseRequest \/ StreamSends \/ StreamBreaks

Client == Refused \/ Accepted \/ StreamAnswered \/ StreamEnds \/ EventsAnswered
            \/ BatchEnds \/ RequestFails \/ Observe \/ Invoke \/ Replied \/ Conclude
            \/ EmptyResult \/ Released

Next ==
  \/ \E abort \in BOOLEAN : Stop(abort)
  \/ Deadline
  \/ Server
  \/ Network
  \/ Client

Spec == Init /\ [][Next]_vars

\* JavaScript runs what can run and its timers fire; the network owes nothing.
FairSpec == Spec /\ WF_vars(Client) /\ WF_vars(Deadline)

-----------------------------------------------------------------------------

ClientTypeOK ==
  /\ mode \in Modes
  /\ submission \in {"sent", "ok", "refused", "known", "failed"}
  /\ pc \in {"submit", "stream", "streaming", "events", "batch", "reply", "result",
             "release", "done"}
  /\ answer \in {"none", "ok", "missing", "expired", "conflict", "refused", "empty",
                 "lost", "closed"}
  /\ cursor \in Nat /\ received \in Nat
  /\ again \in BOOLEAN
  /\ delivered \in Seq(Nat)
  /\ terminal \in {"none", "result", "failure"}
  /\ cancelled \in BOOLEAN /\ interrupted \in BOOLEAN /\ abandoned \in BOOLEAN
  /\ aborted \in BOOLEAN /\ timer \in BOOLEAN /\ disposed \in BOOLEAN
  /\ stopping \in BOOLEAN /\ late \in BOOLEAN
  /\ controls \subseteq {"cancel", "interrupt"}
  /\ outcome \in {"pending", "result", "failure", "error", "cancelled", "timeout"}

TypeOK == ServiceTypeOK /\ ClientTypeOK

\* Observers and callbacks get the responses of the history from the first on,
\* each once and in order, whether they came from a stream, from a batch or, after
\* the stream broke, from both; an expired cursor never skips one.
EventsInOrder == \A i \in 1..Len(delivered) : delivered[i] = i

\* A promise that is settled is silent: neither a request that is still under way
\* after an abort nor an abandoned creation reports to the observers any more.
SilentOnceSettled == [][outcome # "pending" => UNCHANGED delivered]_vars

\* A job that becomes known after the caller has cancelled or interrupted it is
\* stopped, unless it is a creation that has been left to the hook.
LateJobsAreStopped ==
  submission = "known" /\ (cancelled \/ interrupted) /\ ~abandoned
    => stopping \/ late

\* A caller who has stopped the operation is never left waiting without a deadline:
\* it is set at once, and only taken back by what settles the promise, or by a
\* terminal response, after which only the release of the job is waited for.
StoppedHasDeadline ==
  (cancelled \/ interrupted) /\ outcome = "pending" => timer \/ pc = "release"

\* A result that was read before the deadline belongs to the caller, or to the
\* hook if he has left, and to one of them only.
ResultHasOneOwner ==
  /\ Finished /\ terminal = "result" => disposed # (outcome = "result")
  /\ disposed => abandoned

\* "After cancellation or native interruption, an accepted job has 30 seconds to
\* settle, including a stalled control request or result response": the promise is
\* settled whatever the network and the server do.
StopSettles == cancelled \/ interrupted ~> outcome # "pending"

\* "Cancellation uses the same generic protobuf command for every solver; queued
\* cancellation is immediate."
QueuedCancellationIsImmediate ==
  [][cancelled /\ controls' # controls /\ controls' \subseteq controls /\ state = "queued"
       => state' = "cancelled"]_vars

=============================================================================
