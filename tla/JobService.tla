----------------------------- MODULE JobService -----------------------------
(***************************************************************************)
(* server/src/solver_job_service.cc as the client of one job meets it: the *)
(* entry of the job table, the job behind it and the handlers of the HTTP  *)
(* requests.  The scheduler, the log and the callbacks are those of        *)
(* JobScheduler, EventDelivery and CallbackExchange, reduced to what a     *)
(* client can tell: a response is its kind, its sequence id is its place   *)
(* in the history, and of the retained window only its lower end is kept.  *)
(***************************************************************************)
EXTENDS Naturals, Sequences

CONSTANT MaxHistory   \* BOUND: the running solver appends up to this length

VARIABLES
  state,     \* JobRecord::status.state; "absent" before the submission
  signals,   \* the signals that were requested
  history,   \* kinds of all responses ever appended to the EventLog
  floor,     \* the smallest cursor that has not expired
  closed,    \* closed_at_ is set
  pending,   \* sequence id of the callback that waits for its reply, or 0
  listed     \* the job is in jobs_

service_vars == <<state, signals, history, floor, closed, pending, listed>>

Terminal == {"succeeded", "failed", "cancelled"}
States == {"absent", "queued", "running"} \cup Terminal
Signals == {"cancellation", "interruption"}
\* "ended" is the status event that reports a terminal state.
Kinds == {"status", "event", "callback", "ended", "final"}

ServiceInit ==
  /\ state = "absent"
  /\ signals = {}
  /\ history = <<>>
  /\ floor = 0
  /\ closed = FALSE
  /\ pending = 0
  /\ listed = FALSE

-----------------------------------------------------------------------------
(* The job and its threads.                                                 *)

\* Append: older responses may give way to the new one.
Retain(kind) ==
  /\ history' = Append(history, kind)
  /\ floor' \in floor..Len(history)

\* Append of a response that is larger than the whole window.
Discard(kind) ==
  /\ history' = Append(history, kind)
  /\ floor' = Len(history')

Start ==
  /\ state = "queued"
  /\ state' = "running"
  /\ Retain("status")
  /\ UNCHANGED <<signals, closed, pending, listed>>

\* The solver reports progress, or asks a question and waits.
Report ==
  /\ state = "running" /\ pending = 0 /\ Len(history) < MaxHistory
  /\ Retain("event") \/ Discard("event")
  /\ UNCHANGED <<state, signals, closed, pending, listed>>

Ask ==
  /\ state = "running" /\ pending = 0 /\ Len(history) < MaxHistory
  /\ Retain("callback")
  /\ pending' = Len(history')
  /\ UNCHANGED <<state, signals, closed, listed>>

\* The wait ends without a reply: 30 seconds are over or a signal came.
GiveUp ==
  /\ pending # 0
  /\ pending' = 0
  /\ UNCHANGED <<state, signals, history, floor, closed, listed>>

\* Run makes the record terminal and sets the promise.
Finish ==
  /\ state = "running" /\ pending = 0
  /\ state' \in IF "cancellation" \in signals THEN {"cancelled"}
                                              ELSE {"succeeded", "failed"}
  /\ UNCHANGED <<signals, history, floor, closed, pending, listed>>

\* The status observer appends the terminal status ...
Announce ==
  /\ state \in Terminal
  /\ ~closed /\ \A i \in 1..Len(history) : history[i] # "ended"
  /\ Retain("ended")
  /\ UNCHANGED <<state, signals, closed, pending, listed>>

\* ... and then the final response, which /result alone has if it is too large.
Close ==
  /\ ~closed /\ \E i \in 1..Len(history) : history[i] = "ended"
  /\ closed' = TRUE
  /\ Retain("final") \/ UNCHANGED <<history, floor>>
  /\ UNCHANGED <<state, signals, pending, listed>>

\* CleanupExpiredJobs, once the retention period is over.
Expire ==
  /\ closed /\ listed
  /\ listed' = FALSE
  /\ UNCHANGED <<state, signals, history, floor, closed, pending>>

Service == Start \/ Report \/ GiveUp \/ Finish \/ Announce \/ Close \/ Expire

-----------------------------------------------------------------------------
(* The handlers.  The answer is "ok" or what the status code says.          *)

\* 202 with the first response; or 503, although the scheduler may have queued
\* a job that it then could not launch and that nobody can name any more.
Submit(answer) ==
  /\ \/ /\ answer = "ok"
        /\ history' = <<"status">>
        /\ listed' = TRUE
        /\ state' = "queued"
     \/ /\ answer = "refused"
        /\ state' \in {"absent", "queued"}
        /\ UNCHANGED <<history, listed>>
  /\ UNCHANGED <<signals, floor, closed, pending>>

\* Events: 200, 404 or 410.
EventsAnswer(cursor) ==
  CASE ~listed -> "missing" [] listed /\ cursor < floor -> "expired" [] OTHER -> "ok"

\* StreamEvents: besides, 409 while the job is queued, and 503 without a slot.
StreamAnswers(cursor) ==
  {IF listed /\ state = "queued" THEN "conflict" ELSE EventsAnswer(cursor), "refused"}

\* Result: 200, 204 or 404.
ResultAnswer ==
  CASE ~listed -> "missing" [] listed /\ state \notin Terminal -> "empty" [] OTHER -> "ok"

\* Cancel withdraws a queued job, and signals a running one and reports that.
Cancel ==
  /\ CASE listed /\ state = "queued" ->
            state' = "cancelled" /\ UNCHANGED <<signals, history, floor>>
       [] listed /\ state = "running" ->
            /\ signals' = signals \cup {"cancellation"}
            /\ Retain("status")
            /\ UNCHANGED state
       [] OTHER -> UNCHANGED <<state, signals, history, floor>>
  /\ UNCHANGED <<closed, pending, listed>>

\* Interrupt only signals.
Interrupt ==
  /\ signals' = IF listed /\ state \notin Terminal
                THEN signals \cup {"interruption"} ELSE signals
  /\ UNCHANGED <<state, history, floor, closed, pending, listed>>

\* Callback: 404, 409 if nobody waits for this reply, or 200.
CallbackAnswer(id) ==
  CASE ~listed -> "missing" [] listed /\ pending # id -> "conflict" [] OTHER -> "ok"

Callback(id) ==
  /\ pending' = IF CallbackAnswer(id) = "ok" THEN 0 ELSE pending
  /\ UNCHANGED <<state, signals, history, floor, closed, listed>>

\* Release, best effort: only a terminal job leaves the table.
Release ==
  /\ listed' = (listed /\ state \notin Terminal)
  /\ UNCHANGED <<state, signals, history, floor, closed, pending>>

ServiceTypeOK ==
  /\ state \in States
  /\ signals \subseteq Signals
  /\ history \in Seq(Kinds)
  /\ floor \in Nat
  /\ closed \in BOOLEAN
  /\ pending \in Nat
  /\ listed \in BOOLEAN
=============================================================================
