---------------------------- MODULE EventDelivery ----------------------------
(***************************************************************************)
(* How the events of one job reach its clients (solver_job_service.cc):    *)
(* the job's threads append to its EventLog while clients poll             *)
(* (SolverJobService::Events) or hold a live stream (StreamEvents).  A job *)
(* has at most one live stream, guarded by JobEntry::stream_active.        *)
(***************************************************************************)
EXTENDS EventLog, FiniteSets

CONSTANTS
  Clients,    \* clients that read the job's events
  MaxAppends  \* BOUND: responses that the job appends

ASSUME EventDeliveryAssumption == MaxAppends \in Nat

VARIABLES
  phase,          \* the job is queued, was launched, or was withdrawn
  callbacks,      \* sequence ids of the job's callback requests
  stream_active,  \* JobEntry::stream_active
  mode,           \* what each client is doing
  cursor,         \* the sequence id it resumes after
  origin,         \* history: the cursor it began with
  got             \* history: the sequence ids it was sent

client_vars == <<mode, cursor, origin, got>>
vars == <<log_vars, phase, callbacks, stream_active, client_vars>>

\* "opening": the cursor was checked and the lease not yet tried;
\* "expired": told 410; "ended": the stream closed normally.
Modes == {"absent", "reading", "opening", "streaming", "expired", "ended"}

Init ==
  /\ InitLog
  /\ phase = "queued"
  /\ callbacks = {}
  /\ stream_active = FALSE
  /\ mode = [c \in Clients |-> "absent"]
  /\ cursor = [c \in Clients |-> 0]
  /\ origin = [c \in Clients |-> 0]
  /\ got = [c \in Clients |-> <<>>]

-----------------------------------------------------------------------------
(* The job.  A launched job announces its start before its function runs,   *)
(* and its function has returned when the log is closed.  Only status         *)
(* observers may come after the closing response: two threads can each      *)
(* deliver the terminal status, and a third one a stale status.             *)

Solving == phase = "launched" /\ first # 0 /\ ~closed

Room == next_sequence_id <= MaxAppends

\* The scheduler launches the job or takes it out of the queue.
LeaveQueue ==
  /\ phase = "queued"
  /\ phase' \in {"launched", "withdrawn"}
  /\ UNCHANGED <<log_vars, callbacks, stream_active, client_vars>>

AppendStatus ==
  /\ Room
  /\ AppendOpen("status", StatusSize)
  /\ UNCHANGED <<phase, callbacks, stream_active, client_vars>>

AppendEvent ==
  /\ Room
  /\ Solving
  /\ \E size \in Sizes : AppendOpen("event", size)
  /\ UNCHANGED <<phase, callbacks, stream_active, client_vars>>

\* Call gives up on a request that was not retained.
AppendCallback ==
  /\ Room
  /\ Solving
  /\ \E size \in Sizes :
       /\ AppendOpen("callback", size)
       /\ callbacks' = IF size > MaxBytes THEN callbacks
                       ELSE callbacks \cup {next_sequence_id}
  /\ UNCHANGED <<phase, stream_active, client_vars>>

AppendTerminal ==
  /\ Room
  /\ phase # "queued"
  /\ \E size \in Sizes : AppendClose(size)
  /\ UNCHANGED <<phase, callbacks, stream_active, client_vars>>

\* After the reply, and again when the solver takes it.
ReleasePayload ==
  /\ \E id \in callbacks : ReleaseCallbackPayload(id)
  /\ UNCHANGED <<phase, callbacks, stream_active, client_vars>>

-----------------------------------------------------------------------------
(* The clients.                                                             *)

\* Submit answers with the first response, whose id is the first cursor.
Join(c) ==
  /\ mode[c] = "absent"
  /\ first # 0
  /\ mode' = [mode EXCEPT ![c] = "reading"]
  /\ cursor' = [cursor EXCEPT ![c] = first]
  /\ origin' = [origin EXCEPT ![c] = first]
  /\ UNCHANGED <<log_vars, phase, callbacks, stream_active, got>>

\* The client is sent these responses.
Receive(c, sent) ==
  /\ cursor' = [cursor EXCEPT ![c] =
                  IF sent = <<>> THEN @ ELSE sent[Len(sent)].id]
  /\ got' = [got EXCEPT ![c] = @ \o [i \in 1..Len(sent) |-> sent[i].id]]

\* Events answers 410.
PollExpired(c) ==
  /\ mode[c] = "reading"
  /\ Expired(cursor[c])
  /\ mode' = [mode EXCEPT ![c] = "expired"]
  /\ UNCHANGED <<log_vars, phase, callbacks, stream_active, cursor, origin, got>>

\* Events answers with what follows the cursor.
Poll(c) ==
  /\ mode[c] = "reading"
  /\ ~Expired(cursor[c])
  /\ Receive(c, After(cursor[c]))
  /\ UNCHANGED <<log_vars, phase, callbacks, stream_active, mode, origin>>

\* StreamEvents turns a queued job away (409), checks the cursor (its 410 is
\* PollExpired's) ...
StreamCheck(c) ==
  /\ mode[c] = "reading"
  /\ phase # "queued"
  /\ ~Expired(cursor[c])
  /\ mode' = [mode EXCEPT ![c] = "opening"]
  /\ UNCHANGED <<log_vars, phase, callbacks, stream_active, cursor, origin, got>>

\* Mutant: a rejected subscription gives the winner's lease back.
StreamAcquireAndDrop(c) ==
  /\ mode[c] = "opening"
  /\ mode' = [mode EXCEPT ![c] = IF stream_active THEN "reading" ELSE "streaming"]
  /\ stream_active' = ~stream_active
  /\ UNCHANGED <<log_vars, phase, callbacks, cursor, origin, got>>

\* ... and takes the lease; 409 if another stream has it.
StreamAcquire(c) ==
  /\ mode[c] = "opening"
  /\ mode' = [mode EXCEPT ![c] = IF stream_active THEN "reading" ELSE "streaming"]
  /\ stream_active' = TRUE
  /\ UNCHANGED <<log_vars, phase, callbacks, cursor, origin, got>>

\* The lease is reset and the source is not asked again.
StreamOver(c, next_mode) ==
  /\ mode' = [mode EXCEPT ![c] = next_mode]
  /\ stream_active' = FALSE

\* WaitAfter throws: the stream closes, and the client's next poll gets 410.
StreamFallsBehind(c) ==
  /\ mode[c] = "streaming"
  /\ Expired(cursor[c])
  /\ StreamOver(c, "reading")
  /\ UNCHANGED <<log_vars, phase, callbacks, cursor, origin, got>>

\* WaitAfter returns the next response; a terminal one ends the stream.
StreamSend(c) ==
  /\ mode[c] = "streaming"
  /\ ~Expired(cursor[c])
  /\ HasAfter(cursor[c])
  /\ LET next == responses[IndexAfter(cursor[c])] IN
       /\ Receive(c, <<next>>)
       /\ IF next.kind = "terminal"
          THEN StreamOver(c, "ended")
          ELSE UNCHANGED <<mode, stream_active>>
  /\ UNCHANGED <<log_vars, phase, callbacks, origin>>

\* Mutant: the stream waits for a final response that was not retained.
StreamEndAfterFinal(c) ==
  /\ mode[c] = "streaming"
  /\ ~Expired(cursor[c])
  /\ ~HasAfter(cursor[c])
  /\ \E i \in 1..Len(responses) : responses[i].kind = "terminal"
  /\ StreamOver(c, "ended")
  /\ UNCHANGED <<log_vars, phase, callbacks, cursor, origin, got>>

\* The log is closed and everything retained has been sent.
StreamEnd(c) ==
  /\ mode[c] = "streaming"
  /\ ~Expired(cursor[c])
  /\ ~HasAfter(cursor[c])
  /\ closed
  /\ StreamOver(c, "ended")
  /\ UNCHANGED <<log_vars, phase, callbacks, cursor, origin, got>>

\* The connection breaks; destroying the source drops the lease.
Disconnect(c) ==
  /\ mode[c] = "streaming"
  /\ StreamOver(c, "reading")
  /\ UNCHANGED <<log_vars, phase, callbacks, cursor, origin, got>>

-----------------------------------------------------------------------------

StreamPull(c) == StreamFallsBehind(c) \/ StreamSend(c) \/ StreamEnd(c)

Job ==
  \/ LeaveQueue \/ AppendStatus \/ AppendEvent \/ AppendCallback
  \/ AppendTerminal \/ ReleasePayload

Client(c) ==
  \/ Join(c) \/ PollExpired(c) \/ Poll(c)
  \/ StreamCheck(c) \/ StreamAcquire(c) \/ StreamPull(c) \/ Disconnect(c)

Next == Job \/ \E c \in Clients : Client(c)

Spec == Init /\ [][Next]_vars

\* The HTTP worker of a stream keeps asking its source.
FairSpec == Spec /\ \A c \in Clients : WF_vars(StreamPull(c))

-----------------------------------------------------------------------------
(* Properties.                                                              *)

\* The type invariant.
TypeOK ==
  /\ LogTypeOK
  /\ phase \in {"queued", "launched", "withdrawn"}
  /\ callbacks \subseteq Nat \ {0}
  /\ stream_active \in BOOLEAN
  /\ mode \in [Clients -> Modes]
  /\ cursor \in [Clients -> Nat]
  /\ origin \in [Clients -> Nat]
  /\ got \in [Clients -> Seq(Nat)]

\* However a client mixes polls and streams, it is sent every response after
\* the cursor it began with, in order, once each, up to the cursor it holds; no
\* callback it has to answer is at or before that first cursor.
NoSilentGap ==
  \A c \in Clients :
    /\ origin[c] <= cursor[c]
    /\ got[c] = [i \in 1..(cursor[c] - origin[c]) |-> origin[c] + i]
    /\ \A id \in callbacks : id > origin[c]

\* 410 is only answered when the response after the cursor is really gone.
ExpiryIsReal ==
  \A c \in Clients : mode[c] = "expired" =>
    \A i \in 1..Len(responses) : responses[i].id > cursor[c] + 1

\* "Each job permits one live event stream", and the lease of a stream that is
\* over is free again.
OneLiveStream ==
  /\ \A c, d \in Clients : mode[c] = "streaming" /\ mode[d] = "streaming" => c = d
  /\ stream_active <=> \E c \in Clients : mode[c] = "streaming"

\* Once the job has ended a live stream ends too, whether or not the final
\* response was retained.
StreamsEnd ==
  \A c \in Clients : closed /\ mode[c] = "streaming" ~> mode[c] # "streaming"

=============================================================================
