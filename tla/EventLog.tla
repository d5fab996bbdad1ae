------------------------------ MODULE EventLog ------------------------------
(***************************************************************************)
(* server/src/solver_job_service.cc, class EventLog: the rolling window of *)
(* a job's responses, bounded in number and in bytes.  Each method is one  *)
(* critical section of EventLog::mutex_ and one operator here; the modules *)
(* that extend this one say which thread calls it when.                    *)
(***************************************************************************)
EXTENDS Integers, Sequences

CONSTANTS
  MaxEvents,   \* EventHistoryLimits::max_events
  MaxBytes,    \* EventHistoryLimits::max_bytes
  StatusSize,  \* bytes of a status response
  MetaSize,    \* bytes of a response whose payload was cleared
  Sizes        \* bytes of the other responses

ASSUME EventLogAssumption ==
  /\ MaxEvents \in Nat \ {0}
  /\ MaxBytes \in Nat
  /\ StatusSize \in 1..MaxBytes
  /\ MetaSize \in 1..MaxBytes
  /\ Sizes \subseteq {n \in Nat : n >= MetaSize}

VARIABLES
  responses,         \* EventLog::responses_
  next_sequence_id,  \* EventLog::next_sequence_id_
  minimum_cursor,    \* EventLog::minimum_cursor_
  bytes,             \* EventLog::bytes_
  first,             \* sequence id of EventLog::first_, 0 if it is empty
  closed             \* EventLog::closed_at_ has a value

log_vars == <<responses, next_sequence_id, minimum_cursor, bytes, first, closed>>

Kinds == {"status", "event", "callback", "terminal"}

Response == [id : Nat \ {0}, kind : Kinds, size : Nat, payload : BOOLEAN]

InitLog ==
  /\ responses = <<>>
  /\ next_sequence_id = 1
  /\ minimum_cursor = 0
  /\ bytes = 0
  /\ first = 0
  /\ closed = FALSE

BytesOf(s) ==
  LET sum[i \in 0..Len(s)] == IF i = 0 THEN 0 ELSE sum[i - 1] + s[i].size
  IN  sum[Len(s)]

-----------------------------------------------------------------------------
(* Append.                                                                  *)

\* Mutant: one event too many is kept.
FitsOneMore(k, size) ==
  \/ k = Len(responses)
  \/ /\ Len(responses) - k <= MaxEvents
     /\ bytes - BytesOf(SubSeq(responses, 1, k)) + size <= MaxBytes

\* Without its k oldest responses the window has room for one of this size.
Fits(k, size) ==
  \/ k = Len(responses)
  \/ /\ Len(responses) - k < MaxEvents
     /\ bytes - BytesOf(SubSeq(responses, 1, k)) + size <= MaxBytes

\* Mutant: the newest response is kept instead.
FirstIsNewest == next_sequence_id

\* first_ is the first response that was ever retained.
FirstKept == IF first = 0 THEN next_sequence_id ELSE first

\* As few of the oldest responses as possible give way to the new one.
Retain(kind, size) ==
  /\ size <= MaxBytes
  /\ \E k \in 0..Len(responses) :
       /\ Fits(k, size)
       /\ \A i \in 0..(k - 1) : ~Fits(i, size)
       /\ responses' = Append(SubSeq(responses, k + 1, Len(responses)),
                              [id |-> next_sequence_id, kind |-> kind,
                               size |-> size, payload |-> TRUE])
       /\ bytes' = bytes - BytesOf(SubSeq(responses, 1, k)) + size
  /\ next_sequence_id' = next_sequence_id + 1
  /\ first' = FirstKept
  /\ UNCHANGED minimum_cursor

\* A response larger than the whole window expires every older cursor.
Discard(size) ==
  /\ size > MaxBytes
  /\ responses' = <<>>
  /\ bytes' = 0
  /\ minimum_cursor' = next_sequence_id
  /\ next_sequence_id' = next_sequence_id + 1
  /\ UNCHANGED first

AppendOpen(kind, size) ==
  /\ Retain(kind, size) \/ Discard(size)
  /\ UNCHANGED closed

\* Append(response, true).  An oversized final response is left to /result.
AppendClose(size) ==
  /\ \/ Retain("terminal", size)
     \/ size > MaxBytes /\ UNCHANGED <<responses, next_sequence_id, minimum_cursor,
                                       bytes, first>>
  /\ closed' = TRUE

-----------------------------------------------------------------------------
(* The other methods.                                                       *)

\* Clears the payload of response id if the window still holds it.
ReleaseCallbackPayload(id) ==
  IF responses = <<>> \/ id < responses[1].id \/ id >= next_sequence_id
  THEN UNCHANGED log_vars
  ELSE LET at == id - responses[1].id + 1 IN
       /\ responses' = [responses EXCEPT ![at].size = MetaSize, ![at].payload = FALSE]
       /\ bytes' = bytes - responses[at].size + MetaSize
       /\ UNCHANGED <<next_sequence_id, minimum_cursor, first, closed>>

\* Mutant: a cursor just before the window counts as lost.
ExpiredEarly(cursor) ==
  \/ cursor < minimum_cursor
  \/ responses # <<>> /\ cursor < responses[1].id

\* CheckCursorLocked throws.
Expired(cursor) ==
  \/ cursor < minimum_cursor
  \/ responses # <<>> /\ cursor < responses[1].id - 1

\* Index of the response that follows the cursor.
IndexAfter(cursor) == cursor + 1 - responses[1].id + 1

\* Whether one does.
HasAfter(cursor) == responses # <<>> /\ cursor < next_sequence_id - 1

\* After(cursor), for a cursor that has not expired.
After(cursor) ==
  IF HasAfter(cursor)
  THEN SubSeq(responses, IndexAfter(cursor), Len(responses))
  ELSE <<>>

-----------------------------------------------------------------------------

LogTypeOK ==
  /\ responses \in Seq(Response)
  /\ next_sequence_id \in Nat \ {0}
  /\ minimum_cursor \in Nat
  /\ bytes \in Nat
  /\ first \in Nat
  /\ closed \in BOOLEAN

\* The window keeps to both limits and its byte count is exact, although
\* payloads are released in the middle of it, twice, or after their eviction.
WindowBounded ==
  /\ Len(responses) <= MaxEvents
  /\ bytes = BytesOf(responses)
  /\ bytes <= MaxBytes

\* The window is the newest stretch of the sequence, without a hole.
WindowContiguous ==
  /\ Len(responses) < next_sequence_id
  /\ \A i \in 1..Len(responses) :
       responses[i].id = next_sequence_id - 1 - Len(responses) + i
  /\ minimum_cursor <= next_sequence_id - 1 - Len(responses)
  /\ responses = <<>> => minimum_cursor = next_sequence_id - 1

=============================================================================
