------------------------- MODULE EventDeliveryProofs -------------------------
(***************************************************************************)
(* Proofs about EventDelivery, for any limits, sizes and set of clients.   *)
(***************************************************************************)
EXTENDS EventDelivery, SequenceTheorems, WellFoundedInduction, TLAPS

-----------------------------------------------------------------------------
(* The inductive invariant.                                                 *)

\* Types of the log; the byte count is not needed.
LogShape ==
  /\ responses \in Seq(Response)
  /\ next_sequence_id \in Nat \ {0}
  /\ minimum_cursor \in Nat
  /\ first \in Nat /\ first < next_sequence_id

\* Types of the rest; callbacks come after the first response.
ClientShape ==
  /\ callbacks \subseteq Nat
  /\ \A id \in callbacks : first # 0 /\ id > first
  /\ mode \in [Clients -> Modes]
  /\ cursor \in [Clients -> Nat]
  /\ origin \in [Clients -> Nat]
  /\ got \in [Clients -> Seq(Nat)]
  /\ stream_active \in BOOLEAN

\* The id before the window.
Edge == next_sequence_id - 1 - Len(responses)

\* A client begins after the first response and never gets ahead of the log.
CursorsWithinLog ==
  \A c \in Clients :
    /\ cursor[c] < next_sequence_id
    /\ mode[c] = "absent" => origin[c] = 0 /\ cursor[c] = 0
    /\ mode[c] # "absent" => first # 0 /\ origin[c] = first
    /\ mode[c] = "expired" => cursor[c] < Edge

\* The inductive invariant.
IndInv ==
  /\ LogShape
  /\ WindowContiguous
  /\ ClientShape
  /\ CursorsWithinLog
  /\ NoSilentGap
  /\ OneLiveStream

-----------------------------------------------------------------------------
(* The operations of the log.                                               *)

\* Retaining a response moves the window on, without a hole.
LEMMA RetainWindow ==
  ASSUME LogShape, WindowContiguous,
         NEW kind \in Kinds, NEW size \in Nat, Retain(kind, size)
  PROVE  /\ LogShape' /\ WindowContiguous'
         /\ Edge <= Edge'
         /\ next_sequence_id' = next_sequence_id + 1
         /\ first' = IF first = 0 THEN next_sequence_id ELSE first
<1>1. /\ next_sequence_id' = next_sequence_id + 1
      /\ minimum_cursor' = minimum_cursor
      /\ first' = IF first = 0 THEN next_sequence_id ELSE first
  BY DEF Retain, FirstKept
<1> DEFINE r == [id |-> next_sequence_id, kind |-> kind, size |-> size, payload |-> TRUE]
<1>2. PICK k \in 0..Len(responses) :
        responses' = Append(SubSeq(responses, k + 1, Len(responses)), r)
  BY DEF Retain
<1>3. r \in Response /\ r.id = next_sequence_id
  BY DEF LogShape, Response
<1> HIDE DEF r
<1> DEFINE s == SubSeq(responses, k + 1, Len(responses))
<1>4. /\ s \in Seq(Response)
      /\ Len(s) = Len(responses) - k
      /\ \A i \in 1..Len(s) : s[i] = responses[k + i]
  BY DEF LogShape
<1> HIDE DEF s
<1>5. /\ responses' \in Seq(Response)
      /\ Len(responses') = Len(responses) - k + 1
      /\ \A i \in 1..Len(responses') :
           responses'[i] = IF i <= Len(s) THEN s[i] ELSE r
  BY <1>2, <1>3, <1>4 DEF s, LogShape
<1>6. ASSUME NEW i \in 1..Len(responses')
      PROVE  responses'[i].id = next_sequence_id' - 1 - Len(responses') + i
  <2>1. CASE i <= Len(s)
    <3>1. k + i \in 1..Len(responses) /\ responses'[i] = responses[k + i]
      BY <1>4, <1>5, <2>1 DEF LogShape
    <3>2. responses[k + i].id = next_sequence_id - 1 - Len(responses) + (k + i)
      BY <3>1 DEF WindowContiguous
    <3>3. Len(responses) \in Nat /\ k \in Nat /\ i \in Nat /\ next_sequence_id \in Nat
      BY DEF LogShape
    <3> QED BY <1>1, <1>5, <3>1, <3>2, <3>3
  <2>2. CASE i > Len(s)
    <3>1. Len(responses) \in Nat /\ k \in Nat /\ i \in Nat
      BY DEF LogShape
    <3>2. i = Len(responses') /\ responses'[i] = r
      <4>1. Len(s) = Len(responses) - k /\ Len(responses') = Len(responses) - k + 1
        BY <1>4, <1>5
      <4>2. i = Len(responses') /\ ~(i <= Len(s))
        BY <2>2, <3>1, <4>1
      <4> QED BY <1>5, <4>2
    <3> QED BY <1>1, <1>3, <3>1, <3>2 DEF LogShape
  <2> QED BY <2>1, <2>2, <1>4 DEF LogShape
<1>7. responses' # <<>>
  BY <1>5 DEF LogShape
<1>8. LogShape' /\ WindowContiguous' /\ Edge <= Edge'
  BY <1>1, <1>5, <1>6, <1>7 DEF LogShape, WindowContiguous, Edge
<1> QED BY <1>1, <1>8

\* A discarded response leaves an empty window behind it.
LEMMA DiscardWindow ==
  ASSUME LogShape, WindowContiguous, NEW size \in Nat, Discard(size)
  PROVE  /\ LogShape' /\ WindowContiguous'
         /\ Edge <= Edge'
         /\ next_sequence_id' = next_sequence_id + 1
         /\ first' = first
BY DEF Discard, LogShape, WindowContiguous, Edge

\* What Append does to the window, whatever is appended.
Appended ==
  /\ LogShape' /\ WindowContiguous'
  /\ Edge <= Edge'
  /\ next_sequence_id <= next_sequence_id'
  /\ first' = first \/ (first = 0 /\ first' = next_sequence_id)

\* Append, before the job's end ...
LEMMA AppendOpenWindow ==
  ASSUME LogShape, WindowContiguous,
         NEW kind \in Kinds, NEW size \in Nat, AppendOpen(kind, size)
  PROVE  /\ Appended
         /\ next_sequence_id' = next_sequence_id + 1
         /\ first # 0 => first' = first
<1>1. CASE Retain(kind, size)
  BY <1>1, RetainWindow DEF Appended, LogShape
<1>2. CASE Discard(size)
  BY <1>2, DiscardWindow DEF Appended, LogShape
<1> QED BY <1>1, <1>2 DEF AppendOpen

\* ... and for its final response.
LEMMA AppendCloseWindow ==
  ASSUME LogShape, WindowContiguous, NEW size \in Nat, AppendClose(size)
  PROVE  Appended
<1>1. CASE Retain("terminal", size)
  <2>1. "terminal" \in Kinds
    BY DEF Kinds
  <2> QED BY <1>1, <2>1, RetainWindow DEF Appended, LogShape
<1>2. CASE UNCHANGED <<responses, next_sequence_id, minimum_cursor, bytes, first>>
  BY <1>2 DEF Appended, LogShape, WindowContiguous, Edge
<1> QED BY <1>1, <1>2 DEF AppendClose

\* Releasing a payload changes no id.
LEMMA ReleaseWindow ==
  ASSUME EventLogAssumption, LogShape, WindowContiguous,
         NEW id \in Nat, ReleaseCallbackPayload(id)
  PROVE  Appended /\ first' = first
<1>1. CASE responses = <<>> \/ id < responses[1].id \/ id >= next_sequence_id
  BY <1>1 DEF ReleaseCallbackPayload, log_vars, Appended, LogShape, WindowContiguous, Edge
<1>2. CASE ~(responses = <<>> \/ id < responses[1].id \/ id >= next_sequence_id)
  <2> DEFINE at == id - responses[1].id + 1
  <2>1. /\ responses' = [responses EXCEPT ![at].size = MetaSize, ![at].payload = FALSE]
        /\ UNCHANGED <<next_sequence_id, minimum_cursor, first>>
    BY <1>2 DEF ReleaseCallbackPayload
  <2>2. Len(responses) \in Nat /\ Len(responses) >= 1 /\ responses[1] \in Response
    BY <1>2 DEF LogShape
  <2>3. responses[1].id = next_sequence_id - Len(responses)
    BY <2>2 DEF WindowContiguous, LogShape
  <2>4. at \in 1..Len(responses)
    BY <1>2, <2>2, <2>3 DEF LogShape
  <2> HIDE DEF at
  <2>5. responses[at] \in Response /\ MetaSize \in Nat
    BY <2>4 DEF LogShape, EventLogAssumption
  <2>6. /\ responses' \in Seq(Response) /\ Len(responses') = Len(responses)
        /\ \A i \in 1..Len(responses) : responses'[i].id = responses[i].id
    <3> DEFINE q == [responses[at] EXCEPT !.size = MetaSize, !.payload = FALSE]
    <3>1. responses' = [responses EXCEPT ![at] = q]
      BY <2>1, <2>4 DEF LogShape
    <3>2. q \in Response /\ q.id = responses[at].id
      BY <2>5 DEF Response
    <3> HIDE DEF q
    <3> QED BY <2>4, <3>1, <3>2 DEF LogShape
  <2>7. LogShape' /\ first' = first
    BY <2>1, <2>6 DEF LogShape
  <2>8. responses' # <<>> /\ Edge' = Edge /\ next_sequence_id' = next_sequence_id
    BY <2>1, <2>2, <2>6 DEF Edge, LogShape
  <2>9. WindowContiguous'
    BY <2>1, <2>2, <2>6, <2>8 DEF WindowContiguous
  <2> QED BY <2>7, <2>8, <2>9 DEF Appended, LogShape, Edge
<1> QED BY <1>1, <1>2

\* The window reaches back to every cursor that has not expired, ...
LEMMA ExpiredEdge ==
  ASSUME LogShape, WindowContiguous, NEW at \in Nat, at < next_sequence_id
  PROVE  Expired(at) <=> at < Edge
<1>1. CASE responses = <<>>
  BY <1>1 DEF Expired, LogShape, WindowContiguous, Edge
<1>2. CASE responses # <<>>
  <2>1. Len(responses) \in Nat /\ Len(responses) >= 1
    BY <1>2 DEF LogShape
  <2>2. responses[1].id = Edge + 1
    BY <2>1 DEF WindowContiguous, LogShape, Edge
  <2> QED BY <1>2, <2>1, <2>2 DEF Expired, LogShape, WindowContiguous, Edge
<1> QED BY <1>1, <1>2

\* ... and what follows such a cursor stands right behind it.
LEMMA FollowingResponse ==
  ASSUME LogShape, WindowContiguous, NEW at \in Nat, at < next_sequence_id,
         ~Expired(at), HasAfter(at)
  PROVE  /\ IndexAfter(at) \in 1..Len(responses)
         /\ Len(responses) - IndexAfter(at) + 1 = next_sequence_id - 1 - at
         /\ \A i \in IndexAfter(at)..Len(responses) :
              responses[i].id = at + 1 + (i - IndexAfter(at))
<1>1. Len(responses) \in Nat /\ Len(responses) >= 1
  BY DEF HasAfter, LogShape
<1>2. responses[1].id = next_sequence_id - Len(responses)
  BY <1>1 DEF WindowContiguous, LogShape
<1>3. IndexAfter(at) = at + 2 - (next_sequence_id - Len(responses))
  BY <1>1, <1>2 DEF IndexAfter, LogShape
<1>4. at >= next_sequence_id - 1 - Len(responses)
  BY <1>1, ExpiredEdge DEF Edge, LogShape
<1>5. IndexAfter(at) \in 1..Len(responses)
  BY <1>1, <1>3, <1>4 DEF HasAfter, LogShape
<1>6. ASSUME NEW i \in IndexAfter(at)..Len(responses)
      PROVE  responses[i].id = at + 1 + (i - IndexAfter(at))
  <2>1. i \in 1..Len(responses)
    BY <1>1, <1>5
  <2>2. responses[i].id = next_sequence_id - 1 - Len(responses) + i
    BY <2>1 DEF WindowContiguous
  <2> QED BY <1>1, <1>3, <2>1, <2>2 DEF LogShape
<1> QED BY <1>1, <1>3, <1>5, <1>6 DEF LogShape

-----------------------------------------------------------------------------
(* The byte count, a sum over the window.                                   *)

\* What holds of 0 and passes from each number below m to the next one holds up
\* to m: the induction that the sums below rest on.
LEMMA InductionUpTo ==
  ASSUME NEW m \in Nat, NEW S, 0 \in S,
         \A n \in 0..(m - 1) : n \in S => n + 1 \in S
  PROVE  \A n \in 0..m : n \in S
<1> SUFFICES ASSUME NEW k \in 0..m, k \notin S PROVE FALSE
  OBVIOUS
<1> DEFINE T == (0..m) \ S
           Below == OpToRel(<, Nat)
<1>1. T \subseteq Nat /\ T # {}
  OBVIOUS
<1>2. IsWellFoundedOn(Below, Nat)
  BY NatLessThanWellFounded
<1>6. \A x, y \in Nat : y < x => <<y, x>> \in Below
  BY DEF OpToRel
<1> HIDE DEF T, Below
<1>7. PICK x \in T : \A y \in T : ~(<<y, x>> \in Below)
  BY <1>1, <1>2, WFMin
<1> USE DEF T
<1>3. \A y \in T : ~(y < x)
  BY <1>1, <1>6, <1>7
<1>4. x # 0
  OBVIOUS
<1>5. x - 1 \notin T
  BY <1>1, <1>3
<1> QED BY <1>4, <1>5

\* f holds the bytes of the first responses of s, for each number of them.
RunningBytes(f, s) ==
  /\ f \in [0..Len(s) -> Int]
  /\ f[0] = 0
  /\ \A i \in 1..Len(s) : f[i] = f[i - 1] + s[i].size

\* There is such a function: one more response adds its size to the last sum.
LEMMA RunningBytesExist ==
  ASSUME NEW s \in Seq(Response)
  PROVE  \E f : RunningBytes(f, s)
<1>0. Len(s) \in Nat
  OBVIOUS
<1> DEFINE UpTo(f, n) == /\ f \in [0..n -> Int]
                         /\ f[0] = 0
                         /\ \A i \in 1..n : f[i] = f[i - 1] + s[i].size
           S == {n \in 0..Len(s) : \E f : UpTo(f, n)}
<1>1. 0 \in S
  <2> DEFINE zero == [i \in 0..0 |-> 0]
  <2>1. UpTo(zero, 0)
    OBVIOUS
  <2> HIDE DEF UpTo, zero
  <2>2. \E f : UpTo(f, 0)
    BY <2>1
  <2> QED BY <1>0, <2>2
<1>2. ASSUME NEW n \in 0..(Len(s) - 1), n \in S PROVE n + 1 \in S
  <2>1. PICK f : UpTo(f, n)
    BY <1>2
  <2> DEFINE g == [i \in 0..(n + 1) |-> IF i <= n THEN f[i] ELSE f[n] + s[n + 1].size]
  <2>2. f \in [0..n -> Int] /\ f[n] \in Int /\ s[n + 1].size \in Int
    <3>1. s[n + 1] \in Response
      OBVIOUS
    <3> QED BY <2>1, <3>1 DEF Response
  <2>3. g \in [0..(n + 1) -> Int] /\ g[0] = 0
    BY <2>1, <2>2
  <2>4. ASSUME NEW i \in 1..(n + 1) PROVE g[i] = g[i - 1] + s[i].size
    <3>1. CASE i <= n
      <4>1. i \in 1..n /\ g[i] = f[i] /\ g[i - 1] = f[i - 1]
        BY <3>1
      <4> QED BY <2>1, <4>1
    <3>2. CASE i = n + 1
      <4>1. g[i] = f[n] + s[n + 1].size /\ g[i - 1] = f[n] /\ i - 1 = n
        BY <3>2
      <4> QED BY <3>2, <4>1
    <3> QED BY <3>1, <3>2
  <2>5. UpTo(g, n + 1)
    BY <2>3, <2>4
  <2> HIDE DEF g, UpTo
  <2> QED BY <2>5
<1>3. \A n \in 0..Len(s) : n \in S
  <2> HIDE DEF S
  <2> QED BY <1>0, <1>1, <1>2, InductionUpTo
<1>4. Len(s) \in S
  <2> HIDE DEF S
  <2> QED BY <1>0, <1>3
<1> QED BY <1>4 DEF RunningBytes

\* There is only one.
LEMMA RunningBytesUnique ==
  ASSUME NEW s \in Seq(Response), NEW f, NEW g, RunningBytes(f, s), RunningBytes(g, s)
  PROVE  f[Len(s)] = g[Len(s)]
<1>0. Len(s) \in Nat
  OBVIOUS
<1> DEFINE S == {n \in 0..Len(s) : f[n] = g[n]}
<1>1. 0 \in S
  BY DEF RunningBytes
<1>2. ASSUME NEW n \in 0..(Len(s) - 1), n \in S PROVE n + 1 \in S
  <2>1. n + 1 \in 1..Len(s) /\ (n + 1) - 1 = n
    OBVIOUS
  <2> QED BY <1>2, <2>1 DEF RunningBytes
<1>3. \A n \in 0..Len(s) : n \in S
  <2> HIDE DEF S
  <2> QED BY <1>0, <1>1, <1>2, InductionUpTo
<1>4. Len(s) \in S
  BY <1>0, <1>3
<1> QED BY <1>4

\* BytesOf is its last value.
LEMMA BytesOfIs ==
  ASSUME NEW s \in Seq(Response), NEW f, RunningBytes(f, s)
  PROVE  BytesOf(s) = f[Len(s)]
<1>0. Len(s) \in Nat
  OBVIOUS
<1> DEFINE Equation(h) ==
             h = [i \in 0..Len(s) |-> IF i = 0 THEN 0 ELSE h[i - 1] + s[i].size]
           sum == CHOOSE h : Equation(h)
<1>1. Equation(f)
  <2>1. \A i \in 0..Len(s) : f[i] = IF i = 0 THEN 0 ELSE f[i - 1] + s[i].size
    BY DEF RunningBytes
  <2> QED BY <2>1 DEF RunningBytes
<1>2. BytesOf(s) = sum[Len(s)]
  BY DEF BytesOf
<1>3. Equation(sum)
  <2> HIDE DEF Equation
  <2> QED BY <1>1
<1> HIDE DEF sum
<1>4. /\ sum = [i \in 0..Len(s) |-> sum[i]]
      /\ \A i \in 0..Len(s) : sum[i] = IF i = 0 THEN 0 ELSE sum[i - 1] + s[i].size
  BY Zenon, <1>3
<1>5. sum[0] = 0 /\ \A i \in 1..Len(s) : sum[i] = sum[i - 1] + s[i].size
  BY <1>4
<1> DEFINE S == {i \in 0..Len(s) : sum[i] \in Int}
<1>6. 0 \in S
  BY <1>5
<1>7. ASSUME NEW n \in 0..(Len(s) - 1), n \in S PROVE n + 1 \in S
  <2>1. n + 1 \in 1..Len(s) /\ (n + 1) - 1 = n /\ s[n + 1] \in Response
    OBVIOUS
  <2>2. s[n + 1].size \in Int
    BY <2>1 DEF Response
  <2>3. sum[n + 1] = sum[n] + s[n + 1].size
    BY <1>5, <2>1
  <2> QED BY <1>7, <2>2, <2>3
<1>8. \A n \in 0..Len(s) : n \in S
  <2> HIDE DEF S
  <2> QED BY <1>0, <1>6, <1>7, InductionUpTo
<1>9. RunningBytes(sum, s)
  BY <1>4, <1>5, <1>8 DEF RunningBytes
<1> QED BY <1>2, <1>9, RunningBytesUnique

\* Running sums of sizes do not decrease.
LEMMA RunningBytesGrow ==
  ASSUME NEW s \in Seq(Response), NEW f, RunningBytes(f, s)
  PROVE  \A n \in 0..Len(s) : f[n] \in Nat
<1>0. Len(s) \in Nat
  OBVIOUS
<1> DEFINE S == {n \in 0..Len(s) : f[n] \in Nat}
<1>1. 0 \in S
  BY DEF RunningBytes
<1>2. ASSUME NEW n \in 0..(Len(s) - 1), n \in S PROVE n + 1 \in S
  <2>1. n + 1 \in 1..Len(s) /\ (n + 1) - 1 = n /\ s[n + 1] \in Response
    OBVIOUS
  <2>2. s[n + 1].size \in Nat
    BY <2>1 DEF Response
  <2> QED BY <1>2, <2>1, <2>2 DEF RunningBytes
<1>3. \A n \in 0..Len(s) : n \in S
  <2> HIDE DEF S
  <2> QED BY <1>0, <1>1, <1>2, InductionUpTo
<1> QED BY <1>3

\* A window holds a natural number of bytes, none if it is empty.
LEMMA BytesOfType ==
  ASSUME NEW s \in Seq(Response)
  PROVE  BytesOf(s) \in Nat /\ (s = <<>> => BytesOf(s) = 0)
<1>1. PICK f : RunningBytes(f, s)
  BY RunningBytesExist
<1>2. BytesOf(s) = f[Len(s)] /\ f[Len(s)] \in Nat
  BY <1>1, BytesOfIs, RunningBytesGrow
<1> QED BY <1>1, <1>2 DEF RunningBytes

\* A response that joins the window adds its size.
LEMMA BytesOfAppend ==
  ASSUME NEW s \in Seq(Response), NEW r \in Response
  PROVE  BytesOf(Append(s, r)) = BytesOf(s) + r.size
<1>1. PICK f : RunningBytes(f, s)
  BY RunningBytesExist
<1> DEFINE t == Append(s, r)
           g == [i \in 0..(Len(s) + 1) |-> IF i <= Len(s) THEN f[i] ELSE f[Len(s)] + r.size]
<1>2. /\ t \in Seq(Response) /\ Len(t) = Len(s) + 1 /\ t[Len(s) + 1] = r
      /\ \A i \in 1..Len(s) : t[i] = s[i]
  OBVIOUS
<1>3. Len(s) \in Nat /\ f \in [0..Len(s) -> Int] /\ f[Len(s)] \in Int /\ r.size \in Int
  BY <1>1 DEF RunningBytes, Response
<1>4. g \in [0..(Len(s) + 1) -> Int] /\ g[0] = 0
  BY <1>1, <1>3 DEF RunningBytes
<1>5. ASSUME NEW i \in 1..(Len(s) + 1) PROVE g[i] = g[i - 1] + t[i].size
  <2>1. CASE i <= Len(s)
    <3>1. i \in 1..Len(s) /\ g[i] = f[i] /\ g[i - 1] = f[i - 1] /\ t[i] = s[i]
      BY <1>2, <1>3, <2>1
    <3> QED BY <1>1, <3>1 DEF RunningBytes
  <2>2. CASE i = Len(s) + 1
    <3>1. g[i] = f[Len(s)] + r.size /\ g[i - 1] = f[Len(s)] /\ t[i] = r
      BY <1>2, <1>3, <2>2
    <3> QED BY <3>1
  <2> QED BY <1>3, <2>1, <2>2
<1>6. g[Len(s) + 1] = f[Len(s)] + r.size
  BY <1>3
<1> HIDE DEF g, t
<1>7. RunningBytes(g, t)
  BY <1>2, <1>4, <1>5 DEF RunningBytes
<1>8. BytesOf(t) = g[Len(t)] /\ BytesOf(s) = f[Len(s)]
  BY <1>1, <1>2, <1>7, BytesOfIs
<1> QED BY <1>2, <1>6, <1>8 DEF t

\* What gives way and what stays add up to the window.
LEMMA BytesOfSplit ==
  ASSUME NEW s \in Seq(Response), NEW k \in 0..Len(s)
  PROVE  BytesOf(s) = BytesOf(SubSeq(s, 1, k)) + BytesOf(SubSeq(s, k + 1, Len(s)))
<1>1. PICK f : RunningBytes(f, s)
  BY RunningBytesExist
<1> DEFINE a == SubSeq(s, 1, k)
           b == SubSeq(s, k + 1, Len(s))
           fa == [i \in 0..k |-> f[i]]
           fb == [i \in 0..(Len(s) - k) |-> f[k + i] - f[k]]
<1>2. Len(s) \in Nat /\ f \in [0..Len(s) -> Int] /\ f[k] \in Int
  BY <1>1 DEF RunningBytes
<1>3. a \in Seq(Response) /\ Len(a) = k /\ \A i \in 1..k : a[i] = s[i]
  OBVIOUS
<1>4. b \in Seq(Response) /\ Len(b) = Len(s) - k /\ \A i \in 1..(Len(s) - k) : b[i] = s[k + i]
  OBVIOUS
<1>5. fa \in [0..k -> Int] /\ fa[0] = 0 /\ fa[k] = f[k]
  BY <1>1, <1>2 DEF RunningBytes
<1>6. ASSUME NEW i \in 1..k PROVE fa[i] = fa[i - 1] + a[i].size
  <2>1. i \in 1..Len(s) /\ fa[i] = f[i] /\ fa[i - 1] = f[i - 1] /\ a[i] = s[i]
    BY <1>2, <1>3
  <2> QED BY <1>1, <2>1 DEF RunningBytes
<1>7. fb \in [0..(Len(s) - k) -> Int] /\ fb[0] = 0 /\ fb[Len(s) - k] = f[Len(s)] - f[k]
  BY <1>2
<1>8. ASSUME NEW i \in 1..(Len(s) - k) PROVE fb[i] = fb[i - 1] + b[i].size
  <2>0. /\ k + i \in 1..Len(s) /\ (k + i) - 1 = k + (i - 1)
        /\ i \in 0..(Len(s) - k) /\ i - 1 \in 0..(Len(s) - k)
    BY <1>2
  <2>1. /\ k + i \in 1..Len(s) /\ (k + i) - 1 = k + (i - 1)
        /\ fb[i] = f[k + i] - f[k] /\ fb[i - 1] = f[k + (i - 1)] - f[k]
        /\ b[i] = s[k + i]
    BY <2>0, <1>2, <1>4
  <2>2. s[k + i].size \in Int
    <3>1. s[k + i] \in Response
      BY <2>1
    <3> QED BY <3>1 DEF Response
  <2>4. (k + i) - 1 \in 0..Len(s)
    BY <1>2, <2>1
  <2>3. f[k + i] = f[(k + i) - 1] + s[k + i].size /\ f[(k + i) - 1] \in Int
    <3> DEFINE n == k + i
    <3>1. n \in 1..Len(s) /\ n - 1 \in 0..Len(s)
      BY <2>1, <2>4
    <3> HIDE DEF n
    <3>2. f[n] = f[n - 1] + s[n].size /\ f[n - 1] \in Int
      BY <1>1, <3>1 DEF RunningBytes
    <3> QED BY <3>2 DEF n
  <2> QED BY <1>2, <2>1, <2>2, <2>3
<1> HIDE DEF a, b, fa, fb
<1>9. RunningBytes(fa, a) /\ RunningBytes(fb, b)
  BY <1>3, <1>4, <1>5, <1>6, <1>7, <1>8 DEF RunningBytes
<1>10. BytesOf(a) = f[k] /\ BytesOf(b) = f[Len(s)] - f[k] /\ BytesOf(s) = f[Len(s)]
  BY <1>1, <1>3, <1>4, <1>5, <1>7, <1>9, BytesOfIs
<1>11. f[Len(s)] \in Int
  BY <1>2
<1> QED BY <1>2, <1>10, <1>11 DEF a, b

\* A response that is replaced changes the sum by the difference.
LEMMA BytesOfReplace ==
  ASSUME NEW s \in Seq(Response), NEW at \in 1..Len(s), NEW r \in Response
  PROVE  BytesOf([s EXCEPT ![at] = r]) = BytesOf(s) - s[at].size + r.size
<1>1. PICK f : RunningBytes(f, s)
  BY RunningBytesExist
<1> DEFINE t == [s EXCEPT ![at] = r]
           d == r.size - s[at].size
           g == [i \in 0..Len(s) |-> IF i < at THEN f[i] ELSE f[i] + d]
<1>2. /\ t \in Seq(Response) /\ Len(t) = Len(s) /\ t[at] = r
      /\ \A i \in 1..Len(s) : i # at => t[i] = s[i]
  OBVIOUS
<1>3. r.size \in Int /\ s[at].size \in Int /\ \A i \in 1..Len(s) : s[i].size \in Int
  <2>1. r \in Response /\ \A i \in 1..Len(s) : s[i] \in Response
    OBVIOUS
  <2> QED BY <2>1 DEF Response
<1>4. Len(s) \in Nat /\ f \in [0..Len(s) -> Int] /\ d \in Int
  BY <1>1, <1>3 DEF RunningBytes
<1>5. s[at].size + d = r.size
  BY <1>3
<1> HIDE DEF d
<1>6. g \in [0..Len(s) -> Int] /\ g[0] = 0 /\ g[Len(s)] = f[Len(s)] + d
  BY <1>1, <1>4 DEF RunningBytes
<1>7. ASSUME NEW i \in 1..Len(s) PROVE g[i] = g[i - 1] + t[i].size
  <2>1. f[i] = f[i - 1] + s[i].size /\ f[i - 1] \in Int /\ i - 1 \in 0..Len(s)
    BY <1>1, <1>4 DEF RunningBytes
  <2>2. CASE i < at
    <3>1. g[i] = f[i] /\ g[i - 1] = f[i - 1] /\ t[i] = s[i]
      BY <1>2, <1>4, <2>1, <2>2
    <3> QED BY <2>1, <3>1
  <2>3. CASE i = at
    <3>1. g[i] = f[i] + d /\ g[i - 1] = f[i - 1] /\ t[i] = r
      BY <1>2, <1>4, <2>1, <2>3
    <3> QED BY <1>3, <1>4, <1>5, <2>1, <2>3, <3>1
  <2>4. CASE i > at
    <3>1. g[i] = f[i] + d /\ g[i - 1] = f[i - 1] + d /\ t[i] = s[i]
      BY <1>2, <1>4, <2>1, <2>4
    <3> QED BY <1>3, <1>4, <2>1, <3>1
  <2> QED BY <1>4, <2>2, <2>3, <2>4
<1> HIDE DEF g, t
<1>8. RunningBytes(g, t)
  BY <1>2, <1>6, <1>7 DEF RunningBytes
<1>9. BytesOf(t) = f[Len(s)] + d /\ BytesOf(s) = f[Len(s)]
  BY <1>1, <1>2, <1>6, <1>8, BytesOfIs
<1>10. f[Len(s)] \in Int
  BY <1>4
<1> QED BY <1>3, <1>4, <1>5, <1>9, <1>10 DEF t

-----------------------------------------------------------------------------
(* The steps of the job.                                                    *)

\* A job step moves the window on and adds at most its newest id.
LEMMA JobMovesWindow ==
  ASSUME EventLogAssumption, LogShape, WindowContiguous, ClientShape, Job
  PROVE  /\ Appended
         /\ UNCHANGED <<stream_active, client_vars>>
         /\ \/ callbacks' = callbacks
            \/ first # 0 /\ first' = first /\ callbacks' = callbacks \cup {next_sequence_id}
<1>0. StatusSize \in Nat /\ Sizes \subseteq Nat /\ {"status", "event", "callback"} \subseteq Kinds
  BY DEF EventLogAssumption, Kinds
<1>1. CASE LeaveQueue
  BY <1>1 DEF LeaveQueue, log_vars, Appended, LogShape, WindowContiguous, Edge
<1>2. CASE AppendStatus
  BY <1>0, <1>2, AppendOpenWindow DEF AppendStatus
<1>3. CASE AppendEvent
  BY <1>0, <1>3, AppendOpenWindow DEF AppendEvent
<1>4. CASE AppendCallback
  <2>1. PICK size \in Sizes : /\ AppendOpen("callback", size)
                             /\ callbacks' = IF size > MaxBytes THEN callbacks
                                             ELSE callbacks \cup {next_sequence_id}
    BY <1>4 DEF AppendCallback
  <2>2. Appended /\ first # 0 /\ first' = first
    BY <1>0, <1>4, <2>1, AppendOpenWindow DEF AppendCallback, Solving
  <2>3. UNCHANGED <<stream_active, client_vars>>
    BY <1>4 DEF AppendCallback
  <2> QED BY <2>1, <2>2, <2>3
<1>5. CASE AppendTerminal
  BY <1>0, <1>5, AppendCloseWindow DEF AppendTerminal
<1>6. CASE ReleasePayload
  BY <1>6, ReleaseWindow DEF ReleasePayload, ClientShape
<1> QED BY <1>1, <1>2, <1>3, <1>4, <1>5, <1>6 DEF Job

\* The job keeps the invariant: the clients' cursors stay where they are.
LEMMA JobStep ==
  ASSUME EventLogAssumption, IndInv, Job
  PROVE  IndInv'
<1>1. LogShape /\ WindowContiguous /\ ClientShape /\ CursorsWithinLog /\ NoSilentGap
  BY DEF IndInv
<1>2. /\ Appended
      /\ UNCHANGED <<stream_active, mode, cursor, origin, got>>
      /\ \/ callbacks' = callbacks
         \/ first # 0 /\ first' = first /\ callbacks' = callbacks \cup {next_sequence_id}
  BY <1>1, JobMovesWindow DEF client_vars
<1>3. LogShape' /\ WindowContiguous'
  BY <1>2 DEF Appended
<1>4. Edge \in Int /\ Edge' \in Int
  BY <1>1, <1>3 DEF LogShape, Edge
<1>5. \A id \in callbacks' : id \in Nat /\ first' # 0 /\ id > first'
  BY <1>1, <1>2 DEF Appended, ClientShape, LogShape
<1>6. ClientShape'
  BY <1>1, <1>2, <1>5 DEF ClientShape
<1>7. CursorsWithinLog'
  BY <1>1, <1>2, <1>3, <1>4 DEF CursorsWithinLog, Appended, ClientShape, LogShape
<1>8. NoSilentGap'
  <2>1. \A c \in Clients : origin[c] = 0 \/ origin[c] = first'
    BY <1>1, <1>2, <1>7 DEF CursorsWithinLog, ClientShape
  <2>2. \A c \in Clients : \A id \in callbacks' : id > origin[c]
    BY <1>3, <1>5, <2>1 DEF LogShape
  <2> QED BY <1>1, <1>2, <2>2 DEF NoSilentGap
<1>9. OneLiveStream'
  BY <1>2 DEF IndInv, OneLiveStream
<1> QED BY <1>3, <1>6, <1>7, <1>8, <1>9 DEF IndInv

-----------------------------------------------------------------------------
(* The window's limits.                                                     *)

\* What was appended for a callback is no smaller than what a release leaves.
CallbackSizes ==
  /\ \A id \in callbacks : id # 0 /\ id < next_sequence_id
  /\ \A i \in 1..Len(responses) :
       responses[i].id \in callbacks => responses[i].size >= MetaSize

\* What WindowBounded and the type of the byte count need besides IndInv.
LimitsInv ==
  /\ WindowBounded
  /\ CallbackSizes
  /\ phase \in {"queued", "launched", "withdrawn"}
  /\ closed \in BOOLEAN

\* The window after an Append holds the new response and old ones.
OldOrNew(size) ==
  \A i \in 1..Len(responses') :
    \/ \E m \in 1..Len(responses) : responses'[i] = responses[m]
    \/ responses'[i].id = next_sequence_id /\ responses'[i].size = size

\* Retaining a response keeps both limits.
LEMMA RetainBounded ==
  ASSUME EventLogAssumption, LogShape, WindowBounded,
         NEW kind \in Kinds, NEW size \in Nat, Retain(kind, size)
  PROVE  WindowBounded' /\ OldOrNew(size)
<1> DEFINE r == [id |-> next_sequence_id, kind |-> kind, size |-> size, payload |-> TRUE]
<1>1. PICK k \in 0..Len(responses) :
        /\ Fits(k, size)
        /\ responses' = Append(SubSeq(responses, k + 1, Len(responses)), r)
        /\ bytes' = bytes - BytesOf(SubSeq(responses, 1, k)) + size
  BY DEF Retain
<1> DEFINE gone == SubSeq(responses, 1, k)
           rest == SubSeq(responses, k + 1, Len(responses))
<1>2. r \in Response /\ r.id = next_sequence_id /\ r.size = size
  BY DEF LogShape, Response
<1>3. responses \in Seq(Response) /\ Len(responses) \in Nat
  BY DEF LogShape
<1> HIDE DEF r
<1>4. gone \in Seq(Response) /\ rest \in Seq(Response) /\ Len(rest) = Len(responses) - k
      /\ \A i \in 1..Len(rest) : rest[i] = responses[k + i]
  BY <1>3
<1>5. BytesOf(responses) = BytesOf(gone) + BytesOf(rest)
  BY <1>3, BytesOfSplit
<1>6. k = Len(responses) => rest = <<>>
  BY <1>3
<1>7. Fits(k, size) => k = Len(responses)
                       \/ /\ Len(responses) - k < MaxEvents
                          /\ bytes - BytesOf(gone) + size <= MaxBytes
  BY DEF Fits
<1>8. responses' = Append(rest, r) /\ bytes' = bytes - BytesOf(gone) + size
  BY <1>1
<1> HIDE DEF gone, rest
<1>9. BytesOf(responses') = BytesOf(rest) + size
  BY <1>2, <1>4, <1>8, BytesOfAppend
<1>10. BytesOf(gone) \in Nat /\ BytesOf(rest) \in Nat /\ (rest = <<>> => BytesOf(rest) = 0)
  BY <1>4, BytesOfType
<1>11. bytes = BytesOf(gone) + BytesOf(rest)
  BY <1>5 DEF WindowBounded
<1>12. bytes' = BytesOf(responses')
  BY <1>8, <1>9, <1>10, <1>11
<1>13. size <= MaxBytes /\ MaxBytes \in Nat /\ MaxEvents \in Nat /\ MaxEvents >= 1
  BY DEF Retain, EventLogAssumption
<1>14. bytes' <= MaxBytes
  BY <1>1, <1>6, <1>7, <1>8, <1>10, <1>11, <1>13
<1>15. Len(responses') = Len(responses) - k + 1
  BY <1>2, <1>4, <1>8
<1>16. Len(responses') <= MaxEvents
  BY <1>1, <1>3, <1>7, <1>13, <1>15
<1>17. OldOrNew(size)
  <2> SUFFICES ASSUME NEW i \in 1..Len(responses')
               PROVE  \/ \E m \in 1..Len(responses) : responses'[i] = responses[m]
                      \/ responses'[i] = r
    BY <1>2 DEF OldOrNew
  <2>1. CASE i <= Len(rest)
    <3>1. Len(rest) \in Nat /\ i \in 1..Len(rest)
      BY <1>4, <2>1
    <3>1a. responses'[i] = rest[i]
      BY <1>2, <1>4, <1>8, <3>1
    <3>2. k + i \in 1..Len(responses) /\ rest[i] = responses[k + i]
      BY <1>3, <1>4, <3>1
    <3> QED BY <3>1a, <3>2
  <2>2. CASE ~(i <= Len(rest))
    <3>1. i = Len(rest) + 1
      BY <1>3, <1>4, <1>15, <2>2
    <3>2. Append(rest, r)[Len(rest) + 1] = r
      BY <1>2, <1>4, AppendProperties
    <3> QED BY <1>8, <3>1, <3>2
  <2> QED BY <2>1, <2>2
<1> QED BY <1>12, <1>14, <1>16, <1>17 DEF WindowBounded

\* Discarding one empties the window.
LEMMA DiscardBounded ==
  ASSUME EventLogAssumption, NEW size \in Nat, Discard(size)
  PROVE  WindowBounded' /\ OldOrNew(size)
<1>1. responses' = <<>> /\ bytes' = 0
  BY DEF Discard
<1>2. BytesOf(responses') = 0
  <2>1. responses' \in Seq(Response)
    BY <1>1
  <2> QED BY <1>1, <2>1, BytesOfType
<1> QED BY <1>1, <1>2 DEF WindowBounded, OldOrNew, EventLogAssumption

\* A release trades the payload's bytes for those of the bare response.
LEMMA ReleaseBounded ==
  ASSUME EventLogAssumption, LogShape, WindowContiguous, LimitsInv,
         NEW id \in callbacks, id \in Nat, ReleaseCallbackPayload(id),
         UNCHANGED <<callbacks, phase>>
  PROVE  LimitsInv'
<1>1. CASE responses = <<>> \/ id < responses[1].id \/ id >= next_sequence_id
  BY <1>1 DEF ReleaseCallbackPayload, log_vars, LimitsInv, WindowBounded, CallbackSizes
<1>2. CASE ~(responses = <<>> \/ id < responses[1].id \/ id >= next_sequence_id)
  <2> DEFINE at == id - responses[1].id + 1
  <2>1. /\ responses' = [responses EXCEPT ![at].size = MetaSize, ![at].payload = FALSE]
        /\ bytes' = bytes - responses[at].size + MetaSize
        /\ UNCHANGED <<next_sequence_id, closed>>
    BY <1>2 DEF ReleaseCallbackPayload
  <2>2. Len(responses) \in Nat /\ Len(responses) >= 1 /\ responses[1] \in Response
    BY <1>2 DEF LogShape
  <2>3. responses[1].id = next_sequence_id - Len(responses)
    BY <2>2 DEF WindowContiguous, LogShape
  <2>4. at \in 1..Len(responses) /\ responses[1].id - 1 + at = id
    BY <1>2, <2>2, <2>3 DEF LogShape
  <2> HIDE DEF at
  <2>5. responses[at] \in Response /\ MetaSize \in Nat
    BY <2>4 DEF LogShape, EventLogAssumption
  <2>6. responses[at].id = id
    <3>1. responses[at].id = next_sequence_id - 1 - Len(responses) + at
      BY <2>4 DEF WindowContiguous
    <3>2. next_sequence_id \in Nat /\ at \in Nat
      BY <2>4 DEF LogShape
    <3> QED BY <2>2, <2>3, <2>4, <3>1, <3>2
  <2>7. responses[at].size >= MetaSize
    BY <2>4, <2>6 DEF LimitsInv, CallbackSizes
  <2> DEFINE q == [responses[at] EXCEPT !.size = MetaSize, !.payload = FALSE]
  <2>8. responses' = [responses EXCEPT ![at] = q]
    BY <2>1, <2>4 DEF LogShape
  <2>9. q \in Response /\ q.id = responses[at].id /\ q.size = MetaSize
    BY <2>5 DEF Response
  <2> HIDE DEF q
  <2>10. BytesOf(responses') = BytesOf(responses) - responses[at].size + MetaSize
    BY <2>4, <2>8, <2>9, BytesOfReplace DEF LogShape
  <2>11. Len(responses') = Len(responses)
         /\ \A i \in 1..Len(responses) : responses'[i] = responses[i] \/ responses'[i] = q
    BY <2>4, <2>8 DEF LogShape
  <2>12. WindowBounded'
    <3>1. bytes' = BytesOf(responses')
      BY <2>1, <2>10 DEF LimitsInv, WindowBounded
    <3>2. responses[at].size \in Nat /\ bytes \in Nat /\ MaxBytes \in Nat
      <4>1. BytesOf(responses) \in Nat
        BY BytesOfType DEF LogShape
      <4> QED BY <2>5, <4>1 DEF Response, LimitsInv, WindowBounded, EventLogAssumption
    <3>3. bytes' <= MaxBytes
      BY <2>1, <2>5, <2>7, <3>2 DEF LimitsInv, WindowBounded
    <3> QED BY <2>11, <3>1, <3>3 DEF LimitsInv, WindowBounded
  <2>13. CallbackSizes'
    BY <2>1, <2>5, <2>9, <2>11 DEF LimitsInv, CallbackSizes
  <2> QED BY <2>1, <2>12, <2>13 DEF LimitsInv
<1> QED BY <1>1, <1>2

\* An append keeps the limits, whatever it adds to the callbacks.
LEMMA AppendKeepsLimits ==
  ASSUME EventLogAssumption, LogShape, WindowContiguous, callbacks \subseteq Nat, LimitsInv,
         NEW kind \in Kinds, NEW size \in Nat,
         \/ Retain(kind, size)
         \/ Discard(size)
         \/ UNCHANGED <<responses, next_sequence_id, bytes>>,
         \/ callbacks' = callbacks
         \/ /\ callbacks' = callbacks \cup {next_sequence_id}
            /\ size >= MetaSize /\ Retain(kind, size),
         phase' = phase, closed' \in BOOLEAN
  PROVE  LimitsInv'
<1>0. WindowContiguous /\ callbacks \subseteq Nat
  OBVIOUS
<1>1. CASE UNCHANGED <<responses, next_sequence_id, bytes>>
  <2>1. callbacks' = callbacks
    BY <1>1 DEF Retain, LogShape
  <2> QED BY <1>1, <2>1 DEF LimitsInv, WindowBounded, CallbackSizes
<1>2. CASE Retain(kind, size) \/ Discard(size)
  <2>1. WindowBounded' /\ OldOrNew(size)
    BY <1>2, RetainBounded, DiscardBounded DEF LimitsInv
  <2>2. next_sequence_id' = next_sequence_id + 1 /\ next_sequence_id \in Nat \ {0}
    BY <1>2 DEF Retain, Discard, LogShape
  <2>3. \A id \in callbacks : id # 0 /\ id < next_sequence_id
    BY DEF LimitsInv, CallbackSizes
  <2>5. next_sequence_id \notin callbacks
    BY <2>2, <2>3
  <2>8. \A m \in 1..Len(responses) : responses[m].id < next_sequence_id
    BY <1>0, <2>2 DEF WindowContiguous, LogShape
  <2>6. \A m \in 1..Len(responses) :
          responses[m].id \in callbacks => responses[m].size >= MetaSize
    BY DEF LimitsInv, CallbackSizes
  <2>4. \A i \in 1..Len(responses') : responses'[i].id \in callbacks
                                        => responses'[i].size >= MetaSize
    BY <2>1, <2>5, <2>6 DEF OldOrNew
  <2>7. \A i \in 1..Len(responses') : responses'[i].id \in callbacks'
                                        => responses'[i].size >= MetaSize
    <3>1. CASE callbacks' = callbacks
      BY <2>4, <3>1
    <3>2. CASE callbacks' = callbacks \cup {next_sequence_id} /\ size >= MetaSize
      <4>1. \A i \in 1..Len(responses') :
              responses'[i].id = next_sequence_id => responses'[i].size >= MetaSize
        <5> SUFFICES ASSUME NEW i \in 1..Len(responses'),
                            responses'[i].id = next_sequence_id
                     PROVE  responses'[i].size >= MetaSize
          OBVIOUS
        <5>1. CASE \E m \in 1..Len(responses) : responses'[i] = responses[m]
          BY <2>2, <2>8, <5>1
        <5>2. CASE responses'[i].size = size
          BY <3>2, <5>2
        <5> QED BY <2>1, <5>1, <5>2 DEF OldOrNew
      <4> QED BY <2>4, <3>2, <4>1
    <3> QED BY <3>1, <3>2
  <2>9. \A id \in callbacks' : id # 0 /\ id < next_sequence_id'
    <3>1. \A id \in callbacks : id \in Nat /\ id # 0 /\ id < next_sequence_id'
      BY <1>0, <2>2, <2>3
    <3>2. next_sequence_id # 0 /\ next_sequence_id < next_sequence_id'
      BY <2>2
    <3>3. callbacks' \subseteq callbacks \cup {next_sequence_id}
      OBVIOUS
    <3> QED BY <3>1, <3>2, <3>3
  <2> QED BY <2>1, <2>7, <2>9 DEF LimitsInv, CallbackSizes
<1> QED BY <1>1, <1>2

\* The job keeps the limits.
LEMMA JobLimits ==
  ASSUME EventLogAssumption, IndInv, LimitsInv, Job
  PROVE  LimitsInv'
<1>0. LogShape /\ WindowContiguous /\ callbacks \subseteq Nat
  BY DEF IndInv, ClientShape
<1>1. /\ StatusSize \in Nat /\ \A size \in Sizes : size \in Nat /\ size >= MetaSize
      /\ {"status", "event", "callback", "terminal"} \subseteq Kinds
  BY DEF EventLogAssumption, Kinds
<1>2. CASE LeaveQueue
  BY <1>2 DEF LeaveQueue, log_vars, LimitsInv, WindowBounded, CallbackSizes
<1>3. CASE AppendStatus
  <2>1. /\ Retain("status", StatusSize) \/ Discard(StatusSize)
        /\ UNCHANGED <<callbacks, phase, closed>>
    BY <1>3 DEF AppendStatus, AppendOpen
  <2>2. closed' \in BOOLEAN
    BY <2>1 DEF LimitsInv
  <2> QED BY <1>0, <1>1, <2>1, <2>2, AppendKeepsLimits
<1>4. CASE AppendEvent
  <2>1. PICK size \in Sizes : /\ Retain("event", size) \/ Discard(size)
                             /\ UNCHANGED <<callbacks, phase, closed>>
    BY <1>4 DEF AppendEvent, AppendOpen
  <2>2. closed' \in BOOLEAN
    BY <2>1 DEF LimitsInv
  <2> QED BY <1>0, <1>1, <2>1, <2>2, AppendKeepsLimits
<1>5. CASE AppendCallback
  <2>1. PICK size \in Sizes :
          /\ Retain("callback", size) \/ Discard(size)
          /\ callbacks' = IF size > MaxBytes THEN callbacks
                          ELSE callbacks \cup {next_sequence_id}
          /\ UNCHANGED <<phase, closed>>
    BY <1>5 DEF AppendCallback, AppendOpen
  <2>2. closed' \in BOOLEAN
    BY <2>1 DEF LimitsInv
  <2>3. \/ callbacks' = callbacks
        \/ callbacks' = callbacks \cup {next_sequence_id} /\ Retain("callback", size)
    BY <2>1 DEF Discard
  <2> QED BY <1>0, <1>1, <2>1, <2>2, <2>3, AppendKeepsLimits
<1>6. CASE AppendTerminal
  <2>1. PICK size \in Sizes :
          /\ \/ Retain("terminal", size)
             \/ UNCHANGED <<responses, next_sequence_id, bytes>>
          /\ closed' = TRUE /\ UNCHANGED <<callbacks, phase>>
    BY <1>6 DEF AppendTerminal, AppendClose
  <2> QED BY <1>0, <1>1, <2>1, AppendKeepsLimits
<1>7. CASE ReleasePayload
  BY <1>0, <1>7, ReleaseBounded DEF ReleasePayload
<1> QED BY <1>2, <1>3, <1>4, <1>5, <1>6, <1>7 DEF Job

\* The clients do not touch the log.
LEMMA ClientLimits ==
  ASSUME LimitsInv, NEW c \in Clients, Client(c)
  PROVE  LimitsInv'
<1>1. UNCHANGED <<log_vars, phase, callbacks>>
  BY DEF Client, Join, PollExpired, Poll, StreamCheck, StreamAcquire, StreamPull,
     StreamFallsBehind, StreamSend, StreamEnd, Disconnect
<1> QED BY <1>1 DEF log_vars, LimitsInv, WindowBounded, CallbackSizes

-----------------------------------------------------------------------------
(* The steps of the clients.                                                *)

\* What a poll returns follows the cursor without a gap.
LEMMA AfterFollows ==
  ASSUME LogShape, WindowContiguous, NEW at \in Nat, at < next_sequence_id,
         ~Expired(at)
  PROVE  /\ After(at) \in Seq(Response)
         /\ Len(After(at)) = next_sequence_id - 1 - at
         /\ \A i \in 1..Len(After(at)) : After(at)[i].id = at + i
<1>1. CASE ~HasAfter(at)
  <2>1. After(at) = <<>>
    BY <1>1 DEF After
  <2>2. at = next_sequence_id - 1
    <3>1. CASE responses = <<>>
      BY <3>1 DEF Expired, WindowContiguous, LogShape
    <3>2. CASE responses # <<>>
      BY <1>1, <3>2 DEF HasAfter, LogShape
    <3> QED BY <3>1, <3>2
  <2> QED BY <2>1, <2>2 DEF LogShape
<1>2. CASE HasAfter(at)
  <2> DEFINE b == IndexAfter(at)
  <2>1. /\ b \in 1..Len(responses)
        /\ Len(responses) - b + 1 = next_sequence_id - 1 - at
        /\ \A i \in b..Len(responses) : responses[i].id = at + 1 + (i - b)
    BY <1>2, FollowingResponse
  <2>2. After(at) = SubSeq(responses, b, Len(responses))
    BY <1>2 DEF After
  <2> HIDE DEF b
  <2>3. Len(responses) \in Nat
    BY DEF LogShape
  <2>4. /\ After(at) \in Seq(Response)
        /\ Len(After(at)) = Len(responses) - b + 1
        /\ \A i \in 1..Len(After(at)) : After(at)[i] = responses[b + i - 1]
    BY <2>1, <2>2, <2>3 DEF LogShape
  <2>5. ASSUME NEW i \in 1..Len(After(at)) PROVE After(at)[i].id = at + i
    <3>1. b + i - 1 \in b..Len(responses)
      BY <2>1, <2>3, <2>4
    <3>2. responses[b + i - 1].id = at + 1 + ((b + i - 1) - b)
      BY <2>1, <3>1
    <3> QED BY <2>1, <2>3, <2>4, <3>1, <3>2
  <2> QED BY <2>1, <2>4, <2>5
<1> QED BY <1>1, <1>2

\* Sending a client the next responses keeps its history whole.
LEMMA ReceiveKeepsHistory ==
  ASSUME ClientShape, NoSilentGap, NEW c \in Clients,
         NEW sent \in Seq(Response), Receive(c, sent), UNCHANGED origin,
         \A i \in 1..Len(sent) : sent[i].id = cursor[c] + i
  PROVE  /\ cursor' = [cursor EXCEPT ![c] = cursor[c] + Len(sent)]
         /\ got' \in [Clients -> Seq(Nat)]
         /\ \A d \in Clients :
              /\ origin'[d] <= cursor'[d]
              /\ got'[d] = [i \in 1..(cursor'[d] - origin'[d]) |-> origin'[d] + i]
<1> DEFINE ids == [i \in 1..Len(sent) |-> sent[i].id]
<1>1. Len(sent) \in Nat /\ cursor[c] \in Nat /\ origin[c] \in Nat /\ origin[c] <= cursor[c]
  BY DEF ClientShape, NoSilentGap
<1>2. cursor' = [cursor EXCEPT ![c] = cursor[c] + Len(sent)]
  <2>1. sent = <<>> => Len(sent) = 0
    OBVIOUS
  <2>2. sent # <<>> => Len(sent) \in 1..Len(sent)
    BY <1>1
  <2>3. sent # <<>> => sent[Len(sent)].id = cursor[c] + Len(sent)
    BY <2>2
  <2> DEFINE last == IF sent = <<>> THEN cursor[c] ELSE sent[Len(sent)].id
  <2>4. cursor' = [cursor EXCEPT ![c] = last]
    BY DEF Receive, ClientShape
  <2>5. last = cursor[c] + Len(sent)
    BY <1>1, <2>1, <2>3
  <2> HIDE DEF last
  <2> QED BY <2>4, <2>5
<1>3. ids \in Seq(Nat) /\ Len(ids) = Len(sent) /\ \A i \in 1..Len(sent) : ids[i] = cursor[c] + i
  BY <1>1
<1>4. got' = [got EXCEPT ![c] = got[c] \o ids]
  BY DEF Receive, ClientShape
<1> HIDE DEF ids
<1>5. got[c] \in Seq(Nat)
  BY DEF ClientShape
<1> DEFINE n == cursor[c] - origin[c]
<1>7. n \in Nat
  BY <1>1
<1>6. Len(got[c]) = n /\ \A i \in 1..n : got[c][i] = origin[c] + i
  <2>1. got[c] = [i \in 1..n |-> origin[c] + i]
    BY DEF NoSilentGap
  <2> HIDE DEF n
  <2>2. Len([i \in 1..n |-> origin[c] + i]) = n
    BY <1>7
  <2> QED BY <2>1, <2>2
<1> HIDE DEF n
<1>8. /\ got[c] \o ids \in Seq(Nat)
      /\ Len(got[c] \o ids) = n + Len(sent)
      /\ \A i \in 1..(n + Len(sent)) :
           (got[c] \o ids)[i] = IF i <= n THEN got[c][i] ELSE ids[i - n]
  <2>1. ids \in Seq(Nat)
    BY <1>3
  <2>2. /\ got[c] \o ids \in Seq(Nat)
        /\ Len(got[c] \o ids) = Len(got[c]) + Len(ids)
        /\ \A i \in 1..(Len(got[c]) + Len(ids)) :
             (got[c] \o ids)[i] =
                IF i <= Len(got[c]) THEN got[c][i] ELSE ids[i - Len(got[c])]
    BY <1>5, <2>1, ConcatProperties
  <2>3. Len(got[c]) = n /\ Len(ids) = Len(sent)
    BY <1>3, <1>6
  <2> QED BY <2>2, <2>3
<1>9. \A i \in 1..(n + Len(sent)) : (got[c] \o ids)[i] = origin[c] + i
  <2> SUFFICES ASSUME NEW i \in 1..(n + Len(sent))
               PROVE  (got[c] \o ids)[i] = origin[c] + i
    OBVIOUS
  <2>1. CASE i <= n
    <3>1. i \in 1..n
      BY <1>1, <1>7, <2>1
    <3> QED BY <1>6, <1>8, <2>1, <3>1
  <2>2. CASE ~(i <= n)
    <3>1. i - n \in 1..Len(sent)
      BY <1>1, <1>7, <2>2
    <3>3. n = cursor[c] - origin[c]
      BY DEF n
    <3>2. ids[i - n] = cursor[c] + (i - n)
      BY <1>3, <3>1
    <3>4. (got[c] \o ids)[i] = ids[i - n]
      BY <1>8, <2>2
    <3> QED BY <1>1, <3>2, <3>3, <3>4
  <2> QED BY <2>1, <2>2
<1>10. got[c] \o ids = [i \in 1..(n + Len(sent)) |-> origin[c] + i]
  <2> DEFINE all == got[c] \o ids
  <2>1. all \in Seq(Nat) /\ Len(all) = n + Len(sent)
    BY <1>8
  <2>2. \A i \in 1..Len(all) : all[i] = origin[c] + i
    BY <1>9, <2>1
  <2> HIDE DEF all
  <2>3. all = [i \in 1..Len(all) |-> all[i]]
    BY <2>1, LenProperties
  <2>4. all = [i \in 1..Len(all) |-> origin[c] + i]
    BY <2>2, <2>3
  <2>5. all = [i \in 1..(n + Len(sent)) |-> origin[c] + i]
    BY <2>1, <2>4
  <2> QED BY <2>5 DEF all
<1>11. got' \in [Clients -> Seq(Nat)]
  BY <1>4, <1>8 DEF ClientShape
<1>12. ASSUME NEW d \in Clients
       PROVE  /\ origin'[d] <= cursor'[d]
              /\ got'[d] = [i \in 1..(cursor'[d] - origin'[d]) |-> origin'[d] + i]
  <2> USE DEF n
  <2>1. CASE d = c
    <3>1. cursor'[d] = cursor[c] + Len(sent) /\ origin'[d] = origin[c]
          /\ got'[d] = got[c] \o ids
      BY <1>2, <1>4, <2>1 DEF ClientShape
    <3>2. cursor'[d] - origin'[d] = n + Len(sent) /\ origin'[d] <= cursor'[d]
      BY <1>1, <3>1
    <3> QED BY <1>10, <3>1, <3>2
  <2>2. CASE d # c
    BY <1>2, <1>4, <2>2 DEF ClientShape, NoSilentGap
  <2> QED BY <2>1, <2>2
<1> QED BY <1>2, <1>11, <1>12

\* Nothing but the clients' own variables changes.
LogStands == UNCHANGED <<log_vars, callbacks, origin>>

\* A step that sends the next responses and may end the stream.
LEMMA SendingStep ==
  ASSUME IndInv, LogStands, NEW c \in Clients, mode[c] \in {"reading", "streaming"},
         NEW sent \in Seq(Response), Receive(c, sent),
         Len(sent) <= next_sequence_id - 1 - cursor[c],
         \A i \in 1..Len(sent) : sent[i].id = cursor[c] + i,
         mode' = mode \/ mode' = [mode EXCEPT ![c] = "ended"],
         stream_active' \in BOOLEAN, OneLiveStream'
  PROVE  IndInv'
<1>1. LogShape /\ WindowContiguous /\ ClientShape /\ CursorsWithinLog /\ NoSilentGap
  BY DEF IndInv
<1>2. /\ cursor' = [cursor EXCEPT ![c] = cursor[c] + Len(sent)]
      /\ got' \in [Clients -> Seq(Nat)]
      /\ \A d \in Clients :
           /\ origin'[d] <= cursor'[d]
           /\ got'[d] = [i \in 1..(cursor'[d] - origin'[d]) |-> origin'[d] + i]
  BY <1>1, ReceiveKeepsHistory DEF LogStands
<1>3. Len(sent) \in Nat /\ cursor[c] \in Nat /\ next_sequence_id \in Nat
  BY <1>1 DEF ClientShape, LogShape
<1>4. LogShape' /\ WindowContiguous' /\ Edge' = Edge /\ first' = first
      /\ next_sequence_id' = next_sequence_id /\ callbacks' = callbacks
  BY <1>1 DEF LogStands, log_vars, LogShape, WindowContiguous, Edge
<1>5. ClientShape'
  <2>1. cursor' \in [Clients -> Nat]
    BY <1>1, <1>2, <1>3 DEF ClientShape
  <2>2. mode' \in [Clients -> Modes]
    BY <1>1 DEF ClientShape, Modes
  <2> QED BY <1>1, <1>2, <1>4, <2>1, <2>2 DEF ClientShape, LogStands
<1>6. CursorsWithinLog'
  <2>1. cursor'[c] < next_sequence_id
    BY <1>1, <1>2, <1>3 DEF ClientShape
  <2>2. \A d \in Clients \ {c} : mode'[d] = mode[d] /\ cursor'[d] = cursor[d]
    BY <1>1, <1>2 DEF ClientShape
  <2>3. mode'[c] \notin {"absent", "expired"} /\ mode[c] # "absent"
    BY <1>1 DEF ClientShape
  <2> QED BY <1>1, <1>4, <2>1, <2>2, <2>3 DEF CursorsWithinLog, LogStands
<1>7. NoSilentGap'
  BY <1>1, <1>2, <1>4 DEF NoSilentGap, LogStands
<1> QED BY <1>4, <1>5, <1>6, <1>7 DEF IndInv

\* A step that sends nothing: only the client's mode and the lease move.
LEMMA ModeStep ==
  ASSUME IndInv, LogStands, NEW c \in Clients, mode[c] # "absent",
         UNCHANGED <<cursor, got>>,
         NEW m \in Modes \ {"absent"}, mode' = [mode EXCEPT ![c] = m],
         m = "expired" => cursor[c] < Edge,
         stream_active' \in BOOLEAN, OneLiveStream'
  PROVE  IndInv'
<1>1. LogShape /\ WindowContiguous /\ ClientShape /\ CursorsWithinLog /\ NoSilentGap
  BY DEF IndInv
<1>2. LogShape' /\ WindowContiguous' /\ Edge' = Edge
  BY <1>1 DEF LogStands, log_vars, LogShape, WindowContiguous, Edge
<1>3. ClientShape'
  BY <1>1 DEF LogStands, log_vars, ClientShape
<1>4. CursorsWithinLog'
  BY <1>1, <1>2 DEF LogStands, log_vars, CursorsWithinLog, ClientShape
<1>5. NoSilentGap'
  BY <1>1 DEF LogStands, NoSilentGap
<1> QED BY <1>2, <1>3, <1>4, <1>5 DEF IndInv

\* The clients keep the invariant.
LEMMA ClientStep ==
  ASSUME IndInv, NEW c \in Clients, Client(c)
  PROVE  IndInv'
<1>0. LogShape /\ WindowContiguous /\ ClientShape /\ CursorsWithinLog /\ OneLiveStream
  BY DEF IndInv
<1>0a. cursor[c] \in Nat /\ cursor[c] < next_sequence_id /\ mode[c] \in Modes
       /\ mode \in [Clients -> Modes] /\ stream_active \in BOOLEAN
  BY <1>0 DEF ClientShape, CursorsWithinLog
<1>1. CASE Join(c)
  <2>1. LogShape' /\ WindowContiguous' /\ Edge' = Edge
    BY <1>0, <1>1 DEF Join, log_vars, LogShape, WindowContiguous, Edge
  <2>2. ClientShape'
    BY <1>0, <1>1 DEF Join, log_vars, ClientShape, LogShape, Modes
  <2>3. CursorsWithinLog'
    BY <1>0, <1>1, <2>1 DEF Join, log_vars, CursorsWithinLog, ClientShape, LogShape
  <2>4. NoSilentGap'
    <3>1. /\ cursor' = [cursor EXCEPT ![c] = first] /\ origin' = [origin EXCEPT ![c] = first]
          /\ UNCHANGED <<got, callbacks>>
      BY <1>1 DEF Join
    <3>2. \A d \in Clients \ {c} : cursor'[d] = cursor[d] /\ origin'[d] = origin[d]
      BY <1>0, <3>1 DEF ClientShape
    <3>3. cursor'[c] = first /\ origin'[c] = first /\ first \in Nat
      BY <1>0, <3>1 DEF ClientShape, LogShape
    <3>4. got[c] = [i \in 1..0 |-> first + i]
      <4>1. got[c] = [i \in 1..(0 - 0) |-> 0 + i]
        BY <1>0, <1>1 DEF IndInv, NoSilentGap, CursorsWithinLog, Join
      <4> QED BY <4>1
    <3>5. got'[c] = [i \in 1..(cursor'[c] - origin'[c]) |-> origin'[c] + i]
      <4>1. cursor'[c] - origin'[c] = 0
        BY <3>3
      <4> QED BY <3>1, <3>3, <3>4, <4>1
    <3>6. \A id \in callbacks : id > first
      BY <1>0 DEF ClientShape
    <3> QED BY <3>1, <3>2, <3>3, <3>5, <3>6 DEF IndInv, NoSilentGap
  <2>5. OneLiveStream'
    BY <1>0, <1>0a, <1>1 DEF Join, OneLiveStream, ClientShape
  <2> QED BY <2>1, <2>2, <2>3, <2>4, <2>5 DEF IndInv
<1>2. CASE PollExpired(c)
  <2>1. cursor[c] < Edge
    BY <1>0, <1>0a, <1>2, ExpiredEdge DEF PollExpired
  <2>2. OneLiveStream'
    BY <1>0, <1>0a, <1>2 DEF PollExpired, OneLiveStream
  <2> QED BY <1>0a, <1>2, <2>1, <2>2, ModeStep DEF PollExpired, LogStands, Modes
<1>3. CASE Poll(c)
  <2> DEFINE sent == After(cursor[c])
  <2>1. /\ sent \in Seq(Response) /\ Len(sent) = next_sequence_id - 1 - cursor[c]
        /\ \A i \in 1..Len(sent) : sent[i].id = cursor[c] + i
    BY <1>0, <1>0a, <1>3, AfterFollows DEF Poll
  <2>2. /\ LogStands /\ mode[c] = "reading" /\ Receive(c, sent) /\ mode' = mode
        /\ stream_active' = stream_active
    BY <1>3 DEF Poll, LogStands
  <2>3. OneLiveStream'
    BY <1>0, <2>2 DEF OneLiveStream
  <2>4. Len(sent) <= next_sequence_id - 1 - cursor[c]
    BY <1>0, <1>0a, <2>1 DEF LogShape
  <2> HIDE DEF sent
  <2> QED BY <1>0a, <2>1, <2>2, <2>3, <2>4, SendingStep
<1>4. CASE StreamCheck(c)
  <2>1. OneLiveStream'
    BY <1>0, <1>0a, <1>4 DEF StreamCheck, OneLiveStream
  <2> QED BY <1>0a, <1>4, <2>1, ModeStep DEF StreamCheck, LogStands, Modes
<1>5. CASE StreamAcquire(c)
  <2> DEFINE m == IF stream_active THEN "reading" ELSE "streaming"
  <2>1. mode' = [mode EXCEPT ![c] = m] /\ m \in Modes \ {"absent"} /\ m # "expired"
    BY <1>5 DEF StreamAcquire, Modes
  <2>2. mode[c] = "opening" /\ LogStands /\ stream_active' = TRUE /\ UNCHANGED <<cursor, got>>
    BY <1>5 DEF StreamAcquire, LogStands
  <2>3. OneLiveStream'
    BY <1>0, <1>0a, <2>1, <2>2 DEF OneLiveStream
  <2> HIDE DEF m
  <2> QED BY <2>1, <2>2, <2>3, ModeStep
<1>6. CASE StreamFallsBehind(c)
  <2>1. OneLiveStream'
    BY <1>0, <1>0a, <1>6 DEF StreamFallsBehind, StreamOver, OneLiveStream
  <2> QED BY <1>0a, <1>6, <2>1, ModeStep DEF StreamFallsBehind, StreamOver, LogStands, Modes
<1>7. CASE StreamSend(c)
  <2> DEFINE next == responses[IndexAfter(cursor[c])]
  <2>1. /\ IndexAfter(cursor[c]) \in 1..Len(responses)
        /\ Len(responses) - IndexAfter(cursor[c]) + 1 = next_sequence_id - 1 - cursor[c]
        /\ next.id = cursor[c] + 1 + (IndexAfter(cursor[c]) - IndexAfter(cursor[c]))
    <3>1. /\ cursor[c] \in Nat /\ cursor[c] < next_sequence_id
          /\ ~Expired(cursor[c]) /\ HasAfter(cursor[c])
      BY <1>0, <1>0a, <1>7 DEF StreamSend
    <3>2. /\ IndexAfter(cursor[c]) \in 1..Len(responses)
          /\ Len(responses) - IndexAfter(cursor[c]) + 1 = next_sequence_id - 1 - cursor[c]
          /\ \A i \in IndexAfter(cursor[c])..Len(responses) :
               responses[i].id = cursor[c] + 1 + (i - IndexAfter(cursor[c]))
      BY <1>0, <3>1, FollowingResponse
    <3>3. Len(responses) \in Nat
      BY <1>0 DEF LogShape
    <3>4. IndexAfter(cursor[c]) \in IndexAfter(cursor[c])..Len(responses)
      BY <3>2, <3>3
    <3> QED BY <3>2, <3>4
  <2>2. next \in Response /\ next.id = cursor[c] + 1
    <3>1. responses \in Seq(Response) /\ cursor[c] \in Nat
      BY <1>0, <1>0a DEF LogShape
    <3>2. IndexAfter(cursor[c]) \in 1..Len(responses)
      BY <2>1
    <3>3. next \in Response
      BY <3>1, <3>2
    <3>4. IndexAfter(cursor[c]) \in Int
      BY <3>2
    <3>5. next.id = cursor[c] + 1 + (IndexAfter(cursor[c]) - IndexAfter(cursor[c]))
      BY <2>1
    <3> HIDE DEF next, IndexAfter
    <3> QED BY <3>1, <3>3, <3>4, <3>5
  <2>3. /\ mode[c] = "streaming" /\ LogStands /\ Receive(c, <<next>>)
        /\ \/ mode' = [mode EXCEPT ![c] = "ended"] /\ stream_active' = FALSE
           \/ UNCHANGED <<mode, stream_active>>
    BY <1>7 DEF StreamSend, StreamOver, LogStands
  <2>4. cursor[c] < next_sequence_id - 1
    BY <1>7 DEF StreamSend, HasAfter
  <2> HIDE DEF next
  <2>5. /\ <<next>> \in Seq(Response) /\ Len(<<next>>) = 1
        /\ \A i \in 1..Len(<<next>>) : <<next>>[i].id = cursor[c] + i
    BY <1>0a, <2>2
  <2>6. Len(<<next>>) <= next_sequence_id - 1 - cursor[c]
    BY <1>0, <1>0a, <2>4, <2>5 DEF LogShape
  <2>7. OneLiveStream' /\ stream_active' \in BOOLEAN
    <3>1. CASE mode' = [mode EXCEPT ![c] = "ended"] /\ stream_active' = FALSE
      BY <1>0, <1>0a, <2>3, <3>1 DEF OneLiveStream
    <3>2. CASE UNCHANGED <<mode, stream_active>>
      BY <1>0, <1>0a, <3>2 DEF OneLiveStream
    <3> QED BY <2>3, <3>1, <3>2
  <2> QED BY <2>3, <2>5, <2>6, <2>7, SendingStep
<1>8. CASE StreamEnd(c)
  <2>1. OneLiveStream'
    BY <1>0, <1>0a, <1>8 DEF StreamEnd, StreamOver, OneLiveStream
  <2> QED BY <1>0a, <1>8, <2>1, ModeStep DEF StreamEnd, StreamOver, LogStands, Modes
<1>9. CASE Disconnect(c)
  <2>1. OneLiveStream'
    BY <1>0, <1>0a, <1>9 DEF Disconnect, StreamOver, OneLiveStream
  <2> QED BY <1>0a, <1>9, <2>1, ModeStep DEF Disconnect, StreamOver, LogStands, Modes
<1> QED
  BY <1>1, <1>2, <1>3, <1>4, <1>5, <1>6, <1>7, <1>8, <1>9 DEF Client, StreamPull

-----------------------------------------------------------------------------
(* The theorems.                                                            *)

\* The initial state satisfies the invariant.
LEMMA InitIndInv == Init => IndInv
<1> SUFFICES ASSUME Init PROVE IndInv
  OBVIOUS
<1>1. LogShape /\ WindowContiguous
  BY DEF Init, InitLog, LogShape, WindowContiguous
<1>2. ClientShape
  <2>1. <<>> \in Seq(Nat) /\ "absent" \in Modes
    BY DEF Modes
  <2> QED BY <2>1 DEF Init, InitLog, ClientShape
<1>4. CursorsWithinLog
  BY DEF Init, InitLog, CursorsWithinLog
<1>5. OneLiveStream
  BY DEF Init, OneLiveStream
<1>3. NoSilentGap
  BY DEF Init, NoSilentGap
<1> QED BY <1>1, <1>2, <1>3, <1>4, <1>5 DEF IndInv

\* The invariant holds in every reachable state.
THEOREM IndInvHolds == Spec => []IndInv
<1>1. Init => IndInv
  BY InitIndInv
<1>2. IndInv /\ [Next]_vars => IndInv'
  <2> SUFFICES ASSUME IndInv, [Next]_vars PROVE IndInv'
    OBVIOUS
  <2>1. CASE Next
    BY <2>1, EventLogAssumption, JobStep, ClientStep DEF Next
  <2>2. CASE UNCHANGED vars
    BY <2>2 DEF vars, log_vars, client_vars, IndInv, LogShape, WindowContiguous, ClientShape,
       CursorsWithinLog, NoSilentGap, OneLiveStream, Edge
  <2> QED BY <2>1, <2>2
<1> QED BY <1>1, <1>2, PTL DEF Spec

\* The limits hold in every reachable state.
LEMMA LimitsInvHolds == Spec => []LimitsInv
<1>1. Init => LimitsInv
  <2> SUFFICES ASSUME Init PROVE LimitsInv
    OBVIOUS
  <2>1. /\ responses = <<>> /\ bytes = 0 /\ callbacks = {} /\ closed = FALSE
        /\ phase = "queued"
    BY DEF Init, InitLog
  <2>2. BytesOf(responses) = 0
    <3>1. responses \in Seq(Response)
      BY <2>1
    <3> QED BY <2>1, <3>1, BytesOfType
  <2>3. WindowBounded
    BY EventLogAssumption, <2>1, <2>2 DEF WindowBounded, EventLogAssumption
  <2> QED BY <2>1, <2>3 DEF LimitsInv, CallbackSizes
<1>2. IndInv /\ LimitsInv /\ [Next]_vars => LimitsInv'
  <2> SUFFICES ASSUME IndInv, LimitsInv, [Next]_vars PROVE LimitsInv'
    OBVIOUS
  <2>1. CASE Next
    BY <2>1, EventLogAssumption, JobLimits, ClientLimits DEF Next
  <2>2. CASE UNCHANGED vars
    BY <2>2 DEF vars, log_vars, LimitsInv, WindowBounded, CallbackSizes
  <2> QED BY <2>1, <2>2
<1> QED BY <1>1, <1>2, IndInvHolds, PTL DEF Spec

\* The window keeps to both of its limits and its byte count is exact, however
\* often payloads are released and in whatever order.
THEOREM WindowStaysBounded == Spec => []WindowBounded
BY LimitsInvHolds, PTL DEF LimitsInv

\* Type correctness, of the byte count too.
THEOREM EventDeliveryTypeCorrect == Spec => []TypeOK
<1>1. IndInv /\ LimitsInv => TypeOK
  <2> SUFFICES ASSUME IndInv, LimitsInv PROVE TypeOK
    OBVIOUS
  <2>1. bytes \in Nat
    BY BytesOfType DEF IndInv, LogShape, LimitsInv, WindowBounded
  <2> QED BY <2>1 DEF IndInv, LogShape, ClientShape, LimitsInv, CallbackSizes,
            TypeOK, LogTypeOK
<1> QED BY <1>1, IndInvHolds, LimitsInvHolds, PTL

\* The retained responses are the newest ones, without a hole.
THEOREM WindowIsContiguous == Spec => []WindowContiguous
BY IndInvHolds, PTL DEF IndInv

\* No client ever misses a response unnoticed, whatever the limits evict.
THEOREM NothingSkipped == Spec => []NoSilentGap
BY IndInvHolds, PTL DEF IndInv

\* Two streams of one job never hold the lease together, and it does not leak.
THEOREM LeaseIsExclusive == Spec => []OneLiveStream
BY IndInvHolds, PTL DEF IndInv

\* A 410 is only ever answered for a response that is gone for good.
THEOREM ExpiryIsJustified == Spec => []ExpiryIsReal
<1>1. IndInv => ExpiryIsReal
  <2> SUFFICES ASSUME IndInv, NEW c \in Clients, mode[c] = "expired",
                      NEW i \in 1..Len(responses)
               PROVE  responses[i].id > cursor[c] + 1
    BY DEF ExpiryIsReal
  <2>1. cursor[c] < Edge /\ responses[i].id = Edge + i
    BY DEF IndInv, CursorsWithinLog, WindowContiguous, Edge, LogShape
  <2>2. cursor[c] \in Nat /\ Edge \in Int
    BY DEF IndInv, ClientShape, LogShape, Edge
  <2> QED BY <2>1, <2>2
<1> QED BY <1>1, IndInvHolds, PTL

=============================================================================
