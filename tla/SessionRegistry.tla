--------------------------- MODULE SessionRegistry ---------------------------
(***************************************************************************)
(* javascript/session_registry.h, class SessionRegistry: the sessions that *)
(* native solvers keep between jobs.  Insert, Find, Erase and ExpireIdle   *)
(* are critical sections of its mutex; the end of a lease is not.          *)
(*                                                                         *)
(* ExpireLocked is one step although leases may end while its loop runs: a *)
(* session that is not leased cannot be leased before the mutex is free,   *)
(* and one whose lease ends meanwhile was used after `cutoff` was read.    *)
(*                                                                         *)
(* Time is what the sessions have waited: no clock value is kept, and      *)
(* nothing depends on how far a wait exceeds the timeout.                  *)
(***************************************************************************)
EXTENDS Integers, FiniteSets

CONSTANTS
  Handles,     \* the numbers that Uniform may draw
  Sessions,    \* BOUND: session objects that exist at a time
  Users,       \* threads that use the registry
  Capacity,    \* SessionLimits::capacity, 0 for none
  IdleTimeout, \* SessionLimits::idle_timeout, 0 for none
  NoSession

ASSUME RegistryAssumption ==
  /\ IsFiniteSet(Handles)
  /\ Capacity \in Nat
  /\ IdleTimeout \in Nat
  /\ NoSession \notin Sessions

VARIABLES
  entries,   \* SessionRegistry::entries_, from handles to sessions
  age,       \* Now() - Entry::last_used of each session
  lease,     \* the session that each user's Lease holds, or NoSession
  stored     \* the users whose ~Lease has stored last_used

registry_vars == <<entries, age, lease, stored>>

InitRegistry ==
  /\ entries = [h \in {} |-> NoSession]
  /\ age = [s \in Sessions |-> 0]
  /\ lease = [u \in Users |-> NoSession]
  /\ stored = {}

Kept == {entries[h] : h \in DOMAIN entries}

Leased(s) == \E u \in Users : lease[u] = s

-----------------------------------------------------------------------------

\* Mutant: a session that somebody uses can expire.
ExpirableInUse(s) == IdleTimeout # 0 /\ age[s] >= IdleTimeout

\* ExpireLocked's condition; use_count() is 1 for the entry of the map alone.
Expirable(s) == IdleTimeout # 0 /\ ~Leased(s) /\ age[s] >= IdleTimeout

\* What ExpireLocked leaves of the entries.
Unexpired == [h \in {h \in DOMAIN entries : ~Expirable(entries[h])} |-> entries[h]]

\* Mutant: the capacity is checked before anything has expired.
FullBeforeExpiry == Capacity # 0 /\ Cardinality(DOMAIN entries) >= Capacity

Full == Capacity # 0 /\ Cardinality(DOMAIN Unexpired) >= Capacity

\* Insert throws; what has expired is gone.
InsertRefused ==
  /\ Full
  /\ entries' = Unexpired
  /\ UNCHANGED <<age, lease, stored>>

\* Insert(session) returns a handle that is not in use.
Insert(s, h) ==
  /\ ~Full
  /\ h \notin DOMAIN Unexpired
  /\ entries' = [g \in DOMAIN Unexpired \cup {h} |-> IF g = h THEN s ELSE Unexpired[g]]
  /\ age' = [age EXCEPT ![s] = 0]
  /\ UNCHANGED <<lease, stored>>

\* Find(h) leases the session ...
Find(u, h) ==
  /\ entries' = Unexpired
  /\ h \in DOMAIN Unexpired
  /\ lease' = [lease EXCEPT ![u] = Unexpired[h]]
  /\ UNCHANGED <<age, stored>>

\* ... or returns nullptr.
FindNothing(h) ==
  /\ entries' = Unexpired
  /\ h \notin DOMAIN Unexpired
  /\ UNCHANGED <<age, lease, stored>>

Erase(h) ==
  /\ entries' = [g \in DOMAIN entries \ {h} |-> entries[g]]
  /\ UNCHANGED <<age, lease, stored>>

\* Mutant: the executor inherits SolverExecutor's empty ExpireIdleSessions.
ExpireNothing == UNCHANGED registry_vars

ExpireIdle ==
  /\ entries' = Unexpired
  /\ UNCHANGED <<age, lease, stored>>

\* ~Lease stores last_used ...
LeaseStore(u) ==
  /\ lease[u] # NoSession
  /\ u \notin stored
  /\ age' = [age EXCEPT ![lease[u]] = 0]
  /\ stored' = stored \cup {u}
  /\ UNCHANGED <<entries, lease>>

\* ... and its member, destroyed after the body, gives up the entry.
LeaseDrop(u) ==
  /\ lease[u] # NoSession
  /\ u \in stored
  /\ lease' = [lease EXCEPT ![u] = NoSession]
  /\ stored' = stored \ {u}
  /\ UNCHANGED <<entries, age>>

\* Time passes.
Older(t) == IF t < IdleTimeout THEN t + 1 ELSE t

Tick ==
  /\ age' = [s \in Sessions |-> Older(age[s])]
  /\ UNCHANGED <<entries, lease, stored>>

-----------------------------------------------------------------------------

RegistryTypeOK ==
  /\ DOMAIN entries \subseteq Handles
  /\ entries \in [DOMAIN entries -> Sessions]
  /\ age \in [Sessions -> 0..IdleTimeout]
  /\ lease \in [Users -> Sessions \cup {NoSession}]
  /\ stored \subseteq {u \in Users : lease[u] # NoSession}

=============================================================================
