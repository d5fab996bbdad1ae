-------------------------- MODULE MpSolverSessions --------------------------
(***************************************************************************)
(* javascript/mp_solver_session.h, class mp_session::Registry: MPSolver    *)
(* objects that clients create, use and close in separate jobs, on threads *)
(* of their own, while SolverJobService's cleanup thread expires the idle  *)
(* ones.  Session::mutex serialises the jobs that use one session.         *)
(***************************************************************************)
EXTENDS SessionRegistry

VARIABLES
  at,      \* where each thread is
  handle,  \* the handle its job was sent
  closed,  \* Session::closed; the solver is gone
  failed,  \* Session::failed
  idle     \* history: how long no job has used each session

job_vars == <<at, handle, closed, failed>>
vars == <<registry_vars, job_vars, idle>>

\* "run" and "close" wait for the session's mutex and "running" and "closing"
\* hold it; "refused" has been told that the registry is full.
Points == {"idle", "refused", "run", "running", "close", "closing", "release"}

Init ==
  /\ InitRegistry
  /\ at = [u \in Users |-> "idle"]
  /\ handle \in [Users -> Handles]
  /\ closed = [s \in Sessions |-> FALSE]
  /\ failed = [s \in Sessions |-> FALSE]
  /\ idle = [s \in Sessions |-> 0]

Goto(u, point) == at' = [at EXCEPT ![u] = point]

\* Session::mutex is free.
Unlocked(s) == \A u \in Users : lease[u] = s => at[u] \notin {"running", "closing"}

-----------------------------------------------------------------------------
(* Create.                                                                  *)

Create(u) ==
  /\ at[u] = "idle"
  /\ \E s \in {s \in Sessions : s \notin Kept /\ ~Leased(s)}, h \in Handles :
       /\ Insert(s, h)
       /\ closed' = [closed EXCEPT ![s] = FALSE]
       /\ failed' = [failed EXCEPT ![s] = FALSE]
       /\ idle' = [idle EXCEPT ![s] = 0]
  /\ UNCHANGED <<at, handle>>

CreateRefused(u) ==
  /\ at[u] = "idle"
  /\ InsertRefused
  /\ Goto(u, "refused")
  /\ UNCHANGED <<handle, closed, failed, idle>>

Reply(u) ==
  /\ at[u] = "refused"
  /\ Goto(u, "idle")
  /\ UNCHANGED <<registry_vars, handle, closed, failed, idle>>

-----------------------------------------------------------------------------
(* Run and Close.                                                           *)

\* Both look the handle up first; a handle may be one that is long gone.
LookUp(u, h, op) ==
  /\ at[u] = "idle"
  /\ \/ Find(u, h) /\ Goto(u, op) /\ handle' = [handle EXCEPT ![u] = h]
     \/ FindNothing(h) /\ UNCHANGED <<at, handle>>
  /\ UNCHANGED <<closed, failed, idle>>

\* Mutant: RequireOpen is checked before the mutex is taken, by Find.
RunBeginUnchecked(u) ==
  /\ at[u] = "run"
  /\ Unlocked(lease[u])
  /\ Goto(u, "running")
  /\ UNCHANGED <<registry_vars, handle, closed, failed, idle>>

\* RequireOpen throws for a session that was closed or has failed meanwhile.
RunBegin(u) ==
  /\ at[u] = "run"
  /\ Unlocked(lease[u])
  /\ Goto(u, IF closed[lease[u]] \/ failed[lease[u]] THEN "release" ELSE "running")
  /\ UNCHANGED <<registry_vars, handle, closed, failed, idle>>

\* The edits and the solve return, or one of them throws.
RunEnd(u) ==
  /\ at[u] = "running"
  /\ \E threw \in BOOLEAN : failed' = [failed EXCEPT ![lease[u]] = @ \/ threw]
  /\ Goto(u, "release")
  /\ UNCHANGED <<registry_vars, handle, closed, idle>>

\* Mutant: a session that is closed is closed again (set_cover_guided_session.h).
CloseBeginAgain(u) ==
  /\ at[u] = "close"
  /\ Unlocked(lease[u])
  /\ closed' = [closed EXCEPT ![lease[u]] = TRUE]
  /\ Goto(u, "closing")
  /\ UNCHANGED <<registry_vars, handle, failed, idle>>

\* Resets the solver, unless another Close did.
CloseBegin(u) ==
  /\ at[u] = "close"
  /\ Unlocked(lease[u])
  /\ closed' = [closed EXCEPT ![lease[u]] = TRUE]
  /\ Goto(u, IF closed[lease[u]] THEN "release" ELSE "closing")
  /\ UNCHANGED <<registry_vars, handle, failed, idle>>

CloseErase(u) ==
  /\ at[u] = "closing"
  /\ Erase(handle[u])
  /\ Goto(u, "release")
  /\ UNCHANGED <<handle, closed, failed, idle>>

\* The mutex is free again and the lease ends; until it began to end the
\* session was in use.
ReleaseStore(u) ==
  /\ at[u] = "release"
  /\ LeaseStore(u)
  /\ idle' = [idle EXCEPT ![lease[u]] = 0]
  /\ UNCHANGED job_vars

Release(u) ==
  /\ at[u] = "release"
  /\ LeaseDrop(u)
  /\ Goto(u, "idle")
  /\ UNCHANGED <<handle, closed, failed, idle>>

-----------------------------------------------------------------------------

\* SolverJobService::CleanupExpiredJobs.
Cleanup == ExpireIdle /\ UNCHANGED <<job_vars, idle>>

InUse(s) == \E u \in Users : lease[u] = s /\ u \notin stored

TimePasses ==
  /\ Tick
  /\ idle' = [s \in Sessions |-> IF InUse(s) THEN 0 ELSE Older(idle[s])]
  /\ UNCHANGED job_vars

Job(u) ==
  \/ Create(u) \/ CreateRefused(u) \/ Reply(u)
  \/ \E h \in Handles, op \in {"run", "close"} : LookUp(u, h, op)
  \/ RunBegin(u) \/ RunEnd(u) \/ CloseBegin(u) \/ CloseErase(u)
  \/ ReleaseStore(u) \/ Release(u)

Next == Cleanup \/ TimePasses \/ \E u \in Users : Job(u)

Spec == Init /\ [][Next]_vars

\* The cleanup thread runs at intervals, whatever the clients do.
FairSpec == Spec /\ WF_vars(Cleanup) /\ WF_vars(TimePasses)

-----------------------------------------------------------------------------
(* Properties.                                                              *)

\* The type invariant.
TypeOK ==
  /\ RegistryTypeOK
  /\ at \in [Users -> Points]
  /\ handle \in [Users -> Handles]
  /\ closed \in [Sessions -> BOOLEAN]
  /\ failed \in [Sessions -> BOOLEAN]
  /\ idle \in [Sessions -> 0..IdleTimeout]

\* One job at a time works on a session, and only while its solver exists.
RunsOnOpenSession ==
  \A u \in Users : at[u] = "running" =>
    /\ lease[u] \in Sessions
    /\ ~closed[lease[u]]
    /\ \A v \in Users \ {u} : lease[v] = lease[u] => at[v] \notin {"running", "closing"}

\* Closing a session, even twice at once, "cannot delete a new session that
\* reuses its numeric handle".
CloseErasesOwn ==
  \A u \in Users : at[u] = "closing" /\ handle[u] \in DOMAIN entries =>
    entries[handle[u]] = lease[u]

\* A session that is closed keeps no handle, but for the moment in which Close is
\* about to erase it: it does not count against the capacity for ever.
ClosedAreErased ==
  \A h \in DOMAIN entries : closed[entries[h]] =>
    \E u \in Users : at[u] = "closing" /\ handle[u] = h

\* The sessions with a handle never exceed the capacity, although expired ones may
\* be among them and leases end while they are counted.
CapacityKept == Capacity # 0 => Cardinality(DOMAIN entries) <= Capacity

\* A session is taken from a client only by Close or after nobody has used it
\* for the whole timeout: "active operations are leased and never expired" and
\* idle time starts when the last of them ends.
ExpiresOnlyIdle ==
  [][\A h \in DOMAIN entries :
       entries[h] \in {entries'[g] : g \in DOMAIN entries'} \/ closed[entries[h]]
       \/ (~Leased(entries[h]) /\ idle[entries[h]] >= IdleTimeout)]_vars

\* A session that nobody returns to is freed without any client's traffic.
IdleSessionsFreed ==
  IdleTimeout # 0 => \A s \in Sessions : []<>(s \notin Kept \/ Leased(s))

\* A session that counts against the capacity: in use or not idle for long.
Counts(s) == Leased(s) \/ IdleTimeout = 0 \/ idle[s] < IdleTimeout

\* Create is refused only while Capacity sessions really count: one that has
\* been idle for long enough gives way.
RefusalJustified ==
  [][\A u \in Users : at[u] # "refused" /\ at'[u] = "refused" =>
       Cardinality({h \in DOMAIN entries : Counts(entries[h])}) >= Capacity]_vars

=============================================================================
