------------------------ MODULE MpSolverSessionsProofs ------------------------
(***************************************************************************)
(* Proofs about MpSolverSessions, for any limits, sessions and threads.    *)
(***************************************************************************)
EXTENDS MpSolverSessions, FiniteSetTheorems, TLAPS

-----------------------------------------------------------------------------
(* The inductive invariant.                                                 *)

\* A thread holds a lease exactly while it works for a job on a session, and
\* only at its end has it stored the time.
LeasesMatch ==
  \A u \in Users :
    /\ lease[u] = NoSession <=> at[u] \in {"idle", "refused"}
    /\ u \in stored => at[u] = "release"

\* Two handles never lead to one session.
HandlesDistinct ==
  \A g, h \in DOMAIN entries : entries[g] = entries[h] => g = h

\* The session's mutex, and what it protects.
MutexHeld ==
  \A u \in Users :
    /\ at[u] = "running" => ~closed[lease[u]]
    /\ at[u] = "closing" => closed[lease[u]]
    /\ at[u] \in {"running", "closing"} =>
         \A v \in Users \ {u} : lease[v] = lease[u] => at[v] \notin {"running", "closing"}

\* The handle leads to the leased session until a Close erases it.
HandleLeadsToLease ==
  \A u \in Users :
    at[u] = "closing" \/ (at[u] = "close" /\ ~closed[lease[u]]) =>
      handle[u] \in DOMAIN entries /\ entries[handle[u]] = lease[u]

\* last_used is never later than the end of the last use.
AgeCountsIdleTime ==
  \A s \in Sessions : idle[s] <= age[s] /\ (~InUse(s) => idle[s] = age[s])

\* The inductive invariant.
IndInv ==
  /\ TypeOK
  /\ LeasesMatch
  /\ HandlesDistinct
  /\ MutexHeld
  /\ HandleLeadsToLease
  /\ AgeCountsIdleTime

-----------------------------------------------------------------------------
(* The steps.                                                               *)

\* Every step keeps the types.
LEMMA StepType ==
  ASSUME RegistryAssumption, IndInv, [Next]_vars
  PROVE  TypeOK'
<1> USE RegistryAssumption DEF IndInv
<1>1. ASSUME NEW u \in Users, Create(u) PROVE TypeOK'
  BY <1>1 DEF TypeOK, RegistryTypeOK, Points, Create, Insert, Kept, Unexpired,
       Expirable, Leased
<1>2. ASSUME NEW u \in Users, CreateRefused(u) PROVE TypeOK'
  BY <1>2 DEF TypeOK, RegistryTypeOK, Points, CreateRefused, InsertRefused,
       Unexpired, Expirable, Leased, Goto
<1>3. ASSUME NEW u \in Users, Reply(u) PROVE TypeOK'
  BY <1>3 DEF TypeOK, RegistryTypeOK, Points, Reply, Goto, registry_vars
<1>4. ASSUME NEW u \in Users, NEW h \in Handles, NEW op \in {"run", "close"},
             LookUp(u, h, op)
      PROVE  TypeOK'
  <2>1. /\ DOMAIN Unexpired \subseteq DOMAIN entries
        /\ Unexpired \in [DOMAIN Unexpired -> Sessions]
    BY DEF TypeOK, RegistryTypeOK, Unexpired
  <2>2. RegistryTypeOK'
    <3>1. CASE Find(u, h)
      BY <2>1, <3>1 DEF TypeOK, RegistryTypeOK, Find
    <3>2. CASE FindNothing(h)
      BY <2>1, <3>2 DEF TypeOK, RegistryTypeOK, FindNothing
    <3> QED BY <1>4, <3>1, <3>2 DEF LookUp
  <2>3. at' \in [Users -> Points] /\ handle' \in [Users -> Handles]
    BY <1>4 DEF TypeOK, Points, LookUp, Goto
  <2> QED BY <1>4, <2>2, <2>3 DEF TypeOK, LookUp
<1>5. ASSUME NEW u \in Users, RunBegin(u) PROVE TypeOK'
  BY <1>5 DEF TypeOK, RegistryTypeOK, Points, RunBegin, Unlocked, Goto, registry_vars
<1>6. ASSUME NEW u \in Users, RunEnd(u) PROVE TypeOK'
  BY <1>6 DEF TypeOK, RegistryTypeOK, Points, RunEnd, Goto, registry_vars
<1>7. ASSUME NEW u \in Users, CloseBegin(u) PROVE TypeOK'
  BY <1>7 DEF TypeOK, RegistryTypeOK, Points, CloseBegin, Unlocked, Goto, registry_vars
<1>8. ASSUME NEW u \in Users, CloseErase(u) PROVE TypeOK'
  BY <1>8 DEF TypeOK, RegistryTypeOK, Points, CloseErase, Erase, Goto
<1>9. ASSUME NEW u \in Users, ReleaseStore(u) PROVE TypeOK'
  BY <1>9 DEF TypeOK, RegistryTypeOK, Points, ReleaseStore, LeaseStore, job_vars
<1>10. ASSUME NEW u \in Users, Release(u) PROVE TypeOK'
  BY <1>10 DEF TypeOK, RegistryTypeOK, Points, Release, LeaseDrop, Goto
<1>11. ASSUME Cleanup PROVE TypeOK'
  BY <1>11 DEF TypeOK, RegistryTypeOK, Points, Cleanup, ExpireIdle, Unexpired,
       Expirable, Leased, job_vars
<1>12. ASSUME TimePasses PROVE TypeOK'
  BY <1>12 DEF TypeOK, RegistryTypeOK, Points, TimePasses, Tick, Older, job_vars
<1>13. ASSUME UNCHANGED vars PROVE TypeOK'
  BY <1>13 DEF TypeOK, RegistryTypeOK, Points, vars, registry_vars, job_vars
<1> QED BY <1>1, <1>2, <1>3, <1>4, <1>5, <1>6, <1>7, <1>8, <1>9, <1>10, <1>11,
           <1>12, <1>13
       DEF Next, Job

\* A lease begins with Find and ends with ~Lease.
LEMMA StepLeasesMatch ==
  ASSUME RegistryAssumption, IndInv, [Next]_vars
  PROVE  LeasesMatch'
<1> USE RegistryAssumption DEF IndInv
<1>1. ASSUME NEW u \in Users, Create(u) PROVE LeasesMatch'
  BY <1>1 DEF LeasesMatch, TypeOK, RegistryTypeOK, Create, Insert, Kept, Unexpired,
       Expirable, Leased
<1>2. ASSUME NEW u \in Users, CreateRefused(u) PROVE LeasesMatch'
  BY <1>2 DEF LeasesMatch, TypeOK, RegistryTypeOK, CreateRefused, InsertRefused,
       Unexpired, Expirable, Leased, Goto
<1>3. ASSUME NEW u \in Users, Reply(u) PROVE LeasesMatch'
  BY <1>3 DEF LeasesMatch, TypeOK, RegistryTypeOK, Reply, Goto, registry_vars
<1>4. ASSUME NEW u \in Users, NEW h \in Handles, NEW op \in {"run", "close"},
             LookUp(u, h, op)
      PROVE  LeasesMatch'
  BY <1>4 DEF LeasesMatch, TypeOK, RegistryTypeOK, LookUp, Find, FindNothing,
       Unexpired, Expirable, Leased, Goto
<1>5. ASSUME NEW u \in Users, RunBegin(u) PROVE LeasesMatch'
  BY <1>5 DEF LeasesMatch, TypeOK, RegistryTypeOK, RunBegin, Unlocked, Goto,
       registry_vars
<1>6. ASSUME NEW u \in Users, RunEnd(u) PROVE LeasesMatch'
  BY <1>6 DEF LeasesMatch, TypeOK, RegistryTypeOK, RunEnd, Goto, registry_vars
<1>7. ASSUME NEW u \in Users, CloseBegin(u) PROVE LeasesMatch'
  BY <1>7 DEF LeasesMatch, TypeOK, RegistryTypeOK, CloseBegin, Unlocked, Goto,
       registry_vars
<1>8. ASSUME NEW u \in Users, CloseErase(u) PROVE LeasesMatch'
  BY <1>8 DEF LeasesMatch, TypeOK, RegistryTypeOK, CloseErase, Erase, Goto
<1>9. ASSUME NEW u \in Users, ReleaseStore(u) PROVE LeasesMatch'
  BY <1>9 DEF LeasesMatch, TypeOK, RegistryTypeOK, ReleaseStore, LeaseStore, job_vars
<1>10. ASSUME NEW u \in Users, Release(u) PROVE LeasesMatch'
  BY <1>10 DEF LeasesMatch, TypeOK, RegistryTypeOK, Release, LeaseDrop, Goto
<1>11. ASSUME Cleanup PROVE LeasesMatch'
  BY <1>11 DEF LeasesMatch, TypeOK, RegistryTypeOK, Cleanup, ExpireIdle, Unexpired,
       Expirable, Leased, job_vars
<1>12. ASSUME TimePasses PROVE LeasesMatch'
  BY <1>12 DEF LeasesMatch, TypeOK, RegistryTypeOK, TimePasses, Tick, Older, job_vars
<1>13. ASSUME UNCHANGED vars PROVE LeasesMatch'
  BY <1>13 DEF LeasesMatch, TypeOK, RegistryTypeOK, vars, registry_vars, job_vars
<1> QED BY <1>1, <1>2, <1>3, <1>4, <1>5, <1>6, <1>7, <1>8, <1>9, <1>10, <1>11,
           <1>12, <1>13
       DEF Next, Job

\* Insert adds one entry for a new session.
LEMMA StepHandlesDistinct ==
  ASSUME RegistryAssumption, IndInv, [Next]_vars
  PROVE  HandlesDistinct'
<1> USE RegistryAssumption DEF IndInv
<1>1. ASSUME NEW u \in Users, Create(u) PROVE HandlesDistinct'
  BY <1>1 DEF HandlesDistinct, TypeOK, RegistryTypeOK, Create, Insert, Kept,
       Unexpired, Expirable, Leased
<1>2. ASSUME NEW u \in Users, CreateRefused(u) PROVE HandlesDistinct'
  BY <1>2 DEF HandlesDistinct, TypeOK, RegistryTypeOK, CreateRefused, InsertRefused,
       Unexpired, Expirable, Leased, Goto
<1>3. ASSUME NEW u \in Users, Reply(u) PROVE HandlesDistinct'
  BY <1>3 DEF HandlesDistinct, TypeOK, RegistryTypeOK, Reply, Goto, registry_vars
<1>4. ASSUME NEW u \in Users, NEW h \in Handles, NEW op \in {"run", "close"},
             LookUp(u, h, op)
      PROVE  HandlesDistinct'
  BY <1>4 DEF HandlesDistinct, TypeOK, RegistryTypeOK, LookUp, Find, FindNothing,
       Unexpired, Expirable, Leased, Goto
<1>5. ASSUME NEW u \in Users, RunBegin(u) PROVE HandlesDistinct'
  BY <1>5 DEF HandlesDistinct, TypeOK, RegistryTypeOK, RunBegin, Unlocked, Goto,
       registry_vars
<1>6. ASSUME NEW u \in Users, RunEnd(u) PROVE HandlesDistinct'
  BY <1>6 DEF HandlesDistinct, TypeOK, RegistryTypeOK, RunEnd, Goto, registry_vars
<1>7. ASSUME NEW u \in Users, CloseBegin(u) PROVE HandlesDistinct'
  BY <1>7 DEF HandlesDistinct, TypeOK, RegistryTypeOK, CloseBegin, Unlocked, Goto,
       registry_vars
<1>8. ASSUME NEW u \in Users, CloseErase(u) PROVE HandlesDistinct'
  BY <1>8 DEF HandlesDistinct, TypeOK, RegistryTypeOK, CloseErase, Erase, Goto
<1>9. ASSUME NEW u \in Users, ReleaseStore(u) PROVE HandlesDistinct'
  BY <1>9 DEF HandlesDistinct, TypeOK, RegistryTypeOK, ReleaseStore, LeaseStore,
       job_vars
<1>10. ASSUME NEW u \in Users, Release(u) PROVE HandlesDistinct'
  BY <1>10 DEF HandlesDistinct, TypeOK, RegistryTypeOK, Release, LeaseDrop, Goto
<1>11. ASSUME Cleanup PROVE HandlesDistinct'
  BY <1>11 DEF HandlesDistinct, TypeOK, RegistryTypeOK, Cleanup, ExpireIdle,
       Unexpired, Expirable, Leased, job_vars
<1>12. ASSUME TimePasses PROVE HandlesDistinct'
  BY <1>12 DEF HandlesDistinct, TypeOK, RegistryTypeOK, TimePasses, Tick, Older,
       job_vars
<1>13. ASSUME UNCHANGED vars PROVE HandlesDistinct'
  BY <1>13 DEF HandlesDistinct, TypeOK, RegistryTypeOK, vars, registry_vars, job_vars
<1> QED BY <1>1, <1>2, <1>3, <1>4, <1>5, <1>6, <1>7, <1>8, <1>9, <1>10, <1>11,
           <1>12, <1>13
       DEF Next, Job

\* The mutex excludes, and what it protects is only changed under it.
LEMMA StepMutexHeld ==
  ASSUME RegistryAssumption, IndInv, [Next]_vars
  PROVE  MutexHeld'
<1> USE RegistryAssumption DEF IndInv
<1>1. ASSUME NEW u \in Users, Create(u) PROVE MutexHeld'
  BY <1>1 DEF MutexHeld, LeasesMatch, TypeOK, RegistryTypeOK, Create, Insert, Kept,
       Unexpired, Expirable, Leased
<1>2. ASSUME NEW u \in Users, CreateRefused(u) PROVE MutexHeld'
  BY <1>2 DEF MutexHeld, LeasesMatch, TypeOK, RegistryTypeOK, CreateRefused,
       InsertRefused, Unexpired, Expirable, Leased, Goto
<1>3. ASSUME NEW u \in Users, Reply(u) PROVE MutexHeld'
  BY <1>3 DEF MutexHeld, LeasesMatch, TypeOK, RegistryTypeOK, Reply, Goto, registry_vars
<1>4. ASSUME NEW u \in Users, NEW h \in Handles, NEW op \in {"run", "close"},
             LookUp(u, h, op)
      PROVE  MutexHeld'
  BY <1>4 DEF MutexHeld, LeasesMatch, TypeOK, RegistryTypeOK, LookUp, Find,
       FindNothing, Unexpired, Expirable, Leased, Goto
<1>5. ASSUME NEW u \in Users, RunBegin(u) PROVE MutexHeld'
  BY <1>5 DEF MutexHeld, LeasesMatch, TypeOK, RegistryTypeOK, RunBegin, Unlocked,
       Goto, registry_vars
<1>6. ASSUME NEW u \in Users, RunEnd(u) PROVE MutexHeld'
  BY <1>6 DEF MutexHeld, LeasesMatch, TypeOK, RegistryTypeOK, RunEnd, Goto,
       registry_vars
<1>7. ASSUME NEW u \in Users, CloseBegin(u) PROVE MutexHeld'
  BY <1>7 DEF MutexHeld, LeasesMatch, TypeOK, RegistryTypeOK, CloseBegin, Unlocked,
       Goto, registry_vars
<1>8. ASSUME NEW u \in Users, CloseErase(u) PROVE MutexHeld'
  BY <1>8 DEF MutexHeld, LeasesMatch, TypeOK, RegistryTypeOK, CloseErase, Erase, Goto
<1>9. ASSUME NEW u \in Users, ReleaseStore(u) PROVE MutexHeld'
  BY <1>9 DEF MutexHeld, LeasesMatch, TypeOK, RegistryTypeOK, ReleaseStore,
       LeaseStore, job_vars
<1>10. ASSUME NEW u \in Users, Release(u) PROVE MutexHeld'
  BY <1>10 DEF MutexHeld, LeasesMatch, TypeOK, RegistryTypeOK, Release, LeaseDrop, Goto
<1>11. ASSUME Cleanup PROVE MutexHeld'
  BY <1>11 DEF MutexHeld, LeasesMatch, TypeOK, RegistryTypeOK, Cleanup, ExpireIdle,
       Unexpired, Expirable, Leased, job_vars
<1>12. ASSUME TimePasses PROVE MutexHeld'
  BY <1>12 DEF MutexHeld, LeasesMatch, TypeOK, RegistryTypeOK, TimePasses, Tick,
       Older, job_vars
<1>13. ASSUME UNCHANGED vars PROVE MutexHeld'
  BY <1>13 DEF MutexHeld, LeasesMatch, TypeOK, RegistryTypeOK, vars, registry_vars,
       job_vars
<1> QED BY <1>1, <1>2, <1>3, <1>4, <1>5, <1>6, <1>7, <1>8, <1>9, <1>10, <1>11,
           <1>12, <1>13
       DEF Next, Job

\* No entry that a job needs expires or is erased by another Close.
LEMMA StepHandleLeadsToLease ==
  ASSUME RegistryAssumption, IndInv, [Next]_vars
  PROVE  HandleLeadsToLease'
<1> USE RegistryAssumption DEF IndInv
<1>1. ASSUME NEW u \in Users, Create(u) PROVE HandleLeadsToLease'
  BY <1>1 DEF HandleLeadsToLease, MutexHeld, LeasesMatch, TypeOK, RegistryTypeOK,
       Create, Insert, Kept, Unexpired, Expirable, Leased
<1>2. ASSUME NEW u \in Users, CreateRefused(u) PROVE HandleLeadsToLease'
  BY <1>2 DEF HandleLeadsToLease, MutexHeld, LeasesMatch, TypeOK, RegistryTypeOK,
       CreateRefused, InsertRefused, Unexpired, Expirable, Leased, Goto
<1>3. ASSUME NEW u \in Users, Reply(u) PROVE HandleLeadsToLease'
  BY <1>3 DEF HandleLeadsToLease, MutexHeld, LeasesMatch, TypeOK, RegistryTypeOK,
       Reply, Goto, registry_vars
<1>4. ASSUME NEW u \in Users, NEW h \in Handles, NEW op \in {"run", "close"},
             LookUp(u, h, op)
      PROVE  HandleLeadsToLease'
  BY <1>4 DEF HandleLeadsToLease, MutexHeld, LeasesMatch, TypeOK, RegistryTypeOK,
       LookUp, Find, FindNothing, Unexpired, Expirable, Leased, Goto
<1>5. ASSUME NEW u \in Users, RunBegin(u) PROVE HandleLeadsToLease'
  BY <1>5 DEF HandleLeadsToLease, MutexHeld, LeasesMatch, TypeOK, RegistryTypeOK,
       RunBegin, Unlocked, Goto, registry_vars
<1>6. ASSUME NEW u \in Users, RunEnd(u) PROVE HandleLeadsToLease'
  BY <1>6 DEF HandleLeadsToLease, MutexHeld, LeasesMatch, TypeOK, RegistryTypeOK,
       RunEnd, Goto, registry_vars
<1>7. ASSUME NEW u \in Users, CloseBegin(u) PROVE HandleLeadsToLease'
  BY <1>7 DEF HandleLeadsToLease, MutexHeld, LeasesMatch, TypeOK, RegistryTypeOK,
       CloseBegin, Unlocked, Goto, registry_vars
<1>8. ASSUME NEW u \in Users, CloseErase(u) PROVE HandleLeadsToLease'
  BY <1>8 DEF HandleLeadsToLease, MutexHeld, LeasesMatch, TypeOK, RegistryTypeOK,
       CloseErase, Erase, Goto
<1>9. ASSUME NEW u \in Users, ReleaseStore(u) PROVE HandleLeadsToLease'
  BY <1>9 DEF HandleLeadsToLease, MutexHeld, LeasesMatch, TypeOK, RegistryTypeOK,
       ReleaseStore, LeaseStore, job_vars
<1>10. ASSUME NEW u \in Users, Release(u) PROVE HandleLeadsToLease'
  BY <1>10 DEF HandleLeadsToLease, MutexHeld, LeasesMatch, TypeOK, RegistryTypeOK,
       Release, LeaseDrop, Goto
<1>11. ASSUME Cleanup PROVE HandleLeadsToLease'
  BY <1>11 DEF HandleLeadsToLease, MutexHeld, LeasesMatch, TypeOK, RegistryTypeOK,
       Cleanup, ExpireIdle, Unexpired, Expirable, Leased, job_vars
<1>12. ASSUME TimePasses PROVE HandleLeadsToLease'
  BY <1>12 DEF HandleLeadsToLease, MutexHeld, LeasesMatch, TypeOK, RegistryTypeOK,
       TimePasses, Tick, Older, job_vars
<1>13. ASSUME UNCHANGED vars PROVE HandleLeadsToLease'
  BY <1>13 DEF HandleLeadsToLease, MutexHeld, LeasesMatch, TypeOK, RegistryTypeOK,
       vars, registry_vars, job_vars
<1> QED BY <1>1, <1>2, <1>3, <1>4, <1>5, <1>6, <1>7, <1>8, <1>9, <1>10, <1>11,
           <1>12, <1>13
       DEF Next, Job

\* Time is stored before a lease ends.
LEMMA StepAgeCountsIdleTime ==
  ASSUME RegistryAssumption, IndInv, [Next]_vars
  PROVE  AgeCountsIdleTime'
<1> USE RegistryAssumption DEF IndInv
<1>1. ASSUME NEW u \in Users, Create(u) PROVE AgeCountsIdleTime'
  BY <1>1 DEF AgeCountsIdleTime, InUse, LeasesMatch, TypeOK, RegistryTypeOK, Create,
       Insert, Kept, Unexpired, Expirable, Leased
<1>2. ASSUME NEW u \in Users, CreateRefused(u) PROVE AgeCountsIdleTime'
  BY <1>2 DEF AgeCountsIdleTime, InUse, LeasesMatch, TypeOK, RegistryTypeOK,
       CreateRefused, InsertRefused, Unexpired, Expirable, Leased, Goto
<1>3. ASSUME NEW u \in Users, Reply(u) PROVE AgeCountsIdleTime'
  BY <1>3 DEF AgeCountsIdleTime, InUse, LeasesMatch, TypeOK, RegistryTypeOK, Reply,
       Goto, registry_vars
<1>4. ASSUME NEW u \in Users, NEW h \in Handles, NEW op \in {"run", "close"},
             LookUp(u, h, op)
      PROVE  AgeCountsIdleTime'
  BY <1>4 DEF AgeCountsIdleTime, InUse, LeasesMatch, TypeOK, RegistryTypeOK, LookUp,
       Find, FindNothing, Unexpired, Expirable, Leased, Goto
<1>5. ASSUME NEW u \in Users, RunBegin(u) PROVE AgeCountsIdleTime'
  BY <1>5 DEF AgeCountsIdleTime, InUse, LeasesMatch, TypeOK, RegistryTypeOK,
       RunBegin, Unlocked, Goto, registry_vars
<1>6. ASSUME NEW u \in Users, RunEnd(u) PROVE AgeCountsIdleTime'
  BY <1>6 DEF AgeCountsIdleTime, InUse, LeasesMatch, TypeOK, RegistryTypeOK, RunEnd,
       Goto, registry_vars
<1>7. ASSUME NEW u \in Users, CloseBegin(u) PROVE AgeCountsIdleTime'
  BY <1>7 DEF AgeCountsIdleTime, InUse, LeasesMatch, TypeOK, RegistryTypeOK,
       CloseBegin, Unlocked, Goto, registry_vars
<1>8. ASSUME NEW u \in Users, CloseErase(u) PROVE AgeCountsIdleTime'
  BY <1>8 DEF AgeCountsIdleTime, InUse, LeasesMatch, TypeOK, RegistryTypeOK,
       CloseErase, Erase, Goto
<1>9. ASSUME NEW u \in Users, ReleaseStore(u) PROVE AgeCountsIdleTime'
  BY <1>9 DEF AgeCountsIdleTime, InUse, LeasesMatch, TypeOK, RegistryTypeOK,
       ReleaseStore, LeaseStore, job_vars
<1>10. ASSUME NEW u \in Users, Release(u) PROVE AgeCountsIdleTime'
  BY <1>10 DEF AgeCountsIdleTime, InUse, LeasesMatch, TypeOK, RegistryTypeOK,
       Release, LeaseDrop, Goto
<1>11. ASSUME Cleanup PROVE AgeCountsIdleTime'
  BY <1>11 DEF AgeCountsIdleTime, InUse, LeasesMatch, TypeOK, RegistryTypeOK,
       Cleanup, ExpireIdle, Unexpired, Expirable, Leased, job_vars
<1>12. ASSUME TimePasses PROVE AgeCountsIdleTime'
  BY <1>12 DEF AgeCountsIdleTime, InUse, LeasesMatch, TypeOK, RegistryTypeOK,
       TimePasses, Tick, Older, job_vars
<1>13. ASSUME UNCHANGED vars PROVE AgeCountsIdleTime'
  BY <1>13 DEF AgeCountsIdleTime, InUse, LeasesMatch, TypeOK, RegistryTypeOK, vars,
       registry_vars, job_vars
<1> QED BY <1>1, <1>2, <1>3, <1>4, <1>5, <1>6, <1>7, <1>8, <1>9, <1>10, <1>11,
           <1>12, <1>13
       DEF Next, Job

\* A closing job erases its own entry, and an entry that is added is of an open session.
LEMMA StepClosed ==
  ASSUME RegistryAssumption, IndInv, ClosedAreErased, [Next]_vars
  PROVE  ClosedAreErased'
<1> USE RegistryAssumption DEF IndInv
<1>1. ASSUME NEW u \in Users, Create(u) PROVE ClosedAreErased'
  BY <1>1 DEF ClosedAreErased, HandlesDistinct, HandleLeadsToLease, MutexHeld,
       LeasesMatch, TypeOK, RegistryTypeOK, Create, Insert, Kept, Unexpired,
       Expirable, Leased
<1>2. ASSUME NEW u \in Users, CreateRefused(u) PROVE ClosedAreErased'
  BY <1>2 DEF ClosedAreErased, HandlesDistinct, HandleLeadsToLease, MutexHeld,
       LeasesMatch, TypeOK, RegistryTypeOK, CreateRefused, InsertRefused,
       Unexpired, Expirable, Leased, Goto
<1>3. ASSUME NEW u \in Users, Reply(u) PROVE ClosedAreErased'
  BY <1>3 DEF ClosedAreErased, HandlesDistinct, HandleLeadsToLease, MutexHeld,
       LeasesMatch, TypeOK, RegistryTypeOK, Reply, Goto, registry_vars
<1>4. ASSUME NEW u \in Users, NEW h \in Handles, NEW op \in {"run", "close"},
             LookUp(u, h, op)
      PROVE  ClosedAreErased'
  BY <1>4 DEF ClosedAreErased, HandlesDistinct, HandleLeadsToLease, MutexHeld,
       LeasesMatch, TypeOK, RegistryTypeOK, LookUp, Find, FindNothing, Unexpired,
       Expirable, Leased, Goto
<1>5. ASSUME NEW u \in Users, RunBegin(u) PROVE ClosedAreErased'
  BY <1>5 DEF ClosedAreErased, HandlesDistinct, HandleLeadsToLease, MutexHeld,
       LeasesMatch, TypeOK, RegistryTypeOK, RunBegin, Unlocked, Goto, registry_vars
<1>6. ASSUME NEW u \in Users, RunEnd(u) PROVE ClosedAreErased'
  BY <1>6 DEF ClosedAreErased, HandlesDistinct, HandleLeadsToLease, MutexHeld,
       LeasesMatch, TypeOK, RegistryTypeOK, RunEnd, Goto, registry_vars
<1>7. ASSUME NEW u \in Users, CloseBegin(u) PROVE ClosedAreErased'
  BY <1>7 DEF ClosedAreErased, HandlesDistinct, HandleLeadsToLease, MutexHeld,
       LeasesMatch, TypeOK, RegistryTypeOK, CloseBegin, Unlocked, Goto,
       registry_vars
<1>8. ASSUME NEW u \in Users, CloseErase(u) PROVE ClosedAreErased'
  BY <1>8 DEF ClosedAreErased, HandlesDistinct, HandleLeadsToLease, MutexHeld,
       LeasesMatch, TypeOK, RegistryTypeOK, CloseErase, Erase, Goto
<1>9. ASSUME NEW u \in Users, ReleaseStore(u) PROVE ClosedAreErased'
  BY <1>9 DEF ClosedAreErased, HandlesDistinct, HandleLeadsToLease, MutexHeld,
       LeasesMatch, TypeOK, RegistryTypeOK, ReleaseStore, LeaseStore, job_vars
<1>10. ASSUME NEW u \in Users, Release(u) PROVE ClosedAreErased'
  BY <1>10 DEF ClosedAreErased, HandlesDistinct, HandleLeadsToLease, MutexHeld,
       LeasesMatch, TypeOK, RegistryTypeOK, Release, LeaseDrop, Goto
<1>11. ASSUME Cleanup PROVE ClosedAreErased'
  BY <1>11 DEF ClosedAreErased, HandlesDistinct, HandleLeadsToLease, MutexHeld,
       LeasesMatch, TypeOK, RegistryTypeOK, Cleanup, ExpireIdle, Unexpired,
       Expirable, Leased, job_vars
<1>12. ASSUME TimePasses PROVE ClosedAreErased'
  BY <1>12 DEF ClosedAreErased, HandlesDistinct, HandleLeadsToLease, MutexHeld,
       LeasesMatch, TypeOK, RegistryTypeOK, TimePasses, Tick, Older, job_vars
<1>13. ASSUME UNCHANGED vars PROVE ClosedAreErased'
  BY <1>13 DEF ClosedAreErased, HandlesDistinct, HandleLeadsToLease, MutexHeld,
       LeasesMatch, TypeOK, RegistryTypeOK, vars, registry_vars, job_vars
<1> QED BY <1>1, <1>2, <1>3, <1>4, <1>5, <1>6, <1>7, <1>8, <1>9, <1>10, <1>11,
           <1>12, <1>13
       DEF Next, Job

\* Only Insert adds an entry, when what has expired is gone and there is room.
LEMMA StepCapacity ==
  ASSUME RegistryAssumption, IndInv, CapacityKept, [Next]_vars
  PROVE  CapacityKept'
<1> USE RegistryAssumption DEF IndInv, TypeOK, RegistryTypeOK
<1> SUFFICES ASSUME Capacity # 0 PROVE Cardinality(DOMAIN entries') <= Capacity
  BY DEF CapacityKept
<1>1. /\ IsFiniteSet(DOMAIN entries)
      /\ Cardinality(DOMAIN entries) \in Nat
      /\ Cardinality(DOMAIN entries) <= Capacity
  BY FS_Subset, FS_CardinalityType DEF CapacityKept
<1>2. ASSUME DOMAIN entries' \subseteq DOMAIN entries
      PROVE  Cardinality(DOMAIN entries') <= Capacity
  <2>1. /\ IsFiniteSet(DOMAIN entries')
        /\ Cardinality(DOMAIN entries') <= Cardinality(DOMAIN entries)
    BY <1>1, <1>2, FS_Subset
  <2>2. Cardinality(DOMAIN entries') \in Nat
    BY <2>1, FS_CardinalityType
  <2> QED BY <1>1, <2>1, <2>2
<1>3. ASSUME NEW u \in Users, Create(u)
      PROVE  Cardinality(DOMAIN entries') <= Capacity
  <2>1. PICK h \in Handles : /\ DOMAIN entries' = DOMAIN Unexpired \cup {h}
                             /\ ~Full
    BY <1>3 DEF Create, Insert
  <2>2. DOMAIN Unexpired \subseteq DOMAIN entries
    BY DEF Unexpired
  <2>3. IsFiniteSet(DOMAIN Unexpired)
    BY <1>1, <2>2, FS_Subset
  <2>4. Cardinality(DOMAIN Unexpired) \in Nat
    BY <2>3, FS_CardinalityType
  <2>5. Cardinality(DOMAIN Unexpired) < Capacity
    BY <2>1, <2>4 DEF Full
  <2>6. \/ Cardinality(DOMAIN entries') = Cardinality(DOMAIN Unexpired)
        \/ Cardinality(DOMAIN entries') = Cardinality(DOMAIN Unexpired) + 1
    BY <2>1, <2>3, FS_AddElement
  <2> QED BY <2>4, <2>5, <2>6
<1>4. ASSUME ~\E u \in Users : Create(u)
      PROVE  DOMAIN entries' \subseteq DOMAIN entries
  <2>1. \/ entries' = Unexpired
        \/ UNCHANGED entries
        \/ \E u \in Users :
             entries' = [g \in DOMAIN entries \ {handle[u]} |-> entries[g]]
    BY <1>4 DEF Next, Job, Cleanup, ExpireIdle, TimePasses, Tick, CreateRefused,
                InsertRefused, Reply, LookUp, Find, FindNothing, RunBegin, RunEnd,
                CloseBegin, CloseErase, Erase, ReleaseStore, LeaseStore, Release,
                LeaseDrop, registry_vars, vars
  <2>2. CASE entries' = Unexpired
    BY <2>2 DEF Unexpired
  <2>3. CASE UNCHANGED entries
    BY <2>3
  <2>4. CASE \E u \in Users :
               entries' = [g \in DOMAIN entries \ {handle[u]} |-> entries[g]]
    BY <2>4
  <2> QED BY <2>1, <2>2, <2>3, <2>4
<1> QED BY <1>2, <1>3, <1>4

-----------------------------------------------------------------------------
(* The theorems.                                                            *)

\* It holds at first, when there is no session.
LEMMA InitInd ==
  ASSUME RegistryAssumption, Init
  PROVE  IndInv
<1> USE RegistryAssumption DEF Init, InitRegistry
<1>1. TypeOK
  BY DEF TypeOK, RegistryTypeOK, Points
<1>2. LeasesMatch /\ HandlesDistinct /\ MutexHeld /\ HandleLeadsToLease
  BY DEF LeasesMatch, HandlesDistinct, MutexHeld, HandleLeadsToLease
<1>3. AgeCountsIdleTime
  BY DEF AgeCountsIdleTime
<1> QED BY <1>1, <1>2, <1>3 DEF IndInv

\* Every step keeps it.
LEMMA StepInd ==
  ASSUME RegistryAssumption, IndInv, [Next]_vars
  PROVE  IndInv'
BY StepType, StepLeasesMatch, StepHandlesDistinct, StepMutexHeld,
   StepHandleLeadsToLease, StepAgeCountsIdleTime DEF IndInv

\* It holds in every reachable state.
THEOREM SessionIndInvHolds == Spec => []IndInv
BY InitInd, StepInd, RegistryAssumption, PTL DEF Spec

\* The registry, its leases and the jobs keep their types, for any number of handles.
THEOREM SessionsTypeCorrect == Spec => []TypeOK
BY SessionIndInvHolds, PTL DEF IndInv

\* A job works on a session alone, and never on one that was closed while it
\* waited for the mutex.
THEOREM WorkIsExclusive == Spec => []RunsOnOpenSession
<1>1. IndInv => RunsOnOpenSession
  BY RegistryAssumption DEF IndInv, TypeOK, RegistryTypeOK, LeasesMatch, MutexHeld,
     RunsOnOpenSession
<1> QED BY <1>1, SessionIndInvHolds, PTL

\* Close never erases another session that was given the same handle.
THEOREM CloseIsSafe == Spec => []CloseErasesOwn
<1>1. IndInv => CloseErasesOwn
  BY DEF IndInv, HandleLeadsToLease, CloseErasesOwn
<1> QED BY <1>1, SessionIndInvHolds, PTL

\* A closed session is no longer found by any handle once its Close has returned.
THEOREM ClosedSessionsLeave == Spec => []ClosedAreErased
<1>1. Init => ClosedAreErased
  BY DEF Init, InitRegistry, ClosedAreErased
<1>2. IndInv /\ ClosedAreErased /\ [Next]_vars => ClosedAreErased'
  BY StepClosed, RegistryAssumption
<1> QED BY <1>1, <1>2, SessionIndInvHolds, PTL DEF Spec

\* The registry never holds more sessions than its capacity.
THEOREM CapacityIsKept == Spec => []CapacityKept
<1>1. Init => CapacityKept
  BY RegistryAssumption, FS_EmptySet DEF Init, InitRegistry, CapacityKept
<1>2. IndInv /\ CapacityKept /\ [Next]_vars => CapacityKept'
  BY StepCapacity, RegistryAssumption
<1> QED BY <1>1, <1>2, SessionIndInvHolds, PTL DEF Spec

\* What a step takes from the registry was closed or is idle.
LEMMA RemovedIsIdle ==
  ASSUME RegistryAssumption, IndInv, [Next]_vars, NEW h \in DOMAIN entries
  PROVE  \/ entries[h] \in {entries'[g] : g \in DOMAIN entries'}
         \/ closed[entries[h]]
         \/ ~Leased(entries[h]) /\ idle[entries[h]] >= IdleTimeout
<1> USE RegistryAssumption DEF IndInv, TypeOK, RegistryTypeOK
<1> DEFINE s == entries[h]
<1>1. s \in Sessions
  OBVIOUS
<1>2. Expirable(s) => ~Leased(s) /\ idle[s] >= IdleTimeout
  BY <1>1 DEF Expirable, Leased, AgeCountsIdleTime, InUse
<1>3. ~Expirable(s) => h \in DOMAIN Unexpired /\ Unexpired[h] = s
  BY DEF Unexpired
<1>4. CASE entries' = Unexpired \/ UNCHANGED entries
  BY <1>2, <1>3, <1>4
<1>5. ASSUME NEW u \in Users, Create(u)
      PROVE  Expirable(s) \/ (h \in DOMAIN entries' /\ entries'[h] = s)
  BY <1>3, <1>5 DEF Create, Insert
<1>6. ASSUME NEW u \in Users, CloseErase(u)
      PROVE  closed[s] \/ (h \in DOMAIN entries' /\ entries'[h] = s)
  BY <1>6 DEF CloseErase, Erase, HandleLeadsToLease, MutexHeld
<1>7. CASE \E u \in Users : Create(u) \/ CloseErase(u)
  BY <1>2, <1>5, <1>6, <1>7
<1>8. ASSUME [Next]_vars, ~\E u \in Users : Create(u) \/ CloseErase(u)
      PROVE  entries' = Unexpired \/ UNCHANGED entries
  BY <1>8 DEF Next, Job, Cleanup, ExpireIdle, TimePasses, Tick, CreateRefused,
              InsertRefused, Reply, LookUp, Find, FindNothing, RunBegin, RunEnd,
              CloseBegin, ReleaseStore, LeaseStore, Release, LeaseDrop,
              registry_vars, vars
<1> QED BY <1>4, <1>7, <1>8

\* No session is taken from a client that has not let it rest for the timeout.
THEOREM OnlyIdleExpires == Spec => ExpiresOnlyIdle
<1>1. IndInv /\ [Next]_vars =>
        [\A h \in DOMAIN entries :
           entries[h] \in {entries'[g] : g \in DOMAIN entries'} \/ closed[entries[h]]
           \/ (~Leased(entries[h]) /\ idle[entries[h]] >= IdleTimeout)]_vars
  BY RemovedIsIdle, RegistryAssumption
<1> QED BY <1>1, SessionIndInvHolds, PTL DEF Spec, ExpiresOnlyIdle

\* A refused Create has counted Capacity sessions that are not to be expired.
LEMMA RefusedByCapacity ==
  ASSUME RegistryAssumption, IndInv, [Next]_vars, NEW u \in Users,
         at[u] # "refused", at'[u] = "refused"
  PROVE  Cardinality({h \in DOMAIN entries : Counts(entries[h])}) >= Capacity
<1> USE RegistryAssumption DEF IndInv, TypeOK, RegistryTypeOK
<1> DEFINE counted == {h \in DOMAIN entries : Counts(entries[h])}
<1>1. Full
  BY DEF Next, Job, Create, CreateRefused, InsertRefused, Reply, LookUp, RunBegin,
         RunEnd, CloseBegin, CloseErase, ReleaseStore, Release, Cleanup, TimePasses,
         Goto, job_vars, vars
<1>2. DOMAIN Unexpired \subseteq counted
  BY DEF Unexpired, Expirable, Counts, AgeCountsIdleTime, Leased
<1>3. IsFiniteSet(counted)
  BY FS_Subset
<1>4. Cardinality(DOMAIN Unexpired) <= Cardinality(counted)
  BY <1>2, <1>3, FS_Subset
<1>5. Cardinality(counted) \in Nat /\ Cardinality(DOMAIN Unexpired) \in Nat
  BY <1>2, <1>3, FS_Subset, FS_CardinalityType
<1>6. Capacity # 0 => Cardinality(DOMAIN Unexpired) >= Capacity
  BY <1>1 DEF Full
<1> HIDE DEF counted
<1>7. Cardinality(counted) >= Capacity
  BY <1>4, <1>5, <1>6
<1> QED BY <1>7 DEF counted

\* A client is only told that the registry is full when it is.
THEOREM RefusalIsJustified == Spec => RefusalJustified
<1>1. IndInv /\ [Next]_vars =>
        [\A u \in Users : at[u] # "refused" /\ at'[u] = "refused" =>
           Cardinality({h \in DOMAIN entries : Counts(entries[h])}) >= Capacity]_vars
  BY RefusedByCapacity, RegistryAssumption
<1> QED BY <1>1, SessionIndInvHolds, PTL DEF Spec, RefusalJustified

=============================================================================
