----------------------------- MODULE JobSignals -----------------------------
(***************************************************************************)
(* server/src/job_scheduler.cc, class JobCancellationState and the RAII    *)
(* CancellationRegistration: how a cancellation and an interruption reach  *)
(* the handlers that running code has registered.  A record has one such   *)
(* state per signal.                                                       *)
(*                                                                         *)
(* Request exchanges the flag first and takes the mutex afterwards; only   *)
(* the call that flipped the flag goes on, so one phase per signal stands  *)
(* for every thread that requests it.                                      *)
(***************************************************************************)
EXTENDS Integers

CONSTANTS
  Signals,   \* the record's cancellation and interruption
  Handlers   \* the handlers that are registered, each once

VARIABLES
  phase,     \* "none", "due": the flag is set, "calling": Request holds mutex_
             \* and runs the handlers, "over": it has run them
  handlers,  \* JobCancellationState::handlers_
  todo,      \* the handlers that Request's loop has not reached
  called     \* history: how often each handler ran

signal_vars == <<phase, handlers, todo, called>>

InitSignals ==
  /\ phase = [s \in Signals |-> "none"]
  /\ handlers = [s \in Signals |-> {}]
  /\ todo = [s \in Signals |-> {}]
  /\ called = [s \in Signals |-> [h \in Handlers |-> 0]]

requested(s) == phase[s] # "none"

\* mutex_ is free.
Free(s) == phase[s] # "calling"

Ran(s, h) == called' = [called EXCEPT ![s][h] = @ + 1]

-----------------------------------------------------------------------------
(* Request.                                                                 *)

\* requested_.exchange(true); a later call returns here.
RequestExchange(s) ==
  /\ phase[s] = "none"
  /\ phase' = [phase EXCEPT ![s] = "due"]
  /\ UNCHANGED <<handlers, todo, called>>

RequestLock(s) ==
  /\ phase[s] = "due"
  /\ phase' = [phase EXCEPT ![s] = "calling"]
  /\ todo' = [todo EXCEPT ![s] = handlers[s]]
  /\ UNCHANGED <<handlers, called>>

RequestCall(s, h) ==
  /\ phase[s] = "calling"
  /\ h \in todo[s]
  /\ todo' = [todo EXCEPT ![s] = @ \ {h}]
  /\ Ran(s, h)
  /\ UNCHANGED <<phase, handlers>>

RequestUnlock(s) ==
  /\ phase[s] = "calling"
  /\ todo[s] = {}
  /\ phase' = [phase EXCEPT ![s] = "over"]
  /\ UNCHANGED <<handlers, todo, called>>

-----------------------------------------------------------------------------
(* Register and Unregister.                                                 *)

\* What the relaxed load may read under the mutex.  Only Request's critical
\* section orders the exchange before it.
Reads(s) ==
  CASE phase[s] = "none" -> {FALSE}
    [] phase[s] = "due"  -> {FALSE, TRUE}
    [] OTHER             -> {TRUE}

\* The signal has come: the handler runs at once and is not stored.
RegisterRuns(s, h) ==
  /\ Free(s)
  /\ TRUE \in Reads(s)
  /\ Ran(s, h)
  /\ UNCHANGED <<phase, handlers, todo>>

\* Mutant: the flag is not read again under the mutex.
RegisterStoresAlways(s, h) ==
  /\ Free(s)
  /\ handlers' = [handlers EXCEPT ![s] = @ \cup {h}]
  /\ UNCHANGED <<phase, todo, called>>

RegisterStores(s, h) ==
  /\ Free(s)
  /\ FALSE \in Reads(s)
  /\ handlers' = [handlers EXCEPT ![s] = @ \cup {h}]
  /\ UNCHANGED <<phase, todo, called>>

\* Mutant: the registration is erased without the mutex.
UnregisterUnlocked(s, h) ==
  /\ handlers' = [handlers EXCEPT ![s] = @ \ {h}]
  /\ UNCHANGED <<phase, todo, called>>

\* A handler that ran in Register has id 0 and nothing to erase.
Unregister(s, h) ==
  /\ h \in handlers[s] => Free(s)
  /\ handlers' = [handlers EXCEPT ![s] = @ \ {h}]
  /\ UNCHANGED <<phase, todo, called>>

-----------------------------------------------------------------------------

SignalTypeOK ==
  /\ phase \in [Signals -> {"none", "due", "calling", "over"}]
  /\ handlers \in [Signals -> SUBSET Handlers]
  /\ todo \in [Signals -> SUBSET Handlers]
  /\ called \in [Signals -> [Handlers -> Nat]]

\* A signal reaches every handler that is registered when it comes or later,
\* exactly once, and none that has been unregistered: what the handler refers
\* to may be gone by then.
SignalsDelivered ==
  \A s \in Signals, h \in Handlers :
    /\ h \in todo[s] => h \in handlers[s]
    /\ called[s][h] <= 1
    /\ phase[s] = "over" /\ h \in handlers[s] => called[s][h] = 1
    /\ called[s][h] = 1 => requested(s)

=============================================================================
