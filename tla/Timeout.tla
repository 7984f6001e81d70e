------------------------------ MODULE Timeout -------------------------------
(***************************************************************************)
(* utils::timeout: a one-shot timer.  Its thread waits for the duration    *)
(* and then runs the callback; disable() cancels it and joins the thread,  *)
(* reset() starts the wait again, the destructor disables.                 *)
(*                                                                         *)
(* The sections of reset() and of the timer's thread under timeout_mutex_  *)
(* are one step each, wait_for gives the mutex up; disable() is seen       *)
(* between its section and its unlock.  The callback is external: it ends, *)
(* and does not call disable() itself.                                     *)
(***************************************************************************)
EXTENDS Naturals

CONSTANTS Users,       \* the threads that use the timer
          Owner,       \* the one that destroys it
          MaxCalls,    \* bound: calls of disable() and reset() by each user
          MaxSpurious  \* bound: spurious wakeups of wait_for

ASSUME TimeoutAssumption ==
  Owner \in Users /\ MaxCalls \in Nat /\ MaxSpurious \in Nat

VARIABLES
  upc,        \* where each user is ("locked": in disable() with the mutex)
  calls,      \* the calls each user has made
  tpc,        \* where the timer's thread is
  handle,     \* timeout_thread_ is not null
  killed,     \* timeout_killed_
  destroying, \* the destructor has been entered
  spurious,   \* spurious wakeups so far
  cancelled,  \* history: a disable() came before the timer had fired
  started,    \* history: the callback has been started
  fullWait    \* history: no notification reached the wait under way

vars == <<upc, calls, tpc, handle, killed, destroying, spurious, cancelled, started,
          fullWait>>

UserTypes ==
  /\ upc \in [Users -> {"idle", "locked", "joining", "destroyed"}]
  /\ calls \in [Users -> 0 .. MaxCalls]
  /\ spurious \in 0 .. MaxSpurious

\* Besides their types: a timer without a thread to join is a dead one.
TimerTypes ==
  /\ tpc \in {"absent", "starting", "waiting", "expired", "notified",
              "fired", "calling", "exited"}
  /\ handle \in BOOLEAN /\ killed \in BOOLEAN /\ destroying \in BOOLEAN
  /\ cancelled \in BOOLEAN /\ started \in BOOLEAN /\ fullWait \in BOOLEAN
  /\ ~handle => killed

TypeOK == UserTypes /\ TimerTypes

\* The constructor: without a positive duration there is no thread.
Init ==
  /\ upc = [u \in Users |-> "idle"]
  /\ calls = [u \in Users |-> 0]
  /\ \E positive \in BOOLEAN :
       /\ tpc = IF positive THEN "starting" ELSE "absent"
       /\ handle = positive
       /\ killed = ~positive
  /\ destroying = FALSE
  /\ spurious = 0
  /\ cancelled = FALSE
  /\ started = FALSE
  /\ fullWait = FALSE

-----------------------------------------------------------------------------
(* The timer's thread.                                                     *)

\* disable() gives the mutex up before it joins the thread.
MutexFree_NotWhileJoining == \A u \in Users : upc[u] \notin {"locked", "joining"}

MutexFree == \A u \in Users : upc[u] # "locked"

\* while (not timeout_killed_) wait_for(duration_), with the mutex held.
WaitUnlessKilled ==
  /\ tpc' = IF killed THEN "exited" ELSE "waiting"
  /\ fullWait' = TRUE

Start ==
  /\ tpc = "starting"
  /\ MutexFree
  /\ WaitUnlessKilled
  /\ UNCHANGED <<upc, calls, handle, killed, destroying, spurious, cancelled,
                 started>>

\* wait_for comes to its end; the thread has yet to get the mutex back.
Expire_Never == FALSE /\ UNCHANGED vars

Expire ==
  /\ tpc = "waiting"
  /\ tpc' = "expired"
  /\ UNCHANGED <<upc, calls, handle, killed, destroying, spurious, cancelled,
                 started, fullWait>>

SpuriousWake ==
  /\ tpc = "waiting"
  /\ spurious < MaxSpurious
  /\ spurious' = spurious + 1
  /\ tpc' = "notified"
  /\ fullWait' = FALSE
  /\ UNCHANGED <<upc, calls, handle, killed, destroying, cancelled, started>>

\* The wait timed out: the timer fires ...
FireUnchecked ==
  /\ tpc = "expired"
  /\ MutexFree
  /\ killed' = TRUE
  /\ tpc' = "fired"
  /\ UNCHANGED <<upc, calls, handle, destroying, spurious, cancelled, started,
                 fullWait>>

Fire == ~killed /\ FireUnchecked

\* ... unless it has been disabled in the meantime.
GiveUp ==
  /\ tpc = "expired"
  /\ MutexFree
  /\ killed
  /\ tpc' = "exited"
  /\ UNCHANGED <<upc, calls, handle, killed, destroying, spurious, cancelled,
                 started, fullWait>>

Wakeup_Fires ==
  /\ tpc = "notified"
  /\ MutexFree
  /\ killed' = TRUE
  /\ tpc' = IF killed THEN "exited" ELSE "fired"
  /\ UNCHANGED <<upc, calls, handle, destroying, spurious, cancelled, started,
                 fullWait>>

\* Woken before the end of the wait: the whole duration once more.
Wakeup ==
  /\ tpc = "notified"
  /\ MutexFree
  /\ WaitUnlessKilled
  /\ UNCHANGED <<upc, calls, handle, killed, destroying, spurious, cancelled,
                 started>>

\* The callback runs without the mutex; what it throws is swallowed.
CallbackBegin ==
  /\ tpc = "fired"
  /\ tpc' = "calling"
  /\ started' = TRUE
  /\ UNCHANGED <<upc, calls, handle, killed, destroying, spurious, cancelled,
                 fullWait>>

CallbackEnd ==
  /\ tpc = "calling"
  /\ tpc' = "exited"
  /\ UNCHANGED <<upc, calls, handle, killed, destroying, spurious, cancelled,
                 started, fullWait>>

-----------------------------------------------------------------------------
(* The users.                                                              *)

NotifyAll ==
  /\ tpc' = IF tpc = "waiting" THEN "notified" ELSE tpc
  /\ fullWait' = IF tpc = "waiting" THEN FALSE ELSE fullWait

Pending == tpc \in {"starting", "waiting", "expired", "notified"}

\* disable() takes the thread out of the object and marks the timer killed.
TakeThread(u) ==
  /\ handle' = FALSE
  /\ killed' = TRUE
  /\ cancelled' = (cancelled \/ Pending)
  /\ upc' = [upc EXCEPT ![u] = "locked"]

Returned(u) ==
  upc' = [upc EXCEPT ![u] = IF destroying' THEN "destroyed" ELSE "idle"]

\* The section of disable(); without a thread to join it only notifies.
DisableSection(u) ==
  /\ MutexFree
  /\ IF handle THEN TakeThread(u)
               ELSE Returned(u) /\ UNCHANGED <<handle, killed, cancelled>>
  /\ NotifyAll
  /\ UNCHANGED <<spurious, started>>

Disable(u) ==
  /\ upc[u] = "idle" /\ ~destroying
  /\ calls[u] < MaxCalls
  /\ calls' = [calls EXCEPT ![u] = @ + 1]
  /\ UNCHANGED destroying
  /\ DisableSection(u)

\* ~timeout(): nobody else is in a call any more.
Destroy ==
  /\ \A u \in Users : upc[u] = "idle"
  /\ destroying' = TRUE
  /\ UNCHANGED calls
  /\ DisableSection(Owner)

Unlock_Detach(u) ==
  /\ upc[u] = "locked"
  /\ UNCHANGED <<calls, tpc, handle, killed, destroying, spurious, cancelled,
                 started, fullWait>>
  /\ Returned(u)

\* The mutex is given up, then the thread joined.
Unlock(u) ==
  /\ upc[u] = "locked"
  /\ upc' = [upc EXCEPT ![u] = "joining"]
  /\ UNCHANGED <<calls, tpc, handle, killed, destroying, spurious, cancelled,
                 started, fullWait>>

Join(u) ==
  /\ upc[u] = "joining"
  /\ tpc = "exited"
  /\ UNCHANGED <<calls, tpc, handle, killed, destroying, spurious, cancelled,
                 started, fullWait>>
  /\ Returned(u)

Reset(u) ==
  /\ upc[u] = "idle" /\ ~destroying
  /\ MutexFree
  /\ calls[u] < MaxCalls
  /\ calls' = [calls EXCEPT ![u] = @ + 1]
  /\ NotifyAll
  /\ UNCHANGED <<upc, handle, killed, destroying, spurious, cancelled, started>>

-----------------------------------------------------------------------------

ThreadStep ==
  \/ Start \/ Expire \/ Fire \/ GiveUp \/ Wakeup \/ CallbackBegin \/ CallbackEnd

Destroyed == upc[Owner] = "destroyed"

Gone == Destroyed /\ tpc \in {"absent", "exited"} /\ UNCHANGED vars

Next ==
  \/ ThreadStep
  \/ SpuriousWake
  \/ \E u \in Users : Disable(u) \/ Reset(u) \/ Unlock(u) \/ Join(u)
  \/ Destroy
  \/ Gone

Spec == Init /\ [][Next]_vars

\* The thread is scheduled, its waits end, and so does the callback; a user
\* in disable() goes on, to join the thread once it has exited.
Fairness ==
  /\ WF_vars(ThreadStep)
  /\ \A u \in Users : WF_vars(Unlock(u)) /\ WF_vars(Join(u))

FairSpec == Spec /\ Fairness

-----------------------------------------------------------------------------
(* Properties.                                                             *)

\* A disable() that gets the mutex before the timer has fired cancels the
\* callback, even when the wait is already over.
CancelledNeverFires == cancelled => ~started

\* The destructor leaves no thread behind that could touch the members or run
\* the callback, also when it was another user's disable() that took the
\* thread to join it.
NothingAfterDestroy == Destroyed => tpc \in {"absent", "exited"}

\* The callback is started only at the end of a wait of the whole duration
\* that no reset() and no spurious wakeup has interrupted.
FiresAfterFullWait == [][CallbackBegin => fullWait]_vars

\* disable() returns, and so does the destructor.
DisableReturns ==
  \A u \in Users : upc[u] = "locked" ~> upc[u] \in {"idle", "destroyed"}

\* A timer that nobody disables fires, however many resets it has seen, once
\* they stop.
FiresUnlessDisabled == tpc = "starting" ~> started \/ cancelled
=============================================================================
