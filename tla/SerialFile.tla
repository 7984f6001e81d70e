----------------------------- MODULE SerialFile -----------------------------
(***************************************************************************)
(* What thread_file promises its callers, without its thread and queue:    *)
(* a file on which each call takes effect at one moment between its start  *)
(* and its return, at most once and never concurrently with another; calls *)
(* may be refused, without any effect, only once the file has been closed. *)
(* The answer to a call that took effect is its outcome or false, never a  *)
(* success its operation did not have; to one that was refused, false.     *)
(***************************************************************************)
CONSTANTS Callers, Owner

VARIABLES
  phase,    \* "idle", "called", "done" (took effect), "gone" (destroyed)
  request,  \* the operation of the call under way
  outcome,  \* its outcome, once it took effect
  answer,   \* what its caller was told, once it has returned
  open,     \* the file has a handle
  closed    \* close() has taken effect

vars == <<phase, request, outcome, answer, open, closed>>

Init ==
  /\ phase = [c \in Callers |-> "idle"]
  /\ request = [c \in Callers |-> "none"]
  /\ outcome = [c \in Callers |-> FALSE]
  /\ answer = [c \in Callers |-> "none"]
  /\ open \in BOOLEAN
  /\ closed = FALSE

Invoke(c, o) ==
  /\ phase[c] = "idle"
  /\ phase' = [phase EXCEPT ![c] = "called"]
  /\ request' = [request EXCEPT ![c] = o]
  /\ answer' = [answer EXCEPT ![c] = "none"]
  /\ UNCHANGED <<outcome, open, closed>>

Effect(o, r) ==
  \/ o = "close"  /\ r /\ open' = FALSE /\ closed' = TRUE
  \/ o = "handle" /\ (r => open) /\ UNCHANGED <<open, closed>>
  \/ o = "path"   /\ open' \in {open, FALSE} /\ UNCHANGED closed
  \/ o = "flush"  /\ r /\ UNCHANGED <<open, closed>>
  \/ o = "size"   /\ UNCHANGED <<open, closed>>

TakeEffect(c) ==
  /\ phase[c] = "called"
  /\ \E r \in BOOLEAN :
       /\ Effect(request[c], r)
       /\ outcome' = [outcome EXCEPT ![c] = r]
  /\ phase' = [phase EXCEPT ![c] = "done"]
  /\ UNCHANGED <<request, answer>>

\* The caller is told that the operation failed.
Refuse(c) ==
  /\ phase[c] = "called"
  /\ closed
  /\ phase' = [phase EXCEPT ![c] = "idle"]
  /\ request' = [request EXCEPT ![c] = "none"]
  /\ answer' = [answer EXCEPT ![c] = "false"]
  /\ UNCHANGED <<outcome, open, closed>>

\* The caller is told of the outcome, or of a failure all the same.
Return(c) ==
  /\ phase[c] = "done"
  /\ \E told \in {"false"} \cup (IF outcome[c] THEN {"true"} ELSE {}) :
       answer' = [answer EXCEPT ![c] = told]
  /\ phase' = [phase EXCEPT ![c] = "idle"]
  /\ request' = [request EXCEPT ![c] = "none"]
  /\ outcome' = [outcome EXCEPT ![c] = FALSE]
  /\ UNCHANGED <<open, closed>>

\* The object is destroyed when nobody uses it, and closed by then.
Destroyed ==
  /\ \A c \in Callers : phase[c] = "idle"
  /\ closed
  /\ phase' = [phase EXCEPT ![Owner] = "gone"]
  /\ UNCHANGED <<request, outcome, answer, open, closed>>

Answer(c) == TakeEffect(c) \/ Refuse(c) \/ Return(c)

Next ==
  \/ \E c \in Callers : \/ \E o \in {"handle", "path", "flush", "size", "close"} :
                             Invoke(c, o)
                        \/ Answer(c)
  \/ Destroyed

EveryCallAnswered ==
  \A c \in Callers : phase[c] = "called" ~> phase[c] = "idle"

SafeSpec == Init /\ [][Next]_vars

Spec == SafeSpec /\ EveryCallAnswered
=============================================================================
