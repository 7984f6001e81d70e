---- MODULE AtomicValue ----
(***************************************************************************)
(* utils::atomic<data_t> (support/include/utils/atomic.hpp): a value with  *)
(* a mutex of its own, shared by threads.  A load or a store takes the     *)
(* mutex, does one thing and gives it back, so it is a single step.  An    *)
(* assignment from another atomic is a load followed by a store.  A        *)
(* comparison keeps its own mutex while it loads the other value, which    *)
(* takes the other mutex: the only place here where a thread holds one     *)
(* mutex and waits for another.                                            *)
(*                                                                         *)
(* The operations only: who shares the values is up to the module that     *)
(* uses them (TtlCache).                                                   *)
(***************************************************************************)
EXTENDS Naturals

CONSTANTS
    Threads,
    Objects,      \* the shared atomics
    Values,       \* what they hold
    Nobody,       \* owner of a free mutex
    MaxCalls      \* bound: calls of all threads together

ASSUME AtomicAssumption == Nobody \notin Threads /\ MaxCalls \in Nat

VARIABLES
    value,    \* data_ of each object
    owner,    \* holder of each mtx_
    pc,       \* where each thread is; "equal" and "unequal" when it has just
              \* been told so
    left,     \* the object whose member function the thread runs
    right,    \* the argument of an assignment or a comparison
    temp,     \* the value to be stored or compared with
    seen,     \* truth values of "left equals right" since the call began
    calls     \* calls started

atomicVars == <<value, owner, pc, left, right, temp, seen, calls>>

NoObject == CHOOSE o \in Objects : TRUE
NoValue  == CHOOSE v \in Values : TRUE

AtomicInit ==
    /\ value \in [Objects -> Values]
    /\ owner = [o \in Objects |-> Nobody]
    /\ pc = [t \in Threads |-> "idle"]
    /\ left = [t \in Threads |-> NoObject]
    /\ right = left
    /\ temp = [t \in Threads |-> NoValue]
    /\ seen = [t \in Threads |-> {}]
    /\ calls = 0

Returned(t)  == pc[t] \in {"idle", "equal", "unequal"}
Comparing(t) == pc[t] \in {"lock", "load", "compare"}

Goto(t, place)     == pc' = [pc EXCEPT ![t] = place]
Runs(t, o, p, v)   == /\ left' = [left EXCEPT ![t] = o]
                      /\ right' = [right EXCEPT ![t] = p]
                      /\ temp' = [temp EXCEPT ![t] = v]
Return(t, outcome) == Goto(t, outcome) /\ Runs(t, NoObject, NoObject, NoValue)

\* The history that judges a comparison: from the step that begins it to the one
\* that ends it, whether its two values are equal in the state a step leads to.
Watch ==
    seen' = [t \in Threads |->
        IF Comparing(t) THEN seen[t] \union {value'[left[t]] = value'[right[t]]}
        ELSE IF pc'[t] = "lock" THEN {value'[left'[t]] = value'[right'[t]]}
        ELSE IF pc'[t] = pc[t] THEN seen[t]
        ELSE IF pc'[t] = "equal" THEN {TRUE} ELSE {}]

Free(o)  == owner[o] = Nobody
Begin(t) == Returned(t) /\ calls < MaxCalls /\ calls' = calls + 1

-----------------------------------------------------------------------------
\* load() and operator data_t(): the mutex is taken and given back around one
\* copy of the value, which goes to the caller.
Load(t, o) ==
    /\ Begin(t)
    /\ Free(o)
    /\ Return(t, "idle")
    /\ UNCHANGED <<value, owner>>
    /\ Watch

\* store(data) and operator=(data_t).
Store(t, o, v) ==
    /\ Begin(t)
    /\ Free(o)
    /\ value' = [value EXCEPT ![o] = v]
    /\ Return(t, "idle")
    /\ UNCHANGED owner
    /\ Watch

\* operator=(const atomic &): returns at once on itself, else loads ...
Assign(t, o, p) ==
    /\ Begin(t)
    /\ o # p
    /\ Goto(t, "copy") /\ Runs(t, o, p, NoValue)
    /\ UNCHANGED <<value, owner>>
    /\ Watch

AssignLoad(t) ==
    /\ pc[t] = "copy"
    /\ Free(right[t])
    /\ Goto(t, "store") /\ Runs(t, left[t], NoObject, value[right[t]])
    /\ UNCHANGED <<value, owner, calls>>
    /\ Watch

\* ... gives the other mutex back, and only then stores.
AssignStore(t) ==
    /\ pc[t] = "store"
    /\ Free(left[t])
    /\ value' = [value EXCEPT ![left[t]] = temp[t]]
    /\ Return(t, "idle")
    /\ UNCHANGED <<owner, calls>>
    /\ Watch

-----------------------------------------------------------------------------
\* Mutant: no test for comparing an object with itself.
Compare_NoSelfTest(t, o, p) ==
    /\ Begin(t)
    /\ Goto(t, "lock") /\ Runs(t, o, p, NoValue)
    /\ UNCHANGED <<value, owner>>
    /\ Watch

\* operator==(const atomic &), and operator!= which negates the outcome: an
\* object equals itself without a lock, another one is compared in three steps.
Compare(t, o, p) ==
    /\ Begin(t)
    /\ \/ o = p /\ Return(t, "equal")
       \/ o # p /\ Goto(t, "lock") /\ Runs(t, o, p, NoValue)
    /\ UNCHANGED <<value, owner>>
    /\ Watch

\* Mutant: the comparison reads its own value without its mutex.
CompareLock_Unlocked(t) ==
    /\ pc[t] = "lock"
    /\ Free(left[t])
    /\ Goto(t, "load")
    /\ UNCHANGED <<value, owner, left, right, temp, calls>>
    /\ Watch

CompareLock(t) ==
    /\ pc[t] = "lock"
    /\ Free(left[t])
    /\ owner' = [owner EXCEPT ![left[t]] = t]
    /\ Goto(t, "load")
    /\ UNCHANGED <<value, left, right, temp, calls>>
    /\ Watch

CompareLoad(t) ==
    /\ pc[t] = "load"
    /\ Free(right[t])
    /\ Goto(t, "compare") /\ Runs(t, left[t], right[t], value[right[t]])
    /\ UNCHANGED <<value, owner, calls>>
    /\ Watch

CompareReturn(t) ==
    /\ pc[t] = "compare"
    /\ owner' = [owner EXCEPT ![left[t]] = Nobody]
    /\ Return(t, IF temp[t] = value[left[t]] THEN "equal" ELSE "unequal")
    /\ UNCHANGED <<value, calls>>
    /\ Watch

AtomicStep(t) ==
    \/ AssignLoad(t) \/ AssignStore(t)
    \/ CompareLock(t) \/ CompareLoad(t) \/ CompareReturn(t)

-----------------------------------------------------------------------------
\* A comparison answers for one instant: whatever other threads store while it
\* runs, the two values were equal (or unequal) in the way it reports at some
\* moment of the call.
AnswersForOneInstant ==
    \A t \in Threads : pc[t] \in {"equal", "unequal"} => (pc[t] = "equal") \in seen[t]
====
