----------------------------- MODULE ThreadFile -----------------------------
(***************************************************************************)
(* utils::file::thread_file: a file whose operations are carried out by    *)
(* one I/O thread.  Any number of caller threads hand an action to that    *)
(* thread through do_io() and block until it has run it; close() stops     *)
(* the thread; the destructor closes and joins it.                         *)
(*                                                                         *)
(* A call is an item <<c, n>>: the n-th call of caller c.  An item stands  *)
(* for one io_item of the code, which the caller and the I/O thread share. *)
(***************************************************************************)
EXTENDS Naturals, Sequences

CONSTANTS Callers,   \* the threads that use the object
          Owner,     \* the one that destroys it
          MaxCalls   \* bound: ordinary calls per caller

ASSUME CallersAssumption == Owner \in Callers /\ MaxCalls \in Nat

\* "handle" is an operation on the open handle (read, write), "path" one that
\* works on the path and may leave the handle closed (truncate, move_to,
\* copy_to, remove); flush() always answers true, and size() takes the path's
\* size when there is no handle.
Ops == {"handle", "path", "flush", "size", "close"}

\* One more call than MaxCalls: the close() of the destructor.
Items == Callers \X (1 .. MaxCalls + 1)

VARIABLES
  pc,          \* where each caller is
  calls,       \* calls[c]: the number of calls c has made
  op,          \* op[i]: the operation of item i
  complete,    \* io_item::complete
  success,     \* io_item::success
  outcome,     \* what the action of the item returned to the I/O thread
  ret,         \* what the call told the caller (flush and close keep it)
  actions,     \* actions_: the queue
  stop,        \* stop_requested_
  ioPc,        \* where the I/O thread is ("absent": io_thread_ is null)
  batch,       \* the rest of run_actions' local copy of actions_
  cur,         \* the item run_actions is at
  draining,    \* run_actions is the one after the loop
  fileOpen,    \* file_ has an open handle
  destroying,  \* the destructor has been entered
  pushed,      \* history: the items in the order they were queued
  ran,         \* history: the items in the order their actions were run
  late         \* history: the items called after a close() had returned

callerVars == <<pc, calls, op, ret, late>>
ioVars     == <<ioPc, batch, cur, draining>>
vars == <<callerVars, complete, success, outcome, actions, stop, ioVars,
          fileOpen, destroying, pushed, ran>>

Item(c) == <<c, calls[c]>>

CallerStates ==
  {"idle", "entered", "admitted", "waiting", "locking", "asleep",
   "joining", "gone"}
IoStates ==
  {"absent", "check", "lock", "asleep", "drain", "running", "ran",
   "publish", "exited"}

TypeOK ==
  /\ pc \in [Callers -> CallerStates]
  /\ calls \in [Callers -> 0 .. MaxCalls + 1]
  /\ op \in [Items -> Ops]
  /\ complete \in [Items -> BOOLEAN]
  /\ success \in [Items -> BOOLEAN]
  /\ outcome \in [Items -> BOOLEAN]
  /\ ret \in [Items -> {"none", "true", "false", "rejected"}]
  /\ actions \in Seq(Items)
  /\ stop \in BOOLEAN
  /\ ioPc \in IoStates
  /\ batch \in Seq(Items)
  /\ cur \in Items
  /\ draining \in BOOLEAN
  /\ fileOpen \in BOOLEAN
  /\ destroying \in BOOLEAN
  /\ pushed \in Seq(Items)
  /\ ran \in Seq(Items)
  /\ late \in SUBSET Items

\* The object after a constructor: the file may or may not have opened.
Init ==
  /\ pc = [c \in Callers |-> "idle"]
  /\ calls = [c \in Callers |-> 0]
  /\ op = [i \in Items |-> "handle"]
  /\ complete = [i \in Items |-> FALSE]
  /\ success = [i \in Items |-> FALSE]
  /\ outcome = [i \in Items |-> FALSE]
  /\ ret = [i \in Items |-> "none"]
  /\ actions = <<>>
  /\ stop = FALSE
  /\ ioPc = "absent"
  /\ batch = <<>>
  /\ cur = <<Owner, 1>>
  /\ draining = FALSE
  /\ fileOpen \in BOOLEAN
  /\ destroying = FALSE
  /\ pushed = <<>>
  /\ ran = <<>>
  /\ late = {}

-----------------------------------------------------------------------------
(* Locks and condition variables.  The I/O thread's sections under mtx_    *)
(* and the callers' under an item's mutex are one step each; the two       *)
(* sections that another thread can see inside of keep their lock from one *)
(* step to the next: do_io between its test of stop_requested_ and the     *)
(* push, and done() between its two assignments.                           *)

MtxFree == \A c \in Callers : pc[c] # "admitted"
ItemMtxFree(i) == ~(ioPc = "publish" /\ cur = i)

CloseReturned == \E i \in Items : op[i] = "close" /\ ret[i] # "none"

BeginCall(c, o) ==
  /\ calls' = [calls EXCEPT ![c] = @ + 1]
  /\ op' = [op EXCEPT ![<<c, calls[c] + 1>>] = o]
  /\ pc' = [pc EXCEPT ![c] = "entered"]
  /\ late' = IF CloseReturned THEN late \cup {<<c, calls[c] + 1>>} ELSE late

\* The call returns to its caller; the destructor goes on to join the thread.
Return(c, r) ==
  /\ ret' = [ret EXCEPT ![Item(c)] = r]
  /\ pc' = [pc EXCEPT ![c] = IF destroying THEN "joining" ELSE "idle"]

Bool(b) == IF b THEN "true" ELSE "false"

-----------------------------------------------------------------------------
(* The callers.                                                            *)

\* An operation of the public interface enters do_io.
Call(c, o) ==
  /\ pc[c] = "idle"
  /\ ~destroying
  /\ calls[c] < MaxCalls
  /\ BeginCall(c, o)
  /\ UNCHANGED <<ret, complete, success, outcome, actions, stop, ioVars,
                 fileOpen, destroying, pushed, ran>>

\* ~thread_file(): nobody else is using the object any more, and close() is
\* called like any other operation.
Destroy ==
  /\ ~destroying
  /\ \A c \in Callers : pc[c] = "idle"
  /\ destroying' = TRUE
  /\ BeginCall(Owner, "close")
  /\ UNCHANGED <<ret, complete, success, outcome, actions, stop, ioVars,
                 fileOpen, pushed, ran>>

\* do_io gives up when it sees stop_requested_ under the lock.
Reject(c) ==
  /\ pc[c] = "entered"
  /\ MtxFree
  /\ stop
  /\ Return(c, "rejected")
  /\ UNCHANGED <<calls, op, late, complete, success, outcome, actions, stop,
                 ioVars, fileOpen, destroying, pushed, ran>>

StartAndKeepLock(c) ==
  /\ pc[c] = "entered"
  /\ MtxFree
  /\ pc' = [pc EXCEPT ![c] = "admitted"]
  /\ ioPc' = IF ioPc = "absent" THEN "check" ELSE ioPc
  /\ UNCHANGED <<calls, op, ret, late, complete, success, outcome, actions,
                 stop, batch, cur, draining, fileOpen, destroying, pushed, ran>>

\* Otherwise it starts the I/O thread if there is none and keeps the lock.
Admit(c) == ~stop /\ StartAndKeepLock(c)

Push_NoNotify(c) ==
  /\ pc[c] = "admitted"
  /\ actions' = Append(actions, Item(c))
  /\ pushed' = Append(pushed, Item(c))
  /\ pc' = [pc EXCEPT ![c] = "waiting"]
  /\ UNCHANGED <<calls, op, ret, late, complete, success, outcome, stop,
                 ioVars, fileOpen, destroying, ran>>

\* The item is queued, the I/O thread notified and the lock released.
Push(c) ==
  /\ pc[c] = "admitted"
  /\ actions' = Append(actions, Item(c))
  /\ pushed' = Append(pushed, Item(c))
  /\ ioPc' = IF ioPc = "asleep" THEN "lock" ELSE ioPc
  /\ pc' = [pc EXCEPT ![c] = "waiting"]
  /\ UNCHANGED <<calls, op, ret, late, complete, success, outcome, stop,
                 batch, cur, draining, fileOpen, destroying, ran>>

\* What a call hands to its caller: size() the value its action has written
\* to the local it captured, the others the item's `success`.
Told(i) == IF op[i] = "size" THEN outcome[i] ELSE success[i]

\* io_item::wait() first looks at `complete` without the lock.  When it
\* reads true, do_io reads `success` without the lock too: nothing orders
\* that read after done()'s write, so it may still see the initial false.
\* Neither is size() made to see what its action wrote before that.
PeekComplete(c) ==
  /\ pc[c] = "waiting"
  /\ complete[Item(c)]
  /\ \E seen \in {FALSE, Told(Item(c))} : Return(c, Bool(seen))
  /\ UNCHANGED <<calls, op, late, complete, success, outcome, actions, stop,
                 ioVars, fileOpen, destroying, pushed, ran>>

PeekPending(c) ==
  /\ pc[c] = "waiting"
  /\ ~complete[Item(c)]
  /\ pc' = [pc EXCEPT ![c] = "locking"]
  /\ UNCHANGED <<calls, op, ret, late, complete, success, outcome, actions,
                 stop, ioVars, fileOpen, destroying, pushed, ran>>

\* wait() under the item's lock: return when complete, otherwise sleep.
ReturnFromWait(c) ==
  /\ pc[c] = "locking"
  /\ ItemMtxFree(Item(c))
  /\ Return(c, Bool(Told(Item(c))))
  /\ UNCHANGED <<calls, op, late, complete, success, outcome, actions, stop,
                 ioVars, fileOpen, destroying, pushed, ran>>

WaitComplete(c) ==
  /\ pc[c] = "locking"
  /\ complete[Item(c)]
  /\ ReturnFromWait(c)

WaitSleep(c) ==
  /\ pc[c] = "locking"
  /\ ItemMtxFree(Item(c))
  /\ ~complete[Item(c)]
  /\ pc' = [pc EXCEPT ![c] = "asleep"]
  /\ UNCHANGED <<calls, op, ret, late, complete, success, outcome, actions,
                 stop, ioVars, fileOpen, destroying, pushed, ran>>

SpuriousWake(c) ==
  /\ pc[c] = "asleep"
  /\ pc' = [pc EXCEPT ![c] = "locking"]
  /\ UNCHANGED <<calls, op, ret, late, complete, success, outcome, actions,
                 stop, ioVars, fileOpen, destroying, pushed, ran>>

\* The destructor joins the I/O thread; the object is gone afterwards.
Join ==
  /\ pc[Owner] = "joining"
  /\ ioPc \in {"absent", "exited"}
  /\ pc' = [pc EXCEPT ![Owner] = "gone"]
  /\ UNCHANGED <<calls, op, ret, late, complete, success, outcome, actions,
                 stop, ioVars, fileOpen, destroying, pushed, ran>>

-----------------------------------------------------------------------------
(* The I/O thread: thread_func and run_actions.                            *)

\* while (not stop_requested_), read without the lock.
IoCheck ==
  /\ ioPc = "check"
  /\ ioPc' = IF stop THEN "drain" ELSE "lock"
  /\ UNCHANGED <<callerVars, complete, success, outcome, actions, stop, batch,
                 cur, draining, fileOpen, destroying, pushed, ran>>

\* Under the lock: wait for work ...  Nobody else sets stop_requested_ and a
\* batch is over by now, so the two tests under the lock never leave the loop.
IoSleep ==
  /\ ioPc = "lock"
  /\ MtxFree
  /\ ~stop
  /\ actions = <<>>
  /\ ioPc' = "asleep"
  /\ UNCHANGED <<callerVars, complete, success, outcome, actions, stop, batch,
                 cur, draining, fileOpen, destroying, pushed, ran>>

IoSpuriousWake ==
  /\ ioPc = "asleep"
  /\ ioPc' = "lock"
  /\ UNCHANGED <<callerVars, complete, success, outcome, actions, stop, batch,
                 cur, draining, fileOpen, destroying, pushed, ran>>

\* ... or take the whole queue.  run_actions copies it and clears it.
TakeQueue_NotCleared == batch' = actions /\ UNCHANGED actions

TakeQueue == batch' = actions /\ actions' = <<>>

IoTake ==
  /\ ioPc = "lock"
  /\ MtxFree
  /\ ~stop
  /\ actions # <<>>
  /\ TakeQueue
  /\ ioPc' = "running"
  /\ UNCHANGED <<callerVars, complete, success, outcome, stop, cur, draining,
                 fileOpen, destroying, pushed, ran>>

\* After the loop the queue is run once more: calls that had seen
\* stop_requested_ false may still be in it.
IoDrain_Skipped ==
  /\ ioPc = "drain"
  /\ ioPc' = "exited"
  /\ UNCHANGED <<callerVars, complete, success, outcome, actions, stop, batch,
                 cur, draining, fileOpen, destroying, pushed, ran>>

IoDrain ==
  /\ ioPc = "drain"
  /\ MtxFree
  /\ TakeQueue
  /\ draining' = TRUE
  /\ ioPc' = "running"
  /\ UNCHANGED <<callerVars, complete, success, outcome, stop, cur,
                 fileOpen, destroying, pushed, ran>>

CloseAction_NoStop == stop' = stop

\* close(): the file is closed, then stop_requested_ is set, without mtx_.
CloseAction == stop' = TRUE

\* action->action(): the captured operation on file_.
Perform(o, r) ==
  \/ o = "close"  /\ r /\ fileOpen' = FALSE /\ CloseAction
  \/ o = "handle" /\ (r => fileOpen) /\ UNCHANGED <<fileOpen, stop>>
  \/ o = "path"   /\ fileOpen' \in {fileOpen, FALSE} /\ UNCHANGED stop
  \/ o = "flush"  /\ r /\ UNCHANGED <<fileOpen, stop>>
  \/ o = "size"   /\ UNCHANGED <<fileOpen, stop>>

IoRun ==
  /\ ioPc = "running"
  /\ batch # <<>>
  /\ cur' = Head(batch)
  /\ batch' = Tail(batch)
  /\ \E r \in BOOLEAN :
       /\ Perform(op[cur'], r)
       /\ outcome' = [outcome EXCEPT ![cur'] = r]
  /\ ran' = Append(ran, cur')
  /\ ioPc' = "ran"
  /\ UNCHANGED <<callerVars, complete, success, actions, draining,
                 destroying, pushed>>

\* done(): `complete` first, ...
IoComplete ==
  /\ ioPc = "ran"
  /\ complete' = [complete EXCEPT ![cur] = TRUE]
  /\ ioPc' = "publish"
  /\ UNCHANGED <<callerVars, success, outcome, actions, stop, batch, cur,
                 draining, fileOpen, destroying, pushed, ran>>

\* ... then `success`; the lock is released and the sleepers are woken.
WakeWaiters_None == UNCHANGED pc

WakeWaiters ==
  pc' = [c \in Callers |->
           IF pc[c] = "asleep" /\ Item(c) = cur THEN "locking" ELSE pc[c]]

Published_Always == TRUE

Published == outcome[cur]

IoPublish ==
  /\ ioPc = "publish"
  /\ success' = [success EXCEPT ![cur] = Published]
  /\ WakeWaiters
  /\ ioPc' = "running"
  /\ UNCHANGED <<calls, op, ret, late, complete, outcome, actions, stop,
                 batch, cur, draining, fileOpen, destroying, pushed, ran>>

\* The batch is finished: back to the loop, or out of thread_func.
IoBatchDone ==
  /\ ioPc = "running"
  /\ batch = <<>>
  /\ ioPc' = IF draining THEN "exited" ELSE "check"
  /\ UNCHANGED <<callerVars, complete, success, outcome, actions, stop, batch,
                 cur, draining, fileOpen, destroying, pushed, ran>>

-----------------------------------------------------------------------------

CallerStep(c) ==
  \/ Reject(c) \/ Admit(c) \/ Push(c)
  \/ PeekComplete(c) \/ PeekPending(c) \/ WaitComplete(c) \/ WaitSleep(c)

IoStep ==
  \/ IoCheck \/ IoSleep \/ IoTake \/ IoDrain
  \/ IoRun \/ IoComplete \/ IoPublish \/ IoBatchDone

\* Nothing happens to a destroyed object.
Gone == pc[Owner] = "gone" /\ UNCHANGED vars

Next ==
  \/ \E c \in Callers : \/ \E o \in Ops : Call(c, o)
                        \/ CallerStep(c)
                        \/ SpuriousWake(c)
  \/ IoStep
  \/ IoSpuriousWake
  \/ Destroy
  \/ Join
  \/ Gone

Spec == Init /\ [][Next]_vars

\* Threads are scheduled; mtx_ is never kept from a caller for ever, because
\* each of its sections is finite.  Whether to call, or to destroy the
\* object, is the program's choice.
Fairness ==
  /\ \A c \in Callers : WF_vars(CallerStep(c))
  /\ WF_vars(IoStep)
  /\ WF_vars(Join)

FairSpec == Spec /\ Fairness

-----------------------------------------------------------------------------
(* Properties.                                                             *)

InQueue(i) == \E k \in 1 .. Len(actions) : actions[k] = i
InBatch(i) == \E k \in 1 .. Len(batch) : batch[k] = i

\* The caller is blocked in io_item::wait() on item i.
Waiting(c, i) == pc[c] \in {"waiting", "locking", "asleep"} /\ Item(c) = i

\* The I/O thread runs the items in the order in which they were queued,
\* each once, and loses none, over all its batches and the final drain.
InOrderExactlyOnce == pushed = ran \o batch \o actions

\* The actions capture their caller's variables by reference (data, offset,
\* total_read, path).  An item that is still to be run, or has been run and
\* is not yet reported, has its caller blocked in wait(): no reference dangles.
CapturesAlive ==
  \A i \in Items :
    (InQueue(i) \/ InBatch(i) \/ (ioPc = "ran" /\ cur = i)) =>
      Waiting(i[1], i) /\ ~complete[i]

\* No caller is left behind: one that waits has its item complete, being
\* run, or in a queue that a live I/O thread is still to run.
NobodyStranded ==
  \A c \in Callers : \A i \in Items :
    Waiting(c, i) =>
      \/ complete[i]
      \/ ioPc = "ran" /\ cur = i
      \/ InBatch(i)
      \/ InQueue(i) /\ ~draining /\ ioPc \notin {"absent", "exited"}

\* A call reports success only when its action was run and had it.
NoInventedSuccess ==
  \A i \in Items : ret[i] = "true" => outcome[i]

\* After a close() has returned, no operation called later is ever run.
ClosedForGood ==
  \A k \in 1 .. Len(ran) : ran[k] \notin late

\* What file_test.cpp expects of every i_file ("EXPECT_TRUE(file->remove())"):
\* a call reports what its action returned.
CallReportsOutcome ==
  \A i \in Items : ret[i] = "false" => ~outcome[i]

-----------------------------------------------------------------------------
(* The refinement: a call has taken effect once its action has been run.   *)

Ran(i) == \E k \in 1 .. Len(ran) : ran[k] = i

Phase(c) ==
  CASE pc[c] \in {"idle", "joining"} -> "idle"
    [] pc[c] = "gone" -> "gone"
    [] OTHER -> IF Ran(Item(c)) THEN "done" ELSE "called"

\* What a caller has been told of its last call: one that was rejected
\* failed, like any other.
Answered(c) ==
  CASE calls[c] = 0 -> "none"
    [] calls[c] # 0 /\ ret[Item(c)] = "rejected" -> "false"
    [] OTHER -> ret[Item(c)]

Serial == INSTANCE SerialFile WITH
  phase   <- [c \in Callers |-> Phase(c)],
  request <- [c \in Callers |->
                IF Phase(c) \in {"called", "done"} THEN op[Item(c)] ELSE "none"],
  outcome <- [c \in Callers |-> Phase(c) = "done" /\ outcome[Item(c)]],
  answer  <- [c \in Callers |-> Answered(c)],
  open    <- fileOpen,
  closed  <- stop

\* thread_file implements SerialFile, its liveness included: each operation
\* takes effect exactly once, between its call and its return, or is refused
\* by a closed file; its caller is told of a success only when it had one; and
\* every call is answered.
ImplementsSerialFile == Serial!Spec

\* The destructor terminates.
DestructorTerminates == destroying ~> pc[Owner] = "gone"
=============================================================================
