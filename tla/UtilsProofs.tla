----------------------------- MODULE UtilsProofs -----------------------------
(***************************************************************************)
(* Proofs about two parts of utils that share nothing: Timeout, for any    *)
(* set of users and any number of calls and of spurious wakeups, and       *)
(* SqliteQuery, for any table, any values and any number of calls on the   *)
(* builder and on the results.  Their safety properties, each from an      *)
(* inductive invariant.                                                    *)
(***************************************************************************)
EXTENDS Timeout, SqliteQuery, TLAPS, SequenceTheorems, FiniteSetTheorems

\* A timer's thread that is still running and no longer belongs to the object
\* belongs to a disable() that has yet to join it.
ThreadIsOwned ==
  ~handle /\ tpc \notin {"absent", "exited"} =>
    \E u \in Users : upc[u] \in {"locked", "joining"}

\* Where the thread is when the callback has been started, and that a cancelled
\* timer is killed before it could get there.
FiringInv ==
  /\ started => tpc \in {"calling", "exited"}
  /\ cancelled => killed /\ ~started /\ tpc # "fired"

\* The wait that is under way, or has led to the callback, is whole.
WaitInv == tpc \in {"waiting", "expired", "fired"} => fullWait

TimerInv ==
  /\ TypeOK
  /\ ThreadIsOwned
  /\ FiringInv
  /\ WaitInv
  /\ NothingAfterDestroy

-----------------------------------------------------------------------------
\* A new timer has no thread, or one that belongs to its object.
LEMMA TimerInit == Init => TimerInv
<1> SUFFICES ASSUME Init PROVE TimerInv
  OBVIOUS
<1>1. \/ tpc = "starting" /\ handle = TRUE /\ killed = FALSE
      \/ tpc = "absent" /\ handle = FALSE /\ killed = TRUE
  BY DEF Init
<1>2. TypeOK
  <2>1. UserTypes
    BY TimeoutAssumption DEF Init, UserTypes
  <2>2. TimerTypes
    BY <1>1 DEF Init, TimerTypes
  <2> QED
    BY <2>1, <2>2 DEF TypeOK
<1>3. ThreadIsOwned
  BY <1>1 DEF ThreadIsOwned
<1>4. FiringInv /\ WaitInv
  BY <1>1 DEF Init, FiringInv, WaitInv
<1>5. NothingAfterDestroy
  BY TimeoutAssumption DEF Init, NothingAfterDestroy, Destroyed
<1> QED
  BY <1>2, <1>3, <1>4, <1>5 DEF TimerInv

\* The users are where they may be, within the bounds.
LEMMA UserTypesStep ==
  ASSUME UserTypes, [Next]_vars
  PROVE  UserTypes'
<1> USE TimeoutAssumption DEF UserTypes
<1>1. CASE ThreadStep \/ Gone \/ UNCHANGED vars
  BY <1>1 DEF ThreadStep, Start, Expire, Fire, FireUnchecked, GiveUp, Wakeup,
     CallbackBegin, CallbackEnd, Gone, vars
<1>2. CASE SpuriousWake
  BY <1>2 DEF SpuriousWake
<1>3. ASSUME NEW u \in Users, DisableSection(u)
      PROVE  /\ upc' \in [Users -> {"idle", "locked", "joining", "destroyed"}]
             /\ spurious' = spurious
  BY <1>3 DEF DisableSection, TakeThread, Returned
<1>4. ASSUME NEW u \in Users, calls[u] < MaxCalls,
             calls' = [calls EXCEPT ![u] = @ + 1]
      PROVE  calls' \in [Users -> 0 .. MaxCalls]
  BY <1>4
<1>5. ASSUME NEW u \in Users, Disable(u) PROVE UserTypes'
  BY <1>5, <1>3, <1>4 DEF Disable
<1>6. CASE Destroy
  BY <1>6, <1>3 DEF Destroy
<1>7. ASSUME NEW u \in Users, Reset(u) PROVE UserTypes'
  BY <1>7, <1>4 DEF Reset
<1>8. ASSUME NEW u \in Users, Unlock(u) \/ Join(u) PROVE UserTypes'
  BY <1>8 DEF Unlock, Join, Returned
<1> QED
  BY <1>1, <1>2, <1>5, <1>6, <1>7, <1>8 DEF Next

\* So is the timer's thread, and who took it out has killed the timer.
LEMMA TimerTypesStep ==
  ASSUME TimerTypes, [Next]_vars
  PROVE  TimerTypes'
<1> USE DEF TimerTypes
<1>1. CASE Gone \/ UNCHANGED vars
  BY <1>1 DEF Gone, vars
<1>2. CASE Start \/ Wakeup
  BY <1>2 DEF Start, Wakeup, WaitUnlessKilled
<1>3. CASE Expire \/ GiveUp \/ SpuriousWake
  BY <1>3 DEF Expire, GiveUp, SpuriousWake
<1>4. CASE Fire \/ CallbackBegin \/ CallbackEnd
  BY <1>4 DEF Fire, FireUnchecked, CallbackBegin, CallbackEnd
<1>5. ASSUME NEW u \in Users, DisableSection(u), destroying' \in BOOLEAN
      PROVE  TimerTypes'
  <2>1. CASE handle
    BY <1>5, <2>1 DEF DisableSection, TakeThread, NotifyAll, Pending
  <2>2. CASE ~handle
    BY <1>5, <2>2 DEF DisableSection, NotifyAll
  <2> QED
    BY <2>1, <2>2
<1>6. ASSUME NEW u \in Users, Disable(u) PROVE TimerTypes'
  BY <1>6, <1>5 DEF Disable
<1>7. CASE Destroy
  BY <1>7, <1>5, TimeoutAssumption DEF Destroy
<1>8. ASSUME NEW u \in Users, Reset(u) \/ Unlock(u) \/ Join(u)
      PROVE  TimerTypes'
  BY <1>8 DEF Reset, Unlock, Join, NotifyAll
<1> QED
  BY <1>1, <1>2, <1>3, <1>4, <1>6, <1>7, <1>8 DEF Next, ThreadStep

\* No step abandons a running thread: only the disable() that holds it takes it
\* out of the object, and it leaves when the thread has exited.
LEMMA OwnedStep ==
  ASSUME UserTypes, ThreadIsOwned, [Next]_vars
  PROVE  ThreadIsOwned'
<1> USE DEF ThreadIsOwned
<1>1. CASE ThreadStep \/ SpuriousWake \/ Gone \/ UNCHANGED vars
  <2>1. UNCHANGED <<upc, handle>> /\ (tpc \in {"absent", "exited"} => tpc' = tpc)
    BY <1>1 DEF ThreadStep, Start, Expire, Fire, FireUnchecked, GiveUp, Wakeup,
       CallbackBegin, CallbackEnd, SpuriousWake, Gone, vars
  <2> QED
    BY <2>1
<1>2. ASSUME NEW u \in Users, upc[u] = "idle", DisableSection(u)
      PROVE  ThreadIsOwned'
  <2>1. tpc \in {"absent", "exited"} => tpc' = tpc
    BY <1>2 DEF DisableSection, NotifyAll
  <2>2. CASE handle
    <3>1. upc'[u] = "locked"
      BY <1>2, <2>2 DEF DisableSection, TakeThread, UserTypes
    <3> QED
      BY <3>1
  <2>3. CASE ~handle
    <3>1. \A v \in Users : upc[v] \in {"locked", "joining"} => upc'[v] = upc[v]
      BY <1>2, <2>3 DEF DisableSection, Returned, UserTypes
    <3> QED
      BY <1>2, <2>1, <2>3, <3>1 DEF DisableSection
  <2> QED
    BY <2>2, <2>3
<1>3. ASSUME NEW u \in Users, Disable(u) PROVE ThreadIsOwned'
  BY <1>3, <1>2 DEF Disable
<1>4. CASE Destroy
  BY <1>4, <1>2, TimeoutAssumption DEF Destroy
<1>5. ASSUME NEW u \in Users, Reset(u) PROVE ThreadIsOwned'
  BY <1>5 DEF Reset, NotifyAll
<1>6. ASSUME NEW u \in Users, Unlock(u) PROVE ThreadIsOwned'
  BY <1>6 DEF Unlock, UserTypes
<1>7. ASSUME NEW u \in Users, Join(u) PROVE ThreadIsOwned'
  BY <1>7 DEF Join
<1> QED
  BY <1>1, <1>3, <1>4, <1>5, <1>6, <1>7 DEF Next

\* The test of killed between the end of the wait and the callback.
LEMMA FiringStep ==
  ASSUME TimerTypes, FiringInv, [Next]_vars
  PROVE  FiringInv'
<1> USE DEF FiringInv
<1>1. CASE ThreadStep \/ SpuriousWake \/ Gone \/ UNCHANGED vars
  BY <1>1 DEF ThreadStep, Start, Expire, Fire, FireUnchecked, GiveUp, Wakeup,
     CallbackBegin, CallbackEnd, WaitUnlessKilled, SpuriousWake, Gone, vars, TimerTypes
<1>2. ASSUME NEW u \in Users, DisableSection(u) PROVE FiringInv'
  BY <1>2 DEF DisableSection, TakeThread, NotifyAll, Pending
<1>3. ASSUME NEW u \in Users, Disable(u) PROVE FiringInv'
  BY <1>3, <1>2 DEF Disable
<1>4. CASE Destroy
  BY <1>4, <1>2, TimeoutAssumption DEF Destroy
<1>5. ASSUME NEW u \in Users, Reset(u) PROVE FiringInv'
  BY <1>5 DEF Reset, NotifyAll
<1>6. ASSUME NEW u \in Users, Unlock(u) \/ Join(u) PROVE FiringInv'
  BY <1>6 DEF Unlock, Join
<1> QED
  BY <1>1, <1>3, <1>4, <1>5, <1>6 DEF Next

\* A notification turns a wait into one that has been notified.
LEMMA WaitStep ==
  ASSUME WaitInv, [Next]_vars
  PROVE  WaitInv'
<1> USE DEF WaitInv
<1>1. CASE ThreadStep \/ SpuriousWake \/ Gone \/ UNCHANGED vars
  BY <1>1 DEF ThreadStep, Start, Expire, Fire, FireUnchecked, GiveUp, Wakeup,
     CallbackBegin, CallbackEnd, WaitUnlessKilled, SpuriousWake, Gone, vars
<1>2. ASSUME NEW u \in Users, Disable(u) \/ Reset(u) PROVE WaitInv'
  BY <1>2 DEF Disable, DisableSection, Reset, NotifyAll
<1>3. CASE Destroy
  BY <1>3 DEF Destroy, DisableSection, NotifyAll
<1>4. ASSUME NEW u \in Users, Unlock(u) \/ Join(u) PROVE WaitInv'
  BY <1>4 DEF Unlock, Join
<1> QED
  BY <1>1, <1>2, <1>3, <1>4 DEF Next

\* The destructor returns after its own join, or when there was nothing to take:
\* then no other disable() is under way, so nobody owns a running thread.
LEMMA DestroyStep ==
  ASSUME UserTypes, ThreadIsOwned, NothingAfterDestroy, [Next]_vars
  PROVE  NothingAfterDestroy'
<1> USE TimeoutAssumption DEF NothingAfterDestroy, Destroyed
<1>1. CASE ThreadStep \/ SpuriousWake \/ Gone \/ UNCHANGED vars
  <2>1. UNCHANGED upc /\ (tpc \in {"absent", "exited"} => tpc' = tpc)
    BY <1>1 DEF ThreadStep, Start, Expire, Fire, FireUnchecked, GiveUp, Wakeup,
       CallbackBegin, CallbackEnd, SpuriousWake, Gone, vars
  <2> QED
    BY <2>1
<1>2. ASSUME NEW u \in Users, Disable(u) PROVE NothingAfterDestroy'
  <2>1. upc'[Owner] = "destroyed" => upc[Owner] = "destroyed"
    BY <1>2 DEF Disable, DisableSection, TakeThread, Returned, UserTypes
  <2>2. tpc \in {"absent", "exited"} => tpc' = tpc
    BY <1>2 DEF Disable, DisableSection, NotifyAll
  <2> QED
    BY <2>1, <2>2
<1>3. CASE Destroy
  <2>1. tpc \in {"absent", "exited"} => tpc' = tpc
    BY <1>3 DEF Destroy, DisableSection, NotifyAll
  <2>2. CASE handle
    BY <1>3, <2>2 DEF Destroy, DisableSection, TakeThread, UserTypes
  <2>3. CASE ~handle
    <3>1. \A u \in Users : upc[u] \notin {"locked", "joining"}
      BY <1>3 DEF Destroy
    <3>2. tpc \in {"absent", "exited"}
      BY <2>3, <3>1 DEF ThreadIsOwned
    <3> QED
      BY <2>1, <3>2
  <2> QED
    BY <2>2, <2>3
<1>4. ASSUME NEW u \in Users, Reset(u) PROVE NothingAfterDestroy'
  BY <1>4 DEF Reset, NotifyAll
<1>5. ASSUME NEW u \in Users, Unlock(u) PROVE NothingAfterDestroy'
  BY <1>5 DEF Unlock, UserTypes
<1>6. ASSUME NEW u \in Users, Join(u) PROVE NothingAfterDestroy'
  BY <1>6 DEF Join
<1> QED
  BY <1>1, <1>2, <1>3, <1>4, <1>5, <1>6 DEF Next

-----------------------------------------------------------------------------
\* The invariant holds of every behaviour.
THEOREM TimerInductive == Spec => []TimerInv
<1>1. TimerInv /\ [Next]_vars => TimerInv'
  BY UserTypesStep, TimerTypesStep, OwnedStep, FiringStep, WaitStep, DestroyStep DEF TimerInv, TypeOK
<1> QED
  BY TimerInit, <1>1, PTL DEF Spec

\* Once a disable() has got the mutex before the timer fired, the callback is
\* never started, however the end of the wait and the calls of any number of
\* users fall together.
THEOREM CancelIsFinal == Spec => []CancelledNeverFires
<1>1. TimerInv => CancelledNeverFires
  BY DEF TimerInv, FiringInv, CancelledNeverFires
<1> QED
  BY TimerInductive, <1>1, PTL

\* When the destructor has returned the timer's thread has exited, whoever it
\* was that joined it.
THEOREM DestroyLeavesNothing == Spec => []NothingAfterDestroy
<1>1. TimerInv => NothingAfterDestroy
  BY DEF TimerInv
<1> QED
  BY TimerInductive, <1>1, PTL

\* The callback is started only after a whole wait that nothing interrupted.
THEOREM WholeWaitFirst == Spec => FiresAfterFullWait
<1>1. TimerInv /\ [Next]_vars => [CallbackBegin => fullWait]_vars
  BY DEF TimerInv, WaitInv, CallbackBegin
<1> QED
  BY TimerInductive, <1>1, PTL DEF Spec, FiresAfterFullWait

-----------------------------------------------------------------------------
\* Actions, tokens of a text, and tokens with their values.
Action == [is : {"comp"}, op : Ops] \union [is : {"join"}, word : Words]
            \union [is : {"group"}, of : Nat]

Mark == [is : {"join"}, word : Words] \union [is : {"(", ")"}]

Token == [is : {"place"}, op : Ops, n : Nat] \union Mark

BoundToken == [is : {"bound"}, op : Ops, v : Values \union {Null}] \union Mark

Dumps == [text : Seq(Token), idx : Nat, lists : SUBSET Nat]

Walks == [Nat -> [Nat -> [Nat -> Dumps]]]

\* W is what dump() computes for the lists of acts.
IsDump(W, acts) ==
  W = [i \in Nat |-> [k \in Nat |-> [n \in Nat |-> DumpStep(acts, W, i, k, n)]]]

Lists(acts) == \A i \in DOMAIN acts : i \in Nat /\ acts[i] \in Seq(Action)

-----------------------------------------------------------------------------
\* The equation of dump(), at one place.
LEMMA IsDumpAt ==
  ASSUME NEW W, NEW acts, IsDump(W, acts), NEW i \in Nat, NEW k \in Nat, NEW n \in Nat
  PROVE  W[i][k][n] = DumpStep(acts, W, i, k, n)
<1>1. W[i] = [j \in Nat |-> [m \in Nat |-> DumpStep(acts, W, i, j, m)]]
  BY Zenon DEF IsDump
<1>2. W[i][k] = [m \in Nat |-> DumpStep(acts, W, i, k, m)]
  BY <1>1, Zenon
<1> QED BY <1>2, Zenon

\* The other way round: what satisfies it everywhere is what dump() computes.
LEMMA IsDumpIf ==
  ASSUME NEW W \in Walks, NEW acts,
         \A i, k, n \in Nat : W[i][k][n] = DumpStep(acts, W, i, k, n)
  PROVE  IsDump(W, acts)
<1> DEFINE S(i, k, n) == DumpStep(acts, W, i, k, n)
<1>0. \A i, k, n \in Nat : W[i][k][n] = S(i, k, n)
  OBVIOUS
<1>4. W = [i \in Nat |-> [k \in Nat |-> [n \in Nat |-> S(i, k, n)]]]
  <2> HIDE DEF S
  <2>1. \A i, k \in Nat : W[i][k] = [n \in Nat |-> S(i, k, n)]
    BY <1>0 DEF Walks
  <2>2. \A i \in Nat : W[i] = [k \in Nat |-> [n \in Nat |-> S(i, k, n)]]
    BY <2>1 DEF Walks
  <2> QED BY <2>2 DEF Walks
<1> QED BY <1>4 DEF IsDump

\* DumpOf satisfies its equation, if anything does.
LEMMA DumpOfIsDump ==
  ASSUME NEW W, NEW acts, IsDump(W, acts)
  PROVE  IsDump(DumpOf(acts), acts)
BY DEF IsDump, DumpOf

-----------------------------------------------------------------------------
\* A list that was never made reads as an empty one.
LEMMA ListsAre ==
  ASSUME NEW acts, Lists(acts), NEW i
  PROVE  /\ List(acts, i) \in Seq(Action)
         /\ Len(List(acts, i)) \in Nat
         /\ DOMAIN List(acts, i) = 1 .. Len(List(acts, i))
         /\ \A k \in DOMAIN List(acts, i) : List(acts, i)[k] \in Action
BY DEF Lists, List

\* operator[] changes what there is, not what is in it.
LEMMA MadeLists ==
  ASSUME NEW acts, NEW I, NEW i
  PROVE  List(Made(acts, I), i) = List(acts, i)
BY DEF List, Made

\* An action goes to the end of its list and leaves the others alone.
LEMMA AddedLists ==
  ASSUME NEW acts, Lists(acts), NEW h \in Nat, NEW a \in Action
  PROVE  /\ DOMAIN Added(acts, h, a) = DOMAIN acts \union {h}
         /\ List(Added(acts, h, a), h) = Append(List(acts, h), a)
         /\ \A i : i # h => List(Added(acts, h, a), i) = List(acts, i)
         /\ Lists(Added(acts, h, a))
<1>1. DOMAIN Added(acts, h, a) = DOMAIN acts \union {h}
  BY DEF Added, Made
<1>2. List(Added(acts, h, a), h) = Append(List(acts, h), a)
  BY DEF Added, Made, List
<1>3. \A i : i # h => List(Added(acts, h, a), i) = List(acts, i)
  BY DEF Added, Made, List
<1>4. ASSUME NEW i \in DOMAIN Added(acts, h, a)
      PROVE  i \in Nat /\ List(Added(acts, h, a), i) \in Seq(Action)
  <2>1. CASE i = h
    BY <1>2, <2>1, ListsAre
  <2>2. CASE i # h
    BY <1>1, <1>3, <2>2, ListsAre DEF Lists
  <2> QED BY <2>1, <2>2
<1> QED BY <1>1, <1>2, <1>3, <1>4 DEF Lists, List

-----------------------------------------------------------------------------
\* The alternatives of the visitor.
LEMMA ActionIs ==
  ASSUME NEW a \in Action
  PROVE  \/ a.is = "comp" /\ a.op \in Ops
         \/ a.is = "join" /\ a \in Mark
         \/ a.is = "group" /\ a.of \in Nat
BY DEF Action, Mark

\* Brackets put around a text.
LEMMA BracketsType ==
  ASSUME NEW S, Mark \subseteq S, NEW text \in Seq(S)
  PROVE  InBrackets(text) \in Seq(S)
<1>1. Bracket("(") \in Mark /\ Bracket(")") \in Mark
  BY DEF Mark, Bracket
<1> QED BY <1>1 DEF InBrackets

\* The visitor keeps the stream, the counter and the set of lists what they are.
LEMMA DumpActionType ==
  ASSUME NEW a \in Action, NEW d \in Dumps, NEW acts, Lists(acts), NEW W \in Walks
  PROVE  DumpAction(a, d, acts, W) \in Dumps
<1>0. d.text \in Seq(Token) /\ d.idx \in Nat /\ d.lists \in SUBSET Nat
  BY DEF Dumps
<1>1. CASE a.is = "comp" /\ a.op \in Ops
  <2>1. Place(a.op, d.idx + 1) \in Token
    BY <1>0, <1>1 DEF Place, Token
  <2> QED BY <1>0, <1>1, <2>1 DEF DumpAction, Dumped, Dumps
<1>2. CASE a.is = "join" /\ a \in Mark
  BY <1>0, <1>2 DEF DumpAction, Dumped, Dumps, Token
<1>3. CASE a.is = "group" /\ a.of \in Nat
  <2> DEFINE g == W[a.of][Len(List(acts, a.of))][d.idx]
  <2>1. g \in Dumps
    BY <1>0, <1>3, ListsAre DEF Walks
  <2> HIDE DEF g
  <2>2. g.text \in Seq(Token) /\ g.idx \in Nat /\ g.lists \in SUBSET Nat
    BY <2>1 DEF Dumps
  <2>3. d.text \o InBrackets(g.text) \in Seq(Token)
    BY <1>0, <2>2, BracketsType DEF Token
  <2>4. Dumped(d.text \o InBrackets(g.text), g.idx, d.lists \union {a.of} \union g.lists) \in Dumps
    BY <1>0, <1>3, <2>2, <2>3 DEF Dumped, Dumps
  <2>5. DumpAction(a, d, acts, W)
           = Dumped(d.text \o InBrackets(g.text), g.idx, d.lists \union {a.of} \union g.lists)
    BY <1>3 DEF DumpAction, g
  <2> QED BY <2>4, <2>5
<1> QED BY <1>1, <1>2, <1>3, ActionIs

\* Of the other lists the visitor needs the text of the group alone.
LEMMA DumpActionSame ==
  ASSUME NEW a \in Action, NEW d, NEW acts, NEW W, NEW bcts, NEW V,
         a.is = "group" => V[a.of][Len(List(bcts, a.of))][d.idx]
                             = W[a.of][Len(List(acts, a.of))][d.idx]
  PROVE  DumpAction(a, d, bcts, V) = DumpAction(a, d, acts, W)
BY ActionIs DEF DumpAction

-----------------------------------------------------------------------------
\* No group of acts is the list h.
NoGroupIs(acts, h) ==
  \A i \in DOMAIN acts : \A k \in DOMAIN acts[i] : acts[i][k].is = "group" => acts[i][k].of # h

\* Of list i, all of it.
DumpedList(W, acts, i, n) == W[i][Len(List(acts, i))][n]

\* What dump() computes when action a has joined list h.
LEMMA ExtendDump ==
  ASSUME NEW acts, Lists(acts), NEW W \in Walks, IsDump(W, acts),
         NEW h \in Nat, NEW a \in Action, NoGroupIs(acts, h), a.is = "group" => a.of # h
  PROVE  \E V \in Walks :
           /\ IsDump(V, Added(acts, h, a))
           /\ \A i, n \in Nat : i # h => DumpedList(V, Added(acts, h, a), i, n)
                                           = DumpedList(W, acts, i, n)
           /\ \A n \in Nat : DumpedList(V, Added(acts, h, a), h, n)
                                = DumpAction(a, DumpedList(W, acts, h, n), acts, W)
<1> DEFINE L == Len(List(acts, h))
           bcts == Added(acts, h, a)
           X(i, k, n) == IF i = h /\ k = L + 1 THEN DumpAction(a, W[h][L][n], acts, W)
                                               ELSE W[i][k][n]
           V == [i \in Nat |-> [k \in Nat |-> [n \in Nat |-> X(i, k, n)]]]
<1>1. L \in Nat
  BY ListsAre
<1>2. ASSUME NEW i \in Nat, NEW k \in Nat, NEW n \in Nat
      PROVE  X(i, k, n) \in Dumps
  <2>1. W[i][k][n] \in Dumps /\ W[h][L][n] \in Dumps
    BY <1>1 DEF Walks
  <2>2. DumpAction(a, W[h][L][n], acts, W) \in Dumps
    BY <2>1, DumpActionType
  <2> QED BY <2>1, <2>2
<1>3. V \in Walks /\ \A i, k, n \in Nat : V[i][k][n] = X(i, k, n)
  <2> HIDE DEF X
  <2> QED BY <1>2 DEF Walks
<1>4. /\ List(bcts, h) = Append(List(acts, h), a)
      /\ \A i : i # h => List(bcts, i) = List(acts, i)
      /\ Lists(bcts)
  BY AddedLists
<1>5. ASSUME NEW b \in Action, NEW d \in Dumps, b.is = "group" => b.of # h
      PROVE  DumpAction(b, d, bcts, V) = DumpAction(b, d, acts, W)
  <2>1. ASSUME b.is = "group"
        PROVE  V[b.of][Len(List(bcts, b.of))][d.idx] = W[b.of][Len(List(acts, b.of))][d.idx]
    <3>1. b.of \in Nat /\ b.of # h
      BY <1>5, <2>1, ActionIs
    <3>2. Len(List(acts, b.of)) \in Nat /\ d.idx \in Nat
      BY ListsAre DEF Dumps
    <3>3. V[b.of][Len(List(acts, b.of))][d.idx] = X(b.of, Len(List(acts, b.of)), d.idx)
      BY <1>3, <3>1, <3>2
    <3> QED BY <1>4, <3>1, <3>3
  <2> HIDE DEF V, bcts
  <2> QED BY <2>1, DumpActionSame
<1>6. ASSUME NEW i \in Nat, NEW k \in Nat, NEW n \in Nat
      PROVE  V[i][k][n] = DumpStep(bcts, V, i, k, n)
  <2>0. V[i][k][n] = X(i, k, n)
    BY <1>3
  <2>1. CASE i = h /\ k = L + 1
    <3>1. k \in DOMAIN List(bcts, i) /\ List(bcts, i)[k] = a
      BY <1>1, <1>4, <2>1, ListsAre
    <3>2. V[i][k - 1][n] = W[h][L][n]
      BY <1>1, <1>3, <2>1
    <3>3. W[h][L][n] \in Dumps
      BY <1>1 DEF Walks
    <3>4. DumpStep(bcts, V, i, k, n) = DumpAction(a, W[h][L][n], bcts, V)
      BY <3>1, <3>2 DEF DumpStep
    <3>5. DumpAction(a, W[h][L][n], bcts, V) = DumpAction(a, W[h][L][n], acts, W)
      BY <1>5, <3>3
    <3> HIDE DEF V, bcts
    <3> QED BY <2>0, <2>1, <3>4, <3>5
  <2>2. CASE ~(i = h /\ k = L + 1)
    <3>0. W[i][k][n] = DumpStep(acts, W, i, k, n) /\ V[i][k][n] = W[i][k][n]
      BY <2>0, <2>2, IsDumpAt
    <3>1. k \in DOMAIN List(bcts, i) <=> k \in DOMAIN List(acts, i)
      BY <1>1, <1>4, <2>2, ListsAre
    <3>2. CASE k \in DOMAIN List(acts, i)
      <4>1. List(bcts, i)[k] = List(acts, i)[k] /\ List(acts, i)[k] \in Action
        BY <1>1, <1>4, <2>2, <3>2, ListsAre
      <4>2. k \in 1 .. Len(List(acts, i))
        BY <3>2, ListsAre
      <4>3. V[i][k - 1][n] = W[i][k - 1][n]
        <5>1. k - 1 \in Nat /\ ~(i = h /\ k - 1 = L + 1)
          BY <1>1, <4>2
        <5> QED BY <1>3, <5>1
      <4>4. W[i][k - 1][n] \in Dumps
        BY <4>2 DEF Walks
      <4>5. List(acts, i)[k].is = "group" => List(acts, i)[k].of # h
        BY <3>2 DEF NoGroupIs, List
      <4>6. DumpAction(List(acts, i)[k], W[i][k - 1][n], bcts, V)
              = DumpAction(List(acts, i)[k], W[i][k - 1][n], acts, W)
        BY <1>5, <4>1, <4>4, <4>5
      <4> HIDE DEF V, bcts
      <4> QED BY <3>0, <3>1, <3>2, <4>1, <4>3, <4>6 DEF DumpStep
    <3>3. CASE k \notin DOMAIN List(acts, i)
      <4> HIDE DEF V, bcts
      <4> QED BY <3>0, <3>1, <3>3 DEF DumpStep
    <3> QED BY <3>2, <3>3
  <2> QED BY <2>1, <2>2
<1>7. IsDump(V, bcts)
  <2> HIDE DEF V, bcts
  <2> QED BY <1>3, <1>6, IsDumpIf
<1>8. ASSUME NEW i \in Nat, NEW n \in Nat, i # h
      PROVE  DumpedList(V, bcts, i, n) = DumpedList(W, acts, i, n)
  <2>1. Len(List(acts, i)) \in Nat /\ List(bcts, i) = List(acts, i)
    BY <1>4, <1>8, ListsAre
  <2> HIDE DEF V, bcts
  <2> QED BY <1>3, <1>8, <2>1 DEF DumpedList
<1>9. ASSUME NEW n \in Nat
      PROVE  DumpedList(V, bcts, h, n) = DumpAction(a, DumpedList(W, acts, h, n), acts, W)
  <2>1. Len(List(bcts, h)) = L + 1
    BY <1>4, ListsAre
  <2>2. V[h][L + 1][n] = X(h, L + 1, n)
    BY <1>1, <1>3
  <2> HIDE DEF V, bcts
  <2> QED BY <2>1, <2>2 DEF DumpedList
<1> HIDE DEF V, bcts
<1> QED BY <1>3, <1>7, <1>8, <1>9 DEF bcts

\* More lists without actions change nothing.
LEMMA MadeDump ==
  ASSUME NEW acts, NEW I, NEW W \in Walks, IsDump(W, acts)
  PROVE  IsDump(W, Made(acts, I))
<1>1. ASSUME NEW i \in Nat, NEW k \in Nat, NEW n \in Nat
      PROVE  W[i][k][n] = DumpStep(Made(acts, I), W, i, k, n)
  <2>1. \A a, d : DumpAction(a, d, Made(acts, I), W) = DumpAction(a, d, acts, W)
    BY MadeLists, Zenon DEF DumpAction
  <2>2. DumpStep(Made(acts, I), W, i, k, n) = DumpStep(acts, W, i, k, n)
    BY <2>1, MadeLists, Zenon DEF DumpStep
  <2> QED BY <2>2, IsDumpAt
<1> QED BY <1>1, IsDumpIf

-----------------------------------------------------------------------------
\* A set of numbers that is not empty has a least one.
LEMMA LeastOf ==
  ASSUME NEW T \in SUBSET Nat, T # {}
  PROVE  \E n \in T : \A m \in T : n <= m
<1> DEFINE R == {rr \in Nat \X Nat : rr[1] < rr[2]}
<1>1. IsWellFoundedOn(R, Nat)
  BY NatLessThanWellFounded DEF OpToRel
<1>2. \A m, n \in Nat : m < n => <<m, n>> \in R
  OBVIOUS
<1> HIDE DEF R
<1>3. PICK n \in T : \A m \in T : <<m, n>> \notin R
  BY <1>1, WFMin
<1>4. ASSUME NEW m \in T PROVE n <= m
  <2>1. m \in Nat /\ n \in Nat /\ ~(m < n)
    BY <1>2, <1>3
  <2> QED BY <2>1
<1> QED BY <1>4

\* And a bounded one has a greatest one.
LEMMA GreatestOf ==
  ASSUME NEW N \in Nat, NEW T \in SUBSET (0 .. N), T # {}
  PROVE  \E n \in T : \A m \in T : m <= n
<1> DEFINE D == {N - n : n \in T}
<1>1. D \in SUBSET Nat /\ D # {}
  <2>1. \A n \in T : n \in 0 .. N
    OBVIOUS
  <2>2. \A n \in T : N - n \in Nat
    BY <2>1
  <2> QED BY <2>2
<1>2. PICK d \in D : \A e \in D : d <= e
  <2> HIDE DEF D
  <2> QED BY <1>1, LeastOf
<1>3. PICK n \in T : d = N - n
  OBVIOUS
<1>4. ASSUME NEW m \in T PROVE m <= n
  <2>1. N - m \in D
    OBVIOUS
  <2>2. d <= N - m
    BY <1>2, <2>1
  <2> QED BY <1>3, <2>2
<1> QED BY <1>4

\* Every group is a list behind its own.
GroupsAhead(acts) ==
  \A i \in DOMAIN acts : \A k \in DOMAIN acts[i] :
    acts[i][k].is = "group" => acts[i][k].of \in DOMAIN acts /\ acts[i][k].of > i

\* Then dump() is a function of the lists: two that satisfy its equation agree.
\* Otherwise take the last list on which they do not, and there the first action.
LEMMA DumpIsUnique ==
  ASSUME NEW N \in Nat, NEW acts, DOMAIN acts = 0 .. N - 1, Lists(acts), GroupsAhead(acts),
         NEW W \in Walks, IsDump(W, acts), NEW V, IsDump(V, acts)
  PROVE  \A i, k, n \in Nat : V[i][k][n] = W[i][k][n]
<1> DEFINE Agree(i, k) == \A n \in Nat : V[i][k][n] = W[i][k][n]
           Settled(i) == \A j \in Nat : j > i => \A k \in Nat : Agree(j, k)
<1>1. ASSUME NEW i \in Nat, Settled(i), NEW k \in Nat, k = 0 \/ Agree(i, k - 1)
      PROVE  Agree(i, k)
  <2> TAKE n \in Nat
  <2>0. W[i][k][n] = DumpStep(acts, W, i, k, n) /\ V[i][k][n] = DumpStep(acts, V, i, k, n)
    BY IsDumpAt
  <2>1. CASE k \notin DOMAIN List(acts, i)
    BY <2>0, <2>1 DEF DumpStep
  <2>2. CASE k \in DOMAIN List(acts, i)
    <3> DEFINE a == List(acts, i)[k]
               d == W[i][k - 1][n]
    <3>1. a \in Action /\ k \in 1 .. Len(List(acts, i))
      BY <2>2, ListsAre
    <3>2. V[i][k - 1][n] = d /\ d \in Dumps
      BY <1>1, <3>1 DEF Walks
    <3>3. ASSUME a.is = "group"
          PROVE  V[a.of][Len(List(acts, a.of))][d.idx] = W[a.of][Len(List(acts, a.of))][d.idx]
      <4>1. a.of \in Nat /\ a.of > i
        BY <2>2, <3>1, <3>3, ActionIs DEF GroupsAhead, List
      <4>2. Len(List(acts, a.of)) \in Nat /\ d.idx \in Nat
        BY <3>2, ListsAre DEF Dumps
      <4> HIDE DEF a, d
      <4> QED BY <1>1, <4>1, <4>2
    <3>4. DumpAction(a, d, acts, V) = DumpAction(a, d, acts, W)
      <4> HIDE DEF a, d
      <4> QED BY <3>1, <3>3, DumpActionSame
    <3> QED BY <2>0, <2>2, <3>2, <3>4 DEF DumpStep
  <2> QED BY <2>1, <2>2
<1>2. ASSUME NEW i \in Nat, Settled(i), NEW k \in Nat
      PROVE  Agree(i, k)
  <2> DEFINE Bad == {m \in Nat : ~Agree(i, m)}
  <2>1. SUFFICES ASSUME Bad # {} PROVE FALSE
    OBVIOUS
  <2>2. PICK m \in Bad : \A x \in Bad : m <= x
    <3> HIDE DEF Agree
    <3>1. Bad \in SUBSET Nat
      OBVIOUS
    <3> HIDE DEF Bad
    <3> QED BY <2>1, <3>1, LeastOf
  <2>3. m = 0 \/ Agree(i, m - 1)
    <3> HIDE DEF Agree
    <3> QED BY <2>2
  <2> HIDE DEF Agree, Settled
  <2> QED BY <1>1, <1>2, <2>2, <2>3
<1>3. ASSUME NEW i \in Nat, i >= N, NEW k \in Nat
      PROVE  Agree(i, k)
  <2>1. List(acts, i) = <<>>
    BY <1>3 DEF List
  <2> QED BY <2>1, IsDumpAt DEF DumpStep
<1>4. ASSUME NEW i \in Nat, NEW k \in Nat, ~Agree(i, k)
      PROVE  FALSE
  <2> DEFINE Bad == {j \in 0 .. N : \E m \in Nat : ~Agree(j, m)}
  <2>1. i \in Bad
    <3> HIDE DEF Agree
    <3> QED BY <1>3, <1>4
  <2>2. PICK j \in Bad : \A x \in Bad : x <= j
    <3>1. Bad \in SUBSET (0 .. N)
      OBVIOUS
    <3> HIDE DEF Bad
    <3> QED BY <2>1, <3>1, GreatestOf
  <2>3. Settled(j)
    <3> HIDE DEF Agree
    <3> QED BY <1>3, <2>2
  <2> HIDE DEF Agree, Settled
  <2> QED BY <1>2, <2>2, <2>3
<1> QED BY <1>4

-----------------------------------------------------------------------------
\* The placeholders of text have values among b.
Numbered(text, b) == \A p \in DOMAIN text : text[p].is = "place" => text[p].n \in DOMAIN b

\* Placeholders and the rest.
LEMMA TokenIs ==
  ASSUME NEW t \in Token
  PROVE  \/ t.is = "place" /\ t.op \in Ops /\ t.n \in Nat
         \/ t.is # "place" /\ t \in Mark
BY DEF Token, Mark

\* Binding a text leaves a bound token where each token was.
LEMMA BindType ==
  ASSUME NEW b \in Seq(Values), NEW text \in Seq(Token)
  PROVE  /\ Bind(text, b) \in Seq(BoundToken)
         /\ Len(Bind(text, b)) = Len(text)
         /\ \A p \in 1 .. Len(text) : Bind(text, b)[p] = BindToken(text[p], b)
<1>1. ASSUME NEW t \in Token
      PROVE  BindToken(t, b) \in BoundToken
  <2>1. CASE t.is = "place" /\ t.op \in Ops /\ t.n \in Nat
    <3>1. ValueOf(t.n, b) \in Values \union {Null}
      BY DEF ValueOf
    <3> QED BY <2>1, <3>1 DEF BindToken, Equals, BoundToken
  <2>2. CASE t.is # "place" /\ t \in Mark
    BY <2>2 DEF BindToken, BoundToken
  <2> QED BY <2>1, <2>2, TokenIs
<1>2. \A p \in 1 .. Len(text) : BindToken(text[p], b) \in BoundToken
  BY <1>1
<1>3. Bind(text, b) = [p \in 1 .. Len(text) |-> BindToken(text[p], b)]
  BY DEF Bind
<1> QED BY <1>2, <1>3

\* It goes through a text token by token.
LEMMA BindConcat ==
  ASSUME NEW b \in Seq(Values), NEW t \in Seq(Token), NEW u \in Seq(Token)
  PROVE  Bind(t \o u, b) = Bind(t, b) \o Bind(u, b)
<1> DEFINE x == Bind(t \o u, b)
           bt == Bind(t, b)
           bu == Bind(u, b)
<1>1. /\ t \o u \in Seq(Token) /\ Len(t \o u) = Len(t) + Len(u)
      /\ Len(t) \in Nat /\ Len(u) \in Nat
      /\ \A p \in 1 .. Len(t) + Len(u) :
           (t \o u)[p] = IF p <= Len(t) THEN t[p] ELSE u[p - Len(t)]
  BY ConcatProperties
<1>2. /\ x \in Seq(BoundToken) /\ Len(x) = Len(t) + Len(u)
      /\ \A p \in 1 .. Len(t) + Len(u) : x[p] = BindToken((t \o u)[p], b)
  BY <1>1, BindType
<1>3. /\ bt \in Seq(BoundToken) /\ Len(bt) = Len(t)
      /\ \A p \in 1 .. Len(t) : bt[p] = BindToken(t[p], b)
  BY BindType
<1>4. /\ bu \in Seq(BoundToken) /\ Len(bu) = Len(u)
      /\ \A p \in 1 .. Len(u) : bu[p] = BindToken(u[p], b)
  BY BindType
<1> HIDE DEF x, bt, bu
<1>5. /\ bt \o bu \in Seq(BoundToken) /\ Len(bt \o bu) = Len(x)
      /\ \A p \in 1 .. Len(t) + Len(u) :
           (bt \o bu)[p] = IF p <= Len(t) THEN bt[p] ELSE bu[p - Len(t)]
  <2>1. bt \in Seq(BoundToken) /\ bu \in Seq(BoundToken)
    BY <1>3, <1>4
  <2>2. /\ bt \o bu \in Seq(BoundToken) /\ Len(bt \o bu) = Len(bt) + Len(bu)
        /\ \A p \in 1 .. Len(bt) + Len(bu) :
             (bt \o bu)[p] = IF p <= Len(bt) THEN bt[p] ELSE bu[p - Len(bt)]
    BY <2>1, ConcatProperties, Zenon
  <2>3. Len(bt) = Len(t) /\ Len(bu) = Len(u) /\ Len(x) = Len(t) + Len(u)
    BY <1>2, <1>3, <1>4
  <2> QED BY <2>2, <2>3, Zenon
<1>6. ASSUME NEW p \in 1 .. Len(x)
      PROVE  x[p] = (bt \o bu)[p]
  <2>1. CASE p <= Len(t)
    <3>1. (t \o u)[p] = t[p] /\ (bt \o bu)[p] = bt[p] /\ p \in 1 .. Len(t)
      BY <1>1, <1>2, <1>5, <1>6, <2>1
    <3> QED BY <1>2, <1>3, <1>6, <3>1
  <2>2. CASE p > Len(t)
    <3>0. p \in 1 .. Len(t) + Len(u) /\ ~(p <= Len(t)) /\ p - Len(t) \in 1 .. Len(u)
      BY <1>1, <1>2, <1>6, <2>2
    <3>1. /\ (t \o u)[p] = u[p - Len(t)] /\ (bt \o bu)[p] = bu[p - Len(t)]
          /\ p - Len(t) \in 1 .. Len(u)
      BY <1>1, <1>5, <3>0, Zenon
    <3> QED BY <1>2, <1>4, <1>6, <3>1
  <2>3. p <= Len(t) \/ p > Len(t)
    <3>1. p \in Nat /\ Len(t) \in Nat
      BY <1>1, <1>2, <1>6
    <3> QED BY <3>1
  <2> QED BY <2>1, <2>2, <2>3
<1>7. x = bt \o bu
  BY <1>2, <1>5, <1>6, SeqEqual
<1> QED BY <1>7 DEF x, bt, bu

LEMMA BindOne ==
  ASSUME NEW b \in Seq(Values), NEW t \in Token
  PROVE  Bind(<<t>>, b) = <<BindToken(t, b)>>
<1> DEFINE text == <<t>>
           bound == Bind(text, b)
<1>1. text \in Seq(Token) /\ Len(text) = 1 /\ text[1] = t
  OBVIOUS
<1> HIDE DEF text
<1>2. bound \in Seq(BoundToken) /\ Len(bound) = Len(text)
  BY <1>1, BindType
<1>3. bound[1] = BindToken(t, b)
  <2>1. 1 \in 1 .. Len(text)
    BY <1>1
  <2>2. bound[1] = BindToken(text[1], b)
    BY <1>1, <2>1, BindType
  <2> QED BY <1>1, <2>2
<1> HIDE DEF bound
<1>4. bound = <<BindToken(t, b)>>
  BY <1>1, <1>2, <1>3
<1> QED BY <1>4 DEF bound, text

LEMMA BindBrackets ==
  ASSUME NEW b \in Seq(Values), NEW t \in Seq(Token)
  PROVE  Bind(InBrackets(t), b) = InBrackets(Bind(t, b))
<1>1. ASSUME NEW k \in {"(", ")"}
      PROVE  Bracket(k) \in Token /\ Bind(<<Bracket(k)>>, b) = <<Bracket(k)>>
  <2>1. Bracket(k) \in Token /\ BindToken(Bracket(k), b) = Bracket(k)
    BY DEF Bracket, Token, Mark, BindToken
  <2> QED BY <2>1, BindOne
<1>2. Bind(<<Bracket("(")>> \o t, b) = <<Bracket("(")>> \o Bind(t, b)
  <2>1. <<Bracket("(")>> \in Seq(Token)
    BY <1>1
  <2>2. Bind(<<Bracket("(")>> \o t, b) = Bind(<<Bracket("(")>>, b) \o Bind(t, b)
    BY <2>1, BindConcat
  <2> QED BY <1>1, <2>2
<1>3. <<Bracket("(")>> \in Seq(Token) /\ <<Bracket(")")>> \in Seq(Token)
  BY <1>1
<1>4. <<Bracket("(")>> \o t \in Seq(Token)
  BY <1>3, ConcatProperties
<1>5. Bind((<<Bracket("(")>> \o t) \o <<Bracket(")")>>, b)
        = Bind(<<Bracket("(")>> \o t, b) \o Bind(<<Bracket(")")>>, b)
  BY <1>3, <1>4, BindConcat
<1> QED BY <1>1, <1>2, <1>5 DEF InBrackets

\* A value behind the last disturbs no placeholder that has one.
LEMMA BindSame ==
  ASSUME NEW b \in Seq(Values), NEW v \in Values, NEW t \in Seq(Token), Numbered(t, b)
  PROVE  Bind(t, Append(b, v)) = Bind(t, b) /\ Numbered(t, Append(b, v))
<1>1. ASSUME NEW p \in DOMAIN t
      PROVE  /\ BindToken(t[p], Append(b, v)) = BindToken(t[p], b)
             /\ t[p].is = "place" => t[p].n \in DOMAIN Append(b, v)
  BY DEF Numbered, BindToken, ValueOf
<1> QED BY <1>1 DEF Bind, Numbered

\* Placeholders of two texts put together, and of one in brackets.
LEMMA NumberedConcat ==
  ASSUME NEW b, NEW t \in Seq(Token), NEW u \in Seq(Token), Numbered(t, b), Numbered(u, b)
  PROVE  Numbered(t \o u, b)
<1>1. ASSUME NEW p \in DOMAIN (t \o u), (t \o u)[p].is = "place"
      PROVE  (t \o u)[p].n \in DOMAIN b
  <2>1. CASE p <= Len(t)
    BY <1>1, <2>1 DEF Numbered
  <2>2. CASE p > Len(t)
    <3>1. p - Len(t) \in DOMAIN u /\ (t \o u)[p] = u[p - Len(t)]
      BY <2>2
    <3> QED BY <1>1, <3>1 DEF Numbered
  <2> QED BY <2>1, <2>2
<1> QED BY <1>1 DEF Numbered

LEMMA NumberedBrackets ==
  ASSUME NEW b, NEW t \in Seq(Token), Numbered(t, b)
  PROVE  Numbered(InBrackets(t), b)
<1>1. ASSUME NEW k \in {"(", ")"}
      PROVE  <<Bracket(k)>> \in Seq(Token) /\ Numbered(<<Bracket(k)>>, b)
  BY DEF Bracket, Token, Mark, Numbered
<1>2. <<Bracket("(")>> \o t \in Seq(Token) /\ Numbered(<<Bracket("(")>> \o t, b)
  <2>1. <<Bracket("(")>> \in Seq(Token) /\ Numbered(<<Bracket("(")>>, b)
    BY <1>1
  <2> QED BY <2>1, NumberedConcat, ConcatProperties
<1> QED BY <1>1, <1>2, NumberedConcat DEF InBrackets

-----------------------------------------------------------------------------
ValuesInv == sets \in Seq(Values) /\ values \in Seq(Values)

\* The groups that are open have lists one behind the other, and all but the last
\* have theirs already.
OpenInv ==
  /\ open \in Seq(Nat) /\ Len(open) >= 1 /\ open[1] = 0
  /\ \A l, m \in 1 .. Len(open) : l < m => open[l] < open[m]
  /\ \A l \in 1 .. Len(open) : l < Len(open) => open[l] \in DOMAIN actions

\* The lists are numbered without a gap, the next number going to the innermost
\* group when it has none yet, and no list has a group that is still open.
ListsInv ==
  /\ Lists(actions) /\ GroupsAhead(actions)
  /\ \A l \in 1 .. Len(open) : NoGroupIs(actions, open[l])
  /\ \E N \in Nat : DOMAIN actions = 0 .. N - 1 /\ open[Len(open)] \in 0 .. N
  /\ open[Len(open)] \in DOMAIN actions => actions[open[Len(open)]] # <<>>

\* Written out from where the one around it stops, the list of each open group is
\* what the caller means by it, and the innermost one stops at the last value.
Level(d, next, m, b) == d.idx = next /\ Numbered(d.text, b) /\ Bind(d.text, b) = m

Levels(W, s) ==
  /\ s \in [1 .. Len(open) + 1 -> Nat]
  /\ s[1] = Len(sets) /\ s[Len(open) + 1] = Len(Bound)
  /\ \A l \in 1 .. Len(open) :
       Level(DumpedList(W, actions, open[l], s[l]), s[l + 1], meant[l], Bound)

TextInv ==
  /\ meant \in Seq(Seq(BoundToken)) /\ Len(meant) = Len(open)
  /\ \E W \in Walks : IsDump(W, actions) /\ \E s : Levels(W, s)

BuilderInv == OpenInv /\ ListsInv /\ TextInv

-----------------------------------------------------------------------------
\* What is written of a list.
LEMMA DumpedType ==
  ASSUME NEW W \in Walks, NEW acts, Lists(acts), NEW i \in Nat, NEW n \in Nat
  PROVE  /\ DumpedList(W, acts, i, n) \in Dumps
         /\ DumpedList(W, acts, i, n).text \in Seq(Token)
         /\ DumpedList(W, acts, i, n).idx \in Nat
<1> DEFINE k == Len(List(acts, i))
<1>1. k \in Nat
  BY ListsAre
<1> HIDE DEF k
<1>2. W[i][k][n] \in Dumps
  BY <1>1 DEF Walks
<1> QED BY <1>2 DEF DumpedList, k, Dumps

\* The query before any call.
LEMMA BuilderInit ==
  ASSUME QueryInit, QueryAssumption PROVE ValuesInv /\ BuilderInv
<1>1. ValuesInv
  <2>1. values = <<>> /\ sets \in {<<v>> : v \in Values} \union {<<>>}
    BY DEF QueryInit
  <2>2. \A v \in Values : <<v>> \in Seq(Values)
    OBVIOUS
  <2>3. <<>> \in Seq(Values)
    OBVIOUS
  <2> QED BY <2>1, <2>2, <2>3 DEF ValuesInv
<1>2. actions = [i \in {} |-> <<>>] /\ open = <<0>> /\ meant = <<<<>>>> /\ values = <<>>
  BY DEF QueryInit
<1>3. DOMAIN actions = {} /\ DOMAIN actions = 0 .. 0 - 1
  BY <1>2
<1>4. OpenInv
  BY <1>2 DEF OpenInv
<1>5. ListsInv
  BY <1>2, <1>3 DEF ListsInv, Lists, GroupsAhead, NoGroupIs
<1> DEFINE W == [i \in Nat |-> [k \in Nat |-> [n \in Nat |-> Dumped(<<>>, n, {})]]]
           s == [l \in 1 .. 2 |-> Len(sets)]
<1>6. W \in Walks /\ \A i, k, n \in Nat : W[i][k][n] = Dumped(<<>>, n, {})
  BY DEF Walks, Dumps, Dumped
<1> HIDE DEF W
<1>7. IsDump(W, actions)
  <2>1. \A i, k, n \in Nat : DumpStep(actions, W, i, k, n) = Dumped(<<>>, n, {})
    BY <1>3 DEF DumpStep, List
  <2> QED BY <1>6, <2>1, IsDumpIf
<1>8. Levels(W, s)
  <2>1. Len(open) = 1 /\ open[1] = 0 /\ meant[1] = <<>>
    BY <1>2
  <2>2. Bound = sets /\ Len(sets) \in Nat
    BY <1>1, <1>2 DEF Bound, ValuesInv
  <2>3. List(actions, 0) = <<>>
    BY <1>3 DEF List
  <2>4. DumpedList(W, actions, 0, Len(sets)) = Dumped(<<>>, Len(sets), {})
    BY <1>6, <2>2, <2>3 DEF DumpedList
  <2>5. Level(Dumped(<<>>, Len(sets), {}), Len(sets), <<>>, Bound)
    BY DEF Level, Dumped, Numbered, Bind
  <2>6. /\ s \in [1 .. 2 -> Nat] /\ s[1] = Len(sets) /\ s[2] = Len(sets)
    BY <2>2
  <2> HIDE DEF s
  <2> QED BY <2>1, <2>2, <2>4, <2>5, <2>6 DEF Levels
<1>9. TextInv
  <2>1. meant \in Seq(Seq(BoundToken)) /\ Len(meant) = Len(open)
    BY <1>2
  <2> QED BY <2>1, <1>6, <1>7, <1>8 DEF TextInv
<1> QED BY <1>1, <1>4, <1>5, <1>9 DEF BuilderInv

\* Action a joins the list of the k-th open group, which is the innermost one then.
LEMMA AddedOpen ==
  ASSUME OpenInv, ListsInv, NEW k \in 1 .. Len(open), NEW a \in Action,
         a.is = "group" => a.of \in DOMAIN actions /\ a.of > open[k],
         open' = SubSeq(open, 1, k), actions' = Added(actions, open[k], a)
  PROVE  OpenInv' /\ ListsInv'
<1>1. /\ open' \in Seq(Nat) /\ Len(open') = k /\ \A l \in 1 .. k : open'[l] = open[l]
      /\ k \in Nat /\ k >= 1 /\ open[k] \in Nat
  BY DEF OpenInv
<1>2. /\ DOMAIN actions' = DOMAIN actions \union {open[k]}
      /\ List(actions', open[k]) = Append(List(actions, open[k]), a)
      /\ \A i : i # open[k] => List(actions', i) = List(actions, i)
      /\ Lists(actions')
  BY <1>1, AddedLists DEF ListsInv
<1>3. OpenInv'
  <2>0. \A l \in 1 .. k : l \in 1 .. Len(open) /\ (l < k => l < Len(open))
    BY <1>1 DEF OpenInv
  <2>1. open'[1] = 0
    BY <1>1 DEF OpenInv
  <2>2. \A l, m \in 1 .. k : l < m => open'[l] < open'[m]
    BY <1>1, <2>0 DEF OpenInv
  <2>3. \A l \in 1 .. k : l < k => open'[l] \in DOMAIN actions'
    BY <1>1, <1>2, <2>0 DEF OpenInv
  <2> QED BY <1>1, <2>1, <2>2, <2>3 DEF OpenInv
<1>4. ASSUME NEW i \in DOMAIN actions', NEW p \in DOMAIN actions'[i], actions'[i][p].is = "group"
      PROVE  /\ actions'[i][p].of \in DOMAIN actions /\ actions'[i][p].of > i
             /\ \A l \in 1 .. k : actions'[i][p].of # open[l]
  <2>1. CASE i \in DOMAIN actions /\ p \in DOMAIN actions[i] /\ actions'[i][p] = actions[i][p]
    BY <1>4, <2>1 DEF ListsInv, GroupsAhead, NoGroupIs
  <2>2. CASE i = open[k] /\ actions'[i][p] = a
    <3>1. a.of \in DOMAIN actions /\ a.of > open[k]
      BY <1>4, <2>2
    <3>2. \A l \in 1 .. k : open[l] <= open[k] /\ open[l] \in Nat
      BY <1>1 DEF OpenInv
    <3>3. a.of \in Nat
      BY <3>1 DEF ListsInv, Lists
    <3> QED BY <1>1, <2>2, <3>1, <3>2, <3>3
  <2>3. CASE i # open[k]
    <3>1. i \in DOMAIN actions /\ actions'[i] = actions[i]
      BY <1>2, <2>3 DEF List
    <3> QED BY <2>1, <3>1
  <2>4. CASE i = open[k]
    <3>1. actions'[i] = Append(List(actions, i), a) /\ List(actions, i) \in Seq(Action)
      BY <1>2, <2>4, ListsAre DEF List, ListsInv
    <3>2. CASE p \in DOMAIN List(actions, i)
      <4>1. i \in DOMAIN actions /\ List(actions, i) = actions[i]
        BY <3>2 DEF List
      <4> QED BY <2>1, <3>1, <3>2, <4>1
    <3>3. CASE p \notin DOMAIN List(actions, i)
      <4>1. actions'[i][p] = a
        BY <3>1, <3>3
      <4> QED BY <2>2, <2>4, <4>1
    <3> QED BY <3>2, <3>3
  <2> QED BY <2>3, <2>4
<1>5. GroupsAhead(actions')
  BY <1>2, <1>4 DEF GroupsAhead
<1>6. \A l \in 1 .. k : NoGroupIs(actions', open'[l])
  BY <1>1, <1>4 DEF NoGroupIs
<1>7. \E N \in Nat : DOMAIN actions' = 0 .. N - 1 /\ open'[k] \in 0 .. N
  <2>1. PICK N \in Nat : DOMAIN actions = 0 .. N - 1 /\ open[Len(open)] \in 0 .. N
    BY DEF ListsInv
  <2>2. CASE open[k] \in 0 .. N - 1
    BY <1>1, <1>2, <2>1, <2>2
  <2>3. CASE open[k] = N
    <3>1. 0 .. N + 1 - 1 = (0 .. N - 1) \union {N}
      OBVIOUS
    <3>2. DOMAIN actions' = 0 .. N + 1 - 1
      BY <1>2, <2>1, <2>3, <3>1
    <3>3. N + 1 \in Nat /\ open'[k] \in 0 .. N + 1
      BY <1>1, <2>3
    <3> QED BY <3>2, <3>3
  <2>4. open[k] \in 0 .. N
    BY <1>1, <2>1 DEF OpenInv
  <2> QED BY <2>2, <2>3, <2>4
<1>8. actions'[open'[k]] # <<>>
  <2>1. actions'[open[k]] = Append(List(actions, open[k]), a)
    BY <1>2 DEF List
  <2>2. List(actions, open[k]) \in Seq(Action)
    BY ListsAre DEF ListsInv
  <2> QED BY <1>1, <2>1, <2>2
<1>9. ListsInv'
  BY <1>1, <1>2, <1>5, <1>6, <1>7, <1>8 DEF ListsInv
<1> QED BY <1>3, <1>9

\* Then the texts are meant as they were, if the new text of that group is.
LEMMA AddedText ==
  ASSUME OpenInv, ListsInv, ValuesInv, NEW k \in 1 .. Len(open), NEW a \in Action,
         a.is = "group" => a.of \in DOMAIN actions /\ a.of > open[k],
         open' = SubSeq(open, 1, k), actions' = Added(actions, open[k], a),
         NEW W \in Walks, IsDump(W, actions), NEW s, Levels(W, s),
         sets' = sets, Bound' = Bound \/ \E v \in Values : Bound' = Append(Bound, v),
         Level(DumpAction(a, DumpedList(W, actions, open[k], s[k]), actions, W),
               Len(Bound'), meant'[k], Bound'),
         meant' \in Seq(Seq(BoundToken)), Len(meant') = k,
         \A l \in 1 .. k : l < k => meant'[l] = meant[l]
  PROVE  TextInv'
<1>1. /\ open' \in Seq(Nat) /\ Len(open') = k /\ \A l \in 1 .. k : open'[l] = open[l]
      /\ k \in Nat /\ k >= 1 /\ k <= Len(open) /\ Len(open) \in Nat /\ open[k] \in Nat
      /\ \A l \in 1 .. k : open[l] \in Nat /\ (l < k => open[l] # open[k])
  <2>1. open \in Seq(Nat) /\ k \in Nat /\ k >= 1 /\ k <= Len(open) /\ Len(open) \in Nat
    BY DEF OpenInv
  <2>2. open' \in Seq(Nat) /\ Len(open') = k /\ \A l \in 1 .. k : open'[l] = open[l]
    BY <2>1
  <2>3. \A l \in 1 .. Len(open) : open[l] \in Nat
    BY <2>1
  <2>4. ASSUME NEW l \in 1 .. k PROVE l \in 1 .. Len(open) /\ (l < k => open[l] < open[k])
    <3>1. l \in 1 .. Len(open)
      BY <2>1
    <3> QED BY <3>1 DEF OpenInv
  <2> QED BY <2>1, <2>2, <2>3, <2>4
<1>2. PICK V \in Walks :
        /\ IsDump(V, actions')
        /\ \A i, n \in Nat : i # open[k] => DumpedList(V, actions', i, n)
                                            = DumpedList(W, actions, i, n)
        /\ \A n \in Nat : DumpedList(V, actions', open[k], n)
                             = DumpAction(a, DumpedList(W, actions, open[k], n), actions, W)
  <2>1. Lists(actions) /\ NoGroupIs(actions, open[k])
    BY DEF ListsInv
  <2>2. a.is = "group" => a.of # open[k]
    BY <1>1
  <2> DEFINE h == open[k]
  <2>3. h \in Nat
    BY <1>1
  <2>4. actions' = Added(actions, h, a)
    OBVIOUS
  <2> HIDE DEF h
  <2>5. \E V \in Walks :
           /\ IsDump(V, Added(actions, h, a))
           /\ \A i, n \in Nat : i # h => DumpedList(V, Added(actions, h, a), i, n)
                                           = DumpedList(W, actions, i, n)
           /\ \A n \in Nat : DumpedList(V, Added(actions, h, a), h, n)
                                = DumpAction(a, DumpedList(W, actions, h, n), actions, W)
    <3>1. NoGroupIs(actions, h) /\ (a.is = "group" => a.of # h)
      BY <2>1, <2>2 DEF h
    <3> QED BY <2>1, <2>3, <3>1, ExtendDump
  <2> QED BY <2>4, <2>5, Zenon DEF h
<1>3. Bound \in Seq(Values) /\ Bound' \in Seq(Values) /\ Len(Bound') \in Nat
  <2>1. Bound \in Seq(Values)
    BY ConcatProperties DEF Bound, ValuesInv
  <2>2. ASSUME NEW v \in Values PROVE Append(Bound, v) \in Seq(Values)
    BY <2>1, AppendProperties
  <2>3. Bound' \in Seq(Values)
    BY <2>1, <2>2
  <2> QED BY <2>1, <2>3, LenProperties
<1>4. PICK t : /\ t \in [1 .. k + 1 -> Nat] /\ t[k + 1] = Len(Bound')
               /\ \A l \in 1 .. k : t[l] = s[l] /\ s[l] \in Nat
  <2> DEFINE t == [l \in 1 .. k + 1 |-> IF l = k + 1 THEN Len(Bound') ELSE s[l]]
  <2>1. Len(Bound') \in Nat
    BY <1>3
  <2>2. \A l \in 1 .. k + 1 : l = k + 1 \/ s[l] \in Nat
    <3>1. \A l \in 1 .. k + 1 : l \in 1 .. Len(open) + 1
      BY <1>1
    <3>2. s \in [1 .. Len(open) + 1 -> Nat]
      BY DEF Levels
    <3> QED BY <3>1, <3>2
  <2> HIDE DEF Bound
  <2>3. /\ t \in [1 .. k + 1 -> Nat] /\ t[k + 1] = Len(Bound')
        /\ \A l \in 1 .. k : t[l] = s[l] /\ s[l] \in Nat
    BY <1>1, <2>1, <2>2
  <2> QED BY <2>3
<1>5. ASSUME NEW l \in 1 .. k
      PROVE  Level(DumpedList(V, actions', open'[l], t[l]), t[l + 1], meant'[l], Bound')
  <2>1. CASE l = k
    BY <1>1, <1>2, <1>4, <2>1
  <2>2. CASE l # k
    <3> DEFINE d == DumpedList(W, actions, open[l], s[l])
    <3>1. l < k /\ l + 1 \in 1 .. k /\ l \in 1 .. Len(open)
      <4>1. k \in Nat /\ k <= Len(open) /\ Len(open) \in Nat
        BY <1>1
      <4> QED BY <2>2, <4>1
    <3>2. DumpedList(V, actions', open[l], s[l]) = d
      BY <1>1, <1>2, <1>4, <3>1
    <3>3. d.idx = s[l + 1] /\ Numbered(d.text, Bound) /\ Bind(d.text, Bound) = meant[l]
      BY <3>1 DEF Levels, Level
    <3>4. d.text \in Seq(Token)
      <4>1. open[l] \in Nat /\ s[l] \in Nat
        BY <1>1, <1>4
      <4> QED BY <4>1, DumpedType DEF ListsInv
    <3> HIDE DEF d
    <3>5. Numbered(d.text, Bound') /\ Bind(d.text, Bound') = Bind(d.text, Bound)
      BY <1>3, <3>3, <3>4, BindSame
    <3> QED BY <1>1, <1>4, <3>1, <3>2, <3>3, <3>5 DEF Level
  <2> QED BY <2>1, <2>2
<1>6. t[1] = Len(sets')
  <2>1. s[1] = Len(sets)
    BY DEF Levels
  <2> QED BY <1>1, <1>4, <2>1
<1>7. Levels(V, t)'
  BY <1>1, <1>4, <1>5, <1>6 DEF Levels
<1> QED BY <1>1, <1>2, <1>7 DEF TextInv

-----------------------------------------------------------------------------
\* Of the innermost group: where it stops, and what it is.
LEMMA Innermost ==
  ASSUME OpenInv, ListsInv, ValuesInv, TextInv
  PROVE  /\ here = open[Len(open)] /\ here \in Nat /\ Len(open) \in 1 .. Len(open)
         /\ SubSeq(open, 1, Len(open)) = open
         /\ meant[Len(open)] \in Seq(BoundToken)
         /\ Bound \in Seq(Values)
<1>1. open \in Seq(Nat) /\ Len(open) \in Nat /\ Len(open) >= 1
  BY DEF OpenInv
<1>2. here = open[Len(open)] /\ here \in Nat /\ Len(open) \in 1 .. Len(open)
  BY <1>1 DEF here, Last
<1>3. meant[Len(open)] \in Seq(BoundToken)
  BY <1>1 DEF TextInv
<1>4. Bound \in Seq(Values)
  BY ConcatProperties DEF Bound, ValuesInv
<1>5. SubSeq(open, 1, Len(open)) = open
  BY <1>1
<1> QED BY <1>2, <1>3, <1>4, <1>5

\* Of the k-th open group: what is written of it, and what it binds to.
LEMMA LevelAt ==
  ASSUME OpenInv, ListsInv, NEW W \in Walks, NEW s, Levels(W, s), NEW k \in 1 .. Len(open)
  PROVE  LET d == DumpedList(W, actions, open[k], s[k])
         IN  /\ d \in Dumps /\ d.text \in Seq(Token) /\ d.idx \in Nat /\ d.lists \in SUBSET Nat
             /\ d.idx = s[k + 1] /\ Numbered(d.text, Bound) /\ Bind(d.text, Bound) = meant[k]
             /\ open[k] \in Nat /\ s[k] \in Nat
<1> DEFINE d == DumpedList(W, actions, open[k], s[k])
<1>1. open[k] \in Nat /\ s[k] \in Nat
  <2>1. open \in Seq(Nat) /\ s \in [1 .. Len(open) + 1 -> Nat]
    BY DEF OpenInv, Levels
  <2>2. k \in 1 .. Len(open) + 1
    BY <2>1
  <2> QED BY <2>1, <2>2
<1>2. d \in Dumps
  BY <1>1, DumpedType DEF ListsInv
<1>3. Level(d, s[k + 1], meant[k], Bound)
  BY DEF Levels
<1> HIDE DEF d
<1>4. d.text \in Seq(Token) /\ d.idx \in Nat /\ d.lists \in SUBSET Nat
  BY <1>2 DEF Dumps
<1> QED BY <1>1, <1>2, <1>3, <1>4 DEF d, Level

\* Action a, written as the text y with the values of x, joins the list of the
\* k-th open group.
LEMMA BuilderAdds ==
  ASSUME ValuesInv, BuilderInv, NEW k \in 1 .. Len(open), NEW a \in Action,
         a.is = "group" => a.of \in DOMAIN actions /\ a.of > open[k],
         open' = SubSeq(open, 1, k), actions' = Added(actions, open[k], a), sets' = sets,
         Bound' = Bound \/ \E v \in Values : Bound' = Append(Bound, v),
         NEW W \in Walks, IsDump(W, actions), NEW s, Levels(W, s),
         NEW y \in Seq(Token), Numbered(y, Bound'), NEW lists,
         DumpAction(a, DumpedList(W, actions, open[k], s[k]), actions, W)
           = Dumped(DumpedList(W, actions, open[k], s[k]).text \o y, Len(Bound'), lists),
         meant' = Append(SubSeq(meant, 1, k - 1), meant[k] \o Bind(y, Bound'))
  PROVE  BuilderInv'
<1> DEFINE d == DumpedList(W, actions, open[k], s[k])
           x == Bind(y, Bound')
           m == meant[k] \o x
<1>0. OpenInv /\ ListsInv /\ TextInv
  BY DEF BuilderInv
<1>1. k \in Nat /\ k >= 1 /\ k <= Len(open) /\ Len(open) \in Nat
  BY <1>0 DEF OpenInv
<1>2. OpenInv' /\ ListsInv'
  BY <1>0, AddedOpen
<1>3. /\ d.text \in Seq(Token) /\ Numbered(d.text, Bound) /\ Bind(d.text, Bound) = meant[k]
  BY <1>0, LevelAt
<1>4. Bound \in Seq(Values) /\ Bound' \in Seq(Values)
  <2>1. Bound \in Seq(Values)
    BY ConcatProperties DEF Bound, ValuesInv
  <2>2. \A v \in Values : Append(Bound, v) \in Seq(Values)
    BY <2>1, AppendProperties
  <2> QED BY <2>1, <2>2
<1> HIDE DEF d
<1>5. Bind(d.text, Bound') = meant[k] /\ Numbered(d.text, Bound')
  BY <1>3, <1>4, BindSame
<1>6. Bind(d.text \o y, Bound') = m /\ Numbered(d.text \o y, Bound')
  <2>1. Bind(d.text \o y, Bound') = Bind(d.text, Bound') \o Bind(y, Bound')
    BY <1>3, <1>4, BindConcat
  <2>2. Numbered(d.text \o y, Bound')
    BY <1>3, <1>5, NumberedConcat
  <2> QED BY <1>5, <2>1, <2>2
<1>7. Level(Dumped(d.text \o y, Len(Bound'), lists), Len(Bound'), m, Bound')
  BY <1>6 DEF Level, Dumped
<1>8. m \in Seq(BoundToken)
  <2>1. meant[k] \in Seq(BoundToken)
    BY <1>0, <1>1 DEF TextInv
  <2>2. x \in Seq(BoundToken)
    BY <1>4, BindType
  <2> QED BY <2>1, <2>2, ConcatProperties
<1> HIDE DEF m
<1>9. /\ meant' \in Seq(Seq(BoundToken)) /\ Len(meant') = k /\ meant'[k] = m
      /\ \A l \in 1 .. k : l < k => meant'[l] = meant[l]
  <2> DEFINE f == SubSeq(meant, 1, k - 1)
  <2>1. meant \in Seq(Seq(BoundToken)) /\ Len(meant) = Len(open)
    BY <1>0 DEF TextInv
  <2>2. /\ f \in Seq(Seq(BoundToken)) /\ Len(f) = k - 1
        /\ \A l \in 1 .. k - 1 : f[l] = meant[l]
    BY <1>1, <2>1
  <2>3. meant' = Append(f, m)
    BY DEF m
  <2> HIDE DEF f
  <2>4. meant' \in Seq(Seq(BoundToken)) /\ Len(meant') = k /\ meant'[k] = m
    <3>1. f \in Seq(Seq(BoundToken)) /\ Len(f) + 1 = k
      BY <1>1, <2>2
    <3>2. /\ Append(f, m) \in Seq(Seq(BoundToken)) /\ Len(Append(f, m)) = Len(f) + 1
          /\ Append(f, m)[Len(f) + 1] = m
      BY <1>8, <3>1, AppendProperties
    <3> QED BY <2>3, <3>1, <3>2
  <2>5. ASSUME NEW l \in 1 .. k, l < k PROVE meant'[l] = meant[l]
    <3>1. l \in 1 .. k - 1
      BY <1>1, <2>5
    <3> QED BY <1>1, <1>8, <2>2, <2>3, <3>1
  <2> QED BY <2>4, <2>5
<1>10. Level(DumpAction(a, DumpedList(W, actions, open[k], s[k]), actions, W),
             Len(Bound'), meant'[k], Bound')
  BY <1>7, <1>9 DEF d
<1>11. TextInv'
  BY <1>0, <1>9, <1>10, AddedText
<1> QED BY <1>2, <1>11 DEF BuilderInv

\* Steps on the innermost group.
LEMMA BuilderAddsHere ==
  ASSUME ValuesInv, BuilderInv, NEW a \in Action, a.is # "group",
         open' = open, actions' = Added(actions, here, a), sets' = sets,
         Bound' = Bound \/ \E v \in Values : Bound' = Append(Bound, v),
         NEW W \in Walks, IsDump(W, actions), NEW s, Levels(W, s),
         NEW t \in Token, Numbered(<<t>>, Bound'), NEW lists,
         DumpAction(a, DumpedList(W, actions, here, s[Len(open)]), actions, W)
           = Dumped(Append(DumpedList(W, actions, here, s[Len(open)]).text, t),
                    Len(Bound'), lists),
         Means(<<BindToken(t, Bound')>>)
  PROVE  BuilderInv'
<1> DEFINE k == Len(open)
           d == DumpedList(W, actions, open[k], s[k])
<1>0. OpenInv /\ ListsInv /\ TextInv
  BY DEF BuilderInv
<1>1. /\ here = open[k] /\ k \in 1 .. k /\ k \in Nat /\ k >= 1 /\ SubSeq(open, 1, k) = open
      /\ Bound \in Seq(Values)
  BY <1>0, Innermost
<1>2. Bound' \in Seq(Values)
  <2>1. \A v \in Values : Append(Bound, v) \in Seq(Values)
    BY <1>1, AppendProperties
  <2> QED BY <1>1, <2>1
<1>3. <<t>> \in Seq(Token) /\ Bind(<<t>>, Bound') = <<BindToken(t, Bound')>>
  BY <1>2, BindOne
<1>4. d.text \in Seq(Token)
  BY <1>0, <1>1, LevelAt
<1>5. DumpAction(a, d, actions, W) = Dumped(d.text \o <<t>>, Len(Bound'), lists)
  BY <1>1, <1>4, AppendIsConcat
<1>6. meant' = Append(SubSeq(meant, 1, k - 1), meant[k] \o Bind(<<t>>, Bound'))
  <2>1. Front(meant) = SubSeq(meant, 1, k - 1) /\ Last(meant) = meant[k]
    BY <1>0 DEF Front, Last, TextInv
  <2> QED BY <1>3, <2>1 DEF Means
<1>7. k \in 1 .. Len(open) /\ open' = SubSeq(open, 1, k) /\ actions' = Added(actions, open[k], a)
  BY <1>1
<1> HIDE DEF k
<1> QED BY <1>3, <1>5, <1>6, <1>7, BuilderAdds DEF d

\* The placeholder of a new comparison takes the number of the value that is added.
LEMMA BuilderCompare ==
  ASSUME ValuesInv, BuilderInv, NEW op \in Ops, NEW v \in Values, Compare(op, v)
  PROVE  BuilderInv'
<1>0. OpenInv /\ ListsInv /\ TextInv
  BY DEF BuilderInv
<1>1. PICK W \in Walks : IsDump(W, actions) /\ \E s : Levels(W, s)
  BY <1>0 DEF TextInv
<1>2. PICK s : Levels(W, s)
  BY <1>1
<1> DEFINE d == DumpedList(W, actions, here, s[Len(open)])
           p == Place(op, d.idx + 1)
<1>3. d.idx \in Nat /\ d.idx = Len(Bound) /\ Bound \in Seq(Values)
  <2>1. here = open[Len(open)] /\ Len(open) \in 1 .. Len(open) /\ Bound \in Seq(Values)
    BY <1>0, Innermost
  <2>2. d.idx \in Nat /\ d.idx = s[Len(open) + 1]
    BY <1>0, <1>2, <2>1, LevelAt
  <2> QED BY <1>2, <2>1, <2>2 DEF Levels
<1>4. Bound' = Append(Bound, v)
  BY DEF Compare, Bound, ValuesInv
<1>5. Comp(op) \in Action /\ Comp(op).is = "comp" /\ Comp(op).op = op
  BY DEF Comp, Action
<1> HIDE DEF d
<1>6. DumpAction(Comp(op), d, actions, W) = Dumped(Append(d.text, p), Len(Bound'), d.lists)
  BY <1>3, <1>4, <1>5 DEF DumpAction
<1>7. /\ p \in Token /\ BindToken(p, Bound') = Equals(op, v) /\ Numbered(<<p>>, Bound')
  <2>1. d.idx + 1 \in DOMAIN Bound' /\ Bound'[d.idx + 1] = v
    BY <1>3, <1>4
  <2> QED BY <1>3, <2>1 DEF Token, Place, BindToken, ValueOf, Numbered
<1> HIDE DEF p
<1>8. /\ open' = open /\ actions' = Added(actions, here, Comp(op)) /\ sets' = sets
      /\ Means(<<BindToken(p, Bound')>>)
  BY <1>7 DEF Compare
<1> QED BY <1>1, <1>2, <1>4, <1>5, <1>6, <1>7, <1>8, BuilderAddsHere DEF d

\* A word between two operands takes no value.
LEMMA BuilderJoin ==
  ASSUME ValuesInv, BuilderInv, NEW word \in Words, JoinWith(word)
  PROVE  BuilderInv'
<1>0. OpenInv /\ ListsInv /\ TextInv
  BY DEF BuilderInv
<1>1. PICK W \in Walks : IsDump(W, actions) /\ \E s : Levels(W, s)
  BY <1>0 DEF TextInv
<1>2. PICK s : Levels(W, s)
  BY <1>1
<1> DEFINE d == DumpedList(W, actions, here, s[Len(open)])
           a == Link(word)
<1>3. d.idx = Len(Bound)
  BY <1>0, <1>2, Innermost, LevelAt DEF Levels
<1>4. Bound' = Bound
  BY DEF JoinWith, Bound
<1>5. a \in Action /\ a.is = "join" /\ a \in Token /\ BindToken(a, Bound') = a
        /\ Numbered(<<a>>, Bound')
  BY DEF Link, Action, Token, Mark, BindToken, Numbered
<1> HIDE DEF d
<1>6. DumpAction(a, d, actions, W) = Dumped(Append(d.text, a), Len(Bound'), d.lists)
  BY <1>3, <1>4, <1>5 DEF DumpAction
<1> HIDE DEF a
<1>7. /\ open' = open /\ actions' = Added(actions, here, a) /\ sets' = sets
      /\ Means(<<BindToken(a, Bound')>>)
  BY <1>5 DEF JoinWith, a
<1> QED BY <1>1, <1>2, <1>4, <1>5, <1>6, <1>7, BuilderAddsHere DEF d

\* The group that is closed has its whole text between the brackets.
LEMMA BuilderGroupEnd ==
  ASSUME ValuesInv, BuilderInv, GroupEnd, here \in DOMAIN actions
  PROVE  BuilderInv'
<1> DEFINE n == Len(open)
           k == n - 1
           a == Group(here)
<1>0. OpenInv /\ ListsInv /\ TextInv
  BY DEF BuilderInv
<1>1. PICK W \in Walks : IsDump(W, actions) /\ \E s : Levels(W, s)
  BY <1>0 DEF TextInv
<1>2. PICK s : Levels(W, s)
  BY <1>1
<1>3. /\ here = open[n] /\ here \in Nat /\ n \in 1 .. n /\ n \in Nat /\ n >= 1
      /\ Bound \in Seq(Values)
  BY <1>0, Innermost
<1>4. n > 1 /\ k \in 1 .. n
  BY <1>3 DEF GroupEnd
<1>5. /\ open' = SubSeq(open, 1, k) /\ Last(open') = open[k] /\ open[k] < open[n]
      /\ actions' = Added(actions, open[k], a)
  <2>1. Front(open) = SubSeq(open, 1, k) /\ open \in Seq(Nat)
    BY <1>0, <1>3, <1>4 DEF Front, OpenInv
  <2>2. Last(SubSeq(open, 1, k)) = open[k]
    BY <1>3, <1>4, <2>1 DEF Last
  <2>3. open[k] < open[n]
    BY <1>0, <1>3, <1>4 DEF OpenInv
  <2> QED BY <2>1, <2>2, <2>3 DEF GroupEnd
<1>6. a \in Action /\ a.is = "group" /\ a.of = here
  BY <1>3 DEF Group, Action
<1> DEFINE d == DumpedList(W, actions, open[k], s[k])
           g == DumpedList(W, actions, open[n], s[n])
           y == InBrackets(g.text)
           lists == d.lists \union {here} \union g.lists
<1>7. d.idx = s[n]
  <2>1. d.idx = s[k + 1]
    BY <1>0, <1>2, <1>4, LevelAt
  <2> QED BY <1>3, <2>1
<1>8. /\ g.text \in Seq(Token) /\ Numbered(g.text, Bound) /\ Bind(g.text, Bound) = meant[n]
      /\ g.idx = Len(Bound)
  BY <1>0, <1>2, <1>3, LevelAt DEF Levels
<1>9. Bound' = Bound /\ sets' = sets
  BY DEF GroupEnd, Bound
<1>10. DumpAction(a, d, actions, W) = Dumped(d.text \o y, Len(Bound'), lists)
  <2>1. W[a.of][Len(List(actions, a.of))][d.idx] = g
    BY <1>3, <1>6, <1>7 DEF DumpedList
  <2> HIDE DEF g, d
  <2> QED BY <1>6, <1>8, <1>9, <2>1 DEF DumpAction
<1> HIDE DEF d, g
<1>11. y \in Seq(Token) /\ Numbered(y, Bound') /\ Bind(y, Bound') = InBrackets(meant[n])
  <2>1. y \in Seq(Token)
    BY <1>8, BracketsType DEF Token
  <2> QED BY <1>3, <1>8, <1>9, <2>1, NumberedBrackets, BindBrackets
<1> HIDE DEF y
<1>12. meant' = Append(SubSeq(meant, 1, k - 1), meant[k] \o Bind(y, Bound'))
  <2>1. meant \in Seq(Seq(BoundToken)) /\ Len(meant) = n
    BY <1>0 DEF TextInv
  <2>2. Front(meant) = SubSeq(meant, 1, k) /\ Last(meant) = meant[n]
    BY <2>1 DEF Front, Last
  <2>3. SubSeq(meant, 1, k) \in Seq(Seq(BoundToken)) /\ Len(SubSeq(meant, 1, k)) = k
    BY <1>3, <1>4, <2>1
  <2>4. Last(SubSeq(meant, 1, k)) = meant[k]
    BY <1>3, <1>4, <2>1, <2>3 DEF Last
  <2>5. Front(SubSeq(meant, 1, k)) = SubSeq(meant, 1, k - 1)
    BY <1>3, <1>4, <2>1, <2>3 DEF Front
  <2>6. meant' = Append(Front(Front(meant)), Last(Front(meant)) \o InBrackets(Last(meant)))
    BY DEF GroupEnd
  <2> HIDE DEF k, n
  <2> QED BY <1>11, <2>2, <2>4, <2>5, <2>6
<1>13. k \in 1 .. Len(open) /\ (a.is = "group" => a.of \in DOMAIN actions /\ a.of > open[k])
  BY <1>3, <1>4, <1>5, <1>6
<1> HIDE DEF k, n, a, lists
<1> QED BY <1>1, <1>2, <1>5, <1>6, <1>9, <1>10, <1>11, <1>12, <1>13, BuilderAdds DEF d

-----------------------------------------------------------------------------
\* The group that begins has no text yet: it stops where the one around it does.
LEMMA BuilderGroupBegin ==
  ASSUME ValuesInv, BuilderInv, GroupBegin
  PROVE  BuilderInv'
<1> DEFINE k == Len(open)
<1>0. OpenInv /\ ListsInv /\ TextInv
  BY DEF BuilderInv
<1>1. /\ here = open[k] /\ here \in Nat /\ k \in Nat /\ k >= 1 /\ Bound \in Seq(Values)
      /\ open \in Seq(Nat)
  BY <1>0, Innermost DEF OpenInv
<1>2. PICK N \in Nat : DOMAIN actions' = 0 .. N - 1 /\ DOMAIN actions' = DOMAIN actions \union {here}
                       /\ Cardinality(DOMAIN actions \union {here}) = N
  <2>1. PICK N \in Nat : DOMAIN actions = 0 .. N - 1 /\ here \in 0 .. N
    BY <1>0, <1>1 DEF ListsInv
  <2>2. DOMAIN actions' = DOMAIN actions \union {here}
    BY DEF GroupBegin, Made
  <2>3. PICK M \in Nat : DOMAIN actions \union {here} = 0 .. M - 1
    <3>1. CASE here \in 0 .. N - 1
      BY <2>1, <3>1
    <3>2. CASE here = N
      <4>1. DOMAIN actions \union {here} = 0 .. (N + 1) - 1 /\ N + 1 \in Nat
        BY <2>1, <3>2
      <4> QED BY <4>1
    <3>3. here \in 0 .. N - 1 \/ here = N
      BY <2>1
    <3> QED BY <3>1, <3>2, <3>3
  <2>4. Cardinality(0 .. M - 1) = M
    <3>1. 0 \in Int /\ M - 1 \in Int
      BY <2>3
    <3>2. Cardinality(0 .. M - 1) = IF 0 > M - 1 THEN 0 ELSE (M - 1) - 0 + 1
      BY <3>1, FS_Interval
    <3> QED BY <2>3, <3>2
  <2> QED BY <2>2, <2>3, <2>4
<1>3. /\ open' = Append(open, N) /\ actions' = Made(actions, {here})
      /\ meant' = Append(meant, <<>>) /\ sets' = sets /\ Bound' = Bound
  BY <1>2 DEF GroupBegin, Bound
<1>4. /\ open' \in Seq(Nat) /\ Len(open') = k + 1 /\ open'[k + 1] = N
      /\ \A l \in 1 .. k : open'[l] = open[l]
  BY <1>1, <1>3
<1>5. \A i : List(actions', i) = List(actions, i)
  BY <1>3, MadeLists
<1>6. ASSUME NEW l \in 1 .. k
      PROVE  open[l] \in DOMAIN actions' /\ open[l] < N
  <2>1. open[l] \in DOMAIN actions'
    <3>1. CASE l = k
      BY <1>1, <1>2, <3>1
    <3>2. CASE l < k
      BY <1>0, <1>2, <3>2 DEF OpenInv
    <3> QED BY <1>1, <3>1, <3>2
  <2> QED BY <1>2, <2>1
<1>7. OpenInv'
  <2>1. \A l, m \in 1 .. k + 1 : l < m => open'[l] < open'[m]
    <3> SUFFICES ASSUME NEW l \in 1 .. k + 1, NEW m \in 1 .. k + 1, l < m
                 PROVE  open'[l] < open'[m]
      OBVIOUS
    <3>1. l \in 1 .. k
      BY <1>1
    <3>2. CASE m = k + 1
      BY <1>4, <1>6, <3>1, <3>2
    <3>3. CASE m \in 1 .. k
      BY <1>0, <1>4, <3>1, <3>3 DEF OpenInv
    <3> QED BY <1>1, <3>2, <3>3
  <2>2. \A l \in 1 .. k + 1 : l < k + 1 => open'[l] \in DOMAIN actions'
    <3> SUFFICES ASSUME NEW l \in 1 .. k + 1, l < k + 1 PROVE open'[l] \in DOMAIN actions'
      OBVIOUS
    <3>1. l \in 1 .. k
      BY <1>1
    <3> QED BY <1>4, <1>6, <3>1
  <2>3. open'[1] = 0
    BY <1>0, <1>1, <1>4 DEF OpenInv
  <2> QED BY <1>1, <1>4, <2>1, <2>2, <2>3 DEF OpenInv
<1>8. ListsInv'
  <2>1. \A i \in DOMAIN actions' : actions'[i] = List(actions, i)
    BY <1>5 DEF List
  <2>2. Lists(actions')
    BY <1>0, <1>2, <2>1, ListsAre DEF Lists, ListsInv
  <2>3. ASSUME NEW i \in DOMAIN actions', NEW p \in DOMAIN actions'[i], actions'[i][p].is = "group"
        PROVE  /\ actions'[i][p].of \in DOMAIN actions /\ actions'[i][p].of > i
               /\ \A l \in 1 .. k + 1 : actions'[i][p].of # open'[l]
    <3>1. i \in DOMAIN actions /\ actions'[i] = actions[i]
      BY <2>1, <2>3 DEF List
    <3>2. actions'[i][p].of \in DOMAIN actions /\ actions'[i][p].of > i
      BY <1>0, <2>3, <3>1 DEF ListsInv, GroupsAhead
    <3>3. \A l \in 1 .. k : actions'[i][p].of # open[l]
      BY <1>0, <2>3, <3>1 DEF ListsInv, NoGroupIs
    <3>4. actions'[i][p].of # N
      <4>1. N \notin DOMAIN actions'
        BY <1>2
      <4> QED BY <1>2, <3>2, <4>1
    <3>5. ASSUME NEW l \in 1 .. k + 1 PROVE actions'[i][p].of # open'[l]
      <4>1. l \in 1 .. k \/ l = k + 1
        BY <1>1
      <4> QED BY <1>4, <3>3, <3>4, <4>1
    <3> QED BY <3>2, <3>5
  <2>4. GroupsAhead(actions')
    BY <1>2, <2>3 DEF GroupsAhead
  <2>5. \A l \in 1 .. k + 1 : NoGroupIs(actions', open'[l])
    BY <2>3 DEF NoGroupIs
  <2>6. open'[k + 1] \in 0 .. N /\ open'[k + 1] \notin DOMAIN actions'
    BY <1>2, <1>4
  <2> QED BY <1>2, <1>4, <2>2, <2>4, <2>5, <2>6 DEF ListsInv
<1>9. PICK W \in Walks : IsDump(W, actions) /\ \E s : Levels(W, s)
  BY <1>0 DEF TextInv
<1>10. PICK s : Levels(W, s)
  BY <1>9
<1>11. IsDump(W, actions')
  BY <1>3, <1>9, MadeDump
<1>12. PICK t : /\ t \in [1 .. k + 2 -> Nat] /\ t[k + 2] = Len(Bound)
                /\ \A l \in 1 .. k + 1 : t[l] = s[l]
  <2> DEFINE t == [l \in 1 .. k + 2 |-> IF l = k + 2 THEN Len(Bound) ELSE s[l]]
  <2>1. Len(Bound) \in Nat /\ s \in [1 .. k + 1 -> Nat]
    BY <1>1, <1>10, LenProperties DEF Levels
  <2> HIDE DEF k
  <2>2. /\ t \in [1 .. k + 2 -> Nat] /\ t[k + 2] = Len(Bound)
        /\ \A l \in 1 .. k + 1 : t[l] = s[l]
    BY <1>1, <2>1
  <2> QED BY <2>2
<1>13. /\ meant' \in Seq(Seq(BoundToken)) /\ Len(meant') = k + 1 /\ meant'[k + 1] = <<>>
       /\ \A l \in 1 .. k : meant'[l] = meant[l]
  <2>1. meant \in Seq(Seq(BoundToken)) /\ Len(meant) = k /\ <<>> \in Seq(BoundToken)
    BY <1>0 DEF TextInv
  <2> QED BY <1>3, <2>1, AppendProperties
<1>14. \A i, n : DumpedList(W, actions', i, n) = DumpedList(W, actions, i, n)
  BY <1>5, Zenon DEF DumpedList
<1>15. ASSUME NEW l \in 1 .. k + 1
       PROVE  Level(DumpedList(W, actions', open'[l], t[l]), t[l + 1], meant'[l], Bound')
  <2>1. CASE l \in 1 .. k
    <3>1. Level(DumpedList(W, actions, open[l], s[l]), s[l + 1], meant[l], Bound)
      BY <1>10, <2>1 DEF Levels
    <3>2. t[l] = s[l] /\ t[l + 1] = s[l + 1] /\ open'[l] = open[l] /\ meant'[l] = meant[l]
      <4>1. l \in 1 .. k + 1 /\ l + 1 \in 1 .. k + 1
        BY <1>1, <2>1
      <4> QED BY <1>4, <1>12, <1>13, <2>1, <4>1
    <3> QED BY <1>3, <1>14, <3>1, <3>2
  <2>2. CASE l = k + 1
    <3>1. List(actions', N) = <<>>
      BY <1>2 DEF List
    <3>2. t[l] = Len(Bound) /\ t[l + 1] = Len(Bound) /\ Len(Bound) \in Nat
      <4>1. s[k + 1] = Len(Bound)
        BY <1>10 DEF Levels
      <4>2. k + 1 \in 1 .. k + 1 /\ l + 1 = k + 2
        BY <1>1, <2>2
      <4>3. Len(Bound) \in Nat
        BY <1>1, LenProperties
      <4> QED BY <1>12, <2>2, <4>1, <4>2, <4>3
    <3>3. DumpedList(W, actions', N, Len(Bound)) = Dumped(<<>>, Len(Bound), {})
      <4>1. W[N][0][Len(Bound)] = DumpStep(actions', W, N, 0, Len(Bound))
        BY <1>11, <3>2, IsDumpAt
      <4>2. Len(List(actions', N)) = 0 /\ 0 \notin DOMAIN List(actions', N)
        BY <3>1
      <4> QED BY <4>1, <4>2 DEF DumpedList, DumpStep
    <3>4. Level(Dumped(<<>>, Len(Bound), {}), Len(Bound), <<>>, Bound)
      BY DEF Level, Dumped, Numbered, Bind
    <3> QED BY <1>3, <1>4, <1>13, <2>2, <3>2, <3>3, <3>4
  <2> QED BY <1>1, <2>1, <2>2
<1>16. Levels(W, t)'
  <2>1. t[1] = Len(sets)
    BY <1>1, <1>10, <1>12 DEF Levels
  <2>2. t \in [1 .. k + 1 + 1 -> Nat] /\ t[k + 1 + 1] = Len(Bound)
    BY <1>1, <1>12
  <2> QED BY <1>3, <1>4, <1>15, <2>1, <2>2 DEF Levels
<1>17. TextInv'
  BY <1>4, <1>11, <1>13, <1>16 DEF TextInv
<1> QED BY <1>7, <1>8, <1>17 DEF BuilderInv

-----------------------------------------------------------------------------
\* What the caller asked, when the query is there.
QueryInv ==
  /\ query.rows \subseteq Row
  /\ query.ready /\ ~hollow => QueryIsTheOneMeant /\ query.rows = query.wanted

LEMMA QueryGo ==
  ASSUME ValuesInv, BuilderInv, NEW h, Go(h)
  PROVE  QueryIsTheOneMeant' /\ query'.rows = query'.wanted
<1>0. OpenInv /\ ListsInv /\ TextInv
  BY DEF BuilderInv
<1>1. PICK W \in Walks : IsDump(W, actions) /\ \E s : Levels(W, s)
  BY <1>0 DEF TextInv
<1>2. PICK s : Levels(W, s)
  BY <1>1
<1> DEFINE L == Len(List(actions, 0))
           d == Dump(actions, 0, FirstOfWhere)
<1>3. Len(sets) \in Nat /\ Bound \in Seq(Values) /\ SubSeq(Bound, 1, Len(sets)) = sets
  <2>1. Bound \in Seq(Values)
    BY ConcatProperties DEF Bound, ValuesInv
  <2> QED BY <2>1 DEF ValuesInv, Bound
<1>4. d = DumpedList(W, actions, 0, Len(sets))
  <2>1. IsDump(DumpOf(actions), actions)
    BY <1>1, DumpOfIsDump
  <2>2. PICK N \in Nat : DOMAIN actions = 0 .. N - 1
    BY <1>0 DEF ListsInv
  <2>3. \A i, k, n \in Nat : DumpOf(actions)[i][k][n] = W[i][k][n]
    BY <1>0, <1>1, <2>1, <2>2, DumpIsUnique DEF ListsInv
  <2>4. L \in Nat
    BY <1>0, ListsAre DEF ListsInv
  <2> QED BY <1>3, <2>3, <2>4 DEF Dump, DumpedList, FirstOfWhere
<1>5. /\ open[1] = 0 /\ 1 \in 1 .. Len(open) /\ s[1] = Len(sets) /\ s[Len(open) + 1] = Len(Bound)
      /\ Len(open) \in Nat
  BY <1>0, <1>2 DEF OpenInv, Levels
<1>6. d.text \in Seq(Token) /\ d.idx = s[2] /\ Bind(d.text, Bound) = meant[1]
  <2>1. d = DumpedList(W, actions, open[1], s[1])
    BY <1>4, <1>5
  <2> HIDE DEF d
  <2> QED BY <1>0, <1>2, <1>5, <2>1, LevelAt
<1>7. Len(open) = 1 => d.idx = Len(Bound)
  BY <1>5, <1>6
<1>8. Len(open) = 1 /\ meant[1] = <<>> => 0 \notin DOMAIN actions
  <2> SUFFICES ASSUME Len(open) = 1, 0 \in DOMAIN actions PROVE meant[1] # <<>>
    OBVIOUS
  <2>1. actions[0] # <<>>
    BY <1>0, <1>5 DEF ListsInv
  <2>2. List(actions, 0) \in Seq(Action) /\ L \in Nat /\ L >= 1 /\ L \in DOMAIN List(actions, 0)
    BY <1>0, <2>1, ListsAre DEF ListsInv, List
  <2> DEFINE a == List(actions, 0)[L]
             c == W[0][L - 1][Len(sets)]
  <2>3. a \in Action
    BY <2>2
  <2>4. c \in Dumps
    <3>1. L - 1 \in Nat
      BY <2>2
    <3> HIDE DEF L
    <3> QED BY <1>3, <3>1 DEF Walks
  <2>5. d = DumpAction(a, c, actions, W)
    <3>1. d = W[0][L][Len(sets)]
      BY <1>4 DEF DumpedList
    <3>2. W[0][L][Len(sets)] = DumpStep(actions, W, 0, L, Len(sets))
      BY <1>1, <1>3, <2>2, IsDumpAt
    <3> HIDE DEF d
    <3> QED BY <2>2, <3>1, <3>2 DEF DumpStep
  <2> HIDE DEF a, c, d
  <2>6. d.text # <<>>
    <3>1. c.text \in Seq(Token)
      BY <2>4 DEF Dumps
    <3>2. CASE a.is = "comp"
      BY <2>5, <3>1, <3>2 DEF DumpAction, Dumped
    <3>3. CASE a.is = "join"
      BY <2>5, <3>1, <3>3 DEF DumpAction, Dumped
    <3>4. CASE a.is = "group"
      <4> DEFINE g == W[a.of][Len(List(actions, a.of))][c.idx]
      <4>1. a.of \in Nat
        BY <2>3, <3>4, ActionIs
      <4>2. g.text \in Seq(Token)
        <5>1. Len(List(actions, a.of)) \in Nat /\ c.idx \in Nat
          BY <1>0, <2>4, ListsAre DEF ListsInv, Dumps
        <5>2. g \in Dumps
          BY <4>1, <5>1 DEF Walks
        <5> QED BY <5>2 DEF Dumps
      <4>3. d.text = c.text \o InBrackets(g.text)
        BY <2>5, <3>4 DEF DumpAction, Dumped
      <4> HIDE DEF g
      <4>4. InBrackets(g.text) \in Seq(Token) /\ InBrackets(g.text) # <<>>
        <5>1. InBrackets(g.text) \in Seq(Token)
          BY <4>2, BracketsType DEF Token
        <5>2. Bracket("(") \in Token /\ Bracket(")") \in Token
          BY DEF Bracket, Token, Mark
        <5>3. InBrackets(g.text) # <<>>
          BY <4>2, <5>2 DEF InBrackets
        <5> QED BY <5>1, <5>3
      <4> QED BY <3>1, <4>3, <4>4
    <3> QED BY <2>3, <3>2, <3>3, <3>4, ActionIs
  <2> QED BY <1>3, <1>6, <2>6, BindType
<1> HIDE DEF d
<1> DEFINE text == Bind(d.text, Bound)
           sound == (0 \in DOMAIN actions => WellFormed(text)) /\ Len(Bound) <= d.idx
<1>9. /\ query'.ready /\ query'.sound = sound /\ query'.text = text
      /\ query'.rows = (IF sound THEN Selected(text) ELSE {})
      /\ query'.wanted = (IF sound THEN Selected(meant[1]) ELSE {})
      /\ query'.set = SubSeq(Bound, 1, Len(sets)) /\ query'.meant = meant[1]
      /\ query'.inside = (Len(open) > 1) /\ sets' = sets
  BY DEF Go, d
<1>10. query'.rows = query'.wanted
  BY <1>6, <1>9
<1>11. query'.sound \/ query'.inside \/ ~(query'.meant = <<>> \/ WellFormed(query'.meant))
  <2>1. CASE Len(open) > 1
    <3> DEFINE within == Len(open) > 1
    <3>1. within /\ query'.inside = within
      BY <1>9, <2>1
    <3> HIDE DEF within
    <3> QED BY <3>1
  <2>2. CASE Len(open) = 1 /\ (meant[1] = <<>> \/ WellFormed(meant[1]))
    <3>1. Len(Bound) <= d.idx
      BY <1>3, <1>7, <2>2
    <3>2. sound
      BY <1>6, <1>8, <2>2, <3>1
    <3> HIDE DEF sound
    <3> QED BY <1>9, <3>2
  <2>3. CASE ~(meant[1] = <<>> \/ WellFormed(meant[1]))
    BY <1>9, <2>3
  <2>4. Len(open) > 1 \/ Len(open) = 1
    <3>1. Len(open) >= 1 /\ Len(open) \in Nat
      BY <1>0, <1>5 DEF OpenInv
    <3>2. \A n \in Nat : n >= 1 => n > 1 \/ n = 1
      OBVIOUS
    <3> QED BY <3>1, <3>2
  <2> QED BY <2>1, <2>2, <2>3, <2>4
<1>12. query'.text = query'.meant /\ query'.set = sets'
  BY <1>3, <1>6, <1>9
<1> QED BY <1>9, <1>10, <1>11, <1>12 DEF QueryIsTheOneMeant

-----------------------------------------------------------------------------
FirstHandle == CHOOSE h \in Handles : TRUE

Codes == {"none", "ROW", "DONE", "ERROR"}

ReaderTypes ==
  /\ at \in Row \union {0}
  /\ res \in [Handles -> Codes]
  /\ given \in Seq(Row) /\ passed \subseteq Row
  /\ starts \in Nat /\ faults \in Nat
  /\ query.ready \in BOOLEAN

\* Nothing has been read before go(), nothing is handed out by a statement that
\* changes rows, and without a copy there is one result, on the row of the statement.
RunsInv ==
  /\ ~query.ready => /\ at = 0 /\ starts = 0 /\ given = <<>> /\ passed = {} /\ ~copied
                     /\ \A h \in Handles : res[h] = "none"
  /\ kind # "select" => at = 0 /\ starts <= 1 /\ \A h \in Handles : res[h] # "ROW"
  /\ ~copied => /\ starts <= 1
                /\ \A h \in Handles : /\ res[h] # "none" => h = FirstHandle
                                      /\ res[h] = "ROW" => at # 0

Sorted(s) == \A i, j \in DOMAIN s : i < j => s[i] < s[j]

\* What has been handed out, and what was left, are the rows before p, or up to it.
Split(s, left, before) == Sorted(s) /\ ToSet(s) = before \ left /\ left \subseteq before

\* On a row, the statement has been through those selected before it.
ReadInv ==
  kind = "select" /\ ~loose /\ at # 0 =>
    /\ query.ready /\ at \in query.rows
    /\ Split(given, passed, {r \in query.rows : r < at})

QueryIInv ==
  /\ ValuesInv /\ ReaderTypes /\ RunsInv /\ ReadInv /\ QueryInv
  /\ ~query.ready /\ ~hollow => BuilderInv

-----------------------------------------------------------------------------
\* The invariant holds of a query that nobody has called yet.
LEMMA QueryInitInv == QueryInit => QueryIInv
<1> SUFFICES ASSUME QueryInit PROVE QueryIInv
  OBVIOUS
<1>1. ValuesInv /\ BuilderInv
  BY QueryAssumption, BuilderInit
<1>2. ReaderTypes /\ RunsInv /\ ReadInv /\ QueryInv
  BY DEF QueryInit, ReaderTypes, RunsInv, ReadInv, QueryInv, NoQuery, Codes
<1> QED BY <1>1, <1>2 DEF QueryIInv

\* The next row is the least selected one ahead, and with none left the end.
LEMMA NextRowIs ==
  ASSUME NEW q, q.rows \subseteq Row, NEW on \in Row \union {0}, NEW r \in NextRows(q, on, FALSE)
  PROVE  \/ r = 0 /\ {x \in q.rows : x <= on} = q.rows
         \/ r \in q.rows /\ r # 0 /\ {x \in q.rows : x < r} = {x \in q.rows : x <= on}
<1> DEFINE good == {x \in Row : x > on} \intersect q.rows
<1>1. \A x \in q.rows \union {on} : x \in Nat
  BY QueryAssumption DEF Row
<1>2. \A x \in q.rows : x \in good <=> ~(x <= on)
  BY <1>1
<1>3. CASE good = {} /\ r = 0
  BY <1>2, <1>3
<1>4. CASE r \in good /\ \A x \in good : r <= x
  <2>1. r \in q.rows /\ r > on /\ r \in Nat /\ r # 0
    BY <1>1, <1>4 DEF Row
  <2>2. ASSUME NEW x \in q.rows PROVE x < r <=> x <= on
    BY <1>1, <1>2, <1>4, <2>1
  <2> QED BY <2>1, <2>2
<1>5. r \in {x \in good : \A y \in good : x <= y} \union (IF good = {} THEN {0} ELSE {})
  BY DEF NextRows
<1> QED BY <1>3, <1>4, <1>5

\* A step: which row, which code, and that a statement starts again only from the top.
LEMMA StepIs ==
  ASSUME ReaderTypes, NEW q, q.rows \subseteq Row, NEW h, StepStatement(h, q)
  PROVE  /\ at' \in Row \union {0} /\ res' \in [Handles -> Codes]
         /\ starts' \in Nat /\ faults' \in Nat
         /\ starts' = IF at = 0 THEN starts + 1 ELSE starts
         /\ \A g \in Handles : g # h => res'[g] = res[g]
         /\ \A g \in Handles : g = h => res'[g] # "none" /\ (res'[g] = "ROW" => at' # 0)
         /\ ~loose => \/ at' \in NextRows(q, at, FALSE) /\ faults' = faults
                      \/ at' = 0 /\ faults' = faults + 1
<1>1. starts' = IF at = 0 THEN starts + 1 ELSE starts
  BY DEF StepStatement
<1>2. starts' \in Nat
  BY <1>1 DEF ReaderTypes
<1>3. CASE \E r \in NextRows(q, at, loose) :
             /\ at' = r
             /\ res' = [res EXCEPT ![h] = IF r = 0 THEN "DONE" ELSE "ROW"]
             /\ UNCHANGED faults
  <2>1. at' \in NextRows(q, at, loose)
    BY <1>3
  <2>2. at' \in Row \union {0}
    BY <2>1, Zenon DEF NextRows
  <2>3. ~loose => at' \in NextRows(q, at, FALSE)
    BY <2>1, Zenon DEF NextRows
  <2>4. res' = [res EXCEPT ![h] = IF at' = 0 THEN "DONE" ELSE "ROW"] /\ faults' = faults
    BY <1>3
  <2> QED BY <1>1, <1>2, <2>2, <2>3, <2>4 DEF ReaderTypes, Codes
<1>4. CASE faults' = faults + 1 /\ at' = 0 /\ res' = [res EXCEPT ![h] = "ERROR"]
  <2>1. faults' \in Nat /\ at' \in Row \union {0}
    BY <1>4 DEF ReaderTypes
  <2>2. /\ res' \in [Handles -> Codes]
        /\ \A g \in Handles : g # h => res'[g] = res[g]
        /\ \A g \in Handles : g = h => res'[g] = "ERROR"
    BY <1>4 DEF ReaderTypes, Codes
  <2> QED BY <1>1, <1>2, <1>4, <2>1, <2>2
<1> QED BY <1>3, <1>4 DEF StepStatement

\* A step from a place where the rows up to there have been read.
LEMMA StepReads ==
  ASSUME ReaderTypes, ~loose, NEW q, q.rows \subseteq Row, NEW h, StepStatement(h, q),
         NEW s, NEW left, Split(s, left, {r \in q.rows : r <= at})
  PROVE  /\ at' # 0 => at' \in q.rows /\ Split(s, left, {r \in q.rows : r < at'})
         /\ at' = 0 /\ faults' = faults => Split(s, left, q.rows)
<1>1. \/ at' \in NextRows(q, at, FALSE)
      \/ at' = 0 /\ faults' # faults
  <2>1. \/ at' \in NextRows(q, at, FALSE) /\ faults' = faults
        \/ at' = 0 /\ faults' = faults + 1
    BY StepIs
  <2>2. faults + 1 # faults
    BY DEF ReaderTypes
  <2> QED BY <2>1, <2>2
<1>2. CASE at' \in NextRows(q, at, FALSE)
  <2>1. at \in Row \union {0}
    BY DEF ReaderTypes
  <2>2. \/ at' = 0 /\ {x \in q.rows : x <= at} = q.rows
        \/ at' \in q.rows /\ at' # 0 /\ {x \in q.rows : x < at'} = {x \in q.rows : x <= at}
    BY <1>2, <2>1, NextRowIs
  <2> QED BY <2>2
<1> QED BY <1>1, <1>2

-----------------------------------------------------------------------------
\* What AnswersTheQuestion says of a step.
Answered ==
  kind = "select" /\ ReadsToTheEnd /\ ~hollow' /\ ~loose' =>
    Split(given', passed', query'.wanted)

\* Only the calls of the builder touch what its invariant is about.
LEMMA SameBuilder ==
  ASSUME BuilderInv, UNCHANGED builder PROVE BuilderInv'
BY DEF BuilderInv, OpenInv, ListsInv, TextInv, Levels, Bound, builder

\* Steps that leave the statement and its results alone.
LEMMA NothingRead ==
  ASSUME QueryIInv, UNCHANGED <<kind, sets, query, at, res, given, passed, starts, copied, faults>>,
         hollow => hollow', loose => loose', ValuesInv',
         ~query.ready /\ ~hollow /\ ~hollow' => BuilderInv'
  PROVE  QueryIInv' /\ Answered
<1>1. ReaderTypes' /\ RunsInv' /\ ReadInv'
  BY DEF QueryIInv, ReaderTypes, RunsInv, ReadInv
<1>2. QueryInv'
  BY DEF QueryIInv, QueryInv, QueryIsTheOneMeant
<1>3. ~query'.ready /\ ~hollow' => BuilderInv'
  BY DEF QueryIInv
<1>4. Answered
  BY DEF Answered, ReadsToTheEnd
<1> QED BY <1>1, <1>2, <1>3, <1>4 DEF QueryIInv

\* One lemma for each action: it keeps the invariant, and hands out what it should.
LEMMA CompareInv ==
  ASSUME QueryIInv, NEW op \in Ops, NEW v \in Values, Compare(op, v)
  PROVE  QueryIInv' /\ Answered
<1>1. /\ UNCHANGED <<kind, sets, query, at, res, given, passed, starts, copied, faults>>
      /\ hollow' = hollow /\ (loose => loose') /\ values' = Append(values, v)
  BY DEF Compare, reader
<1>2. ValuesInv'
  BY <1>1, AppendProperties DEF QueryIInv, ValuesInv
<1>3. ~query.ready /\ ~hollow => BuilderInv'
  BY BuilderCompare DEF QueryIInv
<1> QED BY <1>1, <1>2, <1>3, NothingRead

LEMMA JoinInv ==
  ASSUME QueryIInv, NEW word \in Words, JoinWith(word)
  PROVE  QueryIInv' /\ Answered
<1>1. /\ UNCHANGED <<kind, sets, query, at, res, given, passed, starts, copied, faults>>
      /\ hollow' = hollow /\ loose' = loose /\ values' = values
  BY DEF JoinWith, reader
<1>2. ValuesInv'
  BY <1>1 DEF QueryIInv, ValuesInv
<1>3. ~query.ready /\ ~hollow => BuilderInv'
  BY BuilderJoin DEF QueryIInv
<1> QED BY <1>1, <1>2, <1>3, NothingRead

LEMMA GroupBeginInv ==
  ASSUME QueryIInv, GroupBegin
  PROVE  QueryIInv' /\ Answered
<1>1. /\ UNCHANGED <<kind, sets, query, at, res, given, passed, starts, copied, faults>>
      /\ hollow' = hollow /\ loose' = loose /\ values' = values
  BY DEF GroupBegin, reader
<1>2. ValuesInv'
  BY <1>1 DEF QueryIInv, ValuesInv
<1>3. ~query.ready /\ ~hollow => BuilderInv'
  BY BuilderGroupBegin DEF QueryIInv
<1> QED BY <1>1, <1>2, <1>3, NothingRead

LEMMA GroupEndInv ==
  ASSUME QueryIInv, GroupEnd
  PROVE  QueryIInv' /\ Answered
<1>1. /\ UNCHANGED <<kind, sets, query, at, res, given, passed, starts, copied, faults>>
      /\ hollow' = (hollow \/ here \notin DOMAIN actions) /\ loose' = loose /\ values' = values
  BY DEF GroupEnd, reader
<1>2. ValuesInv'
  BY <1>1 DEF QueryIInv, ValuesInv
<1>3. (hollow => hollow') /\ (~hollow' => here \in DOMAIN actions)
  BY <1>1
<1>4. ~query.ready /\ ~hollow /\ ~hollow' => BuilderInv'
  BY <1>3, BuilderGroupEnd DEF QueryIInv
<1> QED BY <1>1, <1>2, <1>3, <1>4, NothingRead

-----------------------------------------------------------------------------
\* What a step of the statement does to the invariant.
LEMMA StepInv ==
  ASSUME QueryIInv, NEW h, NEW q, q.rows \subseteq Row, q.ready, StepStatement(h, q),
         kind = "select", ~copied => h = FirstHandle /\ (at = 0 => starts = 0),
         query' = q, kind' = kind, copied' = copied, loose' = loose,
         given' \in Seq(Row), passed' \subseteq Row, q.ready \in BOOLEAN,
         ~loose => Split(given', passed', {r \in q.rows : r <= at}),
         ~hollow' => q.rows = q.wanted
  PROVE  ReaderTypes' /\ RunsInv' /\ ReadInv' /\ Answered
<1>1. ReaderTypes /\ RunsInv
  BY DEF QueryIInv
<1>2. /\ at' \in Row \union {0} /\ res' \in [Handles -> Codes]
      /\ starts' \in Nat /\ faults' \in Nat
      /\ starts' = IF at = 0 THEN starts + 1 ELSE starts
      /\ \A g \in Handles : g # h => res'[g] = res[g]
      /\ \A g \in Handles : g = h => res'[g] # "none" /\ (res'[g] = "ROW" => at' # 0)
  BY <1>1, StepIs
<1>3. ReaderTypes'
  BY <1>2 DEF ReaderTypes
<1>4. RunsInv'
  <2>1. ASSUME ~copied, NEW g \in Handles
        PROVE  /\ res'[g] # "none" => g = FirstHandle
               /\ res'[g] = "ROW" => at' # 0
    <3>1. CASE g = h
      BY <1>2, <2>1, <3>1
    <3>2. CASE g # h
      BY <1>1, <1>2, <2>1, <3>2 DEF RunsInv
    <3> QED BY <3>1, <3>2
  <2>2. ~copied => starts' <= 1
    BY <1>1, <1>2 DEF RunsInv, ReaderTypes
  <2> QED BY <2>1, <2>2 DEF RunsInv
<1>5. ASSUME ~loose
      PROVE  /\ at' # 0 => at' \in q.rows /\ Split(given', passed', {r \in q.rows : r < at'})
             /\ at' = 0 /\ faults' = faults => Split(given', passed', q.rows)
  BY <1>1, <1>5, StepReads
<1>6. ReadInv'
  BY <1>5 DEF ReadInv
<1>7. Answered
  BY <1>5 DEF Answered, ReadsToTheEnd
<1> QED BY <1>3, <1>4, <1>6, <1>7

\* Reading up to the row the statement is on, and stepping on.
LEMMA ReadOn ==
  ASSUME QueryIInv, NEW h \in Handles, res[h] = "ROW", StepStatement(h, query),
         UNCHANGED <<builder, query, loose, copied>>,
         given' \in Seq(Row), passed' \subseteq Row,
         ~loose => Split(given', passed', {r \in query.rows : r <= at})
  PROVE  QueryIInv' /\ Answered
<1>1. /\ query.ready \in BOOLEAN /\ query.ready /\ kind = "select"
      /\ ~copied => h = FirstHandle /\ at # 0
  BY DEF QueryIInv, ReaderTypes, RunsInv
<1>2. query.rows \subseteq Row /\ (~hollow => query.rows = query.wanted)
  BY <1>1 DEF QueryIInv, QueryInv
<1>3. kind' = kind /\ hollow' = hollow /\ sets' = sets /\ values' = values
  BY DEF builder
<1>4. ReaderTypes' /\ RunsInv' /\ ReadInv' /\ Answered
  BY <1>1, <1>2, <1>3, StepInv
<1>5. ValuesInv' /\ QueryInv'
  BY <1>3 DEF QueryIInv, ValuesInv, QueryInv, QueryIsTheOneMeant
<1> QED BY <1>1, <1>4, <1>5 DEF QueryIInv

\* Rows are numbers.
LEMMA RowsAre ==
  ASSUME NEW rows, rows \subseteq Row, NEW on \in Row
  PROVE  \A r \in rows : r \in Nat /\ on \in Nat /\ (r <= on <=> r < on \/ r = on)
BY QueryAssumption DEF Row

LEMMA GetRowInv ==
  ASSUME QueryIInv, NEW h \in Handles, GetRow(h)
  PROVE  QueryIInv' /\ Answered
<1>1. res[h] = "ROW" /\ UNCHANGED <<builder, query, loose, passed, copied>>
  BY DEF GetRow
<1>2. CASE UNCHANGED <<at, res, given, starts, faults>>
  <2>1. ValuesInv' /\ (~query.ready /\ ~hollow => BuilderInv')
    BY <1>1, SameBuilder DEF QueryIInv, ValuesInv, builder
  <2> QED BY <1>1, <1>2, <2>1, NothingRead DEF builder
<1>3. CASE at # 0 /\ given' = Append(given, at) /\ StepStatement(h, query)
  <2>1. at \in Row /\ given \in Seq(Row) /\ passed' \subseteq Row /\ query.rows \subseteq Row
    BY <1>1, <1>3 DEF QueryIInv, ReaderTypes, QueryInv
  <2>2. given' \in Seq(Row)
    BY <1>3, <2>1
  <2>3. kind = "select"
    BY <1>1 DEF QueryIInv, RunsInv
  <2>4. ASSUME ~loose
        PROVE  Split(given', passed', {r \in query.rows : r <= at})
    <3>1. /\ at \in query.rows /\ Sorted(given) /\ ToSet(given) = {r \in query.rows : r < at} \ passed
          /\ passed \subseteq {r \in query.rows : r < at}
      BY <1>3, <2>3, <2>4 DEF QueryIInv, ReadInv, Split
    <3>2. \A r \in query.rows : r \in Nat /\ at \in Nat /\ (r <= at <=> r < at \/ r = at)
      BY <2>1, RowsAre
    <3>3. \A i \in DOMAIN given : given[i] \in Nat /\ given[i] < at
      BY <3>1, <3>2 DEF ToSet
    <3>4. Sorted(given')
      <4>1. SUFFICES ASSUME NEW i \in DOMAIN given', NEW j \in DOMAIN given', i < j
                     PROVE  given'[i] < given'[j]
        BY DEF Sorted
      <4>2. i \in DOMAIN given /\ given'[i] = given[i]
        BY <1>3, <2>1, <4>1
      <4>3. CASE j \in DOMAIN given
        <5>1. given'[j] = given[j]
          BY <1>3, <2>1, <4>3
        <5> QED BY <3>1, <4>1, <4>2, <4>3, <5>1 DEF Sorted
      <4>4. CASE j \notin DOMAIN given
        <5>1. given'[j] = at
          BY <1>3, <2>1, <4>1, <4>4
        <5> QED BY <3>3, <4>2, <5>1
      <4> QED BY <4>3, <4>4
    <3>5. ToSet(given') = ToSet(given) \union {at}
      BY <1>3, <2>1 DEF ToSet
    <3> QED BY <1>1, <3>1, <3>2, <3>4, <3>5 DEF Split
  <2> QED BY <1>1, <1>3, <2>1, <2>2, <2>4, ReadOn
<1> QED BY <1>2, <1>3 DEF GetRow

LEMMA NextRowInv ==
  ASSUME QueryIInv, NEW h \in Handles, NextRow(h)
  PROVE  QueryIInv' /\ Answered
<1>1. /\ res[h] = "ROW" /\ UNCHANGED <<builder, query, loose, copied>> /\ StepStatement(h, query)
      /\ given' = (IF at = 0 THEN <<>> ELSE given)
      /\ passed' = (IF at = 0 THEN {} ELSE passed \union {at})
  BY DEF NextRow
<1>2. at \in Row \union {0} /\ given \in Seq(Row) /\ passed \subseteq Row /\ query.rows \subseteq Row
  BY DEF QueryIInv, ReaderTypes, QueryInv
<1>3. given' \in Seq(Row) /\ passed' \subseteq Row
  BY <1>1, <1>2
<1>4. kind = "select"
  BY <1>1 DEF QueryIInv, RunsInv
<1>5. ASSUME ~loose
      PROVE  Split(given', passed', {r \in query.rows : r <= at})
  <2>1. CASE at = 0
    <3>1. {r \in query.rows : r <= at} = {}
      BY <1>2, <2>1 DEF Row
    <3>2. given' = <<>> /\ passed' = {}
      BY <1>1, <2>1
    <3> QED BY <3>1, <3>2 DEF Split, Sorted, ToSet
  <2>2. CASE at # 0
    <3>1. /\ at \in query.rows /\ Sorted(given) /\ ToSet(given) = {r \in query.rows : r < at} \ passed
          /\ passed \subseteq {r \in query.rows : r < at}
      BY <1>4, <1>5, <2>2 DEF QueryIInv, ReadInv, Split
    <3>2. \A r \in query.rows : r \in Nat /\ at \in Nat /\ (r <= at <=> r < at \/ r = at)
      BY <1>2, <2>2, RowsAre
    <3>3. given' = given /\ passed' = passed \union {at}
      BY <1>1, <2>2
    <3> QED BY <3>1, <3>2, <3>3 DEF Split
  <2> QED BY <2>1, <2>2
<1> QED BY <1>1, <1>3, <1>5, ReadOn

LEMMA CopyInv ==
  ASSUME QueryIInv, NEW g \in Handles, NEW h \in Handles, Copy(g, h)
  PROVE  QueryIInv' /\ Answered
<1>1. /\ res[g] # "none" /\ res' = [res EXCEPT ![h] = res[g]] /\ copied' = TRUE
      /\ UNCHANGED <<builder, query, loose, at, given, passed, starts, faults>>
  BY DEF Copy
<1>2. ReaderTypes' /\ RunsInv' /\ ReadInv'
  BY <1>1 DEF QueryIInv, ReaderTypes, RunsInv, ReadInv, builder
<1>3. QueryInv' /\ ValuesInv'
  BY <1>1 DEF QueryIInv, QueryInv, QueryIsTheOneMeant, ValuesInv, builder
<1>4. ~query'.ready /\ ~hollow' => BuilderInv'
  BY <1>1, SameBuilder DEF QueryIInv, builder
<1>5. Answered
  BY <1>1 DEF Answered, ReadsToTheEnd
<1> QED BY <1>2, <1>3, <1>4, <1>5 DEF QueryIInv

LEMMA GoInv ==
  ASSUME QueryIInv, Go(FirstHandle)
  PROVE  QueryIInv' /\ Answered
<1>1. /\ ~query.ready /\ query'.ready = TRUE
      /\ UNCHANGED <<kind, sets, values, hollow, loose, given, passed, copied>>
  BY DEF Go
<1>2. /\ at = 0 /\ starts = 0 /\ given = <<>> /\ passed = {} /\ ~copied
      /\ \A h \in Handles : res[h] = "none"
      /\ res \in [Handles -> Codes] /\ faults \in Nat
  BY <1>1 DEF QueryIInv, RunsInv, ReaderTypes
<1>3. ValuesInv'
  BY <1>1 DEF QueryIInv, ValuesInv
<1>4. query'.rows \subseteq Row
  BY DEF Go, Selected
<1>5. ~hollow => QueryIsTheOneMeant' /\ query'.rows = query'.wanted
  BY <1>1, QueryGo DEF QueryIInv
<1>6. QueryInv'
  BY <1>1, <1>4, <1>5 DEF QueryInv
<1>7. CASE kind = "select" /\ StepStatement(FirstHandle, query')
  <2>1. Split(given', passed', {r \in query'.rows : r <= at})
    <3>1. {r \in query'.rows : r <= at} = {}
      BY <1>2, <1>4 DEF Row
    <3> QED BY <1>1, <1>2, <3>1 DEF Split, Sorted, ToSet
  <2>2. given' \in Seq(Row) /\ passed' \subseteq Row
    BY <1>1, <1>2
  <2> DEFINE q == query'
  <2>3. q.rows \subseteq Row /\ q.ready /\ q.ready \in BOOLEAN /\ StepStatement(FirstHandle, q)
        /\ query' = q /\ (~hollow' => q.rows = q.wanted)
        /\ Split(given', passed', {r \in q.rows : r <= at})
    BY <1>1, <1>4, <1>5, <1>7, <2>1
  <2> HIDE DEF q
  <2>4. ReaderTypes' /\ RunsInv' /\ ReadInv' /\ Answered
    BY <1>1, <1>2, <1>7, <2>2, <2>3, StepInv
  <2> QED BY <1>1, <1>3, <1>6, <2>4 DEF QueryIInv
<1>8. CASE /\ UNCHANGED at /\ starts' \in {0, 1} /\ (kind = "select" => starts' = starts)
           /\ faults' \in Nat
           /\ \E c \in {"DONE", "ERROR"} : res' = [res EXCEPT ![FirstHandle] = c]
  <2>1. ReaderTypes'
    <3>1. res' \in [Handles -> Codes]
      <4>1. PICK c \in {"DONE", "ERROR"} : res' = [res EXCEPT ![FirstHandle] = c]
        BY <1>8
      <4>2. c \in Codes
        BY DEF Codes
      <4> QED BY <1>2, <4>1, <4>2
    <3>2. given' \in Seq(Row) /\ passed' \subseteq Row
      BY <1>1, <1>2
    <3>3. at' = 0 /\ starts' \in {0, 1} /\ faults' \in Nat
      BY <1>2, <1>8
    <3>4. at' \in Row \union {0} /\ starts' \in Nat
      BY <3>3
    <3>5. query'.ready \in BOOLEAN
      BY <1>1
    <3> QED BY <3>1, <3>2, <3>3, <3>4, <3>5 DEF ReaderTypes
  <2>2. RunsInv'
    <3>1. \A h \in Handles : res'[h] # "ROW" /\ (res'[h] # "none" => h = FirstHandle)
      BY <1>2, <1>8
    <3> QED BY <1>1, <1>2, <1>8, <3>1 DEF RunsInv
  <2>3. ReadInv' /\ Answered
    BY <1>1, <1>2, <1>8 DEF ReadInv, Answered, ReadsToTheEnd
  <2> QED BY <1>1, <1>3, <1>6, <2>1, <2>2, <2>3 DEF QueryIInv
<1>9. \/ kind = "select" /\ StepStatement(FirstHandle, query')
      \/ /\ UNCHANGED at /\ starts' \in {0, 1} /\ (kind = "select" => starts' = starts)
         /\ faults' \in Nat
         /\ \E c \in {"DONE", "ERROR"} : res' = [res EXCEPT ![FirstHandle] = c]
  BY <1>2 DEF Go
<1> QED BY <1>7, <1>8, <1>9

\* All steps together.
LEMMA QueryStep ==
  ASSUME QueryIInv, QueryNext PROVE QueryIInv' /\ Answered
BY CompareInv, JoinInv, GroupBeginInv, GroupEndInv, GoInv, GetRowInv, NextRowInv, CopyInv
   DEF QueryNext, FirstHandle

LEMMA QueryStutter ==
  ASSUME QueryIInv, UNCHANGED queryVars PROVE QueryIInv' /\ Answered
<1>1. UNCHANGED builder /\ UNCHANGED query /\ UNCHANGED loose /\ UNCHANGED reader
  BY DEF queryVars, builder, reader
<1>2. ValuesInv' /\ (~query.ready /\ ~hollow => BuilderInv')
  BY <1>1, SameBuilder DEF QueryIInv, ValuesInv, builder
<1> QED BY <1>1, <1>2, NothingRead DEF builder, reader

\* The invariant that the three properties below follow from: the lists, the text
\* and the values that the calls of the builder (db_where_t.hpp) leave fit together
\* until go() writes them out, and after that the results (db_common.cpp) have
\* read the rows up to the one the statement is on.
THEOREM QueryInductive == QuerySpec => []QueryIInv
<1>1. QueryInit => QueryIInv
  BY QueryInitInv
<1>2. QueryIInv /\ [QueryNext]_queryVars => QueryIInv'
  BY QueryStep, QueryStutter
<1> QED BY <1>1, <1>2, PTL DEF QuerySpec

\* For any number of calls, any nesting of groups and any values: go() prepares and
\* binds the condition the caller built, each comparison with its own value
\* (dump() in db_where_t.hpp numbers, db_select.cpp, db_update.cpp and db_delete.cpp
\* bind), and accepts it when it is well formed.
THEOREM OnlyWhatWasMeant == QuerySpec => []QueryIsTheOneMeant
<1>1. QueryIInv => QueryIsTheOneMeant
  BY DEF QueryIInv, QueryInv, QueryIsTheOneMeant
<1> QED BY <1>1, QueryInductive, PTL

\* For any number of copies, steps and failures: has_row() keeps next_row() from
\* stepping a statement that is done (db_common.cpp), so one that changes rows is
\* never started a second time.
THEOREM StatementsRunOnce == QuerySpec => []RunsOnce
<1>1. QueryIInv => RunsOnce
  BY DEF QueryIInv, RunsInv, RunsOnce
<1> QED BY <1>1, QueryInductive, PTL

\* For any table and any order of get_row() and next_row() (db_common.cpp) on any
\* number of copies of a result: when one of them comes to the end, the copies
\* together have handed out the rows that meet the condition as the caller built it,
\* once and in order, less those they left, since the statement was last started.
THEOREM ReadersGetTheAnswer == QuerySpec => AnswersTheQuestion
<1>1. QueryIInv /\ [QueryNext]_queryVars => Answered
  BY QueryStep, QueryStutter
<1>2. Answered => (kind = "select" /\ ReadsToTheEnd /\ ~hollow' /\ ~loose' =>
                     /\ \A i, j \in DOMAIN given' : i < j => given'[i] < given'[j]
                     /\ ToSet(given') = query'.wanted \ passed'
                     /\ passed' \subseteq query'.wanted)
  BY DEF Answered, Split, Sorted
<1> QED BY <1>1, <1>2, QueryInductive, PTL DEF AnswersTheQuestion, QuerySpec
==============================================================================
