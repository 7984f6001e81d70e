-------------------------- MODULE ThreadFileProofs --------------------------
(***************************************************************************)
(* Proofs about ThreadFile, for any set of callers and any number of       *)
(* calls: its inductive invariant IInv and the safety properties that      *)
(* follow.  One lemma per part of IInv says that every step of Next keeps  *)
(* it; each has one step per action.                                       *)
(***************************************************************************)
EXTENDS ThreadFile, TLAPS, SequenceTheorems

-----------------------------------------------------------------------------
(* The inductive invariant behind the safety properties.                   *)

InCall(c) ==
  pc[c] \in {"entered", "admitted", "waiting", "locking", "asleep"}

\* An item whose caller has not queued it yet is untouched.
CallInv ==
  /\ \A c \in Callers : InCall(c) => calls[c] >= 1
  /\ ~destroying => \A c \in Callers : calls[c] <= MaxCalls
  /\ \A i \in Items : complete[i] => i[2] <= calls[i[1]]
  /\ \A c \in Callers :
       pc[c] \in {"entered", "admitted"} => ~complete[Item(c)]

\* Once the I/O thread drains, nobody can be about to push.
LoopInv ==
  /\ ioPc = "drain" => stop
  /\ draining => stop /\ actions = <<>>
  /\ draining => ioPc \in {"running", "ran", "publish", "exited"}
  /\ ioPc = "exited" => draining
  /\ ioPc = "absent" => actions = <<>>
  /\ ioPc \notin {"running", "ran", "publish"} => batch = <<>>
  /\ \A c \in Callers : pc[c] = "admitted" => ~draining /\ ioPc # "absent"

\* No item is queued twice.
DistinctInv ==
  /\ \A j, k \in 1 .. Len(actions) : actions[j] = actions[k] => j = k
  /\ \A j, k \in 1 .. Len(batch) : batch[j] = batch[k] => j = k
  /\ \A j \in 1 .. Len(actions), k \in 1 .. Len(batch) : actions[j] # batch[k]
  /\ ioPc = "ran" => ~InQueue(cur) /\ ~InBatch(cur)

\* `success` is written after `complete`; a call hands on a success after it is
\* complete.
ResultInv ==
  /\ ioPc = "publish" => complete[cur]
  /\ \A i \in Items : success[i] => complete[i] /\ outcome[i]
  /\ \A i \in Items : ret[i] = "true" => complete[i] /\ outcome[i]

\* A close() that is run stops the object before anyone can know of it.
CloseInv ==
  /\ ioPc = "ran" /\ op[cur] = "close" => stop
  /\ \A i \in Items : op[i] = "close" /\ (complete[i] \/ ret[i] # "none") => stop
  /\ \A i \in Items : ret[i] # "none" => i[2] <= calls[i[1]]

\* A call that comes after it is stopped by do_io's test.
LateInv ==
  /\ \A i \in late : stop /\ i[2] <= calls[i[1]]
  /\ \A c \in Callers :
       pc[c] \in {"admitted", "waiting", "locking", "asleep"} => Item(c) \notin late
  /\ \A k \in 1 .. Len(ran) : ran[k][2] <= calls[ran[k][1]]

IInv ==
  /\ TypeOK
  /\ CallInv
  /\ LoopInv
  /\ DistinctInv
  /\ CapturesAlive
  /\ NobodyStranded
  /\ ResultInv
  /\ CloseInv
  /\ LateInv
  /\ ClosedForGood
  /\ InOrderExactlyOnce

-----------------------------------------------------------------------------
(* Sequences and items.                                                    *)

\* The empty sequence is a sequence over any set.
LEMMA EmptyIsSeq == \A S : <<>> \in Seq(S)
  OBVIOUS

\* What the head and the tail of a sequence that is not empty are.
LEMMA HeadTail ==
  ASSUME NEW S, NEW s \in Seq(S), s # <<>>
  PROVE  /\ Head(s) \in S /\ Tail(s) \in Seq(S)
         /\ Len(s) >= 1 /\ Head(s) = s[1]
         /\ Len(Tail(s)) = Len(s) - 1
         /\ \A k \in 1 .. Len(Tail(s)) : Tail(s)[k] = s[k + 1]
  OBVIOUS

\* The members of a sequence are its head and the members of its tail.
LEMMA HeadTailMembers ==
  ASSUME NEW S, NEW s \in Seq(S), s # <<>>, NEW x
  PROVE  (\E k \in 1 .. Len(s) : s[k] = x) <=>
           x = Head(s) \/ (\E k \in 1 .. Len(Tail(s)) : Tail(s)[k] = x)
<1>1. /\ Len(s) \in Nat /\ Len(s) >= 1 /\ Head(s) = s[1]
      /\ Len(Tail(s)) = Len(s) - 1
      /\ \A k \in 1 .. Len(Tail(s)) : Tail(s)[k] = s[k + 1]
  BY HeadTail
<1>2. ASSUME NEW k \in 1 .. Len(s), s[k] = x, x # Head(s)
      PROVE  \E j \in 1 .. Len(Tail(s)) : Tail(s)[j] = x
  <2>1. k - 1 \in 1 .. Len(Tail(s)) /\ Tail(s)[k - 1] = s[k]
    BY <1>1, <1>2
  <2> QED
    BY <1>2, <2>1
<1>3. ASSUME NEW k \in 1 .. Len(Tail(s)), Tail(s)[k] = x
      PROVE  \E j \in 1 .. Len(s) : s[j] = x
  <2>1. k + 1 \in 1 .. Len(s) /\ s[k + 1] = x
    BY <1>1, <1>3
  <2> QED
    BY <2>1
<1> QED
  BY <1>1, <1>2, <1>3

\* Appending adds one member.
LEMMA AppendMembers ==
  ASSUME NEW S, NEW s \in Seq(S), NEW e \in S, NEW x
  PROVE  (\E k \in 1 .. Len(Append(s, e)) : Append(s, e)[k] = x) <=>
           x = e \/ (\E k \in 1 .. Len(s) : s[k] = x)
<1>1. /\ Len(s) \in Nat /\ Len(Append(s, e)) = Len(s) + 1
      /\ Append(s, e)[Len(s) + 1] = e
      /\ \A k \in 1 .. Len(s) : Append(s, e)[k] = s[k]
  OBVIOUS
<1>2. \A k \in 1 .. Len(s) + 1 : k = Len(s) + 1 \/ k \in 1 .. Len(s)
  BY <1>1
<1>3. Len(s) + 1 \in 1 .. Len(s) + 1 /\ 1 .. Len(s) \subseteq 1 .. Len(s) + 1
  BY <1>1
<1> QED
  BY <1>1, <1>2, <1>3

\* run_actions going on to its next item: what was in the batch is in its rest
\* or is the current item.
LEMMA RunHead ==
  ASSUME batch \in Seq(Items), batch # <<>>, NEW i,
         batch' = Tail(batch), cur' = Head(batch)
  PROVE  InBatch(i) <=> InBatch(i)' \/ cur' = i
  BY HeadTailMembers DEF InBatch

\* A push puts one more item in the queue and keeps the others.
LEMMA PushTail ==
  ASSUME actions \in Seq(Items), NEW e \in Items, NEW i,
         actions' = Append(actions, e)
  PROVE  InQueue(i)' <=> InQueue(i) \/ i = e
  BY AppendMembers DEF InQueue

\* A sequence is its head followed by its tail.
LEMMA HeadThenTail ==
  ASSUME NEW S, NEW s \in Seq(S), s # <<>>
  PROVE  s = <<Head(s)>> \o Tail(s)
<1>1. /\ Head(s) \in S /\ Tail(s) \in Seq(S) /\ Len(s) \in Nat /\ Len(s) >= 1
      /\ Head(s) = s[1] /\ Len(Tail(s)) = Len(s) - 1
      /\ \A k \in 1 .. Len(Tail(s)) : Tail(s)[k] = s[k + 1]
  BY HeadTail
<1> DEFINE t == <<Head(s)>> \o Tail(s)
<1>2. <<Head(s)>> \in Seq(S) /\ Len(<<Head(s)>>) = 1 /\ <<Head(s)>>[1] = s[1]
  BY <1>1
<1>3. /\ t \in Seq(S) /\ Len(t) = Len(s)
      /\ \A k \in 1 .. Len(s) :
           t[k] = IF k <= 1 THEN <<Head(s)>>[k] ELSE Tail(s)[k - 1]
  BY <1>1, <1>2, ConcatProperties
<1>4. ASSUME NEW k \in 1 .. Len(s)
      PROVE  s[k] = t[k]
  <2>1. CASE k = 1
    BY <1>1, <1>2, <1>3, <2>1
  <2>2. CASE k > 1
    <3>1. k - 1 \in 1 .. Len(Tail(s)) /\ (k - 1) + 1 = k
      BY <1>1, <2>2
    <3>2. Tail(s)[k - 1] = s[k]
      BY <1>1, <3>1
    <3> QED
      BY <1>3, <2>2, <3>2
  <2> QED
    BY <1>1, <2>1, <2>2
<1> HIDE DEF t
<1>5. s = t
  BY <1>3, <1>4, SeqEqual
<1> QED
  BY <1>5 DEF t

\* Queueing one more item at the end of a conserved history.
LEMMA ConservePush ==
  ASSUME ran \in Seq(Items), batch \in Seq(Items), actions \in Seq(Items),
         NEW e \in Items
  PROVE  Append(ran \o batch \o actions, e) = ran \o batch \o Append(actions, e)
<1>1. /\ ran \o batch \in Seq(Items) /\ (ran \o batch) \o actions \in Seq(Items)
      /\ <<e>> \in Seq(Items)
  BY ConcatProperties
<1>2. Append((ran \o batch) \o actions, e) = ((ran \o batch) \o actions) \o <<e>>
  BY <1>1, AppendIsConcat
<1>3. ((ran \o batch) \o actions) \o <<e>> = (ran \o batch) \o (actions \o <<e>>)
  BY <1>1, ConcatAssociative
<1>4. actions \o <<e>> = Append(actions, e)
  BY AppendIsConcat
<1> QED
  BY <1>2, <1>3, <1>4

\* Running the first item of the batch.
LEMMA ConserveRun ==
  ASSUME NEW S, NEW r \in Seq(S), NEW b \in Seq(S), NEW a \in Seq(S), b # <<>>
  PROVE  r \o b \o a = Append(r, Head(b)) \o Tail(b) \o a
<1>1. Head(b) \in S /\ Tail(b) \in Seq(S) /\ b = <<Head(b)>> \o Tail(b)
  BY HeadTail, HeadThenTail
<1>2. <<Head(b)>> \in Seq(S) /\ Append(r, Head(b)) = r \o <<Head(b)>>
  BY <1>1, AppendIsConcat
<1>3. (r \o <<Head(b)>>) \o Tail(b) = r \o (<<Head(b)>> \o Tail(b))
  BY <1>1, <1>2, ConcatAssociative
<1> QED
  BY <1>1, <1>2, <1>3

\* A call of a caller, the destructor's close() included, is an item.
LEMMA ItemsOfCallers ==
  ASSUME NEW c \in Callers, NEW n \in 1 .. MaxCalls + 1
  PROVE  <<c, n>> \in Items
  BY DEF Items

\* An item is a caller and the number of one of its calls.
LEMMA ItemParts ==
  ASSUME NEW i \in Items
  PROVE  /\ i[1] \in Callers /\ i[2] \in Nat /\ i[2] >= 1
         /\ i = <<i[1], i[2]>>
  BY CallersAssumption DEF Items

\* The io_item of a caller that is inside do_io is an item.
LEMMA ItemOfCall ==
  ASSUME TypeOK, CallInv, NEW c \in Callers, InCall(c)
  PROVE  Item(c) \in Items
  BY CallersAssumption, ItemsOfCallers DEF TypeOK, CallInv, Item

\* Every step of a caller or of the I/O thread keeps the types.
LEMMA TypeStep ==
  TypeOK /\ CallInv /\ [Next]_vars => TypeOK'
<1> SUFFICES ASSUME TypeOK, CallInv, [Next]_vars
             PROVE  TypeOK'
  OBVIOUS
<1> USE CallersAssumption DEF TypeOK, CallInv, Ops, CallerStates, IoStates,
    Bool, callerVars, ioVars
<1>1. ASSUME NEW c \in Callers, NEW o \in Ops, Call(c, o)
      PROVE  TypeOK'
  <2>1. calls[c] + 1 \in 1 .. MaxCalls + 1
    BY <1>1 DEF Call
  <2>2. <<c, calls[c] + 1>> \in Items
    BY <2>1, ItemsOfCallers
  <2>3. calls' \in [Callers -> 0 .. MaxCalls + 1]
    BY <1>1, <2>1 DEF Call, BeginCall
  <2>4. op' \in [Items -> Ops]
    BY <1>1, <2>2 DEF Call, BeginCall
  <2>5. late' \in SUBSET Items
    BY <1>1, <2>2 DEF Call, BeginCall
  <2> QED
    BY <1>1, <2>3, <2>4, <2>5 DEF Call, BeginCall
<1>2. ASSUME NEW c \in Callers, Reject(c)
      PROVE  TypeOK'
  BY <1>2 DEF Reject, Return
<1>3. ASSUME NEW c \in Callers, Admit(c)
      PROVE  TypeOK'
  BY <1>3 DEF Admit, StartAndKeepLock
<1>4. ASSUME NEW c \in Callers, Push(c)
      PROVE  TypeOK'
  <2>1. Item(c) \in Items
    BY <1>4, ItemOfCall DEF Push, InCall
  <2> QED
    BY <1>4, <2>1 DEF Push
<1>5. ASSUME NEW c \in Callers, PeekComplete(c)
      PROVE  TypeOK'
  BY <1>5 DEF PeekComplete, Return
<1>6. ASSUME NEW c \in Callers, PeekPending(c)
      PROVE  TypeOK'
  BY <1>6 DEF PeekPending
<1>7. ASSUME NEW c \in Callers, WaitComplete(c)
      PROVE  TypeOK'
  BY <1>7 DEF WaitComplete, ReturnFromWait, Return
<1>8. ASSUME NEW c \in Callers, WaitSleep(c)
      PROVE  TypeOK'
  BY <1>8 DEF WaitSleep
<1>9. ASSUME NEW c \in Callers, SpuriousWake(c)
      PROVE  TypeOK'
  BY <1>9 DEF SpuriousWake
<1>10. CASE IoCheck
  BY <1>10 DEF IoCheck
<1>12. CASE IoSleep
  BY <1>12 DEF IoSleep
<1>13. CASE IoTake
  BY <1>13 DEF IoTake, TakeQueue
<1>14. CASE IoDrain
  BY <1>14 DEF IoDrain, TakeQueue
<1>15. CASE IoRun
  <2>1. Head(batch) \in Items /\ Tail(batch) \in Seq(Items)
    BY <1>15, HeadTail DEF IoRun
  <2>2. ran' \in Seq(Items)
    BY <1>15, <2>1 DEF IoRun
  <2> QED
    BY <1>15, <2>1, <2>2 DEF IoRun, Perform, CloseAction
<1>16. CASE IoComplete
  BY <1>16 DEF IoComplete
<1>17. CASE IoPublish
  BY <1>17 DEF IoPublish, WakeWaiters, Published
<1>18. CASE IoBatchDone
  BY <1>18 DEF IoBatchDone
<1>19. CASE IoSpuriousWake
  BY <1>19 DEF IoSpuriousWake
<1>20. CASE Destroy
  <2>1. calls[Owner] + 1 \in 1 .. MaxCalls + 1
    BY <1>20 DEF Destroy
  <2>2. <<Owner, calls[Owner] + 1>> \in Items
    BY <2>1, ItemsOfCallers
  <2>3. calls' \in [Callers -> 0 .. MaxCalls + 1]
    BY <1>20, <2>1 DEF Destroy, BeginCall
  <2>4. op' \in [Items -> Ops]
    BY <1>20, <2>2 DEF Destroy, BeginCall
  <2>5. late' \in SUBSET Items
    BY <1>20, <2>2 DEF Destroy, BeginCall
  <2> QED
    BY <1>20, <2>3, <2>4, <2>5 DEF Destroy, BeginCall
<1>21. CASE Join
  BY <1>21 DEF Join
<1>22. CASE UNCHANGED vars
  BY <1>22 DEF vars
<1> QED
  BY <1>1, <1>2, <1>3, <1>4, <1>5, <1>6, <1>7, <1>8, <1>9, <1>10, 
     <1>12, <1>13, <1>14, <1>15, <1>16, <1>17, <1>18, <1>19, <1>20, <1>21,
     <1>22 DEF Next, CallerStep, IoStep, Gone

\* CallInv is kept: an io_item is untouched until its caller has pushed it.
LEMMA CallStep ==
  TypeOK /\ CallInv /\ LoopInv /\ CapturesAlive /\ [Next]_vars => CallInv'
<1> SUFFICES ASSUME TypeOK, CallInv, LoopInv, CapturesAlive, [Next]_vars
             PROVE  CallInv'
  OBVIOUS
<1>t. /\ pc \in [Callers -> CallerStates] /\ calls \in [Callers -> 0 .. MaxCalls + 1]
      /\ complete \in [Items -> BOOLEAN] /\ cur \in Items
  BY DEF TypeOK
<1> USE <1>t, CallersAssumption, ItemParts DEF CallInv, InCall, Item,
    callerVars, ioVars
<1>1. ASSUME NEW c \in Callers, NEW o \in Ops, Call(c, o)
      PROVE  CallInv'
  <2>1. /\ calls' = [calls EXCEPT ![c] = calls[c] + 1]
        /\ pc' = [pc EXCEPT ![c] = "entered"]
        /\ complete' = complete /\ pc[c] = "idle" /\ c \in Callers
    BY <1>1 DEF Call, BeginCall
  <2>2. \A d \in Callers : calls[d] \in Nat /\ calls'[d] \in Nat
                            /\ calls'[d] >= calls[d]
    BY <2>1
  <2>3. \A i \in Items : complete'[i] => i[2] <= calls'[i[1]]
    BY <2>1, <2>2
  <2>4. ~complete[<<c, calls[c] + 1>>] \/ <<c, calls[c] + 1>> \notin Items
    BY <2>1, <2>2
  <2>5. calls[c] + 1 \in 1 .. MaxCalls + 1
    BY <1>1 DEF Call
  <2>6. \A d \in Callers :
          pc'[d] \in {"entered", "admitted"} => ~complete'[<<d, calls'[d]>>]
    BY <2>1, <2>4, <2>5, ItemsOfCallers
  <2>7. \A d \in Callers : InCall(d)' => calls'[d] >= 1
    BY <2>1, <2>2
  <2>8. ~destroying' => \A d \in Callers : calls'[d] <= MaxCalls
    BY <1>1, <2>1 DEF Call
  <2> QED
    BY <2>3, <2>6, <2>7, <2>8
<1>2. ASSUME NEW c \in Callers, Reject(c)
      PROVE  CallInv'
  BY <1>2 DEF Reject, Return
<1>3. ASSUME NEW c \in Callers, Admit(c)
      PROVE  CallInv'
  BY <1>3 DEF Admit, StartAndKeepLock
<1>4. ASSUME NEW c \in Callers, Push(c)
      PROVE  CallInv'
  BY <1>4 DEF Push
<1>5. ASSUME NEW c \in Callers, PeekComplete(c)
      PROVE  CallInv'
  BY <1>5 DEF PeekComplete, Return
<1>6. ASSUME NEW c \in Callers, PeekPending(c)
      PROVE  CallInv'
  BY <1>6 DEF PeekPending
<1>7. ASSUME NEW c \in Callers, WaitComplete(c)
      PROVE  CallInv'
  BY <1>7 DEF WaitComplete, ReturnFromWait, Return
<1>8. ASSUME NEW c \in Callers, WaitSleep(c)
      PROVE  CallInv'
  BY <1>8 DEF WaitSleep
<1>9. ASSUME NEW c \in Callers, SpuriousWake(c)
      PROVE  CallInv'
  BY <1>9 DEF SpuriousWake
<1>10. CASE IoCheck
  BY <1>10 DEF IoCheck
<1>12. CASE IoSleep
  BY <1>12 DEF IoSleep
<1>13. CASE IoTake
  BY <1>13 DEF IoTake, TakeQueue
<1>14. CASE IoDrain
  BY <1>14 DEF IoDrain, TakeQueue
<1>15. CASE IoRun
  BY <1>15 DEF IoRun, Perform, CloseAction
<1>16. CASE IoComplete
  <2>1. /\ Waiting(cur[1], cur) /\ ~complete[cur]
    BY <1>16 DEF IoComplete, CapturesAlive
  <2>2. \A i \in Items : complete'[i] => complete[i] \/ i = cur
    BY <1>16 DEF IoComplete
  <2>3. /\ cur[2] <= calls[cur[1]]
        /\ \A c \in Callers : pc[c] \in {"entered", "admitted"} => Item(c) # cur
    BY <2>1 DEF Waiting
  <2>4. \A c \in Callers : pc[c] \in {"entered", "admitted"} => Item(c) \in Items
    BY ItemOfCall
  <2>5. pc' = pc /\ calls' = calls /\ destroying' = destroying
    BY <1>16 DEF IoComplete
  <2> QED
    BY <2>2, <2>3, <2>4, <2>5
<1>17. CASE IoPublish
  BY <1>17 DEF IoPublish, WakeWaiters, Published
<1>18. CASE IoBatchDone
  BY <1>18 DEF IoBatchDone
<1>19. CASE IoSpuriousWake
  BY <1>19 DEF IoSpuriousWake
<1>20. CASE Destroy
  <2>1. /\ calls' = [calls EXCEPT ![Owner] = calls[Owner] + 1]
        /\ pc' = [pc EXCEPT ![Owner] = "entered"]
        /\ complete' = complete /\ pc[Owner] = "idle" /\ Owner \in Callers
    BY <1>20 DEF Destroy, BeginCall
  <2>2. \A d \in Callers : calls[d] \in Nat /\ calls'[d] \in Nat
                            /\ calls'[d] >= calls[d]
    BY <2>1
  <2>3. \A i \in Items : complete'[i] => i[2] <= calls'[i[1]]
    BY <2>1, <2>2
  <2>4. ~complete[<<Owner, calls[Owner] + 1>>] \/ <<Owner, calls[Owner] + 1>> \notin Items
    BY <2>1, <2>2
  <2>5. calls[Owner] + 1 \in 1 .. MaxCalls + 1
    BY <1>20 DEF Destroy
  <2>6. \A d \in Callers :
          pc'[d] \in {"entered", "admitted"} => ~complete'[<<d, calls'[d]>>]
    BY <2>1, <2>4, <2>5, ItemsOfCallers
  <2>7. \A d \in Callers : InCall(d)' => calls'[d] >= 1
    BY <2>1, <2>2
  <2>8. ~destroying' => \A d \in Callers : calls'[d] <= MaxCalls
    BY <1>20, <2>1 DEF Destroy
  <2> QED
    BY <2>3, <2>6, <2>7, <2>8
<1>21. CASE Join
  BY <1>21 DEF Join
<1>22. CASE UNCHANGED vars
  BY <1>22 DEF vars
<1> QED
  BY <1>1, <1>2, <1>3, <1>4, <1>5, <1>6, <1>7, <1>8, <1>9, <1>10, 
     <1>12, <1>13, <1>14, <1>15, <1>16, <1>17, <1>18, <1>19, <1>20, <1>21,
     <1>22 DEF Next, CallerStep, IoStep, Gone

\* LoopInv is kept: when the I/O thread drains the queue for the last time,
\* stop_requested_ is set and nobody is between its test in do_io and the push.
LEMMA LoopStep ==
  TypeOK /\ LoopInv /\ [Next]_vars => LoopInv'
<1> SUFFICES ASSUME TypeOK, LoopInv, [Next]_vars
             PROVE  LoopInv'
  OBVIOUS
<1>t. /\ pc \in [Callers -> CallerStates] /\ actions \in Seq(Items)
      /\ batch \in Seq(Items)
  BY DEF TypeOK
<1> USE <1>t, CallersAssumption DEF LoopInv, MtxFree, callerVars, ioVars
<1>1. ASSUME NEW c \in Callers, NEW o \in Ops, Call(c, o)
      PROVE  LoopInv'
  BY <1>1 DEF Call, BeginCall
<1>2. ASSUME NEW c \in Callers, Reject(c)
      PROVE  LoopInv'
  BY <1>2 DEF Reject, Return
<1>3. ASSUME NEW c \in Callers, Admit(c)
      PROVE  LoopInv'
  BY <1>3 DEF Admit, StartAndKeepLock
<1>4. ASSUME NEW c \in Callers, Push(c)
      PROVE  LoopInv'
  BY <1>4 DEF Push
<1>5. ASSUME NEW c \in Callers, PeekComplete(c)
      PROVE  LoopInv'
  BY <1>5 DEF PeekComplete, Return
<1>6. ASSUME NEW c \in Callers, PeekPending(c)
      PROVE  LoopInv'
  BY <1>6 DEF PeekPending
<1>7. ASSUME NEW c \in Callers, WaitComplete(c)
      PROVE  LoopInv'
  BY <1>7 DEF WaitComplete, ReturnFromWait, Return
<1>8. ASSUME NEW c \in Callers, WaitSleep(c)
      PROVE  LoopInv'
  BY <1>8 DEF WaitSleep
<1>9. ASSUME NEW c \in Callers, SpuriousWake(c)
      PROVE  LoopInv'
  BY <1>9 DEF SpuriousWake
<1>10. CASE IoCheck
  BY <1>10 DEF IoCheck
<1>12. CASE IoSleep
  BY <1>12 DEF IoSleep
<1>13. CASE IoTake
  BY <1>13 DEF IoTake, TakeQueue
<1>14. CASE IoDrain
  BY <1>14 DEF IoDrain, TakeQueue
<1>15. CASE IoRun
  <2>1. stop => stop'
    BY <1>15 DEF IoRun, Perform, CloseAction
  <2> QED
    BY <1>15, <2>1 DEF IoRun
<1>16. CASE IoComplete
  BY <1>16 DEF IoComplete
<1>17. CASE IoPublish
  BY <1>17 DEF IoPublish, WakeWaiters, Published
<1>18. CASE IoBatchDone
  BY <1>18 DEF IoBatchDone
<1>19. CASE IoSpuriousWake
  BY <1>19 DEF IoSpuriousWake
<1>20. CASE Destroy
  BY <1>20 DEF Destroy, BeginCall
<1>21. CASE Join
  BY <1>21 DEF Join
<1>22. CASE UNCHANGED vars
  BY <1>22 DEF vars
<1> QED
  BY <1>1, <1>2, <1>3, <1>4, <1>5, <1>6, <1>7, <1>8, <1>9, <1>10, 
     <1>12, <1>13, <1>14, <1>15, <1>16, <1>17, <1>18, <1>19, <1>20, <1>21,
     <1>22 DEF Next, CallerStep, IoStep, Gone

\* CapturesAlive is kept: an item that is queued, in the batch or just run has
\* its caller in wait(), where the captured locals live.
LEMMA CaptureStep ==
  TypeOK /\ CallInv /\ LoopInv /\ DistinctInv /\ CapturesAlive /\ [Next]_vars => CapturesAlive'
<1> SUFFICES ASSUME TypeOK, CallInv, LoopInv, DistinctInv, CapturesAlive,
                    [Next]_vars, NEW i \in Items,
                    (InQueue(i) \/ InBatch(i) \/ (ioPc = "ran" /\ cur = i))'
             PROVE  (Waiting(i[1], i) /\ ~complete[i])'
  BY DEF CapturesAlive
<1>t. /\ pc \in [Callers -> CallerStates] /\ calls \in [Callers -> 0 .. MaxCalls + 1]
      /\ complete \in [Items -> BOOLEAN] /\ actions \in Seq(Items)
      /\ batch \in Seq(Items) /\ cur \in Items
  BY DEF TypeOK
<1> USE <1>t, CallersAssumption, ItemParts DEF CapturesAlive, InQueue,
    InBatch, Waiting, Item, callerVars, ioVars
<1>1. ASSUME NEW c \in Callers, NEW o \in Ops, Call(c, o)
      PROVE  (Waiting(i[1], i) /\ ~complete[i])'
  BY <1>1 DEF Call, BeginCall
<1>2. ASSUME NEW c \in Callers, Reject(c)
      PROVE  (Waiting(i[1], i) /\ ~complete[i])'
  BY <1>2 DEF Reject, Return
<1>3. ASSUME NEW c \in Callers, Admit(c)
      PROVE  (Waiting(i[1], i) /\ ~complete[i])'
  BY <1>3 DEF Admit, StartAndKeepLock
<1>4. ASSUME NEW c \in Callers, Push(c)
      PROVE  (Waiting(i[1], i) /\ ~complete[i])'
  <2>1. Item(c) \in Items
    BY <1>4, ItemOfCall DEF Push, InCall
  <2>2. InQueue(i)' => InQueue(i) \/ i = Item(c)
    BY <1>4, <2>1, PushTail DEF Push
  <2>3. CASE i = Item(c)
    BY <1>4, <2>1, <2>3 DEF Push, CallInv
  <2>4. CASE i # Item(c)
    <3>1. InQueue(i) \/ InBatch(i) \/ (ioPc = "ran" /\ cur = i)
      BY <1>4, <2>2, <2>4 DEF Push
    <3>2. Waiting(i[1], i) /\ ~complete[i]
      BY <3>1
    <3>3. i[1] # c
      BY <1>4, <3>2 DEF Push
    <3> QED
      BY <1>4, <3>2, <3>3 DEF Push
  <2> QED
    BY <2>3, <2>4
<1>5. ASSUME NEW c \in Callers, PeekComplete(c)
      PROVE  (Waiting(i[1], i) /\ ~complete[i])'
  <2>1. InQueue(i) \/ InBatch(i) \/ (ioPc = "ran" /\ cur = i)
    BY <1>5 DEF PeekComplete
  <2>2. Waiting(i[1], i) /\ ~complete[i]
    BY <2>1
  <2>a. complete[Item(c)]
    BY <1>5 DEF PeekComplete
  <2>b. ~complete[Item(i[1])]
    BY <2>2
  <2>3. i[1] # c
    <3> HIDE DEF Item
    <3> QED
      BY <2>a, <2>b
  <2> QED
    BY <1>5, <2>2, <2>3 DEF PeekComplete, Return
<1>6. ASSUME NEW c \in Callers, PeekPending(c)
      PROVE  (Waiting(i[1], i) /\ ~complete[i])'
  BY <1>6 DEF PeekPending
<1>7. ASSUME NEW c \in Callers, WaitComplete(c)
      PROVE  (Waiting(i[1], i) /\ ~complete[i])'
  <2>1. InQueue(i) \/ InBatch(i) \/ (ioPc = "ran" /\ cur = i)
    BY <1>7 DEF WaitComplete, ReturnFromWait
  <2>2. Waiting(i[1], i) /\ ~complete[i]
    BY <2>1
  <2>a. complete[Item(c)]
    BY <1>7 DEF WaitComplete
  <2>b. ~complete[Item(i[1])]
    BY <2>2
  <2>3. i[1] # c
    <3> HIDE DEF Item
    <3> QED
      BY <2>a, <2>b
  <2> QED
    BY <1>7, <2>2, <2>3 DEF WaitComplete, ReturnFromWait, Return
<1>8. ASSUME NEW c \in Callers, WaitSleep(c)
      PROVE  (Waiting(i[1], i) /\ ~complete[i])'
  BY <1>8 DEF WaitSleep
<1>9. ASSUME NEW c \in Callers, SpuriousWake(c)
      PROVE  (Waiting(i[1], i) /\ ~complete[i])'
  BY <1>9 DEF SpuriousWake
<1>10. CASE IoCheck
  BY <1>10 DEF IoCheck
<1>12. CASE IoSleep
  BY <1>12 DEF IoSleep
<1>13. CASE IoTake
  BY <1>13 DEF IoTake, TakeQueue
<1>14. CASE IoDrain
  <2>1. Len(actions') = 0
    BY <1>14 DEF IoDrain, TakeQueue
  <2>2. InQueue(i)
    BY <1>14, <2>1 DEF IoDrain, TakeQueue
  <2> QED
    BY <1>14, <2>2 DEF IoDrain
<1>15. CASE IoRun
  <2>1. InQueue(i)' => InQueue(i)
    BY <1>15 DEF IoRun
  <2>a. batch # <<>> /\ batch' = Tail(batch) /\ cur' = Head(batch)
    BY <1>15 DEF IoRun
  <2>2. InBatch(i)' \/ cur' = i => InBatch(i)
    BY <2>a, RunHead
  <2>3. Waiting(i[1], i) /\ ~complete[i]
    BY <1>15, <2>1, <2>2 DEF IoRun
  <2> QED
    BY <1>15, <2>3 DEF IoRun
<1>16. CASE IoComplete
  <2>1. InQueue(i) \/ InBatch(i)
    BY <1>16 DEF IoComplete
  <2>2. i # cur
    BY <1>16, <2>1 DEF IoComplete, DistinctInv
  <2> QED
    BY <1>16, <2>1, <2>2 DEF IoComplete
<1>17. CASE IoPublish
  BY <1>17 DEF IoPublish, WakeWaiters, Published
<1>18. CASE IoBatchDone
  BY <1>18 DEF IoBatchDone
<1>19. CASE IoSpuriousWake
  BY <1>19 DEF IoSpuriousWake
<1>20. CASE Destroy
  BY <1>20 DEF Destroy, BeginCall
<1>21. CASE Join
  BY <1>21 DEF Join
<1>22. CASE UNCHANGED vars
  BY <1>22 DEF vars
<1> QED
  BY <1>1, <1>2, <1>3, <1>4, <1>5, <1>6, <1>7, <1>8, <1>9, <1>10, 
     <1>12, <1>13, <1>14, <1>15, <1>16, <1>17, <1>18, <1>19, <1>20, <1>21,
     <1>22 DEF Next, CallerStep, IoStep, Gone

\* DistinctInv is kept: an item is in one place of the queue or of the batch.
LEMMA DistinctStep ==
  TypeOK /\ CallInv /\ LoopInv /\ CapturesAlive /\ DistinctInv /\ [Next]_vars => DistinctInv'
<1> SUFFICES ASSUME TypeOK, CallInv, LoopInv, CapturesAlive, DistinctInv,
      [Next]_vars
             PROVE  DistinctInv'
  OBVIOUS
<1>t. /\ pc \in [Callers -> CallerStates] /\ calls \in [Callers -> 0 .. MaxCalls + 1]
      /\ actions \in Seq(Items) /\ batch \in Seq(Items)
      /\ cur \in Items
  BY DEF TypeOK
<1> USE <1>t, CallersAssumption, ItemParts DEF DistinctInv, InQueue, InBatch,
    Waiting, Item, callerVars, ioVars
<1>1. ASSUME NEW c \in Callers, NEW o \in Ops, Call(c, o)
      PROVE  DistinctInv'
  BY <1>1 DEF Call, BeginCall
<1>2. ASSUME NEW c \in Callers, Reject(c)
      PROVE  DistinctInv'
  BY <1>2 DEF Reject, Return
<1>3. ASSUME NEW c \in Callers, Admit(c)
      PROVE  DistinctInv'
  BY <1>3 DEF Admit, StartAndKeepLock
<1>4. ASSUME NEW c \in Callers, Push(c)
      PROVE  DistinctInv'
  <2>1. Item(c) \in Items /\ ~Waiting(c, Item(c)) /\ Item(c)[1] = c
    BY <1>4, ItemOfCall DEF Push, InCall
  <2>2. ~InQueue(Item(c)) /\ ~InBatch(Item(c))
    BY <2>1 DEF CapturesAlive
  <2>3. ioPc = "ran" => cur # Item(c)
    BY <2>1 DEF CapturesAlive
  <2>4. actions' = Append(actions, Item(c)) /\ batch' = batch /\ cur' = cur
        /\ (ioPc' = "ran" => ioPc = "ran")
    BY <1>4 DEF Push
  <2> HIDE DEF Item
  <2>5. /\ Len(actions') = Len(actions) + 1
        /\ actions'[Len(actions) + 1] = Item(c)
        /\ \A k \in 1 .. Len(actions) : actions'[k] = actions[k]
    BY <2>1, <2>4
  <2>6. Len(actions) \in Nat /\ Len(batch) \in Nat
    OBVIOUS
  <2>7. \A k \in 1 .. Len(actions') :
          \/ k = Len(actions) + 1 /\ actions'[k] = Item(c)
          \/ k \in 1 .. Len(actions) /\ actions'[k] = actions[k]
    <3>1. TAKE k \in 1 .. Len(actions')
    <3>2. k \in 1 .. Len(actions) + 1
      BY <3>1, <2>5
    <3>3. k = Len(actions) + 1 \/ k \in 1 .. Len(actions)
      <4> HIDE <1>t
      <4> QED
        BY <3>2, <2>6
    <3> QED
      BY <3>3, <2>5
  <2>8. \A j, k \in 1 .. Len(actions') : actions'[j] = actions'[k] => j = k
    BY <2>2, <2>7
  <2>9. \A j \in 1 .. Len(actions'), k \in 1 .. Len(batch') :
          actions'[j] # batch'[k]
    BY <2>2, <2>4, <2>7, SMTT(30)
  <2>10. ioPc' = "ran" => ~InQueue(cur)' /\ ~InBatch(cur)'
    BY <2>2, <2>3, <2>4, <2>7
  <2> QED
    BY <2>4, <2>8, <2>9, <2>10
<1>5. ASSUME NEW c \in Callers, PeekComplete(c)
      PROVE  DistinctInv'
  BY <1>5 DEF PeekComplete, Return
<1>6. ASSUME NEW c \in Callers, PeekPending(c)
      PROVE  DistinctInv'
  BY <1>6 DEF PeekPending
<1>7. ASSUME NEW c \in Callers, WaitComplete(c)
      PROVE  DistinctInv'
  BY <1>7 DEF WaitComplete, ReturnFromWait, Return
<1>8. ASSUME NEW c \in Callers, WaitSleep(c)
      PROVE  DistinctInv'
  BY <1>8 DEF WaitSleep
<1>9. ASSUME NEW c \in Callers, SpuriousWake(c)
      PROVE  DistinctInv'
  BY <1>9 DEF SpuriousWake
<1>10. CASE IoCheck
  BY <1>10 DEF IoCheck
<1>12. CASE IoSleep
  BY <1>12 DEF IoSleep
<1>13. CASE IoTake
  BY <1>13 DEF IoTake, TakeQueue
<1>14. CASE IoDrain
  BY <1>14 DEF IoDrain, TakeQueue
<1>15. CASE IoRun
  <2>1. /\ Head(batch) = batch[1] /\ Len(batch) \in Nat /\ Len(batch) >= 1
        /\ Len(Tail(batch)) = Len(batch) - 1
        /\ \A k \in 1 .. Len(Tail(batch)) : Tail(batch)[k] = batch[k + 1]
    BY <1>15, HeadTail DEF IoRun
  <2>2. /\ actions' = actions /\ batch' = Tail(batch) /\ cur' = batch[1]
        /\ ioPc' = "ran"
    BY <1>15, <2>1 DEF IoRun
  <2>3. \A k \in 1 .. Len(batch') :
          k + 1 \in 1 .. Len(batch) /\ batch'[k] = batch[k + 1]
    <3> QED
      BY <2>1, <2>2, SMTT(30)
  <2>4. \A j, k \in 1 .. Len(batch') : batch'[j] = batch'[k] => j = k
    <3> SUFFICES ASSUME NEW j \in 1 .. Len(batch'), NEW k \in 1 .. Len(batch'),
                        batch'[j] = batch'[k]
                 PROVE  j = k
      OBVIOUS
    <3>1. j + 1 = k + 1
      BY <2>3
    <3> QED
      BY <3>1
  <2>5. \A j \in 1 .. Len(actions'), k \in 1 .. Len(batch') :
          actions'[j] # batch'[k]
    BY <2>2, <2>3
  <2>6. 1 \in 1 .. Len(batch) /\ \A k \in 1 .. Len(batch') : k + 1 # 1
    BY <2>1
  <2>7. ~InQueue(cur)' /\ ~InBatch(cur)'
    BY <2>2, <2>3, <2>6
  <2> QED
    BY <2>2, <2>4, <2>5, <2>7
<1>16. CASE IoComplete
  BY <1>16 DEF IoComplete
<1>17. CASE IoPublish
  BY <1>17 DEF IoPublish, WakeWaiters, Published
<1>18. CASE IoBatchDone
  BY <1>18 DEF IoBatchDone
<1>19. CASE IoSpuriousWake
  BY <1>19 DEF IoSpuriousWake
<1>20. CASE Destroy
  BY <1>20 DEF Destroy, BeginCall
<1>21. CASE Join
  BY <1>21 DEF Join
<1>22. CASE UNCHANGED vars
  BY <1>22 DEF vars
<1> QED
  BY <1>1, <1>2, <1>3, <1>4, <1>5, <1>6, <1>7, <1>8, <1>9, <1>10, 
     <1>12, <1>13, <1>14, <1>15, <1>16, <1>17, <1>18, <1>19, <1>20, <1>21,
     <1>22 DEF Next, CallerStep, IoStep, Gone

\* NobodyStranded is kept: whoever waits has an item that is complete, run, or
\* still to be run by a thread that has not left its loop.
LEMMA StrandedStep ==
  TypeOK /\ CallInv /\ LoopInv /\ CapturesAlive /\ NobodyStranded /\ [Next]_vars => NobodyStranded'
<1> DEFINE Kept(i) == \/ complete[i]
                      \/ ioPc = "ran" /\ cur = i
                      \/ InBatch(i)
                      \/ InQueue(i) /\ ~draining /\ ioPc \notin {"absent", "exited"}
<1> SUFFICES ASSUME TypeOK, CallInv, LoopInv, CapturesAlive, NobodyStranded,
                    [Next]_vars,
                    NEW d \in Callers, NEW i \in Items, Waiting(d, i)'
             PROVE  Kept(i)'
  BY DEF NobodyStranded
<1> HIDE DEF Kept
<1>0. Waiting(d, i) => Kept(i)
  BY DEF Kept, NobodyStranded
<1>t. /\ pc \in [Callers -> CallerStates] /\ calls \in [Callers -> 0 .. MaxCalls + 1]
      /\ complete \in [Items -> BOOLEAN] /\ actions \in Seq(Items)
      /\ batch \in Seq(Items) /\ cur \in Items
  BY DEF TypeOK
<1> USE <1>t, CallersAssumption, ItemParts DEF LoopInv, InQueue, InBatch,
    Waiting, Item, callerVars, ioVars
<1>1. ASSUME NEW c \in Callers, NEW o \in Ops, Call(c, o)
      PROVE  Kept(i)'
  BY <1>1, <1>0 DEF Call, BeginCall, Kept
<1>2. ASSUME NEW c \in Callers, Reject(c)
      PROVE  Kept(i)'
  BY <1>2, <1>0 DEF Reject, Return, Kept
<1>3. ASSUME NEW c \in Callers, Admit(c)
      PROVE  Kept(i)'
  BY <1>3, <1>0 DEF Admit, StartAndKeepLock, Kept
<1>4. ASSUME NEW c \in Callers, Push(c)
      PROVE  Kept(i)'
  <2>1. Item(c) \in Items
    BY <1>4, ItemOfCall DEF Push, InCall
  <2>a. actions' = Append(actions, Item(c))
    BY <1>4 DEF Push
  <2>2. InQueue(i)' <=> InQueue(i) \/ i = Item(c)
    <3> HIDE DEF Item, InQueue
    <3> QED
      BY <2>1, <2>a, PushTail
  <2>3. CASE d = c
    <3>1. i = Item(c)
      BY <1>4, <2>3 DEF Push
    <3>2. InQueue(i)'
      BY <2>2, <3>1
    <3>3. ~draining /\ ioPc \notin {"absent", "exited"}
      BY <1>4 DEF Push
    <3> QED
      BY <1>4, <3>2, <3>3 DEF Push, Kept
  <2>4. CASE d # c
    <3>1. Kept(i)
      BY <1>4, <2>4, <1>0 DEF Push
    <3> QED
      BY <1>4, <2>2, <3>1 DEF Push, Kept
  <2> QED
    BY <2>3, <2>4
<1>5. ASSUME NEW c \in Callers, PeekComplete(c)
      PROVE  Kept(i)'
  BY <1>5, <1>0 DEF PeekComplete, Return, Kept
<1>6. ASSUME NEW c \in Callers, PeekPending(c)
      PROVE  Kept(i)'
  BY <1>6, <1>0 DEF PeekPending, Kept
<1>7. ASSUME NEW c \in Callers, WaitComplete(c)
      PROVE  Kept(i)'
  BY <1>7, <1>0 DEF WaitComplete, ReturnFromWait, Return, Kept
<1>8. ASSUME NEW c \in Callers, WaitSleep(c)
      PROVE  Kept(i)'
  BY <1>8, <1>0 DEF WaitSleep, Kept
<1>9. ASSUME NEW c \in Callers, SpuriousWake(c)
      PROVE  Kept(i)'
  BY <1>9, <1>0 DEF SpuriousWake, Kept
<1>10. CASE IoCheck
  BY <1>10, <1>0 DEF IoCheck, Kept
<1>12. CASE IoSleep
  BY <1>12, <1>0 DEF IoSleep, Kept
<1>13. CASE IoTake
  BY <1>13, <1>0 DEF IoTake, TakeQueue, Kept
<1>14. CASE IoDrain
  BY <1>14, <1>0 DEF IoDrain, TakeQueue, Kept
<1>15. CASE IoRun
  <2>a. batch # <<>> /\ batch' = Tail(batch) /\ cur' = Head(batch)
    BY <1>15 DEF IoRun
  <2>1. InBatch(i) => InBatch(i)' \/ cur' = i
    BY <2>a, RunHead
  <2>2. Kept(i)
    BY <1>15, <1>0 DEF IoRun
  <2> QED
    BY <1>15, <2>1, <2>2 DEF IoRun, Kept
<1>16. CASE IoComplete
  BY <1>16, <1>0 DEF IoComplete, Kept
<1>17. CASE IoPublish
  BY <1>17, <1>0 DEF IoPublish, WakeWaiters, Published, Kept
<1>18. CASE IoBatchDone
  BY <1>18, <1>0 DEF IoBatchDone, Kept
<1>19. CASE IoSpuriousWake
  BY <1>19, <1>0 DEF IoSpuriousWake, Kept
<1>20. CASE Destroy
  BY <1>20, <1>0 DEF Destroy, BeginCall, Kept
<1>21. CASE Join
  BY <1>21, <1>0 DEF Join, Kept
<1>22. CASE UNCHANGED vars
  BY <1>22, <1>0 DEF vars, Kept
<1> QED
  BY <1>1, <1>2, <1>3, <1>4, <1>5, <1>6, <1>7, <1>8, <1>9, <1>10, 
     <1>12, <1>13, <1>14, <1>15, <1>16, <1>17, <1>18, <1>19, <1>20, <1>21,
     <1>22 DEF Next, CallerStep, IoStep, Gone

\* ResultInv is kept: done() writes success after complete, and only from what
\* the action returned.
LEMMA ResultStep ==
  TypeOK /\ CallInv /\ CapturesAlive /\ ResultInv /\ [Next]_vars => ResultInv'
<1> SUFFICES ASSUME TypeOK, CallInv, CapturesAlive, ResultInv, [Next]_vars
             PROVE  ResultInv'
  OBVIOUS
<1>t. /\ pc \in [Callers -> CallerStates] /\ calls \in [Callers -> 0 .. MaxCalls + 1]
      /\ complete \in [Items -> BOOLEAN] /\ success \in [Items -> BOOLEAN]
      /\ outcome \in [Items -> BOOLEAN] /\ ret \in [Items -> {"none", "true", "false", "rejected"}]
      /\ cur \in Items /\ batch \in Seq(Items)
  BY DEF TypeOK
<1> USE <1>t, CallersAssumption, ItemParts DEF ResultInv, Item, Bool,
    callerVars, ioVars
<1>1. ASSUME NEW c \in Callers, NEW o \in Ops, Call(c, o)
      PROVE  ResultInv'
  BY <1>1 DEF Call, BeginCall
<1>2. ASSUME NEW c \in Callers, Reject(c)
      PROVE  ResultInv'
  BY <1>2 DEF Reject, Return
<1>3. ASSUME NEW c \in Callers, Admit(c)
      PROVE  ResultInv'
  BY <1>3 DEF Admit, StartAndKeepLock
<1>4. ASSUME NEW c \in Callers, Push(c)
      PROVE  ResultInv'
  BY <1>4 DEF Push
<1>5. ASSUME NEW c \in Callers, PeekComplete(c) \/ WaitComplete(c)
      PROVE  ResultInv'
  <2>1. complete[Item(c)] /\ UNCHANGED <<complete, success, outcome, cur, ioPc>>
    BY <1>5 DEF PeekComplete, WaitComplete, ReturnFromWait
  <2>2. PICK seen \in {FALSE, Told(Item(c))} :
          ret' = [ret EXCEPT ![Item(c)] = Bool(seen)]
    BY <1>5 DEF PeekComplete, WaitComplete, ReturnFromWait, Return
  <2>3. Item(c) \in Items
    BY <1>5, ItemOfCall DEF PeekComplete, WaitComplete, InCall
  <2>4. seen => outcome[Item(c)]
    BY <2>2, <2>3 DEF Told
  <2>5. ret'[Item(c)] = "true" => outcome[Item(c)]
    BY <2>2, <2>3, <2>4
  <2>6. \A i \in Items : ret'[i] = "true" => complete[i] /\ outcome[i]
    BY <2>1, <2>2, <2>3, <2>5
  <2> QED
    BY <2>1, <2>6
<1>6. ASSUME NEW c \in Callers, PeekPending(c)
      PROVE  ResultInv'
  BY <1>6 DEF PeekPending
<1>8. ASSUME NEW c \in Callers, WaitSleep(c)
      PROVE  ResultInv'
  BY <1>8 DEF WaitSleep
<1>9. ASSUME NEW c \in Callers, SpuriousWake(c)
      PROVE  ResultInv'
  BY <1>9 DEF SpuriousWake
<1>10. CASE IoCheck
  BY <1>10 DEF IoCheck
<1>12. CASE IoSleep
  BY <1>12 DEF IoSleep
<1>13. CASE IoTake
  BY <1>13 DEF IoTake, TakeQueue
<1>14. CASE IoDrain
  BY <1>14 DEF IoDrain, TakeQueue
<1>15. CASE IoRun
  <2>1. Head(batch) = batch[1] /\ 1 \in 1 .. Len(batch) /\ batch[1] \in Items
    BY <1>15, HeadTail DEF IoRun
  <2>2. ~complete[cur'] /\ cur' \in Items
    BY <1>15, <2>1 DEF IoRun, CapturesAlive, InBatch
  <2> QED
    BY <1>15, <2>2 DEF IoRun
<1>16. CASE IoComplete
  BY <1>16 DEF IoComplete
<1>17. CASE IoPublish
  BY <1>17 DEF IoPublish, WakeWaiters, Published
<1>18. CASE IoBatchDone
  BY <1>18 DEF IoBatchDone
<1>19. CASE IoSpuriousWake
  BY <1>19 DEF IoSpuriousWake
<1>20. CASE Destroy
  BY <1>20 DEF Destroy, BeginCall
<1>21. CASE Join
  BY <1>21 DEF Join
<1>22. CASE UNCHANGED vars
  BY <1>22 DEF vars
<1> QED
  BY <1>1, <1>2, <1>3, <1>4, <1>5, <1>6, <1>8, <1>9, <1>10, 
     <1>12, <1>13, <1>14, <1>15, <1>16, <1>17, <1>18, <1>19, <1>20, <1>21,
     <1>22 DEF Next, CallerStep, IoStep, Gone

\* Each item moves from the queue to the batch to the history of what has been
\* run, and keeps its place.
LEMMA OrderStep ==
  TypeOK /\ CallInv /\ LoopInv /\ InOrderExactlyOnce /\ [Next]_vars
    => InOrderExactlyOnce'
<1> SUFFICES ASSUME TypeOK, CallInv, LoopInv, InOrderExactlyOnce, [Next]_vars
             PROVE  InOrderExactlyOnce'
  OBVIOUS
<1>t. /\ actions \in Seq(Items) /\ batch \in Seq(Items)
      /\ ran \in Seq(Items) /\ pushed \in Seq(Items)
  BY DEF TypeOK
<1>1. ASSUME NEW c \in Callers, Push(c)
      PROVE  InOrderExactlyOnce'
  <2>1. Item(c) \in Items
    BY <1>1, ItemOfCall DEF Push, InCall
  <2>2. pushed' = Append(ran \o batch \o actions, Item(c))
    BY <1>1 DEF Push, InOrderExactlyOnce
  <2>3. pushed' = ran \o batch \o Append(actions, Item(c))
    <3> HIDE DEF Item
    <3> QED
      BY <1>t, <2>1, <2>2, ConservePush
  <2> QED
    BY <1>1, <2>3 DEF Push, ioVars, InOrderExactlyOnce
<1>2. CASE IoTake \/ IoDrain
  <2>1. batch = <<>> /\ batch' = actions /\ actions' = <<>>
    BY <1>2 DEF IoTake, IoDrain, TakeQueue, LoopInv
  <2>2. /\ ran' = ran /\ pushed' = pushed
    BY <1>2 DEF IoTake, IoDrain
  <2>3. ran \o <<>> = ran /\ ran \o actions \in Seq(Items)
    BY <1>t, ConcatEmptySeq, ConcatProperties
  <2>4. (ran \o actions) \o <<>> = ran \o actions
    BY <2>3, ConcatEmptySeq
  <2>5. pushed = ran \o actions
    BY <2>1, <2>3 DEF InOrderExactlyOnce
  <2> QED
    BY <2>1, <2>2, <2>4, <2>5 DEF InOrderExactlyOnce
<1>3. CASE IoRun
  <2>1. /\ batch # <<>> /\ ran' = Append(ran, Head(batch))
        /\ batch' = Tail(batch) /\ actions' = actions /\ pushed' = pushed
    BY <1>3 DEF IoRun
  <2>2. ran \o batch \o actions = ran' \o batch' \o actions
    BY <1>t, <2>1, ConserveRun
  <2> QED
    BY <2>1, <2>2 DEF InOrderExactlyOnce
<1>4. CASE UNCHANGED <<ran, batch, actions, pushed>>
  BY <1>4 DEF InOrderExactlyOnce
<1>5. \/ \E c \in Callers : Push(c)
      \/ IoTake \/ IoDrain \/ IoRun
      \/ UNCHANGED <<ran, batch, actions, pushed>>
  <2>1. ASSUME NEW c \in Callers, NEW o \in Ops, Call(c, o)
        PROVE  UNCHANGED <<ran, batch, actions, pushed>>
    BY <2>1 DEF Call, ioVars
  <2>2. ASSUME NEW c \in Callers,
               Reject(c) \/ Admit(c) \/ PeekComplete(c) \/ PeekPending(c)
               \/ WaitComplete(c) \/ WaitSleep(c) \/ SpuriousWake(c)
        PROVE  UNCHANGED <<ran, batch, actions, pushed>>
    BY <2>2 DEF Reject, Admit, StartAndKeepLock, PeekComplete, PeekPending,
                WaitComplete, ReturnFromWait, WaitSleep, SpuriousWake, ioVars
  <2>3. CASE \/ IoCheck \/ IoSleep \/ IoComplete \/ IoPublish
             \/ IoBatchDone \/ IoSpuriousWake \/ Destroy \/ Join
             \/ UNCHANGED vars
    BY <2>3 DEF IoCheck, IoSleep, IoComplete, IoPublish,
                IoBatchDone, IoSpuriousWake, Destroy, Join, vars, ioVars
  <2> QED
    BY <2>1, <2>2, <2>3 DEF Next, CallerStep, IoStep, Gone
<1> QED
  BY <1>1, <1>2, <1>3, <1>4, <1>5

\* CloseInv is kept: once the action of a close() has run, stop_requested_ is
\* set before its caller can know.
LEMMA CloseStep ==
  TypeOK /\ CallInv /\ LoopInv /\ CapturesAlive /\ CloseInv /\ [Next]_vars => CloseInv'
<1> SUFFICES ASSUME TypeOK, CallInv, LoopInv, CapturesAlive, CloseInv,
      [Next]_vars
             PROVE  CloseInv'
  OBVIOUS
<1>t. /\ pc \in [Callers -> CallerStates] /\ calls \in [Callers -> 0 .. MaxCalls + 1]
      /\ complete \in [Items -> BOOLEAN] /\ op \in [Items -> Ops]
      /\ ret \in [Items -> {"none", "true", "false", "rejected"}] /\ cur \in Items
      /\ batch \in Seq(Items) /\ stop \in BOOLEAN
  BY DEF TypeOK
<1> USE <1>t, CallersAssumption, ItemParts DEF CloseInv, Item, callerVars,
    ioVars
<1>1. ASSUME NEW c \in Callers, NEW o \in Ops, Call(c, o)
      PROVE  CloseInv'
  <2> DEFINE j == <<c, calls[c] + 1>>
  <2>1. /\ \A i \in Items : i # j => op'[i] = op[i]
        /\ complete' = complete /\ ret' = ret /\ stop' = stop
        /\ ioPc' = ioPc /\ cur' = cur
        /\ calls' = [calls EXCEPT ![c] = calls[c] + 1] /\ c \in Callers
    BY <1>1 DEF Call, BeginCall
  <2>2. \A d \in Callers : calls[d] \in Nat /\ calls'[d] >= calls[d]
                            /\ calls'[d] \in Nat
    BY <2>1
  <2>3. \A i \in Items : i[2] <= calls[i[1]] => i # j
    BY <2>1, <2>2
  <2>4. ioPc = "ran" => cur # j
    BY <2>3 DEF CapturesAlive, Waiting
  <2>5. \A i \in Items : complete[i] \/ ret[i] # "none" => i # j
    BY <2>3 DEF CallInv
  <2> HIDE DEF j
  <2> QED
    BY <2>1, <2>2, <2>4, <2>5
<1>2. ASSUME NEW c \in Callers, Reject(c)
      PROVE  CloseInv'
  BY <1>2 DEF Reject, Return
<1>3. ASSUME NEW c \in Callers, Admit(c)
      PROVE  CloseInv'
  BY <1>3 DEF Admit, StartAndKeepLock
<1>4. ASSUME NEW c \in Callers, Push(c)
      PROVE  CloseInv'
  BY <1>4 DEF Push
<1>5. ASSUME NEW c \in Callers, PeekComplete(c)
      PROVE  CloseInv'
  <2>1. Item(c) \in Items /\ complete[Item(c)]
    BY <1>5, ItemOfCall DEF PeekComplete, InCall
  <2>2. op[Item(c)] = "close" => stop
    BY <2>1
  <2>3. Item(c)[2] <= calls[Item(c)[1]]
    BY <2>1
  <2>4. /\ \A i \in Items : ret'[i] # "none" => ret[i] # "none" \/ i = Item(c)
        /\ op' = op /\ complete' = complete /\ stop' = stop /\ calls' = calls
        /\ ioPc' = ioPc /\ cur' = cur
    BY <1>5 DEF PeekComplete, Return
  <2> HIDE DEF Item
  <2> QED
    BY <2>1, <2>2, <2>3, <2>4
<1>6. ASSUME NEW c \in Callers, PeekPending(c)
      PROVE  CloseInv'
  BY <1>6 DEF PeekPending
<1>7. ASSUME NEW c \in Callers, WaitComplete(c)
      PROVE  CloseInv'
  <2>1. Item(c) \in Items /\ complete[Item(c)]
    BY <1>7, ItemOfCall DEF WaitComplete, InCall
  <2>2. op[Item(c)] = "close" => stop
    BY <2>1
  <2>3. Item(c)[2] <= calls[Item(c)[1]]
    BY <2>1
  <2>4. /\ \A i \in Items : ret'[i] # "none" => ret[i] # "none" \/ i = Item(c)
        /\ op' = op /\ complete' = complete /\ stop' = stop /\ calls' = calls
        /\ ioPc' = ioPc /\ cur' = cur
    BY <1>7 DEF WaitComplete, ReturnFromWait, Return
  <2> HIDE DEF Item
  <2> QED
    BY <2>1, <2>2, <2>3, <2>4
<1>8. ASSUME NEW c \in Callers, WaitSleep(c)
      PROVE  CloseInv'
  BY <1>8 DEF WaitSleep
<1>9. ASSUME NEW c \in Callers, SpuriousWake(c)
      PROVE  CloseInv'
  BY <1>9 DEF SpuriousWake
<1>10. CASE IoCheck
  BY <1>10 DEF IoCheck
<1>12. CASE IoSleep
  BY <1>12 DEF IoSleep
<1>13. CASE IoTake
  BY <1>13 DEF IoTake, TakeQueue
<1>14. CASE IoDrain
  BY <1>14 DEF IoDrain, TakeQueue
<1>15. CASE IoRun
  <2>1. (stop => stop') /\ (op[cur'] = "close" => stop')
    <3>1. PICK r \in BOOLEAN : Perform(op[cur'], r)
      BY <1>15 DEF IoRun
    <3> QED
      BY <3>1 DEF Perform, CloseAction
  <2>2. /\ op' = op /\ complete' = complete /\ ret' = ret /\ calls' = calls
    BY <1>15 DEF IoRun
  <2> QED
    BY <2>1, <2>2
<1>16. CASE IoComplete
  BY <1>16 DEF IoComplete
<1>17. CASE IoPublish
  BY <1>17 DEF IoPublish, WakeWaiters, Published
<1>18. CASE IoBatchDone
  BY <1>18 DEF IoBatchDone
<1>19. CASE IoSpuriousWake
  BY <1>19 DEF IoSpuriousWake
<1>20. CASE Destroy
  <2> DEFINE j == <<Owner, calls[Owner] + 1>>
  <2>1. /\ \A i \in Items : i # j => op'[i] = op[i]
        /\ complete' = complete /\ ret' = ret /\ stop' = stop
        /\ ioPc' = ioPc /\ cur' = cur
        /\ calls' = [calls EXCEPT ![Owner] = calls[Owner] + 1] /\ Owner \in Callers
    BY <1>20 DEF Destroy, BeginCall
  <2>2. \A d \in Callers : calls[d] \in Nat /\ calls'[d] >= calls[d]
                            /\ calls'[d] \in Nat
    BY <2>1
  <2>3. \A i \in Items : i[2] <= calls[i[1]] => i # j
    BY <2>1, <2>2
  <2>4. ioPc = "ran" => cur # j
    BY <2>3 DEF CapturesAlive, Waiting
  <2>5. \A i \in Items : complete[i] \/ ret[i] # "none" => i # j
    BY <2>3 DEF CallInv
  <2> HIDE DEF j
  <2> QED
    BY <2>1, <2>2, <2>4, <2>5
<1>21. CASE Join
  BY <1>21 DEF Join
<1>22. CASE UNCHANGED vars
  BY <1>22 DEF vars
<1> QED
  BY <1>1, <1>2, <1>3, <1>4, <1>5, <1>6, <1>7, <1>8, <1>9, <1>10, 
     <1>12, <1>13, <1>14, <1>15, <1>16, <1>17, <1>18, <1>19, <1>20, <1>21,
     <1>22 DEF Next, CallerStep, IoStep, Gone

\* LateInv and ClosedForGood are kept: do_io refuses whatever is called after a
\* close() has returned, so the I/O thread never runs it.
LEMMA LateStep ==
  TypeOK /\ CallInv /\ LoopInv /\ CapturesAlive /\ CloseInv /\ LateInv /\ ClosedForGood
    /\ [Next]_vars => (LateInv /\ ClosedForGood)'
<1> SUFFICES ASSUME TypeOK, CallInv, LoopInv, CapturesAlive, CloseInv,
      LateInv, ClosedForGood, [Next]_vars
             PROVE  (LateInv /\ ClosedForGood)'
  OBVIOUS
<1>t. /\ pc \in [Callers -> CallerStates] /\ calls \in [Callers -> 0 .. MaxCalls + 1]
      /\ cur \in Items /\ batch \in Seq(Items)
      /\ ran \in Seq(Items) /\ late \in SUBSET Items
      /\ stop \in BOOLEAN
  BY DEF TypeOK
<1> USE <1>t, CallersAssumption, ItemParts DEF LateInv, ClosedForGood, Item,
    callerVars, ioVars
<1>1. ASSUME NEW c \in Callers, NEW o \in Ops, Call(c, o)
      PROVE  (LateInv /\ ClosedForGood)'
  <2> DEFINE j == <<c, calls[c] + 1>>
  <2>1. /\ \A i \in Items : i # j => op'[i] = op[i]
        /\ complete' = complete /\ ret' = ret /\ stop' = stop
        /\ ioPc' = ioPc /\ cur' = cur
        /\ calls' = [calls EXCEPT ![c] = calls[c] + 1] /\ c \in Callers
    BY <1>1 DEF Call, BeginCall
  <2>2. \A d \in Callers : calls[d] \in Nat /\ calls'[d] >= calls[d]
                            /\ calls'[d] \in Nat
    BY <2>1
  <2>3. \A i \in Items : i[2] <= calls[i[1]] => i # j
    BY <2>1, <2>2
  <2>4. late' \subseteq late \cup {j} /\ (j \in late' => j \in late \/ CloseReturned)
    BY <1>1 DEF Call, BeginCall
  <2>5. j[2] <= calls'[j[1]]
    BY <2>1, <2>2
  <2>6. CloseReturned => stop
    BY DEF CloseReturned, CloseInv
  <2>7. /\ \A d \in Callers : d # c => pc'[d] = pc[d] /\ calls'[d] = calls[d]
        /\ pc'[c] = "entered" /\ ran' = ran
    BY <1>1 DEF Call, BeginCall
  <2>8. \A k \in 1 .. Len(ran) : ran[k] # j
    BY <2>3
  <2>a. late \subseteq Items /\ \A i \in late : stop /\ i[2] <= calls[i[1]]
    OBVIOUS
  <2>b. \A i \in late' : i # j => i \in late
    BY <2>4
  <2>c. late' # {} => stop'
    BY <2>1, <2>4, <2>6, <2>a
  <2>d. \A i \in late : i[2] <= calls'[i[1]]
    BY <2>2, <2>a
  <2>9. \A i \in late' : stop' /\ i[2] <= calls'[i[1]]
    <3> HIDE DEF j
    <3> QED
      BY <2>5, <2>b, <2>c, <2>d
  <2>10. \A d \in Callers :
           pc'[d] \in {"admitted", "waiting", "locking", "asleep"} =>
             <<d, calls'[d]>> \notin late'
    BY <2>1, <2>4, <2>7
  <2>11. \A k \in 1 .. Len(ran') :
           /\ ran'[k][2] <= calls'[ran'[k][1]]
           /\ ran'[k] \notin late'
    <3>1. \A k \in 1 .. Len(ran) : ran[k] \in Items
      BY ElementOfSeq
    <3>2. \A k \in 1 .. Len(ran) : ran[k][2] <= calls'[ran[k][1]]
      <4>1. \A k \in 1 .. Len(ran) : ran[k][2] <= calls[ran[k][1]]
        OBVIOUS
      <4> HIDE DEF j, LateInv, ClosedForGood
      <4> SUFFICES ASSUME NEW k \in 1 .. Len(ran)
                   PROVE  ran[k][2] <= calls'[ran[k][1]]
        OBVIOUS
      <4> DEFINE i == ran[k]
      <4>2. i \in Items /\ i[2] <= calls[i[1]]
        BY <3>1, <4>1
      <4> HIDE DEF i
      <4>3. i[1] \in Callers /\ i[2] \in Nat
        BY <4>2, ItemParts
      <4>4. /\ calls[i[1]] \in Nat /\ calls'[i[1]] \in Nat
            /\ calls'[i[1]] >= calls[i[1]]
        BY <2>2, <4>3
      <4> DEFINE n == i[2]
                 was == calls[i[1]]
                 is == calls'[i[1]]
      <4>5. n \in Nat /\ was \in Nat /\ is \in Nat /\ n <= was /\ was <= is
        BY <4>2, <4>3, <4>4
      <4> HIDE DEF n, was, is
      <4>6. n <= is
        BY ONLY <4>5
      <4> QED
        BY <4>6 DEF i, n, is
    <3> HIDE DEF j
    <3> QED
      BY <2>4, <2>7, <2>8, <3>2
  <2> QED
    BY <2>9, <2>10, <2>11
<1>2. ASSUME NEW c \in Callers, Reject(c)
      PROVE  (LateInv /\ ClosedForGood)'
  BY <1>2 DEF Reject, Return
<1>3. ASSUME NEW c \in Callers, Admit(c)
      PROVE  (LateInv /\ ClosedForGood)'
  BY <1>3 DEF Admit, StartAndKeepLock
<1>4. ASSUME NEW c \in Callers, Push(c)
      PROVE  (LateInv /\ ClosedForGood)'
  BY <1>4 DEF Push
<1>5. ASSUME NEW c \in Callers, PeekComplete(c)
      PROVE  (LateInv /\ ClosedForGood)'
  BY <1>5 DEF PeekComplete, Return
<1>6. ASSUME NEW c \in Callers, PeekPending(c)
      PROVE  (LateInv /\ ClosedForGood)'
  BY <1>6 DEF PeekPending
<1>7. ASSUME NEW c \in Callers, WaitComplete(c)
      PROVE  (LateInv /\ ClosedForGood)'
  BY <1>7 DEF WaitComplete, ReturnFromWait, Return
<1>8. ASSUME NEW c \in Callers, WaitSleep(c)
      PROVE  (LateInv /\ ClosedForGood)'
  BY <1>8 DEF WaitSleep
<1>9. ASSUME NEW c \in Callers, SpuriousWake(c)
      PROVE  (LateInv /\ ClosedForGood)'
  BY <1>9 DEF SpuriousWake
<1>10. CASE IoCheck
  BY <1>10 DEF IoCheck
<1>12. CASE IoSleep
  BY <1>12 DEF IoSleep
<1>13. CASE IoTake
  BY <1>13 DEF IoTake, TakeQueue
<1>14. CASE IoDrain
  BY <1>14 DEF IoDrain, TakeQueue
<1>15. CASE IoRun
  <2> DEFINE h == Head(batch)
  <2>1. h \in Items /\ InBatch(h)
    <3>1. h \in Items /\ Len(batch) >= 1 /\ h = batch[1] /\ Len(batch) \in Nat
      BY <1>15, HeadTail DEF IoRun
    <3> QED
      BY <3>1 DEF InBatch
  <2>2. Waiting(h[1], h)
    BY <2>1 DEF CapturesAlive
  <2>3. h[2] <= calls[h[1]] /\ h \notin late
    BY <2>1, <2>2 DEF Waiting
  <2>4. /\ ran' = Append(ran, h) /\ calls' = calls /\ pc' = pc /\ late' = late
    BY <1>15 DEF IoRun
  <2>a. stop => stop'
    <3>1. PICK r \in BOOLEAN : Perform(op[cur'], r)
      BY <1>15 DEF IoRun
    <3> QED
      BY <3>1 DEF Perform, CloseAction
  <2> HIDE DEF h
  <2>5. \A k \in 1 .. Len(ran') : ran'[k] = h \/ (k \in 1 .. Len(ran) /\ ran'[k] = ran[k])
    BY <2>1, <2>4, AppendProperties
  <2> QED
    BY <2>3, <2>4, <2>5, <2>a
<1>16. CASE IoComplete
  BY <1>16 DEF IoComplete
<1>17. CASE IoPublish
  BY <1>17 DEF IoPublish, WakeWaiters, Published
<1>18. CASE IoBatchDone
  BY <1>18 DEF IoBatchDone
<1>19. CASE IoSpuriousWake
  BY <1>19 DEF IoSpuriousWake
<1>20. CASE Destroy
  <2> DEFINE j == <<Owner, calls[Owner] + 1>>
  <2>1. /\ \A i \in Items : i # j => op'[i] = op[i]
        /\ complete' = complete /\ ret' = ret /\ stop' = stop
        /\ ioPc' = ioPc /\ cur' = cur
        /\ calls' = [calls EXCEPT ![Owner] = calls[Owner] + 1] /\ Owner \in Callers
    BY <1>20 DEF Destroy, BeginCall
  <2>2. \A d \in Callers : calls[d] \in Nat /\ calls'[d] >= calls[d]
                            /\ calls'[d] \in Nat
    BY <2>1
  <2>3. \A i \in Items : i[2] <= calls[i[1]] => i # j
    BY <2>1, <2>2
  <2>4. late' \subseteq late \cup {j} /\ (j \in late' => j \in late \/ CloseReturned)
    BY <1>20 DEF Destroy, BeginCall
  <2>5. j[2] <= calls'[j[1]]
    BY <2>1, <2>2
  <2>6. CloseReturned => stop
    BY DEF CloseReturned, CloseInv
  <2>7. /\ \A d \in Callers : d # Owner => pc'[d] = pc[d] /\ calls'[d] = calls[d]
        /\ pc'[Owner] = "entered" /\ ran' = ran
    BY <1>20 DEF Destroy, BeginCall
  <2>8. \A k \in 1 .. Len(ran) : ran[k] # j
    BY <2>3
  <2>a. late \subseteq Items /\ \A i \in late : stop /\ i[2] <= calls[i[1]]
    OBVIOUS
  <2>b. \A i \in late' : i # j => i \in late
    BY <2>4
  <2>c. late' # {} => stop'
    BY <2>1, <2>4, <2>6, <2>a
  <2>d. \A i \in late : i[2] <= calls'[i[1]]
    BY <2>2, <2>a
  <2>9. \A i \in late' : stop' /\ i[2] <= calls'[i[1]]
    <3> HIDE DEF j
    <3> QED
      BY <2>5, <2>b, <2>c, <2>d
  <2>10. \A d \in Callers :
           pc'[d] \in {"admitted", "waiting", "locking", "asleep"} =>
             <<d, calls'[d]>> \notin late'
    BY <2>1, <2>4, <2>7
  <2>11. \A k \in 1 .. Len(ran') :
           /\ ran'[k][2] <= calls'[ran'[k][1]]
           /\ ran'[k] \notin late'
    <3>1. \A k \in 1 .. Len(ran) : ran[k] \in Items
      BY ElementOfSeq
    <3>2. \A k \in 1 .. Len(ran) : ran[k][2] <= calls'[ran[k][1]]
      <4>1. \A k \in 1 .. Len(ran) : ran[k][2] <= calls[ran[k][1]]
        OBVIOUS
      <4> HIDE DEF j, LateInv, ClosedForGood
      <4> SUFFICES ASSUME NEW k \in 1 .. Len(ran)
                   PROVE  ran[k][2] <= calls'[ran[k][1]]
        OBVIOUS
      <4> DEFINE i == ran[k]
      <4>2. i \in Items /\ i[2] <= calls[i[1]]
        BY <3>1, <4>1
      <4> HIDE DEF i
      <4>3. i[1] \in Callers /\ i[2] \in Nat
        BY <4>2, ItemParts
      <4>4. /\ calls[i[1]] \in Nat /\ calls'[i[1]] \in Nat
            /\ calls'[i[1]] >= calls[i[1]]
        BY <2>2, <4>3
      <4> DEFINE n == i[2]
                 was == calls[i[1]]
                 is == calls'[i[1]]
      <4>5. n \in Nat /\ was \in Nat /\ is \in Nat /\ n <= was /\ was <= is
        BY <4>2, <4>3, <4>4
      <4> HIDE DEF n, was, is
      <4>6. n <= is
        BY ONLY <4>5
      <4> QED
        BY <4>6 DEF i, n, is
    <3> HIDE DEF j
    <3> QED
      BY <2>4, <2>7, <2>8, <3>2
  <2> QED
    BY <2>9, <2>10, <2>11
<1>21. CASE Join
  BY <1>21 DEF Join
<1>22. CASE UNCHANGED vars
  BY <1>22 DEF vars
<1> QED
  BY <1>1, <1>2, <1>3, <1>4, <1>5, <1>6, <1>7, <1>8, <1>9, <1>10, 
     <1>12, <1>13, <1>14, <1>15, <1>16, <1>17, <1>18, <1>19, <1>20, <1>21,
     <1>22 DEF Next, CallerStep, IoStep, Gone

-----------------------------------------------------------------------------

\* A newly constructed thread_file satisfies the invariant.
LEMMA InitInv == Init => IInv
<1> SUFFICES ASSUME Init PROVE IInv
  OBVIOUS
<1> USE CallersAssumption
<1>1. TypeOK
  <2>1. <<Owner, 1>> \in Items
    BY ItemsOfCallers
  <2>2. /\ pc \in [Callers -> CallerStates]
        /\ calls \in [Callers -> 0 .. MaxCalls + 1]
        /\ op \in [Items -> Ops]
    BY DEF Init, CallerStates, Ops
  <2>3. /\ complete \in [Items -> BOOLEAN]
        /\ success \in [Items -> BOOLEAN]
        /\ outcome \in [Items -> BOOLEAN]
        /\ ret \in [Items -> {"none", "true", "false", "rejected"}]
    BY DEF Init
  <2>4. /\ actions \in Seq(Items) /\ batch \in Seq(Items)
        /\ pushed \in Seq(Items) /\ ran \in Seq(Items)
    BY EmptyIsSeq DEF Init
  <2>5. /\ stop \in BOOLEAN /\ draining \in BOOLEAN /\ destroying \in BOOLEAN
        /\ fileOpen \in BOOLEAN /\ ioPc \in IoStates
        /\ cur \in Items /\ late \in SUBSET Items
    BY <2>1 DEF Init, IoStates
  <2> QED
    BY <2>2, <2>3, <2>4, <2>5 DEF TypeOK
<1>2. CallInv /\ LoopInv /\ ResultInv
  BY ItemParts DEF Init, CallInv, InCall, LoopInv, ResultInv
<1>3. DistinctInv /\ CapturesAlive
  BY DEF Init, DistinctInv, InQueue, InBatch, CapturesAlive
<1>4. NobodyStranded
  BY DEF Init, NobodyStranded, Waiting
<1>5. CloseInv /\ LateInv /\ ClosedForGood
  BY DEF Init, CloseInv, LateInv, ClosedForGood
<1>6. InOrderExactlyOnce
  <2>1. <<>> \in Seq(Items)
    BY EmptyIsSeq
  <2>2. <<>> \o <<>> \o <<>> = <<>>
    BY <2>1, ConcatEmptySeq
  <2> QED
    BY <2>2 DEF Init, InOrderExactlyOnce
<1> QED
  BY <1>1, <1>2, <1>3, <1>4, <1>5, <1>6 DEF IInv

\* IInv is inductive and holds of every behaviour.
THEOREM Inductive == Spec => []IInv
<1>1. IInv /\ [Next]_vars => IInv'
  BY TypeStep, CallStep, LoopStep, CaptureStep, DistinctStep, StrandedStep,
     ResultStep, OrderStep, CloseStep, LateStep DEF IInv
<1> QED
  BY InitInv, <1>1, PTL DEF Spec

\* Every variable of thread_file keeps its type, for any set of callers and
\* any number of calls.
THEOREM TypeCorrect == Spec => []TypeOK
<1>1. IInv => TypeOK
  BY DEF IInv
<1> QED
  BY Inductive, <1>1, PTL

\* No reference that an action captured is used after its caller has returned
\* from do_io, whatever the callers and the I/O thread do.
THEOREM NoDanglingCapture == Spec => []CapturesAlive
<1>1. IInv => CapturesAlive
  BY DEF IInv
<1> QED
  BY Inductive, <1>1, PTL

\* No caller is left waiting on an item that nobody will run: a push that races
\* with close() is caught by the final drain.
THEOREM NoCallerStranded == Spec => []NobodyStranded
<1>1. IInv => NobodyStranded
  BY DEF IInv
<1> QED
  BY Inductive, <1>1, PTL

\* The I/O thread runs what is queued in order, once, and loses nothing.
THEOREM QueueOrder == Spec => []InOrderExactlyOnce
<1>1. IInv => InOrderExactlyOnce
  BY DEF IInv
<1> QED
  BY Inductive, <1>1, PTL

\* A call that reports success had its action run successfully.
THEOREM SuccessIsReal == Spec => []NoInventedSuccess
<1>1. IInv => NoInventedSuccess
  BY DEF IInv, ResultInv, NoInventedSuccess
<1> QED
  BY Inductive, <1>1, PTL

\* Nothing called after a close() has returned is ever run.
THEOREM CloseIsFinal == Spec => []ClosedForGood
<1>1. IInv => ClosedForGood
  BY DEF IInv
<1> QED
  BY Inductive, <1>1, PTL

-----------------------------------------------------------------------------
(* The refinement: every step is one of SerialFile or leaves it alone.     *)

\* Items whose action has run are those that are complete, and the one that is
\* about to be.
RanInv ==
  /\ \A i \in Items : Ran(i) => complete[i] \/ (ioPc = "ran" /\ cur = i)
  /\ \A i \in Items : complete[i] => Ran(i)
  /\ ioPc \in {"ran", "publish"} => Ran(cur)

\* Only the owner is left when the object is destroyed, in a close() or after it.
DestroyInv ==
  /\ ~destroying => \A c \in Callers : pc[c] \notin {"joining", "gone"}
  /\ destroying => /\ \A c \in Callers \ {Owner} : pc[c] = "idle"
                   /\ pc[Owner] # "idle"
                   /\ InCall(Owner) => op[Item(Owner)] = "close"
                   /\ pc[Owner] \in {"joining", "gone"} => stop

RefInv == IInv /\ RanInv /\ DestroyInv

\* An item is run before it is complete, and at most one is run and not complete.
LEMMA RanStep == IInv /\ RanInv /\ [Next]_vars => RanInv'
<1> SUFFICES ASSUME IInv, RanInv, [Next]_vars PROVE RanInv'
  OBVIOUS
<1> USE DEF RanInv
<1>1. CASE IoRun
  <2>1. /\ cur' = Head(batch) /\ ran' = Append(ran, cur') /\ complete' = complete
        /\ ioPc' = "ran" /\ ioPc = "running"
    BY <1>1 DEF IoRun
  <2>2. Head(batch) \in Items /\ ran \in Seq(Items)
    BY <1>1, HeadTail DEF IoRun, IInv, TypeOK
  <2>3. \A i \in Items : Ran(i)' <=> Ran(i) \/ i = cur'
    BY <2>1, <2>2, AppendMembers DEF Ran
  <2> QED
    BY <2>1, <2>2, <2>3
<1>2. CASE IoComplete
  <2>1. /\ complete' = [complete EXCEPT ![cur] = TRUE] /\ UNCHANGED <<ran, cur>>
        /\ ioPc = "ran" /\ ioPc' = "publish"
    BY <1>2 DEF IoComplete
  <2>2. cur \in Items /\ complete \in [Items -> BOOLEAN]
    BY DEF IInv, TypeOK
  <2>3. \A i : Ran(i)' <=> Ran(i)
    BY <2>1 DEF Ran
  <2>4. \A i \in Items : complete'[i] <=> complete[i] \/ i = cur
    BY <2>1, <2>2
  <2> QED
    BY <2>1, <2>2, <2>3, <2>4
<1>3. CASE ~IoRun /\ ~IoComplete
  <2>1. UNCHANGED <<ran, complete>>
    BY <1>3 DEF Next, CallerStep, IoStep, Call, Reject, Admit, StartAndKeepLock, Push,
       PeekComplete, PeekPending, WaitComplete, ReturnFromWait, WaitSleep, SpuriousWake,
       IoCheck, IoSleep, IoTake, IoDrain, IoPublish, IoBatchDone, IoSpuriousWake,
       Destroy, Join, Gone, vars
  <2>2. /\ ioPc # "ran" /\ ioPc' # "ran"
        \/ UNCHANGED <<ioPc, cur>>
    BY <1>3 DEF Next, CallerStep, IoStep, Call, Reject, Admit, StartAndKeepLock, Push,
       PeekComplete, PeekPending, WaitComplete, ReturnFromWait, WaitSleep, SpuriousWake,
       IoCheck, IoSleep, IoTake, IoDrain, IoPublish, IoBatchDone, IoSpuriousWake,
       Destroy, Join, Gone, vars, ioVars
  <2>3. ioPc' = "publish" => ioPc = "publish" /\ cur' = cur
    BY <1>3 DEF Next, CallerStep, IoStep, Call, Reject, Admit, StartAndKeepLock, Push,
       PeekComplete, PeekPending, WaitComplete, ReturnFromWait, WaitSleep, SpuriousWake,
       IoCheck, IoSleep, IoTake, IoDrain, IoPublish, IoBatchDone, IoSpuriousWake,
       Destroy, Join, Gone, vars, ioVars
  <2>4. \A i : Ran(i)' <=> Ran(i)
    BY <2>1 DEF Ran
  <2> QED
    BY <2>1, <2>2, <2>3, <2>4
<1> QED
  BY <1>1, <1>2, <1>3

\* Once the destructor is entered, no step brings another caller back.
LEMMA DestroyInvStep == IInv /\ DestroyInv /\ [Next]_vars => DestroyInv'
<1> SUFFICES ASSUME IInv, DestroyInv, [Next]_vars PROVE DestroyInv'
  OBVIOUS
<1> USE CallersAssumption DEF DestroyInv, InCall
<1>0. /\ pc \in [Callers -> CallerStates] /\ calls \in [Callers -> 0 .. MaxCalls + 1]
      /\ op \in [Items -> Ops]
  BY DEF IInv, TypeOK
\* A step that leaves the ways in and out of a call alone.
<1>1. ASSUME UNCHANGED <<destroying, calls, op>>, stop => stop',
             \A c \in Callers : \/ pc'[c] = pc[c]
                                \/ /\ pc[c] \in {"entered", "admitted", "waiting", "locking", "asleep"}
                                   /\ pc'[c] \in {"entered", "admitted", "waiting", "locking", "asleep"}
      PROVE  DestroyInv'
  BY <1>1 DEF Item
<1>2. ASSUME NEW c \in Callers, NEW o \in Ops, Call(c, o)
      PROVE  DestroyInv'
  BY <1>0, <1>2 DEF Call, BeginCall
<1>3. CASE Destroy
  <2>1. /\ calls' = [calls EXCEPT ![Owner] = @ + 1]
        /\ op' = [op EXCEPT ![<<Owner, calls[Owner] + 1>>] = "close"]
        /\ pc' = [pc EXCEPT ![Owner] = "entered"]
        /\ ~destroying /\ destroying' /\ \A c \in Callers : pc[c] = "idle"
    BY <1>3 DEF Destroy, BeginCall
  <2>2. calls[Owner] + 1 \in 1 .. MaxCalls + 1
    BY <2>1, <1>0 DEF IInv, CallInv
  <2>3. op'[Item(Owner)'] = "close"
    BY <1>0, <2>1, <2>2, ItemsOfCallers DEF Item
  <2> QED
    BY <1>0, <2>1, <2>3
<1>4. ASSUME NEW c \in Callers, Reject(c) \/ PeekComplete(c) \/ WaitComplete(c)
      PROVE  DestroyInv'
  <2>1. /\ UNCHANGED <<destroying, calls, op, stop>> /\ InCall(c)
        /\ pc' = [pc EXCEPT ![c] = IF destroying THEN "joining" ELSE "idle"]
        /\ stop \/ complete[Item(c)]
    BY <1>4 DEF Reject, PeekComplete, WaitComplete, ReturnFromWait, Return
  <2>2. Item(c) \in Items
    BY <2>1, ItemOfCall DEF IInv
  <2>3. destroying => c = Owner /\ stop
    BY <2>1, <2>2 DEF IInv, CloseInv
  <2> QED
    BY <1>0, <2>1, <2>3
<1>5. CASE Join
  BY <1>0, <1>5 DEF Join, IInv, CallInv
<1>6. ASSUME NEW c \in Callers,
             Admit(c) \/ Push(c) \/ PeekPending(c) \/ WaitSleep(c) \/ SpuriousWake(c)
      PROVE  DestroyInv'
  <2>1. UNCHANGED <<destroying, calls, op, stop>>
    BY <1>6 DEF Admit, StartAndKeepLock, Push, PeekPending, WaitSleep, SpuriousWake
  <2>2. \E p \in {"admitted", "waiting", "locking", "asleep"} :
          pc[c] \in {"entered", "admitted", "waiting", "locking", "asleep"}
          /\ pc' = [pc EXCEPT ![c] = p]
    BY <1>6 DEF Admit, StartAndKeepLock, Push, PeekPending, WaitSleep, SpuriousWake
  <2>3. \A d \in Callers : \/ pc'[d] = pc[d]
                           \/ /\ pc[d] \in {"entered", "admitted", "waiting", "locking", "asleep"}
                              /\ pc'[d] \in {"entered", "admitted", "waiting", "locking", "asleep"}
    BY <1>0, <2>2
  <2> QED
    BY <1>1, <2>1, <2>3
<1>7. CASE IoPublish
  <2>1. UNCHANGED <<destroying, calls, op, stop>>
    BY <1>7 DEF IoPublish
  <2>2. \A d \in Callers : pc'[d] = IF pc[d] = "asleep" /\ Item(d) = cur THEN "locking" ELSE pc[d]
    BY <1>7 DEF IoPublish, WakeWaiters
  <2> QED
    BY <1>1, <2>1, <2>2
<1>8. CASE IoCheck \/ IoSleep \/ IoTake \/ IoDrain \/ IoRun \/ IoComplete \/ IoBatchDone
           \/ IoSpuriousWake \/ UNCHANGED vars
  <2>1. UNCHANGED <<destroying, calls, op, pc>> /\ (stop => stop')
    BY <1>8 DEF IoCheck, IoSleep, IoTake, IoDrain, IoRun, Perform, CloseAction, IoComplete,
       IoBatchDone, IoSpuriousWake, vars, callerVars
  <2> QED
    BY <1>1, <2>1
<1> QED
  BY <1>2, <1>3, <1>4, <1>5, <1>6, <1>7, <1>8 DEF Next, CallerStep, IoStep, Gone

\* The invariants of the refinement hold of a new object.
LEMMA RefInitially == Init => RefInv
<1> SUFFICES ASSUME Init PROVE RefInv
  OBVIOUS
<1>1. RanInv
  BY DEF Init, RanInv, Ran
<1>2. DestroyInv
  BY DEF Init, DestroyInv
<1> QED
  BY <1>1, <1>2, InitInv DEF RefInv

-----------------------------------------------------------------------------
\* What SerialFile sees of a caller.
Request(c) == IF Phase(c) \in {"called", "done"} THEN op[Item(c)] ELSE "none"
Outcome(c) == Phase(c) = "done" /\ outcome[Item(c)]

Same(c) == Phase(c)' = Phase(c) /\ Request(c)' = Request(c) /\ Outcome(c)' = Outcome(c)

\* Where SerialFile sees a caller, by where the code has it.
LEMMA PhaseIs ==
  ASSUME IInv, NEW c \in Callers
  PROVE  /\ InCall(c) => Phase(c) = IF Ran(Item(c)) THEN "done" ELSE "called"
         /\ pc[c] \in {"idle", "joining"} => Phase(c) = "idle"
         /\ pc[c] = "gone" => Phase(c) = "gone"
         /\ InCall(c) \/ pc[c] \in {"idle", "joining", "gone"}
BY DEF IInv, TypeOK, CallerStates, InCall, Phase

\* A caller looks the same when its item does.
LEMMA SameWhen ==
  ASSUME IInv, IInv', NEW c \in Callers,
         InCall(c) <=> InCall(c)', ~InCall(c) => pc'[c] = pc[c],
         InCall(c) => /\ Item(c)' = Item(c)
                      /\ op'[Item(c)] = op[Item(c)]
                      /\ Ran(Item(c)) <=> Ran(Item(c))'
                      /\ Ran(Item(c)) => outcome'[Item(c)] = outcome[Item(c)]
  PROVE  Same(c)
<1>1. CASE InCall(c)
  <2>1. Phase(c) = (IF Ran(Item(c)) THEN "done" ELSE "called")
    BY <1>1, PhaseIs
  <2>2. Phase(c)' = (IF Ran(Item(c))' THEN "done" ELSE "called")
    BY <1>1 DEF InCall, Phase
  <2>3. Phase(c)' = Phase(c)
    BY <1>1, <2>1, <2>2
  <2> QED
    BY <1>1, <2>1, <2>3 DEF Same, Request, Outcome
<1>2. CASE ~InCall(c)
  <2>1. Phase(c) \in {"idle", "gone"} /\ Phase(c)' = Phase(c)
    BY <1>2, PhaseIs DEF Phase, InCall
  <2> QED
    BY <2>1 DEF Same, Request, Outcome
<1> QED
  BY <1>1, <1>2

\* A step of one caller changes what SerialFile sees of it only.
LEMMA OneCaller ==
  ASSUME NEW c \in Callers, NEW p, NEW q, NEW r,
         \A d \in Callers \ {c} : Same(d),
         Phase(c)' = p, Request(c)' = q, Outcome(c)' = r
  PROVE  /\ [d \in Callers |-> Phase(d)]' = [[d \in Callers |-> Phase(d)] EXCEPT ![c] = p]
         /\ [d \in Callers |-> Request(d)]' = [[d \in Callers |-> Request(d)] EXCEPT ![c] = q]
         /\ [d \in Callers |-> Outcome(d)]' = [[d \in Callers |-> Outcome(d)] EXCEPT ![c] = r]
<1>1. [d \in Callers |-> Phase(d)]' = [[d \in Callers |-> Phase(d)] EXCEPT ![c] = p]
  BY DEF Same
<1>2. [d \in Callers |-> Request(d)]' = [[d \in Callers |-> Request(d)] EXCEPT ![c] = q]
  BY DEF Same
<1>3. [d \in Callers |-> Outcome(d)]' = [[d \in Callers |-> Outcome(d)] EXCEPT ![c] = r]
  BY DEF Same
<1> QED
  BY <1>1, <1>2, <1>3

\* Between a call's return and the next one nothing more is told of it.
LEMMA NothingTold ==
  ASSUME UNCHANGED <<calls, ret>>
  PROVE  [d \in Callers |-> Answered(d)]' = [d \in Callers |-> Answered(d)]
BY DEF Answered, Item

\* What a step of one caller tells SerialFile.
LEMMA OneTold ==
  ASSUME NEW c \in Callers, NEW a, Answered(c)' = a,
         \A d \in Callers \ {c} : Answered(d)' = Answered(d)
  PROVE  [d \in Callers |-> Answered(d)]' = [[d \in Callers |-> Answered(d)] EXCEPT ![c] = a]
OBVIOUS

\* A call that returns tells its own caller, and nobody else.
LEMMA ReturnTells ==
  ASSUME IInv, NEW c \in Callers, InCall(c), NEW r, Return(c, r), UNCHANGED calls
  PROVE  [d \in Callers |-> Answered(d)]' =
           [[d \in Callers |-> Answered(d)] EXCEPT
              ![c] = IF r = "rejected" THEN "false" ELSE r]
<1>1. /\ ret' = [ret EXCEPT ![Item(c)] = r] /\ calls' = calls
      /\ \A d \in Callers : Item(d)' = Item(d)
  BY DEF Return, Item
<1>2. /\ Item(c) \in Items /\ calls[c] # 0
      /\ ret \in [Items -> {"none", "true", "false", "rejected"}]
      /\ calls \in [Callers -> 0 .. MaxCalls + 1]
  BY ItemOfCall, CallersAssumption DEF IInv, TypeOK, CallInv
<1>3. ret'[Item(c)] = r
  BY <1>1, <1>2
<1>4. Answered(c)' = (IF r = "rejected" THEN "false" ELSE r)
  BY <1>1, <1>2, <1>3 DEF Answered
<1>5. ASSUME NEW d \in Callers \ {c} PROVE Answered(d)' = Answered(d)
  <2>1. Item(d) # Item(c)
    BY DEF Item
  <2>2. calls[d] # 0 => Item(d) \in Items
    BY <1>2, CallersAssumption, ItemsOfCallers DEF Item
  <2>3. calls[d] # 0 => ret'[Item(d)] = ret[Item(d)]
    BY <1>1, <1>2, <2>1, <2>2
  <2> QED
    BY <1>1, <2>3 DEF Answered
<1> QED
  BY <1>4, <1>5, OneTold

\* A new call has not been answered.
LEMMA BeginTells ==
  ASSUME IInv, NEW c \in Callers, NEW o, BeginCall(c, o), UNCHANGED ret,
         calls[c] + 1 \in 1 .. MaxCalls + 1
  PROVE  [d \in Callers |-> Answered(d)]' =
           [[d \in Callers |-> Answered(d)] EXCEPT ![c] = "none"]
<1>1. /\ calls' = [calls EXCEPT ![c] = @ + 1] /\ ret' = ret
      /\ calls \in [Callers -> 0 .. MaxCalls + 1]
      /\ ret \in [Items -> {"none", "true", "false", "rejected"}]
  BY DEF BeginCall, IInv, TypeOK
<1> DEFINE n == <<c, calls[c] + 1>>
<1>2. calls[c] \in Nat /\ calls'[c] = calls[c] + 1 /\ Item(c)' = n /\ n \in Items
  BY <1>1, CallersAssumption, ItemsOfCallers DEF Item
<1>3. ret[n] = "none"
  <2>1. ret[n] # "none" => calls[c] + 1 <= calls[c]
    BY <1>2 DEF IInv, CloseInv
  <2> QED
    BY <1>2, <2>1
<1>4. Answered(c)' = "none"
  BY <1>1, <1>2, <1>3 DEF Answered
<1>5. ASSUME NEW d \in Callers \ {c} PROVE Answered(d)' = Answered(d)
  <2>1. calls'[d] = calls[d] /\ Item(d)' = Item(d)
    BY <1>1 DEF Item
  <2> QED
    BY <1>1, <2>1 DEF Answered
<1> QED
  BY <1>4, <1>5, OneTold

\* When all callers look the same, SerialFile does not move.
LEMMA NobodySees ==
  ASSUME \A d \in Callers : Same(d), UNCHANGED <<calls, ret, fileOpen, stop>>
  PROVE  UNCHANGED Serial!vars
<1>1. [d \in Callers |-> Phase(d)]' = [d \in Callers |-> Phase(d)]
  BY DEF Same
<1>2. [d \in Callers |-> Request(d)]' = [d \in Callers |-> Request(d)]
  BY DEF Same
<1>3. [d \in Callers |-> Outcome(d)]' = [d \in Callers |-> Outcome(d)]
  BY DEF Same
<1> QED
  BY <1>1, <1>2, <1>3, NothingTold DEF Serial!vars, Request, Outcome

\* A step that runs no action and neither begins nor ends a call of d.
LEMMA StillThere ==
  ASSUME IInv, IInv', NEW d \in Callers, UNCHANGED <<op, ran, outcome>>, calls'[d] = calls[d],
         pc'[d] = pc[d] \/ (InCall(d) /\ InCall(d)')
  PROVE  Same(d)
<1>1. Item(d)' = Item(d)
  BY DEF Item
<1>2. Ran(Item(d))' <=> Ran(Item(d))
  BY <1>1 DEF Ran
<1>3. InCall(d) <=> InCall(d)'
  BY DEF InCall
<1>4. ~InCall(d) => pc'[d] = pc[d]
  OBVIOUS
<1> QED
  BY <1>1, <1>2, <1>3, <1>4, SameWhen

\* Entering do_io is the start of a call: its item has not been run yet.
LEMMA BeginIsInvoke ==
  ASSUME IInv, IInv', NEW c \in Callers, NEW o \in Ops, pc[c] = "idle", BeginCall(c, o),
         calls[c] + 1 \in 1 .. MaxCalls + 1, UNCHANGED <<ret, ran, outcome, fileOpen, stop>>
  PROVE  Serial!Invoke(c, o)
<1> DEFINE n == <<c, calls[c] + 1>>
<1>a. [d \in Callers |-> Answered(d)]' = [[d \in Callers |-> Answered(d)] EXCEPT ![c] = "none"]
  BY BeginTells
<1>0. /\ calls \in [Callers -> 0 .. MaxCalls + 1] /\ op \in [Items -> Ops]
      /\ pc \in [Callers -> CallerStates] /\ n \in Items /\ ran \in Seq(Items)
  BY ItemsOfCallers DEF IInv, TypeOK
<1>1. /\ calls' = [calls EXCEPT ![c] = @ + 1] /\ op' = [op EXCEPT ![n] = o]
      /\ pc' = [pc EXCEPT ![c] = "entered"]
  BY DEF BeginCall
<1>2. Item(c)' = n
  BY <1>0, <1>1 DEF Item
<1>3. ~Ran(n)
  <2>1. calls[c] \in Nat
    BY <1>0, CallersAssumption
  <2> QED
    BY <2>1 DEF Ran, IInv, LateInv
<1>4. ~Ran(Item(c))'
  BY <1>2, <1>3 DEF Ran
<1>5. Phase(c) = "idle" /\ Phase(c)' = "called"
  BY <1>0, <1>1, <1>4 DEF Phase
<1>6. Request(c)' = o /\ Outcome(c)' = FALSE /\ Outcome(c) = FALSE
  BY <1>0, <1>1, <1>2, <1>5 DEF Request, Outcome
<1>7. ASSUME NEW d \in Callers \ {c} PROVE Same(d)
  <2>1. Item(d)' = Item(d) /\ pc'[d] = pc[d] /\ Item(d) # n
    BY <1>0, <1>1 DEF Item
  <2>2. InCall(d) => Item(d) \in Items
    BY ItemOfCall DEF IInv
  <2>3. InCall(d) => op'[Item(d)] = op[Item(d)]
    BY <1>0, <1>1, <2>1, <2>2
  <2>4. Ran(Item(d)) <=> Ran(Item(d))'
    BY <2>1 DEF Ran
  <2>5. InCall(d) <=> InCall(d)'
    BY <2>1 DEF InCall
  <2> QED
    BY <2>1, <2>3, <2>4, <2>5, SameWhen
<1>8. /\ [d \in Callers |-> Phase(d)]' = [[d \in Callers |-> Phase(d)] EXCEPT ![c] = "called"]
      /\ [d \in Callers |-> Request(d)]' = [[d \in Callers |-> Request(d)] EXCEPT ![c] = o]
  BY <1>5, <1>6, <1>7, OneCaller
<1>9. [d \in Callers |-> Outcome(d)]' = [d \in Callers |-> Outcome(d)]
  BY <1>6, <1>7 DEF Same
<1> QED
  BY <1>a, <1>5, <1>8, <1>9 DEF Serial!Invoke, Request, Outcome

\* What Reject, PeekComplete and WaitComplete have in common.
LEMMA ReturnIsSeen ==
  ASSUME IInv, IInv', NEW c \in Callers, NEW r, Return(c, r),
         UNCHANGED <<calls, op, ran, outcome>>
  PROVE  /\ [d \in Callers |-> Phase(d)]' = [[d \in Callers |-> Phase(d)] EXCEPT ![c] = "idle"]
         /\ [d \in Callers |-> Request(d)]' = [[d \in Callers |-> Request(d)] EXCEPT ![c] = "none"]
         /\ [d \in Callers |-> Outcome(d)]' = [[d \in Callers |-> Outcome(d)] EXCEPT ![c] = FALSE]
<1>1. /\ pc \in [Callers -> CallerStates]
      /\ pc' = [pc EXCEPT ![c] = IF destroying THEN "joining" ELSE "idle"]
  BY DEF IInv, TypeOK, Return
<1>2. pc'[c] \in {"idle", "joining"} /\ \A d \in Callers \ {c} : pc'[d] = pc[d]
  BY <1>1
<1>3. Phase(c)' = "idle"
  BY <1>2 DEF Phase
<1>4. Request(c)' = "none" /\ Outcome(c)' = FALSE
  BY <1>3 DEF Request, Outcome
<1>5. ASSUME NEW d \in Callers \ {c} PROVE Same(d)
  BY <1>2, StillThere
<1>6. [d \in Callers |-> Phase(d)]' = [[d \in Callers |-> Phase(d)] EXCEPT ![c] = "idle"]
  BY <1>3, <1>5 DEF Same
<1>7. [d \in Callers |-> Request(d)]' = [[d \in Callers |-> Request(d)] EXCEPT ![c] = "none"]
  BY <1>4, <1>5 DEF Same
<1>8. [d \in Callers |-> Outcome(d)]' = [[d \in Callers |-> Outcome(d)] EXCEPT ![c] = FALSE]
  BY <1>4, <1>5 DEF Same
<1> QED
  BY <1>6, <1>7, <1>8

\* do_io gives up: the call has had no effect, and the file is closed.
LEMMA RejectIsRefuse ==
  ASSUME IInv, RanInv, IInv', NEW c \in Callers, Reject(c)
  PROVE  Serial!Refuse(c)
<1>1. InCall(c) /\ pc[c] = "entered" /\ stop /\ Return(c, "rejected")
      /\ UNCHANGED <<calls, op, ran, outcome, fileOpen, stop>>
  BY DEF Reject, InCall
<1>2. Item(c) \in Items /\ ~complete[Item(c)]
  BY <1>1, ItemOfCall DEF IInv, CallInv
<1>3. ~(ioPc = "ran" /\ cur = Item(c))
  BY <1>1, <1>2 DEF IInv, CapturesAlive, Waiting, Item
<1>4. Phase(c) = "called" /\ Outcome(c) = FALSE
  BY <1>1, <1>2, <1>3, PhaseIs DEF RanInv, Outcome
<1>5. /\ [d \in Callers |-> Phase(d)]' = [[d \in Callers |-> Phase(d)] EXCEPT ![c] = "idle"]
      /\ [d \in Callers |-> Request(d)]' = [[d \in Callers |-> Request(d)] EXCEPT ![c] = "none"]
      /\ [d \in Callers |-> Outcome(d)]' = [[d \in Callers |-> Outcome(d)] EXCEPT ![c] = FALSE]
  BY <1>1, ReturnIsSeen
<1>6. [d \in Callers |-> Outcome(d)]' = [d \in Callers |-> Outcome(d)]
  BY <1>4, <1>5
<1>7. [d \in Callers |-> Answered(d)]' = [[d \in Callers |-> Answered(d)] EXCEPT ![c] = "false"]
  BY <1>1, ReturnTells
<1> QED
  BY <1>1, <1>4, <1>5, <1>6, <1>7 DEF Serial!Refuse, Request, Outcome

\* wait() returns on `complete`: the call has taken effect.
LEMMA AnswerIsReturn ==
  ASSUME IInv, RanInv, IInv', NEW c \in Callers, PeekComplete(c) \/ WaitComplete(c)
  PROVE  Serial!Return(c)
<1>1. /\ InCall(c) /\ complete[Item(c)]
      /\ UNCHANGED <<calls, op, ran, outcome, fileOpen, stop>>
  BY DEF PeekComplete, WaitComplete, ReturnFromWait, InCall
<1>2. PICK seen \in {FALSE, Told(Item(c))} : Return(c, Bool(seen))
  BY DEF PeekComplete, WaitComplete, ReturnFromWait
<1>3. Item(c) \in Items
  BY <1>1, ItemOfCall DEF IInv
<1>4. Phase(c) = "done"
  BY <1>1, <1>3, PhaseIs DEF RanInv
<1>5. /\ [d \in Callers |-> Phase(d)]' = [[d \in Callers |-> Phase(d)] EXCEPT ![c] = "idle"]
      /\ [d \in Callers |-> Request(d)]' = [[d \in Callers |-> Request(d)] EXCEPT ![c] = "none"]
      /\ [d \in Callers |-> Outcome(d)]' = [[d \in Callers |-> Outcome(d)] EXCEPT ![c] = FALSE]
  BY <1>1, <1>2, ReturnIsSeen
<1>6. seen => Outcome(c)
  BY <1>1, <1>3, <1>4 DEF Told, IInv, ResultInv, Outcome
<1>7. Bool(seen) \in {"false"} \cup (IF Outcome(c) THEN {"true"} ELSE {})
  BY <1>6 DEF Bool
<1>8. [d \in Callers |-> Answered(d)]' = [[d \in Callers |-> Answered(d)] EXCEPT ![c] = Bool(seen)]
  BY <1>1, <1>2, ReturnTells DEF Bool
<1> HIDE DEF Bool
<1> QED
  BY <1>1, <1>4, <1>5, <1>7, <1>8 DEF Serial!Return, Request, Outcome

\* Running the action is the moment at which its call takes effect.
LEMMA RunTakesEffect ==
  ASSUME IInv, RanInv, IInv', IoRun
  PROVE  \E c \in Callers : Serial!TakeEffect(c)
<1>0. PICK i \in Items : cur' = i /\ i = Head(batch)
  BY HeadTail DEF IoRun, IInv, TypeOK
<1>1a. PICK c \in Callers : c = i[1]
  BY <1>0, ItemParts
<1>1. PICK r \in BOOLEAN : Perform(op[cur'], r) /\ outcome' = [outcome EXCEPT ![cur'] = r]
  BY DEF IoRun
<1>2. /\ cur' = i /\ ran' = Append(ran, i) /\ ioPc = "running" /\ batch # <<>>
      /\ UNCHANGED <<pc, calls, op>>
  BY <1>0 DEF IoRun, callerVars
<1>3. /\ i \in Items /\ ran \in Seq(Items) /\ c \in Callers
      /\ outcome \in [Items -> BOOLEAN] /\ InBatch(i)
  <2>1. batch \in Seq(Items) /\ ran \in Seq(Items) /\ outcome \in [Items -> BOOLEAN]
    BY DEF IInv, TypeOK
  <2>2. i \in Items /\ InBatch(i)
    BY <1>0, <1>2, <2>1, HeadTail DEF InBatch
  <2> QED
    BY <2>1, <2>2
<1>4. Waiting(c, i) /\ ~complete[i]
  BY <1>1a, <1>3 DEF IInv, CapturesAlive
<1>5. Item(c) = i /\ InCall(c) /\ ~Ran(i)
  BY <1>2, <1>3, <1>4 DEF Waiting, InCall, RanInv
<1>6. \A j \in Items : Ran(j)' <=> Ran(j) \/ j = i
  BY <1>2, <1>3, AppendMembers DEF Ran
<1>7. Item(c)' = i /\ InCall(c)'
  BY <1>2, <1>5 DEF Item, InCall
<1>8. Phase(c) = "called" /\ Request(c) = op[i]
  BY <1>3, <1>5, PhaseIs DEF Request
<1>9. Phase(c)' = "done" /\ Request(c)' = op[i] /\ Outcome(c)' = r
  <2>1. Ran(Item(c))'
    BY <1>3, <1>6, <1>7
  <2>2. Phase(c)' = "done"
    BY <1>7, <2>1 DEF Phase, InCall
  <2>3. outcome'[i] = r
    BY <1>1, <1>2, <1>3
  <2> QED
    BY <1>2, <1>7, <2>2, <2>3 DEF Request, Outcome
<1>10. ASSUME NEW d \in Callers \ {c} PROVE Same(d)
  <2>1. Item(d)' = Item(d) /\ pc'[d] = pc[d] /\ op' = op /\ Item(d) # i
    BY <1>1a, <1>2 DEF Item
  <2>2. InCall(d) => Item(d) \in Items
    BY ItemOfCall DEF IInv
  <2>3. InCall(d) => outcome'[Item(d)] = outcome[Item(d)]
    BY <1>1, <1>2, <1>3, <2>1, <2>2
  <2>4. InCall(d) => (Ran(Item(d)) <=> Ran(Item(d))')
    BY <1>6, <2>1, <2>2
  <2>5. InCall(d) <=> InCall(d)'
    BY <2>1 DEF InCall
  <2> QED
    BY <2>1, <2>3, <2>4, <2>5, SameWhen
<1>11. /\ [d \in Callers |-> Phase(d)]' = [[d \in Callers |-> Phase(d)] EXCEPT ![c] = "done"]
       /\ [d \in Callers |-> Outcome(d)]' = [[d \in Callers |-> Outcome(d)] EXCEPT ![c] = r]
  BY <1>3, <1>9, <1>10, OneCaller
<1>12. [d \in Callers |-> Request(d)]' = [d \in Callers |-> Request(d)]
  BY <1>8, <1>9, <1>10 DEF Same
<1>13. Serial!Effect(Request(c), r)
  BY <1>1, <1>2, <1>8 DEF Serial!Effect, Perform, CloseAction
<1>14. [d \in Callers |-> Answered(d)]' = [d \in Callers |-> Answered(d)]
  BY NothingTold DEF IoRun, callerVars
<1>15. Serial!TakeEffect(c)
  BY <1>3, <1>8, <1>11, <1>12, <1>13, <1>14 DEF Serial!TakeEffect, Request, Outcome
<1> QED
  BY <1>3, <1>15

\* The thread is joined when nobody else is left and the file is closed.
LEMMA JoinIsDestroyed ==
  ASSUME IInv, DestroyInv, IInv', Join
  PROVE  Serial!Destroyed
<1>1. /\ pc[Owner] = "joining" /\ pc' = [pc EXCEPT ![Owner] = "gone"]
      /\ UNCHANGED <<calls, op, ran, outcome, fileOpen, stop>>
      /\ pc \in [Callers -> CallerStates] /\ Owner \in Callers
  BY CallersAssumption DEF Join, IInv, TypeOK
<1>2. stop /\ \A c \in Callers : Phase(c) = "idle"
  BY <1>1 DEF DestroyInv, Phase
<1>3. Phase(Owner)' = "gone"
  BY <1>1 DEF Phase
<1>4. /\ Request(Owner)' = "none" /\ Outcome(Owner)' = FALSE
      /\ Request(Owner) = "none" /\ Outcome(Owner) = FALSE
  BY <1>1, <1>2, <1>3 DEF Request, Outcome
<1>5. ASSUME NEW d \in Callers \ {Owner} PROVE Same(d)
  BY <1>1, StillThere
<1>6. [d \in Callers |-> Phase(d)]' = [[d \in Callers |-> Phase(d)] EXCEPT ![Owner] = "gone"]
  BY <1>1, <1>3, <1>4, <1>5, OneCaller
<1>7. /\ [d \in Callers |-> Request(d)]' = [d \in Callers |-> Request(d)]
      /\ [d \in Callers |-> Outcome(d)]' = [d \in Callers |-> Outcome(d)]
  BY <1>4, <1>5 DEF Same
<1>8. [d \in Callers |-> Answered(d)]' = [d \in Callers |-> Answered(d)]
  BY NothingTold DEF Join
<1> QED
  BY <1>1, <1>2, <1>6, <1>7, <1>8 DEF Serial!Destroyed, Request, Outcome

\* Everything else goes on inside.
LEMMA TheRestIsHidden ==
  ASSUME IInv, IInv', UNCHANGED <<calls, op, ret, ran, outcome, fileOpen, stop>>,
         \A c \in Callers : pc'[c] = pc[c] \/ (InCall(c) /\ InCall(c)')
  PROVE  UNCHANGED Serial!vars
<1>1. \A d \in Callers : Same(d)
  BY StillThere
<1> QED
  BY <1>1, NobodySees

\* Every step of the code is one of SerialFile, or one it does not see.
LEMMA StepIsSerial ==
  ASSUME IInv, RanInv, DestroyInv, IInv', [Next]_vars
  PROVE  [Serial!Next]_Serial!vars
<1>1. ASSUME NEW c \in Callers, NEW o \in Ops, Call(c, o) PROVE Serial!Next
  <2>1. calls[c] + 1 \in 1 .. MaxCalls + 1
    BY <1>1, CallersAssumption DEF Call, IInv, TypeOK
  <2>2. Serial!Invoke(c, o)
    BY <1>1, <2>1, BeginIsInvoke DEF Call
  <2> QED
    BY <2>2 DEF Serial!Next, Ops
<1>2. CASE Destroy
  <2>1. Owner \in Callers /\ "close" \in Ops
    BY CallersAssumption DEF Ops
  <2>2. calls[Owner] + 1 \in 1 .. MaxCalls + 1
    <3>1. calls[Owner] \in 0 .. MaxCalls + 1 /\ calls[Owner] <= MaxCalls
      BY <1>2, <2>1 DEF Destroy, IInv, TypeOK, CallInv
    <3> QED
      BY <3>1, CallersAssumption
  <2>3. Serial!Invoke(Owner, "close")
    BY <1>2, <2>1, <2>2, BeginIsInvoke DEF Destroy
  <2> QED
    BY <2>1, <2>3 DEF Serial!Next
<1>3. ASSUME NEW c \in Callers, Reject(c) PROVE Serial!Next
  BY <1>3, RejectIsRefuse DEF Serial!Next, Serial!Answer
<1>4. ASSUME NEW c \in Callers, PeekComplete(c) \/ WaitComplete(c) PROVE Serial!Next
  BY <1>4, AnswerIsReturn DEF Serial!Next, Serial!Answer
<1>5. CASE IoRun
  BY <1>5, RunTakesEffect DEF Serial!Next, Serial!Answer
<1>6. CASE Join
  BY <1>6, JoinIsDestroyed DEF Serial!Next
<1>7. ASSUME NEW c \in Callers,
             Admit(c) \/ Push(c) \/ PeekPending(c) \/ WaitSleep(c) \/ SpuriousWake(c)
      PROVE  UNCHANGED Serial!vars
  <2>1. UNCHANGED <<calls, op, ret, ran, outcome, fileOpen, stop>>
    BY <1>7 DEF Admit, StartAndKeepLock, Push, PeekPending, WaitSleep, SpuriousWake
  <2>2. \E p \in {"admitted", "waiting", "locking", "asleep"} :
          InCall(c) /\ pc' = [pc EXCEPT ![c] = p]
    BY <1>7 DEF Admit, StartAndKeepLock, Push, PeekPending, WaitSleep, SpuriousWake, InCall
  <2>3. pc \in [Callers -> CallerStates]
    BY DEF IInv, TypeOK
  <2>4. \A d \in Callers : pc'[d] = pc[d] \/ (InCall(d) /\ InCall(d)')
    BY <2>2, <2>3 DEF InCall
  <2> QED
    BY <2>1, <2>4, TheRestIsHidden
<1>8. CASE IoPublish
  <2>1. UNCHANGED <<calls, op, ret, ran, outcome, fileOpen, stop>>
    BY <1>8 DEF IoPublish
  <2>2. \A d \in Callers : pc'[d] = pc[d] \/ (InCall(d) /\ InCall(d)')
    BY <1>8 DEF IoPublish, WakeWaiters, InCall
  <2> QED
    BY <2>1, <2>2, TheRestIsHidden
<1>9. CASE IoCheck \/ IoSleep \/ IoTake \/ IoDrain \/ IoComplete \/ IoBatchDone
           \/ IoSpuriousWake \/ UNCHANGED vars
  <2>1. UNCHANGED <<calls, op, ret, ran, outcome, fileOpen, stop, pc>>
    BY <1>9 DEF IoCheck, IoSleep, IoTake, IoDrain, IoComplete, IoBatchDone,
       IoSpuriousWake, vars, callerVars
  <2> QED
    BY <2>1, TheRestIsHidden
<1> QED
  BY <1>1, <1>2, <1>3, <1>4, <1>5, <1>6, <1>7, <1>8, <1>9
     DEF Next, CallerStep, IoStep, Gone

\* A new object is a new serial file.
LEMMA InitIsSerial == Init => Serial!Init
<1> SUFFICES ASSUME Init PROVE Serial!Init
  OBVIOUS
<1>1. \A c \in Callers : Phase(c) = "idle"
  BY DEF Init, Phase
<1>2. \A c \in Callers : Answered(c) = "none"
  BY DEF Init, Answered
<1> QED
  BY <1>1, <1>2 DEF Init, Serial!Init

\* The safety half of ImplementsSerialFile, for any number of callers and calls:
\* an operation takes effect once, alone, between its call and its return, or is
\* refused by a closed file, and its caller is told that it succeeded only when it
\* did.
THEOREM Refines == Spec => Serial!SafeSpec
<1>1. Init => RefInv /\ Serial!Init
  BY RefInitially, InitIsSerial
<1>2. IInv /\ IInv' /\ RanInv /\ DestroyInv /\ [Next]_vars => RanInv' /\ DestroyInv'
  BY RanStep, DestroyInvStep
<1>3. IInv /\ IInv' /\ RanInv /\ DestroyInv /\ [Next]_vars => [Serial!Next]_Serial!vars
  BY StepIsSerial
<1> QED
  BY Inductive, <1>1, <1>2, <1>3, PTL DEF Spec, RefInv, Serial!SafeSpec
=============================================================================
