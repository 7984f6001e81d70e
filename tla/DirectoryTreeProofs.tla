------------------------ MODULE DirectoryTreeProofs ------------------------
(***************************************************************************)
(* Proofs about DirectoryTree, for any tree, any number of workers, calls  *)
(* and retries and any amount of trouble: what a copy, a move or a removal *)
(* that was reported successful has done, what a move never loses, and     *)
(* that removals which run into each other finish the work between them.   *)
(***************************************************************************)
EXTENDS DirectoryTree, TLAPS

\* A move to the place the source has already counts as one.
Copies == {"copy", "move", "stay"}

\* One worker copies or moves; any number remove.
OneCopier ==
  \A v, w \in Workers :
    MayCall[v] \intersect Copies # {} /\ MayCall[w] \intersect Copies # {} => v = w

CopyPhase   == {"move_check", "move_make", "copy_check", "copy_open", "copy", "copied",
                "move_stop"}
RemovePhase == {"enter", "open", "walk", "unlink", "unlinking", "rmdir", "rmdiring"}

Jobs == [op : Operations, landing : Places, over : BOOLEAN, cur : Dirs,
         entry : Entries, tries : Nat]

TreeType ==
  /\ there \subseteq Entries
  /\ whole = [p \in Places |-> whole[p]]
  /\ at = [w \in Workers |-> at[w]]
  /\ job \in [Workers -> Jobs]
  /\ todo = [w \in Workers |-> todo[w]]
  /\ steady \in [Workers -> SUBSET TopFiles]
  /\ ret = [w \in Workers |-> ret[w]]

Landed(w) == whole[job[w].landing]

\* Which call a worker is in tells where it may be.
Phases(w) ==
  /\ job[w].op \in Copies => job[w].op \in MayCall[w]
  /\ at[w] \in CopyPhase => job[w].op \in Copies
  /\ at[w] = "move_check" => job[w].op \in {"move", "stay"}
  /\ at[w] \in {"move_make", "move_stop"} => job[w].op = "move"
  /\ at[w] \in RemovePhase => job[w].op \in {"move", "remove"}
  /\ at[w] \in CopyPhase \union RemovePhase \union {"idle"}

\* Where the files are that a copy or a move has to bring over: in the source
\* until the copy is done, ahead of the traversal or copied while it goes on,
\* and copied before the removal begins.
Safe(w) ==
  /\ at[w] \in CopyPhase => steady[w] \subseteq there
  /\ at[w] = "copy" => /\ Root \in DOMAIN todo[w]
                       /\ steady[w] \subseteq todo[w][Root] \union Landed(w)
  /\ at[w] \in {"copied", "move_stop"} => stop \/ steady[w] \subseteq Landed(w)
  /\ at[w] \in RemovePhase /\ job[w].op = "move" => steady[w] \subseteq Landed(w)
  /\ at[w] = "idle" /\ job[w].op = "move" => steady[w] \subseteq there \union Landed(w)

\* A copy that has been reported successful.
Reported(w) ==
  ret[w] = [op |-> "copy", ok |-> TRUE] =>
    /\ at[w] = "idle" /\ job[w].op = "copy"
    /\ steady[w] \subseteq Landed(w)

WorkerInv(w) == Phases(w) /\ Safe(w) /\ Reported(w)

TreeInv == TreeType /\ \A w \in Workers : WorkerInv(w)

-----------------------------------------------------------------------------
\* No call is under way at the start.
LEMMA TreeInit == Init => TreeInv
<1> SUFFICES ASSUME Init PROVE TreeInv
  OBVIOUS
<1> USE DirectoryAssumption
<1>1. TreeType
  BY DEF Init, TreeType, Jobs, Operations, Places, Entries
<1>2. \A w \in Workers : Phases(w)
  BY DEF Init, Phases, Copies, CopyPhase, RemovePhase
<1>3. \A w \in Workers : Safe(w)
  BY DEF Init, Safe, CopyPhase, RemovePhase
<1>4. \A w \in Workers : Reported(w)
  BY DEF Init, Reported
<1> QED
  BY <1>1, <1>2, <1>3, <1>4 DEF TreeInv, WorkerInv

\* A step of v, seen from another worker: it may take entries out of the source,
\* and copies only if the other one does not.
Apart(v) ==
  /\ \A w \in Workers \ {v} : /\ at'[w] = at[w] /\ job'[w] = job[w]
                              /\ todo'[w] = todo[w] /\ ret'[w] = ret[w]
  /\ UNCHANGED stop
  /\ \E X : /\ there' = there \ X
            /\ \A w \in Workers \ {v} : steady'[w] = steady[w] \ X
  /\ UNCHANGED whole \/ at[v] \in CopyPhase

\* What a step of one worker leaves true of each of the others.
LEMMA OthersKeep ==
  ASSUME OneCopier, TreeInv, NEW v \in Workers, Apart(v), NEW w \in Workers \ {v}
  PROVE  WorkerInv(w)'
<1>1. /\ at'[w] = at[w] /\ job'[w] = job[w] /\ todo'[w] = todo[w]
      /\ ret'[w] = ret[w] /\ stop' = stop
  BY DEF Apart
<1>2. PICK X : there' = there \ X /\ steady'[w] = steady[w] \ X
  BY DEF Apart
<1>3. WorkerInv(w) /\ WorkerInv(v)
  BY DEF TreeInv
<1>4. job[w].op \in Copies => whole' = whole
  BY <1>3 DEF Apart, WorkerInv, Phases, OneCopier
<1>5. Phases(w)'
  BY <1>1, <1>3 DEF WorkerInv, Phases
<1>6. Safe(w)'
  <2>1. CASE job[w].op \in Copies
    BY <1>1, <1>2, <1>3, <1>4, <2>1 DEF WorkerInv, Safe, Landed
  <2>2. CASE job[w].op \notin Copies
    BY <1>1, <1>3, <2>2 DEF WorkerInv, Safe, Phases, Copies, CopyPhase
  <2> QED
    BY <2>1, <2>2
<1>7. Reported(w)'
  BY <1>1, <1>2, <1>3, <1>4 DEF WorkerInv, Reported, Landed, Copies
<1> QED
  BY <1>5, <1>6, <1>7 DEF WorkerInv

\* So a step need be looked at for its own worker only.
LEMMA StepKeeps ==
  ASSUME OneCopier, TreeInv, NEW v \in Workers, Apart(v), TreeType', WorkerInv(v)'
  PROVE  TreeInv'
  BY OthersKeep DEF TreeInv

-----------------------------------------------------------------------------
\* The pieces the steps are made of.
Shapes ==
  /\ at = [w \in Workers |-> at[w]]
  /\ todo = [w \in Workers |-> todo[w]]
  /\ ret = [w \in Workers |-> ret[w]]

OthersShapes(v) ==
  \A w \in Workers \ {v} : at'[w] = at[w] /\ todo'[w] = todo[w] /\ ret'[w] = ret[w]

OthersJobs(v) == \A w \in Workers \ {v} : job'[w] = job[w]

\* What a return does to the shapes of the state.
LEMMA ReturnMoves ==
  ASSUME Shapes, NEW v \in Workers, NEW ok, Return(v, ok)
  PROVE  /\ Shapes' /\ OthersShapes(v)
         /\ at'[v] = "idle" /\ ret'[v] = [op |-> job[v].op, ok |-> ok]
  BY DEF Shapes, OthersShapes, Return, Goto

\* What going on to another place in the code does to them.
LEMMA GotoMoves ==
  ASSUME Shapes, NEW v \in Workers, NEW p, Goto(v, p), UNCHANGED ret,
         \/ UNCHANGED todo
         \/ \E x : todo' = [todo EXCEPT ![v] = x]
         \/ \E d, x : todo' = [todo EXCEPT ![v][d] = x]
  PROVE  Shapes' /\ OthersShapes(v) /\ at'[v] = p /\ ret'[v] = ret[v]
  BY DEF Shapes, OthersShapes, Goto

\* Opening, closing and going on in a directory touch that worker's traversal only.
LEMMA OpensOne ==
  ASSUME NEW v, NEW d, NEW X, Opens(v, d, X) \/ Closes(v, d) \/ Taken(v, d, X)
  PROVE  \/ \E x : todo' = [todo EXCEPT ![v] = x]
         \/ \E e, x : todo' = [todo EXCEPT ![v][e] = x]
  BY DEF Opens, Closes, Taken

\* A change of some of the locals.
LEMMA LocalsMove ==
  ASSUME job \in [Workers -> Jobs], NEW v \in Workers, NEW j \in Jobs,
         job' = [job EXCEPT ![v] = j]
  PROVE  job' \in [Workers -> Jobs] /\ OthersJobs(v) /\ job'[v] = j
  BY DEF OthersJobs

\* Where the copy lands is all that changes of the job.
LEMMA LandingMoves ==
  ASSUME job \in [Workers -> Jobs], NEW v \in Workers, NEW p \in Places,
         job' = [job EXCEPT ![v].landing = p]
  PROVE  /\ job' \in [Workers -> Jobs] /\ OthersJobs(v)
         /\ job'[v].op = job[v].op /\ job'[v].landing = p
<1> DEFINE j == [job[v] EXCEPT !.landing = p]
<1>1. job[v] \in Jobs
  OBVIOUS
<1>2. j \in Jobs /\ j.op = job[v].op /\ j.landing = p
  BY <1>1 DEF Jobs
<1>3. job' = [job EXCEPT ![v] = j]
  OBVIOUS
<1> HIDE DEF j
<1> QED
  BY <1>2, <1>3, LocalsMove

\* The locals of the traversal, without those that say which call it is.
Elsewhere(v) ==
  \/ UNCHANGED job
  \/ \E n \in Nat : job' = [job EXCEPT ![v].tries = n]
  \/ \E d \in Dirs : job' = [job EXCEPT ![v].cur = d]
  \/ \E x \in Entries, n \in Nat : job' = [job EXCEPT ![v].entry = x, ![v].tries = n]
  \/ \E d \in Dirs, x \in Entries, n \in Nat :
       job' = [job EXCEPT ![v].cur = d, ![v].entry = x, ![v].tries = n]

\* Walking leaves what the call is and where it lands.
LEMMA TraversalMoves ==
  ASSUME job \in [Workers -> Jobs], NEW v \in Workers, Elsewhere(v)
  PROVE  /\ job' \in [Workers -> Jobs] /\ OthersJobs(v)
         /\ job'[v].op = job[v].op /\ job'[v].landing = job[v].landing
<1> DEFINE Changed == /\ job' \in [Workers -> Jobs] /\ OthersJobs(v)
                      /\ job'[v].op = job[v].op /\ job'[v].landing = job[v].landing
<1>1. job[v] \in Jobs
  OBVIOUS
<1>2. CASE UNCHANGED job
  BY <1>2 DEF OthersJobs
<1>3. ASSUME NEW n \in Nat, job' = [job EXCEPT ![v].tries = n]
     PROVE  Changed
  <2> DEFINE j == [job[v] EXCEPT !.tries = n]
  <2>1. j \in Jobs /\ j.op = job[v].op /\ j.landing = job[v].landing
    BY <1>1 DEF Jobs
  <2>2. job' = [job EXCEPT ![v] = j]
    BY <1>3
  <2> HIDE DEF j
  <2> QED
    BY <2>1, <2>2, LocalsMove
<1>4. ASSUME NEW d \in Dirs, job' = [job EXCEPT ![v].cur = d]
     PROVE  Changed
  <2> DEFINE j == [job[v] EXCEPT !.cur = d]
  <2>1. j \in Jobs /\ j.op = job[v].op /\ j.landing = job[v].landing
    BY <1>1 DEF Jobs
  <2>2. job' = [job EXCEPT ![v] = j]
    BY <1>4
  <2> HIDE DEF j
  <2> QED
    BY <2>1, <2>2, LocalsMove
<1>5. ASSUME NEW x \in Entries, NEW n \in Nat, job' = [job EXCEPT ![v].entry = x, ![v].tries = n]
     PROVE  Changed
  <2> DEFINE j == [job[v] EXCEPT !.entry = x, !.tries = n]
  <2>1. j \in Jobs /\ j.op = job[v].op /\ j.landing = job[v].landing
    BY <1>1 DEF Jobs
  <2>2. job' = [job EXCEPT ![v] = j]
    BY <1>5
  <2> HIDE DEF j
  <2> QED
    BY <2>1, <2>2, LocalsMove
<1>6. ASSUME NEW d \in Dirs, NEW x \in Entries, NEW n \in Nat, job' = [job EXCEPT ![v].cur = d, ![v].entry = x, ![v].tries = n]
     PROVE  Changed
  <2> DEFINE j == [job[v] EXCEPT !.cur = d, !.entry = x, !.tries = n]
  <2>1. j \in Jobs /\ j.op = job[v].op /\ j.landing = job[v].landing
    BY <1>1 DEF Jobs
  <2>2. job' = [job EXCEPT ![v] = j]
    BY <1>6
  <2> HIDE DEF j
  <2> QED
    BY <2>1, <2>2, LocalsMove
<1> QED
  BY <1>2, <1>3, <1>4, <1>5, <1>6 DEF Elsewhere

\* What is removed from the source is no longer steady for anyone else.
LEMMA TakesMoves ==
  ASSUME TreeType, NEW v \in Workers, NEW X, Takes(v, X)
  PROVE  /\ there' \subseteq Entries /\ steady' \in [Workers -> SUBSET TopFiles]
         /\ steady'[v] = steady[v]
         /\ there' = there \ X
         /\ \A w \in Workers \ {v} : steady'[w] = steady[w] \ X
  BY DEF Takes, TreeType

\* What a step does to the source, if anything, it takes out of it.
Sourced(v) == UNCHANGED <<there, steady>> \/ \E X : Takes(v, X)

\* The same of every step that may remove from the source.
LEMMA SourceMoves ==
  ASSUME TreeType, NEW v \in Workers, Sourced(v)
  PROVE  /\ there' \subseteq Entries /\ steady' \in [Workers -> SUBSET TopFiles]
         /\ steady'[v] = steady[v]
         /\ \E X : /\ there' = there \ X
                   /\ \A w \in Workers \ {v} : steady'[w] = steady[w] \ X
<1>1. CASE UNCHANGED <<there, steady>>
  <2>1. there' = there \ {} /\ \A w \in Workers \ {v} : steady'[w] = steady[w] \ {}
    BY <1>1
  <2> QED
    BY <1>1, <2>1 DEF TreeType
<1>2. CASE \E X : Takes(v, X)
  BY <1>2, TakesMoves
<1> QED
  BY <1>1, <1>2 DEF Sourced

\* The destination changes only under a copy.
Landing(v) ==
  /\ whole' = [p \in Places |-> whole'[p]]
  /\ UNCHANGED whole \/ at[v] \in CopyPhase

\* A step of one worker leaves the others' jobs and copies alone.
LEMMA StepIsApart ==
  ASSUME TreeType, NEW v \in Workers, Shapes', OthersShapes(v),
         job' \in [Workers -> Jobs], OthersJobs(v), Sourced(v), Landing(v), UNCHANGED stop
  PROVE  TreeType' /\ Apart(v) /\ steady'[v] = steady[v]
<1>1. TreeType'
  BY SourceMoves DEF Landing, Shapes, TreeType
<1>2. Apart(v)
  BY SourceMoves DEF Landing, OthersShapes, OthersJobs, Apart
<1> QED
  BY <1>1, <1>2, SourceMoves

\* A call returns with what it reports done.
LEMMA ReturnKeeps ==
  ASSUME OneCopier, TreeInv, NEW v \in Workers, NEW ok \in BOOLEAN, Return(v, ok),
         Elsewhere(v), Sourced(v), Landing(v), UNCHANGED stop,
         job[v].op = "copy" /\ ok => steady[v] \subseteq whole'[job[v].landing],
         job[v].op = "move" => steady[v] \subseteq there' \union whole'[job[v].landing]
  PROVE  TreeInv'
<1>1. TreeType /\ Shapes /\ WorkerInv(v)
  BY DEF TreeInv, TreeType, Shapes
<1>2. /\ Shapes' /\ OthersShapes(v)
      /\ at'[v] = "idle" /\ ret'[v] = [op |-> job[v].op, ok |-> ok]
  BY <1>1, ReturnMoves
<1>3. /\ job' \in [Workers -> Jobs] /\ OthersJobs(v)
      /\ job'[v].op = job[v].op /\ job'[v].landing = job[v].landing
  BY <1>1, TraversalMoves DEF TreeType
<1>4. TreeType' /\ Apart(v) /\ steady'[v] = steady[v]
  BY <1>1, <1>2, <1>3, StepIsApart
<1>5. Phases(v)'
  BY <1>1, <1>2, <1>3 DEF WorkerInv, Phases, CopyPhase, RemovePhase
<1>6. Safe(v)'
  BY <1>2, <1>3, <1>4 DEF Safe, Landed, CopyPhase, RemovePhase
<1>7. Reported(v)'
  <2> SUFFICES ASSUME ret'[v] = [op |-> "copy", ok |-> TRUE]
               PROVE  /\ at'[v] = "idle" /\ job'[v].op = "copy"
                      /\ steady'[v] \subseteq whole'[job'[v].landing]
    BY DEF Reported, Landed
  <2>1. job[v].op = "copy" /\ ok = TRUE
    BY <1>2
  <2> QED
    BY <1>2, <1>3, <1>4, <2>1
<1> QED
  BY <1>4, <1>5, <1>6, <1>7, StepKeeps DEF WorkerInv

\* A call goes on to where it is safe.
LEMMA GoesOnKeeps ==
  ASSUME OneCopier, TreeInv, NEW v \in Workers, NEW p, Goto(v, p), UNCHANGED <<ret, stop>>,
         at[v] # "idle",
         \/ UNCHANGED todo
         \/ \E d, X : Opens(v, d, X) \/ Closes(v, d) \/ Taken(v, d, X),
         job' \in [Workers -> Jobs], OthersJobs(v), Sourced(v), Landing(v),
         Phases(v)', Safe(v)'
  PROVE  TreeInv'
<1>1. TreeType /\ Shapes /\ WorkerInv(v)
  BY DEF TreeInv, TreeType, Shapes
<1>2. \/ UNCHANGED todo
      \/ \E x : todo' = [todo EXCEPT ![v] = x]
      \/ \E e, x : todo' = [todo EXCEPT ![v][e] = x]
  BY OpensOne
<1>3. Shapes' /\ OthersShapes(v) /\ ret'[v] = ret[v]
  BY <1>1, <1>2, GotoMoves
<1>4. TreeType' /\ Apart(v) /\ steady'[v] = steady[v]
  BY <1>1, <1>3, StepIsApart
<1>5. Reported(v)'
  BY <1>1, <1>3 DEF WorkerInv, Reported
<1> QED
  BY <1>4, <1>5, StepKeeps DEF WorkerInv

-----------------------------------------------------------------------------
\* The removal.
LEMMA WalkKeeps ==
  ASSUME OneCopier, TreeInv, NEW v \in Workers, at[v] \in RemovePhase,
         NEW p \in RemovePhase, Goto(v, p), UNCHANGED <<ret, stop, whole>>,
         \/ UNCHANGED todo
         \/ \E d, X : Opens(v, d, X) \/ Closes(v, d) \/ Taken(v, d, X),
         Elsewhere(v), Sourced(v)
  PROVE  TreeInv'
<1>1. TreeType /\ WorkerInv(v)
  BY DEF TreeInv
<1>2. /\ job' \in [Workers -> Jobs] /\ OthersJobs(v)
      /\ job'[v].op = job[v].op /\ job'[v].landing = job[v].landing
  BY <1>1, TraversalMoves DEF TreeType
<1>3. at'[v] = p
  BY <1>1 DEF Goto, TreeType
<1>4. Phases(v)'
  BY <1>1, <1>2, <1>3 DEF WorkerInv, Phases, CopyPhase, RemovePhase
<1>5. steady'[v] = steady[v]
  BY <1>1, SourceMoves
<1>6. Safe(v)'
  BY <1>1, <1>2, <1>3, <1>5 DEF WorkerInv, Safe, Landed, CopyPhase, RemovePhase
<1>7. Landing(v)
  BY <1>1 DEF TreeType, Landing
<1> QED
  BY <1>2, <1>4, <1>6, <1>7, GoesOnKeeps DEF RemovePhase

\* Leaving a directory after it was removed or given up, one level up or out.
LEMMA LeaveKeeps ==
  ASSUME OneCopier, TreeInv, NEW v \in Workers, at[v] \in RemovePhase,
         NEW ok \in BOOLEAN, Leave(v, ok), UNCHANGED <<stop, whole>>, Sourced(v)
  PROVE  TreeInv'
<1>1. TreeType /\ WorkerInv(v)
  BY DEF TreeInv
<1>2. Landing(v)
  BY <1>1 DEF TreeType, Landing
<1>3. job[v].cur \in Dirs /\ Root \in Dirs /\ Root \in Entries
  BY <1>1, DirectoryAssumption DEF TreeType, Jobs, Entries
<1>4. CASE ok /\ job[v].cur # Root
  <2>1. In[job[v].cur] \in Dirs
    BY <1>3, <1>4, DirectoryAssumption DEF Entries
  <2>2. Goto(v, "walk") /\ UNCHANGED <<todo, ret>>
        /\ job' = [job EXCEPT ![v].cur = In[job[v].cur]]
    BY <1>4 DEF Leave
  <2> QED
    BY <2>1, <2>2, WalkKeeps DEF Elsewhere, RemovePhase
<1>5. CASE ~ok \/ job[v].cur = Root
  <2>1. Return(v, ok)
        /\ job' = [job EXCEPT ![v].cur = Root, ![v].entry = Root, ![v].tries = 0]
    BY <1>5 DEF Leave
  <2>2. Elsewhere(v)
    BY <1>3, <2>1 DEF Elsewhere
  <2>3. job[v].op # "copy" /\ (job[v].op = "move" => steady[v] \subseteq whole[job[v].landing])
    BY <1>1 DEF WorkerInv, Phases, Safe, Landed
  <2> QED
    BY <1>2, <2>1, <2>2, <2>3, ReturnKeeps
<1> QED
  BY <1>4, <1>5

\* Trying again after a failed system call, or giving up.
LEMMA RetryKeeps ==
  ASSUME OneCopier, TreeInv, NEW v \in Workers, at[v] \in RemovePhase,
         NEW p \in RemovePhase, Retry(v, p), UNCHANGED <<stop, whole>>, Sourced(v)
  PROVE  TreeInv'
<1>1. job[v].tries + 1 \in Nat
  BY DEF TreeInv, TreeType, Jobs
<1>2. CASE Leave(v, FALSE)
  BY <1>2, LeaveKeeps
<1>3. CASE /\ job' = [job EXCEPT ![v].tries = @ + 1]
           /\ Goto(v, p) /\ UNCHANGED <<todo, ret>>
  BY <1>1, <1>3, WalkKeeps DEF Elsewhere
<1> QED
  BY <1>2, <1>3 DEF Retry

\* The steps of remove_recursively.
LEMMA RemovalKeeps ==
  ASSUME OneCopier, TreeInv, NEW v \in Workers,
         \/ Enter(v) \/ OpenDir(v) \/ WalkEnds(v) \/ WalkFile(v) \/ WalkDir(v)
         \/ Unlink(v) \/ Unlinking(v) \/ Rmdir(v) \/ Rmdiring(v)
  PROVE  TreeInv'
<1> USE DEF disk
<1>1. UNCHANGED <<stop, whole>> /\ at[v] \in RemovePhase
  BY DEF Enter, OpenDir, WalkEnds, WalkFile, WalkDir, Unlink, Unlinking, Rmdir,
     Rmdiring, RemovePhase
<1>2. CASE Enter(v) \/ Rmdir(v)
  <2>1. Sourced(v)
    BY <1>2 DEF Enter, Rmdir, Sourced
  <2>2. Leave(v, TRUE) \/ (\E p \in RemovePhase : Goto(v, p) /\ UNCHANGED <<job, todo, ret>>)
    BY <1>2 DEF Enter, Rmdir, RemovePhase
  <2> QED
    BY <1>1, <2>1, <2>2, LeaveKeeps, WalkKeeps DEF Elsewhere
<1>3. CASE OpenDir(v)
  <2>1. Sourced(v)
    BY <1>3 DEF OpenDir, Sourced
  <2>2. Leave(v, FALSE)
        \/ (/\ \E d, X : Opens(v, d, X)
            /\ Goto(v, "walk") /\ UNCHANGED <<job, ret>>)
    BY <1>3 DEF OpenDir
  <2> QED
    BY <1>1, <2>1, <2>2, LeaveKeeps, WalkKeeps DEF Elsewhere, RemovePhase
<1>4. CASE WalkEnds(v)
  BY <1>1, <1>4, WalkKeeps DEF WalkEnds, Elsewhere, Sourced, RemovePhase
<1>5. CASE WalkFile(v)
  <2>1. PICK f \in Files : /\ Taken(v, job[v].cur, f)
                           /\ job' = [job EXCEPT ![v].entry = f, ![v].tries = 0]
    BY <1>5 DEF WalkFile
  <2>2. Elsewhere(v)
    BY <2>1 DEF Elsewhere, Entries
  <2> QED
    BY <1>1, <1>5, <2>1, <2>2, WalkKeeps DEF WalkFile, Sourced, RemovePhase
<1>6. CASE WalkDir(v)
  <2>1. PICK d \in Dirs : Taken(v, job[v].cur, d) /\ job' = [job EXCEPT ![v].cur = d]
    BY <1>6 DEF WalkDir
  <2>2. Elsewhere(v)
    BY <2>1 DEF Elsewhere
  <2> QED
    BY <1>1, <1>6, <2>1, <2>2, WalkKeeps DEF WalkDir, Sourced, RemovePhase
<1>7. CASE Unlink(v)
  BY <1>1, <1>7, WalkKeeps DEF Unlink, Elsewhere, Sourced, RemovePhase
<1>8. CASE Unlinking(v)
  <2>1. Sourced(v)
    BY <1>8 DEF Unlinking, Sourced
  <2>2. Retry(v, "unlink") \/ (Goto(v, "walk") /\ UNCHANGED <<job, todo, ret>>)
    BY <1>8 DEF Unlinking
  <2> QED
    BY <1>1, <2>1, <2>2, RetryKeeps, WalkKeeps DEF Elsewhere, RemovePhase
<1>9. CASE Rmdiring(v)
  <2>1. Sourced(v)
    BY <1>9 DEF Rmdiring, Sourced
  <2>2. Retry(v, "rmdir") \/ Leave(v, TRUE)
    BY <1>9 DEF Rmdiring
  <2> QED
    BY <1>1, <2>1, <2>2, RetryKeeps, LeaveKeeps DEF RemovePhase
<1> QED
  BY <1>2, <1>3, <1>4, <1>5, <1>6, <1>7, <1>8, <1>9

-----------------------------------------------------------------------------
\* The copy.
LEMMA CopyReturnsKeeps ==
  ASSUME OneCopier, TreeInv, NEW v \in Workers, at[v] \in CopyPhase,
         NEW ok \in BOOLEAN, CopyReturns(v, ok),
         UNCHANGED <<there, steady, stop, job>>, Landing(v),
         ok => steady[v] \subseteq whole'[job[v].landing]
  PROVE  TreeInv'
<1>1. TreeType /\ Phases(v) /\ steady[v] \subseteq there
  BY DEF TreeInv, WorkerInv, Safe
<1>2. Sourced(v) /\ Elsewhere(v)
  BY DEF Sourced, Elsewhere
<1>3. CASE Return(v, ok)
  BY <1>1, <1>2, <1>3, ReturnKeeps
<1>4. CASE job[v].op = "move" /\ ok /\ Goto(v, "move_stop") /\ UNCHANGED <<todo, ret>>
  <2>1. at'[v] = "move_stop" /\ steady'[v] = steady[v] /\ job' = job
    BY <1>1, <1>4 DEF Goto, TreeType
  <2>2. Phases(v)'
    BY <1>1, <1>4, <2>1 DEF Phases, Copies, CopyPhase, RemovePhase
  <2>3. Safe(v)'
    BY <1>1, <1>4, <2>1 DEF Safe, Landed, CopyPhase, RemovePhase
  <2>4. job' \in [Workers -> Jobs] /\ OthersJobs(v)
    BY <1>1 DEF TreeType, OthersJobs
  <2> QED
    BY <1>2, <1>4, <2>2, <2>3, <2>4, GoesOnKeeps DEF CopyPhase
<1>5. CASE job[v].op = "move" /\ ~ok /\ Return(v, FALSE)
  BY <1>1, <1>2, <1>5, ReturnKeeps
<1> QED
  BY <1>3, <1>4, <1>5 DEF CopyReturns

\* The copy goes on with the files of the source still there.
LEMMA CopyGoesOn ==
  ASSUME OneCopier, TreeInv, NEW v \in Workers, at[v] \in CopyPhase,
         NEW p \in CopyPhase, Goto(v, p), UNCHANGED <<there, steady, ret, stop>>,
         \/ UNCHANGED todo
         \/ \E d, X : Opens(v, d, X) \/ Closes(v, d) \/ Taken(v, d, X),
         job' \in [Workers -> Jobs], OthersJobs(v), job'[v].op = job[v].op, Landing(v),
         p \in {"move_check", "move_make", "move_stop"} => job[v].op = "move",
         p = "copy" => /\ Root \in DOMAIN todo'[v]
                       /\ steady[v] \subseteq todo'[v][Root] \union whole'[job'[v].landing],
         p \in {"copied", "move_stop"} => stop \/ steady[v] \subseteq whole'[job'[v].landing]
  PROVE  TreeInv'
<1>1. TreeType /\ Phases(v) /\ steady[v] \subseteq there
  BY DEF TreeInv, WorkerInv, Safe
<1>2. Sourced(v)
  BY DEF Sourced
<1>3. at'[v] = p /\ steady'[v] = steady[v]
  BY <1>1 DEF Goto, TreeType
<1>4. Phases(v)'
  BY <1>1, <1>3 DEF Phases, CopyPhase, RemovePhase
<1>5. Safe(v)'
  BY <1>1, <1>3 DEF Safe, Landed, CopyPhase, RemovePhase
<1> QED
  BY <1>2, <1>4, <1>5, GoesOnKeeps DEF CopyPhase

\* The steps of move_to around its copy.
LEMMA MoveSteps ==
  ASSUME OneCopier, TreeInv, NEW v \in Workers, MoveCheck(v) \/ MoveMake(v) \/ MoveStop(v)
  PROVE  TreeInv'
<1> USE DEF disk
<1>1. TreeType /\ Phases(v) /\ Safe(v)
  BY DEF TreeInv, WorkerInv
<1>2. at[v] \in CopyPhase /\ job[v].op \in {"move", "stay"} /\ steady[v] \subseteq there
  BY <1>1 DEF MoveCheck, MoveMake, MoveStop, CopyPhase, Phases, Safe
<1>3. UNCHANGED <<there, whole, steady, stop, job>>
  BY DEF MoveCheck, MoveMake, MoveStop
<1>4. /\ Sourced(v) /\ Elsewhere(v) /\ Landing(v)
      /\ job' \in [Workers -> Jobs] /\ OthersJobs(v) /\ job'[v].op = job[v].op
  BY <1>1, <1>3 DEF Sourced, Elsewhere, Landing, TreeType, OthersJobs
<1>5. ASSUME NEW ok \in BOOLEAN, Return(v, ok) PROVE TreeInv'
  BY <1>2, <1>3, <1>4, <1>5, ReturnKeeps
<1>6. ASSUME (Goto(v, "move_make") /\ job[v].op = "move") \/ Goto(v, "copy_check"),
             UNCHANGED <<todo, ret>>
      PROVE  TreeInv'
  BY <1>2, <1>3, <1>4, <1>6, CopyGoesOn DEF CopyPhase
<1>7. CASE MoveStop(v) /\ ~stop /\ Goto(v, "enter") /\ UNCHANGED <<todo, ret>>
  <2>1. at[v] = "move_stop" /\ at'[v] = "enter"
    BY <1>1, <1>7 DEF MoveStop, Goto, TreeType
  <2>2. Phases(v)'
    BY <1>1, <1>3, <2>1 DEF Phases, CopyPhase, RemovePhase
  <2>3. steady[v] \subseteq Landed(v)
    BY <1>1, <1>7, <2>1 DEF Safe
  <2>4. Safe(v)'
    BY <1>3, <2>1, <2>3 DEF Safe, Landed, CopyPhase, RemovePhase
  <2> QED
    BY <1>3, <1>4, <1>7, <2>1, <2>2, <2>4, GoesOnKeeps
<1> QED
  BY <1>5, <1>6, <1>7 DEF MoveCheck, MoveMake, MoveStop

\* The traversal of an opened directory starts with all it lists.
LEMMA OpenedAt ==
  ASSUME TreeType, NEW v \in Workers, NEW X, Opens(v, Root, X)
  PROVE  Root \in DOMAIN todo'[v] /\ todo'[v][Root] = X
<1>1. todo'[v] = [e \in DOMAIN todo[v] \union {Root} |->
                    IF e = Root THEN X ELSE todo[v][e]]
  BY DEF Opens, TreeType
<1> QED
  BY <1>1

\* The traversal goes on without the entry taken.
LEMMA TakenFrom ==
  ASSUME TreeType, NEW v \in Workers, NEW x, Taken(v, Root, x), Root \in DOMAIN todo[v]
  PROVE  Root \in DOMAIN todo'[v] /\ todo'[v][Root] = todo[v][Root] \ {x}
<1>1. todo'[v] = [todo[v] EXCEPT ![Root] = @ \ {x}]
  BY DEF Taken, TreeType
<1> QED
  BY <1>1

\* copy_to up to its traversal.
LEMMA CopyBegins ==
  ASSUME OneCopier, TreeInv, NEW v \in Workers, CopyCheck(v) \/ CopyOpen(v)
  PROVE  TreeInv'
<1> USE DEF disk
<1>1. TreeType /\ Phases(v) /\ Safe(v)
  BY DEF TreeInv, WorkerInv
<1>2. at[v] \in CopyPhase /\ steady[v] \subseteq there /\ steady[v] \subseteq TopFiles
  BY <1>1 DEF CopyCheck, CopyOpen, CopyPhase, Safe, TreeType
<1>3. UNCHANGED <<there, whole, steady, stop>> /\ Landing(v)
  BY <1>1 DEF CopyCheck, CopyOpen, Landing, TreeType
<1>4. CASE CopyReturns(v, FALSE) /\ UNCHANGED job
  BY <1>2, <1>3, <1>4, CopyReturnsKeeps
<1>5. CASE CopyCheck(v) /\ ~CopyReturns(v, FALSE)
  <2>1. PICK p \in Places : job' = [job EXCEPT ![v].landing = p]
    BY <1>5 DEF CopyCheck, Places
  <2>2. Goto(v, "copy_open") /\ UNCHANGED <<todo, ret>>
    BY <1>5 DEF CopyCheck
  <2>3. job' \in [Workers -> Jobs] /\ OthersJobs(v) /\ job'[v].op = job[v].op
    BY <1>1, <2>1, LandingMoves DEF TreeType
  <2> QED
    BY <1>2, <1>3, <2>2, <2>3, CopyGoesOn DEF CopyPhase
<1>6. CASE CopyOpen(v) /\ ~CopyReturns(v, FALSE)
  <2>1. Opens(v, Root, Inside(Root)) /\ Goto(v, "copy") /\ UNCHANGED <<job, ret>>
    BY <1>6 DEF CopyOpen
  <2>2. steady[v] \subseteq Inside(Root)
    BY <1>2, DirectoryAssumption DEF Inside, TopFiles
  <2>3. Root \in DOMAIN todo'[v] /\ todo'[v][Root] = Inside(Root)
    BY <1>1, <2>1, OpenedAt
  <2>4. job' \in [Workers -> Jobs] /\ OthersJobs(v) /\ job'[v].op = job[v].op
    BY <1>1, <2>1 DEF TreeType, OthersJobs
  <2> QED
    BY <1>2, <1>3, <2>1, <2>2, <2>3, <2>4, CopyGoesOn DEF CopyPhase
<1>7. CASE CopyCheck(v) /\ CopyReturns(v, FALSE)
  <2>1. UNCHANGED job \/ Goto(v, "copy_open")
    BY <1>7 DEF CopyCheck
  <2>2. CopyReturns(v, FALSE) => ~Goto(v, "copy_open")
    BY <1>1 DEF CopyReturns, Return, Goto, TreeType
  <2> QED
    BY <1>4, <1>7, <2>1, <2>2
<1>8. CASE CopyOpen(v) /\ CopyReturns(v, FALSE)
  BY <1>4, <1>8 DEF CopyOpen
<1> QED
  BY <1>5, <1>6, <1>7, <1>8

\* A readdir that fails ends the traversal: what it has not returned is no
\* longer counted as what this copy brings over.
LEMMA HiddenKeeps ==
  ASSUME OneCopier, TreeInv, NEW v \in Workers, at[v] = "copy", Goto(v, "copied"),
         Closes(v, Root), UNCHANGED <<there, whole, stop, job, ret>>,
         steady' = [steady EXCEPT ![v] = @ \ todo[v][Root]]
  PROVE  TreeInv'
<1>1. TreeType /\ Shapes /\ Phases(v) /\ Safe(v) /\ Reported(v)
  BY DEF TreeInv, TreeType, Shapes, WorkerInv
<1>2. Shapes' /\ OthersShapes(v) /\ at'[v] = "copied" /\ ret'[v] = ret[v]
  BY <1>1, OpensOne, GotoMoves
<1>3. /\ steady' \in [Workers -> SUBSET TopFiles]
      /\ steady'[v] = steady[v] \ todo[v][Root]
      /\ \A w \in Workers \ {v} : steady'[w] = steady[w]
  BY <1>1 DEF TreeType
<1>4. TreeType'
  BY <1>1, <1>2, <1>3 DEF TreeType, Shapes
<1>5. Apart(v)
  <2>1. there' = there \ {} /\ \A w \in Workers \ {v} : steady'[w] = steady[w] \ {}
    BY <1>3
  <2> QED
    BY <1>2, <2>1 DEF Apart, OthersShapes
<1>6. Phases(v)'
  BY <1>1, <1>2 DEF Phases, CopyPhase, RemovePhase
<1>7. Safe(v)'
  BY <1>1, <1>2, <1>3 DEF Safe, Landed, CopyPhase, RemovePhase
<1>8. Reported(v)'
  BY <1>1, <1>2 DEF Reported
<1> QED
  BY <1>4, <1>5, <1>6, <1>7, <1>8, StepKeeps DEF WorkerInv

\* The traversal of copy_to and its end.
LEMMA CopyTraverses ==
  ASSUME OneCopier, TreeInv, NEW v \in Workers,
         CopyEnds(v) \/ CopyFile(v) \/ CopyDir(v) \/ CopyReturn(v)
  PROVE  TreeInv'
<1> USE DEF disk
<1>1. TreeType /\ Phases(v) /\ Safe(v)
  BY DEF TreeInv, WorkerInv
<1>2. at[v] \in CopyPhase /\ steady[v] \subseteq there /\ steady[v] \subseteq TopFiles
  BY <1>1 DEF CopyEnds, CopyFile, CopyDir, CopyReturn, CopyPhase, Safe, TreeType
<1>3. UNCHANGED <<there, stop, job>> /\ (~CopyEnds(v) => UNCHANGED steady)
  BY DEF CopyEnds, CopyFile, CopyDir, CopyReturn
<1>4. job' \in [Workers -> Jobs] /\ OthersJobs(v) /\ job'[v].op = job[v].op
  BY <1>1, <1>3 DEF TreeType, OthersJobs
<1>5. job[v].landing \in Places
  BY <1>1 DEF TreeType, Jobs
<1>6. at[v] = "copy" => Root \in DOMAIN todo[v]
                        /\ steady[v] \subseteq todo[v][Root] \union whole[job[v].landing]
  BY <1>1 DEF Safe, Landed
<1>7. CASE CopyEnds(v)
  <2>1. /\ at[v] = "copy" /\ Goto(v, "copied") /\ Closes(v, Root) /\ UNCHANGED <<ret, whole>>
        /\ \/ (todo[v][Root] = {} \/ stop) /\ UNCHANGED steady
           \/ steady' = [steady EXCEPT ![v] = @ \ todo[v][Root]]
    BY <1>7 DEF CopyEnds
  <2>2. CASE (todo[v][Root] = {} \/ stop) /\ UNCHANGED steady
    <3>1. Landing(v)
      BY <1>1, <2>1 DEF Landing, TreeType
    <3>2. stop \/ steady[v] \subseteq whole'[job'[v].landing]
      BY <1>3, <1>6, <2>1, <2>2
    <3> QED
      BY <1>2, <1>3, <1>4, <2>1, <2>2, <3>1, <3>2, CopyGoesOn DEF CopyPhase
  <2>3. CASE steady' = [steady EXCEPT ![v] = @ \ todo[v][Root]]
    BY <1>3, <2>1, <2>3, HiddenKeeps
  <2> QED
    BY <2>1, <2>2, <2>3
<1>8. CASE CopyReturn(v)
  <2>0. UNCHANGED steady
    BY <1>8 DEF CopyReturn
  <2>1. at[v] = "copied" /\ CopyReturns(v, ~stop) /\ UNCHANGED whole
    BY <1>8 DEF CopyReturn
  <2>2. Landing(v)
    BY <1>1, <2>1 DEF Landing, TreeType
  <2>3. ~stop => steady[v] \subseteq whole'[job[v].landing]
    BY <1>1, <2>1 DEF Safe, Landed
  <2>4. CASE stop
    <3>1. CopyReturns(v, FALSE)
      BY <2>1, <2>4
    <3> QED
      BY <1>2, <1>3, <2>0, <2>2, <3>1, CopyReturnsKeeps
  <2>5. CASE ~stop
    <3>1. CopyReturns(v, TRUE)
      BY <2>1, <2>5
    <3> QED
      BY <1>2, <1>3, <2>0, <2>2, <2>3, <2>5, <3>1, CopyReturnsKeeps
  <2> QED
    BY <2>4, <2>5
<1>9. CASE CopyDir(v)
  <2>0. UNCHANGED steady
    BY <1>9 DEF CopyDir
  <2>1. PICK d \in Dirs : Taken(v, Root, d)
    BY <1>9 DEF CopyDir
  <2>2. at[v] = "copy" /\ UNCHANGED <<at, ret, whole>>
    BY <1>9 DEF CopyDir
  <2>3. Goto(v, "copy") /\ Landing(v)
    BY <1>1, <2>2 DEF Goto, Landing, TreeType
  <2>4. Root \in DOMAIN todo'[v] /\ todo'[v][Root] = todo[v][Root] \ {d}
    BY <1>1, <1>6, <2>1, <2>2, TakenFrom
  <2>5. d \notin steady[v]
    BY <1>2, DirectoryAssumption DEF TopFiles
  <2>6. steady[v] \subseteq todo'[v][Root] \union whole'[job'[v].landing]
    BY <1>3, <1>6, <2>0, <2>2, <2>4, <2>5
  <2> QED
    BY <1>2, <1>3, <2>0, <1>4, <2>1, <2>2, <2>3, <2>4, <2>6, CopyGoesOn DEF CopyPhase
<1>10. CASE CopyFile(v)
  <2>0. UNCHANGED steady
    BY <1>10 DEF CopyFile
  <2>1. at[v] = "copy"
    BY <1>10 DEF CopyFile
  <2>2. PICK f : \/ /\ whole' = [whole EXCEPT ![job[v].landing] = @ \union {f}]
                    /\ Taken(v, Root, f) /\ UNCHANGED <<at, ret>>
                 \/ /\ whole' = [whole EXCEPT ![job[v].landing] = @ \ {f}]
                    /\ CopyReturns(v, FALSE)
                 \/ UNCHANGED whole /\ CopyReturns(v, FALSE)
    BY <1>10 DEF CopyFile
  <2>3. Landing(v)
    BY <1>1, <1>2, <2>2 DEF Landing, TreeType
  <2>4. CASE CopyReturns(v, FALSE)
    BY <1>2, <1>3, <2>0, <2>3, <2>4, CopyReturnsKeeps
  <2>5. CASE /\ whole' = [whole EXCEPT ![job[v].landing] = @ \union {f}]
             /\ Taken(v, Root, f) /\ UNCHANGED <<at, ret>>
    <3>1. Goto(v, "copy")
      BY <1>1, <2>1, <2>5 DEF Goto, TreeType
    <3>2. Root \in DOMAIN todo'[v] /\ todo'[v][Root] = todo[v][Root] \ {f}
      BY <1>1, <1>6, <2>1, <2>5, TakenFrom
    <3>3. whole'[job[v].landing] = whole[job[v].landing] \union {f}
      BY <1>1, <1>5, <2>5 DEF TreeType
    <3>4. steady[v] \subseteq todo'[v][Root] \union whole'[job'[v].landing]
      BY <1>3, <1>6, <2>0, <2>1, <3>2, <3>3
    <3> QED
      BY <1>2, <1>3, <2>0, <1>4, <2>3, <2>5, <3>1, <3>2, <3>4, CopyGoesOn DEF CopyPhase
  <2> QED
    BY <2>2, <2>4, <2>5
<1> QED
  BY <1>7, <1>8, <1>9, <1>10

-----------------------------------------------------------------------------
\* A call begins.
LEMMA CallKeeps ==
  ASSUME OneCopier, TreeInv, NEW v \in Workers, NEW op \in Operations,
         NEW over \in BOOLEAN, NEW first, Call(v, op, over, first),
         \/ op = "copy" /\ first = "copy_check"
         \/ op \in {"move", "stay"} /\ first = "move_check"
         \/ op = "remove" /\ first = "enter"
  PROVE  TreeInv'
<1> USE DEF disk
<1>1. TreeType
  BY DEF TreeInv
<1> DEFINE j == [op |-> op, landing |-> "outer", over |-> over, cur |-> Root,
                 entry |-> Root, tries |-> 0]
<1>2. /\ op \in MayCall[v] /\ Goto(v, first) /\ job' = [job EXCEPT ![v] = j]
      /\ steady' = [steady EXCEPT ![v] = there \intersect TopFiles]
      /\ ret' = [ret EXCEPT ![v] = [op |-> "none", ok |-> FALSE]]
      /\ UNCHANGED <<there, whole, stop, todo>>
  BY DEF Call
<1>3. j \in Jobs /\ j.op = op
  BY DirectoryAssumption DEF Jobs, Places, Entries
<1> HIDE DEF j
<1>4. job' \in [Workers -> Jobs] /\ OthersJobs(v) /\ job'[v].op = op
  BY <1>1, <1>2, <1>3, LocalsMove DEF TreeType
<1>5. /\ at'[v] = first /\ steady'[v] = there \intersect TopFiles
      /\ ret'[v] = [op |-> "none", ok |-> FALSE]
  BY <1>1, <1>2 DEF TreeType, Goto
<1>6. TreeType'
  BY <1>1, <1>2, <1>4 DEF TreeType, Goto
<1>7. Apart(v)
  <2>1. there' = there \ {} /\ \A w \in Workers \ {v} : steady'[w] = steady[w] \ {}
    BY <1>1, <1>2 DEF TreeType
  <2> QED
    BY <1>1, <1>2, <1>4, <2>1 DEF Apart, Goto, OthersJobs, TreeType
<1>8. Phases(v)'
  BY <1>2, <1>4, <1>5 DEF Phases, Copies, CopyPhase, RemovePhase
<1>9. Safe(v)'
  BY <1>2, <1>4, <1>5 DEF Safe, CopyPhase, RemovePhase
<1>10. Reported(v)'
  BY <1>5 DEF Reported
<1> QED
  BY <1>6, <1>7, <1>8, <1>9, <1>10, StepKeeps DEF WorkerInv

\* The stop flag, and other processes.
LEMMA OutsideKeeps ==
  ASSUME TreeInv, \/ RequestStop \/ (\E x \in Entries : Appear(x) \/ Vanish(x))
                  \/ UNCHANGED vars
  PROVE  TreeInv'
<1> USE DEF disk
<1>1. TreeType
  BY DEF TreeInv
<1>2. UNCHANGED <<at, job, ret, whole>>
  BY DEF RequestStop, Appear, Vanish, vars
<1>3. CASE RequestStop \/ UNCHANGED vars
  <2>1. UNCHANGED <<there, todo, steady>> /\ (stop => stop')
    BY <1>3 DEF RequestStop, vars
  <2>2. TreeType'
    BY <1>1, <1>2, <2>1 DEF TreeType
  <2>3. \A w \in Workers : WorkerInv(w)'
    BY <1>2, <2>1 DEF TreeInv, WorkerInv, Phases, Safe, Reported, Landed
  <2> QED
    BY <2>2, <2>3 DEF TreeInv
<1>4. ASSUME NEW x \in Entries, Vanish(x) PROVE TreeInv'
  <2>1. /\ there' = there \ {x} /\ UNCHANGED <<stop, todo>>
        /\ steady' = [w \in Workers |-> steady[w] \ {x}]
    BY <1>4 DEF Vanish
  <2>2. TreeType'
    BY <1>1, <1>2, <2>1 DEF TreeType
  <2>3. \A w \in Workers : WorkerInv(w)'
    BY <1>2, <2>1 DEF TreeInv, WorkerInv, Phases, Safe, Reported, Landed
  <2> QED
    BY <2>2, <2>3 DEF TreeInv
<1>5. ASSUME NEW x \in Entries, Appear(x) PROVE TreeInv'
  <2>1. there' = there \union {x} /\ UNCHANGED <<stop, steady>>
    BY <1>5 DEF Appear
  <2>2. PICK readers : todo' = [w \in Workers |->
          IF w \in readers THEN [todo[w] EXCEPT ![In[x]] = @ \union {x}] ELSE todo[w]]
    BY <1>5 DEF Appear
  <2>3. \A w \in Workers : Root \in DOMAIN todo[w] =>
          Root \in DOMAIN todo'[w] /\ todo[w][Root] \subseteq todo'[w][Root]
    BY <2>2
  <2>4. TreeType'
    BY <1>1, <1>2, <2>1, <2>2 DEF TreeType
  <2>5. \A w \in Workers : WorkerInv(w)'
    BY <1>2, <2>1, <2>3 DEF TreeInv, WorkerInv, Phases, Safe, Reported, Landed
  <2> QED
    BY <2>4, <2>5 DEF TreeInv
<1> QED
  BY <1>3, <1>4, <1>5

\* The invariant is inductive.
LEMMA TreeStep ==
  ASSUME OneCopier, TreeInv, [Next]_vars
  PROVE  TreeInv'
<1>1. ASSUME NEW v \in Workers, NEW over \in BOOLEAN, NEW op \in {"move", "stay"},
             CallCopy(v, over) \/ CallMove(v, op) \/ CallRemove(v)
      PROVE  TreeInv'
  BY <1>1, CallKeeps DEF CallCopy, CallMove, CallRemove, Operations
<1>2. ASSUME NEW v \in Workers, Step(v) PROVE TreeInv'
  BY <1>2, MoveSteps, CopyBegins, CopyTraverses, RemovalKeeps DEF Step
<1> QED
  BY <1>1, <1>2, OutsideKeeps DEF Next

-----------------------------------------------------------------------------
\* The invariant holds of every behaviour in which one worker copies or moves.
THEOREM TreeInductive ==
  ASSUME OneCopier
  PROVE  Spec => []TreeInv
<1>1. TreeInv /\ [Next]_vars => TreeInv'
  BY TreeStep
<1> QED
  BY TreeInit, <1>1, PTL DEF Spec

\* A move loses no file of the source's top level but those a failed readdir hid
\* from its copy.
THEOREM NothingIsLost ==
  ASSUME OneCopier
  PROVE  Spec => []MoveLosesNothing
<1>1. TreeInv => MoveLosesNothing
  <2> SUFFICES ASSUME TreeInv, NEW w \in Workers, job[w].op = "move"
               PROVE  steady[w] \subseteq there \union Landed(w)
    BY DEF MoveLosesNothing, Landed
  <2>1. Phases(w) /\ Safe(w)
    BY DEF TreeInv, WorkerInv
  <2> QED
    BY <2>1 DEF Phases, Safe
<1> QED
  BY TreeInductive, <1>1, PTL

\* A copy that reports success has copied every file of the top level that no
\* failed readdir hid from it, also when it was told to stop.
THEOREM ReportedCopies ==
  ASSUME OneCopier
  PROVE  Spec => []CopyIsComplete
<1>1. TreeInv => CopyIsComplete
  BY DEF TreeInv, WorkerInv, Reported, Landed, CopyIsComplete
<1> QED
  BY TreeInductive, <1>1, PTL

-----------------------------------------------------------------------------
\* Success, whoever copies and moves.
Gone(r) == r.op \in {"move", "remove"} /\ r.ok => Root \notin there'

Reports == \E v \in Workers : \E r : ret' = [ret EXCEPT ![v] = r] /\ Gone(r)

\* What a return reports: success of a removal means that the root is gone.
LEMMA ReturnReports ==
  ASSUME NEW v \in Workers, NEW ok, Return(v, ok), ok /\ job[v].op \in {"move", "remove"} => Root \notin there'
  PROVE  Reports
<1> DEFINE r == [op |-> job[v].op, ok |-> ok]
<1>1. ret' = [ret EXCEPT ![v] = r]
  BY DEF Return
<1>2. Gone(r)
  BY DEF Gone
<1> QED
  BY <1>1, <1>2 DEF Reports

\* A copy that returns, to its caller or into a move.
LEMMA CopyReports ==
  ASSUME NEW v \in Workers, NEW ok, CopyReturns(v, ok)
  PROVE  UNCHANGED ret \/ Reports
  BY ReturnReports DEF CopyReturns

\* The end of a directory, which is that of the call at the root only.
LEMMA LeaveReports ==
  ASSUME NEW v \in Workers, NEW ok, Leave(v, ok),
         ok /\ job[v].cur = Root => Root \notin there'
  PROVE  UNCHANGED ret \/ Reports
  BY ReturnReports DEF Leave

\* Each step of a worker reports truthfully or not at all.
LEMMA StepReports ==
  ASSUME NEW v \in Workers, Step(v)
  PROVE  UNCHANGED ret \/ Reports
<1> USE DEF disk
<1>1. CASE MoveCheck(v) \/ MoveMake(v) \/ MoveStop(v)
  BY <1>1, ReturnReports DEF MoveCheck, MoveMake, MoveStop
<1>2. CASE CopyCheck(v) \/ CopyOpen(v) \/ CopyEnds(v) \/ CopyFile(v) \/ CopyDir(v)
           \/ CopyReturn(v)
  BY <1>2, CopyReports DEF CopyCheck, CopyOpen, CopyEnds, CopyFile, CopyDir, CopyReturn
<1>3. CASE Enter(v) \/ Rmdir(v) \/ OpenDir(v)
  BY <1>3, LeaveReports DEF Enter, Rmdir, OpenDir
<1>4. ASSUME NEW p, Retry(v, p) PROVE UNCHANGED ret \/ Reports
  BY <1>4, LeaveReports DEF Retry
<1>5. CASE Unlinking(v)
  BY <1>4, <1>5 DEF Unlinking
<1>6. CASE Rmdiring(v)
  <2>1. Retry(v, "rmdir") \/ (Leave(v, TRUE) /\ Takes(v, {job[v].cur}))
    BY <1>6 DEF Rmdiring
  <2> QED
    BY <1>4, <2>1, LeaveReports DEF Takes
<1>7. CASE WalkEnds(v) \/ WalkFile(v) \/ WalkDir(v) \/ Unlink(v)
  BY <1>7 DEF WalkEnds, WalkFile, WalkDir, Unlink
<1> QED
  BY <1>1, <1>2, <1>3, <1>5, <1>6, <1>7 DEF Step

\* And so does each step of the system.
LEMMA NextReports ==
  ASSUME [Next]_vars
  PROVE  UNCHANGED ret \/ Reports
<1>1. ASSUME NEW v \in Workers, NEW op, NEW over, NEW first, Call(v, op, over, first)
      PROVE  Reports
  <2> DEFINE r == [op |-> "none", ok |-> FALSE]
  <2>1. ret' = [ret EXCEPT ![v] = r]
    BY <1>1 DEF Call
  <2>2. Gone(r)
    BY DEF Gone
  <2> QED
    BY <2>1, <2>2 DEF Reports
<1>2. ASSUME NEW x, Appear(x) \/ Vanish(x) PROVE UNCHANGED ret
  BY <1>2 DEF Appear, Vanish
<1>3. CASE RequestStop \/ UNCHANGED vars
  BY <1>3 DEF RequestStop, vars
<1> QED
  BY <1>1, <1>2, <1>3, StepReports DEF Next, CallCopy, CallMove, CallRemove

RetTable == ret = [w \in Workers |-> ret[w]]

\* A removal, or a move to another place, reports success only when the source is
\* gone.
THEOREM SuccessIsReal == Spec => SuccessMeansGone
<1>1. Init => RetTable
  BY DEF Init, RetTable
<1>2. RetTable /\ [Next]_vars => RetTable'
  BY NextReports DEF RetTable, Reports
<1>3. ASSUME RetTable, [Next]_vars, NEW w \in Workers, ret'[w] # ret[w],
             ret'[w].op \in {"move", "remove"}, ret'[w].ok
      PROVE  Root \notin there'
  <2>0. PICK v \in Workers : \E r : ret' = [ret EXCEPT ![v] = r] /\ Gone(r)
    BY <1>3, NextReports DEF Reports
  <2>1. PICK r : ret' = [ret EXCEPT ![v] = r] /\ Gone(r)
    BY <2>0
  <2>2. w = v /\ ret'[w] = r
    BY <1>3, <2>1 DEF RetTable
  <2> QED
    BY <1>3, <2>1, <2>2 DEF Gone
<1>4. RetTable /\ [Next]_vars
      => [\A w \in Workers :
            /\ ret'[w] # ret[w]
            /\ ret'[w].op \in {"move", "remove"} /\ ret'[w].ok
            => Root \notin there']_vars
  BY <1>3
<1> QED
  BY <1>1, <1>2, <1>4, PTL DEF Spec, SuccessMeansGone

-----------------------------------------------------------------------------
(* Removals that run into each other.                                     *)


\* The locals of a removal, seen alone: where the worker is, the directory it is
\* at, the entry it is about, and what it has open.  What is open is the path
\* from the root to the directory it is at, and readdir returns the entries of
\* the directory that is read.
Sound(a, c, f, t) ==
  LET O == DOMAIN t
      P == (O \union {c}) \ {Root}
  IN  /\ a \in CopyPhase => c = Root
      /\ a \notin RemovePhase => O \subseteq {Root} /\ (a # "copy" => O = {})
      /\ a = "unlinking" => f \notin Links
      /\ a \in RemovePhase =>
           /\ O \subseteq Dirs /\ c \in Dirs
           /\ c \in O <=> a \in {"walk", "unlink", "unlinking"}
           /\ \A d \in P : In[d] \in O
           /\ \A d \in O \ {Root} : In[d] # c
           /\ \A d, e \in P : In[d] = In[e] => d = e
           /\ \A d \in O : \A x \in t[d] : x \in Entries \ {Root} /\ In[x] = d

\* No entry of a directory that is open has been passed over: those that are in
\* T are ahead of readdir or at hand.
Covers(a, c, f, t, T) ==
  a \in RemovePhase =>
    \A x \in T \ {Root} : In[x] \in DOMAIN t =>
      \/ x \in t[In[x]] \union DOMAIN t \union {c}
      \/ a \in {"unlink", "unlinking"} /\ x = f

\* A directory that has been read to its end is empty.
Empties(a, c, T) ==
  a \in {"rmdir", "rmdiring"} => {x \in T \ {Root} : In[x] = c} = {}

\* What has been seen to be there is there still.
Fresh(a, c, f, T) ==
  /\ a \in {"open", "rmdiring"} => c \in T
  /\ a = "unlinking" => f \in T

SoundAt(w)  == Sound(at[w], job[w].cur, job[w].entry, todo[w])
CoversAt(w) == Covers(at[w], job[w].cur, job[w].entry, todo[w], there)
EmptiesAt(w) == Empties(at[w], job[w].cur, there)
FreshAt(w)  == Fresh(at[w], job[w].cur, job[w].entry, there)

\* Nothing that would keep a removal from finishing has come in its way.
Quiet == trouble = 0 /\ there \intersect Links = {}

\* As long as the root is there, somebody is at work whom nobody has overtaken,
\* or nobody has begun.
Pursued ==
  \/ \E w \in Workers : at[w] \in RemovePhase /\ FreshAt(w)
  \/ \A w \in Workers : at[w] \notin RemovePhase /\ ret[w].op # "remove"

FinishInv ==
  /\ \A w \in Workers : SoundAt(w) /\ (at[w] \in CopyPhase => job[w].op # "remove")
  /\ Quiet => \A w \in Workers : CoversAt(w) /\ (~stop => EmptiesAt(w))
  /\ Quiet /\ ~stop /\ Root \in there => Pursued

\* The places of a removal in which the directory it is at is open.
Reading == {"walk", "unlink", "unlinking"}

\* On and on between places where as much is open.
LEMMA SoundOn ==
  ASSUME NEW a \in RemovePhase, NEW b \in RemovePhase, NEW c, NEW f, NEW t,
         Sound(a, c, f, t), a \in Reading <=> b \in Reading,
         b = "unlinking" => f \notin Links
  PROVE  Sound(b, c, f, t)
BY DEF Sound, Reading, RemovePhase, CopyPhase

\* A directory is opened.
LEMMA SoundOpened ==
  ASSUME NEW c, NEW f, NEW t, NEW X, Sound("open", c, f, t),
         \A x \in X : x \in Entries \ {Root} /\ In[x] = c
  PROVE  Sound("walk", c, f,
               [e \in DOMAIN t \union {c} |-> IF e = c THEN X ELSE t[e]])
<1> DEFINE u == [e \in DOMAIN t \union {c} |-> IF e = c THEN X ELSE t[e]]
<1>1. DOMAIN u = DOMAIN t \union {c} /\ u[c] = X /\ \A e \in DOMAIN t \ {c} : u[e] = t[e]
  OBVIOUS
<1> HIDE DEF u
<1>2. /\ DOMAIN t \subseteq Dirs /\ c \in Dirs /\ c \notin DOMAIN t
      /\ \A d \in (DOMAIN t \union {c}) \ {Root} : In[d] \in DOMAIN t
      /\ \A d, e \in (DOMAIN t \union {c}) \ {Root} : In[d] = In[e] => d = e
      /\ \A d \in DOMAIN t : \A x \in t[d] : x \in Entries \ {Root} /\ In[x] = d
  BY DEF Sound, RemovePhase
<1>3. (DOMAIN u \union {c}) \ {Root} = (DOMAIN t \union {c}) \ {Root}
  BY <1>1
<1>4. \A d \in DOMAIN u : \A x \in u[d] : x \in Entries \ {Root} /\ In[x] = d
  BY <1>1, <1>2
<1>5. \A d \in DOMAIN u \ {Root} : In[d] # c
  BY <1>1, <1>2
<1>6. Sound("walk", c, f, u)
  BY <1>1, <1>2, <1>3, <1>4, <1>5 DEF Sound, RemovePhase, CopyPhase
<1> QED BY <1>6 DEF u

\* Readdir returns a file, or a directory that is entered.
LEMMA SoundTaken ==
  ASSUME NEW c, NEW f, NEW t, Sound("walk", c, f, t), NEW x \in t[c],
         NEW u, u = [t EXCEPT ![c] = @ \ {x}]
  PROVE  Sound("unlink", c, x, u) /\ (x \in Dirs => Sound("enter", x, f, u))
<1>1. /\ DOMAIN t \subseteq Dirs /\ c \in DOMAIN t
      /\ \A d \in DOMAIN t \ {Root} : In[d] \in DOMAIN t
      /\ \A d \in DOMAIN t \ {Root} : In[d] # c
      /\ \A d, e \in DOMAIN t \ {Root} : In[d] = In[e] => d = e
      /\ \A d \in DOMAIN t : \A y \in t[d] : y \in Entries \ {Root} /\ In[y] = d
  BY DEF Sound, RemovePhase
<1>2. DOMAIN u = DOMAIN t /\ \A d \in DOMAIN t : u[d] \subseteq t[d]
  OBVIOUS
<1>3. x \in Entries \ {Root} /\ In[x] = c /\ x \notin DOMAIN t
  BY <1>1
<1>4. (DOMAIN u \union {c}) \ {Root} = DOMAIN t \ {Root}
  BY <1>1, <1>2
<1>5. Sound("unlink", c, x, u)
  BY <1>1, <1>2, <1>4 DEF Sound, RemovePhase, CopyPhase
<1>6. ASSUME x \in Dirs PROVE Sound("enter", x, f, u)
  <2> DEFINE P == (DOMAIN u \union {x}) \ {Root}
  <2>1. \A d \in P : In[d] \in DOMAIN u
    BY <1>1, <1>2, <1>3
  <2>2. \A d \in DOMAIN u \ {Root} : In[d] # x
    BY <1>1, <1>2, <1>3
  <2>3. \A d, e \in P : In[d] = In[e] => d = e
    BY <1>1, <1>2, <1>3
  <2>4. \A d \in DOMAIN u : \A y \in u[d] : y \in Entries \ {Root} /\ In[y] = d
    BY <1>1, <1>2
  <2> QED BY <1>1, <1>2, <1>3, <1>6, <2>1, <2>2, <2>3, <2>4 DEF Sound, RemovePhase, CopyPhase
<1> QED BY <1>5, <1>6

\* The end of a directory.
LEMMA SoundClosed ==
  ASSUME NEW c, NEW f, NEW t, Sound("walk", c, f, t),
         NEW u, u = [e \in DOMAIN t \ {c} |-> t[e]]
  PROVE  Sound("rmdir", c, f, u)
<1>1. /\ DOMAIN t \subseteq Dirs /\ c \in DOMAIN t
      /\ \A d \in DOMAIN t \ {Root} : In[d] \in DOMAIN t
      /\ \A d \in DOMAIN t \ {Root} : In[d] # c
      /\ \A d, e \in DOMAIN t \ {Root} : In[d] = In[e] => d = e
      /\ \A d \in DOMAIN t : \A y \in t[d] : y \in Entries \ {Root} /\ In[y] = d
  BY DEF Sound, RemovePhase
<1>2. DOMAIN u = DOMAIN t \ {c} /\ \A d \in DOMAIN u : u[d] = t[d]
  OBVIOUS
<1> DEFINE P == (DOMAIN u \union {c}) \ {Root}
<1>3. P = DOMAIN t \ {Root}
  BY <1>1, <1>2
<1>4. \A d \in P : In[d] \in DOMAIN u
  BY <1>1, <1>2, <1>3
<1>5. \A d \in DOMAIN u : \A y \in u[d] : y \in Entries \ {Root} /\ In[y] = d
  BY <1>1, <1>2
<1> QED BY <1>1, <1>2, <1>3, <1>4, <1>5 DEF Sound, RemovePhase, CopyPhase

\* One level up.
LEMMA SoundUp ==
  ASSUME NEW a \in RemovePhase \ Reading, NEW c, NEW f, NEW t, Sound(a, c, f, t), c # Root
  PROVE  Sound("walk", In[c], f, t)
<1>1. /\ DOMAIN t \subseteq Dirs /\ c \in Dirs /\ c \notin DOMAIN t
      /\ \A d \in (DOMAIN t \union {c}) \ {Root} : In[d] \in DOMAIN t
      /\ \A d, e \in (DOMAIN t \union {c}) \ {Root} : In[d] = In[e] => d = e
      /\ \A d \in DOMAIN t : \A x \in t[d] : x \in Entries \ {Root} /\ In[x] = d
  BY DEF Sound, Reading
<1>2. In[c] \in DOMAIN t
  BY <1>1
<1>3. (DOMAIN t \union {In[c]}) \ {Root} = DOMAIN t \ {Root}
  BY <1>2
<1>4. \A d \in DOMAIN t \ {Root} : In[d] # In[c]
  BY <1>1
<1> QED BY <1>1, <1>2, <1>3, <1>4 DEF Sound, RemovePhase, CopyPhase

\* What is left of a sound traversal that has ended.
LEMMA SoundOut ==
  ASSUME NEW c, NEW f, NEW t, DOMAIN t = {}
  PROVE  Sound("idle", c, f, t)
BY DEF Sound, RemovePhase, CopyPhase

-----------------------------------------------------------------------------
\* The same steps pass no entry over.
LEMMA CoversOn ==
  ASSUME NEW a \in RemovePhase, NEW b \in RemovePhase, NEW c, NEW f, NEW t, NEW T, NEW T2,
         Covers(a, c, f, t, T), T2 \subseteq T,
         a \in {"unlink", "unlinking"} => b \in {"unlink", "unlinking"} \/ f \notin T2
  PROVE  Covers(b, c, f, t, T2)
BY DEF Covers

\* A directory is opened with all that is in it ahead.
LEMMA CoversOpened ==
  ASSUME NEW c, NEW f, NEW t, NEW T, Covers("open", c, f, t, T),
         NEW X, X = {x \in T \ {Root} : In[x] = c}
  PROVE  Covers("walk", c, f,
                [e \in DOMAIN t \union {c} |-> IF e = c THEN X ELSE t[e]], T)
<1> DEFINE u == [e \in DOMAIN t \union {c} |-> IF e = c THEN X ELSE t[e]]
<1>1. DOMAIN u = DOMAIN t \union {c} /\ u[c] = X /\ \A e \in DOMAIN t \ {c} : u[e] = t[e]
  OBVIOUS
<1> HIDE DEF u
<1>2. ASSUME NEW x \in T \ {Root}, In[x] \in DOMAIN u
      PROVE  x \in u[In[x]] \union DOMAIN u \union {c}
  <2>1. CASE In[x] = c
    BY <1>1, <2>1
  <2>2. CASE In[x] # c
    <3>1. In[x] \in DOMAIN t /\ u[In[x]] = t[In[x]]
      BY <1>1, <1>2, <2>2
    <3> QED BY <1>1, <3>1 DEF Covers, RemovePhase
  <2> QED BY <2>1, <2>2
<1>3. Covers("walk", c, f, u, T)
  BY <1>2 DEF Covers
<1> QED BY <1>3 DEF u

\* What readdir returns is at hand.
LEMMA CoversTaken ==
  ASSUME NEW c, NEW f, NEW t, NEW T, Covers("walk", c, f, t, T), c \in DOMAIN t, NEW x,
         NEW u, u = [t EXCEPT ![c] = @ \ {x}]
  PROVE  Covers("unlink", c, x, u, T) /\ Covers("enter", x, f, u, T)
<1>1. /\ DOMAIN u = DOMAIN t /\ u[c] = t[c] \ {x}
      /\ \A e \in DOMAIN t \ {c} : u[e] = t[e]
  OBVIOUS
<1>2. ASSUME NEW y \in T \ {Root}, In[y] \in DOMAIN u, y # x
      PROVE  y \in u[In[y]] \union DOMAIN u
  <2>1. y \in t[In[y]] \union DOMAIN t
    BY <1>1, <1>2 DEF Covers, RemovePhase
  <2> QED BY <1>1, <1>2, <2>1
<1> QED BY <1>2 DEF Covers

\* A directory that is closed is at hand, and empty if it was read to its end.
LEMMA CoversClosed ==
  ASSUME NEW c, NEW f, NEW t, NEW T, Covers("walk", c, f, t, T), Sound("walk", c, f, t),
         NEW u, u = [e \in DOMAIN t \ {c} |-> t[e]]
  PROVE  Covers("rmdir", c, f, u, T) /\ (t[c] = {} => Empties("rmdir", c, T))
<1>1. DOMAIN u = DOMAIN t \ {c} /\ \A d \in DOMAIN u : u[d] = t[d]
  OBVIOUS
<1>2. Covers("rmdir", c, f, u, T)
  BY <1>1 DEF Covers, RemovePhase
<1>3. ASSUME t[c] = {}, NEW x \in T \ {Root}, In[x] = c PROVE FALSE
  <2>1. c \in DOMAIN t /\ \A d \in DOMAIN t \ {Root} : In[d] # c
    BY DEF Sound, RemovePhase
  <2>2. x \in DOMAIN t \union {c}
    BY <1>3, <2>1 DEF Covers, RemovePhase
  <2> QED BY <1>3, <2>1, <2>2
<1> QED BY <1>2, <1>3 DEF Empties

\* One level up, when the directory is gone.
LEMMA CoversUp ==
  ASSUME NEW a \in RemovePhase \ Reading, NEW c, NEW f, NEW t, NEW T, NEW T2,
         Covers(a, c, f, t, T), T2 \subseteq T, c \notin T2
  PROVE  Covers("walk", In[c], f, t, T2)
BY DEF Covers, Reading

-----------------------------------------------------------------------------
\* The pieces of the steps, once more.
FinishType ==
  /\ Shapes
  /\ job \in [Workers -> Jobs]
  /\ trouble \in Nat
  /\ there \subseteq Entries

OthersStay(v) == OthersShapes(v) /\ OthersJobs(v)

\* One worker's removal stays where it is in the tree and goes on to p, goes on
\* one level up, or returns.
OnTo(v, p) ==
  /\ at'[v] = p /\ job'[v].cur = job[v].cur /\ job'[v].entry = job[v].entry
  /\ todo'[v] = todo[v]
UpFrom(v) ==
  /\ at'[v] = "walk" /\ job[v].cur # Root
  /\ job'[v].cur = In[job[v].cur] /\ job'[v].entry = job[v].entry
  /\ todo'[v] = todo[v]
OutOf(v) == at'[v] = "idle" /\ DOMAIN todo'[v] = {}

MovesOn(v) == Shapes' /\ job' \in [Workers -> Jobs] /\ OthersStay(v)

\* One local that is set.
LEMMA SetCur ==
  ASSUME job \in [Workers -> Jobs], NEW v \in Workers, NEW d \in Dirs,
         job' = [job EXCEPT ![v].cur = d]
  PROVE  /\ job' \in [Workers -> Jobs] /\ OthersJobs(v)
         /\ job'[v].cur = d /\ job'[v].entry = job[v].entry
<1> DEFINE j == [job[v] EXCEPT !.cur = d]
<1>1. job[v] \in Jobs
  OBVIOUS
<1>2. j \in Jobs /\ j.cur = d /\ j.entry = job[v].entry
  BY <1>1 DEF Jobs
<1>3. job' = [job EXCEPT ![v] = j]
  OBVIOUS
<1> HIDE DEF j
<1> QED BY <1>2, <1>3, LocalsMove

\* The number of attempts, with or without the entry they are about.
LEMMA SetTries ==
  ASSUME job \in [Workers -> Jobs], NEW v \in Workers, NEW n \in Nat, NEW x \in Entries,
         \/ job' = [job EXCEPT ![v].tries = n] /\ x = job[v].entry
         \/ job' = [job EXCEPT ![v].entry = x, ![v].tries = n]
  PROVE  /\ job' \in [Workers -> Jobs] /\ OthersJobs(v)
         /\ job'[v].cur = job[v].cur /\ job'[v].entry = x
<1> DEFINE j == [job[v] EXCEPT !.entry = x, !.tries = n]
<1>1. job[v] \in Jobs
  OBVIOUS
<1>2. j \in Jobs /\ j.cur = job[v].cur /\ j.entry = x
  BY <1>1 DEF Jobs
<1>3. job' = [job EXCEPT ![v] = j]
  <2>1. CASE job' = [job EXCEPT ![v].entry = x, ![v].tries = n]
    BY <2>1
  <2>2. CASE job' = [job EXCEPT ![v].tries = n] /\ x = job[v].entry
    <3>1. j = [job[v] EXCEPT !.tries = n]
      BY <1>1, <2>2 DEF Jobs
    <3> QED BY <2>2, <3>1
  <2> QED BY <2>1, <2>2
<1> HIDE DEF j
<1> QED BY <1>2, <1>3, LocalsMove

\* The end of a directory.
LEMMA LeaveMoves ==
  ASSUME FinishType, NEW v \in Workers, NEW ok \in BOOLEAN, Leave(v, ok),
         job[v].cur \in Dirs, job[v].cur # Root => In[job[v].cur] \in Dirs
  PROVE  /\ MovesOn(v)
         /\ \/ ok /\ UpFrom(v)
            \/ (~ok \/ job[v].cur = Root) /\ OutOf(v)
<1>1. CASE ok /\ job[v].cur # Root /\ UNCHANGED <<todo, ret>>
           /\ job' = [job EXCEPT ![v].cur = In[job[v].cur]] /\ Goto(v, "walk")
  <2>1. Shapes' /\ OthersShapes(v) /\ at'[v] = "walk"
    BY <1>1, GotoMoves DEF FinishType
  <2>2. /\ job' \in [Workers -> Jobs] /\ OthersJobs(v)
        /\ job'[v].cur = In[job[v].cur] /\ job'[v].entry = job[v].entry
    BY <1>1, SetCur DEF FinishType
  <2> QED BY <1>1, <2>1, <2>2 DEF MovesOn, OthersStay, UpFrom
<1>2. CASE (~ok \/ job[v].cur = Root) /\ Return(v, ok)
           /\ job' = [job EXCEPT ![v].cur = Root, ![v].entry = Root, ![v].tries = 0]
  <2>1. Shapes' /\ OthersShapes(v) /\ at'[v] = "idle"
    BY <1>2, ReturnMoves DEF FinishType
  <2>2. job' \in [Workers -> Jobs] /\ OthersJobs(v)
    <3>1. Root \in Dirs /\ Root \in Entries /\ 0 \in Nat
      BY DirectoryAssumption DEF Entries
    <3> QED BY <1>2, <3>1, TraversalMoves DEF FinishType, Elsewhere
  <2>3. DOMAIN todo'[v] = {}
    BY <1>2 DEF Return, NoneOpen, FinishType, Shapes
  <2> QED BY <1>2, <2>1, <2>2, <2>3 DEF MovesOn, OthersStay, OutOf
<1> QED BY <1>1, <1>2 DEF Leave

\* An attempt that failed.
LEMMA RetryMoves ==
  ASSUME FinishType, NEW v \in Workers, NEW p, Retry(v, p),
         job[v].cur \in Dirs, job[v].cur # Root => In[job[v].cur] \in Dirs
  PROVE  MovesOn(v) /\ (OnTo(v, p) \/ OutOf(v))
<1>1. CASE Leave(v, FALSE)
  BY <1>1, LeaveMoves
<1>2. CASE Goto(v, p) /\ UNCHANGED <<todo, ret>> /\ job' = [job EXCEPT ![v].tries = @ + 1]
  <2>1. Shapes' /\ OthersShapes(v) /\ at'[v] = p
    BY <1>2, GotoMoves DEF FinishType
  <2>2. job[v].tries + 1 \in Nat /\ job[v].entry \in Entries
    BY DEF FinishType, Jobs
  <2>3. job' = [job EXCEPT ![v].tries = job[v].tries + 1]
    BY <1>2 DEF FinishType
  <2>4. /\ job' \in [Workers -> Jobs] /\ OthersJobs(v)
        /\ job'[v].cur = job[v].cur /\ job'[v].entry = job[v].entry
    BY <2>2, <2>3, SetTries DEF FinishType
  <2> QED BY <1>2, <2>1, <2>4 DEF MovesOn, OthersStay, OnTo
<1> QED BY <1>1, <1>2 DEF Retry

-----------------------------------------------------------------------------
\* What a step of a removal does for itself: it stays on its path, passes
\* nothing over, and is not overtaken if it was not, or has just taken something
\* out itself.
Framed(v) ==
  /\ MovesOn(v) /\ UNCHANGED stop /\ trouble' \in {trouble, trouble + 1}
  /\ there' \subseteq there /\ there \intersect Links \subseteq there'
SoundNext(v)  == Sound(at'[v], job'[v].cur, job'[v].entry, todo'[v])
CoversNext(v) ==
  Quiet /\ trouble' = trouble /\ CoversAt(v) /\ (~stop => EmptiesAt(v)) =>
    /\ Covers(at'[v], job'[v].cur, job'[v].entry, todo'[v], there')
    /\ ~stop => Empties(at'[v], job'[v].cur, there')
FreshNext(v)  ==
  /\ Quiet /\ ~stop /\ trouble' = trouble /\ Root \in there' /\ EmptiesAt(v)
  /\ FreshAt(v) \/ there' # there
  => at'[v] \in RemovePhase /\ Fresh(at'[v], job'[v].cur, job'[v].entry, there')

Advances(v) == Framed(v) /\ SoundNext(v) /\ CoversNext(v) /\ FreshNext(v)

\* From one place to another at the same directory.
LEMMA OnAdvances ==
  ASSUME FinishType, NEW v \in Workers, SoundAt(v), Framed(v),
         at[v] \in RemovePhase, NEW p \in RemovePhase, OnTo(v, p),
         at[v] \in Reading <=> p \in Reading,
         p = "unlinking" => job[v].entry \notin Links,
         p \in {"rmdir", "rmdiring"} <=> at[v] \in {"rmdir", "rmdiring"},
         at[v] \in {"unlink", "unlinking"} /\ Quiet =>
           p \in {"unlink", "unlinking"} \/ job[v].entry \notin there',
         FreshNext(v)
  PROVE  Advances(v)
<1> DEFINE c == job[v].cur
           f == job[v].entry
           t == todo[v]
<1>1. /\ at'[v] = p /\ job'[v].cur = c /\ job'[v].entry = f /\ todo'[v] = t
      /\ there' \subseteq there
  BY DEF OnTo, Framed
<1>2. Sound(at[v], c, f, t)
  BY DEF SoundAt
<1> HIDE DEF c, f, t
<1>3. Sound(p, c, f, t)
  BY <1>2, SoundOn DEF f
<1>4. ASSUME Quiet, CoversAt(v) PROVE Covers(p, c, f, t, there')
  <2>1. Covers(at[v], c, f, t, there)
    BY <1>4 DEF CoversAt, c, f, t
  <2> QED BY <1>1, <1>4, <2>1, CoversOn DEF f
<1>5. EmptiesAt(v) => Empties(p, c, there')
  BY <1>1 DEF EmptiesAt, Empties, c
<1> QED BY <1>1, <1>3, <1>4, <1>5 DEF Advances, SoundNext, CoversNext

\* One level up, when the directory is gone.
LEMMA UpAdvances ==
  ASSUME FinishType, NEW v \in Workers, SoundAt(v), Framed(v),
         at[v] \in RemovePhase \ Reading, UpFrom(v), job[v].cur \notin there'
  PROVE  Advances(v)
<1> DEFINE c == job[v].cur
           f == job[v].entry
           t == todo[v]
<1>1. /\ at'[v] = "walk" /\ job'[v].cur = In[c] /\ job'[v].entry = f /\ todo'[v] = t
      /\ there' \subseteq there /\ c # Root /\ c \notin there'
  BY DEF UpFrom, Framed
<1>2. Sound(at[v], c, f, t)
  BY DEF SoundAt
<1> HIDE DEF c, f, t
<1>3. Sound("walk", In[c], f, t)
  BY <1>1, <1>2, SoundUp
<1>4. ASSUME CoversAt(v) PROVE Covers("walk", In[c], f, t, there')
  <2>1. Covers(at[v], c, f, t, there)
    BY <1>4 DEF CoversAt, c, f, t
  <2> QED BY <1>1, <1>4, <2>1, CoversUp
<1>5. Empties("walk", In[c], there') /\ Fresh("walk", In[c], f, there')
  BY DEF Empties, Fresh
<1> QED BY <1>1, <1>3, <1>4, <1>5
        DEF Advances, SoundNext, CoversNext, FreshNext, RemovePhase

\* A removal that gives up, or has come to its end.
LEMMA OutAdvances ==
  ASSUME FinishType, NEW v \in Workers, Framed(v), OutOf(v), FreshNext(v)
  PROVE  Advances(v)
<1>1. SoundNext(v)
  BY SoundOut DEF SoundNext, OutOf
<1>2. CoversNext(v)
  BY DEF CoversNext, OutOf, Covers, Empties, RemovePhase
<1> QED BY <1>1, <1>2 DEF Advances

\* What is known of the directory a removal is at.
LEMMA AtDirectory ==
  ASSUME FinishType, NEW v \in Workers
  PROVE  /\ job[v].cur \in Dirs /\ job[v].entry \in Entries
         /\ job[v].cur # Root => In[job[v].cur] \in Dirs
  <1>1. job[v] \in Jobs
    BY DEF FinishType
  <1> QED BY <1>1, DirectoryAssumption DEF Jobs, Entries


\* Enter and Rmdir: a directory that is not there any more has been removed.
LEMMA EnterAdvances ==
  ASSUME FinishType, NEW v \in Workers, SoundAt(v), Enter(v) \/ Rmdir(v)
  PROVE  Advances(v)
<1> DEFINE next == IF at[v] = "enter" THEN "open" ELSE "rmdiring"
<1>1. /\ at[v] \in {"enter", "rmdir"} /\ UNCHANGED <<there, stop, trouble>>
      /\ \/ job[v].cur \notin there /\ Leave(v, TRUE)
         \/ /\ job[v].cur \in there /\ Goto(v, next) /\ UNCHANGED <<job, todo, ret>>
  BY DEF Enter, Rmdir, disk
<1>2. MovesOn(v) => Framed(v)
  BY <1>1 DEF Framed
<1>3. CASE job[v].cur \in there /\ Goto(v, next) /\ UNCHANGED <<job, todo, ret>>
  <2>1. MovesOn(v) /\ OnTo(v, next)
    BY <1>3, GotoMoves DEF FinishType, MovesOn, OthersStay, OthersJobs, OnTo
  <2>2. FreshNext(v)
    BY <1>1, <1>3, <2>1 DEF FreshNext, Fresh, OnTo, RemovePhase
  <2> QED BY <1>1, <1>2, <2>1, <2>2, OnAdvances DEF RemovePhase, Reading
<1>4. CASE job[v].cur \notin there /\ Leave(v, TRUE)
  <2>1. MovesOn(v) /\ (UpFrom(v) \/ (job[v].cur = Root /\ OutOf(v)))
    BY <1>4, LeaveMoves, AtDirectory
  <2>2. CASE UpFrom(v)
    BY <1>1, <1>2, <1>4, <2>1, <2>2, UpAdvances DEF RemovePhase, Reading
  <2>3. CASE job[v].cur = Root /\ OutOf(v)
    <3>1. FreshNext(v)
      BY <1>1, <1>4, <2>3 DEF FreshNext
    <3> QED BY <1>2, <2>1, <2>3, <3>1, OutAdvances
  <2> QED BY <2>1, <2>2, <2>3
<1> QED BY <1>1, <1>3, <1>4

\* OpenDir.
LEMMA OpenAdvances ==
  ASSUME FinishType, NEW v \in Workers, SoundAt(v), OpenDir(v)
  PROVE  Advances(v)
<1> DEFINE c == job[v].cur
           f == job[v].entry
           t == todo[v]
<1>1. /\ at[v] = "open" /\ UNCHANGED <<there, stop>>
      /\ \/ c \notin there /\ Leave(v, FALSE) /\ UNCHANGED trouble
         \/ Fault /\ Leave(v, FALSE)
         \/ c \in there /\ Opens(v, c, Inside(c)) /\ Goto(v, "walk")
            /\ UNCHANGED <<job, ret, trouble>>
  BY DEF OpenDir, disk
<1>2. MovesOn(v) => Framed(v)
  BY <1>1 DEF Framed, Fault
<1>3. CASE Leave(v, FALSE) /\ ((c \notin there /\ UNCHANGED trouble) \/ Fault)
  <2>1. MovesOn(v) /\ OutOf(v)
    BY <1>3, LeaveMoves, AtDirectory
  <2>2. trouble' # trouble \/ c \notin there
    BY <1>3 DEF Fault, FinishType
  <2>3. FreshNext(v)
    BY <1>1, <2>2 DEF FreshNext, FreshAt, Fresh
  <2> QED BY <1>2, <2>1, <2>3, OutAdvances
<1>4. CASE c \in there /\ Opens(v, c, Inside(c)) /\ Goto(v, "walk")
            /\ UNCHANGED <<job, ret, trouble>>
  <2> DEFINE X == Inside(c)
             u == [e \in DOMAIN t \union {c} |-> IF e = c THEN X ELSE t[e]]
  <2>1. MovesOn(v) /\ at'[v] = "walk" /\ job' = job
    BY <1>4, GotoMoves, OpensOne DEF FinishType, MovesOn, OthersStay, OthersJobs
  <2>2. todo'[v] = u
    BY <1>4 DEF Opens, FinishType, Shapes
  <2>3. X = {x \in there \ {Root} : In[x] = c} /\ \A x \in X : x \in Entries \ {Root} /\ In[x] = c
    BY DEF Inside, FinishType
  <2>4. Sound("open", c, f, t)
    BY <1>1 DEF SoundAt
  <2>5. CoversAt(v) => Covers("open", c, f, t, there)
    BY <1>1 DEF CoversAt
  <2> HIDE DEF X, c, f, t
  <2>6. Sound("walk", c, f, u)
    BY <2>3, <2>4, SoundOpened
  <2>7. CoversAt(v) => Covers("walk", c, f, u, there)
    BY <2>3, <2>5, CoversOpened
  <2> HIDE DEF u
  <2>8. SoundNext(v)
    BY <2>1, <2>2, <2>6 DEF SoundNext, c, f
  <2>9. CoversNext(v) /\ FreshNext(v)
    BY <1>1, <2>1, <2>2, <2>7 DEF CoversNext, FreshNext, Empties, Fresh, RemovePhase, c, f
  <2> QED BY <1>2, <2>1, <2>8, <2>9 DEF Advances
<1> QED BY <1>1, <1>3, <1>4

\* WalkEnds.
LEMMA WalkEndAdvances ==
  ASSUME FinishType, NEW v \in Workers, SoundAt(v), WalkEnds(v)
  PROVE  Advances(v)
<1> DEFINE c == job[v].cur
           f == job[v].entry
           t == todo[v]
           u == [e \in DOMAIN t \ {c} |-> t[e]]
<1>1. /\ at[v] = "walk" /\ UNCHANGED <<there, stop, ret>>
      /\ \/ (t[c] = {} \/ stop) /\ UNCHANGED trouble
         \/ trouble' = trouble + 1
      /\ job' = [job EXCEPT ![v].tries = 0] /\ Closes(v, c) /\ Goto(v, "rmdir")
  BY DEF WalkEnds, Fault, disk
<1>t. trouble' = trouble => t[c] = {} \/ stop
  BY <1>1 DEF FinishType
<1>2. Shapes' /\ OthersShapes(v) /\ at'[v] = "rmdir"
  BY <1>1, GotoMoves, OpensOne DEF FinishType
<1>3. /\ job' \in [Workers -> Jobs] /\ OthersJobs(v)
      /\ job'[v].cur = c /\ job'[v].entry = f
  <2>1. f \in Entries /\ 0 \in Nat
    BY AtDirectory
  <2> QED BY <1>1, <2>1, SetTries DEF FinishType
<1>4. todo'[v] = u
  BY <1>1 DEF Closes, FinishType, Shapes
<1>5. Sound("walk", c, f, t) /\ (CoversAt(v) => Covers("walk", c, f, t, there))
  BY <1>1 DEF SoundAt, CoversAt
<1> HIDE DEF c, f, t
<1>6. Sound("rmdir", c, f, u)
  BY <1>5, SoundClosed
<1>7. CoversAt(v) => Covers("rmdir", c, f, u, there) /\ (t[c] = {} => Empties("rmdir", c, there))
  BY <1>5, CoversClosed
<1> HIDE DEF u
<1>8. Framed(v)
  BY <1>1, <1>2, <1>3 DEF Framed, MovesOn, OthersStay
<1>9. SoundNext(v) /\ CoversNext(v) /\ FreshNext(v)
  BY <1>1, <1>t, <1>2, <1>3, <1>4, <1>6, <1>7
     DEF SoundNext, CoversNext, FreshNext, Fresh, RemovePhase
<1> QED BY <1>8, <1>9 DEF Advances

\* WalkFile and WalkDir.
LEMMA WalkAdvances ==
  ASSUME FinishType, NEW v \in Workers, SoundAt(v), WalkFile(v) \/ WalkDir(v)
  PROVE  Advances(v)
<1> DEFINE c == job[v].cur
           f == job[v].entry
           t == todo[v]
<1>1. at[v] = "walk" /\ UNCHANGED <<there, stop, trouble, ret>>
  BY DEF WalkFile, WalkDir, disk
<1>2. PICK x \in t[c] :
        /\ Taken(v, c, x)
        /\ \/ /\ x \in Files /\ job' = [job EXCEPT ![v].entry = x, ![v].tries = 0]
              /\ Goto(v, "unlink")
           \/ /\ x \in Dirs /\ job' = [job EXCEPT ![v].cur = x] /\ Goto(v, "enter")
  BY DEF WalkFile, WalkDir
<1> DEFINE u == [t EXCEPT ![c] = @ \ {x}]
<1>3. todo'[v] = u
  BY <1>2 DEF Taken, FinishType, Shapes
<1>4. Sound("walk", c, f, t) /\ (CoversAt(v) => Covers("walk", c, f, t, there))
  BY <1>1 DEF SoundAt, CoversAt
<1>5. c \in DOMAIN t
  BY <1>4 DEF Sound, RemovePhase
<1>6. \E p : Goto(v, p) /\ \E e, y : todo' = [todo EXCEPT ![v][e] = y]
  BY <1>2 DEF Taken
<1>7. Shapes' /\ OthersShapes(v)
  BY <1>1, <1>6, GotoMoves DEF FinishType
<1>8. CASE /\ x \in Files /\ job' = [job EXCEPT ![v].entry = x, ![v].tries = 0]
           /\ Goto(v, "unlink")
  <2>1. /\ job' \in [Workers -> Jobs] /\ OthersJobs(v)
        /\ job'[v].cur = c /\ job'[v].entry = x
    <3>1. x \in Entries /\ 0 \in Nat
      BY <1>8 DEF Entries
    <3> QED BY <1>8, <3>1, SetTries DEF FinishType
  <2>2. at'[v] = "unlink"
    BY <1>8 DEF Goto, FinishType, Shapes
  <2> HIDE DEF c, f, t
  <2>3. Sound("unlink", c, x, u) /\ (CoversAt(v) => Covers("unlink", c, x, u, there))
    BY <1>4, <1>5, SoundTaken, CoversTaken
  <2> HIDE DEF u
  <2>4. Framed(v)
    BY <1>1, <1>7, <2>1 DEF Framed, MovesOn, OthersStay
  <2>5. SoundNext(v) /\ CoversNext(v) /\ FreshNext(v)
    BY <1>1, <1>3, <2>1, <2>2, <2>3
       DEF SoundNext, CoversNext, FreshNext, Empties, Fresh, RemovePhase
  <2> QED BY <2>4, <2>5 DEF Advances
<1>9. CASE x \in Dirs /\ job' = [job EXCEPT ![v].cur = x] /\ Goto(v, "enter")
  <2>1. /\ job' \in [Workers -> Jobs] /\ OthersJobs(v)
        /\ job'[v].cur = x /\ job'[v].entry = f
    BY <1>9, SetCur DEF FinishType
  <2>2. at'[v] = "enter"
    BY <1>9 DEF Goto, FinishType, Shapes
  <2> HIDE DEF c, f, t
  <2>3. Sound("enter", x, f, u) /\ (CoversAt(v) => Covers("enter", x, f, u, there))
    BY <1>4, <1>5, <1>9, SoundTaken, CoversTaken
  <2> HIDE DEF u
  <2>4. Framed(v)
    BY <1>1, <1>7, <2>1 DEF Framed, MovesOn, OthersStay
  <2>5. SoundNext(v) /\ CoversNext(v) /\ FreshNext(v)
    BY <1>1, <1>3, <2>1, <2>2, <2>3
       DEF SoundNext, CoversNext, FreshNext, Empties, Fresh, RemovePhase
  <2> QED BY <2>4, <2>5 DEF Advances
<1> QED BY <1>2, <1>8, <1>9

\* Unlink.
LEMMA UnlinkAdvances ==
  ASSUME FinishType, NEW v \in Workers, SoundAt(v), Unlink(v)
  PROVE  Advances(v)
<1> DEFINE f == job[v].entry
           p == IF f \in there \ Links THEN "unlinking" ELSE "walk"
<1>1. at[v] = "unlink" /\ UNCHANGED <<there, stop, trouble, job, todo, ret>> /\ Goto(v, p)
  BY DEF Unlink, disk
<1>2. MovesOn(v) /\ OnTo(v, p)
  BY <1>1, GotoMoves DEF FinishType, MovesOn, OthersStay, OthersJobs, OnTo
<1>3. Framed(v)
  BY <1>1, <1>2 DEF Framed
<1>4. FreshNext(v)
  BY <1>1, <1>2 DEF FreshNext, Fresh, OnTo, RemovePhase
<1>5. Quiet => p = "unlinking" \/ f \notin there'
  BY <1>1 DEF Quiet
<1> QED BY <1>1, <1>2, <1>3, <1>4, <1>5, OnAdvances DEF RemovePhase, Reading

\* Unlinking.
LEMMA UnlinkingAdvances ==
  ASSUME FinishType, NEW v \in Workers, SoundAt(v), Unlinking(v)
  PROVE  Advances(v)
<1> DEFINE f == job[v].entry
<1>1. /\ at[v] = "unlinking" /\ UNCHANGED stop
      /\ \/ /\ f \in there /\ Takes(v, {f}) /\ Goto(v, "walk")
            /\ UNCHANGED <<job, todo, ret, trouble>>
         \/ Fault /\ Retry(v, "unlink") /\ UNCHANGED there
         \/ f \notin there /\ Retry(v, "unlink") /\ UNCHANGED <<there, trouble>>
  BY DEF Unlinking
<1>2. CASE /\ f \in there /\ Takes(v, {f}) /\ Goto(v, "walk")
           /\ UNCHANGED <<job, todo, ret, trouble>>
  <2>1. MovesOn(v) /\ OnTo(v, "walk")
    BY <1>2, GotoMoves DEF FinishType, MovesOn, OthersStay, OthersJobs, OnTo
  <2>2. f \notin Links
    BY <1>1 DEF SoundAt, Sound
  <2>3. Framed(v) /\ f \notin there'
    BY <1>1, <1>2, <2>1, <2>2 DEF Framed, Takes
  <2>4. FreshNext(v)
    BY <2>1 DEF FreshNext, Fresh, OnTo, RemovePhase
  <2> QED BY <1>1, <2>1, <2>3, <2>4, OnAdvances DEF RemovePhase, Reading
<1>3. CASE /\ Retry(v, "unlink") /\ UNCHANGED there
           /\ Fault \/ (f \notin there /\ UNCHANGED trouble)
  <2>1. MovesOn(v) /\ (OnTo(v, "unlink") \/ OutOf(v))
    BY <1>3, RetryMoves, AtDirectory
  <2>2. Framed(v)
    BY <1>1, <1>3, <2>1 DEF Framed, Fault
  <2>3. trouble' # trouble \/ f \notin there
    BY <1>3 DEF Fault, FinishType
  <2>4. FreshNext(v)
    BY <1>1, <1>3, <2>3 DEF FreshNext, FreshAt, Fresh
  <2>5. CASE OnTo(v, "unlink")
    BY <1>1, <2>2, <2>4, <2>5, OnAdvances DEF RemovePhase, Reading
  <2>6. CASE OutOf(v)
    BY <2>2, <2>4, <2>6, OutAdvances
  <2> QED BY <2>1, <2>5, <2>6
<1> QED BY <1>1, <1>2, <1>3

\* Rmdiring.
LEMMA RmdiringAdvances ==
  ASSUME FinishType, NEW v \in Workers, SoundAt(v), Rmdiring(v)
  PROVE  Advances(v)
<1> DEFINE d == job[v].cur
<1>1. /\ at[v] = "rmdiring" /\ UNCHANGED stop
      /\ \/ Takes(v, {d}) /\ Leave(v, TRUE) /\ UNCHANGED trouble
         \/ Fault /\ Retry(v, "rmdir") /\ UNCHANGED there
         \/ /\ d \notin there \/ Inside(d) # {}
            /\ Retry(v, "rmdir") /\ UNCHANGED <<there, trouble>>
  BY DEF Rmdiring
<1>2. CASE Takes(v, {d}) /\ Leave(v, TRUE) /\ UNCHANGED trouble
  <2>1. MovesOn(v) /\ (UpFrom(v) \/ (d = Root /\ OutOf(v)))
    BY <1>2, LeaveMoves, AtDirectory
  <2>2. d \notin Links
    BY AtDirectory, DirectoryAssumption
  <2>3. Framed(v) /\ d \notin there'
    BY <1>1, <1>2, <2>1, <2>2 DEF Framed, Takes
  <2>4. CASE UpFrom(v)
    BY <1>1, <2>3, <2>4, UpAdvances DEF RemovePhase, Reading
  <2>5. CASE d = Root /\ OutOf(v)
    <3>1. FreshNext(v)
      BY <2>3, <2>5 DEF FreshNext
    <3> QED BY <2>3, <2>5, <3>1, OutAdvances
  <2> QED BY <2>1, <2>4, <2>5
<1>3. CASE /\ Retry(v, "rmdir") /\ UNCHANGED there
           /\ Fault \/ ((d \notin there \/ Inside(d) # {}) /\ UNCHANGED trouble)
  <2>1. MovesOn(v) /\ (OnTo(v, "rmdir") \/ OutOf(v))
    BY <1>3, RetryMoves, AtDirectory
  <2>2. Framed(v)
    BY <1>1, <1>3, <2>1 DEF Framed, Fault
  <2>3. trouble' # trouble \/ d \notin there \/ Inside(d) # {}
    BY <1>3 DEF Fault, FinishType
  <2>4. FreshNext(v)
    BY <1>1, <1>3, <2>3 DEF FreshNext, FreshAt, Fresh, EmptiesAt, Empties, Inside
  <2>5. CASE OnTo(v, "rmdir")
    BY <1>1, <2>2, <2>4, <2>5, OnAdvances DEF RemovePhase, Reading
  <2>6. CASE OutOf(v)
    BY <2>2, <2>4, <2>6, OutAdvances
  <2> QED BY <2>1, <2>5, <2>6
<1> QED BY <1>1, <1>2, <1>3

-----------------------------------------------------------------------------
\* What a call and a step of copy_to or move_to does: it takes nothing out, and
\* begins a removal, if it does, at the root with nothing open.
Begins(v) ==
  /\ MovesOn(v) /\ UNCHANGED <<there, stop>> /\ trouble' \in {trouble, trouble + 1}
  /\ at[v] \notin RemovePhase
  /\ at'[v] \in CopyPhase \union {"enter", "idle"}
  /\ at'[v] # "idle" => job'[v].cur = Root
  /\ at'[v] \in CopyPhase => job'[v].op # "remove"
  /\ DOMAIN todo'[v] \subseteq {Root} /\ (at'[v] # "copy" => DOMAIN todo'[v] = {})
  /\ ret'[v] = ret[v] \/ ret'[v].op # "remove"

\* Such a step has a sound traversal to show for it.
LEMMA BeginsSound ==
  ASSUME NEW v, Begins(v)
  PROVE  SoundNext(v)
<1> DEFINE a == at'[v]
           c == job'[v].cur
           t == todo'[v]
<1>1. /\ a \in CopyPhase \union {"enter", "idle"} /\ (a # "idle" => c = Root)
      /\ DOMAIN t \subseteq {Root} /\ (a # "copy" => DOMAIN t = {})
  BY DEF Begins
<1> HIDE DEF a, c, t
<1>2. ASSUME NEW f PROVE Sound(a, c, f, t)
  <2>1. CASE a = "enter"
    <3>1. DOMAIN t = {} /\ c = Root /\ Root \in Dirs /\ (DOMAIN t \union {c}) \ {Root} = {}
      BY <1>1, <2>1, DirectoryAssumption
    <3> QED BY <2>1, <3>1 DEF Sound, RemovePhase, CopyPhase
  <2>2. CASE a # "enter"
    BY <1>1, <2>2 DEF Sound, RemovePhase, CopyPhase
  <2> QED BY <2>1, <2>2
<1> QED BY <1>2 DEF SoundNext, a, c, t

\* What copy_to and move_to know of a worker.
Beginning(v) ==
  /\ at[v] \in CopyPhase /\ job[v].op # "remove" /\ job[v].cur = Root
  /\ DOMAIN todo[v] \subseteq {Root} /\ (at[v] # "copy" => DOMAIN todo[v] = {})

\* A call of them returns.
LEMMA ReturnBegins ==
  ASSUME FinishType, NEW v \in Workers, Beginning(v), NEW ok, Return(v, ok),
         UNCHANGED <<there, stop, job>>, trouble' \in {trouble, trouble + 1}
  PROVE  Begins(v)
<1>1. /\ Shapes' /\ OthersShapes(v)
      /\ at'[v] = "idle" /\ ret'[v] = [op |-> job[v].op, ok |-> ok]
  BY ReturnMoves DEF FinishType
<1>2. ret'[v].op = job[v].op
  BY <1>1
<1>3. DOMAIN todo'[v] = {}
  BY DEF Return, NoneOpen, FinishType, Shapes
<1>4. MovesOn(v)
  BY <1>1 DEF FinishType, MovesOn, OthersStay, OthersJobs
<1> QED BY <1>1, <1>2, <1>3, <1>4 DEF Begins, Beginning, CopyPhase, RemovePhase

\* Or goes on.
LEMMA GotoBegins ==
  ASSUME FinishType, NEW v \in Workers, Beginning(v),
         NEW p \in CopyPhase \union {"enter"}, Goto(v, p),
         UNCHANGED <<there, stop, ret>>, trouble' \in {trouble, trouble + 1},
         job' = job \/ \E q \in Places : job' = [job EXCEPT ![v].landing = q],
         \/ UNCHANGED todo /\ (at[v] = "copy" => p = "copy")
         \/ \E X : Opens(v, Root, X) /\ p = "copy"
         \/ Closes(v, Root)
         \/ \E x : Taken(v, Root, x) /\ p = "copy"
  PROVE  Begins(v)
<1>1. \/ UNCHANGED todo
      \/ \E x : todo' = [todo EXCEPT ![v] = x]
      \/ \E e, x : todo' = [todo EXCEPT ![v][e] = x]
  BY OpensOne
<1>2. Shapes' /\ OthersShapes(v) /\ at'[v] = p /\ ret'[v] = ret[v]
  BY <1>1, GotoMoves DEF FinishType
<1>3. /\ job' \in [Workers -> Jobs] /\ OthersJobs(v)
      /\ job'[v].op = job[v].op /\ job'[v].cur = job[v].cur
  <2>1. CASE job' = job
    BY <2>1 DEF FinishType, OthersJobs
  <2>2. ASSUME NEW q \in Places, job' = [job EXCEPT ![v].landing = q]
        PROVE  /\ job' \in [Workers -> Jobs] /\ OthersJobs(v)
               /\ job'[v].op = job[v].op /\ job'[v].cur = job[v].cur
    <3> DEFINE j == [job[v] EXCEPT !.landing = q]
    <3>1. job[v] \in Jobs
      BY DEF FinishType
    <3>2. j \in Jobs /\ j.op = job[v].op /\ j.cur = job[v].cur
      BY <3>1 DEF Jobs
    <3>3. job' = [job EXCEPT ![v] = j]
      BY <2>2
    <3> HIDE DEF j
    <3> QED BY <3>2, <3>3, LocalsMove DEF FinishType
  <2> QED BY <2>1, <2>2
<1>4. DOMAIN todo'[v] \subseteq {Root} /\ (p # "copy" => DOMAIN todo'[v] = {})
  <2>1. /\ DOMAIN todo[v] \subseteq {Root} /\ (at[v] # "copy" => DOMAIN todo[v] = {})
        /\ todo = [w \in Workers |-> todo[w]]
    BY DEF Beginning, FinishType, Shapes
  <2>2. CASE UNCHANGED todo /\ (at[v] = "copy" => p = "copy")
    BY <2>1, <2>2
  <2>3. ASSUME NEW X, Opens(v, Root, X), p = "copy" PROVE DOMAIN todo'[v] \subseteq {Root}
    BY <2>1, <2>3 DEF Opens
  <2>4. CASE Closes(v, Root)
    BY <2>1, <2>4 DEF Closes
  <2>5. ASSUME NEW x, Taken(v, Root, x), p = "copy" PROVE DOMAIN todo'[v] \subseteq {Root}
    BY <2>1, <2>5 DEF Taken
  <2> QED BY <2>2, <2>3, <2>4, <2>5
<1> QED BY <1>2, <1>3, <1>4
        DEF Begins, Beginning, MovesOn, OthersStay, CopyPhase, RemovePhase

\* copy_to coming back.
LEMMA CopyReturnsBegins ==
  ASSUME FinishType, NEW v \in Workers, Beginning(v), NEW ok, CopyReturns(v, ok),
         at[v] # "copy" \/ ok = FALSE,
         UNCHANGED <<there, stop, job>>, trouble' \in {trouble, trouble + 1}
  PROVE  Begins(v)
<1>1. CASE Return(v, ok)
  BY <1>1, ReturnBegins
<1>2. CASE ok /\ Goto(v, "move_stop") /\ UNCHANGED <<todo, ret>>
  BY <1>2, GotoBegins DEF CopyPhase
<1>3. CASE Return(v, FALSE)
  BY <1>3, ReturnBegins
<1> QED BY <1>1, <1>2, <1>3 DEF CopyReturns

\* The steps of move_to and copy_to.
LEMMA CopyBeginsSteps ==
  ASSUME FinishType, NEW v \in Workers, SoundAt(v), at[v] \in CopyPhase => job[v].op # "remove",
         \/ MoveCheck(v) \/ MoveMake(v) \/ MoveStop(v)
         \/ CopyCheck(v) \/ CopyOpen(v) \/ CopyEnds(v) \/ CopyFile(v) \/ CopyDir(v)
         \/ CopyReturn(v)
  PROVE  Begins(v)
<1> USE DEF disk
<1>1. Beginning(v)
  <2>1. at[v] \in CopyPhase
    BY DEF MoveCheck, MoveMake, MoveStop, CopyCheck, CopyOpen, CopyEnds, CopyFile, CopyDir,
           CopyReturn, CopyPhase
  <2> QED BY <2>1 DEF SoundAt, Sound, Beginning, CopyPhase, RemovePhase
<1>2. UNCHANGED <<there, stop>> /\ trouble' \in {trouble, trouble + 1}
  BY DEF MoveCheck, MoveMake, MoveStop, CopyCheck, CopyOpen, CopyEnds, CopyFile, CopyDir,
         CopyReturn, Fault
<1>3. CASE MoveCheck(v)
  <2>1. \/ \E ok : Return(v, ok) /\ UNCHANGED job
        \/ Goto(v, "move_make") /\ UNCHANGED <<todo, ret, job>>
    BY <1>3 DEF MoveCheck
  <2>2. at[v] # "copy"
    BY <1>3 DEF MoveCheck
  <2> QED BY <1>1, <1>2, <2>1, <2>2, ReturnBegins, GotoBegins DEF CopyPhase
<1>4. CASE MoveMake(v)
  <2>1. at[v] # "copy" /\ Goto(v, "copy_check") /\ UNCHANGED <<todo, ret, job>>
    BY <1>4 DEF MoveMake
  <2> QED BY <1>1, <1>2, <2>1, GotoBegins DEF CopyPhase
<1>5. CASE MoveStop(v)
  <2>1. \/ Return(v, FALSE) /\ UNCHANGED job
        \/ Goto(v, "enter") /\ UNCHANGED <<todo, ret, job>>
    BY <1>5 DEF MoveStop
  <2>2. at[v] # "copy"
    BY <1>5 DEF MoveStop
  <2> QED BY <1>1, <1>2, <2>1, <2>2, ReturnBegins, GotoBegins
<1>6. CASE CopyCheck(v)
  <2>1. \/ CopyReturns(v, FALSE) /\ UNCHANGED job
        \/ /\ Goto(v, "copy_open") /\ UNCHANGED <<todo, ret>>
           /\ \E q \in Places : job' = [job EXCEPT ![v].landing = q]
    BY <1>6 DEF CopyCheck, Places
  <2>2. at[v] # "copy"
    BY <1>6 DEF CopyCheck
  <2> QED BY <1>1, <1>2, <2>1, <2>2, CopyReturnsBegins, GotoBegins DEF CopyPhase
<1>7. CASE CopyOpen(v)
  <2>1. \/ CopyReturns(v, FALSE) /\ UNCHANGED job
        \/ Opens(v, Root, Inside(Root)) /\ Goto(v, "copy") /\ UNCHANGED <<ret, job>>
    BY <1>7 DEF CopyOpen
  <2> QED BY <1>1, <1>2, <2>1, CopyReturnsBegins, GotoBegins DEF CopyPhase
<1>8. CASE CopyEnds(v)
  <2>1. Closes(v, Root) /\ Goto(v, "copied") /\ UNCHANGED <<ret, job>>
    BY <1>8 DEF CopyEnds
  <2> QED BY <1>1, <1>2, <2>1, GotoBegins DEF CopyPhase
<1>9. CASE CopyFile(v) \/ CopyDir(v)
  <2>1. \/ CopyReturns(v, FALSE) /\ UNCHANGED job
        \/ (\E x : Taken(v, Root, x)) /\ UNCHANGED <<at, ret, job>>
    BY <1>9 DEF CopyFile, CopyDir
  <2>2. at[v] = "copy"
    BY <1>9 DEF CopyFile, CopyDir
  <2>3. UNCHANGED at => Goto(v, "copy")
    BY <2>2 DEF Goto, FinishType, Shapes
  <2> QED BY <1>1, <1>2, <2>1, <2>3, CopyReturnsBegins, GotoBegins DEF CopyPhase
<1>10. CASE CopyReturn(v)
  <2>1. CopyReturns(v, ~stop) /\ UNCHANGED job /\ at[v] # "copy"
    BY <1>10 DEF CopyReturn
  <2> QED BY <1>1, <1>2, <2>1, CopyReturnsBegins
<1> QED BY <1>3, <1>4, <1>5, <1>6, <1>7, <1>8, <1>9, <1>10

\* A call.
LEMMA CallBegins ==
  ASSUME FinishType, NEW v \in Workers, SoundAt(v),
         NEW op \in Operations, NEW over \in BOOLEAN, NEW first, Call(v, op, over, first),
         (first \in {"copy_check", "move_check"} /\ op # "remove") \/ first = "enter"
  PROVE  Begins(v)
<1> USE DEF disk
<1> DEFINE j == [op |-> op, landing |-> "outer", over |-> over, cur |-> Root,
                 entry |-> Root, tries |-> 0]
<1>1. /\ at[v] = "idle" /\ Goto(v, first) /\ job' = [job EXCEPT ![v] = j]
      /\ ret' = [ret EXCEPT ![v] = [op |-> "none", ok |-> FALSE]]
      /\ UNCHANGED <<there, stop, todo, trouble>>
  BY DEF Call
<1>2. j \in Jobs /\ j.op = op /\ j.cur = Root
  BY DirectoryAssumption DEF Jobs, Places, Entries
<1> HIDE DEF j
<1>3. job' \in [Workers -> Jobs] /\ OthersJobs(v) /\ job'[v] = j
  BY <1>1, <1>2, LocalsMove DEF FinishType
<1>4. /\ at'[v] = first /\ ret'[v].op = "none" /\ todo'[v] = todo[v] /\ Shapes'
      /\ OthersShapes(v)
  BY <1>1 DEF Goto, FinishType, Shapes, OthersShapes
<1>5. DOMAIN todo[v] = {}
  BY <1>1 DEF SoundAt, Sound, RemovePhase
<1> QED BY <1>1, <1>2, <1>3, <1>4, <1>5
        DEF Begins, MovesOn, OthersStay, CopyPhase, RemovePhase

-----------------------------------------------------------------------------
\* What a step of v leaves of the others.
LEMMA OthersFinish ==
  ASSUME FinishInv, NEW v \in Workers, MovesOn(v), UNCHANGED stop,
         there' \subseteq there, NEW w \in Workers \ {v}
  PROVE  /\ SoundAt(w)' /\ (at'[w] \in CopyPhase => job'[w].op # "remove")
         /\ Quiet => CoversAt(w)' /\ (~stop => EmptiesAt(w)')
         /\ at'[w] = at[w] /\ ret'[w] = ret[w]
         /\ there' = there => (FreshAt(w) <=> FreshAt(w)')
<1>1. at'[w] = at[w] /\ job'[w] = job[w] /\ todo'[w] = todo[w] /\ ret'[w] = ret[w]
  BY DEF MovesOn, OthersStay, OthersShapes, OthersJobs
<1>2. SoundAt(w) /\ (at[w] \in CopyPhase => job[w].op # "remove")
  BY DEF FinishInv
<1>3. SoundAt(w)'
  BY <1>1, <1>2 DEF SoundAt
<1>4. ASSUME Quiet PROVE CoversAt(w)' /\ (~stop => EmptiesAt(w)')
  <2>1. CoversAt(w) /\ (~stop => EmptiesAt(w))
    BY <1>4 DEF FinishInv
  <2>2. CoversAt(w)'
    BY <1>1, <2>1 DEF CoversAt, Covers
  <2>3. EmptiesAt(w) => EmptiesAt(w)'
    BY <1>1 DEF EmptiesAt, Empties
  <2> QED BY <2>1, <2>2, <2>3
<1>5. there' = there => (FreshAt(w) <=> FreshAt(w)')
  BY <1>1 DEF FreshAt
<1> QED BY <1>1, <1>2, <1>3, <1>4, <1>5

\* What is quiet has been quiet.
LEMMA WasQuiet ==
  ASSUME trouble \in Nat, trouble' \in {trouble, trouble + 1},
         there \intersect Links \subseteq there', Quiet'
  PROVE  Quiet /\ trouble' = trouble
BY DEF Quiet

\* A step of a removal keeps the invariant.
LEMMA AdvancesFinish ==
  ASSUME FinishType, FinishInv, NEW v \in Workers, Advances(v), at[v] \in RemovePhase,
         at'[v] \notin CopyPhase
  PROVE  FinishType' /\ FinishInv'
<1>1. /\ MovesOn(v) /\ UNCHANGED stop /\ trouble' \in {trouble, trouble + 1}
      /\ there' \subseteq there /\ there \intersect Links \subseteq there'
  BY DEF Advances, Framed
<1>2. FinishType'
  BY <1>1 DEF FinishType, MovesOn
<1>3. \A w \in Workers : SoundAt(w)' /\ (at'[w] \in CopyPhase => job'[w].op # "remove")
  <2>1. SoundAt(v)'
    BY DEF Advances, SoundNext, SoundAt
  <2> QED BY <1>1, <2>1, OthersFinish
<1>4. ASSUME Quiet', NEW w \in Workers PROVE CoversAt(w)' /\ (~stop' => EmptiesAt(w)')
  <2>1. Quiet /\ trouble' = trouble
    BY <1>1, <1>4, WasQuiet DEF FinishType
  <2>2. CASE w = v
    BY <1>1, <2>1, <2>2 DEF FinishInv, Advances, CoversNext, CoversAt, EmptiesAt
  <2>3. CASE w # v
    BY <1>1, <2>1, <2>3, OthersFinish
  <2> QED BY <2>2, <2>3
<1>5. ASSUME Quiet', ~stop', Root \in there' PROVE Pursued'
  <2>1. Quiet /\ trouble' = trouble /\ ~stop /\ Root \in there
    BY <1>1, <1>5, WasQuiet DEF FinishType
  <2>2. Pursued /\ EmptiesAt(v)
    BY <2>1 DEF FinishInv
  <2>3. PICK w \in Workers : at[w] \in RemovePhase /\ FreshAt(w)
    BY <2>2 DEF Pursued
  <2>4. FreshAt(v) \/ there' # there => at'[v] \in RemovePhase /\ FreshAt(v)'
    BY <1>5, <2>1, <2>2 DEF Advances, FreshNext, FreshAt
  <2>5. CASE w = v \/ there' # there
    BY <2>3, <2>4, <2>5 DEF Pursued
  <2>6. CASE w # v /\ there' = there
    BY <1>1, <2>3, <2>6, OthersFinish DEF Pursued
  <2> QED BY <2>5, <2>6
<1> QED BY <1>2, <1>3, <1>4, <1>5 DEF FinishInv

\* So does a step before any removal, and the one that begins it.
LEMMA BeginsFinish ==
  ASSUME FinishType, FinishInv, NEW v \in Workers, Begins(v)
  PROVE  FinishType' /\ FinishInv'
<1>1. /\ MovesOn(v) /\ UNCHANGED <<stop, there>> /\ trouble' \in {trouble, trouble + 1}
      /\ at[v] \notin RemovePhase /\ at'[v] \in CopyPhase \union {"enter", "idle"}
      /\ at'[v] # "copy" => DOMAIN todo'[v] = {}
      /\ at'[v] \in CopyPhase => job'[v].op # "remove"
      /\ ret'[v] = ret[v] \/ ret'[v].op # "remove"
  BY DEF Begins
<1>2. FinishType'
  BY <1>1 DEF FinishType, MovesOn
<1>3. \A w \in Workers : SoundAt(w)' /\ (at'[w] \in CopyPhase => job'[w].op # "remove")
  <2>1. SoundAt(v)'
    BY BeginsSound DEF SoundNext, SoundAt
  <2> QED BY <1>1, <2>1, OthersFinish
<1>4. ASSUME Quiet', NEW w \in Workers PROVE CoversAt(w)' /\ (~stop' => EmptiesAt(w)')
  <2>1. Quiet
    BY <1>1, <1>4, WasQuiet DEF FinishType
  <2>2. CASE w = v
    BY <1>1, <2>2 DEF CoversAt, EmptiesAt, Covers, Empties, RemovePhase, CopyPhase
  <2>3. CASE w # v
    BY <1>1, <2>1, <2>3, OthersFinish
  <2> QED BY <2>2, <2>3
<1>5. ASSUME Quiet', ~stop', Root \in there' PROVE Pursued'
  <2>1. Quiet /\ ~stop /\ Root \in there
    BY <1>1, <1>5, WasQuiet DEF FinishType
  <2>2. Pursued
    BY <2>1 DEF FinishInv
  <2>3. CASE \E w \in Workers : at[w] \in RemovePhase /\ FreshAt(w)
    BY <1>1, <2>3, OthersFinish DEF Pursued
  <2>4. CASE \A w \in Workers : at[w] \notin RemovePhase /\ ret[w].op # "remove"
    <3>1. CASE at'[v] = "enter"
      BY <3>1 DEF Pursued, FreshAt, Fresh, RemovePhase
    <3>2. CASE at'[v] # "enter"
      <4>1. at'[v] \notin RemovePhase /\ ret'[v].op # "remove"
        BY <1>1, <2>4, <3>2 DEF CopyPhase, RemovePhase
      <4> QED BY <1>1, <2>4, <4>1, OthersFinish DEF Pursued
    <3> QED BY <3>1, <3>2
  <2> QED BY <2>2, <2>3, <2>4 DEF Pursued
<1> QED BY <1>2, <1>3, <1>4, <1>5 DEF FinishInv

\* A removal goes on as a removal, or is over.
LEMMA RemovalPlaces ==
  ASSUME FinishType, NEW v \in Workers,
         \/ Enter(v) \/ OpenDir(v) \/ WalkEnds(v) \/ WalkFile(v) \/ WalkDir(v)
         \/ Unlink(v) \/ Unlinking(v) \/ Rmdir(v) \/ Rmdiring(v)
  PROVE  at[v] \in RemovePhase /\ at'[v] \notin CopyPhase
<1>1. at[v] \in RemovePhase
  BY DEF Enter, OpenDir, WalkEnds, WalkFile, WalkDir, Unlink, Unlinking, Rmdir, Rmdiring,
         RemovePhase
<1>2. \E p \in RemovePhase \union {"idle"} : Goto(v, p)
  <2>1. ASSUME NEW ok, Leave(v, ok) PROVE \E p \in RemovePhase \union {"idle"} : Goto(v, p)
    BY <2>1 DEF Leave, Return, RemovePhase
  <2>2. ASSUME NEW p \in RemovePhase, Retry(v, p)
        PROVE  \E q \in RemovePhase \union {"idle"} : Goto(v, q)
    BY <2>1, <2>2 DEF Retry
  <2>3. CASE WalkEnds(v) \/ WalkFile(v) \/ WalkDir(v) \/ Unlink(v)
    BY <2>3 DEF WalkEnds, WalkFile, WalkDir, Unlink, RemovePhase
  <2>4. CASE Enter(v) \/ OpenDir(v) \/ Rmdir(v)
    BY <2>1, <2>4 DEF Enter, OpenDir, Rmdir, RemovePhase
  <2>5. CASE Unlinking(v) \/ Rmdiring(v)
    BY <2>1, <2>2, <2>5 DEF Unlinking, Rmdiring, RemovePhase
  <2> QED BY <2>3, <2>4, <2>5
<1>3. PICK p \in RemovePhase \union {"idle"} : Goto(v, p)
  BY <1>2
<1>4. at'[v] = p
  BY <1>3 DEF Goto, FinishType, Shapes
<1> QED BY <1>1, <1>4 DEF RemovePhase, CopyPhase

\* The stop flag and other processes, which count as trouble.
LEMMA OutsideFinish ==
  ASSUME FinishType, FinishInv,
         RequestStop \/ (\E x \in Entries : Appear(x) \/ Vanish(x)) \/ UNCHANGED vars
  PROVE  FinishType' /\ FinishInv'
<1> USE DEF disk
<1>1. CASE RequestStop \/ UNCHANGED vars
  <2>1. UNCHANGED <<there, at, job, todo, ret, trouble>> /\ (stop => stop' = stop)
    BY <1>1 DEF RequestStop, vars
  <2>2. FinishType'
    BY <2>1 DEF FinishType, Shapes
  <2>3. \A w \in Workers : /\ SoundAt(w)' <=> SoundAt(w)
                           /\ CoversAt(w)' <=> CoversAt(w)
                           /\ EmptiesAt(w)' <=> EmptiesAt(w)
                           /\ FreshAt(w)' <=> FreshAt(w)
    BY <2>1 DEF SoundAt, CoversAt, EmptiesAt, FreshAt
  <2>4. (Quiet' <=> Quiet) /\ (Pursued' <=> Pursued)
    BY <2>1, <2>3 DEF Quiet, Pursued
  <2>5. stop' \/ ~stop
    BY <1>1 DEF RequestStop, vars
  <2> QED BY <2>1, <2>2, <2>3, <2>4, <2>5 DEF FinishInv
<1>2. ASSUME NEW x \in Entries, Appear(x) \/ Vanish(x)
      PROVE  FinishType' /\ FinishInv'
  <2>1. /\ UNCHANGED <<at, job, ret, stop>> /\ trouble' = trouble + 1
        /\ there' \subseteq there \union {x}
    BY <1>2 DEF Appear, Vanish, Fault
  <2>2. /\ \A w \in Workers : /\ DOMAIN todo'[w] = DOMAIN todo[w]
                              /\ \A d \in DOMAIN todo[w] : \A y \in todo'[w][d] :
                                   y \in todo[w][d] \/ (y = x /\ x # Root /\ In[x] = d)
        /\ todo' = [w \in Workers |-> todo'[w]]
    <3>1. CASE Vanish(x)
      BY <3>1 DEF Vanish, FinishType, Shapes
    <3>2. CASE Appear(x)
      <4>1. x # Root
        BY <3>2 DEF Appear
      <4>2. PICK readers : todo' = [w \in Workers |->
              IF w \in readers THEN [todo[w] EXCEPT ![In[x]] = @ \union {x}] ELSE todo[w]]
        BY <3>2 DEF Appear
      <4> QED BY <4>1, <4>2
    <3> QED BY <1>2, <3>1, <3>2
  <2>3. FinishType'
    BY <2>1, <2>2 DEF FinishType, Shapes
  <2>4. ~Quiet'
    BY <2>1 DEF Quiet, FinishType
  <2>5. ASSUME NEW w \in Workers PROVE SoundAt(w)'
    <3> DEFINE a == at[w]
               c == job[w].cur
               f == job[w].entry
               t == todo[w]
               u == todo'[w]
    <3>1. /\ DOMAIN u = DOMAIN t
          /\ \A d \in DOMAIN t : \A y \in u[d] :
               y \in t[d] \/ (y = x /\ x # Root /\ In[x] = d)
      BY <2>2
    <3>2. Sound(a, c, f, t)
      BY DEF FinishInv, SoundAt
    <3>3. at'[w] = a /\ job'[w].cur = c /\ job'[w].entry = f /\ todo'[w] = u
      BY <2>1
    <3> HIDE DEF a, c, f, t, u
    <3>4. Sound(a, c, f, u)
      BY <3>1, <3>2 DEF Sound
    <3> QED BY <3>3, <3>4 DEF SoundAt
  <2> QED BY <2>1, <2>3, <2>4, <2>5 DEF FinishInv
<1> QED BY <1>1, <1>2

\* At the start nobody removes anything.
LEMMA FinishInit == Init => FinishType /\ FinishInv
<1> SUFFICES ASSUME Init PROVE FinishType /\ FinishInv
  OBVIOUS
<1>1. FinishType
  BY TreeInit DEF Init, FinishType, Shapes, TreeInv, TreeType
<1>2. \A w \in Workers : /\ at[w] = "idle" /\ DOMAIN todo[w] = {} /\ ret[w].op = "none"
  BY DEF Init, NoneOpen
<1>3. \A w \in Workers : SoundAt(w) /\ CoversAt(w) /\ EmptiesAt(w)
  BY <1>2 DEF SoundAt, Sound, CoversAt, Covers, EmptiesAt, Empties, CopyPhase, RemovePhase
<1>4. Pursued
  BY <1>2 DEF Pursued, RemovePhase
<1> QED BY <1>1, <1>2, <1>3, <1>4 DEF FinishInv, CopyPhase

\* The invariant of removals is inductive, whoever copies, moves and removes.
LEMMA FinishStep ==
  ASSUME FinishType, FinishInv, [Next]_vars
  PROVE  FinishType' /\ FinishInv'
<1>1. \A v \in Workers : SoundAt(v) /\ (at[v] \in CopyPhase => job[v].op # "remove")
  BY DEF FinishInv
<1>2. ASSUME NEW v \in Workers, NEW over \in BOOLEAN, NEW op \in {"move", "stay"},
             CallCopy(v, over) \/ CallMove(v, op) \/ CallRemove(v)
      PROVE  Begins(v)
  BY <1>1, <1>2, CallBegins DEF CallCopy, CallMove, CallRemove, Operations
<1>3. ASSUME NEW v \in Workers,
             \/ Enter(v) \/ OpenDir(v) \/ WalkEnds(v) \/ WalkFile(v) \/ WalkDir(v)
             \/ Unlink(v) \/ Unlinking(v) \/ Rmdir(v) \/ Rmdiring(v)
      PROVE  FinishType' /\ FinishInv'
  <2>1. Advances(v)
    BY <1>1, <1>3, EnterAdvances, OpenAdvances, WalkEndAdvances, WalkAdvances,
       UnlinkAdvances, UnlinkingAdvances, RmdiringAdvances
  <2> QED BY <1>3, <2>1, RemovalPlaces, AdvancesFinish
<1>4. ASSUME NEW v \in Workers, Step(v) PROVE FinishType' /\ FinishInv'
  BY <1>1, <1>3, <1>4, CopyBeginsSteps, BeginsFinish DEF Step
<1> QED BY <1>2, <1>4, BeginsFinish, OutsideFinish DEF Next

\* However many workers remove one tree at once, overtake each other and fail of
\* it, whatever their retries: when all have returned and nothing else was in
\* the way, the tree is gone.
THEOREM RemovalsFinishTogether == Spec => []RemovalsFinish
<1>1. FinishType /\ FinishInv => RemovalsFinish
  BY DEF FinishInv, RemovalsFinish, Pursued, Quiet, RemovePhase
<1>2. FinishType /\ FinishInv /\ [Next]_vars => (FinishType /\ FinishInv)'
  BY FinishStep
<1> QED BY FinishInit, <1>1, <1>2, PTL DEF Spec
=============================================================================
