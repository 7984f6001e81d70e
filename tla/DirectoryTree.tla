---------------------------- MODULE DirectoryTree ----------------------------
(***************************************************************************)
(* utils::file::directory: copy_to, move_to, remove and remove_recursively *)
(* (support/src/utils/file_directory.cpp) on one source directory, called  *)
(* by several workers while other processes add and remove entries and     *)
(* somebody may set the stop flag.                                         *)
(*                                                                         *)
(* A directory is read entry by entry.  What readdir returns was there     *)
(* when the directory was opened, or came later and was seen; it may be    *)
(* gone by the time it is returned.  A readdir that fails returns nothing, *)
(* like one at the end of the directory, and is taken for that.  Every     *)
(* system call that tests or changes the tree is a step, so that others    *)
(* run between a test and what is done about it.                           *)
(*                                                                         *)
(* copy_to and move_to take the destination the caller names, the "outer"  *)
(* place, or the directory of the source's name in it, the "inner" one.    *)
(* The destination is not the source, nor in it, nor around it, but for    *)
(* the operation "stay": a move_to the place the source has already.       *)
(***************************************************************************)
EXTENDS Naturals, FiniteSets

CONSTANTS
    Files,       \* the files the source may hold, at any depth
    Links,       \* those of them that file::exists() denies: broken links,
                 \* and links to directories
    Dirs, Root,  \* the source directory and the directories below it
    In,          \* the directory each entry is in
    Workers,
    MayCall,     \* the operations each worker calls
    Retries,     \* retry_count of retry_action
    MaxCalls,    \* bound: calls of each worker
    MaxTrouble   \* bound: system calls that fail for no reason seen here, and
                 \* entries added or removed by other processes

Entries    == Files \union Dirs
Operations == {"copy", "move", "stay", "remove"}
Places     == {"outer", "inner"}

ASSUME DirectoryAssumption ==
    /\ Links \subseteq Files
    /\ Root \in Dirs
    /\ Files \intersect Dirs = {}
    /\ In \in [Entries \ {Root} -> Dirs]
    /\ MayCall \in [Workers -> SUBSET Operations]
    /\ Retries \in Nat /\ MaxCalls \in Nat /\ MaxTrouble \in Nat

VARIABLES
    there,     \* the entries of the source tree, Root included, that exist
    made,      \* the places of the destination that exist
    named,     \* [place -> files in it]
    whole,     \* [place -> files in it that were copied to the end]
    stop,      \* *stop_requested_
    at,        \* where each worker is, "idle" between calls
    job,       \* locals of a worker's call
    todo,      \* [worker -> [directory it has open -> entries readdir has yet
               \* to return]]
    moved,     \* workers whose object has become the destination (path_)
    steady,    \* history: files at the top of the source when the call began
               \* that nobody else has removed since, nor a readdir that failed
               \* kept from its copy
    ret,       \* history: what the last call of a worker returned
    calls, trouble

vars == <<there, made, named, whole, stop, at, job, todo, moved, steady, ret,
          calls, trouble>>

disk == <<there, made, named, whole>>

Inside(d)  == {x \in there \ {Root} : In[x] = d}
TopFiles   == {f \in Files : In[f] = Root}
NoneOpen    == [d \in {} |-> {}]

Working == {"move_check", "move_make", "copy_check", "copy_open", "copy", "copied",
            "move_stop", "enter", "open", "walk", "unlink", "unlinking", "rmdir",
            "rmdiring"}

Init ==
    /\ there \in {T \in SUBSET Entries :
                    Root \in T /\ \A x \in T \ {Root} : In[x] \in T}
    /\ made = {}
    /\ named = [p \in Places |-> {}]
    /\ whole = [p \in Places |-> {}]
    /\ stop = FALSE
    /\ at = [w \in Workers |-> "idle"]
    /\ job = [w \in Workers |-> [op |-> "remove", landing |-> "outer", over |-> FALSE,
                                 cur |-> Root, entry |-> Root, tries |-> 0]]
    /\ todo = [w \in Workers |-> NoneOpen]
    /\ moved = {}
    /\ steady = [w \in Workers |-> {}]
    /\ ret = [w \in Workers |-> [op |-> "none", ok |-> FALSE]]
    /\ calls = [w \in Workers |-> 0]
    /\ trouble = 0

-----------------------------------------------------------------------------
Goto(w, place) == at' = [at EXCEPT ![w] = place]

Fault == trouble < MaxTrouble /\ trouble' = trouble + 1

\* w has d open with X ahead of it; w closes d.
Opens(w, d, X) ==
    todo' = [todo EXCEPT ![w] = [e \in DOMAIN @ \union {d} |-> IF e = d THEN X ELSE @[e]]]
Closes(w, d) == todo' = [todo EXCEPT ![w] = [e \in DOMAIN @ \ {d} |-> @[e]]]

\* The entries in X are gone from the source: taken out by w, if it is a worker.
Takes(w, X) ==
    /\ there' = there \ X
    /\ steady' = [v \in Workers |-> IF v = w THEN steady[v] ELSE steady[v] \ X]

Return(w, ok) ==
    /\ Goto(w, "idle")
    /\ ret' = [ret EXCEPT ![w] = [op |-> job[w].op, ok |-> ok]]
    /\ todo' = [todo EXCEPT ![w] = NoneOpen]

\* The object a call is made on still names the source.
Call(w, op, over, first) ==
    /\ at[w] = "idle" /\ w \notin moved
    /\ op \in MayCall[w]
    /\ calls[w] < MaxCalls /\ calls' = [calls EXCEPT ![w] = @ + 1]
    /\ job' = [job EXCEPT ![w] = [op |-> op, landing |-> "outer", over |-> over,
                                  cur |-> Root, entry |-> Root, tries |-> 0]]
    /\ Goto(w, first)
    /\ steady' = [steady EXCEPT ![w] = there \intersect TopFiles]
    /\ ret' = [ret EXCEPT ![w] = [op |-> "none", ok |-> FALSE]]
    /\ UNCHANGED <<disk, stop, todo, moved, trouble>>

CallCopy(w, over) == Call(w, "copy", over, "copy_check")
CallMove(w, op)   == Call(w, op, TRUE, "move_check")  \* copy_to(dst_root, true)
CallRemove(w)     == Call(w, "remove", FALSE, "enter")

-----------------------------------------------------------------------------
\* move_to: a source that is not there is moved, and so is one that is to go
\* where it is; another destination that is there refuses it.
MoveCheck(w) ==
    /\ at[w] = "move_check"
    /\ \/ (Root \notin there \/ job[w].op = "stay") /\ Return(w, TRUE)
       \/ /\ Root \in there /\ job[w].op = "move"
          /\ IF "outer" \in made THEN Return(w, FALSE)
                                 ELSE Goto(w, "move_make") /\ UNCHANGED <<todo, ret>>
    /\ UNCHANGED <<disk, stop, job, moved, steady, calls, trouble>>

\* It makes the destination itself before it calls copy_to(dst_root, true).
\* Whether create_directory succeeded is not looked at.
MoveMake(w) ==
    /\ at[w] = "move_make"
    /\ \/ made' = made \union {"outer"} /\ UNCHANGED trouble
       \/ Fault /\ UNCHANGED made
    /\ Goto(w, "copy_check")
    /\ UNCHANGED <<there, named, whole, stop, job, todo, moved, steady, ret, calls>>

-----------------------------------------------------------------------------
\* Mutant: a copy that failed is taken for done.
CopyReturns_Ignored(w, ok) ==
    \/ job[w].op = "copy" /\ Return(w, ok)
    \/ job[w].op = "move" /\ Goto(w, "move_stop") /\ UNCHANGED <<todo, ret>>

\* What copy_to returns, to its caller or to move_to.
CopyReturns(w, ok) ==
    \/ job[w].op = "copy" /\ Return(w, ok)
    \/ job[w].op = "move" /\ ~ok /\ Return(w, FALSE)
    \/ job[w].op = "move" /\ ok /\ Goto(w, "move_stop") /\ UNCHANGED <<todo, ret>>

\* A destination that is there gets a directory of the source's name, which is
\* not made here; one that is not is made and gets the entries themselves.
CopyCheck(w) ==
    /\ at[w] = "copy_check"
    /\ \/ /\ Root \notin there
          /\ CopyReturns(w, FALSE)
          /\ UNCHANGED <<made, job, trouble>>
       \/ /\ Root \in there /\ "outer" \in made
          /\ job' = [job EXCEPT ![w].landing = "inner"]
          /\ Goto(w, "copy_open")
          /\ UNCHANGED <<made, todo, ret, trouble>>
       \/ /\ Root \in there /\ "outer" \notin made
          /\ job' = [job EXCEPT ![w].landing = "outer"]
          /\ \/ made' = made \union {"outer"} /\ UNCHANGED trouble
             \/ Fault /\ UNCHANGED made
          /\ Goto(w, "copy_open")
          /\ UNCHANGED <<todo, ret>>
    /\ UNCHANGED <<there, named, whole, stop, moved, steady, calls>>

CopyOpen(w) ==
    /\ at[w] = "copy_open"
    /\ \/ Root \notin there /\ CopyReturns(w, FALSE) /\ UNCHANGED trouble
       \/ Root \in there /\ Fault /\ CopyReturns(w, FALSE)
       \/ /\ Root \in there
          /\ Opens(w, Root, Inside(Root))
          /\ Goto(w, "copy")
          /\ UNCHANGED <<ret, trouble>>
    /\ UNCHANGED <<disk, stop, job, moved, steady, calls>>

\* The traversal ends with the last entry, before the next one on a stop, or
\* with a readdir that fails: the entries it has not returned are not copied.
CopyEnds(w) ==
    /\ at[w] = "copy"
    /\ \/ (todo[w][Root] = {} \/ stop) /\ UNCHANGED <<steady, trouble>>
       \/ Fault /\ steady' = [steady EXCEPT ![w] = @ \ todo[w][Root]]
    /\ Goto(w, "copied")
    /\ Closes(w, Root)
    /\ UNCHANGED <<disk, stop, job, moved, ret, calls>>

\* Taken(w, d, x): readdir returns x of directory d.
Taken(w, d, x) == todo' = [todo EXCEPT ![w][d] = @ \ {x}]

\* file::copy_to does not make the directory it copies into, refuses to copy
\* over a file unless told to, and may fail half way.
CopyFile(w) ==
    /\ at[w] = "copy" /\ ~stop
    /\ \E f \in todo[w][Root] \intersect Files :
       LET place == job[w].landing
           can   == /\ f \in there \ Links
                    /\ place \in made
                    /\ f \in named[place] => job[w].over
       IN  \/ /\ can
              /\ named' = [named EXCEPT ![place] = @ \union {f}]
              /\ whole' = [whole EXCEPT ![place] = @ \union {f}]
              /\ Taken(w, Root, f)
              /\ UNCHANGED <<at, ret, trouble>>
           \/ /\ can /\ Fault
              /\ named' = [named EXCEPT ![place] = @ \union {f}]
              /\ whole' = [whole EXCEPT ![place] = @ \ {f}]
              /\ CopyReturns(w, FALSE)
           \/ /\ ~can
              /\ CopyReturns(w, FALSE)
              /\ UNCHANGED <<named, whole, trouble>>
    /\ UNCHANGED <<there, made, stop, job, moved, steady, calls>>

\* A subdirectory is made, with what is missing of the path to it; the files in
\* it are not copied.
CopyDir(w) ==
    /\ at[w] = "copy" /\ ~stop
    /\ \E d \in todo[w][Root] \intersect Dirs : Taken(w, Root, d)
    /\ \/ made' = made \union {"outer", job[w].landing} /\ UNCHANGED trouble
       \/ Fault /\ UNCHANGED made
    /\ UNCHANGED <<there, named, whole, stop, at, job, moved, steady, ret, calls>>

\* Mutant: the traversal alone decides.
CopyReturn_StopIgnored(w) ==
    /\ at[w] = "copied"
    /\ CopyReturns(w, TRUE)
    /\ UNCHANGED <<disk, stop, job, moved, steady, calls, trouble>>

\* A traversal that was stopped returned true: copy_to looks at the flag again.
CopyReturn(w) ==
    /\ at[w] = "copied"
    /\ CopyReturns(w, ~stop)
    /\ UNCHANGED <<disk, stop, job, moved, steady, calls, trouble>>

MoveStop(w) ==
    /\ at[w] = "move_stop"
    /\ \/ stop /\ Return(w, FALSE)
       \/ ~stop /\ Goto(w, "enter") /\ UNCHANGED <<todo, ret>>
    /\ UNCHANGED <<disk, stop, job, moved, steady, calls, trouble>>

-----------------------------------------------------------------------------
\* remove_recursively of job.cur returns.  True goes on with the directory it is
\* in; false ends the traversals of all directories above.
Leave(w, ok) ==
    \/ /\ ok /\ job[w].cur # Root
       /\ job' = [job EXCEPT ![w].cur = In[job[w].cur]]
       /\ Goto(w, "walk")
       /\ UNCHANGED <<todo, ret, moved>>
    \/ /\ ~ok \/ job[w].cur = Root
       /\ Return(w, ok)
       /\ moved' = IF ok /\ job[w].op = "move" THEN moved \union {w} ELSE moved
       /\ job' = [job EXCEPT ![w].cur = Root, ![w].entry = Root, ![w].tries = 0]

Enter(w) ==
    /\ at[w] = "enter"
    /\ \/ job[w].cur \notin there /\ Leave(w, TRUE)
       \/ job[w].cur \in there /\ Goto(w, "open") /\ UNCHANGED <<job, todo, ret, moved>>
    /\ UNCHANGED <<disk, stop, steady, calls, trouble>>

\* opendir: a directory that went away since the test is an exception.
OpenDir(w) ==
    /\ at[w] = "open"
    /\ LET d == job[w].cur
       IN  \/ d \notin there /\ Leave(w, FALSE) /\ UNCHANGED trouble
           \/ d \in there /\ Fault /\ Leave(w, FALSE)
           \/ /\ d \in there
              /\ Opens(w, d, Inside(d))
              /\ Goto(w, "walk")
              /\ UNCHANGED <<job, ret, moved, trouble>>
    /\ UNCHANGED <<disk, stop, steady, calls>>

\* Only the object that the call was made on has the stop flag: the ones made
\* for the directories below do not look at it.  After a readdir that failed
\* the directory is removed as if it had been read to its end.
WalkEnds(w) ==
    /\ at[w] = "walk"
    /\ \/ /\ todo[w][job[w].cur] = {} \/ (stop /\ job[w].cur = Root)
          /\ UNCHANGED trouble
       \/ Fault
    /\ job' = [job EXCEPT ![w].tries = 0]
    /\ Closes(w, job[w].cur)
    /\ Goto(w, "rmdir")
    /\ UNCHANGED <<disk, stop, moved, steady, ret, calls>>

WalkFile(w) ==
    /\ at[w] = "walk" /\ ~(stop /\ job[w].cur = Root)
    /\ \E f \in todo[w][job[w].cur] \intersect Files :
          /\ Taken(w, job[w].cur, f)
          /\ job' = [job EXCEPT ![w].entry = f, ![w].tries = 0]
    /\ Goto(w, "unlink")
    /\ UNCHANGED <<disk, stop, moved, steady, ret, calls, trouble>>

\* Mutant: a subdirectory is removed as if it were empty.
WalkDir_NotRecursive(w) ==
    /\ at[w] = "walk" /\ ~(stop /\ job[w].cur = Root)
    /\ \E d \in todo[w][job[w].cur] \intersect Dirs :
          /\ Taken(w, job[w].cur, d)
          /\ job' = [job EXCEPT ![w].cur = d, ![w].tries = 0]
    /\ Goto(w, "rmdir")
    /\ UNCHANGED <<disk, stop, moved, steady, ret, calls, trouble>>

WalkDir(w) ==
    /\ at[w] = "walk" /\ ~(stop /\ job[w].cur = Root)
    /\ \E d \in todo[w][job[w].cur] \intersect Dirs :
          /\ Taken(w, job[w].cur, d)
          /\ job' = [job EXCEPT ![w].cur = d]
    /\ Goto(w, "enter")
    /\ UNCHANGED <<disk, stop, moved, steady, ret, calls, trouble>>

-----------------------------------------------------------------------------
\* Mutant: a retry that does not count.
Retry_Endless(w, again) ==
    /\ Goto(w, again) /\ UNCHANGED <<job, todo, ret, moved>>

\* retry_action: once more, or false after the last attempt.
Retry(w, again) ==
    \/ /\ job[w].tries + 1 < Retries
       /\ job' = [job EXCEPT ![w].tries = @ + 1]
       /\ Goto(w, again)
       /\ UNCHANGED <<todo, ret, moved>>
    \/ /\ job[w].tries + 1 >= Retries
       /\ Leave(w, FALSE)

\* file::remove: not exists() || remove.
Unlink(w) ==
    /\ at[w] = "unlink"
    /\ Goto(w, IF job[w].entry \in there \ Links THEN "unlinking" ELSE "walk")
    /\ UNCHANGED <<disk, stop, job, todo, moved, steady, ret, calls, trouble>>

Unlinking(w) ==
    /\ at[w] = "unlinking"
    /\ LET f == job[w].entry
       IN  \/ /\ f \in there
              /\ Takes(w, {f})
              /\ Goto(w, "walk")
              /\ UNCHANGED <<job, todo, ret, moved, trouble>>
           \/ /\ f \in there /\ Fault /\ Retry(w, "unlink")
              /\ UNCHANGED <<there, steady>>
           \/ /\ f \notin there /\ Retry(w, "unlink")
              /\ UNCHANGED <<there, steady, trouble>>
    /\ UNCHANGED <<made, named, whole, stop, calls>>

\* directory::remove: not exists() || rmdir.
Rmdir(w) ==
    /\ at[w] = "rmdir"
    /\ \/ job[w].cur \notin there /\ Leave(w, TRUE)
       \/ job[w].cur \in there /\ Goto(w, "rmdiring")
          /\ UNCHANGED <<job, todo, ret, moved>>
    /\ UNCHANGED <<disk, stop, steady, calls, trouble>>

\* Mutant: the outcome of rmdir is not looked at.
Rmdiring_Unchecked(w) ==
    /\ at[w] = "rmdiring"
    /\ LET d == job[w].cur
       IN  /\ Takes(w, IF Inside(d) = {} THEN {d} ELSE {})
           /\ Leave(w, TRUE)
           /\ UNCHANGED trouble
    /\ UNCHANGED <<made, named, whole, stop, calls>>

Rmdiring(w) ==
    /\ at[w] = "rmdiring"
    /\ LET d == job[w].cur
       IN  \/ /\ d \in there /\ Inside(d) = {}
              /\ Takes(w, {d})
              /\ Leave(w, TRUE)
              /\ UNCHANGED trouble
           \/ /\ d \in there /\ Inside(d) = {} /\ Fault /\ Retry(w, "rmdir")
              /\ UNCHANGED <<there, steady>>
           \/ /\ d \notin there \/ Inside(d) # {}
              /\ Retry(w, "rmdir")
              /\ UNCHANGED <<there, steady, trouble>>
    /\ UNCHANGED <<made, named, whole, stop, calls>>

-----------------------------------------------------------------------------
RequestStop ==
    /\ ~stop /\ stop' = TRUE
    /\ UNCHANGED <<disk, at, job, todo, moved, steady, ret, calls, trouble>>

\* Another process adds an entry: directories that are being read may or may
\* not return it.
Appear(x) ==
    /\ Fault
    /\ x \notin there /\ x # Root /\ In[x] \in there
    /\ there' = there \union {x}
    /\ \E readers \in SUBSET {w \in Workers : In[x] \in DOMAIN todo[w]} :
          todo' = [w \in Workers |->
                     IF w \in readers THEN [todo[w] EXCEPT ![In[x]] = @ \union {x}]
                                      ELSE todo[w]]
    /\ UNCHANGED <<made, named, whole, stop, at, job, moved, steady, ret, calls>>

\* It removes one: readdir may have it already.
Vanish(x) ==
    /\ Fault
    /\ x \in there /\ Inside(x) = {}
    /\ there' = there \ {x}
    /\ steady' = [w \in Workers |-> steady[w] \ {x}]
    /\ UNCHANGED <<made, named, whole, stop, at, job, todo, moved, ret, calls>>

Step(w) ==
    \/ MoveCheck(w) \/ MoveMake(w) \/ MoveStop(w)
    \/ CopyCheck(w) \/ CopyOpen(w) \/ CopyEnds(w) \/ CopyFile(w) \/ CopyDir(w)
    \/ CopyReturn(w)
    \/ Enter(w) \/ OpenDir(w) \/ WalkEnds(w) \/ WalkFile(w) \/ WalkDir(w)
    \/ Unlink(w) \/ Unlinking(w) \/ Rmdir(w) \/ Rmdiring(w)

Next ==
    \/ \E w \in Workers, over \in BOOLEAN : CallCopy(w, over)
    \/ \E w \in Workers, op \in {"move", "stay"} : CallMove(w, op)
    \/ \E w \in Workers : CallRemove(w)
    \/ \E w \in Workers : Step(w)
    \/ RequestStop
    \/ \E x \in Entries : Appear(x) \/ Vanish(x)

Spec     == Init /\ [][Next]_vars
FairSpec == Spec /\ \A w \in Workers : WF_vars(Step(w))

-----------------------------------------------------------------------------
\* But for what a failed readdir hides from it, a move loses no file of the
\* source's top level: at any moment, whatever else failed and whether it was
\* stopped, each file that was there when the call began and that nobody else
\* removed is in the source, or whole in the destination.  (Only one worker
\* copies or moves.)
MoveLosesNothing ==
    \A w \in Workers : job[w].op = "move" =>
        steady[w] \subseteq there \union whole[job[w].landing]

\* A copy that reports success has copied every file of the top level that was
\* there when it began, that nobody removed and no failed readdir hid from it,
\* also when a stop was requested.
CopyIsComplete ==
    \A w \in Workers : ret[w] = [op |-> "copy", ok |-> TRUE] =>
        steady[w] \subseteq whole[job[w].landing]

\* A removal, or a move to another place, reports success only when the source
\* is gone.
SuccessMeansGone ==
    [][\A w \in Workers :
         /\ ret'[w] # ret[w]
         /\ ret'[w].op \in {"move", "remove"} /\ ret'[w].ok
         => Root \notin there']_vars

\* Removals that run into each other finish the work between them: once all
\* calls have returned, and unless a stop, a fault, another process or an entry
\* that exists() denies was in the way, the source is gone.
RemovalsFinish ==
    /\ \A w \in Workers : at[w] = "idle"
    /\ \E w \in Workers : ret[w].op = "remove"
    /\ ~stop /\ trouble = 0 /\ there \intersect Links = {}
    => Root \notin there

\* Every call returns.
CallsReturn == \A w \in Workers : at[w] # "idle" ~> at[w] = "idle"
=============================================================================
