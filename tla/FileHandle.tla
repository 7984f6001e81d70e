---- MODULE FileHandle ----
(***************************************************************************)
(* utils::file::file (support/src/utils/file_file.cpp): an object that     *)
(* names a file by path_ and may hold a stdio stream on it.  Reads and     *)
(* writes go through the stream; truncate, move_to, remove and copy_to go  *)
(* through the path, so they close the stream and open it again.  Several  *)
(* objects may name the same file.  Each member function is one action.    *)
(*                                                                         *)
(* The stream is modelled by what the code depends on: the file it is on,  *)
(* its mode, its error indicator, which nothing here ever clears, and the  *)
(* bytes fwrite accepted that have not reached the file.  A device fault   *)
(* may hit any call that touches the disk.                                 *)
(***************************************************************************)
EXTENDS Naturals, Sequences, FiniteSets

CONSTANTS
    Objects,      \* utils::file::file objects
    Paths,
    Inodes,       \* files on disk, named or only held open
    Bytes, Hole,  \* what a byte is, and what a gap reads as
    MaxLen,       \* bound on the length of a file
    MaxCalls,     \* bound on the calls of a behaviour
    None

ASSUME FileAssumption ==
    /\ Hole \in Bytes
    /\ None \notin Inodes
    /\ MaxLen \in Nat /\ MaxCalls \in Nat
    /\ IsFiniteSet(Paths) /\ IsFiniteSet(Objects)
    /\ Cardinality(Inodes) > Cardinality(Paths) + Cardinality(Objects)

VARIABLES
    dir,        \* the file each path names, or None
    content,    \* the bytes of each file on disk
    path,       \* path_ of each object
    readOnly,   \* read_only_
    stream,     \* file_: [inode, ro, err], or None when closed
    pending,    \* bytes the stream accepted that are not in the file, or None
    ret,        \* history: the last call and what it returned
    calls

vars == <<dir, content, path, readOnly, stream, pending, ret, calls>>

Strings == UNION {[1 .. n -> Bytes] : n \in 0 .. MaxLen}
Chunks  == Strings \ {<<>>}

Init ==
    /\ dir = [p \in Paths |-> None]
    /\ content = [i \in Inodes |-> <<>>]
    /\ path \in [Objects -> Paths]
    /\ readOnly = [o \in Objects |-> FALSE]
    /\ stream = [o \in Objects |-> None]
    /\ pending = [o \in Objects |-> None]
    /\ ret = [op |-> "none"]
    /\ calls = 0

-----------------------------------------------------------------------------
Open(o) == stream[o] # None

Returns(op, o, ok) == ret' = [op |-> op, object |-> o, ok |-> ok]

\* bytes written at offset "at" of s; what lies between is a hole.
Patch(s, at, bytes) ==
    IF bytes = <<>> THEN s
    ELSE LET end == at + Len(bytes)
         IN  [i \in 1 .. (IF end > Len(s) THEN end ELSE Len(s)) |->
                IF i \in at + 1 .. end THEN bytes[i - at]
                ELSE IF i <= Len(s) THEN s[i] ELSE Hole]

Resized(s, n) == [i \in 1 .. n |-> IF i <= Len(s) THEN s[i] ELSE Hole]

\* What the disk may look like once o's accepted bytes are handed over (by
\* fflush, a seek or fclose), and whether all of them arrived: the first k do,
\* and stdio drops the rest.
Flushed(o) ==
    IF pending[o] = None THEN {[disk |-> content, ok |-> TRUE]}
    ELSE LET p == pending[o]
         IN  {[disk |-> [content EXCEPT ![stream[o].inode] =
                            Patch(@, p.at, SubSeq(p.bytes, 1, k))],
               ok   |-> k = Len(p.bytes)] : k \in 0 .. Len(p.bytes)}

\* open(): throws when no file is at the path; fopen may fail, which leaves
\* file_ empty and throws nothing.
Opened(p, ro, d) ==
    IF d[p] = None THEN {[stream |-> None, throws |-> TRUE]}
    ELSE {[stream |-> None, throws |-> FALSE],
          [stream |-> [inode |-> d[p], ro |-> ro, err |-> FALSE],
           throws |-> FALSE]}

FreshInode ==
    CHOOSE i \in Inodes : /\ \A p \in Paths : dir[p] # i
                          /\ \A o \in Objects : Open(o) => stream[o].inode # i

-----------------------------------------------------------------------------
\* open_file: a new object; opening errors are swallowed.
OpenFile(o, p, ro) ==
    /\ ~Open(o)
    /\ path' = [path EXCEPT ![o] = p]
    /\ readOnly' = [readOnly EXCEPT ![o] = ro]
    /\ \E new \in Opened(p, ro, dir) :
          /\ stream' = [stream EXCEPT ![o] = new.stream]
          /\ Returns("open", o, new.stream # None)
    /\ UNCHANGED <<dir, content, pending>>

\* open_or_create_file: fopen("ab+") first when no file is there.
OpenOrCreateFile(o, p, ro) ==
    /\ ~Open(o)
    /\ path' = [path EXCEPT ![o] = p]
    /\ readOnly' = [readOnly EXCEPT ![o] = ro]
    /\ \E d \in {dir} \union
                (IF dir[p] = None THEN {[dir EXCEPT ![p] = FreshInode]} ELSE {}) :
       \E new \in Opened(p, ro, d) :
          /\ dir' = d
          /\ content' = IF d = dir THEN content
                        ELSE [content EXCEPT ![FreshInode] = <<>>]
          /\ stream' = [stream EXCEPT ![o] = new.stream]
          /\ Returns("open", o, new.stream # None)
    /\ UNCHANGED pending

\* close(): fclose hands over what is pending and ignores a fault.
Close(o) ==
    /\ Open(o)
    /\ \E f \in Flushed(o) : content' = f.disk
    /\ stream' = [stream EXCEPT ![o] = None]
    /\ pending' = [pending EXCEPT ![o] = None]
    /\ Returns("close", o, TRUE)
    /\ UNCHANGED <<dir, path, readOnly>>

-----------------------------------------------------------------------------
SetError(o) == stream' = [stream EXCEPT ![o].err = TRUE]

\* read(data, n, offset): the seek hands over pending bytes.  The error
\* indicator fails a read that got all n bytes, unless feof is set too, which
\* it is exactly when the file ended before n bytes.
Read(o, n, offset) ==
    /\ IF ~Open(o) THEN /\ Returns("read", o, FALSE)
                        /\ UNCHANGED <<content, stream, pending>>
       ELSE \E f \in Flushed(o) :
              LET size  == Len(f.disk[stream[o].inode])
                  short == size < offset + n
              IN  /\ content' = f.disk
                  /\ pending' = [pending EXCEPT ![o] = None]
                  /\ \/ ~f.ok /\ SetError(o) /\ Returns("read", o, FALSE)
                     \/ /\ f.ok
                        /\ UNCHANGED stream
                        /\ Returns("read", o, n = 0 \/ short \/ ~stream[o].err)
                     \/ f.ok /\ n > 0 /\ SetError(o) /\ Returns("read", o, FALSE)
    /\ UNCHANGED <<dir, path, readOnly>>

\* Mutant: no flush() after a write.
Write_NoFlush(o, bytes, offset) ==
    /\ IF ~Open(o) THEN /\ Returns("write", o, FALSE)
                        /\ UNCHANGED <<content, stream, pending>>
       ELSE \E f \in Flushed(o) :
              LET i == stream[o].inode
                  n == Len(bytes)
                  Put(k) == [f.disk EXCEPT ![i] =
                                Patch(@, offset, SubSeq(bytes, 1, k))]
              IN  \/ /\ ~f.ok \/ (stream[o].ro /\ n > 0)
                     /\ content' = f.disk
                     /\ SetError(o)
                     /\ pending' = [pending EXCEPT ![o] = None]
                     /\ Returns("write", o, FALSE)
                  \/ /\ f.ok /\ ~stream[o].ro
                     /\ \E k \in 0 .. n :
                          /\ content' = Put(k)
                          /\ \/ /\ k < n
                                /\ SetError(o)
                                /\ pending' = [pending EXCEPT ![o] = None]
                                /\ Returns("write", o, FALSE)
                             \/ /\ stream[o].err /\ n > 0
                                /\ UNCHANGED stream
                                /\ pending' = [pending EXCEPT ![o] =
                                     IF k = n THEN None
                                     ELSE [at |-> offset + k,
                                           bytes |-> SubSeq(bytes, k + 1, n)]]
                                /\ Returns("write", o, FALSE)
                             \/ /\ ~stream[o].err
                                /\ UNCHANGED stream
                                /\ pending' = [pending EXCEPT ![o] =
                                     IF k = n THEN None
                                     ELSE [at |-> offset + k,
                                           bytes |-> SubSeq(bytes, k + 1, n)]]
                                /\ Returns("write", o, TRUE)
    /\ offset + Len(bytes) <= MaxLen
    /\ UNCHANGED <<dir, path, readOnly>>

\* write(data, n, offset): the first bytes may go through to the disk inside
\* fwrite, which reports a fault; what stays in the buffer goes with flush(),
\* whose result nobody looks at.  An error indicator left by an earlier call
\* fails the write after fwrite accepted its bytes and before the flush.
Write(o, bytes, offset) ==
    /\ IF ~Open(o) THEN /\ Returns("write", o, FALSE)
                        /\ UNCHANGED <<content, stream, pending>>
       ELSE \E f \in Flushed(o) :
              LET i == stream[o].inode
                  n == Len(bytes)
                  Put(k) == [f.disk EXCEPT ![i] =
                                Patch(@, offset, SubSeq(bytes, 1, k))]
              IN  \/ /\ ~f.ok \/ (stream[o].ro /\ n > 0)
                     /\ content' = f.disk
                     /\ SetError(o)
                     /\ pending' = [pending EXCEPT ![o] = None]
                     /\ Returns("write", o, FALSE)
                  \/ /\ f.ok /\ ~stream[o].ro
                     /\ \E k \in 0 .. n :
                          /\ content' = Put(k)
                          /\ \/ /\ k < n
                                /\ SetError(o)
                                /\ pending' = [pending EXCEPT ![o] = None]
                                /\ Returns("write", o, FALSE)
                             \/ /\ stream[o].err /\ n > 0
                                /\ UNCHANGED stream
                                /\ pending' = [pending EXCEPT ![o] =
                                     IF k = n THEN None
                                     ELSE [at |-> offset + k,
                                           bytes |-> SubSeq(bytes, k + 1, n)]]
                                /\ Returns("write", o, FALSE)
                             \/ /\ ~stream[o].err
                                /\ IF k < n THEN SetError(o)
                                            ELSE UNCHANGED stream
                                /\ pending' = [pending EXCEPT ![o] = None]
                                /\ Returns("write", o, TRUE)
    /\ offset + Len(bytes) <= MaxLen
    /\ UNCHANGED <<dir, path, readOnly>>

\* size(): a seek to the end on an open object, a stat of the path otherwise.
Size(o) ==
    /\ \E f \in Flushed(o) :
          /\ content' = f.disk
          /\ IF f.ok THEN UNCHANGED stream ELSE SetError(o)
          /\ Returns("size", o, IF Open(o) THEN f.ok ELSE dir[path[o]] # None)
    /\ pending' = [pending EXCEPT ![o] = None]
    /\ UNCHANGED <<dir, path, readOnly>>

-----------------------------------------------------------------------------
\* truncate(n): closes, resizes whatever the path names now, and opens again
\* if it was open.  The mode of the object does not matter.
Truncate(o, n) ==
    /\ \E f \in Flushed(o), fault \in BOOLEAN :
       LET i    == dir[path[o]]
           done == i # None /\ ~fault
       IN  /\ content' = IF done THEN [f.disk EXCEPT ![i] = Resized(@, n)]
                                 ELSE f.disk
           /\ IF Open(o)
              THEN \E new \in Opened(path[o], readOnly[o], dir) :
                      /\ stream' = [stream EXCEPT ![o] = new.stream]
                      /\ Returns("truncate", o, done /\ ~new.throws)
              ELSE Returns("truncate", o, done) /\ UNCHANGED stream
    /\ pending' = [pending EXCEPT ![o] = None]
    /\ UNCHANGED <<dir, path, readOnly>>

\* Mutants: path_ is not updated; the stream is opened on the new path even when
\* the rename failed.
MoveTo_StalePath(o, to) ==
    /\ \E f \in Flushed(o), fault \in BOOLEAN :
       LET from == path[o]
           done == dir[from] # None /\ ~fault
           at   == from
           d    == IF done /\ to # from
                   THEN [dir EXCEPT ![to] = dir[from], ![from] = None] ELSE dir
       IN  /\ content' = f.disk
           /\ dir' = d
           /\ path' = [path EXCEPT ![o] = at]
           /\ IF Open(o)
              THEN \E new \in Opened(at, readOnly[o], d) :
                      /\ stream' = [stream EXCEPT ![o] = new.stream]
                      /\ Returns("move_to", o, done /\ ~new.throws)
              ELSE Returns("move_to", o, FALSE) /\ UNCHANGED stream
    /\ pending' = [pending EXCEPT ![o] = None]
    /\ UNCHANGED readOnly

MoveTo_OpensTarget(o, to) ==
    /\ \E f \in Flushed(o), fault \in BOOLEAN :
       LET from == path[o]
           done == dir[from] # None /\ ~fault
           at   == IF done THEN to ELSE from
           d    == IF done /\ to # from
                   THEN [dir EXCEPT ![to] = dir[from], ![from] = None] ELSE dir
       IN  /\ content' = f.disk
           /\ dir' = d
           /\ path' = [path EXCEPT ![o] = at]
           /\ IF Open(o)
              THEN \E new \in Opened(to, readOnly[o], d) :
                      /\ stream' = [stream EXCEPT ![o] = new.stream]
                      /\ Returns("move_to", o, done /\ ~new.throws)
              ELSE Returns("move_to", o, FALSE) /\ UNCHANGED stream
    /\ pending' = [pending EXCEPT ![o] = None]
    /\ UNCHANGED readOnly

\* move_to(to): rename replaces what "to" names.  A closed object reports
\* failure whatever happened.
MoveTo(o, to) ==
    /\ \E f \in Flushed(o), fault \in BOOLEAN :
       LET from == path[o]
           done == dir[from] # None /\ ~fault
           at   == IF done THEN to ELSE from
           d    == IF done /\ to # from
                   THEN [dir EXCEPT ![to] = dir[from], ![from] = None] ELSE dir
       IN  /\ content' = f.disk
           /\ dir' = d
           /\ path' = [path EXCEPT ![o] = at]
           /\ IF Open(o)
              THEN \E new \in Opened(at, readOnly[o], d) :
                      /\ stream' = [stream EXCEPT ![o] = new.stream]
                      /\ Returns("move_to", o, done /\ ~new.throws)
              ELSE Returns("move_to", o, FALSE) /\ UNCHANGED stream
    /\ pending' = [pending EXCEPT ![o] = None]
    /\ UNCHANGED readOnly

\* remove(): closes, then tries until the name is gone or the retries are spent.
RemoveFile(o) ==
    /\ \E f \in Flushed(o) : content' = f.disk
    /\ stream' = [stream EXCEPT ![o] = None]
    /\ pending' = [pending EXCEPT ![o] = None]
    /\ \/ Returns("remove", o, TRUE) /\ dir' = [dir EXCEPT ![path[o]] = None]
       \/ dir[path[o]] # None /\ Returns("remove", o, FALSE) /\ UNCHANGED dir
    /\ UNCHANGED <<path, readOnly>>

\* copy_to(to, overwrite): copies what the path names on disk; an existing
\* target is kept unless overwrite.  A fault leaves part of a copy, or, when it
\* is the target that cannot be opened, things as they were.
CopyTo(o, to, overwrite) ==
    /\ LET i == dir[path[o]]
           j == IF dir[to] = None THEN FreshInode ELSE dir[to]
       IN  \/ /\ Returns("copy_to", o, FALSE)
              /\ UNCHANGED <<dir, content>>
           \/ /\ i # None /\ i # j /\ (dir[to] = None \/ overwrite)
              /\ dir' = [dir EXCEPT ![to] = j]
              /\ \E k \in 0 .. Len(content[i]) :
                    content' = [content EXCEPT ![j] = SubSeq(content[i], 1, k)]
              /\ Returns("copy_to", o, content'[j] = content[i])
    /\ UNCHANGED <<path, readOnly, stream, pending>>

-----------------------------------------------------------------------------
\* sha256(): a closed object is opened read only for the purpose.  The reading
\* loop stops at the first read that returns false, and the digest of what came
\* before is returned as success; so is the digest of nothing when fopen
\* failed.  Only what it does to the object is state here.
Sha256(o) ==
    /\ \/ /\ ~Open(o)
          /\ Returns("sha256", o, dir[path[o]] # None)
          /\ UNCHANGED <<content, readOnly, stream, pending>>
       \/ /\ Open(o)
          /\ Returns("sha256", o, TRUE)
          /\ \E f \in Flushed(o), fault \in BOOLEAN :
                /\ content' = f.disk
                /\ IF f.ok /\ ~fault THEN UNCHANGED stream ELSE SetError(o)
          /\ pending' = [pending EXCEPT ![o] = None]
          /\ UNCHANGED readOnly
    /\ UNCHANGED <<dir, path>>

\* One call of a member function, the MaxCalls-th at most.
Next ==
    /\ calls < MaxCalls
    /\ calls' = calls + 1
    /\ \E o \in Objects :
        \/ \E p \in Paths, ro \in BOOLEAN :
              OpenFile(o, p, ro) \/ OpenOrCreateFile(o, p, ro)
        \/ Close(o) \/ Size(o) \/ RemoveFile(o) \/ Sha256(o)
        \/ \E n, at \in 0 .. MaxLen : Read(o, n, at)
        \/ \E b \in Chunks, at \in 0 .. MaxLen : Write(o, b, at)
        \/ \E n \in 0 .. MaxLen : Truncate(o, n)
        \/ \E p \in Paths : MoveTo(o, p)
        \/ \E p \in Paths, overwrite \in BOOLEAN : CopyTo(o, p, overwrite)

-----------------------------------------------------------------------------
\* A write that was reported successful keeps nothing back: bytes are left in
\* a stream only by writes that were reported failed (file_file.cpp:536).
OnlyRejectedBytesLinger ==
    \A o \in Objects : pending[o] # None => stream[o].err

\* Reopening by path puts an object back on the file it was on: whatever
\* truncate and move_to do, and however they fail, an object that was on the
\* file its path names does not end up on another one.
StaysOnItsFile ==
    [][\A o \in Objects :
         /\ ret'.op \in {"truncate", "move_to"} /\ ret'.object = o
         /\ Open(o) /\ dir[path[o]] = stream[o].inode
         /\ Open(o)'
         => stream'[o].inode = stream[o].inode]_vars

\* A move_to of an object ends with path_ on the file it was on before, whether
\* or not the rename, or what comes after it, succeeds, and whatever the object's
\* stream is on.
NamesTheSameFile ==
    [][\A o \in Objects :
         ret'.op = "move_to" /\ ret'.object = o
         => dir'[path'[o]] = dir[path[o]]]_vars
====
