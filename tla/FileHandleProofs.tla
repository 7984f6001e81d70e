-------------------------- MODULE FileHandleProofs --------------------------
(***************************************************************************)
(* Proofs about FileHandle and JsonFile, for any objects, paths, bytes and *)
(* documents: which file an object is on after its calls, which bytes its  *)
(* stream keeps back, and that a document which was written whole is what  *)
(* is read.                                                                *)
(***************************************************************************)
EXTENDS JsonFile, TLAPS, SequenceTheorems, FiniteSetTheorems

\* The variables that are tables, by what they are tables of.
Tables ==
  /\ dir = [p \in Paths |-> dir[p]]
  /\ path \in [Objects -> Paths]
  /\ stream = [o \in Objects |-> stream[o]]
  /\ pending = [o \in Objects |-> pending[o]]

\* Besides OnlyRejectedBytesLinger: a closed object keeps nothing back, so that
\* a stream opened for it begins with nothing.
Lingering ==
  \A o \in Objects : pending[o] # None => Open(o) /\ stream[o].err

HandleInv == Tables /\ Lingering

FilesAlone == UNCHANGED <<dir, path, stream, pending>>

\* The calls of an object that open, read, write or close its stream, and those
\* that go through its path.
StreamCall(o) ==
  \/ \E p \in Paths, ro \in BOOLEAN : OpenFile(o, p, ro) \/ OpenOrCreateFile(o, p, ro)
  \/ Close(o) \/ Size(o) \/ Sha256(o)
  \/ \E n, at : Read(o, n, at)
  \/ \E b, at : Write(o, b, at)

PathCall(o) ==
  \/ RemoveFile(o)
  \/ \E n : Truncate(o, n)
  \/ \E p \in Paths : MoveTo(o, p)
  \/ \E p \in Paths, overwrite \in BOOLEAN : CopyTo(o, p, overwrite)

-----------------------------------------------------------------------------
\* Every step is a call of one object, a crash, or none of the files' concern.
LEMMA StepIsCall ==
  ASSUME [JsonNext]_jsonVars
  PROVE  \/ \E o \in Objects : StreamCall(o) \/ PathCall(o)
         \/ Crash
         \/ FilesAlone
<1>1. ASSUME Next PROVE \E o \in Objects : StreamCall(o) \/ PathCall(o)
  BY <1>1 DEF Next, StreamCall, PathCall
<1>2. ASSUME NEW o \in Objects, BeginRead(o) PROVE StreamCall(o)
  BY <1>2, JsonAssumption DEF BeginRead, StreamCall
<1>3. ASSUME NEW o \in Objects, NEW doc, BeginWrite(o, doc) PROVE StreamCall(o)
  BY <1>3, JsonAssumption DEF BeginWrite, StreamCall
<1>4. ASSUME NEW o \in Objects, WriteTruncates(o) PROVE PathCall(o)
  BY <1>4 DEF WriteTruncates, PathCall
<1>5. ASSUME NEW o \in Objects, WriteFills(o) \/ ReadsOn(o) PROVE StreamCall(o)
  BY <1>5 DEF WriteFills, ReadsOn, StreamCall
<1>6. ASSUME NEW o \in Objects, DumpThrows(o) \/ Leaves(o)
      PROVE  StreamCall(o) \/ FilesAlone
  BY <1>6 DEF DumpThrows, Leaves, StreamCall, FilesAlone
<1>7. CASE UNCHANGED jsonVars
  BY <1>7 DEF jsonVars, vars, FilesAlone
<1> QED
  BY <1>1, <1>2, <1>3, <1>4, <1>5, <1>6, <1>7 DEF JsonNext

\* A call leaves the other objects' streams as they are, and its own with no
\* bytes that were not rejected.
LEMMA StreamCallKeeps ==
  ASSUME HandleInv, NEW o \in Objects, StreamCall(o)
  PROVE  HandleInv'
<1> USE DEF HandleInv, Tables, Lingering, Open
<1>1. ASSUME NEW p \in Paths, NEW ro, OpenFile(o, p, ro) PROVE HandleInv'
  BY <1>1 DEF OpenFile
<1>2. ASSUME NEW p \in Paths, NEW ro, OpenOrCreateFile(o, p, ro) PROVE HandleInv'
  <2>1. dir' = [q \in Paths |-> dir'[q]]
    BY <1>2 DEF OpenOrCreateFile
  <2> QED
    BY <1>2, <2>1 DEF OpenOrCreateFile
<1>3. ASSUME Close(o) PROVE HandleInv'
  BY <1>3 DEF Close
<1>4. ASSUME Size(o) PROVE HandleInv'
  BY <1>4 DEF Size, SetError
<1>5. ASSUME Sha256(o) PROVE HandleInv'
  BY <1>5 DEF Sha256, SetError
<1>6. ASSUME NEW n, NEW at, Read(o, n, at) PROVE HandleInv'
  BY <1>6 DEF Read, SetError
<1>7. ASSUME NEW b, NEW at, Write(o, b, at) PROVE HandleInv'
  BY <1>7 DEF Write, SetError
<1> QED
  BY <1>1, <1>2, <1>3, <1>4, <1>5, <1>6, <1>7 DEF StreamCall

\* Calls that work on the path leave the streams as they are.
LEMMA PathCallKeeps ==
  ASSUME HandleInv, NEW o \in Objects, PathCall(o)
  PROVE  HandleInv'
<1> USE DEF HandleInv, Tables, Lingering, Open
<1>1. ASSUME RemoveFile(o) PROVE HandleInv'
  BY <1>1 DEF RemoveFile
<1>2. ASSUME NEW n, Truncate(o, n) PROVE HandleInv'
  BY <1>2 DEF Truncate
<1>3. ASSUME NEW p \in Paths, MoveTo(o, p) PROVE HandleInv'
  <2>1. PICK done \in BOOLEAN :
          dir' = IF done /\ p # path[o]
                 THEN [dir EXCEPT ![p] = dir[path[o]], ![path[o]] = None] ELSE dir
    BY <1>3 DEF MoveTo
  <2>2. dir' = [q \in Paths |-> dir'[q]]
    BY <2>1
  <2>3. PICK at \in Paths : path' = [path EXCEPT ![o] = at]
    BY <1>3 DEF MoveTo
  <2>4. pending' = [pending EXCEPT ![o] = None]
    BY <1>3 DEF MoveTo
  <2>5. (\E s : stream' = [stream EXCEPT ![o] = s]) \/ stream' = stream
    BY <1>3 DEF MoveTo
  <2> QED
    BY <2>2, <2>3, <2>4, <2>5
<1>4. ASSUME NEW p \in Paths, NEW over, CopyTo(o, p, over) PROVE HandleInv'
  BY <1>4 DEF CopyTo
<1> QED
  BY <1>1, <1>2, <1>3, <1>4 DEF PathCall

\* No object has a stream at the start.
LEMMA HandleInitial == JsonInit => HandleInv
  BY DEF JsonInit, Init, HandleInv, Tables, Lingering

\* The invariant is inductive, for calls on files and on documents.
LEMMA HandleStep ==
  ASSUME HandleInv, [JsonNext]_jsonVars
  PROVE  HandleInv'
<1>1. CASE Crash
  BY <1>1 DEF Crash, HandleInv, Tables, Lingering
<1>2. CASE FilesAlone
  BY <1>2 DEF FilesAlone, HandleInv, Tables, Lingering, Open
<1> QED
  BY StepIsCall, StreamCallKeeps, PathCallKeeps, <1>1, <1>2

-----------------------------------------------------------------------------
\* The invariant holds of every behaviour, of plain calls and of JSON calls.
THEOREM HandleInductive == JsonSpec => []HandleInv
<1> QED
  BY HandleInitial, HandleStep, PTL DEF JsonSpec

\* What a stream keeps back was rejected: a write that was reported successful
\* never reaches the file later.
THEOREM RejectedBytesOnly == JsonSpec => []OnlyRejectedBytesLinger
<1>1. HandleInv => OnlyRejectedBytesLinger
  BY DEF HandleInv, Lingering, OnlyRejectedBytesLinger
<1> QED
  BY HandleInductive, <1>1, PTL

\* A move that follows the rename with the path names the file it named before.
LEMMA MoveNames ==
  ASSUME HandleInv, NEW o \in Objects, NEW to \in Paths, MoveTo(o, to)
  PROVE  dir'[path'[o]] = dir[path[o]]
<1> USE DEF HandleInv, Tables
<1>1. PICK fault \in BOOLEAN :
        LET from == path[o]
            done == dir[from] # None /\ ~fault
        IN  /\ dir' = IF done /\ to # from
                      THEN [dir EXCEPT ![to] = dir[from], ![from] = None] ELSE dir
            /\ path' = [path EXCEPT ![o] = IF done THEN to ELSE from]
  BY DEF MoveTo
<1> QED
  BY <1>1

\* A move leaves the mark of a move.
LEMMA MoveReturns ==
  ASSUME NEW o \in Objects, NEW to, MoveTo(o, to)
  PROVE  ret'.op = "move_to" /\ ret'.object = o
<1>1. \E ok : Returns("move_to", o, ok)
  BY DEF MoveTo
<1> QED
  BY <1>1 DEF Returns

\* And a truncation that of a truncation.
LEMMA TruncateReturns ==
  ASSUME NEW o \in Objects, NEW n, Truncate(o, n)
  PROVE  ret'.op = "truncate" /\ ret'.object = o
<1>1. \E ok : Returns("truncate", o, ok)
  BY DEF Truncate
<1> QED
  BY <1>1 DEF Returns

\* The history tells which call it was.
LEMMA CallByItsReturn ==
  ASSUME NEW o \in Objects, NEW r \in Objects, StreamCall(o) \/ PathCall(o),
         ret'.op \in {"truncate", "move_to"}, ret'.object = r
  PROVE  o = r /\ \/ ret'.op = "truncate" /\ \E n : Truncate(o, n)
                  \/ ret'.op = "move_to" /\ \E to \in Paths : MoveTo(o, to)
<1>1. ~StreamCall(o)
  BY DEF StreamCall, OpenFile, OpenOrCreateFile, Close, Size, Sha256, Read, Write, Returns
<1>2. ~RemoveFile(o) /\ (\A p \in Paths, over \in BOOLEAN : ~CopyTo(o, p, over))
  BY DEF RemoveFile, CopyTo, Returns
<1> QED
  BY <1>1, <1>2, MoveReturns, TruncateReturns DEF PathCall

\* Steps that are no call of an object leave its files, and may close streams.
LEMMA NoCall ==
  ASSUME Crash \/ FilesAlone
  PROVE  /\ UNCHANGED <<dir, path>>
         /\ \A o \in Objects : Open(o)' => stream'[o] = stream[o]
  BY DEF Crash, FilesAlone, Open

\* After a move_to, whichever of its steps failed, the object's path names the
\* file it named before the call.
THEOREM MoveKeepsTrack == JsonSpec => NamesTheSameFile
<1>1. ASSUME HandleInv, [JsonNext]_jsonVars, NEW o \in Objects,
             ret'.op = "move_to", ret'.object = o
      PROVE  dir'[path'[o]] = dir[path[o]]
  BY <1>1, StepIsCall, CallByItsReturn, MoveNames, NoCall
<1>2. HandleInv /\ [JsonNext]_jsonVars
      => [\A o \in Objects : ret'.op = "move_to" /\ ret'.object = o
                             => dir'[path'[o]] = dir[path[o]]]_vars
  BY <1>1
<1> QED
  BY HandleInductive, <1>2, PTL DEF JsonSpec, NamesTheSameFile

\* A stream opened again is opened on what the path names.
LEMMA ReopensByPath ==
  ASSUME NEW p, NEW ro, NEW d, NEW new \in Opened(p, ro, d), new.stream # None
  PROVE  new.stream.inode = d[p]
  BY DEF Opened

\* truncate() reopens the file its path names.
LEMMA TruncateStays ==
  ASSUME HandleInv, NEW o \in Objects, NEW n, Truncate(o, n), Open(o), Open(o)'
  PROVE  stream'[o].inode = dir[path[o]]
<1>1. PICK new \in Opened(path[o], readOnly[o], dir) :
        stream' = [stream EXCEPT ![o] = new.stream]
  BY DEF Truncate
<1>2. stream'[o] = new.stream
  BY <1>1 DEF HandleInv, Tables
<1> QED
  BY <1>1, <1>2, ReopensByPath DEF Open

\* move_to() opens the file the new path names.
LEMMA MoveStays ==
  ASSUME HandleInv, NEW o \in Objects, NEW to \in Paths, MoveTo(o, to),
         Open(o), Open(o)'
  PROVE  stream'[o].inode = dir'[path'[o]]
<1>1. PICK at : /\ path' = [path EXCEPT ![o] = at]
                /\ \E new \in Opened(at, readOnly[o], dir') :
                     stream' = [stream EXCEPT ![o] = new.stream]
  BY DEF MoveTo
<1>2. path'[o] = at
  BY <1>1 DEF HandleInv, Tables
<1>3. PICK new \in Opened(at, readOnly[o], dir') :
        stream' = [stream EXCEPT ![o] = new.stream]
  BY <1>1
<1>4. stream'[o] = new.stream
  BY <1>3 DEF HandleInv, Tables
<1> QED
  BY <1>2, <1>3, <1>4, ReopensByPath DEF Open

\* However truncate and move_to fail, they put an object back on the file it was
\* on, if that is the file its path named.
THEOREM ReopensTheSame == JsonSpec => StaysOnItsFile
<1>1. ASSUME HandleInv, [JsonNext]_jsonVars, NEW o \in Objects,
             ret'.op \in {"truncate", "move_to"}, ret'.object = o,
             Open(o), dir[path[o]] = stream[o].inode, Open(o)'
      PROVE  stream'[o].inode = stream[o].inode
  <2>1. CASE \E n : Truncate(o, n)
    BY <1>1, <2>1, TruncateStays
  <2>2. CASE \E to \in Paths : MoveTo(o, to)
    BY <1>1, <2>2, MoveStays, MoveNames
  <2>3. CASE Crash \/ FilesAlone
    BY <1>1, <2>3, NoCall
  <2> QED
    BY <1>1, <2>1, <2>2, <2>3, StepIsCall, CallByItsReturn
<1>2. HandleInv /\ [JsonNext]_jsonVars
      => [\A o \in Objects :
            /\ ret'.op \in {"truncate", "move_to"} /\ ret'.object = o
            /\ Open(o) /\ dir[path[o]] = stream[o].inode
            /\ Open(o)'
            => stream'[o].inode = stream[o].inode]_vars
  BY <1>1
<1> QED
  BY HandleInductive, <1>2, PTL DEF JsonSpec, StaysOnItsFile

-----------------------------------------------------------------------------
(* Documents.  The calls of JsonFile are on one file, through streams that *)
(* keep nothing back.                                                      *)

file == dir[JsonPath]

Starts(s, t) == Len(s) <= Len(t) /\ \A i \in 1 .. Len(s) : s[i] = t[i]

\* What a reader may have when it found document d and one write of new met it: it
\* has all of d, or nothing yet, while d is there; then it goes along with what is
\* there of new, or goes on behind d.
Met(d, new, has, there) ==
  \/ there = d /\ has \in {<<>>, d}
  \/ Starts(there, new) /\ (Starts(has, new) \/ Starts(d, has))

JobType ==
  /\ job = [o \in Objects |-> job[o]]
  /\ \A o \in Objects :
       /\ job[o] = [op |-> job[o].op, at |-> job[o].at, doc |-> job[o].doc,
                    buffer |-> job[o].buffer, data |-> job[o].data,
                    result |-> job[o].result, may |-> job[o].may]
       /\ job[o].at \in {"truncate", "write"} => job[o].op = "write"
       /\ job[o].at = "read" => job[o].op = "read"

DiskInv ==
  /\ content \in [Inodes -> Seq(Bytes)]
  /\ readOnly = [o \in Objects |-> readOnly[o]]
  /\ \A p \in Paths \ {JsonPath} : dir[p] = None
  /\ file # None => file \in Inodes /\ Documents # {}

\* An object is open only for a call, on the file, and no call goes on after an
\* error of its stream.
\* (s is the object's stream, p its path_, ro its read_only_, j its job, f the file.)
StreamOk(s, p, ro, j, f) ==
  /\ s # None => /\ j.at # "done" /\ f # None
                 /\ s = [inode |-> f, ro |-> FALSE, err |-> s.err]
                 /\ s.err => j.at = "close"
  /\ j.at # "done" => p = JsonPath /\ ro = FALSE
  /\ j.at = "read" => s # None

StreamInv ==
  \A o \in Objects :
    pending[o] = None /\ StreamOk(stream[o], path[o], readOnly[o], job[o], file)

\* One writer, whose file is empty once it has been truncated; and the last document
\* that was written whole is there until the next write begins.
WriterInv ==
  /\ \A v, w \in Objects :
       /\ job[v].op = "write" /\ job[v].at # "done"
       /\ job[w].op = "write" /\ job[w].at # "done"
       => v = w
  /\ \A w \in Objects :
       /\ job[w].at \in {"truncate", "write"} => job[w].doc \in Documents /\ latest = None
       /\ job[w].at = "write" => file # None /\ content[file] = <<>>
  /\ latest # None => latest \in Documents /\ file # None /\ content[file] = latest

\* What a reader has so far, by what it may find.
Alone(j) ==
  \E d \in Documents :
    /\ j.may = {d} /\ latest = d /\ Starts(j.buffer, d)
    /\ Len(d) <= BufferSize => j.buffer \in {<<>>, d}

MetByOne(j) ==
  \E d, new \in Documents :
    /\ j.may = {d, new, Untouched} /\ Len(d) <= BufferSize
    /\ Met(d, new, j.buffer, content[file])
    /\ \A w \in Objects : job[w].at \in {"truncate", "write"} => job[w].doc = new

Reading(j) ==
  /\ j.buffer \in Seq(Bytes) /\ j.data = Untouched
  /\ j.may = Anything \/ Alone(j) \/ MetByOne(j)

ReaderInv == \A o \in Objects : job[o].at = "read" => Reading(job[o])

Outcome(j) ==
  j.op = "read" /\ j.at \in {"close", "done"} /\ j.result # "io" =>
    /\ j.result = "ok" => j.data \in j.may
    /\ Cardinality(j.may) = 1 => j.result = "ok"

Live ==
  DiskInv /\ StreamInv /\ WriterInv /\ ReaderInv /\ \A o \in Objects : Outcome(job[o])

JsonInv ==
  /\ HandleInv /\ JobType /\ calls \in Nat /\ begun \in Nat
  /\ begun = 0 => job = [o \in Objects |-> Idle]
  /\ calls # 0 => begun = 0
  /\ calls = 0 => Live

\* Documents are sequences of bytes, none of them empty.
LEMMA DocumentsAre ==
  \A s \in Documents : /\ s \in Seq(Bytes) /\ s # <<>> /\ Len(s) \in Nat /\ Len(s) # 0
<1> SUFFICES ASSUME NEW s \in Documents
             PROVE  s \in Seq(Bytes) /\ s # <<>> /\ Len(s) \in Nat /\ Len(s) # 0
  BY JsonAssumption
<1>1. PICK n \in 0 .. MaxLen : s \in [1 .. n -> Bytes]
  BY JsonAssumption DEF Chunks, Strings
<1>2. n \in Nat
  BY <1>1, FileAssumption
<1>3. s \in Seq(Bytes)
  BY <1>1, <1>2, SeqDef
<1>4. s # <<>>
  BY JsonAssumption DEF Chunks
<1> QED BY <1>3, <1>4, EmptySeq

\* None of them is the beginning of another.
LEMMA NoneStartsAnother ==
  ASSUME NEW s \in Documents, NEW t \in Documents, Starts(s, t) PROVE s = t
<1> SUFFICES ASSUME s # t PROVE FALSE
  OBVIOUS
<1>1. PICK i \in DOMAIN s \cap DOMAIN t : s[i] # t[i]
  BY JsonAssumption
<1>2. s \in Seq(Bytes) /\ DOMAIN s = 1 .. Len(s)
  BY DocumentsAre
<1> QED BY <1>1, <1>2 DEF Starts

\* Each begins itself, nothing begins all of them, and what begins one and is as
\* long as it is that one.
LEMMA Beginnings ==
  /\ \A s \in Documents : Starts(<<>>, s) /\ Starts(s, s)
  /\ \A s \in Documents, t \in Seq(Bytes) : Starts(t, s) /\ Len(s) <= Len(t) => t = s
<1>1. \A s \in Documents : s \in Seq(Bytes) /\ Len(s) \in Nat
  BY DocumentsAre
<1>2. \A s \in Documents : Starts(<<>>, s) /\ Starts(s, s)
  BY <1>1 DEF Starts
<1>3. ASSUME NEW s \in Documents, NEW t \in Seq(Bytes), Starts(t, s), Len(s) <= Len(t)
      PROVE  t = s
  <2>1. Len(t) = Len(s) /\ \A i \in 1 .. Len(t) : t[i] = s[i]
    BY <1>1, <1>3 DEF Starts
  <2> QED BY <1>1, <2>1
<1> QED BY <1>2, <1>3

\* There is a choice when a reader may find anything, and so when one write met it.
LEMMA Choices ==
  /\ Documents # {} => Cardinality(Anything) # 1
  /\ \A d, new \in Documents : Cardinality({d, new, Untouched}) # 1
  /\ \A d \in Documents : Cardinality({d}) = 1
<1>1. ASSUME NEW S, IsFiniteSet(S), NEW x \in S, NEW y \in S, x # y
      PROVE  Cardinality(S) # 1
  BY <1>1, FS_Singleton
<1>2. Untouched \notin Documents
  BY JsonAssumption DEF Untouched
<1>3. Documents # {} => Cardinality(Anything) # 1
  <2>1. IsFiniteSet(Anything)
    BY JsonAssumption, FS_AddElement DEF Anything
  <2>2. Documents # {} => \E d \in Anything : d # Untouched
    BY <1>2 DEF Anything
  <2>3. Untouched \in Anything
    BY DEF Anything
  <2> QED BY <1>1, <2>1, <2>2, <2>3
<1>4. ASSUME NEW d \in Documents, NEW new PROVE Cardinality({d, new, Untouched}) # 1
  <2> DEFINE S == {d, new, Untouched}
  <2>1. IsFiniteSet({d})
    BY FS_Singleton
  <2>2. IsFiniteSet({d} \cup {new})
    BY <2>1, FS_AddElement
  <2>3. IsFiniteSet(({d} \cup {new}) \cup {Untouched})
    BY <2>2, FS_AddElement
  <2>4. S = ({d} \cup {new}) \cup {Untouched}
    OBVIOUS
  <2>5. d \in S /\ Untouched \in S
    OBVIOUS
  <2> HIDE DEF S
  <2>6. Cardinality(S) # 1
    BY <1>1, <1>2, <2>3, <2>4, <2>5
  <2> QED BY <2>6 DEF S
<1> QED BY <1>3, <1>4, FS_Singleton

\* What fills a file that was empty is the beginning of the document.
LEMMA Filled ==
  ASSUME NEW s \in Documents, NEW k \in 0 .. Len(s)
  PROVE  LET t == Patch(<<>>, 0, SubSeq(s, 1, k))
         IN  t \in Seq(Bytes) /\ Starts(t, s) /\ (k = Len(s) => t = s)
<1> DEFINE b == SubSeq(s, 1, k)
           t == Patch(<<>>, 0, b)
<1>1. s \in Seq(Bytes) /\ Len(s) \in Nat /\ k \in Nat /\ k <= Len(s)
  BY DocumentsAre
<1>2. /\ b \in Seq(Bytes) /\ Len(b) = k
      /\ \A i \in 1 .. k : b[i] = s[i]
  BY <1>1, SubSeqProperties
<1> HIDE DEF b
<1>3. t = b
  <2>1. CASE b = <<>>
    BY <2>1 DEF Patch
  <2>2. CASE b # <<>>
    <3>1. t = [i \in 1 .. (IF 0 + k > 0 THEN 0 + k ELSE 0) |->
                 IF i \in 0 + 1 .. 0 + k THEN b[i - 0] ELSE IF i <= 0 THEN <<>>[i] ELSE Hole]
      BY <1>2, <2>2 DEF Patch
    <3>2. t = [i \in 1 .. k |-> b[i]]
      BY <1>1, <3>1
    <3>3. b = [i \in 1 .. k |-> b[i]]
      BY <1>2
    <3> QED BY <3>2, <3>3
  <2> QED BY <2>1, <2>2
<1>4. k = Len(s) => b = s
  BY <1>1, <1>2
<1> HIDE DEF t
<1>5. t \in Seq(Bytes) /\ Starts(t, s) /\ (k = Len(s) => t = s)
  BY <1>1, <1>2, <1>3, <1>4 DEF Starts
<1> QED BY <1>5 DEF t, b

\* A truncated file is empty.
LEMMA Emptied == ASSUME NEW s PROVE Resized(s, 0) = <<>>
<1>1. \A i : i \notin 1 .. 0
  OBVIOUS
<1> QED BY <1>1 DEF Resized

\* What a reader has after one more buffer.
LEMMA OneMore ==
  ASSUME NEW s \in Seq(Bytes), NEW c \in Seq(Bytes), Len(s) < Len(c), NEW end,
         end = IF Len(c) < Len(s) + BufferSize THEN Len(c) ELSE Len(s) + BufferSize
  PROVE  LET t == s \o SubSeq(c, Len(s) + 1, end)
         IN  /\ t \in Seq(Bytes)
             /\ s = <<>> /\ Len(c) <= BufferSize => t = c
             /\ \A u \in Seq(Bytes) : Starts(s, u) /\ Starts(c, u) => Starts(t, u)
             /\ \A u \in Seq(Bytes) : Starts(u, s) => Starts(u, t)
<1> DEFINE b == SubSeq(c, Len(s) + 1, end)
           t == s \o b
<1>1. Len(s) \in Nat /\ Len(c) \in Nat /\ BufferSize \in Nat /\ end \in Nat /\ end <= Len(c)
      /\ Len(s) <= end
  BY JsonAssumption
<1>2. /\ b \in Seq(Bytes) /\ Len(b) = end - Len(s)
      /\ \A i \in 1 .. end - Len(s) : b[i] = c[Len(s) + i]
  BY <1>1, SubSeqProperties
<1> HIDE DEF b
<1>3. /\ t \in Seq(Bytes) /\ Len(t) = end
      /\ \A i \in 1 .. Len(s) : t[i] = s[i]
      /\ \A i \in Len(s) + 1 .. end : t[i] = c[i]
  BY <1>1, <1>2
<1> HIDE DEF t
<1>4. ASSUME s = <<>>, Len(c) <= BufferSize PROVE t = c
  BY <1>1, <1>3, <1>4
<1>5. ASSUME NEW u \in Seq(Bytes), Starts(s, u), Starts(c, u) PROVE Starts(t, u)
  <2>1. Len(u) \in Nat /\ Len(t) <= Len(u)
    BY <1>1, <1>3, <1>5 DEF Starts
  <2>2. ASSUME NEW i \in 1 .. Len(t) PROVE t[i] = u[i]
    <3>1. CASE i <= Len(s)
      BY <1>1, <1>3, <1>5, <3>1 DEF Starts
    <3>2. CASE i > Len(s)
      BY <1>1, <1>3, <1>5, <3>2 DEF Starts
    <3> QED BY <1>1, <1>3, <3>1, <3>2
  <2> QED BY <2>1, <2>2 DEF Starts
<1>6. ASSUME NEW u \in Seq(Bytes), Starts(u, s) PROVE Starts(u, t)
  BY <1>1, <1>3, <1>6 DEF Starts
<1> QED BY <1>3, <1>4, <1>5, <1>6 DEF t, b

\* A document that one write of another met is still told from everything else.
LEMMA MetParses ==
  ASSUME NEW d \in Documents, NEW new \in Documents, NEW has \in Documents, NEW there,
         Met(d, new, has, there)
  PROVE  has \in {d, new}
BY DocumentsAre, NoneStartsAnother DEF Met

\* Reading on keeps to the two documents.
LEMMA MetReadsOn ==
  ASSUME NEW d \in Documents, NEW new \in Documents, NEW has \in Seq(Bytes),
         NEW there \in Seq(Bytes), Met(d, new, has, there), Len(has) < Len(there), NEW end,
         Len(d) <= BufferSize,
         end = IF Len(there) < Len(has) + BufferSize THEN Len(there) ELSE Len(has) + BufferSize
  PROVE  Met(d, new, has \o SubSeq(there, Len(has) + 1, end), there)
<1> DEFINE t == has \o SubSeq(there, Len(has) + 1, end)
<1>1. /\ has = <<>> /\ Len(there) <= BufferSize => t = there
      /\ \A u \in Seq(Bytes) : Starts(has, u) /\ Starts(there, u) => Starts(t, u)
      /\ \A u \in Seq(Bytes) : Starts(u, has) => Starts(u, t)
  BY OneMore
<1> HIDE DEF t
<1>2. d \in Seq(Bytes) /\ new \in Seq(Bytes)
  BY DocumentsAre
<1>3. Met(d, new, t, there)
  BY <1>1, <1>2 DEF Met
<1> QED BY <1>3 DEF t

\* What the write does to the file is met in either state.
LEMMA MetWritten ==
  ASSUME NEW d \in Documents, NEW new \in Documents, NEW has, NEW there, NEW then,
         Met(d, new, has, there),
         \/ then = <<>>
         \/ there = <<>> /\ Starts(then, new)
  PROVE  Met(d, new, has, then)
<1>1. \A s \in Documents : Starts(<<>>, s) /\ Starts(s, s)
  BY DocumentsAre DEF Starts
<1>2. there = <<>> => there # d
  BY DocumentsAre
<1> QED BY <1>1, <1>2 DEF Met

-----------------------------------------------------------------------------
(* The calls on the files.                                                 *)

\* The streams keep nothing back, so that there is nothing to hand over.
LEMMA NothingToFlush ==
  ASSUME NEW o \in Objects, pending[o] = None
  PROVE  Flushed(o) = {[disk |-> content, ok |-> TRUE]}
BY DEF Flushed

\* What stays as it is in the calls that are not the writer's.
DiskAlone == UNCHANGED <<dir, content, path, readOnly>>

\* The invariant while documents are read and written.
Held == HandleInv /\ JobType /\ Live

Job(j) == j = [op |-> j.op, at |-> j.at, doc |-> j.doc, buffer |-> j.buffer,
               data |-> j.data, result |-> j.result, may |-> j.may]

\* A stream is closed, or an error of it ends the call.
LEMMA StreamMoves ==
  ASSUME NEW s, NEW p, NEW ro, NEW j, NEW f, StreamOk(s, p, ro, j, f), j.at # "done",
         NEW t, t = s \/ t = None \/ (t = [s EXCEPT !.err = TRUE] /\ s # None),
         NEW k, \/ k.at = "read" /\ j.at = "read" /\ t = s
                \/ k.at = "close"
                \/ k.at = "done" /\ t = None
  PROVE  StreamOk(t, p, ro, k, f)
<1>1. CASE t = s /\ t # None
  BY <1>1 DEF StreamOk
<1>2. CASE t = None
  BY <1>2 DEF StreamOk
<1>3. CASE t = [s EXCEPT !.err = TRUE] /\ s # None
  <2> DEFINE e == s.err
  <2>e. s = [inode |-> f, ro |-> FALSE, err |-> e]
    BY <1>3 DEF StreamOk
  <2> HIDE DEF e
  <2>1. t = [inode |-> f, ro |-> FALSE, err |-> TRUE]
    BY <1>3, <2>e
  <2>2. t.err = TRUE
    BY <2>1
  <2>3. t = [inode |-> f, ro |-> FALSE, err |-> t.err]
    BY <2>1, <2>2
  <2>4. k.at = "close" \/ t = s \/ t = None
    OBVIOUS
  <2> QED BY <1>1, <1>2, <1>3, <2>3, <2>4 DEF StreamOk
<1> QED BY <1>1, <1>2, <1>3

\* What is known of an open stream.
LEMMA StreamIs ==
  ASSUME NEW s, NEW p, NEW ro, NEW j, NEW f, StreamOk(s, p, ro, j, f), s # None
  PROVE  s.inode = f /\ ~s.ro /\ (s.err => j.at = "close")
<1> DEFINE e == s.err
<1>1. s = [inode |-> f, ro |-> FALSE, err |-> e]
  BY DEF StreamOk
<1> HIDE DEF e
<1>2. s.inode = f /\ ~s.ro
  BY <1>1
<1> QED BY <1>2 DEF StreamOk

\* The record of a job, and the fields of it.
Made(op, at, doc, buffer, data, result, may) ==
  [op |-> op, at |-> at, doc |-> doc, buffer |-> buffer,
   data |-> data, result |-> result, may |-> may]

\* It is what it was made of.
LEMMA MadeIs ==
  ASSUME NEW op, NEW at, NEW doc, NEW buffer, NEW data, NEW result, NEW may, NEW j,
         j = Made(op, at, doc, buffer, data, result, may)
  PROVE  /\ Job(j) /\ j.op = op /\ j.at = at /\ j.doc = doc /\ j.buffer = buffer
         /\ j.data = data /\ j.result = result /\ j.may = may
<1>1. /\ j.op = op /\ j.at = at /\ j.doc = doc /\ j.buffer = buffer
      /\ j.data = data /\ j.result = result /\ j.may = may
  BY DEF Made
<1>2. Job(j)
  BY <1>1, Zenon DEF Made, Job
<1> QED BY <1>1, <1>2

\* The changes that the calls make to a job.
Gone(i, at) == [i EXCEPT !.at = at]
Having(i, buffer) == [i EXCEPT !.buffer = buffer]
Finding(i, may) == [i EXCEPT !.may = may]
Ended(i, at, result) == [i EXCEPT !.at = at, !.result = result]
Given(i, at, result, data) == [i EXCEPT !.at = at, !.result = result, !.data = data]

LEMMA JobChanges ==
  ASSUME NEW i, Job(i), NEW at, NEW buffer, NEW data, NEW result, NEW may
  PROVE  /\ Gone(i, at) =
              Made(i.op, at, i.doc, i.buffer, i.data, i.result, i.may)
         /\ Having(i, buffer) =
              Made(i.op, i.at, i.doc, buffer, i.data, i.result, i.may)
         /\ Finding(i, may) =
              Made(i.op, i.at, i.doc, i.buffer, i.data, i.result, may)
         /\ Ended(i, at, result) =
              Made(i.op, at, i.doc, i.buffer, i.data, result, i.may)
         /\ Given(i, at, result, data) =
              Made(i.op, at, i.doc, i.buffer, data, result, i.may)
<1> DEFINE op == i.op
           at0 == i.at
           doc == i.doc
           buffer0 == i.buffer
           data0 == i.data
           result0 == i.result
           may0 == i.may
<1>i. i = Made(op, at0, doc, buffer0, data0, result0, may0)
  BY DEF Job, Made
<1> HIDE DEF op, doc, buffer0, may0, data0, result0, at0
<1>1. [i EXCEPT !.at = at] = Made(op, at, doc, buffer0, data0, result0, may0)
  BY <1>i DEF Made
<1>2. [i EXCEPT !.buffer = buffer] = Made(op, at0, doc, buffer, data0, result0, may0)
  BY <1>i DEF Made
<1>3. [i EXCEPT !.may = may] = Made(op, at0, doc, buffer0, data0, result0, may)
  BY <1>i DEF Made
<1>4. [i EXCEPT !.at = at, !.result = result] =
        Made(op, at, doc, buffer0, data0, result, may0)
  <2>1. ASSUME NEW m, m = Made(op, at, doc, buffer0, data0, result0, may0)
        PROVE  [m EXCEPT !.result = result] =
                 Made(op, at, doc, buffer0, data0, result, may0)
    BY <2>1 DEF Made
  <2>2. [i EXCEPT !.at = at, !.result = result] =
          [[i EXCEPT !.at = at] EXCEPT !.result = result]
    OBVIOUS
  <2> QED BY <1>1, <2>1, <2>2
<1>5. [i EXCEPT !.at = at, !.result = result, !.data = data] =
        Made(op, at, doc, buffer0, data, result, may0)
  <2>1. ASSUME NEW m, m = Made(op, at, doc, buffer0, data0, result, may0)
        PROVE  [m EXCEPT !.data = data] = Made(op, at, doc, buffer0, data, result, may0)
    BY <2>1 DEF Made
  <2>2. [i EXCEPT !.at = at, !.result = result, !.data = data] =
          [[i EXCEPT !.at = at, !.result = result] EXCEPT !.data = data]
    OBVIOUS
  <2> QED BY <1>4, <2>1, <2>2
<1> QED BY <1>1, <1>2, <1>3, <1>4, <1>5
        DEF op, doc, buffer0, may0, data0, result0, at0, Gone, Having, Finding, Ended, Given

\* A job that moves on keeps the rest.
LEMMA GoesTo ==
  ASSUME NEW i, Job(i), NEW at, NEW j, j = Gone(i, at)
  PROVE  /\ Job(j) /\ j.op = i.op /\ j.at = at /\ j.doc = i.doc
         /\ j.buffer = i.buffer /\ j.data = i.data /\ j.result = i.result
         /\ j.may = i.may
<1>1. Gone(i, at) = Made(i.op, at, i.doc, i.buffer, i.data, i.result, i.may)
  BY JobChanges
<1> QED BY <1>1, MadeIs

\* So does one that has more of the file,
LEMMA Buffers ==
  ASSUME NEW i, Job(i), NEW buffer, NEW j, j = Having(i, buffer)
  PROVE  /\ Job(j) /\ j.op = i.op /\ j.at = i.at /\ j.doc = i.doc
         /\ j.buffer = buffer /\ j.data = i.data /\ j.result = i.result
         /\ j.may = i.may
<1>1. Having(i, buffer) = Made(i.op, i.at, i.doc, buffer, i.data, i.result, i.may)
  BY JobChanges
<1> QED BY <1>1, MadeIs

\* one that may find something else,
LEMMA MayFind ==
  ASSUME NEW i, Job(i), NEW may, NEW j, j = Finding(i, may)
  PROVE  /\ Job(j) /\ j.op = i.op /\ j.at = i.at /\ j.doc = i.doc
         /\ j.buffer = i.buffer /\ j.data = i.data /\ j.result = i.result
         /\ j.may = may
<1>1. Finding(i, may) = Made(i.op, i.at, i.doc, i.buffer, i.data, i.result, may)
  BY JobChanges
<1> QED BY <1>1, MadeIs

\* one that comes to its end
LEMMA Ends ==
  ASSUME NEW i, Job(i), NEW at, NEW result, NEW j, j = Ended(i, at, result)
  PROVE  /\ Job(j) /\ j.op = i.op /\ j.at = at /\ j.doc = i.doc
         /\ j.buffer = i.buffer /\ j.data = i.data /\ j.result = result
         /\ j.may = i.may
<1>1. Ended(i, at, result) = Made(i.op, at, i.doc, i.buffer, i.data, result, i.may)
  BY JobChanges
<1> QED BY <1>1, MadeIs

\* and one that was given a document.
LEMMA Parses ==
  ASSUME NEW i, Job(i), NEW at, NEW result, NEW data, NEW j, j = Given(i, at, result, data)
  PROVE  /\ Job(j) /\ j.op = i.op /\ j.at = at /\ j.doc = i.doc
         /\ j.buffer = i.buffer /\ j.data = data /\ j.result = result
         /\ j.may = i.may
<1>1. Given(i, at, result, data) = Made(i.op, at, i.doc, i.buffer, data, result, i.may)
  BY JobChanges
<1> QED BY <1>1, MadeIs

\* A call goes on reading, ends with its stream as it is or in error, or closes it.
Advances(o, j) ==
  /\ pending' = [pending EXCEPT ![o] = None] \/ UNCHANGED pending
  /\ \/ UNCHANGED stream \/ stream' = [stream EXCEPT ![o] = None]
     \/ SetError(o) /\ Open(o)
  /\ \/ j.at = "read" /\ job[o].at = "read" /\ UNCHANGED stream /\ Reading(j)
     \/ j.at = "close"
     \/ j.at = "done" /\ ~Open(o)'

\* A step of one call that leaves the disk alone, and begins no write.
LEMMA JobMoves ==
  ASSUME Held, HandleInv', DiskAlone, UNCHANGED latest,
         NEW o \in Objects, NEW j, Job(j), job' = [job EXCEPT ![o] = j],
         j.op = job[o].op, job[o].at # "done",
         Advances(o, j),
         Outcome(j)
  PROVE  Held'
<1> USE DEF Held, Live, DiskAlone, Advances
<1>1. /\ job' = [x \in Objects |-> job'[x]] /\ job'[o] = j
      /\ \A x \in Objects : x # o => job'[x] = job[x]
  BY DEF JobType
<1>2. JobType'
  BY <1>1 DEF JobType, Job
<1>3. DiskInv'
  BY DEF DiskInv, file
<1>4. /\ \A x \in Objects : pending'[x] = None
      /\ \A x \in Objects : x # o => stream'[x] = stream[x]
      /\ \/ stream'[o] = stream[o] \/ stream'[o] = None
         \/ stream'[o] = [stream[o] EXCEPT !.err = TRUE] /\ Open(o)
      /\ j.at = "read" => stream'[o] = stream[o]
  BY DEF StreamInv, HandleInv, Tables, SetError
<1>5. StreamInv'
  <2>1. StreamOk(stream[o], path[o], readOnly[o], job[o], file)
    BY DEF StreamInv
  <2>2. StreamOk(stream'[o], path[o], readOnly[o], j, file)
    BY <1>4, <2>1, StreamMoves DEF Open
  <2> QED BY <1>1, <1>4, <2>2 DEF StreamInv, file
<1>6. WriterInv'
  BY <1>1 DEF WriterInv, file
<1>7. Reading(j) => Reading(j)'
  BY <1>1 DEF Reading, Alone, MetByOne, file
<1>8. ReaderInv'
  BY <1>1, <1>7 DEF ReaderInv, Reading, Alone, MetByOne, file
<1> QED BY <1>1, <1>2, <1>3, <1>5, <1>6, <1>8

-----------------------------------------------------------------------------
(* Reading.                                                                *)

\* A read of a document takes what is there, or fails with its stream's error.
LEMMA ReadDoes ==
  ASSUME Held, NEW o \in Objects, job[o].at = "read", NEW n, NEW offset, Read(o, n, offset)
  PROVE  /\ DiskAlone /\ pending' = [pending EXCEPT ![o] = None]
         /\ Open(o) /\ stream[o].inode = file /\ file \in Inodes
         /\ \/ ret'.ok /\ UNCHANGED stream
            \/ ~ret'.ok /\ SetError(o)
<1>0. pending[o] = None /\ StreamOk(stream[o], path[o], readOnly[o], job[o], file)
  BY DEF Held, Live, StreamInv
<1>1. /\ pending[o] = None /\ Open(o) /\ ~stream[o].err /\ stream[o].inode = file
      /\ file # None
  <2>1. stream[o] # None /\ file # None
    BY <1>0 DEF StreamOk
  <2>2. stream[o].inode = file /\ (stream[o].err => job[o].at = "close")
    BY <1>0, <2>1, StreamIs
  <2> QED BY <1>0, <2>1, <2>2 DEF Open
<1>2. file \in Inodes
  BY <1>1 DEF Held, Live, DiskInv
<1>3. /\ content' = content /\ pending' = [pending EXCEPT ![o] = None]
      /\ \/ Returns("read", o, TRUE) /\ UNCHANGED stream
         \/ Returns("read", o, FALSE) /\ SetError(o)
  <2> DEFINE Took == \E short : Returns("read", o, n = 0 \/ short \/ ~stream[o].err)
  <2>1. \E f \in {[disk |-> content, ok |-> TRUE]} :
          /\ content' = f.disk /\ pending' = [pending EXCEPT ![o] = None]
          /\ \/ UNCHANGED stream /\ Took
             \/ SetError(o) /\ Returns("read", o, FALSE)
    BY <1>1, NothingToFlush, Zenon DEF Read
  <2> HIDE DEF Took
  <2>2. /\ content' = content /\ pending' = [pending EXCEPT ![o] = None]
        /\ \/ UNCHANGED stream /\ Took
           \/ SetError(o) /\ Returns("read", o, FALSE)
    <3>1. PICK f \in {[disk |-> content, ok |-> TRUE]} :
            /\ content' = f.disk /\ pending' = [pending EXCEPT ![o] = None]
            /\ \/ UNCHANGED stream /\ Took
               \/ SetError(o) /\ Returns("read", o, FALSE)
      BY <2>1, Zenon
    <3>2. f.disk = content
      OBVIOUS
    <3> QED BY <3>1, <3>2, Zenon
  <2>3. ASSUME NEW short, Returns("read", o, n = 0 \/ short \/ ~stream[o].err)
        PROVE  Returns("read", o, TRUE)
    <3> DEFINE ok == n = 0 \/ short \/ ~stream[o].err
    <3>1. ok = TRUE
      BY <1>1
    <3> HIDE DEF ok
    <3>2. Returns("read", o, ok)
      BY <2>3 DEF ok
    <3> QED BY <3>1, <3>2
  <2>4. Took => Returns("read", o, TRUE)
    BY <2>3, Zenon DEF Took
  <2> QED BY <2>2, <2>4
<1>4. UNCHANGED <<dir, path, readOnly>>
  BY DEF Read
<1> QED BY <1>1, <1>2, <1>3, <1>4 DEF DiskAlone, Returns

\* A turn of the reading loop keeps the invariant.
LEMMA ReadsOnStep ==
  ASSUME Held, HandleInv', NEW o \in Objects, ReadsOn(o) PROVE Held'
<1> DEFINE s == job[o].buffer
           c == content[file]
<1>1. /\ job[o].op = "read" /\ job[o].at = "read" /\ UNCHANGED latest
      /\ Read(o, BufferSize, Len(s))
  BY DEF ReadsOn, At
<1>2. /\ DiskAlone /\ pending' = [pending EXCEPT ![o] = None]
      /\ Open(o) /\ stream[o].inode = file /\ file \in Inodes
      /\ \/ ret'.ok /\ UNCHANGED stream
         \/ ~ret'.ok /\ SetError(o)
  BY <1>1, ReadDoes
<1>3. content'[stream[o].inode] = c
  BY <1>2 DEF DiskAlone
<1>4. IF ~ret'.ok THEN Leaving(o, "io")
      ELSE IF Len(c) <= Len(s) THEN Parsed(o) ELSE Buffered(o, c)
  BY <1>3 DEF ReadsOn
<1>5. Reading(job[o]) /\ Job(job[o]) /\ c \in Seq(Bytes) /\ file # None
  BY <1>1, <1>2, FileAssumption DEF Held, Live, ReaderInv, JobType, Job, DiskInv
<1>6. CASE ~ret'.ok
  <2> DEFINE j == Ended(job[o], "close", "io")
  <2>1. job' = [job EXCEPT ![o] = j]
    BY <1>4, <1>6 DEF Leaving, Held, JobType, Ended
  <2>2. Job(j) /\ j.op = job[o].op /\ j.at = "close" /\ j.result = "io"
    BY <1>5, Ends
  <2> HIDE DEF j
  <2>3. Outcome(j)
    BY <2>2 DEF Outcome
  <2>4. Advances(o, j)
    BY <1>2, <1>6, <2>2 DEF Advances
  <2> QED BY <1>1, <1>2, <2>1, <2>2, <2>3, <2>4, JobMoves
<1>7. CASE ret'.ok /\ Len(c) <= Len(s)
  <2> DEFINE result == IF s = <<>> \/ s \in Documents THEN "ok" ELSE "parse"
             data == IF s \in Documents THEN s ELSE job[o].data
             j == Given(job[o], "close", result, data)
  <2>1. job' = [job EXCEPT ![o] = j]
    BY <1>4, <1>7 DEF Parsed, Held, JobType, Given
  <2>2. /\ Job(j) /\ j.op = job[o].op /\ j.at = "close" /\ j.may = job[o].may
        /\ j.result = IF s = <<>> \/ s \in Documents THEN "ok" ELSE "parse"
        /\ j.data = IF s \in Documents THEN s ELSE job[o].data
    BY <1>5, Parses
  <2>x. job[o].data = Untouched
    BY <1>5 DEF Reading
  <2> HIDE DEF j
  <2>3. Outcome(j)
    <3>1. CASE job[o].may = Anything
      <4>1. Cardinality(Anything) # 1
        BY <1>2, <1>5, Choices DEF Held, Live, DiskInv
      <4>2. j.data \in Anything
        BY <2>2, <2>x DEF Anything
      <4> QED BY <2>2, <3>1, <4>1, <4>2 DEF Outcome
    <3>2. CASE Alone(job[o])
      <4>1. PICK d \in Documents : job[o].may = {d} /\ latest = d /\ Starts(s, d)
        BY <3>2 DEF Alone
      <4>2. c = d
        BY <4>1, JsonAssumption DEF Held, Live, WriterInv
      <4>3. s = d
        BY <1>5, <1>7, <4>1, <4>2, Beginnings DEF Reading
      <4> QED BY <2>2, <4>1, <4>3 DEF Outcome
    <3>3. CASE MetByOne(job[o])
      <4>1. PICK d, new \in Documents :
              job[o].may = {d, new, Untouched} /\ Met(d, new, s, c)
        BY <3>3 DEF MetByOne
      <4>2. s \in Documents => s \in {d, new}
        BY <4>1, MetParses
      <4>3. Cardinality(job[o].may) # 1
        BY <4>1, Choices
      <4> QED BY <2>2, <2>x, <4>1, <4>2, <4>3 DEF Outcome
    <3> QED BY <1>5, <3>1, <3>2, <3>3 DEF Reading
  <2>4. Advances(o, j)
    BY <1>2, <1>7, <2>2 DEF Advances
  <2> QED BY <1>1, <1>2, <2>1, <2>2, <2>3, <2>4, JobMoves
<1>8. CASE ret'.ok /\ ~(Len(c) <= Len(s))
  <2> DEFINE end == IF Len(c) < Len(s) + BufferSize THEN Len(c) ELSE Len(s) + BufferSize
             t == s \o SubSeq(c, Len(s) + 1, end)
             j == Having(job[o], t)
  <2>1. job' = [job EXCEPT ![o] = j]
    BY <1>4, <1>8 DEF Buffered, Held, JobType, Having
  <2> HIDE DEF t
  <2>2. /\ Job(j) /\ j.op = "read" /\ j.at = "read" /\ j.may = job[o].may
        /\ j.data = job[o].data /\ j.buffer = t
    BY <1>1, <1>5, Buffers
  <2> HIDE DEF j, s, c
  <2>3. s \in Seq(Bytes) /\ c \in Seq(Bytes) /\ Len(s) < Len(c)
    BY <1>5, <1>8 DEF Reading, s
  <2>4. /\ t \in Seq(Bytes)
        /\ s = <<>> /\ Len(c) <= BufferSize => t = c
        /\ \A u \in Seq(Bytes) : Starts(s, u) /\ Starts(c, u) => Starts(t, u)
    BY <2>3, OneMore DEF t
  <2>5. Reading(j)
    <3>1. CASE job[o].may = Anything
      BY <1>5, <2>2, <2>4, <3>1 DEF Reading
    <3>2. CASE Alone(job[o])
      <4>1. PICK d \in Documents : /\ job[o].may = {d} /\ latest = d /\ Starts(s, d)
                                   /\ Len(d) <= BufferSize => s \in {<<>>, d}
        BY <3>2 DEF Alone, s
      <4>2. c = d
        BY <4>1, JsonAssumption DEF Held, Live, WriterInv, c
      <4>3. Starts(t, d)
        BY <2>4, <4>1, <4>2, Beginnings, DocumentsAre
      <4>4. Len(d) <= BufferSize => t = d
        BY <2>3, <2>4, <4>1, <4>2, DocumentsAre
      <4>5. Alone(j)
        BY <1>1, <2>2, <4>1, <4>3, <4>4 DEF Alone
      <4> QED BY <1>5, <2>2, <2>4, <4>5 DEF Reading
    <3>3. CASE MetByOne(job[o])
      <4>1. PICK d, new \in Documents :
              /\ job[o].may = {d, new, Untouched} /\ Met(d, new, s, c)
              /\ Len(d) <= BufferSize
              /\ \A w \in Objects : job[w].at \in {"truncate", "write"} => job[w].doc = new
        BY <3>3 DEF MetByOne, s, c
      <4>2. Met(d, new, t, c)
        BY <2>3, <4>1, MetReadsOn DEF t
      <4>3. MetByOne(j)
        BY <2>2, <4>1, <4>2 DEF MetByOne, c
      <4> QED BY <1>5, <2>2, <2>4, <4>3 DEF Reading
    <3> QED BY <1>5, <3>1, <3>2, <3>3 DEF Reading
  <2>6. Outcome(j)
    BY <2>2 DEF Outcome
  <2>7. Advances(o, j)
    BY <1>1, <1>2, <1>8, <2>2, <2>5 DEF Advances
  <2> QED BY <1>1, <1>2, <2>1, <2>2, <2>6, <2>7, JobMoves
<1> QED BY <1>6, <1>7, <1>8

\* A call returns once its object is closed, which hands nothing over.
LEMMA LeavesStep ==
  ASSUME Held, HandleInv', NEW o \in Objects, Leaves(o) PROVE Held'
<1> DEFINE j == Gone(job[o], "done")
<1>1. /\ job[o].at = "close" /\ UNCHANGED latest
      /\ job' = [job EXCEPT ![o] = j]
  BY DEF Leaves, Held, JobType, Gone
<1>2. Job(job[o]) /\ pending[o] = None
  BY DEF Held, Live, StreamInv, JobType, Job
<1>3. Job(j) /\ j.op = job[o].op /\ j.at = "done" /\ j.data = job[o].data
      /\ j.result = job[o].result /\ j.may = job[o].may
  BY <1>2, GoesTo
<1> HIDE DEF j
<1>4. Outcome(j)
  BY <1>1, <1>3 DEF Held, Live, Outcome
<1>5. CASE ~Open(o)
  <2>1. UNCHANGED <<dir, content, path, readOnly, stream, pending>>
    BY <1>5 DEF Leaves
  <2>2. ~Open(o)'
    BY <1>5, <2>1 DEF Open
  <2>3. DiskAlone /\ Advances(o, j)
    BY <1>3, <2>1, <2>2 DEF DiskAlone, Advances
  <2> QED BY <1>1, <1>3, <1>4, <2>3, JobMoves
<1>6. CASE Open(o)
  <2>1. Close(o)
    BY <1>6 DEF Leaves
  <2>2. /\ UNCHANGED <<dir, path, readOnly>>
        /\ stream' = [stream EXCEPT ![o] = None]
        /\ pending' = [pending EXCEPT ![o] = None]
    BY <2>1 DEF Close
  <2>3. content' = content
    BY <1>2, <2>1, NothingToFlush DEF Close
  <2>4. ~Open(o)'
    BY <2>2 DEF Open, Held, HandleInv, Tables
  <2>5. DiskAlone /\ Advances(o, j)
    BY <1>3, <2>2, <2>3, <2>4 DEF DiskAlone, Advances
  <2> QED BY <1>1, <1>3, <1>4, <2>5, JobMoves
<1> QED BY <1>5, <1>6

-----------------------------------------------------------------------------
(* Writing.                                                                *)

\* A step of the writer: it leaves the file, empties it, or fills it when it is empty.
LEMMA WriterMoves ==
  ASSUME Held, HandleInv', NEW o \in Objects, job[o].at \in {"truncate", "write"},
         UNCHANGED <<dir, path, readOnly>>,
         NEW then,
         \/ content' = content
         \/ /\ content' = [content EXCEPT ![file] = then] /\ file # None
            /\ then \in Seq(Bytes)
            /\ then = <<>> \/ (content[file] = <<>> /\ Starts(then, job[o].doc)),
         NEW j, Job(j), job' = [job EXCEPT ![o] = j], j.op = "write", j.doc = job[o].doc,
         \/ j.at = "write" /\ file # None /\ content'[file] = <<>> /\ latest' = None
         \/ j.at = "close",
         NEW t, stream' = [stream EXCEPT ![o] = t],
         StreamOk(t, path[o], readOnly[o], j, file),
         pending' = [pending EXCEPT ![o] = None] \/ UNCHANGED pending,
         \/ latest' = None
         \/ latest' = job[o].doc /\ file # None /\ content'[file] = job[o].doc
  PROVE  Held'
<1> USE DEF Held, Live
<1>1. /\ job' = [x \in Objects |-> job'[x]] /\ job'[o] = j
      /\ \A x \in Objects : x # o => job'[x] = job[x]
  BY DEF JobType
<1>2. JobType'
  BY <1>1 DEF JobType, Job
<1>3. file' = file /\ (file # None => file \in Inodes)
  BY DEF file, DiskInv
<1>4. DiskInv'
  BY <1>3 DEF DiskInv, file
<1>5. StreamInv'
  <2>1. /\ \A x \in Objects : pending'[x] = None
        /\ \A x \in Objects : x # o => stream'[x] = stream[x]
        /\ stream'[o] = t
    BY DEF StreamInv, HandleInv, Tables
  <2> QED BY <1>1, <1>3, <2>1 DEF StreamInv
<1>6. /\ job[o].op = "write" /\ job[o].doc \in Documents /\ latest = None
      /\ \A x \in Objects : x # o => ~(job[x].at \in {"truncate", "write"})
  BY DEF JobType, WriterInv
<1>7. WriterInv'
  BY <1>1, <1>3, <1>6 DEF WriterInv
<1>8. ReaderInv'
  <2> SUFFICES ASSUME NEW r \in Objects, job'[r].at = "read" PROVE Reading(job[r])'
    BY <1>1 DEF ReaderInv
  <2>1. r # o /\ job'[r] = job[r] /\ Reading(job[r])
    BY <1>1 DEF ReaderInv
  <2>2. ~Alone(job[r])
    <3>1. None \notin Documents
      BY JsonAssumption
    <3> QED BY <1>6, <3>1 DEF Alone
  <2>3. MetByOne(job[r]) => MetByOne(job[r])'
    <3> SUFFICES ASSUME MetByOne(job[r]) PROVE MetByOne(job[r])'
      OBVIOUS
    <3>1. PICK d, new \in Documents :
            /\ job[r].may = {d, new, Untouched} /\ Len(d) <= BufferSize
            /\ Met(d, new, job[r].buffer, content[file])
            /\ \A w \in Objects : job[w].at \in {"truncate", "write"} => job[w].doc = new
      BY DEF MetByOne
    <3>2. Met(d, new, job[r].buffer, content'[file])
      <4>1. CASE content' = content
        BY <3>1, <4>1
      <4>2. CASE content' # content
        <5>1. content'[file] = then
          BY <1>3, <4>2 DEF DiskInv
        <5> QED BY <3>1, <4>2, <5>1, MetWritten
      <4> QED BY <4>1, <4>2
    <3>3. \A w \in Objects : job'[w].at \in {"truncate", "write"} => job'[w].doc = new
      BY <1>1, <3>1
    <3> QED BY <1>3, <2>1, <3>1, <3>2, <3>3 DEF MetByOne
  <2> QED BY <2>1, <2>2, <2>3 DEF Reading
<1>9. \A x \in Objects : Outcome(job'[x])
  BY <1>1 DEF Outcome
<1> QED BY <1>2, <1>4, <1>5, <1>7, <1>8, <1>9

\* dump(2) throws: the file stays empty.
LEMMA DumpThrowsStep ==
  ASSUME Held, HandleInv', NEW o \in Objects, DumpThrows(o) PROVE Held'
<1> DEFINE j == Ended(job[o], "close", "dump")
<1>1. /\ job[o].op = "write" /\ job[o].at = "write" /\ job' = [job EXCEPT ![o] = j]
      /\ UNCHANGED <<dir, content, path, readOnly, stream, pending, latest>>
  BY DEF DumpThrows, At, Leaving, Held, JobType, Ended
<1>2. Job(job[o])
  BY DEF Held, JobType, Job
<1>3. Job(j) /\ j.op = job[o].op /\ j.at = "close"
  BY <1>2, Ends
<1> HIDE DEF j
<1>4. Outcome(j)
  BY <1>1, <1>3 DEF Outcome
<1>5. DiskAlone /\ Advances(o, j)
  BY <1>1, <1>3 DEF DiskAlone, Advances
<1> QED BY <1>1, <1>3, <1>4, <1>5, JobMoves

\* What is known of the writer.
LEMMA WriterIs ==
  ASSUME Held, NEW o \in Objects, job[o].at \in {"truncate", "write"}
  PROVE  /\ job[o].op = "write" /\ job[o].doc \in Documents /\ Job(job[o])
         /\ pending[o] = None /\ path[o] = JsonPath /\ readOnly[o] = FALSE
         /\ Open(o) => /\ file # None /\ stream[o].inode = file
                       /\ ~stream[o].ro /\ ~stream[o].err
         /\ file # None => file \in Inodes
         /\ job[o].at = "write" => file # None /\ content[file] = <<>>
<1> USE DEF Held, Live
<1>1. pending[o] = None /\ StreamOk(stream[o], path[o], readOnly[o], job[o], file)
  BY DEF StreamInv
<1>2. path[o] = JsonPath /\ readOnly[o] = FALSE
  BY <1>1 DEF StreamOk
<1>3. ASSUME Open(o)
      PROVE  file # None /\ stream[o].inode = file /\ ~stream[o].ro /\ ~stream[o].err
  <2>1. stream[o] # None /\ file # None
    BY <1>1, <1>3 DEF Open, StreamOk
  <2>2. stream[o].inode = file /\ ~stream[o].ro /\ (stream[o].err => job[o].at = "close")
    BY <1>1, <2>1, StreamIs
  <2> QED BY <2>1, <2>2
<1>4. job[o].op = "write" /\ job[o].doc \in Documents /\ Job(job[o])
  BY DEF JobType, WriterInv, Job
<1>5. job[o].at = "write" => file # None /\ content[file] = <<>>
  BY DEF WriterInv
<1>6. file # None => file \in Inodes
  BY DEF DiskInv
<1> QED BY <1>1, <1>2, <1>3, <1>4, <1>5, <1>6

\* The stream that fopen gives on file f, if any.
Fresh(t, f) ==
  \/ t = None
  \/ f # None /\ t = [inode |-> f, ro |-> FALSE, err |-> FALSE]

LEMMA Reopened ==
  ASSUME NEW f, NEW t, Fresh(t, f), NEW j, j.at # "done", j.at = "read" => t # None
  PROVE  StreamOk(t, JsonPath, FALSE, j, f)
BY DEF Fresh, StreamOk

\* The truncation empties the file, or fails and ends the call.
LEMMA TruncateDoes ==
  ASSUME Held, NEW o \in Objects, job[o].at = "truncate", Truncate(o, 0)
  PROVE  /\ UNCHANGED <<dir, path, readOnly>> /\ pending' = [pending EXCEPT ![o] = None]
         /\ \/ content' = content /\ ~ret'.ok
            \/ content' = [content EXCEPT ![file] = <<>>] /\ file # None
         /\ \E t : stream' = [stream EXCEPT ![o] = t] /\ Fresh(t, file)
<1>1. /\ pending[o] = None /\ path[o] = JsonPath /\ readOnly[o] = FALSE
      /\ Open(o) => file # None
  BY WriterIs
<1>2. PICK f \in Flushed(o), fault \in BOOLEAN :
        LET i    == dir[path[o]]
            done == i # None /\ ~fault
        IN  /\ content' = IF done THEN [f.disk EXCEPT ![i] = Resized(@, 0)]
                                  ELSE f.disk
            /\ IF Open(o)
               THEN \E new \in Opened(path[o], readOnly[o], dir) :
                       /\ stream' = [stream EXCEPT ![o] = new.stream]
                       /\ Returns("truncate", o, done /\ ~new.throws)
               ELSE Returns("truncate", o, done) /\ UNCHANGED stream
  BY DEF Truncate
<1>3. f.disk = content
  BY <1>1, NothingToFlush
<1> DEFINE done == file # None /\ ~fault
<1>4. /\ content' = IF done THEN [content EXCEPT ![file] = <<>>] ELSE content
      /\ IF Open(o)
         THEN \E new \in Opened(JsonPath, FALSE, dir) :
                 /\ stream' = [stream EXCEPT ![o] = new.stream]
                 /\ Returns("truncate", o, done /\ ~new.throws)
         ELSE Returns("truncate", o, done) /\ UNCHANGED stream
  BY <1>1, <1>2, <1>3, Emptied, Zenon DEF file
<1>5. ~done => ~ret'.ok
  <2>1. ~done => \E ok : ~ok /\ Returns("truncate", o, ok)
    BY <1>4, Zenon
  <2> QED BY <2>1 DEF Returns
<1>6. \E t : stream' = [stream EXCEPT ![o] = t] /\ Fresh(t, file)
  <2>1. CASE ~Open(o)
    BY <1>4, <2>1 DEF Open, Held, HandleInv, Tables, Fresh
  <2>2. CASE Open(o)
    <3>1. PICK new \in Opened(JsonPath, FALSE, dir) :
            stream' = [stream EXCEPT ![o] = new.stream]
      BY <1>4, <2>2
    <3>2. Fresh(new.stream, file)
      <4> DEFINE s == [inode |-> file, ro |-> FALSE, err |-> FALSE]
      <4>1. new \in {[stream |-> None, throws |-> FALSE], [stream |-> s, throws |-> FALSE]}
        BY <1>1, <2>2 DEF Opened, file
      <4> HIDE DEF s
      <4>2. new.stream \in {None, s}
        BY <4>1
      <4> QED BY <1>1, <2>2, <4>2 DEF s, Fresh
    <3> QED BY <3>1, <3>2
  <2> QED BY <2>1, <2>2
<1>7. UNCHANGED <<dir, path, readOnly>> /\ pending' = [pending EXCEPT ![o] = None]
  BY DEF Truncate
<1> QED BY <1>4, <1>5, <1>6, <1>7

\* The step that truncates keeps the invariant.
LEMMA WriteTruncatesStep ==
  ASSUME Held, HandleInv', NEW o \in Objects, WriteTruncates(o) PROVE Held'
<1>1. /\ job[o].op = "write" /\ job[o].at = "truncate" /\ Truncate(o, 0) /\ UNCHANGED latest
      /\ job' = [job EXCEPT ![o] = IF ret'.ok THEN Gone(job[o], "write")
                                              ELSE Ended(job[o], "close", "io")]
  BY DEF WriteTruncates, At, Leaving, Held, JobType, Gone, Ended
<1>2. /\ job[o].doc \in Documents /\ Job(job[o]) /\ latest = None
      /\ path[o] = JsonPath /\ readOnly[o] = FALSE /\ (file # None => file \in Inodes)
  BY <1>1, WriterIs DEF Held, Live, WriterInv
<1>3. /\ UNCHANGED <<dir, path, readOnly>> /\ pending' = [pending EXCEPT ![o] = None]
      /\ \/ content' = content /\ ~ret'.ok
         \/ content' = [content EXCEPT ![file] = <<>>] /\ file # None
  BY <1>1, TruncateDoes
<1>4. PICK t : stream' = [stream EXCEPT ![o] = t] /\ Fresh(t, file)
  BY <1>1, TruncateDoes
<1>5. PICK j : /\ job' = [job EXCEPT ![o] = j]
               /\ \/ j = Gone(job[o], "write") /\ ret'.ok
                  \/ j = Ended(job[o], "close", "io")
  BY <1>1
<1>6. /\ Job(j) /\ j.op = "write" /\ j.doc = job[o].doc
      /\ \/ j.at = "write" /\ ret'.ok
         \/ j.at = "close"
  BY <1>1, <1>2, <1>5, GoesTo, Ends
<1>7. StreamOk(t, path[o], readOnly[o], j, file)
  <2>1. j.at # "done" /\ j.at # "read"
    BY <1>6
  <2>2. StreamOk(t, JsonPath, FALSE, j, file)
    BY <1>4, <2>1, Reopened
  <2> QED BY <1>2, <2>2
<1>8. content' = [content EXCEPT ![file] = <<>>] /\ file # None => content'[file] = <<>>
  BY <1>2 DEF Held, Live, DiskInv
<1>9. <<>> \in Seq(Bytes)
  OBVIOUS
<1> QED BY <1>1, <1>2, <1>3, <1>4, <1>5, <1>6, <1>7, <1>8, <1>9, WriterMoves

\* The write puts some of the document, and all of it unless the stream knows.
LEMMA WriteDoes ==
  ASSUME Held, NEW o \in Objects, job[o].at = "write", Write(o, job[o].doc, 0)
  PROVE  /\ UNCHANGED <<dir, path, readOnly>>
         /\ pending' = [pending EXCEPT ![o] = None] \/ UNCHANGED pending
         /\ \/ ~ret'.ok /\ UNCHANGED <<content, stream>>
            \/ /\ Open(o)
               /\ \E k \in 0 .. Len(job[o].doc) :
                    /\ content' = [content EXCEPT ![file] =
                                     Patch(<<>>, 0, SubSeq(job[o].doc, 1, k))]
                    /\ \/ UNCHANGED stream /\ k = Len(job[o].doc)
                       \/ SetError(o)
<1>1. /\ pending[o] = None /\ content[file] = <<>> /\ file \in Inodes
      /\ Open(o) => stream[o].inode = file /\ ~stream[o].ro /\ ~stream[o].err
  BY WriterIs
<1>2. UNCHANGED <<dir, path, readOnly>>
  BY DEF Write
<1>3. CASE ~Open(o)
  <2>1. Returns("write", o, FALSE) /\ UNCHANGED <<content, stream, pending>>
    BY <1>3 DEF Write
  <2> QED BY <1>2, <2>1 DEF Returns
<1>4. CASE Open(o)
  <2> DEFINE doc == job[o].doc
             n == Len(doc)
             Put(k) == [content EXCEPT ![file] = Patch(@, 0, SubSeq(doc, 1, k))]
  <2>1. \E f \in {[disk |-> content, ok |-> TRUE]} :
          LET i == stream[o].inode
          IN  \/ /\ ~f.ok \/ (stream[o].ro /\ n > 0)
                 /\ pending' = [pending EXCEPT ![o] = None]
              \/ \E k \in 0 .. n :
                   /\ content' = [f.disk EXCEPT ![i] = Patch(@, 0, SubSeq(doc, 1, k))]
                   /\ \/ /\ k < n /\ SetError(o)
                         /\ pending' = [pending EXCEPT ![o] = None]
                      \/ stream[o].err
                      \/ /\ IF k < n THEN SetError(o) ELSE UNCHANGED stream
                         /\ pending' = [pending EXCEPT ![o] = None]
    BY <1>1, <1>4, NothingToFlush, Zenon DEF Write
  <2>2. \E k \in 0 .. n :
          /\ content' = Put(k)
          /\ IF k < n THEN SetError(o) ELSE UNCHANGED stream
          /\ pending' = [pending EXCEPT ![o] = None]
    BY <1>1, <1>4, <2>1
  <2>3. n \in Nat
    BY WriterIs, DocumentsAre
  <2>4. \A k \in 0 .. n : k < n \/ k = n
    BY <2>3
  <2>5. \A k : Put(k) = [content EXCEPT ![file] = Patch(<<>>, 0, SubSeq(doc, 1, k))]
    BY <1>1
  <2> HIDE DEF Put, doc, n
  <2> QED BY <1>2, <1>4, <2>2, <2>4, <2>5 DEF n, doc
<1> QED BY <1>3, <1>4

\* The step that writes keeps the invariant.
LEMMA WriteFillsStep ==
  ASSUME Held, HandleInv', NEW o \in Objects, WriteFills(o) PROVE Held'
<1> DEFINE j == Ended(job[o], "close", IF ret'.ok THEN "ok" ELSE "io")
<1>1. /\ job[o].op = "write" /\ job[o].at = "write" /\ Write(o, job[o].doc, 0)
      /\ job' = [job EXCEPT ![o] = j]
      /\ latest' = IF ret'.ok /\ ~stream'[o].err THEN job[o].doc ELSE None
  BY DEF WriteFills, At, Leaving, Held, JobType, Ended
<1>2. /\ job[o].doc \in Documents /\ Job(job[o]) /\ content[file] = <<>>
      /\ file # None /\ file \in Inodes
      /\ StreamOk(stream[o], path[o], readOnly[o], job[o], file)
  BY <1>1, WriterIs DEF Held, Live, StreamInv
<1>3. Job(j) /\ j.op = "write" /\ j.doc = job[o].doc /\ j.at = "close"
  BY <1>1, <1>2, Ends
<1> HIDE DEF j
<1>4. /\ UNCHANGED <<dir, path, readOnly>>
      /\ pending' = [pending EXCEPT ![o] = None] \/ UNCHANGED pending
  BY <1>1, WriteDoes
<1>5. CASE ~ret'.ok /\ UNCHANGED <<content, stream>>
  <2>1. stream' = [stream EXCEPT ![o] = stream[o]]
    BY <1>5 DEF Held, HandleInv, Tables
  <2>2. StreamOk(stream[o], path[o], readOnly[o], j, file)
    BY <1>1, <1>2, <1>3, StreamMoves
  <2>3. latest' = None /\ content' = content
    BY <1>1, <1>5
  <2> QED BY <1>1, <1>3, <1>4, <2>1, <2>2, <2>3, WriterMoves
<1>6. CASE /\ Open(o)
           /\ \E k \in 0 .. Len(job[o].doc) :
                /\ content' = [content EXCEPT ![file] =
                                 Patch(<<>>, 0, SubSeq(job[o].doc, 1, k))]
                /\ \/ UNCHANGED stream /\ k = Len(job[o].doc)
                   \/ SetError(o)
  <2>1. PICK k \in 0 .. Len(job[o].doc) :
          /\ content' = [content EXCEPT ![file] = Patch(<<>>, 0, SubSeq(job[o].doc, 1, k))]
          /\ \/ UNCHANGED stream /\ k = Len(job[o].doc)
             \/ SetError(o)
    BY <1>6
  <2> DEFINE then == Patch(<<>>, 0, SubSeq(job[o].doc, 1, k))
  <2>2. /\ then \in Seq(Bytes) /\ Starts(then, job[o].doc)
        /\ k = Len(job[o].doc) => then = job[o].doc
    BY <1>2, Filled
  <2>3. content' = [content EXCEPT ![file] = then]
    BY <2>1
  <2> HIDE DEF then
  <2>4. content'[file] = then
    BY <1>2, <2>3 DEF Held, Live, DiskInv
  <2>5. PICK t : /\ stream' = [stream EXCEPT ![o] = t]
                 /\ \/ t = stream[o] /\ k = Len(job[o].doc)
                    \/ t = [stream[o] EXCEPT !.err = TRUE]
    BY <2>1 DEF SetError, Held, HandleInv, Tables
  <2>6. StreamOk(t, path[o], readOnly[o], j, file)
    BY <1>1, <1>2, <1>3, <1>6, <2>5, StreamMoves DEF Open
  <2>7. t = [stream[o] EXCEPT !.err = TRUE] => t.err
    <3> DEFINE s == stream[o]
               e == s.err
    <3>1. s = [inode |-> file, ro |-> FALSE, err |-> e]
      BY <1>2, <1>6 DEF StreamOk, Open
    <3> HIDE DEF s, e
    <3>2. [s EXCEPT !.err = TRUE].err = TRUE
      BY <3>1
    <3> QED BY <3>2 DEF s
  <2>8. stream'[o] = t
    BY <2>5 DEF Held, HandleInv, Tables
  <2>9. \/ latest' = None
        \/ latest' = job[o].doc /\ content'[file] = job[o].doc
    BY <1>1, <2>2, <2>4, <2>5, <2>7, <2>8
  <2> QED BY <1>1, <1>2, <1>3, <1>4, <2>2, <2>3, <2>5, <2>6, <2>9, WriterMoves
<1> QED BY <1>1, <1>5, <1>6, WriteDoes

-----------------------------------------------------------------------------
(* The beginning of a call.                                                *)

\* A job before its first step on the file.
Begun(op, at, doc, result, may) == Made(op, at, doc, <<>>, Untouched, result, may)

\* It is what it was begun with.
LEMMA BegunIs ==
  ASSUME NEW op, NEW at, NEW doc, NEW result, NEW may, NEW j, j = Begun(op, at, doc, result, may)
  PROVE  /\ Job(j) /\ j.op = op /\ j.at = at /\ j.doc = doc /\ j.buffer = <<>>
         /\ j.data = Untouched /\ j.result = result /\ j.may = may
BY MadeIs DEF Begun

\* The jobs that BeginRead and BeginWrite make.
NewRead(at, result, may) ==
  [Idle EXCEPT !.op = "read", !.at = at, !.result = result, !.may = may]
NewWrite(doc) == [Idle EXCEPT !.op = "write", !.at = "truncate", !.doc = doc]

\* A read begins with nothing read
LEMMA NewReadIs ==
  ASSUME NEW at, NEW result, NEW may
  PROVE  NewRead(at, result, may) = Begun("read", at, None, result, may)
<1> DEFINE a == [Idle EXCEPT !.op = "read"]
           b == [a EXCEPT !.at = at]
           c == [b EXCEPT !.result = result]
           d == [c EXCEPT !.may = may]
<1>1. NewRead(at, result, may) = d
  BY DEF NewRead
<1>2. a = Made("read", "done", None, <<>>, Untouched, "none", Anything)
  BY DEF Idle, Made
<1> HIDE DEF a
<1>3. b = Made("read", at, None, <<>>, Untouched, "none", Anything)
  BY <1>2 DEF Made
<1> HIDE DEF b
<1>4. c = Made("read", at, None, <<>>, Untouched, result, Anything)
  BY <1>3 DEF Made
<1> HIDE DEF c
<1>5. d = Made("read", at, None, <<>>, Untouched, result, may)
  BY <1>4 DEF Made
<1> QED BY <1>1, <1>5 DEF Begun

\* and a write with its document.
LEMMA NewWriteIs ==
  ASSUME NEW doc
  PROVE  NewWrite(doc) = Begun("write", "truncate", doc, "none", Anything)
<1> DEFINE a == [Idle EXCEPT !.op = "write"]
           b == [a EXCEPT !.at = "truncate"]
           c == [b EXCEPT !.doc = doc]
<1>1. NewWrite(doc) = c
  BY DEF NewWrite
<1>2. a = Made("write", "done", None, <<>>, Untouched, "none", Anything)
  BY DEF Idle, Made
<1> HIDE DEF a
<1>3. b = Made("write", "truncate", None, <<>>, Untouched, "none", Anything)
  BY <1>2 DEF Made
<1> HIDE DEF b
<1>4. c = Made("write", "truncate", doc, <<>>, Untouched, "none", Anything)
  BY <1>3 DEF Made
<1> QED BY <1>1, <1>4 DEF Begun

\* What opening gives, on a directory d.
LEMMA OpenedIs ==
  ASSUME NEW d, NEW new \in Opened(JsonPath, FALSE, d)
  PROVE  Fresh(new.stream, d[JsonPath])
<1> DEFINE s == [inode |-> d[JsonPath], ro |-> FALSE, err |-> FALSE]
<1>1. CASE d[JsonPath] = None
  BY <1>1 DEF Opened, Fresh
<1>2. CASE d[JsonPath] # None
  <2>1. new \in {[stream |-> None, throws |-> FALSE], [stream |-> s, throws |-> FALSE]}
    BY <1>2 DEF Opened
  <2> HIDE DEF s
  <2>2. new.stream \in {None, s}
    BY <2>1
  <2> QED BY <1>2, <2>2 DEF s, Fresh
<1> QED BY <1>1, <1>2

\* A read that begins keeps the invariant: it may find the document on file.
LEMMA BeginReadStep ==
  ASSUME Held, HandleInv', NEW o \in Objects, job[o].at = "done", BeginRead(o) PROVE Held'
<1> USE DEF Held, Live
<1>1. /\ OpenFile(o, JsonPath, FALSE) /\ UNCHANGED latest
      /\ \E at, result, may :
           /\ job' = [job EXCEPT ![o] = NewRead(at, result, may)]
           /\ at = IF ret'.ok THEN "read" ELSE "close"
           /\ result = IF ret'.ok THEN "none" ELSE "io"
           /\ may = IF latest = None THEN Anything ELSE {latest}
  BY Zenon DEF BeginRead, NewRead
<1>2. /\ UNCHANGED <<dir, content, pending>> /\ file' = file
      /\ path' = [path EXCEPT ![o] = JsonPath] /\ readOnly' = [readOnly EXCEPT ![o] = FALSE]
  BY <1>1 DEF OpenFile, file
<1>3. PICK t : /\ stream' = [stream EXCEPT ![o] = t] /\ Fresh(t, file)
               /\ ret'.ok => t # None
  <2>1. PICK new \in Opened(JsonPath, FALSE, dir) :
          /\ stream' = [stream EXCEPT ![o] = new.stream]
          /\ Returns("open", o, new.stream # None)
    BY <1>1 DEF OpenFile
  <2>2. Fresh(new.stream, file)
    BY OpenedIs DEF file
  <2>3. ret'.ok => new.stream # None
    BY <2>1 DEF Returns
  <2> QED BY <2>1, <2>2, <2>3
<1>4. PICK j :
        /\ job' = [job EXCEPT ![o] = j]
        /\ Job(j) /\ j.op = "read" /\ j.at = (IF ret'.ok THEN "read" ELSE "close")
        /\ j.buffer = <<>> /\ j.data = Untouched
        /\ j.result = (IF ret'.ok THEN "none" ELSE "io")
        /\ j.may = (IF latest = None THEN Anything ELSE {latest})
  <2>1. PICK at, result, may :
          /\ job' = [job EXCEPT ![o] = NewRead(at, result, may)]
          /\ at = IF ret'.ok THEN "read" ELSE "close"
          /\ result = IF ret'.ok THEN "none" ELSE "io"
          /\ may = IF latest = None THEN Anything ELSE {latest}
    BY <1>1
  <2>2. PICK j : j = NewRead(at, result, may)
    OBVIOUS
  <2>3. j = Begun("read", at, None, result, may)
    BY <2>2, NewReadIs
  <2>4. /\ Job(j) /\ j.op = "read" /\ j.at = at /\ j.buffer = <<>>
        /\ j.data = Untouched /\ j.result = result /\ j.may = may
    BY <2>3, BegunIs
  <2> QED BY <2>1, <2>2, <2>4
<1>5. /\ job' = [x \in Objects |-> job'[x]] /\ job'[o] = j
      /\ \A x \in Objects : x # o => job'[x] = job[x]
  BY <1>4 DEF JobType
<1>6. JobType'
  BY <1>4, <1>5 DEF JobType, Job
<1>7. DiskInv'
  BY <1>2 DEF DiskInv
<1>8. StreamInv'
  <2>1. StreamOk(t, JsonPath, FALSE, j, file)
    BY <1>3, <1>4, Reopened
  <2>2. /\ stream'[o] = t /\ path'[o] = JsonPath /\ readOnly'[o] = FALSE
        /\ \A x \in Objects : x # o => /\ stream'[x] = stream[x] /\ path'[x] = path[x]
                                       /\ readOnly'[x] = readOnly[x]
    BY <1>2, <1>3 DEF HandleInv, Tables, DiskInv
  <2> QED BY <1>2, <1>5, <2>1, <2>2 DEF StreamInv
<1>9. WriterInv'
  BY <1>1, <1>2, <1>4, <1>5 DEF WriterInv
<1>10. Reading(j)'
  <2>1. latest # None => latest \in Documents
    BY DEF WriterInv
  <2>2. j.may = Anything \/ Alone(j)'
    BY <1>1, <1>4, <2>1, Beginnings DEF Alone
  <2>3. <<>> \in Seq(Bytes)
    OBVIOUS
  <2> QED BY <1>4, <2>2, <2>3 DEF Reading
<1>11. ReaderInv'
  <2> SUFFICES ASSUME NEW r \in Objects, job'[r].at = "read", r # o PROVE Reading(job[r])'
    BY <1>5, <1>10 DEF ReaderInv, Reading, Alone, MetByOne
  <2>1. job'[r] = job[r] /\ Reading(job[r])
    BY <1>5 DEF ReaderInv
  <2>2. Alone(job[r]) => Alone(job[r])'
    BY <1>1, <2>1 DEF Alone
  <2>3. MetByOne(job[r]) => MetByOne(job[r])'
    <3>1. \A w \in Objects : job'[w].at \in {"truncate", "write"} => job'[w] = job[w]
      BY <1>4, <1>5
    <3> QED BY <1>2, <2>1, <3>1 DEF MetByOne
  <2> QED BY <2>1, <2>2, <2>3 DEF Reading
<1>12. \A x \in Objects : Outcome(job'[x])
  BY <1>4, <1>5 DEF Outcome
<1> QED BY <1>6, <1>7, <1>8, <1>9, <1>11, <1>12

\* The file that is created is none of those there are.
LEMMA FreshIs ==
  ASSUME Held, file = None PROVE FreshInode \in Inodes
<1>1. \A p \in Paths : dir[p] = None
  BY DEF Held, Live, DiskInv, file
<1>2. \A o \in Objects : ~Open(o)
  BY DEF Held, Live, StreamInv, StreamOk, Open
<1>3. \E i : i \in Inodes
  <2>1. Cardinality(Paths) \in Nat /\ Cardinality(Objects) \in Nat
    BY FileAssumption, FS_CardinalityType
  <2>2. Cardinality({}) = 0
    BY FS_EmptySet
  <2>3. ASSUME Inodes = {} PROVE FALSE
    <3>1. Cardinality(Inodes) = 0
      BY <2>2, <2>3
    <3> QED BY ONLY <2>1, <3>1, FileAssumption
  <2> QED BY <2>3
<1>4. \E i \in Inodes : /\ \A p \in Paths : dir[p] # i
                        /\ \A o \in Objects : Open(o) => stream[o].inode # i
  BY <1>1, <1>2, <1>3, FileAssumption
<1> QED BY <1>4 DEF FreshInode

\* What a reader may find once a write of doc has begun.
Widened(i, doc) ==
  IF i.at # "read" THEN i.may
  ELSE IF Cardinality(i.may) = 1 /\ Len(latest) <= BufferSize
       THEN i.may \union {doc, Untouched} ELSE Anything

\* A reader that had a whole document is met by one write, any other by anything.
LEMMA WriteMeets ==
  ASSUME Held, NEW r \in Objects, job[r].at = "read", NEW doc \in Documents
  PROVE  \/ Widened(job[r], doc) = Anything
         \/ \E d \in Documents : /\ Widened(job[r], doc) = {d, doc, Untouched}
                                 /\ Len(d) <= BufferSize
                                 /\ Met(d, doc, job[r].buffer, content[file])
<1>1. CASE ~(Cardinality(job[r].may) = 1 /\ Len(latest) <= BufferSize)
  BY <1>1 DEF Widened
<1>2. CASE Cardinality(job[r].may) = 1 /\ Len(latest) <= BufferSize
  <2>1. Reading(job[r])
    BY DEF Held, Live, ReaderInv
  <2>2. ~MetByOne(job[r]) /\ job[r].may # Anything
    BY <1>2, Choices DEF MetByOne
  <2>3. PICK d \in Documents :
          job[r].may = {d} /\ latest = d /\ job[r].buffer \in {<<>>, d}
    BY <1>2, <2>1, <2>2 DEF Reading, Alone
  <2>4. content[file] = d
    BY <2>3, JsonAssumption DEF Held, Live, WriterInv
  <2>5. Widened(job[r], doc) = {d, doc, Untouched}
    BY <1>2, <2>3 DEF Widened
  <2> QED BY <1>2, <2>3, <2>4, <2>5 DEF Met
<1> QED BY <1>1, <1>2

\* Opening the file to write creates it when it is not there.
LEMMA OpensToWrite ==
  ASSUME Held, NEW o \in Objects, OpenOrCreateFile(o, JsonPath, FALSE)
  PROVE  /\ UNCHANGED pending
         /\ path' = [path EXCEPT ![o] = JsonPath] /\ readOnly' = [readOnly EXCEPT ![o] = FALSE]
         /\ \A p \in Paths \ {JsonPath} : dir'[p] = None
         /\ \/ UNCHANGED <<dir, content>> /\ file' = file
            \/ /\ file = None /\ file' \in Inodes
               /\ content' = [content EXCEPT ![file'] = <<>>]
         /\ \E t : stream' = [stream EXCEPT ![o] = t] /\ Fresh(t, file')
<1> USE DEF Held, Live
<1>1. PICK d \in {dir} \union
                 (IF file = None THEN {[dir EXCEPT ![JsonPath] = FreshInode]} ELSE {}) :
        /\ dir' = d
        /\ content' = IF d = dir THEN content ELSE [content EXCEPT ![FreshInode] = <<>>]
        /\ \E new \in Opened(JsonPath, FALSE, d) : stream' = [stream EXCEPT ![o] = new.stream]
  BY DEF OpenOrCreateFile, file
<1>2. /\ UNCHANGED pending
      /\ path' = [path EXCEPT ![o] = JsonPath] /\ readOnly' = [readOnly EXCEPT ![o] = FALSE]
  BY DEF OpenOrCreateFile
<1>3. /\ \A p \in Paths \ {JsonPath} : dir'[p] = None
      /\ \/ UNCHANGED <<dir, content>> /\ file' = file
         \/ /\ file = None /\ file' \in Inodes
            /\ content' = [content EXCEPT ![file'] = <<>>]
  <2>1. CASE d = dir
    BY <1>1, <2>1 DEF file, DiskInv
  <2>2. CASE file = None /\ d = [dir EXCEPT ![JsonPath] = FreshInode] /\ d # dir
    <3>1. file' = FreshInode
      BY <1>1, <2>2, JsonAssumption DEF file, HandleInv, Tables
    <3>2. \A p \in Paths \ {JsonPath} : dir'[p] = None
      BY <1>1, <2>2 DEF HandleInv, Tables, DiskInv
    <3> QED BY <1>1, <2>2, <3>1, <3>2, FreshIs
  <2> QED BY <1>1, <2>1, <2>2
<1>4. \E t : stream' = [stream EXCEPT ![o] = t] /\ Fresh(t, file')
  <2>1. PICK new \in Opened(JsonPath, FALSE, d) : stream' = [stream EXCEPT ![o] = new.stream]
    BY <1>1
  <2>2. Fresh(new.stream, d[JsonPath])
    BY OpenedIs
  <2>3. d[JsonPath] = file'
    BY <1>1 DEF file
  <2> QED BY <2>1, <2>2, <2>3
<1> QED BY <1>2, <1>3, <1>4

\* A write that begins keeps the invariant: it takes what was known from the readers.
LEMMA BeginWriteStep ==
  ASSUME Held, HandleInv', NEW o \in Objects, job[o].at = "done", NEW doc \in Documents,
         BeginWrite(o, doc)
  PROVE  Held'
<1> USE DEF Held, Live
<1>1. /\ ~Writing /\ OpenOrCreateFile(o, JsonPath, FALSE) /\ latest' = None
      /\ job' = [r \in Objects |-> IF r = o THEN NewWrite(doc)
                                   ELSE Finding(job[r], Widened(job[r], doc))]
  BY DEF BeginWrite, NewWrite, Finding, Widened
<1>2. /\ UNCHANGED pending
      /\ path' = [path EXCEPT ![o] = JsonPath] /\ readOnly' = [readOnly EXCEPT ![o] = FALSE]
      /\ \A p \in Paths \ {JsonPath} : dir'[p] = None
      /\ \/ UNCHANGED <<dir, content>> /\ file' = file
         \/ /\ file = None /\ file' \in Inodes
            /\ content' = [content EXCEPT ![file'] = <<>>]
  BY <1>1, OpensToWrite
<1>3. PICK t : stream' = [stream EXCEPT ![o] = t] /\ Fresh(t, file')
  BY <1>1, OpensToWrite
<1>4. /\ Job(job'[o]) /\ job'[o].op = "write" /\ job'[o].at = "truncate" /\ job'[o].doc = doc
  <2>1. job'[o] = Begun("write", "truncate", doc, "none", Anything)
    BY <1>1, NewWriteIs
  <2> QED BY <2>1, BegunIs
<1>5. ASSUME NEW r \in Objects, r # o
      PROVE  LET i == job[r]
                 j == job'[r]
             IN  /\ Job(j) /\ j.op = i.op /\ j.at = i.at /\ j.doc = i.doc
                 /\ j.buffer = i.buffer /\ j.data = i.data /\ j.result = i.result
                 /\ j.may = Widened(i, doc)
  <2>1. job'[r] = Finding(job[r], Widened(job[r], doc)) /\ Job(job[r])
    BY <1>1, <1>5 DEF JobType, Job
  <2> QED BY <2>1, MayFind
<1>6. job' = [x \in Objects |-> job'[x]]
  BY <1>1
<1>7. JobType'
  BY <1>4, <1>5, <1>6 DEF JobType, Job
<1>8. DiskInv'
  <2>1. /\ content' \in [Inodes -> Seq(Bytes)]
        /\ file' # None => file' \in Inodes /\ Documents # {}
    <3>1. <<>> \in Seq(Bytes)
      OBVIOUS
    <3>2. content' \in [Inodes -> Seq(Bytes)]
      BY <1>2, <3>1 DEF DiskInv
    <3> QED BY <1>2, <3>2 DEF DiskInv
  <2>2. readOnly' = [x \in Objects |-> readOnly'[x]]
    BY <1>2 DEF DiskInv
  <2> QED BY <1>2, <2>1, <2>2 DEF DiskInv
<1>9. StreamInv'
  <2>1. StreamOk(t, JsonPath, FALSE, job'[o], file')
    BY <1>3, <1>4, Reopened
  <2>2. /\ stream'[o] = t /\ path'[o] = JsonPath /\ readOnly'[o] = FALSE
        /\ \A x \in Objects : x # o => /\ stream'[x] = stream[x] /\ path'[x] = path[x]
                                       /\ readOnly'[x] = readOnly[x]
    BY <1>2, <1>3 DEF HandleInv, Tables, DiskInv
  <2>3. ASSUME NEW x \in Objects, x # o
        PROVE  StreamOk(stream[x], path[x], readOnly[x], job'[x], file')
    <3>1. StreamOk(stream[x], path[x], readOnly[x], job[x], file)
      BY DEF StreamInv
    <3>2. job'[x].at = job[x].at
      BY <1>5, <2>3
    <3>3. file' = file \/ file = None
      BY <1>2
    <3> QED BY <3>1, <3>2, <3>3 DEF StreamOk
  <2> QED BY <1>2, <2>1, <2>2, <2>3 DEF StreamInv
<1>10. \A w \in Objects : w # o => ~(job'[w].op = "write" /\ job'[w].at # "done")
  BY <1>1, <1>5 DEF Writing
<1>11. WriterInv'
  BY <1>1, <1>4, <1>7, <1>10 DEF WriterInv, JobType
<1>12. ReaderInv'
  <2> SUFFICES ASSUME NEW r \in Objects, job'[r].at = "read" PROVE Reading(job[r])'
    BY DEF ReaderInv
  <2>1. r # o /\ job[r].at = "read"
    BY <1>4, <1>5
  <2>2. Reading(job[r]) /\ job'[r].buffer = job[r].buffer /\ job'[r].data = job[r].data
        /\ job'[r].may = Widened(job[r], doc)
    BY <1>5, <2>1 DEF ReaderInv
  <2>3. file' = file /\ content' = content
    BY <1>2, <2>1 DEF StreamInv, StreamOk
  <2>4. CASE Widened(job[r], doc) = Anything
    BY <2>2, <2>4 DEF Reading
  <2>5. CASE \E d \in Documents : /\ Widened(job[r], doc) = {d, doc, Untouched}
                                  /\ Len(d) <= BufferSize
                                  /\ Met(d, doc, job[r].buffer, content[file])
    <3>1. \A w \in Objects : job'[w].at \in {"truncate", "write"} => job'[w].doc = doc
      BY <1>4, <1>7, <1>10 DEF JobType
    <3>2. MetByOne(job[r])'
      BY <2>2, <2>3, <2>5, <3>1 DEF MetByOne
    <3> QED BY <2>2, <3>2 DEF Reading
  <2> QED BY <2>1, <2>4, <2>5, WriteMeets
<1>13. \A x \in Objects : Outcome(job'[x])
  <2>1. Outcome(job'[o])
    BY <1>4 DEF Outcome
  <2>2. ASSUME NEW x \in Objects, x # o PROVE Outcome(job'[x])
    <3>1. Outcome(job[x])
      OBVIOUS
    <3>2. job'[x].at \in {"close", "done"} => job'[x].may = job[x].may
      BY <1>5, <2>2 DEF Widened
    <3> QED BY <1>5, <2>2, <3>1, <3>2 DEF Outcome
  <2> QED BY <2>1, <2>2
<1> QED BY <1>7, <1>8, <1>9, <1>11, <1>12, <1>13

-----------------------------------------------------------------------------
(* What was written is what is read.                                       *)

\* The invariant holds at the beginning
LEMMA JsonInitial == JsonInit => JsonInv
<1> SUFFICES ASSUME JsonInit PROVE JsonInv
  OBVIOUS
<1> USE DEF JsonInit
<1>1. HandleInv
  BY HandleInitial
<1>2. \A o \in Objects : job[o] = Idle
  OBVIOUS
<1>3. Job(Idle) /\ Idle.op = "none" /\ Idle.at = "done"
  BY DEF Idle, Job
<1>4. JobType
  BY <1>2, <1>3 DEF JobType, Job
<1>5. \A p \in Paths : dir[p] = None
  BY DEF Init
<1>6. file = None
  BY <1>5, JsonAssumption DEF file
<1>7. DiskInv
  BY <1>5, <1>6 DEF DiskInv, Init
<1>8. StreamInv
  BY <1>2, <1>3 DEF StreamInv, StreamOk, Init
<1>9. WriterInv /\ ReaderInv /\ \A o \in Objects : Outcome(job[o])
  BY <1>2, <1>3 DEF WriterInv, ReaderInv, Outcome
<1>10. calls = 0 /\ begun = 0
  BY DEF Init
<1> QED BY <1>1, <1>4, <1>7, <1>8, <1>9, <1>10 DEF JsonInv, Live

\* The end of the process ends all the calls, and leaves what is in the file.
LEMMA CrashStep ==
  ASSUME Held, HandleInv', Crash PROVE Held' /\ job' = [o \in Objects |-> Idle]
<1> USE DEF Held, Live
<1>1. /\ \A o \in Objects : job'[o] = Idle /\ stream'[o] = None /\ pending'[o] = None
      /\ job' = [o \in Objects |-> Idle]
      /\ UNCHANGED <<dir, content, path, readOnly, latest>> /\ file' = file
  BY DEF Crash, file
<1>2. Job(Idle) /\ Idle.op = "none" /\ Idle.at = "done"
  BY DEF Idle, Job
<1>3. JobType'
  BY <1>1, <1>2 DEF JobType, Job
<1>4. DiskInv' /\ StreamInv' /\ WriterInv' /\ ReaderInv'
  BY <1>1, <1>2 DEF DiskInv, StreamInv, StreamOk, WriterInv, ReaderInv
<1>5. \A o \in Objects : Outcome(job'[o])
  BY <1>1, <1>2 DEF Outcome
<1> QED BY <1>1, <1>3, <1>4, <1>5

\* and every step keeps it, of a call on files or of one on documents.
LEMMA JsonStep ==
  ASSUME JsonInv, [JsonNext]_jsonVars PROVE JsonInv'
<1>1. HandleInv'
  BY HandleStep DEF JsonInv
<1>2. CASE UNCHANGED jsonVars
  <2>1. UNCHANGED <<job, latest, begun, calls, dir, content, path, readOnly, stream, pending>>
        /\ file' = file
    BY <1>2 DEF jsonVars, vars, file
  <2>2. ReaderInv => ReaderInv'
    <3>1. ASSUME NEW o \in Objects PROVE Alone(job[o]) => Alone(job[o])'
      BY <2>1 DEF Alone
    <3>2. ASSUME NEW o \in Objects PROVE MetByOne(job[o]) => MetByOne(job[o])'
      BY <2>1 DEF MetByOne
    <3> QED BY <2>1, <3>1, <3>2 DEF ReaderInv, Reading
  <2>3. Live => Live'
    BY <2>1, <2>2 DEF Live, DiskInv, StreamInv, WriterInv, Outcome
  <2> QED BY <1>1, <2>1, <2>3 DEF JsonInv, JobType
<1>3. CASE begun = 0 /\ Next /\ UNCHANGED <<job, latest, begun>>
  <2>1. calls' \in Nat /\ calls' # 0
    BY <1>3 DEF Next, JsonInv
  <2> QED BY <1>1, <1>3, <2>1 DEF JsonInv, JobType
<1>4. CASE /\ calls = 0 /\ begun' = begun + 1 /\ UNCHANGED calls
           /\ \E o \in Objects :
                 /\ job[o].at = "done"
                 /\ BeginRead(o) \/ \E doc \in Documents : BeginWrite(o, doc)
  <2>1. Held
    BY <1>4 DEF JsonInv, Held
  <2>2. Held'
    BY <1>1, <1>4, <2>1, BeginReadStep, BeginWriteStep
  <2> QED BY <1>1, <1>4, <2>2 DEF JsonInv, Held
<1>5. CASE /\ UNCHANGED <<begun, calls>>
           /\ \/ Crash
              \/ \E o \in Objects : WriteTruncates(o) \/ WriteFills(o)
                                    \/ DumpThrows(o)
                                    \/ ReadsOn(o) \/ Leaves(o)
  <2>1. Idle.op = "none" /\ Idle.at = "done"
    BY DEF Idle
  <2>2. ASSUME \A o \in Objects : job[o] = Idle PROVE FALSE
    BY <1>5, <2>1, <2>2 DEF Crash, WriteTruncates, WriteFills, DumpThrows, ReadsOn, Leaves, At
  <2>3. begun # 0 /\ calls = 0 /\ Held
    BY <2>2 DEF JsonInv, Held
  <2>4. Held'
    BY <1>1, <1>5, <2>3, CrashStep, WriteTruncatesStep, WriteFillsStep, DumpThrowsStep,
       ReadsOnStep, LeavesStep
  <2> QED BY <1>1, <1>5, <2>3, <2>4 DEF JsonInv, Held
<1> QED BY <1>2, <1>3, <1>4, <1>5 DEF JsonNext

\* So it holds always.
THEOREM JsonInductive == JsonSpec => []JsonInv
<1> QED BY JsonInitial, JsonStep, PTL DEF JsonSpec

\* What write_json_file wrote whole is what read_json_file gives from then on, for any
\* documents, none of which begins another, and any size of the buffer; and a read that
\* began on a document of one buffer and is met by one write gives one of the two, or
\* nothing.
THEOREM DocumentsReadBack == JsonSpec => []ReadsWhatWasWritten
<1>1. JsonInv => ReadsWhatWasWritten
  <2> SUFFICES ASSUME JsonInv, NEW o \in Objects,
                      job[o].op = "read", job[o].at = "done", job[o].result # "io"
               PROVE  /\ job[o].result = "ok" => job[o].data \in job[o].may
                      /\ Cardinality(job[o].may) = 1 => job[o].result = "ok"
    BY DEF ReadsWhatWasWritten
  <2>1. job[o] # Idle
    BY DEF Idle
  <2>2. calls = 0 /\ Live
    BY <2>1 DEF JsonInv
  <2> QED BY <2>2 DEF Live, Outcome
<1> QED BY <1>1, JsonInductive, PTL
====
