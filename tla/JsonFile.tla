---- MODULE JsonFile ----
(***************************************************************************)
(* utils::file::read_json_file and write_json_file                         *)
(* (support/src/utils/file.cpp) over utils::file::file: writing empties    *)
(* the file and then fills it, reading takes it in buffers until one comes *)
(* back empty.  Each call uses an object of its own, and every call it     *)
(* makes on that object is a step: readers run beside a writer, and a      *)
(* crash may fall between two steps.                                       *)
(*                                                                         *)
(* A document is the bytes dump(2) gives for a value.  No proper prefix of *)
(* one, nor one with anything behind it, parses: dump(2) of an object ends *)
(* with its closing brace.                                                 *)
(***************************************************************************)
EXTENDS FileHandle

CONSTANTS
    JsonPath,    \* the file; its calls are all for this one
    Documents,   \* what parses, as strings of Bytes
    BufferSize,  \* get_read_buffer_size(); documents may be longer
    MaxJson      \* bound on the calls of a behaviour

ASSUME JsonAssumption ==
    /\ JsonPath \in Paths
    /\ Documents \subseteq Chunks /\ IsFiniteSet(Documents)
    /\ \A s, t \in Documents :
          s # t => \E i \in DOMAIN s \intersect DOMAIN t : s[i] # t[i]
    /\ BufferSize \in Nat \ {0}
    /\ None \notin Documents

VARIABLES
    job,     \* the call each object serves
    latest,  \* history: the document on file, when the last write was whole
    begun    \* calls begun

jsonVars == <<vars, job, latest, begun>>

Untouched == None
Anything  == Documents \union {Untouched}

\* op and at say where the call is; doc is what it writes; buffer and data what
\* it read and what the caller's variable holds; result is "ok", "io" for a
\* call of the file that failed, "dump" or "parse" for an exception of the JSON
\* library.  may is history: what a reader may find.
Idle == [op |-> "none", at |-> "done", doc |-> None, buffer |-> <<>>,
         data |-> Untouched, result |-> "none", may |-> Anything]

JsonInit ==
    /\ Init
    /\ job = [o \in Objects |-> Idle]
    /\ latest = None
    /\ begun = 0

At(o, op, at) == job[o].op = op /\ job[o].at = at
Writing == \E o \in Objects : job[o].op = "write" /\ job[o].at # "done"
Leaving(o, result) ==
    job' = [job EXCEPT ![o].at = "close", ![o].result = result]

-----------------------------------------------------------------------------
\* One writer at a time: nothing in the code sees to it, the callers must.  A
\* reader that began on a whole document and is met by one write may find that
\* document, the new one, or the file empty; after a second one, anything.  So it
\* may when the document it began on takes more than a buffer, and part of it is
\* what the reader goes on behind in the new one.
BeginWrite(o, doc) ==
    /\ ~Writing
    /\ OpenOrCreateFile(o, JsonPath, FALSE)
    /\ job' = [r \in Objects |->
                 IF r = o THEN [Idle EXCEPT !.op = "write", !.at = "truncate",
                                            !.doc = doc]
                 ELSE [job[r] EXCEPT !.may =
                         IF job[r].at # "read" THEN @
                         ELSE IF Cardinality(@) = 1 /\ Len(latest) <= BufferSize
                              THEN @ \union {doc, Untouched}
                         ELSE Anything]]
    /\ latest' = None

BeginRead(o) ==
    /\ OpenFile(o, JsonPath, FALSE)
    /\ job' = [job EXCEPT ![o] =
                 [Idle EXCEPT !.op = "read",
                              !.at = IF ret'.ok THEN "read" ELSE "close",
                              !.result = IF ret'.ok THEN "none" ELSE "io",
                              !.may = IF latest = None THEN Anything
                                                       ELSE {latest}]]
    /\ UNCHANGED latest

\* Mutant: the result of truncate is not looked at.
WriteTruncates_Unchecked(o) ==
    /\ At(o, "write", "truncate")
    /\ Truncate(o, 0)
    /\ job' = [job EXCEPT ![o].at = "write"]
    /\ UNCHANGED latest

\* write_json_file throws when truncate says it failed.
WriteTruncates(o) ==
    /\ At(o, "write", "truncate")
    /\ Truncate(o, 0)
    /\ IF ret'.ok THEN job' = [job EXCEPT ![o].at = "write"] ELSE Leaving(o, "io")
    /\ UNCHANGED latest

\* The result is that of write(), for which the truncate may have left no
\* stream.  Only the stream knows whether the flush lost what write() reported.
WriteFills(o) ==
    /\ At(o, "write", "write")
    /\ Write(o, job[o].doc, 0)
    /\ Leaving(o, IF ret'.ok THEN "ok" ELSE "io")
    /\ latest' = IF ret'.ok /\ ~stream'[o].err THEN job[o].doc ELSE None

\* dump(2) throws on a string that is not UTF-8, with the file already empty.
DumpThrows(o) ==
    /\ At(o, "write", "write")
    /\ Leaving(o, "dump")
    /\ UNCHANGED <<dir, content, path, readOnly, stream, pending, ret, latest>>

\* What the buffers add up to: nothing is a success that leaves data alone, a
\* document becomes data, and anything else does not parse.
Parsed(o) ==
    LET s == job[o].buffer
    IN  job' = [job EXCEPT ![o].at = "close",
                  ![o].result = IF s = <<>> \/ s \in Documents THEN "ok" ELSE "parse",
                  ![o].data = IF s \in Documents THEN s ELSE @]

Buffered(o, file) ==
    LET at  == Len(job[o].buffer)
        end == IF Len(file) < at + BufferSize THEN Len(file) ELSE at + BufferSize
    IN  job' = [job EXCEPT ![o].buffer = @ \o SubSeq(file, at + 1, end)]

\* Mutant: a read that fails ends the loop as the end of the file does.
ReadsOn_FailureIsEnd(o) ==
    LET at == Len(job[o].buffer)
    IN  /\ At(o, "read", "read")
        /\ Read(o, BufferSize, at)
        /\ LET file == content'[stream[o].inode]
           IN  IF ~ret'.ok \/ Len(file) <= at THEN Parsed(o) ELSE Buffered(o, file)
        /\ UNCHANGED latest

\* One turn of read_all's loop: a buffer more, the end, or a failure.
ReadsOn(o) ==
    LET at == Len(job[o].buffer)
    IN  /\ At(o, "read", "read")
        /\ Read(o, BufferSize, at)
        /\ LET file == content'[stream[o].inode]
           IN  IF ~ret'.ok THEN Leaving(o, "io")
               ELSE IF Len(file) <= at THEN Parsed(o) ELSE Buffered(o, file)
        /\ UNCHANGED latest

\* The object goes out of scope, which closes it, and the call returns.
Leaves(o) ==
    /\ job[o].at = "close"
    /\ IF Open(o) THEN Close(o)
       ELSE UNCHANGED <<dir, content, path, readOnly, stream, pending, ret>>
    /\ job' = [job EXCEPT ![o].at = "done"]
    /\ UNCHANGED latest

\* The process ends anywhere: what its streams held goes with it.
Crash ==
    /\ \E o \in Objects : job[o].at # "done"
    /\ stream' = [o \in Objects |-> None]
    /\ pending' = [o \in Objects |-> None]
    /\ job' = [o \in Objects |-> Idle]
    /\ UNCHANGED <<dir, content, path, readOnly, ret, latest>>

\* A behaviour makes plain calls on its objects or calls of this module.
JsonNext ==
    \/ /\ begun = 0
       /\ Next
       /\ UNCHANGED <<job, latest, begun>>
    \/ /\ calls = 0 /\ begun < MaxJson
       /\ begun' = begun + 1
       /\ UNCHANGED calls
       /\ \E o \in Objects :
             /\ job[o].at = "done"
             /\ BeginRead(o) \/ \E doc \in Documents : BeginWrite(o, doc)
    \/ /\ UNCHANGED <<begun, calls>>
       /\ \/ Crash
          \/ \E o \in Objects : WriteTruncates(o) \/ WriteFills(o)
                                \/ DumpThrows(o)
                                \/ ReadsOn(o) \/ Leaves(o)

JsonSpec == JsonInit /\ [][JsonNext]_jsonVars

-----------------------------------------------------------------------------
\* What write_json_file wrote whole is what read_json_file gives from then on,
\* in however many buffers it is read, and whatever was cut short, by a fault or
\* a crash, before it and whichever documents were longer.  A read that one write
\* meets gives the old document, the new one, or success with nothing, if the old
\* one fits in a buffer.  A read may fail for the file's sake.
ReadsWhatWasWritten ==
    \A o \in Objects :
        job[o].op = "read" /\ job[o].at = "done" /\ job[o].result # "io"
        => /\ job[o].result = "ok" => job[o].data \in job[o].may
           /\ Cardinality(job[o].may) = 1 => job[o].result = "ok"
====
