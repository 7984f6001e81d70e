-------------------------- MODULE EncryptingReader --------------------------
(***************************************************************************)
(* utils::encryption::encrypting_reader: encrypts a source file chunk by   *)
(* chunk while somebody (libcurl, or a stream) reads it, from any offset   *)
(* and in pieces of any size.                                              *)
(*                                                                         *)
(* reader_function is one action up to its loop, one for each turn of the  *)
(* loop and one for its end; stop_requested_cb_ may turn true in between.  *)
(* The source does not change while it is read; a read of it may fail.     *)
(***************************************************************************)
EXTENDS ChunkLayout

CONSTANTS KdfSize,     \* kdf_config::size()
          FileSizes,   \* the sizes of the source
          Requests,    \* the sizes a caller asks for
          MaxCalls,    \* bound: calls of reader_function
          MaxFailures  \* bound: failing reads of the source

ASSUME ReaderAssumption ==
  /\ KdfSize \in Nat \ {0} /\ FileSizes \subseteq Nat
  /\ Requests \subseteq Nat \ {0}
  /\ MaxCalls \in Nat /\ MaxFailures \in Nat

VARIABLES
  fileSize,    \* the size of source_file_
  kdf,         \* the size of kdf_headers_->first, 0 without one
  readOffset,  \* read_offset_
  cache,       \* chunk_buffers_: chunk -> what its buffer holds
  stopped,     \* what stop_requested_cb_ says
  pc, want, chunk, chunkOffset, remain, ret,   \* locals of reader_function
  dest,        \* what it has copied to its buffer
  result,      \* what the last call returned
  calls, failures,
  from,        \* history: read_offset_ when the call began
  failed       \* history: the chunks a read of the source failed for

call == <<pc, want, chunk, chunkOffset, remain, ret, dest, result, from>>
vars == <<fileSize, kdf, readOffset, cache, stopped, call, calls, failures,
          failed>>

Total == EncryptedSize(fileSize, kdf)
Chunks == 0 .. TotalChunks(fileSize) - 1
Abort == -1 \* CURL_READFUNC_ABORT
Error == -2 \* error_return_, told apart from 0 bytes

Init ==
  /\ fileSize \in FileSizes /\ kdf \in {0, KdfSize}
  /\ readOffset = 0 /\ cache = <<>> /\ stopped = FALSE
  /\ pc = "idle" /\ want = 0 /\ chunk = 0 /\ chunkOffset = 0 /\ remain = 0
  /\ ret = FALSE /\ dest = <<>> /\ result = 0
  /\ calls = 0 /\ failures = 0 /\ from = 0 /\ failed = {}

-----------------------------------------------------------------------------

\* What is to be read of the key derivation header.
HeaderPart(n) == IF readOffset < kdf THEN ReadSize(kdf, n, readOffset) ELSE 0

HeaderBytes(n) == [i \in 1 .. n |-> <<"kdf", 0, readOffset + i - 1>>]

\* Where the data to read begins, the header left out of the count.
DataOffset == IF readOffset < kdf THEN 0 ELSE readOffset - kdf

NewCall(n) ==
  /\ pc = "idle" /\ calls < MaxCalls
  /\ calls' = calls + 1
  /\ from' = readOffset
  /\ want' = n
  /\ dest' = HeaderBytes(HeaderPart(n))
  /\ readOffset' = readOffset + HeaderPart(n)
  /\ UNCHANGED <<fileSize, kdf, cache, stopped, failures, failed>>

\* The request ends in the header: it is served without a look at the stop.
ReadHeader(n) ==
  /\ HeaderPart(n) = n
  /\ NewCall(n)
  /\ result' = n
  /\ UNCHANGED <<pc, chunk, chunkOffset, remain, ret>>

\* Otherwise the loop starts at the chunk the offset lies in.
Start(n) ==
  /\ HeaderPart(n) < n
  /\ NewCall(n)
  /\ pc' = "loop"
  /\ chunk' = DataOffset \div EncryptedChunk
  /\ chunkOffset' = DataOffset % EncryptedChunk
  /\ remain' = ReadSize(Total - kdf, n - HeaderPart(n), DataOffset)
  /\ ret' = (DataOffset < Total - kdf)
  /\ UNCHANGED result

-----------------------------------------------------------------------------

\* The last chunk is as short as the source leaves it: last_data_chunk_size_.
LastDataChunkSize ==
  CASE fileSize <= DataChunk -> fileSize
    [] fileSize > DataChunk /\ fileSize % DataChunk = 0 -> DataChunk
    [] OTHER -> fileSize % DataChunk

BufferSize(c) ==
  Overhead + (IF c = TotalChunks(fileSize) - 1 THEN LastDataChunkSize ELSE DataChunk)

\* The bytes first .. first + n - 1 of the buffer of a chunk.
Bytes(c, content, first, n) ==
  [i \in 1 .. n |-> <<content, c, first + i - 1>>]

\* A chunk is read and encrypted into a new buffer; when the read fails the
\* buffer stays, as it was allocated.
Fill ==
  /\ chunk \notin DOMAIN cache
  /\ \/ /\ cache' = [c \in DOMAIN cache \cup {chunk} |->
                       IF c = chunk THEN "sealed" ELSE cache[c]]
        /\ UNCHANGED <<ret, failures, failed>>
     \/ /\ failures < MaxFailures
        /\ failures' = failures + 1
        /\ failed' = failed \cup {chunk}
        /\ ret' = FALSE
        /\ cache' = [c \in DOMAIN cache \cup {chunk} |->
                       IF c = chunk THEN "zeroed" ELSE cache[c]]

\* A chunk that is there already: the one before it is given up.
Reuse ==
  /\ chunk \in DOMAIN cache
  /\ cache' = [c \in DOMAIN cache \ {chunk - 1} |-> cache[c]]
  /\ UNCHANGED <<ret, failures, failed>>

\* The bytes are copied, also when the read has failed.
CopyOut ==
  LET size == BufferSize(chunk) - chunkOffset
      n == IF size < remain THEN size ELSE remain
  IN /\ dest' = dest \o Bytes(chunk, cache'[chunk], chunkOffset, n)
     /\ remain' = remain - n
     /\ readOffset' = readOffset + n

\* Every turn but the first begins at the start of its chunk.
NextChunk_OffsetKept == chunk' = chunk + 1 /\ UNCHANGED chunkOffset

NextChunk == chunk' = chunk + 1 /\ chunkOffset' = 0

Turn ==
  /\ pc = "loop"
  /\ ~stopped /\ ret /\ remain # 0
  /\ Fill \/ Reuse
  /\ CopyOut
  /\ NextChunk
  /\ UNCHANGED <<fileSize, kdf, stopped, pc, want, result, calls, from>>

Finish ==
  /\ pc = "loop"
  /\ stopped \/ ~ret \/ remain = 0
  /\ pc' = "idle"
  /\ result' = IF stopped THEN Abort ELSE IF ret THEN Len(dest) ELSE Error
  /\ UNCHANGED <<fileSize, kdf, readOffset, cache, stopped, want, chunk,
                 chunkOffset, remain, ret, dest, calls, failures, from, failed>>

-----------------------------------------------------------------------------

\* set_read_position, between two calls.
SetReadPosition(p) ==
  /\ pc = "idle" /\ calls < MaxCalls
  /\ readOffset' = p
  /\ from' = p
  /\ dest' = <<>>
  /\ UNCHANGED <<fileSize, kdf, cache, stopped, pc, want, chunk, chunkOffset,
                 remain, ret, result, calls, failures, failed>>

Stop ==
  /\ ~stopped
  /\ stopped' = TRUE
  /\ UNCHANGED <<fileSize, kdf, readOffset, cache, call, calls, failures, failed>>

Next ==
  \/ \E n \in Requests : ReadHeader(n) \/ Start(n)
  \/ Turn
  \/ Finish
  \/ \E p \in 0 .. Total : SetReadPosition(p)
  \/ Stop

Spec == Init /\ [][Next]_vars

-----------------------------------------------------------------------------
(* Properties.                                                             *)

\* Every byte handed out is the byte of the encrypted file at its offset,
\* whatever the reads and seeks before, unless a read of its chunk has failed.
DeliversTheCipher ==
  \A i \in 1 .. Len(dest) :
    \/ dest[i] = Cipher(kdf, from + i - 1)
    \/ dest[i][1] = "zeroed" /\ dest[i][2] \in failed

\* A read that is neither stopped nor fails returns all that was asked for or
\* all that is left, never less.  (Only an empty source does not: its header,
\* asked for with more, is answered by error_return_.)
ReadsAllThatIsLeft ==
  [][(Finish /\ ~stopped /\ from < Total /\ failed = {} /\ fileSize > 0)
       => result' = IF from + want > Total THEN Total - from ELSE want]_vars

\* A read that reports success has delivered nothing but the encrypted file.
SuccessIsCipher ==
  (pc = "idle" /\ result >= 0) =>
    \A i \in 1 .. Len(dest) : dest[i] = Cipher(kdf, from + i - 1)
=============================================================================
