------------------------------ MODULE EncFile -------------------------------
(***************************************************************************)
(* utils::file::enc_file: a file kept encrypted in another one.  Reading   *)
(* is read_encrypted_range; write() only ever truncates and then fails,    *)
(* and truncate() cuts the last chunk and then tries to write() it anew.   *)
(*                                                                         *)
(* Truncations and writes are one action each; the file underneath may     *)
(* refuse to be read or truncated.  A read goes on chunk by chunk while    *)
(* other objects on the same file, or other processes, truncate it.  Files *)
(* with a key derivation header, which enc_file does not know, are read by *)
(* range only.                                                             *)
(***************************************************************************)
EXTENDS EncryptedRange

CONSTANTS KdfSize,   \* kdf_config::size()
          FileSizes, \* the sizes of the source the file was made from
          MaxOffset, \* bound: the ends of a range
          MaxOps     \* bound: truncations and writes

ASSUME EncFileAssumption ==
  /\ KdfSize \in Nat /\ FileSizes \subseteq Nat
  /\ MaxOffset \in Nat /\ MaxOps \in Nat

VARIABLES ok,     \* what the last truncation returned
          cut,    \* history: the file was cut since the read began
          ops

rangeVars == <<total, begin, end, pc, locals, data, fetched>>
vars      == <<file, rangeVars, ok, cut, ops>>

\* size(): by the length of the encrypted file alone.
Size(b) == DecryptedSize(Len(b), kdf)

Byte(p) ==
  LET c == Cipher(kdf, p)
  IN  IF c[1] = "sealed" /\ c[2] \in damaged THEN <<"damaged", c[2], c[3]>> ELSE c

Intact == [p \in 1 .. EncryptedSize(source, kdf) |-> Byte(p - 1)]

\* The encrypted chunk that the read() of truncate fetches, and whether it
\* decrypts.
ChunkAt(b, c) ==
  LET first == kdf + c * EncryptedChunk + 1
      rest == Len(b) - first + 1
  IN SubSeq(b, first, first + (IF rest < EncryptedChunk THEN rest ELSE EncryptedChunk) - 1)

Readable(b, c) == ChunkAt(b, c) = Sealed(source, c)

\* The bytes of the source that read() can still deliver.
ReadableBytes(b) == {p \in 0 .. Size(b) - 1 : Readable(b, p \div DataChunk)}

Init ==
  /\ source \in FileSizes /\ kdf \in {0, KdfSize}
  /\ damaged \in {{}} \cup {{c} : c \in 0 .. TotalChunks(source) - 1}
  /\ bytes = Intact
  /\ RangeInit
  /\ ok = TRUE /\ cut = FALSE /\ ops = 0

-----------------------------------------------------------------------------

\* The length of the encrypted file for a source of n bytes.
RealSize(n) ==
  (n \div DataChunk) * EncryptedChunk
    + (IF n % DataChunk > 0 THEN (n % DataChunk) + Overhead ELSE 0)

CutTo(b, n) == SubSeq(b, 1, n)

CutInside_OneChunkMore(b, n) == CutTo(b, RealSize(n) - EncryptedChunk)

\* The cut inside a chunk, which leaves it undecipherable.
CutInside(b, n) == CutTo(b, RealSize(n))

\* What the write() of the shortened chunk returns.
Rewritten_Assumed == TRUE

Rewritten == FALSE

Unchanged(b) == [bytes |-> b, ok |-> FALSE]

\* What truncate(n) may do.  A cut inside a chunk has to read that chunk, cuts
\* the file, and then fails with write().
Truncated(b, n) ==
  CASE n = 0                              -> {[bytes |-> <<>>, ok |-> TRUE], Unchanged(b)}
    [] n > 0 /\ n = Size(b)               -> {[bytes |-> b, ok |-> TRUE]}
    [] n > 0 /\ n > Size(b)               -> {Unchanged(b)}
    [] n > 0 /\ n < Size(b) /\ n % DataChunk = 0 ->
         {[bytes |-> CutTo(b, RealSize(n)), ok |-> TRUE], Unchanged(b)}
    [] OTHER ->
         {Unchanged(b)} \cup
           IF Readable(b, n \div DataChunk)
           THEN {[bytes |-> CutInside(b, n), ok |-> Rewritten]} ELSE {}

Truncate(n) ==
  /\ kdf = 0 /\ ops < MaxOps /\ ops' = ops + 1
  /\ \E r \in Truncated(bytes, n) : bytes' = r.bytes /\ ok' = r.ok
  /\ cut' = (cut \/ bytes' # bytes)
  /\ UNCHANGED <<source, kdf, damaged, rangeVars>>

\* A write that ends behind the end of the file truncates it - to the number
\* of bytes by which it does, not to where it ends.
Write(offset, n) ==
  /\ kdf = 0 /\ ops < MaxOps /\ ops' = ops + 1
  /\ IF offset + n > Size(bytes)
     THEN \E r \in Truncated(bytes, offset + n - Size(bytes)) : bytes' = r.bytes
     ELSE bytes' = bytes
  /\ cut' = (cut \/ bytes' # bytes)
  /\ UNCHANGED <<source, kdf, damaged, rangeVars, ok>>

\* read(): the size is taken once, before the first chunk.
Read(n, offset) ==
  LET want == ReadSize(Size(bytes), n, offset)
  IN  /\ kdf = 0 /\ want > 0
      /\ CallRange(Size(bytes), offset, offset + want - 1)
      /\ cut' = FALSE
      /\ UNCHANGED <<file, ok, ops>>

\* A caller of read_encrypted_range that knows the size asks for any range.
ReadRange(b, e) ==
  /\ kdf # 0
  /\ CallRange(Size(bytes), b, e)
  /\ cut' = FALSE
  /\ UNCHANGED <<file, ok, ops>>

MaxFileSize == CHOOSE n \in FileSizes : \A m \in FileSizes : m <= n

Next ==
  \/ \E n \in 0 .. MaxFileSize + 1 : Truncate(n)
  \/ \E offset \in 0 .. MaxFileSize, n \in 1 .. 2 : Write(offset, n)
  \/ \E offset \in 0 .. MaxOffset, n \in 1 .. MaxOffset : Read(n, offset)
  \/ \E b, e \in 0 .. MaxOffset : ReadRange(b, e)
  \/ RangeStep /\ UNCHANGED <<ok, cut, ops>>

Spec == Init /\ [][Next]_vars

-----------------------------------------------------------------------------
(* Properties.                                                             *)

\* The chunks that are asked for are the encrypted chunks, to the byte: one that
\* is whole in the file never fails to decrypt, a short last one included,
\* unless the file has been cut since the read began.
WholeChunkDecrypts == pc = "failed" => ~fetched \/ cut \/ ~Readable(bytes, chunk)

\* A truncation that reports success has made the file that long and has cost
\* none of the bytes before the cut.
TruncateIsExact ==
  [][\A n \in 0 .. MaxFileSize + 1 : Truncate(n) /\ ok' =>
       /\ Size(bytes') = n
       /\ ReadableBytes(bytes') = ReadableBytes(bytes) \cap 0 .. n - 1]_vars

\* One that fails costs the chunk of the cut and what follows, nothing before.
FailedTruncateSparesTheRest ==
  [][\A n \in 0 .. MaxFileSize + 1 : Truncate(n) /\ ~ok' =>
       \A p \in ReadableBytes(bytes) :
         p \div DataChunk < n \div DataChunk => p \in ReadableBytes(bytes')]_vars
=============================================================================
