--------------------------- MODULE EncryptedRange ---------------------------
(***************************************************************************)
(* utils::encryption::read_encrypted_range: random access to an encrypted  *)
(* file.  For every chunk the range touches, reader_func fetches the       *)
(* encrypted chunk, which is decrypted and cut to what is asked for.       *)
(*                                                                         *)
(* reader_func is the caller's: it fetches what it is asked for, or fails. *)
(* The file is not locked: what it holds may change between two fetches,   *)
(* and a chunk of it may be damaged.  Who calls, and what else happens to  *)
(* the file, is up to the module that extends this one (EncFile).          *)
(***************************************************************************)
EXTENDS ChunkLayout

VARIABLES source,       \* the size of the source the file was made from
          kdf,          \* file_header_size
          damaged,      \* the chunks damaged in the encrypted file
          bytes,        \* the encrypted file
          total,        \* total_size: the size of the source, as the caller knows it
          begin, end,   \* the range
          pc,
          chunk, remain, sourceOffset,  \* locals of the loop
          data,         \* the plaintext delivered, as offsets in the source
          fetched       \* reader_func has answered so far

file   == <<source, kdf, damaged, bytes>>
locals == <<chunk, remain, sourceOffset>>

RangeInit ==
  /\ total = 0 /\ begin = 0 /\ end = 0
  /\ pc = "idle" /\ chunk = 0 /\ remain = 0 /\ sourceOffset = 0
  /\ data = <<>> /\ fetched = TRUE

\* read_encrypted_range is called for the bytes from b to e of a source of n.
CallRange(n, b, e) ==
  /\ pc = "idle"
  /\ total' = n /\ begin' = b /\ end' = e
  /\ pc' = "start"
  /\ UNCHANGED <<locals, data, fetched>>

\* Nothing to read: an empty source, or a range behind its end or reversed.
NothingToRead ==
  /\ pc = "start"
  /\ total = 0 \/ begin >= total \/ end < begin
  /\ pc' = "done"
  /\ UNCHANGED <<file, total, begin, end, locals, data, fetched>>

\* The end is moved back to the last byte; the loop begins in begin's chunk.
Clamp == end' = IF end > total - 1 THEN total - 1 ELSE end

RangeLength_OffByOne(b, e) == e - b

RangeLength(b, e) == e - b + 1

Start ==
  /\ pc = "start"
  /\ total > 0 /\ begin < total /\ begin <= end
  /\ Clamp
  /\ chunk' = begin \div DataChunk
  /\ remain' = RangeLength(begin, end')
  /\ sourceOffset' = begin % DataChunk
  /\ pc' = "loop"
  /\ UNCHANGED <<file, total, begin, data, fetched>>

-----------------------------------------------------------------------------

\* Where the encrypted chunk begins and ends.
StartOffset_HeaderSkipped == chunk * EncryptedChunk

StartOffset == chunk * EncryptedChunk + kdf

EndOffset ==
  LET rest == StartOffset + (total - chunk * DataChunk) + Overhead - 1
      full == StartOffset + EncryptedChunk - 1
  IN IF rest < full THEN rest ELSE full

\* What is not in the file (any more) stays as the buffer was made.
Fetched ==
  [i \in 1 .. EndOffset - StartOffset + 1 |->
     IF StartOffset + i <= Len(bytes) THEN bytes[StartOffset + i] ELSE <<"zero", 0, 0>>]

\* decrypt_data accepts one whole encrypted chunk, unaltered, nothing else.
Decrypts == Fetched = Sealed(source, chunk)

\* The part of the chunk that belongs to the range.
Part ==
  LET rest == DataChunk - sourceOffset
  IN IF remain < rest THEN remain ELSE rest

NextOffset_Kept == UNCHANGED sourceOffset

NextOffset == sourceOffset' = 0

ReadChunk ==
  /\ pc = "loop" /\ chunk <= end \div DataChunk
  /\ Decrypts
  /\ data' = data \o [i \in 1 .. Part |-> chunk * DataChunk + sourceOffset + i - 1]
  /\ remain' = remain - Part
  /\ NextOffset
  /\ chunk' = chunk + 1
  /\ UNCHANGED <<file, total, begin, end, pc, fetched>>

FetchFails ==
  /\ pc = "loop" /\ chunk <= end \div DataChunk
  /\ fetched' = FALSE
  /\ pc' = "failed"
  /\ UNCHANGED <<file, total, begin, end, locals, data>>

DecryptFails ==
  /\ pc = "loop" /\ chunk <= end \div DataChunk
  /\ ~Decrypts
  /\ pc' = "failed"
  /\ UNCHANGED <<file, total, begin, end, locals, data, fetched>>

Done ==
  /\ pc = "loop" /\ chunk > end \div DataChunk
  /\ pc' = "done"
  /\ UNCHANGED <<file, total, begin, end, locals, data, fetched>>

RangeStep == NothingToRead \/ Start \/ ReadChunk \/ FetchFails \/ DecryptFails \/ Done

-----------------------------------------------------------------------------
(* Properties.                                                             *)

\* What has been delivered at any time, also by a call that fails later and
\* while the file is cut under it, is a beginning of the range, and never more
\* than fits the caller's buffer.
DeliversARunOfTheRange ==
  /\ \A i \in 1 .. Len(data) : data[i] = begin + i - 1 /\ data[i] < source
  /\ Len(data) > 0 => begin + Len(data) - 1 <= end

\* A range that has been read to its end is there whole.
DeliversTheWholeRange ==
  pc = "done" =>
    IF total = 0 \/ begin >= total \/ end < begin
    THEN data = <<>>
    ELSE Len(data) = (IF end < total THEN end + 1 ELSE total) - begin

=============================================================================
