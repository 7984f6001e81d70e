---------------------------- MODULE ChunkLayout -----------------------------
(***************************************************************************)
(* How utils::encryption lays out an encrypted file: an optional key       *)
(* derivation header, then the source in chunks of data_chunk_size bytes,  *)
(* each encrypted on its own behind a nonce and a tag (header_size bytes). *)
(* Bytes are abstracted to where they come from.                           *)
(***************************************************************************)
EXTENDS Integers, Sequences

CONSTANTS DataChunk, \* data_chunk_size_: 8 MiB
          Overhead   \* encryption_header_size: nonce and tag, 40 bytes

ASSUME LayoutAssumption == DataChunk \in Nat \ {0} /\ Overhead \in Nat \ {0}

EncryptedChunk == DataChunk + Overhead

DivideWithCeiling(n, d) == (n \div d) + (IF n % d # 0 THEN 1 ELSE 0)

TotalChunks(size) == DivideWithCeiling(size, DataChunk)

EncryptedSize(size, kdf) == size + TotalChunks(size) * Overhead + kdf

DecryptedSize(total, kdf) ==
  (total - kdf) - DivideWithCeiling(total - kdf, EncryptedChunk) * Overhead

ReadSize_NotPartly(total, want, offset) ==
  IF offset + want > total THEN 0 ELSE want

\* utils::calculate_read_size: what can be read of `want` bytes at `offset`.
ReadSize(total, want, offset) ==
  IF offset + want > total THEN IF offset < total THEN total - offset ELSE 0
                           ELSE want

\* The plaintext of chunk c of a source of this size, and how it is encrypted.
PlainLength(size, c) ==
  IF c = TotalChunks(size) - 1 THEN size - c * DataChunk ELSE DataChunk

Sealed(size, c) == [i \in 1 .. PlainLength(size, c) + Overhead |-> <<"sealed", c, i - 1>>]

\* The byte at position p of the encrypted file.
Cipher(kdf, p) ==
  IF p < kdf THEN <<"kdf", 0, p>>
             ELSE <<"sealed", (p - kdf) \div EncryptedChunk,
                              (p - kdf) % EncryptedChunk>>
=============================================================================
