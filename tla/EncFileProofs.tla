--------------------------- MODULE EncFileProofs ----------------------------
(***************************************************************************)
(* Proofs about EncFile and the EncryptedRange in it, for chunks, headers, *)
(* files and ranges of any size: a read delivers a beginning of the range  *)
(* that was asked for, and the range when it comes to its end; no chunk    *)
(* that is whole fails it; and what a truncation leaves of the file.       *)
(***************************************************************************)
EXTENDS EncFile, TLAPS

-----------------------------------------------------------------------------
(* Division.                                                               *)

\* Quotient and remainder.
LEMMA Divided ==
  ASSUME NEW n \in Int, NEW d \in Nat \ {0}
  PROVE  /\ n \div d \in Int /\ n % d \in 0 .. d - 1
         /\ n = d * (n \div d) + (n % d)
         /\ n >= 0 => n \div d >= 0
OBVIOUS

\* A multiple of d is at least d before any later one.
LEMMA NextMultiple ==
  ASSUME NEW d \in Nat \ {0}, NEW q \in Int, NEW p \in Int, q < p
  PROVE  d * q + d <= d * p
<1> DEFINE k == p - q - 1
<1>1. k \in Nat /\ p = q + 1 + k
  OBVIOUS
<1> HIDE DEF k
<1>2. d * k >= 0 /\ d * p = d * q + d + d * k
  BY <1>1
<1> QED BY <1>1, <1>2

\* A chunk is behind the one with the last byte iff it begins behind that byte.
LEMMA ChunkBehind ==
  ASSUME NEW d \in Nat \ {0}, NEW c \in Int, NEW n \in Int
  PROVE  /\ c > n \div d => d * c > n
         /\ c <= n \div d => d * c <= n
<1>1. /\ n \div d \in Int /\ n % d \in 0 .. d - 1
      /\ n = d * (n \div d) + (n % d)
  BY Divided
<1> DEFINE q == n \div d
<1>2. c > q => d * q + d <= d * c
  BY <1>1, NextMultiple
<1>3. c < q => d * c + d <= d * q
  BY <1>1, NextMultiple
<1> QED BY <1>1, <1>2, <1>3

\* divide_with_ceiling: the smallest multiple that is not below n.
LEMMA CeilingIs ==
  ASSUME NEW n \in Int, NEW d \in Nat \ {0}
  PROVE  /\ DivideWithCeiling(n, d) \in Int
         /\ n <= d * DivideWithCeiling(n, d)
         /\ d * DivideWithCeiling(n, d) < n + d
<1>1. /\ n \div d \in Int /\ n % d \in 0 .. d - 1
      /\ n = d * (n \div d) + (n % d)
  BY Divided
<1> DEFINE q == n \div d
           r == n % d
<1> HIDE DEF q, r
<1>2. d * (q + 1) = d * q + d /\ d * (q + 0) = d * q
  BY <1>1 DEF q
<1> QED BY <1>1, <1>2 DEF DivideWithCeiling, q, r

-----------------------------------------------------------------------------
(* The layout.                                                             *)

\* The assumptions, in the form the arithmetic uses.
LEMMA Constants ==
  /\ DataChunk \in Nat \ {0} /\ Overhead \in Nat \ {0}
  /\ EncryptedChunk \in Nat \ {0} /\ EncryptedChunk = DataChunk + Overhead
  /\ KdfSize \in Nat /\ FileSizes \subseteq Nat
BY LayoutAssumption, EncFileAssumption DEF EncryptedChunk

\* A cut that shortens the file for its reader is in the file.
LEMMA CutIsInside ==
  ASSUME NEW b, Len(b) \in Nat, kdf = 0, NEW n \in Nat, n < Size(b)
  PROVE  RealSize(n) \in 0 .. Len(b)
<1> USE Constants
<1> DEFINE L == Len(b)
           t == DivideWithCeiling(L, EncryptedChunk)
           q == n \div DataChunk
           r == n % DataChunk
<1>1. /\ q \in Int /\ r \in 0 .. DataChunk - 1 /\ n = DataChunk * q + r
  BY Divided
<1>2. t \in Int /\ L <= EncryptedChunk * t /\ EncryptedChunk * t < L + EncryptedChunk
  BY CeilingIs
<1>3. n < L - t * Overhead
  BY DEF Size, DecryptedSize
<1>4. RealSize(n) = q * EncryptedChunk + (IF r > 0 THEN r + Overhead ELSE 0)
  BY DEF RealSize
<1>5. L \in Nat
  OBVIOUS
<1> HIDE DEF q, r, t, L
<1>6. q >= 0
  <2>1. CASE q < 0
    <3>1. DataChunk * q + DataChunk <= DataChunk * 0
      BY <1>1, <2>1, NextMultiple
    <3> QED BY <1>1, <3>1
  <2> QED BY <1>1, <2>1
<1>7. q < t
  <2>1. CASE t <= q
    <3>1. DataChunk * t <= DataChunk * q
      <4>1. t < q => DataChunk * t + DataChunk <= DataChunk * q
        BY <1>1, <1>2, NextMultiple
      <4> QED BY <4>1, <2>1, <1>1, <1>2
    <3>2. EncryptedChunk * t = DataChunk * t + t * Overhead
      BY <1>2
    <3> QED BY <1>1, <1>2, <1>3, <1>5, <3>1, <3>2
  <2> QED BY <1>1, <1>2, <2>1
<1>8. q * EncryptedChunk = DataChunk * q + q * Overhead /\ q * EncryptedChunk \in Nat
  BY <1>1, <1>6
<1>9. Overhead * q + Overhead <= t * Overhead
  BY <1>1, <1>2, <1>7, NextMultiple
<1> QED BY <1>1, <1>3, <1>4, <1>5, <1>8, <1>9, <1>2 DEF L

-----------------------------------------------------------------------------
(* The invariant.                                                          *)

\* The file is the encrypted one, as far as it has not been cut off.
FileInv ==
  /\ source \in Nat /\ kdf \in Nat
  /\ \E n \in 0 .. EncryptedSize(source, kdf) : bytes = [p \in 1 .. n |-> Byte(p - 1)]

\* Before the loop there is no data, and in it as much as has been passed.
BeforeInv == pc \in {"idle", "start"} => data = <<>>

LoopInv ==
  pc = "loop" =>
    /\ chunk \in Nat /\ remain \in Nat /\ sourceOffset \in 0 .. DataChunk - 1
    /\ total > 0 /\ begin < total /\ begin <= end /\ end < total
    /\ begin + Len(data) + remain = end + 1
    /\ remain # 0 => DataChunk * chunk + sourceOffset = begin + Len(data)
    /\ remain = 0 => end < DataChunk * chunk

RangeInv ==
  /\ total \in Int /\ begin \in Nat /\ end \in Int
  /\ \E n \in Nat : data = [i \in 1 .. n |-> begin + i - 1]
  /\ Len(data) > 0 => begin + Len(data) <= source /\ begin + Len(data) - 1 <= end
  /\ BeforeInv /\ LoopInv /\ DeliversTheWholeRange

EncFileInv == FileInv /\ RangeInv

\* The size an enc_file computes is a number.
LEMMA SizeIsInt == ASSUME kdf \in Nat, NEW b, Len(b) \in Nat PROVE Size(b) \in Int
<1>1. DivideWithCeiling(Len(b) - kdf, EncryptedChunk) \in Int
  BY Constants, CeilingIs
<1> QED BY <1>1, Constants DEF Size, DecryptedSize

\* And so is that of the encrypted form.
LEMMA EncryptedSizeIsNat == ASSUME source \in Nat, kdf \in Nat
  PROVE EncryptedSize(source, kdf) \in Nat
<1> DEFINE t == DivideWithCeiling(source, DataChunk)
<1>1. t \in Int /\ source <= DataChunk * t
  BY Constants, CeilingIs
<1> HIDE DEF t
<1>2. t >= 0
  <2>1. CASE t < 0
    <3>1. DataChunk * t + DataChunk <= DataChunk * 0
      BY <1>1, <2>1, Constants, NextMultiple
    <3> QED BY <1>1, <3>1, Constants
  <2> QED BY <1>1, <2>1
<1>3. t * Overhead \in Nat
  BY <1>1, <1>2, Constants
<1> QED BY <1>3 DEF EncryptedSize, TotalChunks, t

\* At the start nothing has been read or cut, and at most a chunk is damaged.
LEMMA Initially == Init => EncFileInv
<1> SUFFICES ASSUME Init PROVE EncFileInv
  OBVIOUS
<1> USE DEF Init, RangeInit
<1>1. source \in Nat /\ kdf \in Nat
  BY Constants
<1>2. FileInv
  BY <1>1, EncryptedSizeIsNat DEF FileInv, Intact
<1>3. data = [i \in 1 .. 0 |-> begin + i - 1]
  OBVIOUS
<1>4. RangeInv
  BY <1>3 DEF RangeInv, BeforeInv, LoopInv, DeliversTheWholeRange
<1> QED BY <1>2, <1>4 DEF EncFileInv

-----------------------------------------------------------------------------
(* What happens to the file.                                               *)

\* A truncation empties the file, leaves it, or cuts it.
LEMMA TruncatedIs ==
  ASSUME NEW b, NEW n \in Nat, Size(b) \in Int, NEW r \in Truncated(b, n)
  PROVE  \/ r.bytes = <<>> \/ r.bytes = b
         \/ 0 < n /\ n < Size(b) /\ r.bytes = CutTo(b, RealSize(n))
<1>1. CASE n = 0
  BY <1>1 DEF Truncated, Unchanged
<1>2. CASE n > 0 /\ n = Size(b)
  BY <1>2 DEF Truncated
<1>3. CASE n > 0 /\ n > Size(b)
  BY <1>3 DEF Truncated, Unchanged
<1>4. CASE n > 0 /\ n < Size(b) /\ n % DataChunk = 0
  BY <1>4 DEF Truncated, Unchanged
<1>5. CASE n > 0 /\ n < Size(b) /\ n % DataChunk # 0
  BY <1>5 DEF Truncated, Unchanged, CutInside
<1> QED BY <1>1, <1>2, <1>3, <1>4, <1>5

\* No truncation makes the file anything but a beginning of what it was.
LEMMA TruncatedFile ==
  ASSUME FileInv, kdf = 0, NEW n \in Nat, NEW r \in Truncated(bytes, n),
         bytes' = r.bytes \/ bytes' = bytes, UNCHANGED <<source, kdf, damaged>>
  PROVE  FileInv'
<1>1. PICK m \in 0 .. EncryptedSize(source, kdf) : bytes = [p \in 1 .. m |-> Byte(p - 1)]
  BY DEF FileInv
<1>2. EncryptedSize(source, kdf) \in Nat
  BY EncryptedSizeIsNat DEF FileInv
<1>3. m \in Nat /\ Len(bytes) = m
  BY <1>1, <1>2
<1>4. Size(bytes) \in Int
  BY <1>3, SizeIsInt DEF FileInv
<1>5. \E k \in 0 .. m : bytes' = [p \in 1 .. k |-> bytes[p]]
  <2>1. CASE bytes' = bytes
    BY <2>1, <1>1, <1>3
  <2>2. CASE bytes' = <<>>
    <3>1. bytes' = [p \in 1 .. 0 |-> bytes[p]]
      BY <2>2
    <3> QED BY <3>1, <1>3
  <2>3. CASE 0 < n /\ n < Size(bytes) /\ bytes' = CutTo(bytes, RealSize(n))
    <3>1. RealSize(n) \in 0 .. m
      BY <1>3, <2>3, CutIsInside
    <3>2. bytes' = [p \in 1 .. RealSize(n) |-> bytes[p]]
      BY <1>1, <1>3, <2>3, <3>1 DEF CutTo
    <3> QED BY <3>1, <3>2
  <2> QED BY <1>4, <2>1, <2>2, <2>3, TruncatedIs
<1>6. PICK k \in 0 .. m : bytes' = [p \in 1 .. k |-> bytes[p]]
  BY <1>5
<1>7. \A p \in 1 .. k : bytes[p] = Byte(p - 1)
  BY <1>1, <1>3
<1>8. \A p \in 1 .. k : Byte(p - 1)' = Byte(p - 1)
  BY DEF Byte
<1>9. bytes' = [p \in 1 .. k |-> Byte(p - 1)']
  BY <1>6, <1>7, <1>8
<1>10. EncryptedSize(source, kdf)' = EncryptedSize(source, kdf)
  BY DEF EncryptedSize, TotalChunks
<1> QED BY <1>2, <1>3, <1>9, <1>10 DEF FileInv

\* Nothing to show of a file that is not touched.
LEMMA KeptFile == ASSUME FileInv, UNCHANGED file PROVE FileInv'
BY DEF FileInv, file, Byte, EncryptedSize, TotalChunks

\* Truncations and writes leave the call alone, and its call leaves the file.
LEMMA TruncateStep ==
  ASSUME EncFileInv,
         \/ \E n \in 0 .. MaxFileSize + 1 : Truncate(n)
         \/ \E offset \in 0 .. MaxFileSize, n \in 1 .. 2 : Write(offset, n)
  PROVE  EncFileInv'
<1> USE DEF EncFileInv
<1>1. UNCHANGED <<source, kdf, damaged, rangeVars>> /\ kdf = 0
  BY DEF Truncate, Write
<1>2. Size(bytes) \in Int
  <2>1. Len(bytes) \in Nat
    BY EncryptedSizeIsNat DEF FileInv
  <2> QED BY <2>1, SizeIsInt DEF FileInv
<1>3. bytes' = bytes \/ \E n \in Nat : \E r \in Truncated(bytes, n) : bytes' = r.bytes
  <2>1. ASSUME NEW n \in 0 .. MaxFileSize + 1, Truncate(n)
        PROVE  \E m \in Nat : \E r \in Truncated(bytes, m) : bytes' = r.bytes
    BY <2>1 DEF Truncate
  <2>2. ASSUME NEW offset \in 0 .. MaxFileSize, NEW n \in 1 .. 2, Write(offset, n)
        PROVE  bytes' = bytes \/ \E m \in Nat : \E r \in Truncated(bytes, m) : bytes' = r.bytes
    <3>1. CASE offset + n > Size(bytes)
      <4>1. offset + n - Size(bytes) \in Nat
        BY <1>2, <3>1
      <4> QED BY <2>2, <3>1, <4>1 DEF Write
    <3> QED BY <2>2, <3>1 DEF Write
  <2> QED BY <2>1, <2>2
<1>4. FileInv'
  <2>1. CASE bytes' = bytes
    BY <1>1, <2>1, KeptFile DEF file
  <2>2. CASE \E n \in Nat : \E r \in Truncated(bytes, n) : bytes' = r.bytes
    BY <1>1, <2>2, TruncatedFile
  <2> QED BY <1>3, <2>1, <2>2
<1>5. RangeInv'
  BY <1>1 DEF RangeInv, BeforeInv, LoopInv, DeliversTheWholeRange, rangeVars, locals
<1> QED BY <1>4, <1>5

-----------------------------------------------------------------------------
(* The call.                                                               *)

\* A read begins: with the size of the file at this moment.
LEMMA CallStep ==
  ASSUME EncFileInv,
         \/ \E offset \in 0 .. MaxOffset, n \in 1 .. MaxOffset : Read(n, offset)
         \/ \E b, e \in 0 .. MaxOffset : ReadRange(b, e)
  PROVE  EncFileInv'
<1> USE DEF EncFileInv
<1>1. UNCHANGED file /\ FileInv'
  BY KeptFile DEF Read, ReadRange
<1>2. Size(bytes) \in Int
  <2>1. Len(bytes) \in Nat
    BY EncryptedSizeIsNat DEF FileInv
  <2> QED BY <2>1, SizeIsInt DEF FileInv
<1>3. \E b \in Nat, e \in Int : CallRange(Size(bytes), b, e)
  <2>1. ASSUME NEW offset \in 0 .. MaxOffset, NEW n \in 1 .. MaxOffset, Read(n, offset)
        PROVE  \E b \in Nat, e \in Int : CallRange(Size(bytes), b, e)
    <3>1. ReadSize(Size(bytes), n, offset) \in Int
      BY <1>2 DEF ReadSize
    <3> QED BY <2>1, <3>1 DEF Read
  <2>2. ASSUME NEW b \in 0 .. MaxOffset, NEW e \in 0 .. MaxOffset, ReadRange(b, e)
        PROVE  CallRange(Size(bytes), b, e) /\ b \in Nat /\ e \in Int
    BY <2>2 DEF ReadRange
  <2> QED BY <2>1, <2>2
<1>4. /\ total' \in Int /\ begin' \in Nat /\ end' \in Int
      /\ pc' = "start" /\ data' = <<>>
  BY <1>2, <1>3 DEF CallRange, RangeInv, BeforeInv
<1>5. data' = [i \in 1 .. 0 |-> begin' + i - 1]
  BY <1>4
<1>6. RangeInv'
  BY <1>4, <1>5 DEF RangeInv, BeforeInv, LoopInv, DeliversTheWholeRange
<1> QED BY <1>1, <1>6

\* The tests at the top of read_encrypted_range.
LEMMA StartStep == ASSUME RangeInv, Start PROVE RangeInv'
<1>1. /\ total' = total /\ begin' = begin /\ data' = data /\ data = <<>>
      /\ total > 0 /\ begin < total /\ begin <= end
      /\ end' = IF end > total - 1 THEN total - 1 ELSE end
      /\ chunk' = begin \div DataChunk /\ sourceOffset' = begin % DataChunk
      /\ remain' = end' - begin + 1
      /\ pc' = "loop" /\ source' = source
  BY DEF Start, RangeInv, BeforeInv, Clamp, RangeLength, file
<1>2. total \in Int /\ begin \in Nat /\ end \in Int
  BY DEF RangeInv
<1>3. end' \in Int /\ begin <= end' /\ end' < total
  BY <1>1, <1>2
<1>4. /\ begin \div DataChunk \in Int /\ begin % DataChunk \in 0 .. DataChunk - 1
      /\ begin = DataChunk * (begin \div DataChunk) + (begin % DataChunk)
  BY <1>2, Constants, Divided
<1>5. chunk' \in Nat
  BY <1>1, <1>2, Constants, Divided
<1>6. LoopInv'
  BY <1>1, <1>2, <1>3, <1>4, <1>5 DEF LoopInv
<1>7. data' = [i \in 1 .. 0 |-> begin' + i - 1]
  BY <1>1
<1>8. Len(data') = 0
  BY <1>1
<1>9. BeforeInv' /\ DeliversTheWholeRange'
  BY <1>1 DEF BeforeInv, DeliversTheWholeRange
<1> QED BY <1>1, <1>2, <1>3, <1>6, <1>7, <1>8, <1>9 DEF RangeInv

\* The last chunk of the source ends with it.
LEMMA ChunkInSource ==
  ASSUME source \in Nat, NEW c \in Nat, c < TotalChunks(source)
  PROVE  /\ PlainLength(source, c) \in Nat
         /\ DataChunk * c + PlainLength(source, c) <= source
<1> DEFINE t == TotalChunks(source)
<1>1. t \in Int /\ source <= DataChunk * t /\ DataChunk * t < source + DataChunk
  BY Constants, CeilingIs DEF TotalChunks
<1> HIDE DEF t
<1>2. DataChunk * c \in Nat /\ c * DataChunk = DataChunk * c
  BY Constants
<1>3. CASE c = t - 1
  <2>1. DataChunk * c + DataChunk = DataChunk * t
    BY <1>1, <1>3, Constants
  <2> QED BY <1>1, <1>2, <1>3, <2>1, Constants DEF PlainLength, t
<1>4. CASE c # t - 1
  <2>1. DataChunk * (c + 1) + DataChunk <= DataChunk * t
    BY <1>1, <1>4, Constants, NextMultiple DEF t
  <2>2. DataChunk * (c + 1) = DataChunk * c + DataChunk
    BY Constants
  <2>3. PlainLength(source, c) = DataChunk
    BY <1>4 DEF PlainLength, t
  <2> QED BY <1>1, <1>2, <2>1, <2>2, <2>3, Constants
<1> QED BY <1>3, <1>4

\* A chunk decrypts only when it is whole in the file and in the source.
LEMMA DecryptedIsWhole ==
  ASSUME FileInv, chunk \in Nat, total \in Int, DataChunk * chunk < total, Decrypts
  PROVE  \E n \in Nat : /\ DataChunk * chunk + n <= source
                        /\ n = (IF total - DataChunk * chunk < DataChunk
                                THEN total - DataChunk * chunk ELSE DataChunk)
<1> USE Constants
<1> DEFINE s == StartOffset
           len == EndOffset - StartOffset + 1
           n == IF total - DataChunk * chunk < DataChunk
                THEN total - DataChunk * chunk ELSE DataChunk
           t == TotalChunks(source)
           x == EncryptedSize(source, kdf)
<1>1. source \in Nat /\ kdf \in Nat
  BY DEF FileInv
<1>2. /\ DataChunk * chunk \in Nat /\ chunk * DataChunk = DataChunk * chunk
      /\ chunk * EncryptedChunk = DataChunk * chunk + Overhead * chunk
      /\ Overhead * chunk \in Nat
  OBVIOUS
<1>3. s \in Nat /\ s = DataChunk * chunk + Overhead * chunk + kdf
  BY <1>1, <1>2 DEF StartOffset
<1>4. len = n + Overhead /\ n \in Nat \ {0}
  BY <1>1, <1>2, <1>3 DEF EndOffset
<1> HIDE DEF s, len, n, t, x
<1>5. Fetched = [i \in 1 .. len |-> IF s + i <= Len(bytes) THEN bytes[s + i]
                                                          ELSE <<"zero", 0, 0>>]
  BY DEF Fetched, s, len
<1>6. PICK m \in 0 .. x : bytes = [p \in 1 .. m |-> Byte(p - 1)]
  BY DEF FileInv, x
<1>7. x \in Nat /\ m \in Nat /\ Len(bytes) = m
  <2>1. x \in Nat
    BY <1>1, EncryptedSizeIsNat DEF x
  <2> QED BY <1>6, <2>1
<1>8. t \in Int /\ source <= DataChunk * t /\ DataChunk * t < source + DataChunk
  BY <1>1, CeilingIs DEF TotalChunks, t
<1>9. PlainLength(source, chunk) \in Int
  BY <1>1, <1>2 DEF PlainLength
<1>10. Sealed(source, chunk)
         = [i \in 1 .. PlainLength(source, chunk) + Overhead |-> <<"sealed", chunk, i - 1>>]
  BY DEF Sealed
<1>11. 1 .. len = 1 .. PlainLength(source, chunk) + Overhead
  BY <1>5, <1>10 DEF Decrypts
<1>12. len = PlainLength(source, chunk) + Overhead
  BY <1>4, <1>9, <1>11
<1>13. s + 1 <= m
  <2>1. Fetched[1] = <<"sealed", chunk, 0>>
    <3>1. 1 \in 1 .. PlainLength(source, chunk) + Overhead
      BY <1>4, <1>12
    <3>2. Sealed(source, chunk)[1] = <<"sealed", chunk, 1 - 1>>
      BY <1>10, <3>1
    <3> QED BY <3>2 DEF Decrypts
  <2>2. CASE ~(s + 1 <= m)
    <3>1. Fetched[1] = <<"zero", 0, 0>>
      BY <1>4, <1>5, <1>7, <2>2
    <3> QED BY <2>1, <3>1
  <2> QED BY <2>2
<1>14. x = source + t * Overhead + kdf
  BY DEF x, t, EncryptedSize
<1>15. chunk < t
  <2>1. CASE t <= chunk
    <3>1. t < chunk => /\ DataChunk * t + DataChunk <= DataChunk * chunk
                       /\ Overhead * t + Overhead <= Overhead * chunk
      BY <1>8, NextMultiple
    <3>2. DataChunk * t <= DataChunk * chunk /\ t * Overhead <= Overhead * chunk
      BY <1>8, <2>1, <3>1
    <3> QED BY <1>1, <1>2, <1>3, <1>6, <1>7, <1>8, <1>13, <1>14, <3>2
  <2> QED BY <1>8, <2>1
<1>16. DataChunk * chunk + PlainLength(source, chunk) <= source
  BY <1>1, <1>15, ChunkInSource DEF t
<1>17. PlainLength(source, chunk) = n
  BY <1>4, <1>9, <1>12
<1> QED BY <1>4, <1>16, <1>17 DEF n

\* One chunk more extends the run, whatever was cut off the file meanwhile.
LEMMA ReadChunkStep == ASSUME EncFileInv, ReadChunk PROVE RangeInv'
<1> USE Constants DEF EncFileInv
<1>1. /\ UNCHANGED <<source, total, begin, end, pc>> /\ pc = "loop"
      /\ Decrypts
      /\ data' = data \o [i \in 1 .. Part |-> chunk * DataChunk + sourceOffset + i - 1]
      /\ remain' = remain - Part /\ sourceOffset' = 0 /\ chunk' = chunk + 1
  BY DEF ReadChunk, file, NextOffset
<1>2. /\ chunk \in Nat /\ remain \in Nat /\ sourceOffset \in 0 .. DataChunk - 1
      /\ total \in Int /\ begin \in Nat /\ end \in Int /\ source \in Nat
      /\ total > 0 /\ begin < total /\ begin <= end /\ end < total
      /\ begin + Len(data) + remain = end + 1
      /\ remain # 0 => DataChunk * chunk + sourceOffset = begin + Len(data)
      /\ remain = 0 => end < DataChunk * chunk
  BY <1>1 DEF RangeInv, LoopInv, FileInv
<1>3. PICK m \in Nat : data = [i \in 1 .. m |-> begin + i - 1]
  BY DEF RangeInv
<1>4. Len(data) = m
  BY <1>3
<1>5. /\ DataChunk * chunk <= end
      /\ DataChunk * chunk \in Nat /\ chunk * DataChunk = DataChunk * chunk
      /\ DataChunk * (chunk + 1) = DataChunk * chunk + DataChunk
  BY <1>2, ChunkBehind DEF ReadChunk
<1>6. remain # 0
  BY <1>2, <1>5
<1>7. PICK n \in Nat : /\ DataChunk * chunk + n <= source
                       /\ n = (IF total - DataChunk * chunk < DataChunk
                               THEN total - DataChunk * chunk ELSE DataChunk)
  BY <1>1, <1>2, <1>5, DecryptedIsWhole
<1> DEFINE k == Part
<1>8. k \in Nat /\ k <= remain /\ sourceOffset + k <= n
      /\ (k = remain \/ sourceOffset + k = DataChunk)
  BY <1>2, <1>4, <1>5, <1>6, <1>7 DEF Part
<1> HIDE DEF k
<1>9. data' = [i \in 1 .. m + k |-> begin + i - 1]
  <2>1. data' = data \o [i \in 1 .. k |-> begin + m + i - 1]
    BY <1>1, <1>2, <1>4, <1>5, <1>6 DEF k
  <2> QED BY <2>1, <1>2, <1>3, <1>8
<1>10. Len(data') = m + k /\ m + k \in Nat
  BY <1>8, <1>9
<1>11. remain' = remain - k
  BY <1>1 DEF k
<1>12. begin + m + k <= source /\ begin + m + k - 1 <= end
  BY <1>2, <1>4, <1>6, <1>7, <1>8
<1>13. LoopInv'
  <2>1. begin + Len(data') + remain' = end + 1 /\ remain' \in Nat
    BY <1>2, <1>4, <1>8, <1>10, <1>11
  <2>2. chunk' = chunk + 1 /\ DataChunk * chunk' = DataChunk * chunk + DataChunk
    BY <1>1, <1>5
  <2>3. remain' # 0 => DataChunk * chunk' + 0 = begin + Len(data')
    <3>1. remain' # 0 => sourceOffset + k = DataChunk
      BY <1>2, <1>8, <1>11
    <3>2. DataChunk * chunk + sourceOffset = begin + m
      BY <1>2, <1>4, <1>6
    <3> QED BY <1>2, <1>5, <1>8, <1>10, <2>2, <3>1, <3>2
  <2>4. remain' = 0 => end < DataChunk * chunk'
    BY <1>2, <1>4, <1>5, <1>6, <1>7, <1>8, <1>11, <2>2
  <2>5. /\ chunk' \in Nat /\ sourceOffset' = 0 /\ 0 \in 0 .. DataChunk - 1
        /\ total' = total /\ begin' = begin /\ end' = end
    BY <1>1, <1>2, <2>2
  <2> QED BY <1>2, <2>1, <2>3, <2>4, <2>5 DEF LoopInv
<1>14. BeforeInv' /\ DeliversTheWholeRange'
  BY <1>1 DEF BeforeInv, DeliversTheWholeRange
<1>15. source' = source /\ total' = total /\ begin' = begin /\ end' = end
  BY <1>1
<1>16. \E l \in Nat : data' = [i \in 1 .. l |-> begin' + i - 1]
  BY <1>9, <1>10, <1>15
<1>17. begin' + Len(data') <= source' /\ begin' + Len(data') - 1 <= end'
  BY <1>2, <1>8, <1>10, <1>12, <1>15
<1>18. total' \in Int /\ begin' \in Nat /\ end' \in Int
  BY <1>2, <1>15
<1> QED BY <1>13, <1>14, <1>16, <1>17, <1>18 DEF RangeInv

\* Every end of the call, a failure included, leaves what was delivered.
LEMMA EndStep ==
  ASSUME RangeInv, NothingToRead \/ FetchFails \/ DecryptFails \/ Done
  PROVE  RangeInv'
<1>1. /\ UNCHANGED <<source, total, begin, end, data>>
      /\ pc' \in {"done", "failed"}
  BY DEF NothingToRead, FetchFails, DecryptFails, Done, file
<1>2. DeliversTheWholeRange'
  <2>1. CASE NothingToRead
    BY <1>1, <2>1 DEF NothingToRead, RangeInv, BeforeInv, DeliversTheWholeRange
  <2>2. CASE FetchFails \/ DecryptFails
    BY <2>2 DEF FetchFails, DecryptFails, DeliversTheWholeRange
  <2>3. CASE Done
    <3>1. /\ chunk \in Nat /\ remain \in Nat /\ sourceOffset \in 0 .. DataChunk - 1
          /\ total \in Int /\ begin \in Nat /\ end \in Int
          /\ total > 0 /\ begin < total /\ begin <= end /\ end < total
          /\ begin + Len(data) + remain = end + 1
          /\ remain # 0 => DataChunk * chunk + sourceOffset = begin + Len(data)
      BY <2>3 DEF Done, RangeInv, LoopInv
    <3>2. DataChunk * chunk > end
      BY <2>3, <3>1, Constants, ChunkBehind DEF Done
    <3>3. Len(data) \in Nat
      BY DEF RangeInv
    <3>4. remain = 0
      BY <3>1, <3>2, <3>3, Constants
    <3> QED BY <1>1, <3>1, <3>3, <3>4 DEF DeliversTheWholeRange
  <2> QED BY <2>1, <2>2, <2>3
<1> QED BY <1>1, <1>2 DEF RangeInv, BeforeInv, LoopInv

\* The invariant is inductive.
LEMMA Step == ASSUME EncFileInv, [Next]_vars PROVE EncFileInv'
<1>1. CASE UNCHANGED vars
  BY <1>1, KeptFile
     DEF vars, rangeVars, locals, EncFileInv, RangeInv, BeforeInv, LoopInv,
         DeliversTheWholeRange, file
<1>2. CASE RangeStep
  <2>1. UNCHANGED file
    BY <1>2 DEF RangeStep, NothingToRead, Start, ReadChunk, FetchFails, DecryptFails, Done
  <2> QED BY <1>2, <2>1, KeptFile, StartStep, ReadChunkStep, EndStep
          DEF RangeStep, EncFileInv
<1> QED BY <1>1, <1>2, TruncateStep, CallStep DEF Next

\* What holds of a file and of a read of it between any two steps, of the read
\* or of those that truncate the file under it.
THEOREM ReadInductive == Spec => []EncFileInv
BY Initially, Step, PTL DEF Spec

\* Whatever has been damaged, fails or is cut off while it reads, and wherever
\* the range begins and ends: read_encrypted_range hands out the bytes of the
\* source from the beginning of the range on, without a gap, and none behind
\* its end.
THEOREM ReadIsARun == Spec => []DeliversARunOfTheRange
<1>1. EncFileInv => DeliversARunOfTheRange
  <2> SUFFICES ASSUME EncFileInv PROVE DeliversARunOfTheRange
    OBVIOUS
  <2>1. PICK n \in Nat : data = [i \in 1 .. n |-> begin + i - 1]
    BY DEF EncFileInv, RangeInv
  <2>2. Len(data) = n /\ begin \in Nat /\ source \in Nat
    BY <2>1 DEF EncFileInv, RangeInv, FileInv
  <2>3. n > 0 => begin + n <= source /\ begin + n - 1 <= end
    BY <2>2 DEF EncFileInv, RangeInv
  <2> QED BY <2>1, <2>2, <2>3 DEF DeliversARunOfTheRange
<1> QED BY ReadInductive, <1>1, PTL

\* A read that comes to its end has handed out all of the range that is in a
\* file of the size it was told.
THEOREM ReadIsWhole == Spec => []DeliversTheWholeRange
<1>1. EncFileInv => DeliversTheWholeRange
  BY DEF EncFileInv, RangeInv
<1> QED BY ReadInductive, <1>1, PTL

-----------------------------------------------------------------------------
(* The size of a file.                                                     *)

\* There is one way to divide.
LEMMA DividesOneWay ==
  ASSUME NEW n \in Int, NEW d \in Nat \ {0}, NEW q \in Int, NEW r \in 0 .. d - 1,
         n = d * q + r
  PROVE  n \div d = q /\ n % d = r
<1> DEFINE p == n \div d
<1>1. p \in Int /\ n % d \in 0 .. d - 1 /\ n = d * p + (n % d)
  BY Divided
<1>2. p < q => d * p + d <= d * q
  BY <1>1, NextMultiple
<1>3. q < p => d * q + d <= d * p
  BY <1>1, NextMultiple
<1>4. p = q
  BY <1>1, <1>2, <1>3
<1> QED BY <1>1, <1>4

\* The length of the encrypted file, chunk by chunk.
LEMMA RealSizeIs ==
  ASSUME NEW n \in Nat
  PROVE  LET q == n \div DataChunk
             r == n % DataChunk
         IN  /\ q \in Nat /\ r \in 0 .. DataChunk - 1 /\ n = DataChunk * q + r
             /\ RealSize(n) = EncryptedChunk * q + (IF r > 0 THEN r + Overhead ELSE 0)
             /\ EncryptedChunk * q = DataChunk * q + Overhead * q
             /\ RealSize(n) \in Nat
<1> USE Constants
<1> DEFINE q == n \div DataChunk
           r == n % DataChunk
<1>1. q \in Int /\ r \in 0 .. DataChunk - 1 /\ n = DataChunk * q + r /\ q >= 0
  <2>1. n \in Int /\ n >= 0
    OBVIOUS
  <2> QED BY <2>1, Divided
<1>2. RealSize(n) = q * EncryptedChunk + (IF r > 0 THEN r + Overhead ELSE 0)
  BY DEF RealSize
<1> HIDE DEF q, r
<1>3. /\ q * EncryptedChunk = EncryptedChunk * q
      /\ EncryptedChunk * q = DataChunk * q + Overhead * q
      /\ EncryptedChunk * q \in Nat
  BY <1>1
<1> QED BY <1>1, <1>2, <1>3 DEF q, r

\* An enc_file knows the size of the source by the length of the file.
LEMMA SizeOfReal ==
  ASSUME kdf \in Nat, NEW n \in Nat, NEW b, Len(b) = kdf + RealSize(n)
  PROVE  Size(b) = n
<1> USE Constants
<1> DEFINE q == n \div DataChunk
           r == n % DataChunk
           m == RealSize(n)
           s == IF r > 0 THEN r + Overhead ELSE 0
<1>1. /\ q \in Nat /\ r \in 0 .. DataChunk - 1 /\ n = DataChunk * q + r
      /\ m = EncryptedChunk * q + s /\ m \in Nat
      /\ EncryptedChunk * q = DataChunk * q + Overhead * q
  BY RealSizeIs
<1>2. s \in 0 .. EncryptedChunk - 1 /\ (s = 0 <=> r = 0)
  BY <1>1
<1> HIDE DEF q, r, m
<1>3. m \div EncryptedChunk = q /\ m % EncryptedChunk = s
  <2> HIDE DEF s
  <2> QED BY <1>1, <1>2, DividesOneWay
<1>4. Len(b) - kdf = m
  BY <1>1 DEF m
<1>5. Size(b) = m - (q + (IF s # 0 THEN 1 ELSE 0)) * Overhead
  BY <1>3, <1>4 DEF Size, DecryptedSize, DivideWithCeiling
<1>6. (q + 1) * Overhead = Overhead * q + Overhead /\ (q + 0) * Overhead = Overhead * q
  BY <1>1
<1> QED BY <1>1, <1>2, <1>5, <1>6

\* The file as it was made.
LEMMA IntactSize ==
  ASSUME source \in Nat, kdf \in Nat
  PROVE  EncryptedSize(source, kdf) = kdf + RealSize(source)
<1> USE Constants
<1> DEFINE q == source \div DataChunk
           r == source % DataChunk
<1>1. /\ q \in Nat /\ r \in 0 .. DataChunk - 1 /\ source = DataChunk * q + r
      /\ RealSize(source) = EncryptedChunk * q + (IF r > 0 THEN r + Overhead ELSE 0)
      /\ EncryptedChunk * q = DataChunk * q + Overhead * q
  BY RealSizeIs
<1>2. EncryptedSize(source, kdf)
        = source + (q + (IF r # 0 THEN 1 ELSE 0)) * Overhead + kdf
  BY DEF EncryptedSize, TotalChunks, DivideWithCeiling
<1> HIDE DEF q, r
<1>3. (q + 1) * Overhead = Overhead * q + Overhead /\ (q + 0) * Overhead = Overhead * q
  BY <1>1
<1> QED BY <1>1, <1>2, <1>3

\* How long the encrypted form of a chunk is in a file of n bytes.
ChunkLength(n, c) ==
  (IF n - DataChunk * c < DataChunk THEN n - DataChunk * c ELSE DataChunk) + Overhead

\* A piece of a sequence.
LEMMA PieceOf ==
  ASSUME NEW m \in Nat, NEW b, b = [p \in 1 .. m |-> b[p]],
         NEW f \in Nat, NEW l \in Nat, f + l <= m
  PROVE  SubSeq(b, f + 1, f + l) = [i \in 1 .. l |-> b[f + i]]
<1> DEFINE x == f + 1
           y == f + l
<1>1. x \in Nat /\ y \in Nat /\ x >= 1 /\ y <= m /\ l = y - x + 1
  OBVIOUS
<1>2. \A i \in 1 .. l : i + x - 1 = f + i
  OBVIOUS
<1> HIDE DEF x, y
<1>3. SubSeq(b, x, y) = [i \in 1 .. l |-> b[i + x - 1]]
  BY <1>1
<1> QED BY <1>2, <1>3 DEF x, y

\* The chunk that holds a byte of the file is there whole, and as the read() of
\* truncate() gets it.
LEMMA ChunkIsThere ==
  ASSUME kdf \in Nat, NEW n \in Nat, NEW c \in Nat, DataChunk * c < n,
         NEW m \in Nat, NEW b, b = [p \in 1 .. m |-> b[p]], m = kdf + RealSize(n)
  PROVE  /\ ChunkLength(n, c) \in Nat
         /\ kdf + EncryptedChunk * c + ChunkLength(n, c) <= m
         /\ ChunkAt(b, c) = [i \in 1 .. ChunkLength(n, c) |-> b[kdf + EncryptedChunk * c + i]]
<1> DEFINE q == n \div DataChunk
           r == n % DataChunk
           l == ChunkLength(n, c)
           dc == DataChunk * c
           dq == DataChunk * q
           ec == EncryptedChunk * c
           eq == EncryptedChunk * q
           hc == Overhead * c
           hq == Overhead * q
<1>c. /\ DataChunk \in Nat \ {0} /\ Overhead \in Nat \ {0}
      /\ EncryptedChunk = DataChunk + Overhead
  BY Constants
<1>1. /\ q \in Nat /\ r \in 0 .. DataChunk - 1 /\ n = dq + r
      /\ RealSize(n) = eq + (IF r > 0 THEN r + Overhead ELSE 0)
      /\ eq = dq + hq
  BY RealSizeIs
<1>2. /\ dc \in Nat /\ hc \in Nat /\ ec \in Nat /\ ec = dc + hc /\ c * EncryptedChunk = ec
      /\ dq \in Nat /\ hq \in Nat /\ eq \in Nat
  <2>1. \A x, y \in Nat : x * y \in Nat /\ x * y = y * x
    OBVIOUS
  <2>2. \A x, y, z \in Nat : (x + y) * z = x * z + y * z
    OBVIOUS
  <2>3. DataChunk \in Nat /\ Overhead \in Nat /\ EncryptedChunk \in Nat
    BY <1>c
  <2>4. ec = dc + hc
    BY <2>2, <2>3, <1>c
  <2>5. dc \in Nat /\ hc \in Nat /\ ec \in Nat /\ c * EncryptedChunk = ec
    BY <2>1, <2>3
  <2>6. dq \in Nat /\ hq \in Nat /\ eq \in Nat
    <3> HIDE DEF q
    <3> QED BY <2>1, <2>3, <1>1
  <2> QED BY <2>4, <2>5, <2>6
<1> DEFINE k == c - q
<1>3. /\ k \in Int
      /\ k < 0 => dc + DataChunk <= dq /\ hc + Overhead <= hq
      /\ k = 0 => dc = dq /\ hc = hq
      /\ k > 0 => dq + DataChunk <= dc
  <2>1. c < q => dc + DataChunk <= dq /\ hc + Overhead <= hq
    BY <1>1, <1>c, NextMultiple
  <2>2. c > q => dq + DataChunk <= dc
    BY <1>1, <1>c, NextMultiple
  <2> HIDE DEF q
  <2>3. k < 0 => c < q
    BY <1>1
  <2>4. k > 0 => c > q
    BY <1>1
  <2>5. k = 0 => c = q
    BY <1>1
  <2>6. k \in Int
    BY <1>1
  <2> HIDE DEF k, dc, dq, hc, hq
  <2>7. c = q => dc = dq /\ hc = hq
    BY DEF dc, dq, hc, hq
  <2> QED BY <2>1, <2>2, <2>3, <2>4, <2>5, <2>6, <2>7
<1>4. dc < n /\ l = (IF n - dc < DataChunk THEN n - dc ELSE DataChunk) + Overhead
  BY DEF ChunkLength
<1> DEFINE rest == m - (kdf + ec)
<1> HIDE DEF q, r, l, dc, dq, ec, eq, hc, hq, k
<1>5. rest = dq + hq + (IF r > 0 THEN r + Overhead ELSE 0) - (dc + hc)
  <2> DEFINE s == IF r > 0 THEN r + Overhead ELSE 0
  <2>1. s \in Nat
    BY <1>1, <1>c
  <2> HIDE DEF s
  <2>2. m = kdf + (eq + s)
    BY <1>1 DEF s
  <2>3. rest = m - (kdf + ec)
    OBVIOUS
  <2> HIDE DEF rest
  <2>4. rest = dq + hq + s - (dc + hc)
    BY ONLY kdf \in Nat, <1>1, <1>2, <2>1, <2>2, <2>3
  <2> QED BY <2>4 DEF s
<1> HIDE DEF rest
<1>6. /\ l \in Nat /\ rest \in Int /\ l <= rest
      /\ l = (IF rest < EncryptedChunk THEN rest ELSE EncryptedChunk)
  <2>1. /\ n = dq + r /\ r \in 0 .. DataChunk - 1
        /\ dc \in Nat /\ hc \in Nat /\ dq \in Nat /\ hq \in Nat
    BY <1>1, <1>2
  <2>2. k <= 0
    BY ONLY <2>1, <1>3, <1>4, <1>c
  <2>3. CASE k = 0
    BY ONLY <2>1, <2>3, <1>3, <1>4, <1>5, <1>c
  <2>4. CASE k < 0
    <3>1. l = DataChunk + Overhead
      BY ONLY <2>1, <2>4, <1>3, <1>4, <1>c
    <3>2. rest >= DataChunk + Overhead /\ rest \in Int
      BY ONLY <2>1, <2>4, <1>3, <1>5, <1>c
    <3> QED BY ONLY <3>1, <3>2, <1>c
  <2> QED BY <1>3, <2>2, <2>3, <2>4
<1> DEFINE f == kdf + ec
<1>7. f \in Nat /\ c * EncryptedChunk = ec
  BY <1>2
<1>8. Len(b) = m
  OBVIOUS
<1>9. f + l <= m /\ Len(b) - (f + 1) + 1 = rest
  <2>1. rest = m - f
    BY DEF rest
  <2> HIDE DEF f
  <2> QED BY ONLY <1>6, <1>7, <1>8, <2>1, m \in Nat
<1>10. ChunkAt(b, c) = SubSeq(b, f + 1, (f + 1) + l - 1)
  BY <1>6, <1>7, <1>9 DEF ChunkAt
<1> HIDE DEF f
<1>11. SubSeq(b, f + 1, (f + 1) + l - 1) = [i \in 1 .. l |-> b[f + i]]
  <2>1. (f + 1) + l - 1 = f + l /\ f + l \in Nat
    BY ONLY <1>6, <1>7
  <2>2. SubSeq(b, f + 1, f + l) = [i \in 1 .. l |-> b[f + i]]
    <3>1. /\ m \in Nat /\ b = [p \in 1 .. m |-> b[p]]
          /\ f \in Nat /\ l \in Nat /\ f + l <= m
      BY <1>6, <1>7, <1>9
    <3> QED BY ONLY <3>1, PieceOf
  <2> QED BY ONLY <2>1, <2>2
<1> QED BY <1>6, <1>9, <1>10, <1>11 DEF l, ec, f

-----------------------------------------------------------------------------
(* Whole chunks decrypt.                                                   *)

\* The file is as long as the encrypted form of some source: a truncation never
\* leaves a part of a nonce or a tag.
LengthInv == \E n \in Nat : Len(bytes) = kdf + RealSize(n)

\* Unless it has been cut meanwhile, the file is of the size the call was told.
UncutInv ==
  /\ cut \in BOOLEAN
  /\ pc \in {"start", "loop"} /\ ~cut => total = Size(bytes)

WholeInv == EncFileInv /\ LengthInv /\ UncutInv /\ WholeChunkDecrypts

\* What the file is, as a sequence.
LEMMA FileIs ==
  ASSUME FileInv
  PROVE  /\ kdf \in Nat /\ source \in Nat /\ Len(bytes) \in Nat
         /\ bytes = [p \in 1 .. Len(bytes) |-> bytes[p]]
<1>1. kdf \in Nat /\ source \in Nat
  BY DEF FileInv
<1>2. PICK m \in 0 .. EncryptedSize(source, kdf) : bytes = [p \in 1 .. m |-> Byte(p - 1)]
  BY DEF FileInv
<1>3. m \in Nat
  BY <1>1, <1>2, EncryptedSizeIsNat
<1> QED BY <1>1, <1>2, <1>3

\* Cut to the encrypted form of n bytes, the file is a file of n bytes.
LEMMA CutSize ==
  ASSUME FileInv, kdf = 0, NEW n \in Nat, n < Size(bytes)
  PROVE  /\ Len(CutTo(bytes, RealSize(n))) = kdf + RealSize(n)
         /\ CutTo(bytes, RealSize(n)) = [p \in 1 .. RealSize(n) |-> bytes[p]]
         /\ RealSize(n) \in 0 .. Len(bytes)
<1>1. Len(bytes) \in Nat /\ bytes = [p \in 1 .. Len(bytes) |-> bytes[p]]
  BY FileIs
<1>2. RealSize(n) \in 0 .. Len(bytes)
  BY <1>1, CutIsInside
<1> DEFINE m == Len(bytes)
           k == RealSize(n)
<1>3. m \in Nat /\ k \in Nat /\ 0 + k <= m /\ bytes = [p \in 1 .. m |-> bytes[p]]
  BY <1>1, <1>2
<1>4. CutTo(bytes, k) = SubSeq(bytes, 0 + 1, 0 + k)
  BY <1>3 DEF CutTo
<1> HIDE DEF m, k
<1>5. SubSeq(bytes, 0 + 1, 0 + k) = [i \in 1 .. k |-> bytes[0 + i]]
  BY ONLY <1>3, PieceOf
<1>6. CutTo(bytes, k) = [i \in 1 .. k |-> bytes[i]]
  <2>1. \A i \in 1 .. k : 0 + i = i
    BY <1>3
  <2>2. 0 + k = k /\ [i \in 1 .. k |-> bytes[0 + i]] = [i \in 1 .. k |-> bytes[i]]
    BY <1>3, <2>1
  <2> QED BY <1>4, <1>5, <2>2
<1>7. Len(CutTo(bytes, k)) = k
  BY <1>3, <1>6
<1> QED BY <1>2, <1>3, <1>6, <1>7 DEF k

\* No truncation leaves a length that an encrypted file cannot have.
LEMMA TruncatedLength ==
  ASSUME FileInv, LengthInv, kdf = 0, NEW n \in Nat, NEW r \in Truncated(bytes, n),
         bytes' = r.bytes, kdf' = kdf
  PROVE  LengthInv'
<1>1. Size(bytes) \in Int
  BY FileIs, SizeIsInt
<1>2. CASE bytes' = <<>>
  <2>1. Len(bytes') = 0
    BY <1>2
  <2>2. RealSize(0) = 0
    <3>1. 0 \div DataChunk = 0 /\ 0 % DataChunk = 0
      BY Constants
    <3> QED BY <3>1, Constants DEF RealSize
  <2>3. Len(bytes') = kdf' + RealSize(0)
    BY <2>1, <2>2
  <2> QED BY <2>3 DEF LengthInv
<1>3. CASE bytes' = bytes
  BY <1>3 DEF LengthInv
<1>4. CASE n < Size(bytes) /\ bytes' = CutTo(bytes, RealSize(n))
  BY <1>4, CutSize DEF LengthInv
<1> QED BY <1>1, <1>2, <1>3, <1>4, TruncatedIs

\* A chunk that is whole in a file of the size the call was told is fetched as
\* it is.
LEMMA WholeIsFetched ==
  ASSUME EncFileInv, LengthInv, total = Size(bytes),
         pc = "loop", chunk <= end \div DataChunk
  PROVE  Fetched = ChunkAt(bytes, chunk)
<1> DEFINE l == ChunkLength(total, chunk)
           e == EncryptedChunk * chunk
           m == Len(bytes)
<1>1. /\ kdf \in Nat /\ m \in Nat /\ bytes = [p \in 1 .. m |-> bytes[p]]
  BY FileIs DEF EncFileInv
<1>2. PICK n \in Nat : m = kdf + RealSize(n)
  BY DEF LengthInv
<1>3. total = n
  BY <1>1, <1>2, SizeOfReal
<1>4. chunk \in Nat /\ end \in Int /\ end < total
  BY DEF EncFileInv, RangeInv, LoopInv
<1>5. DataChunk * chunk <= end /\ DataChunk * chunk \in Nat
  BY <1>4, Constants, ChunkBehind
<1>6. DataChunk * chunk < total
  BY <1>3, <1>4, <1>5
<1>7. /\ l \in Nat /\ kdf + e + l <= m
      /\ ChunkAt(bytes, chunk) = [i \in 1 .. l |-> bytes[kdf + e + i]]
  BY <1>1, <1>2, <1>3, <1>4, <1>6, ChunkIsThere
<1>8. StartOffset = kdf + e /\ e \in Nat
  BY <1>1, <1>4, Constants DEF StartOffset
<1>9. EndOffset - StartOffset + 1 = l
  <2> DEFINE s == StartOffset
             dc == DataChunk * chunk
  <2>1. s \in Nat /\ dc \in Nat /\ chunk * DataChunk = dc
    BY <1>1, <1>4, <1>5, <1>8, Constants
  <2>2. /\ DataChunk \in Nat /\ Overhead \in Nat /\ EncryptedChunk = DataChunk + Overhead
        /\ total \in Nat
    BY <1>3, Constants
  <2>3. EndOffset = LET rest == s + (total - dc) + Overhead - 1
                        full == s + EncryptedChunk - 1
                    IN IF rest < full THEN rest ELSE full
    BY <2>1 DEF EndOffset
  <2>4. l = (IF total - dc < DataChunk THEN total - dc ELSE DataChunk) + Overhead
    BY DEF ChunkLength
  <2> HIDE DEF s, dc, l
  <2>5. EndOffset - s + 1 = l
    BY ONLY <2>1, <2>2, <2>3, <2>4
  <2> QED BY <2>5 DEF s
<1>10. Fetched = [i \in 1 .. l |-> IF kdf + e + i <= m THEN bytes[kdf + e + i]
                                                      ELSE <<"zero", 0, 0>>]
  BY <1>8, <1>9 DEF Fetched
<1>11. \A i \in 1 .. l : kdf + e + i <= m
  <2> HIDE DEF l, e, m
  <2> QED BY ONLY <1>1, <1>7, <1>8
<1> QED BY <1>7, <1>10, <1>11

\* At the start the file is as it was made.
LEMMA WholeInit == Init => WholeInv
<1> SUFFICES ASSUME Init PROVE WholeInv
  OBVIOUS
<1>1. EncFileInv /\ source \in Nat /\ kdf \in Nat
  BY Initially DEF EncFileInv, FileInv
<1>2. bytes = [p \in 1 .. EncryptedSize(source, kdf) |-> Byte(p - 1)]
  BY DEF Init, Intact
<1>3. Len(bytes) = kdf + RealSize(source)
  BY <1>1, <1>2, EncryptedSizeIsNat, IntactSize
<1> QED BY <1>1, <1>3 DEF WholeInv, LengthInv, UncutInv, WholeChunkDecrypts, Init, RangeInit

\* The length of the file through a step.
LEMMA LengthStep == ASSUME EncFileInv, LengthInv, [Next]_vars PROVE LengthInv'
<1> USE DEF EncFileInv
<1>1. ASSUME NEW n \in 0 .. MaxFileSize + 1, Truncate(n) PROVE LengthInv'
  BY <1>1, TruncatedLength DEF Truncate
<1>2. ASSUME NEW offset \in 0 .. MaxFileSize, NEW n \in 1 .. 2, Write(offset, n)
      PROVE  LengthInv'
  <2>1. Size(bytes) \in Int
    BY FileIs, SizeIsInt
  <2>2. CASE offset + n > Size(bytes)
    <3>1. offset + n - Size(bytes) \in Nat
      BY <2>1, <2>2
    <3> QED BY <1>2, <2>2, <3>1, TruncatedLength DEF Write
  <2>3. CASE ~(offset + n > Size(bytes))
    BY <1>2, <2>3 DEF Write, LengthInv
  <2> QED BY <2>2, <2>3
<1>3. CASE UNCHANGED <<bytes, kdf>>
  BY <1>3 DEF LengthInv
<1>4. CASE \/ \E offset \in 0 .. MaxOffset, n \in 1 .. MaxOffset : Read(n, offset)
           \/ \E b, e \in 0 .. MaxOffset : ReadRange(b, e)
  BY <1>3, <1>4 DEF Read, ReadRange, file
<1>5. CASE RangeStep \/ UNCHANGED vars
  BY <1>3, <1>5 DEF RangeStep, NothingToRead, Start, ReadChunk, FetchFails, DecryptFails,
                    Done, file, vars
<1> QED BY <1>1, <1>2, <1>4, <1>5 DEF Next

\* What a step that touches the file, or nothing, leaves of the call.
LEMMA CutStep ==
  ASSUME WholeInv, UNCHANGED <<source, kdf, damaged, rangeVars>>,
         cut' = (cut \/ bytes' # bytes)
  PROVE  UncutInv' /\ WholeChunkDecrypts'
<1>1. CASE bytes' = bytes
  <2>1. /\ pc' = pc /\ total' = total /\ fetched' = fetched /\ chunk' = chunk
        /\ cut' = cut
    BY <1>1 DEF rangeVars, locals, WholeInv, UncutInv
  <2>2. Size(bytes)' = Size(bytes)
    BY <1>1 DEF Size, DecryptedSize
  <2>3. Readable(bytes, chunk)' = Readable(bytes, chunk)
    BY <1>1, <2>1 DEF Readable, ChunkAt, Sealed, PlainLength, TotalChunks
  <2> QED BY <2>1, <2>2, <2>3 DEF WholeInv, UncutInv, WholeChunkDecrypts
<1>2. CASE bytes' # bytes
  <2>1. cut' = TRUE
    BY <1>2 DEF WholeInv, UncutInv
  <2> QED BY <2>1 DEF UncutInv, WholeChunkDecrypts
<1> QED BY <1>1, <1>2

\* A step of the call: what it was told stays, and it fails on a chunk that is
\* not whole, or for the reader's sake.
LEMMA RangeKeepsWhole ==
  ASSUME WholeInv, RangeStep, UNCHANGED <<ok, cut, ops>>
  PROVE  UncutInv' /\ WholeChunkDecrypts'
<1>1. UNCHANGED file /\ total' = total
  BY DEF RangeStep, NothingToRead, Start, ReadChunk, FetchFails, DecryptFails, Done
<1>b. cut' = cut /\ cut \in BOOLEAN
  BY DEF WholeInv, UncutInv
<1>2. Size(bytes)' = Size(bytes)
  BY <1>1 DEF file, Size, DecryptedSize
<1>3. CASE NothingToRead \/ Done
  BY <1>3, <1>b DEF NothingToRead, Done, UncutInv, WholeChunkDecrypts
<1>4. CASE Start \/ ReadChunk
  <2>1. pc \in {"start", "loop"} /\ pc' = "loop"
    BY <1>4 DEF Start, ReadChunk
  <2> QED BY <1>1, <1>2, <1>b, <2>1 DEF WholeInv, UncutInv, WholeChunkDecrypts
<1>5. CASE FetchFails
  BY <1>5, <1>b DEF FetchFails, UncutInv, WholeChunkDecrypts
<1>6. CASE DecryptFails
  <2>1. /\ pc = "loop" /\ chunk <= end \div DataChunk /\ pc' = "failed"
        /\ Fetched # Sealed(source, chunk) /\ chunk' = chunk
    BY <1>6 DEF DecryptFails, Decrypts, locals
  <2>2. ASSUME ~cut PROVE ~Readable(bytes, chunk)
    <3>1. total = Size(bytes)
      BY <2>1, <2>2 DEF WholeInv, UncutInv
    <3> QED BY <2>1, <3>1, WholeIsFetched DEF WholeInv, Readable
  <2>3. Readable(bytes, chunk)' = Readable(bytes, chunk)
    BY <1>1, <2>1 DEF file, Readable, ChunkAt, Sealed, PlainLength, TotalChunks
  <2> QED BY <1>b, <2>1, <2>2, <2>3 DEF UncutInv, WholeChunkDecrypts
<1> QED BY <1>3, <1>4, <1>5, <1>6 DEF RangeStep

\* The invariant of a file and a read of it, its lengths included, is inductive.
LEMMA WholeStep == ASSUME WholeInv, [Next]_vars PROVE WholeInv'
<1>1. EncFileInv' /\ LengthInv'
  BY Step, LengthStep DEF WholeInv
<1>2. CASE \/ \E n \in 0 .. MaxFileSize + 1 : Truncate(n)
           \/ \E offset \in 0 .. MaxFileSize, n \in 1 .. 2 : Write(offset, n)
           \/ UNCHANGED vars
  <2>1. UNCHANGED <<source, kdf, damaged, rangeVars>>
    BY <1>2 DEF Truncate, Write, vars, file
  <2>2. cut' = (cut \/ bytes' # bytes)
    <3>1. cut \in BOOLEAN
      BY DEF WholeInv, UncutInv
    <3>2. CASE UNCHANGED vars
      BY <3>1, <3>2 DEF vars, file
    <3> QED BY <1>2, <3>2 DEF Truncate, Write
  <2> QED BY <1>1, <2>1, <2>2, CutStep DEF WholeInv
<1>3. CASE \/ \E offset \in 0 .. MaxOffset, n \in 1 .. MaxOffset : Read(n, offset)
           \/ \E b, e \in 0 .. MaxOffset : ReadRange(b, e)
  <2>1. UNCHANGED file /\ total' = Size(bytes) /\ pc' = "start" /\ cut' = FALSE
    BY <1>3 DEF Read, ReadRange, CallRange
  <2>2. Size(bytes)' = Size(bytes)
    BY <2>1 DEF file, Size, DecryptedSize
  <2> QED BY <1>1, <2>1, <2>2 DEF WholeInv, UncutInv, WholeChunkDecrypts
<1>4. CASE RangeStep /\ UNCHANGED <<ok, cut, ops>>
  BY <1>1, <1>4, RangeKeepsWhole DEF WholeInv
<1> QED BY <1>2, <1>3, <1>4 DEF Next

\* Whatever is cut off the file, wherever the range begins and however short the
\* last chunk is: a chunk is fetched to the byte as it lies in the file, so that
\* read_encrypted_range fails on none that decrypts, unless the file was cut
\* after the call had taken its size.
THEOREM WholeChunksDecrypt == Spec => []WholeChunkDecrypts
<1>1. WholeInv => WholeChunkDecrypts
  BY DEF WholeInv
<1> QED BY WholeInit, WholeStep, <1>1, PTL DEF Spec

-----------------------------------------------------------------------------
(* Truncations.                                                            *)

\* What a cut leaves of the file can be read as before.
LEMMA CutReads ==
  ASSUME FileInv, LengthInv, kdf = 0, NEW n \in Nat, n < Size(bytes),
         bytes' = CutTo(bytes, RealSize(n)),
         NEW c \in Nat, c < n \div DataChunk
  PROVE  Readable(bytes', c) <=> Readable(bytes, c)
<1> DEFINE m == Len(bytes)
           e == EncryptedChunk * c
           k == RealSize(n)
<1>1. /\ m \in Nat /\ bytes = [p \in 1 .. m |-> bytes[p]] /\ kdf \in Nat
  BY FileIs
<1>2. /\ Len(bytes') = k /\ bytes' = [p \in 1 .. k |-> bytes[p]] /\ k \in 0 .. m
  BY CutSize
<1>3. PICK s \in Nat : m = kdf + RealSize(s)
  BY DEF LengthInv
<1>4. Size(bytes) = s
  BY <1>1, <1>3, SizeOfReal
<1>5. /\ n \div DataChunk \in Int /\ n % DataChunk \in 0 .. DataChunk - 1
      /\ n = DataChunk * (n \div DataChunk) + (n % DataChunk)
      /\ DataChunk * c + DataChunk <= DataChunk * (n \div DataChunk)
  <2>1. n \in Int
    OBVIOUS
  <2>2. n \div DataChunk \in Int
    BY <2>1, Constants, Divided
  <2>3. /\ n % DataChunk \in 0 .. DataChunk - 1
        /\ n = DataChunk * (n \div DataChunk) + (n % DataChunk)
    BY <2>1, Constants, Divided
  <2>4. DataChunk * c + DataChunk <= DataChunk * (n \div DataChunk)
    BY <2>2, Constants, NextMultiple
  <2> QED BY <2>2, <2>3, <2>4
<1>6. DataChunk * c \in Nat /\ DataChunk * c + DataChunk <= n
  <2>1. DataChunk * c \in Nat
    BY Constants
  <2> QED BY <1>5, <2>1, Constants
<1>7. DataChunk * c < n /\ DataChunk * c < s /\ n < s
  BY <1>4, <1>6, Constants
<1> DEFINE l == ChunkLength(s, c)
<1>8. l = ChunkLength(n, c)
  BY <1>6, <1>7, Constants DEF ChunkLength
<1>9. ChunkAt(bytes, c) = [i \in 1 .. l |-> bytes[kdf + e + i]]
  BY <1>1, <1>3, <1>7, ChunkIsThere
<1>10. /\ l \in Nat /\ kdf + e + l <= k
       /\ ChunkAt(bytes', c) = [i \in 1 .. l |-> bytes'[kdf + e + i]]
  <2>1. k \in Nat /\ k = kdf + RealSize(n) /\ bytes' = [p \in 1 .. k |-> bytes'[p]]
    BY <1>1, <1>2
  <2> HIDE DEF k
  <2> QED BY <1>1, <1>7, <1>8, <2>1, ChunkIsThere
<1>11. e \in Nat
  BY Constants
<1> HIDE DEF m, e, k, l
<1>12. \A i \in 1 .. l : bytes'[kdf + e + i] = bytes[kdf + e + i]
  BY <1>1, <1>2, <1>10, <1>11
<1>13. ChunkAt(bytes', c) = ChunkAt(bytes, c)
  BY <1>9, <1>10, <1>12
<1> QED BY <1>13 DEF Readable

\* What truncate() may come to, with its result.
LEMMA TruncatedTo ==
  ASSUME NEW n \in Nat, Size(bytes) \in Int, Truncate(n)
  PROVE  /\ kdf = 0 /\ UNCHANGED <<source, kdf, damaged>>
         /\ \/ n = 0 /\ bytes' = <<>> /\ ok' = TRUE
            \/ n = Size(bytes) /\ bytes' = bytes /\ ok' = TRUE
            \/ bytes' = bytes /\ ok' = FALSE
            \/ /\ n < Size(bytes) /\ bytes' = CutTo(bytes, RealSize(n))
               /\ ok' => n % DataChunk = 0
<1>1. PICK r \in Truncated(bytes, n) : bytes' = r.bytes /\ ok' = r.ok
  BY DEF Truncate
<1>2. kdf = 0 /\ UNCHANGED <<source, kdf, damaged>>
  BY DEF Truncate
<1>3. CASE n = 0
  BY <1>1, <1>2, <1>3 DEF Truncated, Unchanged
<1>4. CASE n > 0 /\ n = Size(bytes)
  BY <1>1, <1>2, <1>4 DEF Truncated
<1>5. CASE n > 0 /\ n > Size(bytes)
  BY <1>1, <1>2, <1>5 DEF Truncated, Unchanged
<1>6. CASE n > 0 /\ n < Size(bytes) /\ n % DataChunk = 0
  BY <1>1, <1>2, <1>6 DEF Truncated, Unchanged
<1>7. CASE n > 0 /\ n < Size(bytes) /\ n % DataChunk # 0
  BY <1>1, <1>2, <1>7 DEF Truncated, Unchanged, CutInside, Rewritten
<1>8. \/ n = 0
      \/ n > 0 /\ n = Size(bytes)
      \/ n > 0 /\ n > Size(bytes)
      \/ n > 0 /\ n < Size(bytes)
  OBVIOUS
<1>9. n % DataChunk = 0 \/ n % DataChunk # 0
  OBVIOUS
<1> QED BY <1>3, <1>4, <1>5, <1>6, <1>7, <1>8, <1>9

\* The chunk a byte of a file lies in, and whether it is before a cut.
LEMMA ByteBefore ==
  ASSUME NEW n \in Nat, NEW p \in Nat
  PROVE  /\ p \div DataChunk \in Nat /\ n \div DataChunk \in Nat
         /\ p \div DataChunk < n \div DataChunk => p < n
         /\ n % DataChunk = 0 /\ p < n => p \div DataChunk < n \div DataChunk
<1> DEFINE q == p \div DataChunk
           t == n \div DataChunk
<1>1. /\ q \in Int /\ p % DataChunk \in 0 .. DataChunk - 1
      /\ p = DataChunk * q + (p % DataChunk) /\ q >= 0
  <2>1. p \in Int /\ p >= 0
    OBVIOUS
  <2> QED BY <2>1, Constants, Divided
<1>2. /\ t \in Int /\ n % DataChunk \in 0 .. DataChunk - 1
      /\ n = DataChunk * t + (n % DataChunk) /\ t >= 0
  <2>1. n \in Int /\ n >= 0
    OBVIOUS
  <2> QED BY <2>1, Constants, Divided
<1> DEFINE dq == DataChunk * q
           dt == DataChunk * t
           r == p % DataChunk
           s == n % DataChunk
<1>3. q < t => dq + DataChunk <= dt
  BY <1>1, <1>2, Constants, NextMultiple
<1>4. t < q => dt + DataChunk <= dq
  BY <1>1, <1>2, Constants, NextMultiple
<1>5. q = t => dq = dt
  OBVIOUS
<1>6. dq \in Int /\ dt \in Int /\ DataChunk \in Nat \ {0}
  BY <1>1, <1>2, Constants
<1> HIDE DEF q, t, dq, dt, r, s
<1>7. q < t => p < n
  BY ONLY <1>1, <1>2, <1>3, <1>6 DEF dq, dt, r, s
<1>8. s = 0 /\ p < n => q < t
  BY ONLY <1>1, <1>2, <1>4, <1>5, <1>6 DEF dq, dt, r, s
<1> QED BY <1>1, <1>2, <1>7, <1>8 DEF q, t, s

\* A truncation that reports success has come to the size it was asked for, and
\* leaves every byte before the cut that could be read, and only those.
LEMMA SuccessfulTruncate ==
  ASSUME FileInv, LengthInv, NEW n \in Nat, Truncate(n), ok'
  PROVE  /\ Size(bytes') = n
         /\ ReadableBytes(bytes') = ReadableBytes(bytes) \cap 0 .. n - 1
<1>1. Size(bytes) \in Int /\ kdf \in Nat
  BY FileIs, SizeIsInt
<1>2. kdf = 0
  BY <1>1, TruncatedTo
<1>3. CASE n = 0 /\ bytes' = <<>>
  <2>1. Size(bytes') = 0
    <3>1. Len(bytes') = kdf + RealSize(0)
      <4>1. 0 \div DataChunk = 0 /\ 0 % DataChunk = 0
        BY Constants
      <4>2. RealSize(0) = 0
        BY <4>1, Constants DEF RealSize
      <4> QED BY <1>2, <1>3, <4>2
    <3> QED BY <1>1, <3>1, SizeOfReal
  <2> QED BY <1>3, <2>1 DEF ReadableBytes
<1>4. CASE n = Size(bytes) /\ bytes' = bytes
  BY <1>4 DEF ReadableBytes
<1>5. CASE /\ n < Size(bytes) /\ bytes' = CutTo(bytes, RealSize(n))
           /\ n % DataChunk = 0
  <2>1. Size(bytes') = n
    <3>1. Len(bytes') = kdf + RealSize(n)
      BY <1>2, <1>5, CutSize
    <3> QED BY <1>1, <3>1, SizeOfReal
  <2>2. ASSUME NEW p \in 0 .. n - 1
        PROVE  Readable(bytes', p \div DataChunk) <=> Readable(bytes, p \div DataChunk)
    <3>1. p \in Nat /\ p < n
      OBVIOUS
    <3>2. p \div DataChunk \in Nat /\ p \div DataChunk < n \div DataChunk
      BY <1>5, <3>1, ByteBefore
    <3> QED BY <1>2, <1>5, <3>2, CutReads
  <2>3. ReadableBytes(bytes') = {p \in 0 .. n - 1 : Readable(bytes, p \div DataChunk)}
    BY <2>1, <2>2 DEF ReadableBytes
  <2>4. ReadableBytes(bytes) \cap 0 .. n - 1
          = {p \in 0 .. n - 1 : Readable(bytes, p \div DataChunk)}
    BY <1>1, <1>5 DEF ReadableBytes
  <2> QED BY <2>1, <2>3, <2>4
<1> QED BY <1>1, <1>3, <1>4, <1>5, TruncatedTo

\* One that fails may have cut the file, and then inside the chunk of its new
\* end: the chunks before that one are as they were.
LEMMA FailedTruncate ==
  ASSUME FileInv, LengthInv, NEW n \in Nat, Truncate(n), ~ok',
         NEW p \in ReadableBytes(bytes), p \div DataChunk < n \div DataChunk
  PROVE  p \in ReadableBytes(bytes')
<1>1. Size(bytes) \in Int /\ kdf \in Nat
  BY FileIs, SizeIsInt
<1>2. kdf = 0
  BY <1>1, TruncatedTo
<1>3. CASE bytes' = bytes
  BY <1>3
<1>4. CASE n < Size(bytes) /\ bytes' = CutTo(bytes, RealSize(n))
  <2>1. Size(bytes') = n
    <3>1. Len(bytes') = kdf + RealSize(n)
      BY <1>2, <1>4, CutSize
    <3> QED BY <1>1, <3>1, SizeOfReal
  <2>2. p \in Nat /\ Readable(bytes, p \div DataChunk)
    BY <1>1 DEF ReadableBytes
  <2>3. p \div DataChunk \in Nat /\ p < n
    BY <2>2, ByteBefore
  <2>4. Readable(bytes', p \div DataChunk)
    BY <1>2, <1>4, <2>2, <2>3, CutReads
  <2> QED BY <2>1, <2>2, <2>3, <2>4 DEF ReadableBytes
<1> QED BY <1>1, <1>3, <1>4, TruncatedTo

\* truncate() that reports success has made the file exactly that long, and
\* whatever was readable before the cut is readable after it.
THEOREM TruncatesExactly == Spec => TruncateIsExact
<1>1. WholeInv /\ [Next]_vars =>
        [\A n \in 0 .. MaxFileSize + 1 : Truncate(n) /\ ok' =>
           /\ Size(bytes') = n
           /\ ReadableBytes(bytes') = ReadableBytes(bytes) \cap 0 .. n - 1]_vars
  BY SuccessfulTruncate DEF WholeInv, EncFileInv
<1> QED BY WholeInit, WholeStep, <1>1, PTL DEF Spec, TruncateIsExact

\* truncate() that fails, at whichever of its calls, has not cost a byte of the
\* chunks before the one it was to end in.
THEOREM FailedTruncateSpares == Spec => FailedTruncateSparesTheRest
<1>1. WholeInv /\ [Next]_vars =>
        [\A n \in 0 .. MaxFileSize + 1 : Truncate(n) /\ ~ok' =>
           \A p \in ReadableBytes(bytes) :
             p \div DataChunk < n \div DataChunk => p \in ReadableBytes(bytes')]_vars
  BY FailedTruncate DEF WholeInv, EncFileInv
<1> QED BY WholeInit, WholeStep, <1>1, PTL DEF Spec, FailedTruncateSparesTheRest
=============================================================================
