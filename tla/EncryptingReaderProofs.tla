----------------------- MODULE EncryptingReaderProofs -----------------------
(***************************************************************************)
(* Proofs about EncryptingReader, for chunks, headers, sources and         *)
(* requests of any size: what it hands out is the encrypted file.          *)
(***************************************************************************)
EXTENDS EncryptingReader, TLAPS

-----------------------------------------------------------------------------
(* Division.                                                               *)

\* Quotient and remainder.
LEMMA Divided ==
  ASSUME NEW n \in Int, NEW d \in Nat \ {0}
  PROVE  /\ n \div d \in Int /\ n % d \in 0 .. d - 1
         /\ n = d * (n \div d) + (n % d)
         /\ n >= 0 => n \div d >= 0
OBVIOUS

\* A multiple of d is at least d before any later one.
LEMMA NextMultiple ==
  ASSUME NEW d \in Nat \ {0}, NEW q \in Int, NEW p \in Int, q < p
  PROVE  d * q + d <= d * p
<1> DEFINE k == p - q - 1
<1>1. k \in Nat /\ p = q + 1 + k
  OBVIOUS
<1> HIDE DEF k
<1>2. d * k >= 0 /\ d * p = d * q + d + d * k
  BY <1>1
<1> QED BY <1>1, <1>2

\* The same of natural numbers.
LEMMA DividedNat ==
  ASSUME NEW n \in Nat, NEW d \in Nat \ {0}
  PROVE  /\ n \div d \in Nat /\ n % d \in 0 .. d - 1
         /\ n = d * (n \div d) + (n % d)
OBVIOUS

\* Adding to both sides.
LEMMA AddToBoth ==
  ASSUME NEW a \in Nat, NEW b \in Nat, NEW c \in Nat, NEW e \in Nat, b + c <= e
  PROVE  a + b + c <= a + e
OBVIOUS

\* Quotient and remainder are the only ones.
LEMMA QuotientIs ==
  ASSUME NEW d \in Nat \ {0}, NEW q \in Int, NEW r \in 0 .. d - 1
  PROVE  (d * q + r) \div d = q /\ (d * q + r) % d = r
OBVIOUS

\* divide_with_ceiling: the smallest multiple that is not below n.
LEMMA CeilingIs ==
  ASSUME NEW n \in Int, NEW d \in Nat \ {0}
  PROVE  /\ DivideWithCeiling(n, d) \in Int
         /\ n <= d * DivideWithCeiling(n, d)
         /\ d * DivideWithCeiling(n, d) < n + d
<1>1. /\ n \div d \in Int /\ n % d \in 0 .. d - 1
      /\ n = d * (n \div d) + (n % d)
  BY Divided
<1> DEFINE q == n \div d
           r == n % d
<1> HIDE DEF q, r
<1>2. d * (q + 1) = d * q + d /\ d * (q + 0) = d * q
  BY <1>1 DEF q
<1> QED BY <1>1, <1>2 DEF DivideWithCeiling, q, r

-----------------------------------------------------------------------------
(* What one sequence behind another holds.                                 *)

\* The elements of two sequences one after the other.
LEMMA Appended ==
  ASSUME NEW m \in Nat, NEW k \in Nat, NEW s, NEW t,
         s = [i \in 1 .. m |-> s[i]], t = [i \in 1 .. k |-> t[i]]
  PROVE  /\ s \o t = [i \in 1 .. m + k |-> IF i <= m THEN s[i] ELSE t[i - m]]
         /\ Len(s \o t) = m + k
<1> DEFINE S == {s[i] : i \in 1 .. m} \cup {t[i] : i \in 1 .. k}
<1>1. s \in Seq(S) /\ t \in Seq(S) /\ Len(s) = m /\ Len(t) = k
  <2>1. \A i \in 1 .. m : s[i] \in S
    OBVIOUS
  <2>2. \A i \in 1 .. k : t[i] \in S
    OBVIOUS
  <2> HIDE DEF S
  <2>3. s \in [1 .. m -> S] /\ t \in [1 .. k -> S]
    BY <2>1, <2>2
  <2> QED BY <2>3
<1> HIDE DEF S
<1>2. s \o t \in Seq(S) /\ Len(s \o t) = m + k
  BY <1>1
<1>3. s \o t = [i \in 1 .. m + k |-> (s \o t)[i]]
  BY <1>2
<1>4. \A i \in 1 .. m + k : (s \o t)[i] = IF i <= m THEN s[i] ELSE t[i - m]
  BY <1>1
<1> QED BY <1>2, <1>3, <1>4

-----------------------------------------------------------------------------
(* The layout.                                                             *)

\* The assumptions, in the form the arithmetic uses.
LEMMA Constants ==
  /\ DataChunk \in Nat \ {0} /\ Overhead \in Nat \ {0}
  /\ EncryptedChunk \in Nat \ {0} /\ EncryptedChunk = DataChunk + Overhead
  /\ KdfSize \in Nat \ {0} /\ FileSizes \subseteq Nat /\ Requests \subseteq Nat \ {0}
BY LayoutAssumption, ReaderAssumption DEF EncryptedChunk

\* A place is in one chunk, at one offset.
LEMMA PlaceInChunk ==
  ASSUME NEW n \in Nat
  PROVE  /\ n \div EncryptedChunk \in Nat
         /\ n % EncryptedChunk \in 0 .. EncryptedChunk - 1
         /\ n = EncryptedChunk * (n \div EncryptedChunk) + (n % EncryptedChunk)
<1>1. EncryptedChunk \in Nat \ {0}
  BY Constants
<1> QED BY <1>1, DividedNat

\* Where a chunk starts and the next one does.
LEMMA ChunkStart ==
  ASSUME NEW c \in Nat
  PROVE  /\ EncryptedChunk * c \in Nat
         /\ EncryptedChunk * (c + 1) = EncryptedChunk * c + EncryptedChunk
<1>1. EncryptedChunk \in Nat
  BY Constants
<1> QED BY <1>1

\* The last chunk of the source is what the others leave of it.
LEMMA LastChunk ==
  ASSUME fileSize \in Nat \ {0}
  PROVE  /\ LastDataChunkSize \in 1 .. DataChunk
         /\ DataChunk * (TotalChunks(fileSize) - 1) + LastDataChunkSize = fileSize
<1> USE Constants
<1> DEFINE t == TotalChunks(fileSize)
           q == fileSize \div DataChunk
           r == fileSize % DataChunk
<1>1. q \in Int /\ r \in 0 .. DataChunk - 1 /\ fileSize = DataChunk * q + r
  BY Divided
<1>2. t = q + (IF r # 0 THEN 1 ELSE 0)
  BY DEF TotalChunks, DivideWithCeiling
<1>3. q >= 0
  BY Divided
<1>4. /\ fileSize <= DataChunk => LastDataChunkSize = fileSize
      /\ fileSize > DataChunk /\ r = 0 => LastDataChunkSize = DataChunk
      /\ fileSize > DataChunk /\ r # 0 => LastDataChunkSize = r
  BY DEF LastDataChunkSize
<1> HIDE DEF t, q, r
<1>5. DataChunk * (q - 1) = DataChunk * q - DataChunk /\ DataChunk * (q + 1 - 1) = DataChunk * q
  BY <1>1
<1>6. CASE fileSize > DataChunk
  BY <1>1, <1>2, <1>4, <1>5, <1>6 DEF t
<1>7. CASE fileSize <= DataChunk
  <2>1. q > 0 => DataChunk * 0 + DataChunk <= DataChunk * q
    BY <1>1, NextMultiple
  <2>2. q > 1 => DataChunk * 1 + DataChunk <= DataChunk * q
    BY <1>1, NextMultiple
  <2>3. t = 1
    BY <1>1, <1>2, <1>3, <1>7, <2>1, <2>2
  <2> QED BY <1>4, <1>7, <2>3 DEF t
<1> QED BY <1>6, <1>7

\* An offset that is not behind the encrypted data is in the buffer of its
\* chunk, and any but the last buffer is followed by the next.
LEMMA InBuffer ==
  ASSUME fileSize \in Nat, NEW c \in Nat, NEW o \in 0 .. EncryptedChunk - 1,
         NEW m \in Nat \ {0},
         EncryptedChunk * c + o + m <= fileSize + TotalChunks(fileSize) * Overhead
  PROVE  /\ BufferSize(c) \in 1 .. EncryptedChunk
         /\ o < BufferSize(c)
         /\ m > BufferSize(c) - o => BufferSize(c) = EncryptedChunk
<1> USE Constants
<1> DEFINE t == TotalChunks(fileSize)
<1>1. t \in Int /\ fileSize <= DataChunk * t /\ DataChunk * t < fileSize + DataChunk
  BY CeilingIs DEF TotalChunks
<1>2. BufferSize(c) = Overhead + (IF c = t - 1 THEN LastDataChunkSize ELSE DataChunk)
  BY DEF BufferSize
<1> HIDE DEF t
<1>3. EncryptedChunk * c \in Nat /\ EncryptedChunk * t = DataChunk * t + t * Overhead
  BY <1>1
<1>4. c < t
  <2>1. CASE t <= c
    <3>1. EncryptedChunk * t <= EncryptedChunk * c
      <4>1. t < c => EncryptedChunk * t + EncryptedChunk <= EncryptedChunk * c
        BY <1>1, NextMultiple
      <4> QED BY <1>1, <2>1, <4>1
    <3> QED BY <1>1, <1>3, <3>1 DEF t
  <2> QED BY <1>1, <2>1
<1>5. fileSize # 0
  <2>1. DataChunk * c + DataChunk <= DataChunk * t
    BY <1>1, <1>4, NextMultiple
  <2>2. DataChunk * c >= 0
    OBVIOUS
  <2> QED BY <1>1, <2>1, <2>2
<1>6. CASE c = t - 1
  <2>1. /\ LastDataChunkSize \in 1 .. DataChunk
        /\ DataChunk * c + LastDataChunkSize = fileSize
    BY <1>5, <1>6, LastChunk DEF t
  <2>2. EncryptedChunk * c = DataChunk * c + t * Overhead - Overhead
    BY <1>1, <1>6
  <2>3. t * Overhead \in Int /\ DataChunk * c \in Int
    BY <1>1
  <2> QED BY <1>2, <1>6, <2>1, <2>2, <2>3 DEF t
<1>7. CASE c # t - 1
  BY <1>2, <1>7
<1> QED BY <1>6, <1>7

-----------------------------------------------------------------------------
(* The invariant.                                                          *)

\* A buffer that was not filled belongs to a chunk a read failed for.
CacheInv ==
  /\ cache = [c \in DOMAIN cache |-> cache[c]]
  /\ \A c \in DOMAIN cache : cache[c] = "sealed" \/ (cache[c] = "zeroed" /\ c \in failed)

\* What was handed out ends where the next read begins.
DestInv ==
  /\ from \in Nat /\ readOffset \in Nat
  /\ \E n \in Nat : dest = [i \in 1 .. n |-> dest[i]]
  /\ from + Len(dest) = readOffset
  /\ DeliversTheCipher

\* In the loop, what remains is there, and the chunk and the offset in it say
\* where the reader is.
LoopInv ==
  pc = "loop" =>
    /\ chunk \in Nat /\ chunkOffset \in 0 .. EncryptedChunk - 1 /\ remain \in Nat
    /\ remain # 0 =>
         /\ readOffset = kdf + EncryptedChunk * chunk + chunkOffset
         /\ readOffset + remain <= Total

ReaderInv ==
  /\ fileSize \in Nat /\ kdf \in Nat
  /\ CacheInv /\ DestInv /\ LoopInv

\* The size of the encrypted file.
LEMMA TotalIs ==
  ASSUME fileSize \in Nat
  PROVE  /\ Total = fileSize + TotalChunks(fileSize) * Overhead + kdf
         /\ TotalChunks(fileSize) * Overhead \in Nat
<1> DEFINE t == TotalChunks(fileSize)
<1>1. t \in Int /\ fileSize <= DataChunk * t
  BY Constants, CeilingIs DEF TotalChunks
<1> HIDE DEF t
<1>2. t >= 0
  <2>1. CASE t < 0
    <3>1. DataChunk * t + DataChunk <= DataChunk * 0
      BY <1>1, <2>1, Constants, NextMultiple
    <3> QED BY <1>1, <3>1, Constants
  <2> QED BY <1>1, <2>1
<1>3. t * Overhead \in Nat
  BY <1>1, <1>2, Constants
<1> QED BY <1>3 DEF Total, EncryptedSize, t

\* A new reader has handed nothing out and cached nothing.
LEMMA Initially == Init => ReaderInv
<1> SUFFICES ASSUME Init PROVE ReaderInv
  OBVIOUS
<1> USE DEF Init
<1>1. fileSize \in Nat /\ kdf \in Nat
  BY Constants
<1>2. CacheInv
  BY DEF CacheInv
<1>3. dest = [i \in 1 .. 0 |-> dest[i]] /\ Len(dest) = 0
  OBVIOUS
<1>4. DestInv
  BY <1>3 DEF DestInv, DeliversTheCipher
<1> QED BY <1>1, <1>2, <1>4 DEF ReaderInv, LoopInv

-----------------------------------------------------------------------------
(* The steps.                                                              *)

\* The header, as much of it as is asked for and left.
LEMMA CallStep ==
  ASSUME ReaderInv, NEW n \in Requests, ReadHeader(n) \/ Start(n)
  PROVE  ReaderInv'
<1> USE Constants DEF ReaderInv
<1> DEFINE h == HeaderPart(n)
<1>1. /\ UNCHANGED <<fileSize, kdf, cache, failed>>
      /\ from' = readOffset /\ readOffset' = readOffset + h
      /\ dest' = [i \in 1 .. h |-> <<"kdf", 0, readOffset + i - 1>>]
  BY DEF ReadHeader, Start, NewCall, HeaderBytes
<1>2. kdf \in Nat /\ readOffset \in Nat /\ n \in Nat \ {0} /\ fileSize \in Nat
  BY DEF DestInv
<1>3. /\ h \in Nat /\ h <= n
      /\ readOffset < kdf => readOffset + h <= kdf
      /\ readOffset < kdf /\ h < n => readOffset + h = kdf
      /\ readOffset >= kdf => h = 0
  BY <1>2 DEF HeaderPart, ReadSize
<1> HIDE DEF h
<1>4. Len(dest') = h
  BY <1>1, <1>3
<1>5. \A i \in 1 .. h : dest'[i] = Cipher(kdf, readOffset + i - 1)
  BY <1>1, <1>2, <1>3 DEF Cipher
<1>6. DeliversTheCipher'
  <2>1. \A i \in 1 .. h : Cipher(kdf', from' + i - 1) = Cipher(kdf, readOffset + i - 1)
    BY <1>1
  <2>2. \A i \in 1 .. Len(dest') : dest'[i] = Cipher(kdf', from' + i - 1)
    BY <1>4, <1>5, <2>1
  <2> QED BY <2>2 DEF DeliversTheCipher, Cipher
<1>7. DestInv'
  <2>1. dest' = [i \in 1 .. h |-> dest'[i]]
    BY <1>1
  <2> QED BY <1>1, <1>2, <1>3, <1>4, <1>6, <2>1 DEF DestInv
<1>8. CacheInv'
  BY <1>1 DEF CacheInv
<1>9. LoopInv'
  <2>1. CASE ReadHeader(n)
    <3>1. pc' = pc /\ pc = "idle"
      BY <2>1 DEF ReadHeader, NewCall
    <3> QED BY <3>1 DEF LoopInv
  <2>2. CASE Start(n)
    <3> DEFINE d == DataOffset
               e == Total - kdf
    <3>1. /\ h < n /\ pc' = "loop"
          /\ chunk' = d \div EncryptedChunk /\ chunkOffset' = d % EncryptedChunk
          /\ remain' = ReadSize(e, n - h, d)
      BY <2>2 DEF Start, h
    <3>2. d \in Nat /\ readOffset' = kdf + d
      BY <1>1, <1>2, <1>3, <3>1 DEF DataOffset
    <3>3. e \in Nat
      BY <1>2, TotalIs
    <3> HIDE DEF d, e
    <3>4. remain' \in Nat /\ (remain' # 0 => d + remain' <= e)
      BY <1>2, <1>3, <3>1, <3>2, <3>3 DEF ReadSize
    <3>5. /\ chunk' \in Nat /\ chunkOffset' \in 0 .. EncryptedChunk - 1
          /\ d = EncryptedChunk * chunk' + chunkOffset'
      <4>1. /\ d \div EncryptedChunk \in Nat
            /\ d % EncryptedChunk \in 0 .. EncryptedChunk - 1
            /\ d = EncryptedChunk * (d \div EncryptedChunk) + (d % EncryptedChunk)
        BY <3>2, PlaceInChunk
      <4> QED BY <3>1, <4>1
    <3>6. Total' = kdf + e /\ kdf' = kdf
      <4>1. Total' = Total /\ kdf' = kdf
        BY <1>1 DEF Total, EncryptedSize, TotalChunks
      <4> QED BY <1>2, <3>3, <4>1, TotalIs DEF e
    <3>7. EncryptedChunk * chunk' \in Nat
      BY <3>5, ChunkStart
    <3>8. remain' # 0 => /\ readOffset' = kdf' + EncryptedChunk * chunk' + chunkOffset'
                         /\ readOffset' + remain' <= Total'
      <4>1. chunkOffset' \in Nat
        BY <3>5
      <4>2. readOffset' = kdf' + EncryptedChunk * chunk' + chunkOffset'
        BY <1>2, <3>2, <3>5, <3>6, <3>7, <4>1
      <4>3. remain' # 0 => readOffset' + remain' <= Total'
        <5> SUFFICES ASSUME remain' # 0 PROVE kdf + d + remain' <= kdf + e
          BY <3>2, <3>6
        <5>1. /\ kdf \in Nat /\ d \in Nat /\ remain' \in Nat /\ e \in Nat
              /\ d + remain' <= e
          BY <1>2, <3>2, <3>3, <3>4
        <5> QED BY <5>1, AddToBoth
      <4> QED BY <4>2, <4>3
    <3> QED BY <3>4, <3>5, <3>8 DEF LoopInv
  <2> QED BY <2>1, <2>2
<1> QED BY <1>1, <1>7, <1>8, <1>9

\* What a turn finds or makes of the buffer, sealed unless the read failed.
LEMMA FilledBuffer ==
  ASSUME CacheInv, chunk \in Nat, Fill \/ Reuse
  PROVE  /\ CacheInv'
         /\ failed \subseteq failed'
         /\ cache'[chunk] = "sealed" \/ (cache'[chunk] = "zeroed" /\ chunk \in failed')
<1>1. CASE Fill
  <2>1. /\ chunk \notin DOMAIN cache
        /\ \E content \in {"sealed", "zeroed"} :
             /\ cache' = [c \in DOMAIN cache \cup {chunk} |->
                            IF c = chunk THEN content ELSE cache[c]]
             /\ failed \subseteq failed'
             /\ content = "zeroed" => chunk \in failed'
    BY <1>1 DEF Fill
  <2> QED BY <2>1 DEF CacheInv
<1>2. CASE Reuse
  <2>1. /\ chunk \in DOMAIN cache /\ failed' = failed
        /\ cache' = [c \in DOMAIN cache \ {chunk - 1} |-> cache[c]]
    BY <1>2 DEF Reuse
  <2> QED BY <2>1 DEF CacheInv
<1> QED BY <1>1, <1>2

\* A turn hands out the bytes from the offset to the end of the buffer or of
\* the request.
LEMMA TurnStep == ASSUME ReaderInv, Turn PROVE ReaderInv'
<1> USE DEF ReaderInv
<1> DEFINE b == BufferSize(chunk)
           content == cache'[chunk]
           k == IF b - chunkOffset < remain THEN b - chunkOffset ELSE remain
           x == EncryptedChunk * chunk
<1>1. /\ UNCHANGED <<fileSize, kdf, pc, from>> /\ pc = "loop" /\ remain # 0
      /\ Fill \/ Reuse
      /\ dest' = dest \o Bytes(chunk, content, chunkOffset, k)
      /\ remain' = remain - k /\ readOffset' = readOffset + k
      /\ chunk' = chunk + 1 /\ chunkOffset' = 0
  BY DEF Turn, CopyOut, NextChunk
<1>2. /\ chunk \in Nat /\ chunkOffset \in 0 .. EncryptedChunk - 1 /\ remain \in Nat \ {0}
      /\ fileSize \in Nat /\ kdf \in Nat /\ from \in Nat /\ readOffset \in Nat
      /\ readOffset = kdf + x + chunkOffset /\ readOffset + remain <= Total
  BY <1>1 DEF LoopInv, DestInv
<1>3. EncryptedChunk \in Nat \ {0} /\ x \in Nat /\ EncryptedChunk * (chunk + 1) = x + EncryptedChunk
  BY <1>2, Constants, ChunkStart
<1>4. /\ Total = fileSize + TotalChunks(fileSize) * Overhead + kdf
      /\ TotalChunks(fileSize) * Overhead \in Nat
  BY <1>2, TotalIs
<1>5. x + chunkOffset + remain <= fileSize + TotalChunks(fileSize) * Overhead
  <2> HIDE DEF x
  <2> QED BY <1>2, <1>3, <1>4
<1>6. /\ b \in 1 .. EncryptedChunk /\ chunkOffset < b
      /\ remain > b - chunkOffset => b = EncryptedChunk
  BY <1>2, <1>5, InBuffer
<1>7. /\ k \in Nat /\ k <= remain /\ chunkOffset + k <= EncryptedChunk
      /\ k # remain => chunkOffset + k = EncryptedChunk
  BY <1>2, <1>3, <1>6
<1>8. /\ CacheInv' /\ failed \subseteq failed'
      /\ content = "sealed" \/ (content = "zeroed" /\ chunk \in failed')
  BY <1>1, <1>2, FilledBuffer
<1> HIDE DEF k, b, content, x
<1>9. PICK m \in Nat : dest = [i \in 1 .. m |-> dest[i]]
  BY DEF DestInv
<1>10. Len(dest) = m /\ from + m = readOffset
  BY <1>9 DEF DestInv
<1>11. dest' = dest \o [i \in 1 .. k |-> <<content, chunk, chunkOffset + i - 1>>]
  BY <1>1 DEF Bytes
<1>12. /\ \A i \in 1 .. m : dest'[i] = dest[i]
       /\ \A i \in m + 1 .. m + k : dest'[i] = <<content, chunk, chunkOffset + (i - m) - 1>>
       /\ Len(dest') = m + k
       /\ dest' = [i \in 1 .. m + k |-> dest'[i]]
  <2> DEFINE t == [i \in 1 .. k |-> <<content, chunk, chunkOffset + i - 1>>]
  <2>1. t = [i \in 1 .. k |-> t[i]]
    OBVIOUS
  <2>2. \A i \in 1 .. k : t[i] = <<content, chunk, chunkOffset + i - 1>>
    OBVIOUS
  <2>3. dest' = dest \o t
    BY <1>11
  <2> HIDE DEF t
  <2>4. /\ dest' = [i \in 1 .. m + k |-> IF i <= m THEN dest[i] ELSE t[i - m]]
        /\ Len(dest') = m + k
    BY <1>7, <1>9, <2>1, <2>3, Appended
  <2>5. m \in Nat /\ k \in Nat
    BY <1>7
  <2>6. \A i \in m + 1 .. m + k : dest'[i] = t[i - m] /\ i - m \in 1 .. k
    BY <2>4, <2>5
  <2> QED BY <2>2, <2>4, <2>5, <2>6
<1>13. \A i \in 1 .. k : Cipher(kdf, readOffset + i - 1) = <<"sealed", chunk, chunkOffset + i - 1>>
  <2> TAKE i \in 1 .. k
  <2> DEFINE r == chunkOffset + i - 1
             p == readOffset + i - 1
  <2>1. r \in 0 .. EncryptedChunk - 1 /\ p - kdf = x + r /\ ~(p < kdf)
    BY <1>2, <1>3, <1>7
  <2>2. (p - kdf) \div EncryptedChunk = chunk /\ (p - kdf) % EncryptedChunk = r
    <3> HIDE DEF r, p
    <3>1. chunk \in Int /\ EncryptedChunk \in Nat \ {0} /\ r \in 0 .. EncryptedChunk - 1
      BY <1>2, <1>3, <2>1
    <3>2. p - kdf = EncryptedChunk * chunk + r
      BY <2>1 DEF x
    <3>3. /\ (EncryptedChunk * chunk + r) \div EncryptedChunk = chunk
          /\ (EncryptedChunk * chunk + r) % EncryptedChunk = r
      BY <3>1, QuotientIs
    <3> QED BY <3>2, <3>3
  <2> HIDE DEF r, p
  <2>3. Cipher(kdf, p) = <<"sealed", chunk, r>>
    BY <2>1, <2>2 DEF Cipher
  <2> QED BY <2>3 DEF r, p
<1>14. DeliversTheCipher'
  <2> SUFFICES ASSUME NEW i \in 1 .. Len(dest')
               PROVE  \/ dest'[i] = Cipher(kdf, from + i - 1)
                      \/ dest'[i][1] = "zeroed" /\ dest'[i][2] \in failed'
    BY <1>1 DEF DeliversTheCipher, Cipher
  <2>1. m \in Nat /\ k \in Nat /\ i \in 1 .. m + k
    BY <1>7, <1>12
  <2>2. CASE i \in 1 .. m
    <3>1. \/ dest[i] = Cipher(kdf, from + i - 1)
          \/ dest[i][1] = "zeroed" /\ dest[i][2] \in failed
      BY <1>10, <2>2 DEF DestInv, DeliversTheCipher
    <3> QED BY <1>8, <1>12, <2>2, <3>1
  <2>3. CASE i \in m + 1 .. m + k
    <3> DEFINE j == i - m
    <3>1. j \in 1 .. k /\ from + i - 1 = readOffset + j - 1
      BY <1>2, <1>10, <2>1, <2>3
    <3>2. dest'[i] = <<content, chunk, chunkOffset + j - 1>>
      BY <1>12, <2>3
    <3> HIDE DEF j
    <3>3. Cipher(kdf, from + i - 1) = <<"sealed", chunk, chunkOffset + j - 1>>
      BY <1>13, <3>1
    <3> QED BY <1>8, <3>2, <3>3
  <2> QED BY <2>1, <2>2, <2>3
<1>15. DestInv'
  <2>0. from \in Nat /\ m \in Nat /\ k \in Nat /\ from + m = readOffset
    BY <1>2, <1>7, <1>10
  <2>1. /\ from' \in Nat /\ readOffset' \in Nat /\ m + k \in Nat
        /\ from' + Len(dest') = readOffset'
    <3>1. from' = from /\ readOffset' = readOffset + k /\ Len(dest') = m + k
      BY <1>1, <1>12
    <3>2. from + (m + k) = readOffset + k
      BY <2>0
    <3> QED BY <1>2, <2>0, <3>1, <3>2
  <2> QED BY <1>12, <1>14, <2>1 DEF DestInv
<1>16. Total' = Total
  BY <1>1 DEF Total, EncryptedSize, TotalChunks
<1>17. Total \in Nat
  BY <1>2, <1>4
<1>18. /\ chunk' \in Nat /\ chunkOffset' \in 0 .. EncryptedChunk - 1 /\ remain' \in Nat
       /\ EncryptedChunk * chunk' = x + EncryptedChunk
  BY <1>1, <1>2, <1>3, <1>7 DEF x
<1>19. ASSUME remain' # 0
       PROVE  /\ readOffset' = kdf + (x + EncryptedChunk) + 0
              /\ readOffset' + remain' <= Total
  <2>1. k # remain
    BY <1>1, <1>2, <1>19
  <2>2. chunkOffset + k = EncryptedChunk
    BY <1>7, <2>1
  <2>3. readOffset' = kdf + (x + EncryptedChunk) + 0
    BY <1>1, <1>2, <1>3, <1>7, <2>2
  <2>4. readOffset' + remain' = readOffset + remain
    BY <1>1, <1>2, <1>7
  <2> QED BY <1>2, <2>3, <2>4
<1>20. LoopInv'
  <2>1. remain' # 0 =>
          /\ readOffset' = kdf' + EncryptedChunk * chunk' + chunkOffset'
          /\ readOffset' + remain' <= Total'
    BY <1>1, <1>16, <1>18, <1>19
  <2> QED BY <1>18, <2>1 DEF LoopInv
<1> QED BY <1>1, <1>2, <1>8, <1>15, <1>20

\* The end of a call, and what happens between calls.
LEMMA OtherSteps ==
  ASSUME ReaderInv,
         \/ Finish \/ Stop \/ UNCHANGED vars
         \/ \E p \in 0 .. Total : SetReadPosition(p)
  PROVE  ReaderInv'
<1> USE DEF ReaderInv
<1>1. UNCHANGED <<fileSize, kdf, cache, failed>>
  BY DEF Finish, Stop, SetReadPosition, vars
<1>2. CacheInv' /\ fileSize' \in Nat /\ kdf' \in Nat
  BY <1>1 DEF CacheInv
<1>3. Total' = Total
  BY <1>1 DEF Total, EncryptedSize, TotalChunks
<1>4. CASE Finish
  <2>1. pc' = "idle" /\ UNCHANGED <<from, dest, readOffset>>
    BY <1>4 DEF Finish
  <2> QED BY <1>1, <1>2, <2>1 DEF DestInv, DeliversTheCipher, Cipher, LoopInv
<1>5. CASE Stop \/ UNCHANGED vars
  <2>1. UNCHANGED <<pc, chunk, chunkOffset, remain, from, dest, readOffset>>
    BY <1>5 DEF Stop, vars, call
  <2> QED BY <1>1, <1>2, <1>3, <2>1 DEF DestInv, DeliversTheCipher, Cipher, LoopInv
<1>6. ASSUME NEW p \in 0 .. Total, SetReadPosition(p) PROVE ReaderInv'
  <2>1. /\ readOffset' = p /\ from' = p /\ dest' = <<>>
        /\ pc' = "idle"
    BY <1>6 DEF SetReadPosition
  <2>2. p \in Nat
    OBVIOUS
  <2>3. dest' = [i \in 1 .. 0 |-> dest'[i]] /\ Len(dest') = 0
    BY <2>1
  <2>4. DeliversTheCipher'
    BY <2>3 DEF DeliversTheCipher
  <2>5. from' + Len(dest') = readOffset'
    BY <2>1, <2>2, <2>3
  <2>6. \E n \in Nat : dest' = [i \in 1 .. n |-> dest'[i]]
    <3>1. 0 \in Nat
      OBVIOUS
    <3> WITNESS 0 \in Nat
    <3> QED BY <2>3
  <2>7. DestInv'
    BY <2>1, <2>2, <2>4, <2>5, <2>6 DEF DestInv
  <2> QED BY <1>2, <2>1, <2>7 DEF LoopInv
<1> QED BY <1>4, <1>5, <1>6

\* The invariant is inductive.
LEMMA Step == ASSUME ReaderInv, [Next]_vars PROVE ReaderInv'
<1>1. CASE \E n \in Requests : ReadHeader(n) \/ Start(n)
  BY <1>1, CallStep
<1>2. CASE Turn
  BY <1>2, TurnStep
<1>3. CASE ~Turn /\ ~(\E n \in Requests : ReadHeader(n) \/ Start(n))
  BY <1>3, OtherSteps DEF Next
<1> QED BY <1>1, <1>2, <1>3

-----------------------------------------------------------------------------
(* The theorems.                                                           *)

\* In every state of a reader, what it handed out ends where its next read
\* begins, and in the loop of reader_function the chunk and the offset in it
\* are those of read_offset_.
THEOREM ReaderInductive == Spec => []ReaderInv
<1> QED BY Initially, Step, PTL DEF Spec

\* Every byte encrypting_reader::reader_function hands out is the byte of the
\* encrypted file at its offset, unless a read of its chunk has failed, for
\* every size of the source, of the chunks and of the requests.
THEOREM HandsOutTheCipher == Spec => []DeliversTheCipher
<1>1. ReaderInv => DeliversTheCipher
  BY DEF ReaderInv, DestInv
<1> QED BY <1>1, ReaderInductive, PTL

-----------------------------------------------------------------------------
(* How much is handed out.                                                 *)

\* Of what was asked for and is there, what has not been handed out remains.
WantInv ==
  pc = "loop" /\ failed = {} /\ fileSize > 0 /\ from < Total =>
    /\ ret /\ want \in Nat
    /\ Len(dest) + remain = IF from + want > Total THEN Total - from ELSE want

\* The first count of what remains, behind the header.
LEMMA StartWants ==
  ASSUME ReaderInv, ReaderInv', NEW n \in Requests, Start(n)
  PROVE  WantInv'
<1> DEFINE h == HeaderPart(n)
           d == DataOffset
           e == Total - kdf
<1>1. /\ h < n /\ pc' = "loop" /\ want' = n /\ from' = readOffset
      /\ readOffset' = readOffset + h /\ UNCHANGED <<fileSize, kdf, failed>>
      /\ remain' = ReadSize(e, n - h, d) /\ ret' = (d < e)
  BY DEF Start, NewCall
<1>2. kdf \in Nat /\ readOffset \in Nat /\ n \in Nat \ {0} /\ fileSize \in Nat
  BY Constants DEF ReaderInv, DestInv
<1>3. /\ h \in Nat
      /\ readOffset < kdf => readOffset + h = kdf
      /\ readOffset >= kdf => h = 0
  BY <1>1, <1>2 DEF HeaderPart, ReadSize
<1>4. d \in Nat /\ readOffset + h = kdf + d /\ (readOffset < kdf => d = 0)
  BY <1>2, <1>3 DEF DataOffset
<1>5. e \in Nat /\ Total = kdf + e /\ fileSize <= e
  BY <1>2, TotalIs
<1>6. Total' = Total
  BY <1>1 DEF Total, EncryptedSize, TotalChunks
<1>7. Len(dest') = h
  <2>1. dest' = [i \in 1 .. h |-> <<"kdf", 0, readOffset + i - 1>>]
    BY DEF Start, NewCall, HeaderBytes
  <2> QED BY <1>3, <2>1
<1> HIDE DEF h, d, e
<1>8. ASSUME fileSize > 0, readOffset < Total
      PROVE  /\ d < e
             /\ h + remain' = IF readOffset + n > Total THEN Total - readOffset ELSE n
  <2>1. d < e
    BY <1>2, <1>3, <1>4, <1>5, <1>8
  <2>2. remain' = IF d + (n - h) > e THEN e - d ELSE n - h
    BY <1>1, <2>1 DEF ReadSize
  <2>3. Total - readOffset = h + (e - d) /\ (readOffset + n > Total <=> d + (n - h) > e)
    BY <1>2, <1>3, <1>4, <1>5
  <2> QED BY <1>2, <1>3, <1>4, <1>5, <2>1, <2>2, <2>3
<1> QED BY <1>1, <1>2, <1>6, <1>7, <1>8 DEF WantInv

\* What a turn hands out no longer remains.
LEMMA TurnWants ==
  ASSUME ReaderInv, ReaderInv', WantInv, Turn
  PROVE  WantInv'
<1> DEFINE size == BufferSize(chunk) - chunkOffset
           k == IF size < remain THEN size ELSE remain
<1>1. /\ UNCHANGED <<fileSize, kdf, pc, from, want>> /\ pc = "loop"
      /\ remain' = remain - k /\ readOffset' = readOffset + k
      /\ Fill \/ Reuse
  BY DEF Turn, CopyOut
<1>2. Total' = Total
  BY <1>1 DEF Total, EncryptedSize, TotalChunks
<1>3. failed' = {} => failed = {} /\ ret' = ret
  BY <1>1 DEF Fill, Reuse
<1>4. /\ remain \in Nat /\ chunkOffset \in Int /\ fileSize \in Nat
  BY <1>1, Constants DEF ReaderInv, LoopInv
<1>5. BufferSize(chunk) \in Int
  BY <1>4, Constants DEF BufferSize, LastDataChunkSize
<1>6. k \in Int
  BY <1>4, <1>5
<1> HIDE DEF size, k
<1>7. /\ from \in Nat /\ readOffset \in Nat /\ readOffset' \in Nat
      /\ from + Len(dest) = readOffset /\ from' + Len(dest') = readOffset'
      /\ \E j \in Nat : dest = [i \in 1 .. j |-> dest[i]]
      /\ \E j \in Nat : dest' = [i \in 1 .. j |-> dest'[i]]
  BY DEF ReaderInv, DestInv
<1>8. Len(dest) \in Nat /\ Len(dest') \in Nat
  BY <1>7
<1>9. Len(dest') + remain' = Len(dest) + remain
  <2> DEFINE a == Len(dest)
             b == Len(dest')
  <2>1. a \in Nat /\ b \in Nat
    BY <1>8
  <2>2. from' = from /\ from + a = readOffset /\ from' + b = readOffset'
    BY <1>1, <1>7
  <2>3. readOffset' = readOffset + k /\ remain' = remain - k
    BY <1>1
  <2> HIDE DEF a, b
  <2>t. from \in Nat /\ k \in Int /\ remain \in Nat
    BY <1>4, <1>6, <1>7
  <2>4. from + b = from + a + k
    BY <2>2, <2>3
  <2>5. b = a + k
    BY ONLY <2>1, <2>t, <2>4
  <2>6. b + remain' = a + remain
    BY ONLY <2>1, <2>t, <2>3, <2>5
  <2> QED BY <2>6 DEF a, b
<1> QED BY <1>1, <1>2, <1>3, <1>9 DEF WantInv

\* The invariants of a reader are inductive together.
LEMMA WantStep == ASSUME ReaderInv, ReaderInv', WantInv, [Next]_vars PROVE WantInv'
<1>1. ASSUME NEW n \in Requests, Start(n) PROVE WantInv'
  BY <1>1, StartWants
<1>2. CASE Turn
  BY <1>2, TurnWants
<1>3. ASSUME NEW n \in Requests, ReadHeader(n) PROVE WantInv'
  BY <1>3 DEF ReadHeader, NewCall, WantInv
<1>4. CASE Finish
  BY <1>4 DEF Finish, WantInv
<1>5. ASSUME NEW p, SetReadPosition(p) PROVE WantInv'
  BY <1>5 DEF SetReadPosition, WantInv
<1>6. CASE Stop \/ UNCHANGED vars
  BY <1>6 DEF Stop, vars, call, WantInv, Total, EncryptedSize, TotalChunks
<1> QED BY <1>1, <1>2, <1>3, <1>4, <1>5, <1>6 DEF Next

\* A call of reader_function that is neither stopped nor fails hands out all
\* that was asked for or all that is left, for every source but an empty one.
THEOREM ReadsAll == Spec => ReadsAllThatIsLeft
<1>1. Init => WantInv
  BY DEF Init, WantInv
<1>2. ReaderInv /\ WantInv /\ [Next]_vars =>
        [(Finish /\ ~stopped /\ from < Total /\ failed = {} /\ fileSize > 0)
           => result' = IF from + want > Total THEN Total - from ELSE want]_vars
  <2> SUFFICES ASSUME ReaderInv, WantInv, Finish, ~stopped, from < Total, failed = {},
                      fileSize > 0
               PROVE  result' = IF from + want > Total THEN Total - from ELSE want
    OBVIOUS
  <2>1. ret /\ remain = 0 /\ result' = Len(dest)
    BY DEF Finish, WantInv
  <2>2. Len(dest) \in Nat
    BY DEF ReaderInv, DestInv
  <2> QED BY <2>1, <2>2 DEF WantInv, Finish
<1>3. ReaderInv /\ ReaderInv' /\ WantInv /\ [Next]_vars => WantInv'
  BY WantStep
<1> QED BY <1>1, <1>2, <1>3, ReaderInductive, PTL DEF Spec, ReadsAllThatIsLeft
=============================================================================
