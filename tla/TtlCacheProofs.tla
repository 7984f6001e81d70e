--------------------------- MODULE TtlCacheProofs ---------------------------
(***************************************************************************)
(* Proofs about TtlCache and the AtomicValue in it, for any keys, threads, *)
(* values and lifetimes: what get hands out is the entry, and a purge      *)
(* removes what has expired.                                               *)
(***************************************************************************)
EXTENDS TtlCache, FiniteSetTheorems, TLAPS

CellType ==
  /\ data \in [Keys -> Cells \union {None}]
  /\ handle \in [Threads -> [Keys -> Cells \union {None}]]
  /\ attached \subseteq Threads \X Keys
  /\ value = [c \in Cells |-> value[c]]
  /\ latest = [k \in Keys |-> latest[k]]

CallType ==
  /\ pc = [t \in Threads |-> pc[t]]
  /\ key = [t \in Threads |-> key[t]]
  /\ left = [t \in Threads |-> left[t]]
  /\ temp = [t \in Threads |-> temp[t]]

\* No two entries share a cell.
Separate == \A k, l \in Keys : k # l /\ Present(k) => data[k] # data[l]

\* A handle given since the key was last removed is on the entry's cell ...
Attached ==
  \A t \in Threads, k \in Keys :
    <<t, k>> \in attached => Present(k) /\ handle[t][k] = data[k]

\* ... and any other is on a cell no entry has, and none will be given.
Detached ==
  \A t \in Threads, k \in Keys :
    <<t, k>> \notin attached /\ handle[t][k] # None
    => \A l \in Keys : data[l] # handle[t][k]

UpToDate == \A k \in Keys : Present(k) => value[data[k]] = latest[k]

\* Calls that go on after their first step still mean the same cell.
Assigning ==
  \A t \in Threads : pc[t] \in {"copy", "store"} =>
    key[t] \in Keys /\ handle[t][key[t]] # None /\ left[t] = handle[t][key[t]]

Setting ==
  \A t \in Threads : pc[t] \in {"set", "renew"} =>
    lock = t /\ key[t] \in Keys /\ Present(key[t]) /\ left[t] = data[key[t]]

CellInv ==
  /\ CellType /\ CallType
  /\ Separate /\ Attached /\ Detached /\ UpToDate
  /\ Assigning /\ Setting

-----------------------------------------------------------------------------
\* There are more cells than pointers to them.
LEMMA FreshCellIsFree ==
  ASSUME CellType
  PROVE  FreshCell \in Cells /\ FreshCell \notin Pointed
<1> DEFINE Holders == Threads \union {Nobody}
           Places  == Keys \X Holders
           Shown(p) == IF p[2] = Nobody THEN data[p[1]] ELSE handle[p[2]][p[1]]
<1>1. IsFiniteSet(Holders) /\ Cardinality(Holders) = Cardinality(Threads) + 1
  BY FS_AddElement, CacheAssumption, AtomicAssumption
<1>2. IsFiniteSet(Places) /\ Cardinality(Places) = Cardinality(Keys) * Cardinality(Holders)
  BY FS_Product, <1>1, CacheAssumption
<1>3. Cardinality(Places) < Cardinality(Cells)
  <2>1. /\ Cardinality(Keys) \in Nat /\ Cardinality(Threads) \in Nat
        /\ Cardinality(Cells) \in Nat
    BY FS_CardinalityType, CacheAssumption
  <2>2. Cardinality(Cells) > Cardinality(Keys) * (1 + Cardinality(Threads))
    BY CacheAssumption
  <2> QED
    BY <2>1, <2>2, <1>1, <1>2
<1>4. SUFFICES ASSUME Cells \subseteq Pointed PROVE FALSE
  BY DEF FreshCell
<1>5. \A c \in Cells : \E p \in Places : Shown(p) = c
  <2> SUFFICES ASSUME NEW c \in Cells PROVE \E p \in Places : Shown(p) = c
    OBVIOUS
  <2>1. CASE \E k \in Keys : c = data[k]
    <3>1. PICK k \in Keys : c = data[k]
      BY <2>1
    <3>2. <<k, Nobody>> \in Places /\ Shown(<<k, Nobody>>) = c
      BY <3>1
    <3> QED
      BY <3>2
  <2>2. CASE \E t \in Threads, k \in Keys : c = handle[t][k]
    <3>1. PICK t \in Threads, k \in Keys : c = handle[t][k]
      BY <2>2
    <3>2. <<k, t>> \in Places /\ Shown(<<k, t>>) = c
      BY <3>1, AtomicAssumption
    <3> QED
      BY <3>2
  <2> QED
    BY <1>4, <2>1, <2>2 DEF Pointed
<1> DEFINE place == [c \in Cells |-> CHOOSE p \in Places : Shown(p) = c]
<1>6. place \in [Cells -> Places] /\ \A c \in Cells : Shown(place[c]) = c
  BY <1>5
<1> HIDE DEF place, Places, Shown
<1>7. PICK c, d \in Cells : c # d /\ place[c] = place[d]
  BY <1>2, <1>3, <1>6, FS_PigeonHole, CacheAssumption
<1> QED
  BY <1>6, <1>7

\* The entries a behaviour begins with have cells of their own.
LEMMA CellsOfTheirOwn ==
  /\ CellOf \in [Keys -> Cells]
  /\ \A k, l \in Keys : CellOf[k] = CellOf[l] => k = l
<1> DEFINE K == Cardinality(Keys)  C == Cardinality(Cells)
<1>1. K \in Nat /\ C \in Nat /\ K <= C
  <2>1. K \in Nat /\ C \in Nat /\ Cardinality(Threads) \in Nat
    BY FS_CardinalityType, CacheAssumption
  <2>2. C > K * (1 + Cardinality(Threads))
    BY CacheAssumption
  <2> QED
    BY <2>1, <2>2
<1>2. PICK f : f \in Bijection(1 .. K, Keys)
  BY FS_CardinalityType, CacheAssumption DEF ExistsBijection
<1>3. PICK g : g \in Bijection(1 .. C, Cells)
  BY FS_CardinalityType, CacheAssumption DEF ExistsBijection
<1> DEFINE n == [k \in Keys |-> CHOOSE i \in 1 .. K : f[i] = k]
<1>4. n \in [Keys -> 1 .. K] /\ \A k \in Keys : f[n[k]] = k
  BY <1>2 DEF Bijection, Surjection
<1> HIDE DEF n, K, C
<1>5. /\ g \in [1 .. C -> Cells]
      /\ \A i, j \in 1 .. C : g[i] = g[j] => i = j
  BY <1>3 DEF Bijection, Injection, IsInjective
<1>6. [k \in Keys |-> g[n[k]]] \in [Keys -> Cells]
  BY <1>1, <1>4, <1>5
<1>7. \A k, l \in Keys : g[n[k]] = g[n[l]] => k = l
  BY <1>1, <1>4, <1>5
<1>8. \E h \in [Keys -> Cells] : \A k, l \in Keys : h[k] = h[l] => k = l
  BY <1>6, <1>7
<1> QED
  BY <1>8 DEF CellOf

\* At the start entries and handles agree on their cells.
LEMMA CellInit == Init => CellInv
<1> SUFFICES ASSUME Init PROVE CellInv
  OBVIOUS
<1> USE CacheAssumption
<1>1. PICK K \in SUBSET Keys, T \in {{}, Threads} :
        /\ data = [k \in Keys |-> IF k \in K THEN CellOf[k] ELSE None]
        /\ attached = T \X K
        /\ handle = [t \in Threads |-> [k \in Keys |->
                       IF t \in T /\ k \in K THEN CellOf[k] ELSE None]]
  BY DEF Init
<1>2. /\ value = [c \in Cells |-> value[c]]
      /\ key = [t \in Threads |-> NoKey]
      /\ pc = [t \in Threads |-> "idle"]
      /\ latest = [k \in Keys |-> value[CellOf[k]]]
  BY DEF Init, AtomicInit, Cells
<1>3. CellType
  <2>1. data \in [Keys -> Cells \union {None}] /\ attached \subseteq Threads \X Keys
        /\ handle \in [Threads -> [Keys -> Cells \union {None}]]
    BY <1>1, CellsOfTheirOwn
  <2> QED
    BY <2>1, <1>2 DEF CellType
<1>4. CallType
  BY <1>2 DEF Init, AtomicInit, CallType
<1>5. Separate /\ UpToDate
  BY <1>1, <1>2, CellsOfTheirOwn DEF Separate, UpToDate, Present
<1>6. Attached /\ Detached
  BY <1>1, CellsOfTheirOwn DEF Attached, Detached, Present
<1>7. Assigning /\ Setting
  BY <1>2 DEF Assigning, Setting
<1> QED
  BY <1>3, <1>4, <1>5, <1>6, <1>7 DEF CellInv

-----------------------------------------------------------------------------
\* A thread's step leaves the other threads where they are.
OthersStay(t) ==
  \A u \in Threads \ {t} : pc'[u] = pc[u] /\ left'[u] = left[u] /\ key'[u] = key[u]

\* The steps of one thread leave the other threads where they are.
LEMMA ThreadMoves ==
  ASSUME CallType, NEW t \in Threads,
         \/ Step(t) \/ Clear(t) \/ PurgeExpired(t)
         \/ \E d : SetTtl(t, d)
         \/ \E k : Erase(t, k) \/ Get(t, k) \/ LoadThrough(t, k)
         \/ \E k, v : SetNew(t, k, v) \/ SetOld(t, k, v) \/ StoreThrough(t, k, v)
         \/ \E k, l : AssignThrough(t, k, l) \/ CompareThrough(t, k, l)
  PROVE  CallType' /\ OthersStay(t)
<1> USE DEF CallType, OthersStay, Goto, Runs, Return
<1>1. ASSUME NEW v, Locked(t, v) PROVE CallType' /\ OthersStay(t)
  BY <1>1 DEF Locked
<1>2. CASE \/ Clear(t) \/ PurgeExpired(t) \/ \E d : SetTtl(t, d)
           \/ \E k : Erase(t, k) \/ Get(t, k)
           \/ \E k, v : SetNew(t, k, v)
  BY <1>1, <1>2 DEF Clear, PurgeExpired, SetTtl, Erase, Get, SetNew, Remove
<1>3. ASSUME NEW k, NEW v, SetOld(t, k, v) PROVE CallType' /\ OthersStay(t)
  BY <1>3 DEF SetOld
<1>4. CASE SetStore(t) \/ SetRenew(t)
  BY <1>4 DEF SetStore, SetRenew
<1>5. CASE AtomicGoesOn(t)
  BY <1>5 DEF AtomicGoesOn, AtomicStep, AssignLoad, AssignStore, CompareLock,
     CompareLoad, CompareReturn
<1>6. ASSUME NEW k, NEW v, StoreThrough(t, k, v) PROVE CallType' /\ OthersStay(t)
  BY <1>6 DEF StoreThrough, Store
<1>7. ASSUME NEW k, LoadThrough(t, k) PROVE CallType' /\ OthersStay(t)
  BY <1>7 DEF LoadThrough, Load
<1>8. ASSUME NEW k, NEW l, AssignThrough(t, k, l) \/ CompareThrough(t, k, l)
      PROVE CallType' /\ OthersStay(t)
  BY <1>8 DEF AssignThrough, CompareThrough, Assign, Compare
<1> QED
  BY <1>2, <1>3, <1>4, <1>5, <1>6, <1>7, <1>8 DEF Step

\* What the properties are about, without the threads' places.
EntriesInv == CellType /\ Separate /\ Attached /\ Detached /\ UpToDate

\* Entries and handles keep their cells when neither is touched.
LEMMA EntriesKept ==
  ASSUME EntriesInv, UNCHANGED <<value, data, handle, latest, attached>>
  PROVE  EntriesInv'
<1>1. CellType'
  BY DEF EntriesInv, CellType
<1>2. Separate'
  BY DEF EntriesInv, Separate, Present
<1>3. Attached'
  BY DEF EntriesInv, Attached, Present
<1>4. Detached'
  BY DEF EntriesInv, Detached, Present
<1>5. UpToDate'
  BY DEF EntriesInv, UpToDate, Present
<1> QED
  BY <1>1, <1>2, <1>3, <1>4, <1>5 DEF EntriesInv

\* Removed entries leave their cells to the handles that have them.
LEMMA RemoveKeeps ==
  ASSUME EntriesInv, NEW t \in Threads, NEW K, Remove(t, K)
  PROVE  EntriesInv'
<1> USE DEF EntriesInv, Remove, Locked, CellType, Present
<1>1. CellType'
  OBVIOUS
<1>2. Separate'
  BY DEF Separate
<1>3. Attached'
  BY DEF Attached
<1>4. Detached'
  <2> SUFFICES ASSUME NEW u \in Threads, NEW k \in Keys, <<u, k>> \notin attached',
                      handle[u][k] # None, NEW l \in Keys
               PROVE  data'[l] # handle[u][k]
    BY DEF Detached
  <2>1. CASE <<u, k>> \notin attached
    BY <2>1, CacheAssumption DEF Detached
  <2>2. CASE <<u, k>> \in attached
    <3>1. k \in K /\ data[k] = handle[u][k]
      BY <2>2 DEF Attached
    <3>2. l # k => data[l] # data[k]
      BY <3>1 DEF Separate
    <3> QED
      BY <3>1, <3>2
  <2> QED
    BY <2>1, <2>2
<1>5. UpToDate'
  BY DEF UpToDate
<1> QED
  BY <1>1, <1>2, <1>3, <1>4, <1>5

\* get() makes a handle of the cell of the entry.
LEMMA GetKeeps ==
  ASSUME EntriesInv, NEW t \in Threads, NEW k \in Keys, Get(t, k)
  PROVE  EntriesInv'
<1> USE DEF EntriesInv, CellType, Present
<1>1. /\ UNCHANGED <<value, data, latest>>
      /\ handle' = [handle EXCEPT ![t][k] = data[k]]
      /\ attached' = IF data[k] # None THEN attached \union {<<t, k>>}
                                       ELSE attached \ {<<t, k>>}
  BY DEF Get, Locked
<1>2. CellType'
  BY <1>1
<1>3. Separate' /\ UpToDate'
  BY <1>1 DEF Separate, UpToDate
<1>4. \A u \in Threads, l \in Keys :
        <<u, l>> # <<t, k>> => /\ handle'[u][l] = handle[u][l]
                               /\ <<u, l>> \in attached' <=> <<u, l>> \in attached
  BY <1>1
<1>5. /\ handle'[t][k] = data[k]
      /\ <<t, k>> \in attached' <=> data[k] # None
  BY <1>1
<1>6. Attached'
  BY <1>1, <1>4, <1>5 DEF Attached
<1>7. Detached'
  BY <1>1, <1>4, <1>5 DEF Detached
<1> QED
  BY <1>2, <1>3, <1>6, <1>7

\* A value stored in one cell, whose entry's history goes along.
LEMMA StoreKeeps ==
  ASSUME EntriesInv, UNCHANGED <<data, handle, attached>>, NEW c, NEW v,
         value' = [value EXCEPT ![c] = v],
         \/ \E k \in Keys : /\ Present(k) /\ data[k] = c
                            /\ latest' = [latest EXCEPT ![k] = v]
         \/ (\A k \in Keys : data[k] # c) /\ latest' = latest
  PROVE  EntriesInv'
<1> USE DEF EntriesInv, CellType, Present
<1>1. CellType'
  OBVIOUS
<1>2. Separate' /\ Attached' /\ Detached'
  BY DEF Separate, Attached, Detached
<1>3. UpToDate'
  <2>1. CASE \E k \in Keys : /\ Present(k) /\ data[k] = c
                             /\ latest' = [latest EXCEPT ![k] = v]
    <3>1. PICK k \in Keys : /\ Present(k) /\ data[k] = c
                            /\ latest' = [latest EXCEPT ![k] = v]
      BY <2>1
    <3>2. value'[c] = v /\ latest'[k] = v
      BY <3>1, CacheAssumption
    <3>3. \A l \in Keys \ {k} : data[l] # c /\ latest'[l] = latest[l]
      BY <3>1 DEF Separate
    <3>4. \A l \in Keys \ {k} : Present(l) => value'[data[l]] = value[data[l]]
      BY <3>3
    <3> QED
      BY <3>1, <3>2, <3>3, <3>4 DEF UpToDate
  <2>2. CASE (\A k \in Keys : data[k] # c) /\ latest' = latest
    BY <2>2 DEF UpToDate
  <2> QED
    BY <2>1, <2>2
<1> QED
  BY <1>1, <1>2, <1>3

\* What a handle writes goes to the entry exactly when the handle is attached.
LEMMA WriteKeeps ==
  ASSUME EntriesInv, UNCHANGED <<data, handle, attached>>,
         NEW t \in Threads, NEW k \in Keys, NEW v, handle[t][k] # None,
         value' = [value EXCEPT ![handle[t][k]] = v], Writes(t, k, v)
  PROVE  EntriesInv'
<1>1. CASE <<t, k>> \in attached
  <2>1. Present(k) /\ data[k] = handle[t][k]
    BY <1>1 DEF EntriesInv, Attached
  <2>2. latest' = [latest EXCEPT ![k] = v]
    BY <1>1 DEF Writes
  <2> QED
    BY <2>1, <2>2, StoreKeeps
<1>2. CASE <<t, k>> \notin attached
  <2>1. (\A l \in Keys : data[l] # handle[t][k]) /\ latest' = latest
    BY <1>2 DEF EntriesInv, Detached, Writes
  <2> QED
    BY <2>1, StoreKeeps
<1> QED
  BY <1>1, <1>2

\* A new entry gets a cell that nobody has: the cells are enough.
LEMMA SetNewKeeps ==
  ASSUME EntriesInv, NEW t \in Threads, NEW k \in Keys, NEW v, SetNew(t, k, v)
  PROVE  EntriesInv'
<1> USE DEF EntriesInv, CellType, Present
<1> DEFINE c == FreshCell
<1>1. /\ data[k] = None
      /\ value' = [value EXCEPT ![c] = v]
      /\ data' = [data EXCEPT ![k] = c]
      /\ latest' = [latest EXCEPT ![k] = v]
      /\ UNCHANGED <<handle, attached>>
  BY DEF SetNew, Locked
<1>2. c \in Cells /\ (\A l \in Keys : data[l] # c)
      /\ \A u \in Threads, l \in Keys : handle[u][l] # c
  BY FreshCellIsFree DEF Pointed
<1> HIDE DEF c
<1>3. CellType'
  BY <1>1, <1>2
<1>4. data'[k] = c /\ \A l \in Keys \ {k} : data'[l] = data[l]
  BY <1>1
<1>5. Separate'
  BY <1>1, <1>2, <1>4 DEF Separate
<1>6. Attached'
  BY <1>1, <1>4 DEF Attached
<1>7. Detached'
  BY <1>1, <1>2, <1>4 DEF Detached
<1>8. UpToDate'
  <2>1. value'[c] = v /\ latest'[k] = v
    BY <1>1, <1>2
  <2>2. \A l \in Keys \ {k} : Present(l) => value'[data[l]] = value[data[l]]
                                            /\ latest'[l] = latest[l]
    BY <1>1, <1>2
  <2> QED
    BY <1>4, <2>1, <2>2 DEF UpToDate
<1> QED
  BY <1>3, <1>5, <1>6, <1>7, <1>8

\* Only a thread's own steps take it into or on in a call; its handle, and the
\* entry it sets, are as they were.
LEMMA PlacesKeep ==
  ASSUME CellInv, NEW t \in Threads, OthersStay(t),
         \A u \in Threads \ {t} : handle'[u] = handle[u],
         \A u \in Threads \ {t} : lock = u => lock' = u /\ data' = data,
         pc'[t] \in {"copy", "store"} =>
           key'[t] \in Keys /\ handle'[t][key'[t]] # None
           /\ left'[t] = handle'[t][key'[t]],
         pc'[t] \in {"set", "renew"} =>
           lock' = t /\ key'[t] \in Keys /\ data'[key'[t]] # None
           /\ left'[t] = data'[key'[t]]
  PROVE  Assigning' /\ Setting'
<1>1. Assigning'
  BY DEF CellInv, Assigning, OthersStay
<1>2. Setting'
  <2> SUFFICES ASSUME NEW u \in Threads, pc'[u] \in {"set", "renew"}
               PROVE  lock' = u /\ key'[u] \in Keys /\ data'[key'[u]] # None
                      /\ left'[u] = data'[key'[u]]
    BY DEF Setting, Present
  <2>1. CASE u = t
    BY <2>1
  <2>2. CASE u # t
    <3>1. pc[u] \in {"set", "renew"} /\ key'[u] = key[u] /\ left'[u] = left[u]
      BY <2>2 DEF OthersStay
    <3>2. lock = u /\ key[u] \in Keys /\ data[key[u]] # None /\ left[u] = data[key[u]]
      BY <3>1 DEF CellInv, Setting, Present
    <3>3. lock' = u /\ data' = data
      BY <2>2, <3>2
    <3> QED
      BY <3>1, <3>2, <3>3
  <2> QED
    BY <2>1, <2>2
<1> QED
  BY <1>1, <1>2

-----------------------------------------------------------------------------
\* Every step keeps the invariant.
LEMMA LockedStep ==
  ASSUME CellInv, NEW t \in Threads,
         \/ Clear(t) \/ PurgeExpired(t)
         \/ \E d : SetTtl(t, d)
         \/ \E k \in Keys : Erase(t, k) \/ Get(t, k)
         \/ \E k \in Keys : \E v : SetNew(t, k, v)
  PROVE  CellInv'
<1>1. \E v : Locked(t, v)
  BY DEF Clear, PurgeExpired, SetTtl, Erase, Get, SetNew, Remove
<1>2. pc'[t] = "idle" /\ lock = Nobody
  BY <1>1 DEF Locked, Return, Goto, Unlocked, CellInv, CallType
<1>3. CallType' /\ OthersStay(t)
  BY ThreadMoves DEF CellInv
<1>4. \A u \in Threads \ {t} : handle'[u] = handle[u]
  BY DEF Clear, PurgeExpired, SetTtl, Erase, Get, SetNew, Remove, CellInv, CellType
<1>5. Assigning' /\ Setting'
  BY <1>2, <1>3, <1>4, PlacesKeep, AtomicAssumption
<1>6. EntriesInv'
  <2>1. EntriesInv
    BY DEF CellInv, EntriesInv
  <2>2. CASE Clear(t) \/ PurgeExpired(t) \/ \E k \in Keys : Erase(t, k)
    BY <2>1, <2>2, RemoveKeeps DEF Clear, PurgeExpired, Erase
  <2>3. CASE \E d : SetTtl(t, d)
    BY <2>1, <2>3, EntriesKept DEF SetTtl, Locked
  <2>4. CASE \E k \in Keys : Get(t, k)
    BY <2>1, <2>4, GetKeeps
  <2>5. CASE \E k \in Keys : \E v : SetNew(t, k, v)
    BY <2>1, <2>5, SetNewKeeps
  <2> QED
    BY <2>2, <2>3, <2>4, <2>5
<1> QED
  BY <1>3, <1>5, <1>6 DEF CellInv, EntriesInv

\* set() of an entry that exists, with its two locks.
LEMMA SetSteps ==
  ASSUME CellInv, NEW t \in Threads,
         SetStore(t) \/ SetRenew(t) \/ \E k \in Keys : \E v : SetOld(t, k, v)
  PROVE  CellInv'
<1>1. CallType' /\ OthersStay(t)
  BY ThreadMoves DEF Step, CellInv
<1>2. EntriesInv
  BY DEF CellInv, EntriesInv
<1>3. CASE SetStore(t)
  <2>1. /\ pc[t] = "set" /\ pc' = [pc EXCEPT ![t] = "renew"]
        /\ value' = [value EXCEPT ![left[t]] = temp[t]]
        /\ latest' = [latest EXCEPT ![key[t]] = temp[t]]
        /\ UNCHANGED <<lock, data, handle, attached>>
    BY <1>3 DEF SetStore, Goto
  <2>2. key[t] \in Keys /\ Present(key[t]) /\ data[key[t]] = left[t]
    BY <2>1 DEF CellInv, Setting
  <2>3. EntriesInv'
    BY <1>2, <2>1, <2>2, StoreKeeps
  <2>4. lock' = t /\ pc'[t] = "renew" /\ key'[t] = key[t] /\ left'[t] = left[t]
    BY <1>3, <2>1 DEF SetStore, CellInv, CallType, Setting
  <2>5. Assigning' /\ Setting'
    BY <1>1, <2>1, <2>2, <2>4, PlacesKeep DEF Present
  <2> QED
    BY <1>1, <2>3, <2>5 DEF CellInv, EntriesInv
<1>4. CASE SetRenew(t)
  <2>1. /\ pc[t] = "renew" /\ pc' = [pc EXCEPT ![t] = "idle"]
        /\ UNCHANGED <<value, latest, data, handle, attached>>
    BY <1>4 DEF SetRenew, Return, Goto
  <2>2. EntriesInv'
    BY <1>2, <2>1, EntriesKept
  <2>3. lock = t /\ pc'[t] = "idle"
    BY <2>1 DEF CellInv, CallType, Setting
  <2>4. Assigning' /\ Setting'
    BY <1>1, <2>1, <2>3, PlacesKeep
  <2> QED
    BY <1>1, <2>2, <2>4 DEF CellInv, EntriesInv
<1>5. ASSUME NEW k \in Keys, NEW v, SetOld(t, k, v) PROVE CellInv'
  <2>1. /\ Present(k) /\ lock = Nobody /\ lock' = t
        /\ pc' = [pc EXCEPT ![t] = "set"]
        /\ left' = [left EXCEPT ![t] = data[k]]
        /\ key' = [key EXCEPT ![t] = k]
        /\ UNCHANGED <<value, latest, data, handle, attached>>
    BY <1>5 DEF SetOld, Unlocked, Goto, Runs
  <2>2. EntriesInv'
    BY <1>2, <2>1, EntriesKept
  <2>3. pc'[t] = "set" /\ left'[t] = data[k] /\ key'[t] = k
    BY <2>1 DEF CellInv, CallType
  <2>4. Assigning' /\ Setting'
    BY <1>1, <2>1, <2>3, PlacesKeep, AtomicAssumption DEF Present
  <2> QED
    BY <1>1, <2>2, <2>4 DEF CellInv, EntriesInv
<1> QED
  BY <1>3, <1>4, <1>5

\* What a thread does through its handles.
LEMMA HandleSteps ==
  ASSUME CellInv, NEW t \in Threads,
         \/ AtomicGoesOn(t)
         \/ \E k \in Keys : LoadThrough(t, k)
         \/ \E k \in Keys : \E v : StoreThrough(t, k, v)
         \/ \E k, l \in Keys : AssignThrough(t, k, l) \/ CompareThrough(t, k, l)
  PROVE  CellInv'
<1>1. CallType' /\ OthersStay(t)
  BY ThreadMoves DEF Step, CellInv
<1>2. EntriesInv
  BY DEF CellInv, EntriesInv
<1>3. UNCHANGED <<lock, data, handle, attached>>
  BY DEF AtomicGoesOn, LoadThrough, StoreThrough, AssignThrough, CompareThrough, Unshared
<1>4. ASSUME EntriesInv',
             pc'[t] \in {"copy", "store"} =>
               key'[t] \in Keys /\ handle[t][key'[t]] # None
               /\ left'[t] = handle[t][key'[t]],
             pc'[t] \notin {"set", "renew"}
      PROVE  CellInv'
  <2>1. Assigning' /\ Setting'
    BY <1>1, <1>3, <1>4, PlacesKeep
  <2> QED
    BY <1>1, <1>4, <2>1 DEF CellInv, EntriesInv
<1>5. ASSUME NEW k \in Keys, LoadThrough(t, k) PROVE CellInv'
  <2>1. pc'[t] = "idle" /\ UNCHANGED <<value, latest>>
    BY <1>5 DEF LoadThrough, Load, Return, Goto, CellInv, CallType
  <2> QED
    BY <1>2, <1>3, <1>4, <2>1, EntriesKept
<1>6. ASSUME NEW k \in Keys, NEW v, StoreThrough(t, k, v) PROVE CellInv'
  <2>1. pc'[t] = "idle" /\ value' = [value EXCEPT ![handle[t][k]] = v]
    BY <1>6 DEF StoreThrough, Store, Return, Goto, CellInv, CallType
  <2>2. handle[t][k] # None /\ Writes(t, k, v)
    BY <1>6 DEF StoreThrough
  <2> QED
    BY <1>2, <1>3, <1>4, <2>1, <2>2, WriteKeeps
<1>7. ASSUME NEW k \in Keys, NEW l \in Keys, AssignThrough(t, k, l) PROVE CellInv'
  <2>1. UNCHANGED <<value, latest>>
    BY <1>7 DEF AssignThrough, Assign
  <2>2. /\ handle[t][k] # None
        /\ pc'[t] = "copy" /\ left'[t] = handle[t][k] /\ key'[t] = k
    BY <1>7 DEF AssignThrough, Assign, Goto, Runs, CellInv, CallType
  <2> QED
    BY <1>2, <1>3, <1>4, <2>1, <2>2, EntriesKept
<1>8. ASSUME NEW k \in Keys, NEW l \in Keys, CompareThrough(t, k, l) PROVE CellInv'
  <2>1. UNCHANGED <<value, latest>>
    BY <1>8 DEF CompareThrough, Compare
  <2>2. pc'[t] \in {"equal", "lock"}
    BY <1>8 DEF CompareThrough, Compare, Return, Goto, CellInv, CallType
  <2> QED
    BY <1>2, <1>3, <1>4, <2>1, <2>2, EntriesKept
<1>9. CASE AtomicGoesOn(t)
  <2>1. CASE AssignStore(t)
    <3>1. /\ pc[t] = "store" /\ pc'[t] = "idle"
          /\ value' = [value EXCEPT ![left[t]] = temp[t]]
      BY <2>1 DEF AssignStore, Return, Goto, CellInv, CallType
    <3>2. Writes(t, key[t], temp[t])
      BY <1>9, <3>1 DEF AtomicGoesOn
    <3>3. key[t] \in Keys /\ handle[t][key[t]] # None /\ left[t] = handle[t][key[t]]
      BY <3>1 DEF CellInv, Assigning
    <3> QED
      BY <1>2, <1>3, <1>4, <3>1, <3>2, <3>3, WriteKeeps
  <2>2. CASE AssignLoad(t)
    <3>1. /\ pc[t] = "copy" /\ pc'[t] = "store" /\ left'[t] = left[t]
          /\ UNCHANGED value
      BY <2>2 DEF AssignLoad, Goto, Runs, CellInv, CallType
    <3>2. UNCHANGED <<latest, key>>
      BY <1>9, <3>1 DEF AtomicGoesOn
    <3>3. key[t] \in Keys /\ handle[t][key[t]] # None /\ left[t] = handle[t][key[t]]
      BY <3>1 DEF CellInv, Assigning
    <3> QED
      BY <1>2, <1>3, <1>4, <3>1, <3>2, <3>3, EntriesKept
  <2>3. CASE CompareLock(t) \/ CompareLoad(t) \/ CompareReturn(t)
    <3>1. /\ pc[t] \in {"lock", "load", "compare"}
          /\ pc'[t] \in {"load", "compare", "equal", "unequal"}
          /\ UNCHANGED value
      BY <2>3 DEF CompareLock, CompareLoad, CompareReturn, Return, Goto, CellInv, CallType
    <3>2. UNCHANGED latest
      BY <1>9, <3>1 DEF AtomicGoesOn
    <3> QED
      BY <1>2, <1>3, <1>4, <3>1, <3>2, EntriesKept
  <2> QED
    BY <1>9, <2>1, <2>2, <2>3 DEF AtomicGoesOn, AtomicStep
<1> QED
  BY <1>5, <1>6, <1>7, <1>8, <1>9

\* The invariant of the cells is inductive.
LEMMA CellStep ==
  ASSUME CellInv, [Next]_vars
  PROVE  CellInv'
<1>1. CASE Tick \/ UNCHANGED vars
  <2>1. UNCHANGED <<value, data, handle, latest, attached, lock, pc, left, temp, key>>
    BY <1>1 DEF Tick, vars, atomicVars, cacheVars
  <2>2. EntriesInv'
    BY <2>1, EntriesKept DEF CellInv, EntriesInv
  <2>3. CallType' /\ Assigning' /\ Setting'
    BY <2>1 DEF CellInv, CallType, Assigning, Setting, Present
  <2> QED
    BY <2>2, <2>3 DEF CellInv, EntriesInv
<1> QED
  BY <1>1, LockedStep, SetSteps, HandleSteps DEF Next, Step

-----------------------------------------------------------------------------
\* The invariant holds of every behaviour.
THEOREM CellInductive == Spec => []CellInv
<1> QED
  BY CellInit, CellStep, PTL DEF Spec

\* What get hands out is the entry: as long as the key is not removed, holders
\* and cache are on the same cell, and what it holds is what was stored last.
THEOREM HandleIsShared == Spec => []HandleIsTheEntry
<1>1. CellInv => HandleIsTheEntry
  <2> SUFFICES ASSUME CellInv, NEW a \in attached
               PROVE  data[a[2]] = handle[a[1]][a[2]] /\ value[data[a[2]]] = latest[a[2]]
    BY DEF HandleIsTheEntry
  <2>1. PICK t \in Threads, k \in Keys : a = <<t, k>>
    BY DEF CellInv, CellType
  <2> QED
    BY <2>1 DEF CellInv, Attached, UpToDate
<1> QED
  BY CellInductive, <1>1, PTL

-----------------------------------------------------------------------------
\* When an entry expires follows from when it was last used.
Lifetimes ==
  /\ data = [k \in Keys |-> data[k]]
  /\ expires = [k \in Keys |-> expires[k]]
  /\ touched = [k \in Keys |-> touched[k]]
  /\ \A k \in Keys : Present(k) => expires[k] = touched[k].at + touched[k].ttl

\* The entries there are at the start have the lifetime of the cache.
LEMMA LifetimesInit == Init => Lifetimes
<1> SUFFICES ASSUME Init PROVE Lifetimes
  OBVIOUS
<1>1. ttl \in Nat
  BY CacheAssumption DEF Init
<1>2. PICK K \in SUBSET Keys :
        /\ data = [k \in Keys |-> IF k \in K THEN CellOf[k] ELSE None]
        /\ expires = [k \in Keys |-> IF k \in K THEN ttl ELSE 0]
        /\ touched = [k \in Keys |-> [at |-> 0, ttl |-> IF k \in K THEN ttl ELSE 0]]
  BY DEF Init
<1> QED
  BY <1>1, <1>2 DEF Lifetimes, Present

\* A renewal takes the lifetime of the moment.
LEMMA RenewKeeps ==
  ASSUME Lifetimes, NEW k, Renew(k),
         data' = data \/ \E c : data' = [data EXCEPT ![k] = c]
  PROVE  Lifetimes'
<1>1. /\ expires' = [expires EXCEPT ![k] = now + ttl]
      /\ touched' = [touched EXCEPT ![k] = [at |-> now, ttl |-> ttl]]
  BY DEF Renew, Touch
<1>2. data' = [l \in Keys |-> data'[l]]
  BY DEF Lifetimes
<1>3. \A l \in Keys : Present(l)' => expires'[l] = touched'[l].at + touched'[l].ttl
  <2> SUFFICES ASSUME NEW l \in Keys, data'[l] # None
               PROVE  expires'[l] = touched'[l].at + touched'[l].ttl
    BY DEF Present
  <2>1. CASE l = k
    BY <1>1, <2>1 DEF Lifetimes
  <2>2. CASE l # k
    BY <1>1, <2>2 DEF Lifetimes, Present
  <2> QED
    BY <2>1, <2>2
<1> QED
  BY <1>1, <1>2, <1>3 DEF Lifetimes

\* What is not removed keeps its lifetime.
LEMMA RemovalKeeps ==
  ASSUME Lifetimes, NEW t, NEW K, Remove(t, K)
  PROVE  Lifetimes'
  BY DEF Lifetimes, Remove, Present

\* An entry ends one lifetime after it was last renewed.
LEMMA LifetimesStep ==
  ASSUME Lifetimes, [Next]_vars
  PROVE  Lifetimes'
<1>1. ASSUME UNCHANGED <<data, expires, touched>> PROVE Lifetimes'
  BY <1>1 DEF Lifetimes, Present
<1>2. CASE Tick \/ UNCHANGED vars
  BY <1>1, <1>2 DEF Tick, vars, cacheVars
<1>3. ASSUME NEW t \in Threads, AtomicGoesOn(t) \/ SetStore(t) PROVE Lifetimes'
  BY <1>1, <1>3 DEF AtomicGoesOn, SetStore, Unshared
<1>4. ASSUME NEW t \in Threads, NEW k \in Keys, NEW l \in Keys, NEW v,
             \/ LoadThrough(t, k) \/ StoreThrough(t, k, v)
             \/ AssignThrough(t, k, l) \/ CompareThrough(t, k, l)
      PROVE  Lifetimes'
  BY <1>1, <1>4 DEF LoadThrough, StoreThrough, AssignThrough, CompareThrough, Unshared
<1>5. ASSUME NEW t \in Threads, SetRenew(t) PROVE Lifetimes'
  BY <1>5, RenewKeeps DEF SetRenew
<1>6. ASSUME NEW t \in Threads, NEW k \in Keys, Erase(t, k)
      PROVE  Lifetimes'
  BY <1>6, RemovalKeeps DEF Erase
<1>7. ASSUME NEW t \in Threads, Clear(t) \/ PurgeExpired(t) PROVE Lifetimes'
  BY <1>7, RemovalKeeps DEF Clear, PurgeExpired
<1>8. ASSUME NEW t \in Threads, NEW d, SetTtl(t, d) PROVE Lifetimes'
  BY <1>1, <1>8 DEF SetTtl
<1>9. ASSUME NEW t \in Threads, NEW k \in Keys, Get(t, k) PROVE Lifetimes'
  BY <1>1, <1>9, RenewKeeps DEF Get
<1>10. ASSUME NEW t \in Threads, NEW k \in Keys, NEW v, SetNew(t, k, v) \/ SetOld(t, k, v)
       PROVE  Lifetimes'
  BY <1>1, <1>10, RenewKeeps DEF SetNew, SetOld
<1> QED
  BY <1>2, <1>3, <1>4, <1>5, <1>6, <1>7, <1>8, <1>9, <1>10 DEF Next, Step

\* A purge removes exactly the entries nobody used for their whole lifetime.
THEOREM PurgeExact == Spec => PurgeIsExact
<1>1. ASSUME Lifetimes, NEW t \in Threads, PurgeExpired(t), NEW k \in Keys, Present(k)
      PROVE  data'[k] = None <=> touched[k].at + touched[k].ttl <= now
  <2>1. data'[k] = IF Expired(k) THEN None ELSE data[k]
    BY <1>1 DEF PurgeExpired, Remove
  <2>2. Expired(k) <=> touched[k].at + touched[k].ttl <= now
    BY <1>1 DEF Expired, Lifetimes
  <2> QED
    BY <1>1, <2>1, <2>2 DEF Present
<1>2. Lifetimes /\ [Next]_vars
      => [(\E t \in Threads : PurgeExpired(t)) =>
            \A k \in Keys : Present(k) =>
              (data'[k] = None <=> touched[k].at + touched[k].ttl <= now)]_vars
  BY <1>1
<1> QED
  BY LifetimesInit, LifetimesStep, <1>2, PTL DEF Spec, PurgeIsExact

-----------------------------------------------------------------------------
\* The truth values a comparison has seen, as two facts instead of one about a
\* Boolean value.
Saw(t, equal) == (equal => TRUE \in seen[t]) /\ (~equal => FALSE \in seen[t])

CompareType ==
  /\ owner = [c \in Cells |-> owner[c]]
  /\ right = [t \in Threads |-> right[t]]
  /\ seen = [t \in Threads |-> seen[t]]

\* A comparison is of a cell its thread has a handle on; it has seen how its two
\* values compare now, and keeps its own mutex from its second step on, so that
\* what it answers it has seen.
Comparison(t) ==
  /\ \E k \in Keys : handle[t][k] # None /\ left[t] = handle[t][k]
  /\ Saw(t, value[left[t]] = value[right[t]])
  /\ pc[t] \in {"load", "compare"} => owner[left[t]] = t
  /\ pc[t] = "compare" => Saw(t, temp[t] = value[left[t]])

Answered(t) ==
  /\ pc[t] = "equal" => TRUE \in seen[t]
  /\ pc[t] = "unequal" => FALSE \in seen[t]

CompareInv ==
  /\ CompareType
  /\ \A t \in Threads : (Comparing(t) => Comparison(t)) /\ Answered(t)

\* What Watch adds.
LEMMA Watched ==
  ASSUME Watch, NEW t \in Threads
  PROVE  /\ Comparing(t) => /\ seen[t] \subseteq seen'[t]
                            /\ (value'[left[t]] = value'[right[t]]) => TRUE \in seen'[t]
                            /\ (value'[left[t]] # value'[right[t]]) => FALSE \in seen'[t]
         /\ ~Comparing(t) /\ pc'[t] = "lock" =>
              /\ (value'[left'[t]] = value'[right'[t]]) => TRUE \in seen'[t]
              /\ (value'[left'[t]] # value'[right'[t]]) => FALSE \in seen'[t]
         /\ ~Comparing(t) /\ pc'[t] # "lock" /\ pc'[t] = pc[t] => seen'[t] = seen[t]
         /\ ~Comparing(t) /\ pc'[t] = "equal" /\ pc[t] # "equal" => TRUE \in seen'[t]
  BY DEF Watch

\* Nobody compares at the start.
LEMMA CompareInit == Init => CompareInv
  BY DEF Init, AtomicInit, CompareInv, CompareType, Comparing, Answered, Cells

\* No step takes a comparison's arguments, its mutex or, under its mutex, its
\* own value away from another thread.
Undisturbed(t) ==
  \A u \in Threads \ {t} :
    /\ right'[u] = right[u] /\ temp'[u] = temp[u] /\ handle'[u] = handle[u]
    /\ pc[u] \in {"load", "compare"} =>
         owner'[left[u]] = u /\ value'[left[u]] = value[left[u]]

\* What the step of one thread leaves true of the comparison of another.
LEMMA OthersCompare ==
  ASSUME CompareInv, NEW t \in Threads, OthersStay(t), Undisturbed(t), Watch,
         NEW u \in Threads \ {t}
  PROVE  (Comparing(u)' => Comparison(u)') /\ Answered(u)'
<1>1. pc'[u] = pc[u] /\ left'[u] = left[u] /\ right'[u] = right[u]
      /\ temp'[u] = temp[u] /\ handle'[u] = handle[u]
  BY DEF OthersStay, Undisturbed
<1>2. Answered(u)'
  BY <1>1, Watched DEF CompareInv, Answered, Comparing
<1>3. ASSUME Comparing(u) PROVE Comparison(u)'
  <2>1. Comparison(u)
    BY <1>3 DEF CompareInv
  <2>2. \E k \in Keys : handle'[u][k] # None /\ left'[u] = handle'[u][k]
    BY <1>1, <2>1 DEF Comparison
  <2>3. (value'[left'[u]] = value'[right'[u]] => TRUE \in seen'[u])
        /\ (value'[left'[u]] # value'[right'[u]] => FALSE \in seen'[u])
    BY <1>1, <1>3, Watched
  <2>4. pc'[u] \in {"load", "compare"} => owner'[left'[u]] = u
    BY <1>1 DEF Undisturbed
  <2>5. pc'[u] = "compare" => (temp'[u] = value'[left'[u]] => TRUE \in seen'[u])
                              /\ (temp'[u] # value'[left'[u]] => FALSE \in seen'[u])
    <3>1. seen[u] \subseteq seen'[u]
      BY <1>3, Watched
    <3> QED
      BY <1>1, <2>1, <3>1 DEF Comparison, Undisturbed, Saw
  <2> QED
    BY <2>2, <2>3, <2>4, <2>5 DEF Comparison, Saw
<1> QED
  BY <1>1, <1>2, <1>3 DEF Comparing

\* A step of t that leaves it with no comparison to answer for.
LEMMA AloneCompares ==
  ASSUME CompareInv, NEW t \in Threads, OthersStay(t), Undisturbed(t), Watch,
         CompareType',
         (Comparing(t)' => Comparison(t)') /\ Answered(t)'
  PROVE  CompareInv'
  BY OthersCompare DEF CompareInv

\* A value is stored only in a cell whose mutex is free, or that nobody points to.
LEMMA StoresElsewhere ==
  ASSUME CompareInv, CellInv, NEW c, NEW v, value' = [value EXCEPT ![c] = v],
         owner[c] = Nobody \/ (c = FreshCell), NEW u \in Threads,
         pc[u] \in {"load", "compare"}
  PROVE  value'[left[u]] = value[left[u]]
<1>1. Comparison(u)
  BY DEF CompareInv, Comparing
<1>2. owner[left[u]] = u /\ u # Nobody
  BY <1>1, AtomicAssumption DEF Comparison
<1>3. PICK k \in Keys : left[u] = handle[u][k] /\ handle[u][k] # None
  BY <1>1 DEF Comparison
<1>4. left[u] \in Pointed /\ left[u] \in Cells
  BY <1>3 DEF Pointed, CellInv, CellType
<1>5. left[u] # c
  BY <1>2, <1>4, FreshCellIsFree DEF CellInv
<1> QED
  BY <1>4, <1>5 DEF CellInv, CellType

\* The mutex of the left side stays with the thread that compares.
LEMMA KeepsOwners ==
  ASSUME CompareInv, NEW u \in Threads, pc[u] \in {"load", "compare"},
         owner' = owner
         \/ \E t \in Threads \ {u} :
              /\ owner[left[t]] \in {Nobody, t}
              /\ \E o : owner' = [owner EXCEPT ![left[t]] = o]
  PROVE  owner'[left[u]] = u
<1>1. owner[left[u]] = u /\ u # Nobody
  BY AtomicAssumption DEF CompareInv, Comparing, Comparison
<1>2. ASSUME NEW t \in Threads \ {u}, owner[left[t]] \in {Nobody, t}, NEW o,
             owner' = [owner EXCEPT ![left[t]] = o]
      PROVE  owner'[left[u]] = u
  <2>1. left[t] # left[u]
    BY <1>1, <1>2
  <2> QED
    BY <1>1, <1>2, <2>1
<1> QED
  BY <1>1, <1>2

\* Calls that hold no mutex of a value and begin no comparison.
LEMMA PlainStep ==
  ASSUME CompareInv, CellInv, NEW t \in Threads, OthersStay(t), Watch,
         UNCHANGED owner, ~Comparing(t), pc'[t] \notin {"lock", "load", "compare"},
         pc'[t] \in {"equal", "unequal"} => pc'[t] = "equal",
         right' = [u \in Threads |-> right'[u]],
         \A u \in Threads \ {t} :
           right'[u] = right[u] /\ temp'[u] = temp[u] /\ handle'[u] = handle[u],
         value' = value
         \/ \E c, v : value' = [value EXCEPT ![c] = v]
                      /\ (owner[c] = Nobody \/ c = FreshCell)
  PROVE  CompareInv'
<1>1. Undisturbed(t)
  BY KeepsOwners, StoresElsewhere DEF Undisturbed, CompareInv, Comparing, Comparison
<1>2. CompareType'
  BY DEF CompareInv, CompareType, Watch
<1>3. Answered(t)'
  BY Watched DEF Answered, CompareInv, Comparing
<1>4. ~Comparing(t)'
  BY DEF Comparing
<1> QED
  BY <1>1, <1>2, <1>3, <1>4, AloneCompares

\* The operations under the mutex of the cache.
LEMMA LockedCompares ==
  ASSUME CompareInv, CellInv, NEW t \in Threads,
         \/ Clear(t) \/ PurgeExpired(t)
         \/ \E d : SetTtl(t, d)
         \/ \E k \in Keys : Erase(t, k) \/ Get(t, k)
         \/ \E k \in Keys : \E v : SetNew(t, k, v)
  PROVE  CompareInv'
<1>1. PICK v : Locked(t, v) /\ (v = value \/ \E w : v = [value EXCEPT ![FreshCell] = w])
  BY DEF Clear, PurgeExpired, SetTtl, Erase, Get, SetNew, Remove
<1>2. OthersStay(t)
  BY ThreadMoves DEF CellInv
<1>3. /\ pc'[t] = "idle" /\ UNCHANGED owner /\ ~Comparing(t) /\ Watch /\ value' = v
      /\ right' = [right EXCEPT ![t] = NoObject]
      /\ temp' = [temp EXCEPT ![t] = NoValue]
  BY <1>1 DEF Locked, Return, Goto, Runs, Begin, Returned, Comparing, CellInv, CallType
<1>4. \A u \in Threads \ {t} : handle'[u] = handle[u]
  BY DEF Clear, PurgeExpired, SetTtl, Erase, Get, SetNew, Remove, CellInv, CellType
<1>5. right' = [u \in Threads |-> right'[u]]
      /\ \A u \in Threads \ {t} : right'[u] = right[u] /\ temp'[u] = temp[u]
  BY <1>3 DEF CompareInv, CompareType, CellInv, CallType
<1> QED
  BY <1>1, <1>2, <1>3, <1>4, <1>5, PlainStep

\* set(), which stores into a value that others may be comparing.
LEMMA SetCompares ==
  ASSUME CompareInv, CellInv, NEW t \in Threads,
         SetStore(t) \/ SetRenew(t) \/ \E k \in Keys : \E v : SetOld(t, k, v)
  PROVE  CompareInv'
<1>1. OthersStay(t)
  BY ThreadMoves DEF Step, CellInv
<1>2. /\ Watch /\ UNCHANGED <<owner, handle>> /\ ~Comparing(t)
      /\ pc'[t] \in {"set", "renew", "idle"}
  BY DEF SetStore, SetRenew, SetOld, Begin, Returned, Comparing, Return, Goto,
     CellInv, CallType
<1>3. right' = right \/ \E p : right' = [right EXCEPT ![t] = p]
  BY DEF SetStore, SetRenew, SetOld, Return, Runs
<1>4. temp' = temp \/ \E p : temp' = [temp EXCEPT ![t] = p]
  BY DEF SetStore, SetRenew, SetOld, Return, Runs
<1>5. right' = [u \in Threads |-> right'[u]]
      /\ \A u \in Threads \ {t} : right'[u] = right[u] /\ temp'[u] = temp[u]
  BY <1>3, <1>4 DEF CompareInv, CompareType, CellInv, CallType
<1>6. value' = value \/ \E c, v : value' = [value EXCEPT ![c] = v] /\ owner[c] = Nobody
  BY DEF SetStore, SetRenew, SetOld, Free
<1> QED
  BY <1>1, <1>2, <1>5, <1>6, PlainStep

\* Loads, stores, assignments and comparisons through handles.
LEMMA HandleCompares ==
  ASSUME CompareInv, CellInv, NEW t \in Threads,
         \/ AssignLoad(t) \/ AssignStore(t)
         \/ \E c : Load(t, c)
         \/ \E c, v : Store(t, c, v)
         \/ \E c, d : Assign(t, c, d)
         \/ \E c : Compare(t, c, c),
         OthersStay(t), UNCHANGED handle
  PROVE  CompareInv'
<1>1. /\ Watch /\ UNCHANGED owner /\ ~Comparing(t)
      /\ pc'[t] \in {"idle", "copy", "store", "equal"}
  BY DEF AssignLoad, AssignStore, Load, Store, Assign, Compare, Begin, Returned,
     Comparing, Return, Goto, CellInv, CallType
<1>2. \E p, v : right' = [right EXCEPT ![t] = p] /\ temp' = [temp EXCEPT ![t] = v]
  BY DEF AssignLoad, AssignStore, Load, Store, Assign, Compare, Return, Runs
<1>3. right' = [u \in Threads |-> right'[u]]
      /\ \A u \in Threads \ {t} : right'[u] = right[u] /\ temp'[u] = temp[u]
  BY <1>2 DEF CompareInv, CompareType, CellInv, CallType
<1>4. value' = value \/ \E c, v : value' = [value EXCEPT ![c] = v] /\ owner[c] = Nobody
  BY DEF AssignLoad, AssignStore, Load, Store, Assign, Compare, Free
<1> QED
  BY <1>1, <1>3, <1>4, PlainStep

\* A comparison begins: it has seen its values as they are.
LEMMA BeginsCompare ==
  ASSUME CompareInv, CellInv, NEW t \in Threads, NEW k \in Keys, NEW d,
         handle[t][k] # None, handle[t][k] # d, Compare(t, handle[t][k], d),
         OthersStay(t), UNCHANGED handle
  PROVE  CompareInv'
<1>1. /\ Watch /\ UNCHANGED <<value, owner>> /\ ~Comparing(t)
      /\ pc' = [pc EXCEPT ![t] = "lock"]
      /\ left' = [left EXCEPT ![t] = handle[t][k]]
      /\ \E p, v : right' = [right EXCEPT ![t] = p] /\ temp' = [temp EXCEPT ![t] = v]
  BY DEF Compare, Begin, Returned, Comparing, Goto, Runs
<1>2. pc'[t] = "lock" /\ left'[t] = handle[t][k]
  BY <1>1 DEF CellInv, CallType
<1>3. right' = [u \in Threads |-> right'[u]]
      /\ \A u \in Threads \ {t} : right'[u] = right[u] /\ temp'[u] = temp[u]
  BY <1>1 DEF CompareInv, CompareType, CellInv, CallType
<1>4. Undisturbed(t)
  BY <1>1, <1>3, KeepsOwners DEF Undisturbed
<1>5. CompareType'
  BY <1>1, <1>3 DEF CompareInv, CompareType, Watch
<1>6. Comparison(t)'
  BY <1>1, <1>2, Watched DEF Comparison, Saw
<1>7. Answered(t)'
  BY <1>2 DEF Answered
<1> QED
  BY <1>1, <1>4, <1>5, <1>6, <1>7, AloneCompares

\* It goes on.
LEMMA GoesOnComparing ==
  ASSUME CompareInv, CellInv, NEW t \in Threads, OthersStay(t), UNCHANGED handle,
         CompareLock(t) \/ CompareLoad(t) \/ CompareReturn(t)
  PROVE  CompareInv'
<1>1. /\ Watch /\ UNCHANGED value /\ Comparing(t) /\ Comparison(t)
  BY DEF CompareLock, CompareLoad, CompareReturn, Comparing, CompareInv
<1>2. left[t] \in Cells
  BY <1>1 DEF Comparison, CellInv, CellType
<1>3. /\ right' = right \/ \E p : right' = [right EXCEPT ![t] = p]
      /\ temp' = temp \/ \E v : temp' = [temp EXCEPT ![t] = v]
  BY DEF CompareLock, CompareLoad, CompareReturn, Return, Runs
<1>4. right' = [u \in Threads |-> right'[u]]
      /\ \A u \in Threads \ {t} : right'[u] = right[u] /\ temp'[u] = temp[u]
  BY <1>3 DEF CompareInv, CompareType, CellInv, CallType
<1>5. owner' = owner \/ \E o : /\ owner' = [owner EXCEPT ![left[t]] = o]
                               /\ owner[left[t]] \in {Nobody, t}
  BY <1>1 DEF CompareLock, CompareLoad, CompareReturn, Free, Comparison
<1>6. Undisturbed(t)
  BY <1>1, <1>4, <1>5, KeepsOwners DEF Undisturbed
<1>7. CompareType'
  BY <1>1, <1>4, <1>5 DEF CompareInv, CompareType, Watch
<1>8. /\ seen[t] \subseteq seen'[t]
      /\ value'[left[t]] = value'[right[t]] => TRUE \in seen'[t]
      /\ value'[left[t]] # value'[right[t]] => FALSE \in seen'[t]
  BY <1>1, Watched
<1>9. CASE CompareLock(t)
  <2>1. pc'[t] = "load" /\ UNCHANGED <<left, right>> /\ owner'[left[t]] = t
    BY <1>2, <1>9 DEF CompareLock, Goto, CellInv, CallType, CompareInv, CompareType
  <2>2. Comparison(t)'
    BY <1>1, <1>8, <2>1 DEF Comparison, Saw
  <2>3. Answered(t)'
    BY <2>1 DEF Answered
  <2> QED
    BY <1>1, <1>6, <1>7, <2>2, <2>3, AloneCompares
<1>10. CASE CompareLoad(t)
  <2>1. /\ pc[t] = "load" /\ pc'[t] = "compare" /\ left'[t] = left[t]
        /\ right'[t] = right[t] /\ temp'[t] = value[right[t]] /\ owner' = owner
    BY <1>10 DEF CompareLoad, Goto, Runs, CellInv, CallType, CompareInv, CompareType
  <2>2. Comparison(t)'
    BY <1>1, <1>8, <2>1 DEF Comparison, Saw
  <2>3. Answered(t)'
    BY <2>1 DEF Answered
  <2> QED
    BY <1>1, <1>6, <1>7, <2>2, <2>3, AloneCompares
<1>11. CASE CompareReturn(t)
  <2>1. /\ pc[t] = "compare"
        /\ pc'[t] = IF temp[t] = value[left[t]] THEN "equal" ELSE "unequal"
    BY <1>11 DEF CompareReturn, Return, Goto, CellInv, CallType
  <2>2. Answered(t)'
    BY <1>1, <1>8, <2>1 DEF Answered, Comparison, Saw
  <2>3. ~Comparing(t)'
    BY <2>1 DEF Comparing
  <2> QED
    BY <1>1, <1>6, <1>7, <2>2, <2>3, AloneCompares
<1> QED
  BY <1>9, <1>10, <1>11

\* The invariant of the comparisons is inductive.
LEMMA CompareStep ==
  ASSUME CompareInv, CellInv, [Next]_vars
  PROVE  CompareInv'
<1>1. CASE Tick \/ UNCHANGED vars
  <2>1. UNCHANGED atomicVars /\ UNCHANGED handle
    BY <1>1 DEF Tick, vars, cacheVars
  <2> QED
    BY <2>1 DEF atomicVars, CompareInv, CompareType, Comparing, Comparison, Answered, Saw
<1>2. ASSUME NEW t \in Threads, NEW k \in Keys, NEW l \in Keys, NEW v,
             \/ LoadThrough(t, k) \/ StoreThrough(t, k, v)
             \/ AssignThrough(t, k, l) \/ CompareThrough(t, k, l)
      PROVE  CompareInv'
  <2>1. OthersStay(t)
    BY <1>2, ThreadMoves DEF Step, CellInv
  <2>2. UNCHANGED handle
    BY <1>2 DEF LoadThrough, StoreThrough, AssignThrough, CompareThrough, Unshared
  <2>3. CASE CompareThrough(t, k, l)
    BY <2>1, <2>2, <2>3, BeginsCompare, HandleCompares DEF CompareThrough
  <2>4. CASE LoadThrough(t, k) \/ StoreThrough(t, k, v) \/ AssignThrough(t, k, l)
    BY <2>1, <2>2, <2>4, HandleCompares DEF LoadThrough, StoreThrough, AssignThrough
  <2> QED
    BY <1>2, <2>3, <2>4
<1>3. ASSUME NEW t \in Threads, AtomicGoesOn(t) PROVE CompareInv'
  <2>1. OthersStay(t)
    BY <1>3, ThreadMoves DEF Step, CellInv
  <2>2. UNCHANGED handle
    BY <1>3 DEF AtomicGoesOn, Unshared
  <2> QED
    BY <1>3, <2>1, <2>2, GoesOnComparing, HandleCompares DEF AtomicGoesOn, AtomicStep
<1> QED
  BY <1>1, <1>2, <1>3, LockedCompares, SetCompares DEF Next, Step

\* A comparison answers for one instant of the call.
THEOREM ComparisonIsOfOneInstant == Spec => []AnswersForOneInstant
<1>1. CompareInv => AnswersForOneInstant
  <2> SUFFICES ASSUME CompareInv, NEW t \in Threads, pc[t] \in {"equal", "unequal"}
               PROVE  (pc[t] = "equal") \in seen[t]
    BY DEF AnswersForOneInstant
  <2>1. CASE pc[t] = "equal"
    BY <2>1 DEF CompareInv, Answered
  <2>2. CASE pc[t] = "unequal"
    BY <2>2 DEF CompareInv, Answered
  <2> QED
    BY <2>1, <2>2
<1> QED
  BY CellInductive, CompareInit, CompareStep, <1>1, PTL DEF Spec
=============================================================================
