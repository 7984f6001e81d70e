---- MODULE TtlCache ----
(***************************************************************************)
(* utils::ttl_cache (support/include/utils/ttl_cache.hpp): a map from keys *)
(* to entries that expire, shared by threads.  Its operations run under    *)
(* mutex_; the values are atomics with a mutex each (AtomicValue).  What   *)
(* get hands out is shared with the entry: its holder loads, stores,       *)
(* assigns and compares without mutex_, and also after the entry is gone.  *)
(*                                                                         *)
(* An operation that waits for nothing once it has mutex_ is one step.     *)
(* Set on a key that has an entry waits for the mutex of the value.        *)
(***************************************************************************)
EXTENDS AtomicValue, FiniteSets

CONSTANTS
    Keys,
    ComparedKeys, \* the pairs of keys whose values the program compares
    Durations,    \* lifetimes ttl_ is given
    MaxTime,      \* bound on the clock
    None

Cells == Objects   \* heap objects the entries' shared pointers point to

ASSUME CacheAssumption ==
    /\ None \notin Cells
    /\ ComparedKeys \subseteq Keys \X Keys
    /\ Durations \subseteq Nat /\ MaxTime \in Nat
    /\ IsFiniteSet(Keys) /\ IsFiniteSet(Threads) /\ IsFiniteSet(Cells)
    /\ Cardinality(Cells) > Cardinality(Keys) * (1 + Cardinality(Threads))

VARIABLES
    lock,       \* holder of mutex_
    now,        \* clock::now()
    ttl,        \* ttl_
    data,       \* entries_: the cell of each key, None when it has no entry
    expires,    \* entries_: expires_at
    handle,     \* [thread -> [key -> the cell get gave it for the key]]
    key,        \* the key whose value a thread's call writes
    latest,     \* history: the last value stored under each key
    touched,    \* history: when and with which lifetime a key was last used
    attached    \* history: <<thread, key>> whose key was not removed since its get

cacheVars == <<lock, now, ttl, data, expires, handle, key, latest, touched, attached>>
vars      == <<atomicVars, cacheVars>>

Present(k) == data[k] # None
NoKey      == CHOOSE k \in Keys : TRUE
Unused     == [at |-> 0, ttl |-> 0]
CellOf     == CHOOSE f \in [Keys -> Cells] : \A k, l \in Keys : f[k] = f[l] => k = l

\* A cache the threads have used: some keys have entries, of which the threads
\* have been given all or none.
Init ==
    /\ AtomicInit
    /\ lock = Nobody /\ now = 0
    /\ ttl \in Durations
    /\ \E K \in SUBSET Keys, T \in {{}, Threads} :
          /\ data = [k \in Keys |-> IF k \in K THEN CellOf[k] ELSE None]
          /\ expires = [k \in Keys |-> IF k \in K THEN ttl ELSE 0]
          /\ touched = [k \in Keys |-> [at |-> 0, ttl |-> IF k \in K THEN ttl ELSE 0]]
          /\ attached = T \X K
          /\ handle = [t \in Threads |-> [k \in Keys |->
                         IF t \in T /\ k \in K THEN CellOf[k] ELSE None]]
          /\ \A x \in Cells : x \notin {CellOf[k] : k \in K} =>
                value[x] = CHOOSE v \in Values : TRUE
    /\ key = [t \in Threads |-> NoKey]
    /\ latest = [k \in Keys |-> value[CellOf[k]]]

Touch(k)   == touched' = [touched EXCEPT ![k] = [at |-> now, ttl |-> ttl]]
Renew(k)   == expires' = [expires EXCEPT ![k] = now + ttl] /\ Touch(k)
Unlocked   == lock = Nobody
Pointed    == {data[k] : k \in Keys} \union {handle[t][k] : t \in Threads, k \in Keys}

\* A cell nothing points to, which is what make_shared returns.
FreshCell == CHOOSE x \in Cells : x \notin Pointed

\* A call that is one step under mutex_; v are the values after it.
Locked(t, v) ==
    /\ Begin(t) /\ Unlocked
    /\ value' = v
    /\ Return(t, "idle")
    /\ UNCHANGED <<lock, now, owner, key>>
    /\ Watch

\* Removal of entries; the cells live on in the handles that share them.
Remove(t, K) ==
    /\ Locked(t, value)
    /\ data' = [k \in Keys |-> IF k \in K THEN None ELSE data[k]]
    /\ expires' = [k \in Keys |-> IF k \in K THEN 0 ELSE expires[k]]
    /\ touched' = [k \in Keys |-> IF k \in K THEN Unused ELSE touched[k]]
    /\ attached' = {a \in attached : a[2] \notin K}
    /\ UNCHANGED <<ttl, handle, latest>>

-----------------------------------------------------------------------------
Clear(t)    == Remove(t, Keys)
Erase(t, k) == Remove(t, {k})

Expired(k) == Present(k) /\ expires[k] <= now

PurgeExpired(t) == Remove(t, {k \in Keys : Expired(k)})

SetTtl(t, d) ==
    /\ Locked(t, value)
    /\ ttl' = d
    /\ UNCHANGED <<data, expires, handle, latest, touched, attached>>

\* Mutant: get does not renew what it finds.
Get_NoRenew(t, k) ==
    /\ Locked(t, value)
    /\ handle' = [handle EXCEPT ![t][k] = data[k]]
    /\ attached' = IF Present(k) THEN attached \union {<<t, k>>} ELSE attached \ {<<t, k>>}
    /\ IF Present(k) THEN Touch(k) ELSE UNCHANGED touched
    /\ UNCHANGED <<ttl, data, expires, latest>>

\* An entry without a lifetime left is found and renewed all the same: only
\* purge_expired looks at expires_at.
Get(t, k) ==
    /\ Locked(t, value)
    /\ handle' = [handle EXCEPT ![t][k] = data[k]]
    /\ \/ Present(k) /\ Renew(k) /\ attached' = attached \union {<<t, k>>}
       \/ ~Present(k) /\ attached' = attached \ {<<t, k>>} /\ UNCHANGED <<expires, touched>>
    /\ UNCHANGED <<ttl, data, latest>>

\* Set makes an entry for a key that has none.
SetNew(t, k, v) ==
    /\ ~Present(k)
    /\ Locked(t, [value EXCEPT ![FreshCell] = v])
    /\ data' = [data EXCEPT ![k] = FreshCell]
    /\ latest' = [latest EXCEPT ![k] = v]
    /\ Renew(k)
    /\ UNCHANGED <<ttl, handle, attached>>

\* Mutant: set replaces the value's cell.
SetOld_NewCell(t, k, v) ==
    /\ Present(k)
    /\ Locked(t, [value EXCEPT ![FreshCell] = v])
    /\ data' = [data EXCEPT ![k] = FreshCell]
    /\ latest' = [latest EXCEPT ![k] = v]
    /\ Renew(k)
    /\ UNCHANGED <<ttl, handle, attached>>

\* An existing entry keeps its cell, so that handles see the new value: set
\* keeps mutex_ while it stores through the cell's own mutex, and renews the
\* entry afterwards.
SetOld(t, k, v) ==
    /\ Present(k)
    /\ Begin(t) /\ Unlocked /\ lock' = t
    /\ Goto(t, "set") /\ Runs(t, data[k], NoObject, v)
    /\ key' = [key EXCEPT ![t] = k]
    /\ UNCHANGED <<now, ttl, data, expires, value, owner, handle, latest,
                   touched, attached>>
    /\ Watch

SetStore(t) ==
    /\ pc[t] = "set"
    /\ Free(left[t])
    /\ value' = [value EXCEPT ![left[t]] = temp[t]]
    /\ latest' = [latest EXCEPT ![key[t]] = temp[t]]
    /\ Goto(t, "renew")
    /\ UNCHANGED <<lock, now, ttl, data, expires, owner, left, right, temp, calls,
                   handle, key, touched, attached>>
    /\ Watch

SetRenew(t) ==
    /\ pc[t] = "renew"
    /\ Renew(key[t])
    /\ lock' = Nobody
    /\ Return(t, "idle")
    /\ key' = [key EXCEPT ![t] = NoKey]
    /\ UNCHANGED <<now, ttl, data, value, owner, calls, handle, latest, attached>>
    /\ Watch

-----------------------------------------------------------------------------
\* What a holder does through its handles takes no mutex_.  The history follows
\* a store to the entry it still belongs to.
Unshared == UNCHANGED <<lock, now, ttl, data, expires, handle, touched, attached>>

Writes(t, k, v) ==
    latest' = IF <<t, k>> \in attached THEN [latest EXCEPT ![k] = v] ELSE latest

LoadThrough(t, k) ==
    /\ handle[t][k] # None
    /\ Load(t, handle[t][k])
    /\ UNCHANGED <<key, latest>> /\ Unshared

StoreThrough(t, k, v) ==
    /\ handle[t][k] # None
    /\ Store(t, handle[t][k], v)
    /\ Writes(t, k, v)
    /\ UNCHANGED key /\ Unshared

AssignThrough(t, k, l) ==
    /\ handle[t][k] # None /\ handle[t][l] # None
    /\ Assign(t, handle[t][k], handle[t][l])
    /\ key' = [key EXCEPT ![t] = k]
    /\ UNCHANGED latest /\ Unshared

CompareThrough(t, k, l) ==
    /\ <<k, l>> \in ComparedKeys
    /\ handle[t][k] # None /\ handle[t][l] # None
    /\ Compare(t, handle[t][k], handle[t][l])
    /\ UNCHANGED <<key, latest>> /\ Unshared

AtomicGoesOn(t) ==
    /\ AtomicStep(t)
    /\ \/ pc[t] = "store" /\ Writes(t, key[t], temp[t])
          /\ key' = [key EXCEPT ![t] = NoKey]
       \/ pc[t] # "store" /\ UNCHANGED <<latest, key>>
    /\ Unshared

Tick ==
    /\ now < MaxTime
    /\ now' = now + 1
    /\ UNCHANGED <<atomicVars, lock, ttl, data, expires, handle, key, latest, touched,
                   attached>>

Step(t) == AtomicGoesOn(t) \/ SetStore(t) \/ SetRenew(t)

Next ==
    \/ Tick
    \/ \E t \in Threads :
          \/ Step(t) \/ Clear(t) \/ PurgeExpired(t)
          \/ \E d \in Durations : SetTtl(t, d)
          \/ \E k \in Keys : Erase(t, k) \/ Get(t, k) \/ LoadThrough(t, k)
          \/ \E k \in Keys, v \in Values :
                SetNew(t, k, v) \/ SetOld(t, k, v) \/ StoreThrough(t, k, v)
          \/ \E k, l \in Keys : AssignThrough(t, k, l) \/ CompareThrough(t, k, l)

Spec     == Init /\ [][Next]_vars
FairSpec == Spec /\ \A t \in Threads : WF_vars(Step(t))

-----------------------------------------------------------------------------
\* What get returned stays the entry itself: until the key is removed, its
\* holder and the cache see each other's stores, whoever made the last one.
HandleIsTheEntry ==
    \A a \in attached : /\ data[a[2]] = handle[a[1]][a[2]]
                        /\ value[data[a[2]]] = latest[a[2]]

\* A purge removes exactly the entries nobody used for their whole lifetime:
\* the last get or set counts, with the ttl in force when it was made, and a set
\* counts from when it got through to the value.
PurgeIsExact ==
    [][(\E t \in Threads : PurgeExpired(t)) =>
         \A k \in Keys : Present(k) =>
             (data'[k] = None <=> touched[k].at + touched[k].ttl <= now)]_vars

\* Every call returns: comparisons that keep a value's mutex while they wait for
\* another, and sets that keep the whole cache while they wait for a value, do
\* not end up waiting for one another as long as comparisons go one way.
EveryCallReturns ==
    \A t \in Threads : ~Returned(t) ~> Returned(t)
====
