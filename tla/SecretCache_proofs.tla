------------------------ MODULE SecretCache_proofs -------------------------
(***************************************************************************)
(* Theorems about SecretCache, for any threads, keys, callbacks and number *)
(* of stores: unless a write comes between a fetch and the filling of the  *)
(* cache, GetSecret never returns a value that a completed StoreSecret has *)
(* replaced.  At the end the theorems about TokenRenewal, which keeps the  *)
(* token of the client under it, for any tokens and any number of calls of *)
(* SetAuthToken: its variables, the contexts its goroutines wait for, and, *)
(* for a single caller, that the token of a client that is well is renewed *)
(* by a goroutine nobody has dismissed.                                    *)
(***************************************************************************)
EXTENDS SecretCache, TokenRenewal, TLAPS

USE DEF written

\* The thread whose map became the entry has returned from GetSecret, and what
\* is about to fill the cache is not empty.
OwnerInv ==
  /\ \A t \in owners : getPc[t] = "idle"
  /\ \A t \in Threads : getPc[t] = "filling" => KeysOf(returned[t]) # {}

TypeInv == TypeOK /\ OwnerInv

\* The keys the store has are those of its latest write, and no StoreSecret has
\* returned that has not written.
NumberInv ==
  /\ \A k \in Keys : secretStore[k] \in {0, writes}
  /\ completed <= writes
  /\ \A t \in Threads : version[t] <= writes /\ floor[t] <= completed

\* What is about to fill the cache is what the store has, and what the cache has
\* is at least as new as the completed stores.
FreshInv ==
  ~raced =>
    /\ \A t \in Threads : getPc[t] = "filling" => \A k \in Keys : returned[t][k] \in {0, secretStore[k]}
    /\ \A k \in Keys : cache[k] = 0 \/ cache[k] >= completed
    /\ unreported \/ CacheFresh

\* The inductive invariant.
IInv == TypeInv /\ NumberInv /\ FreshInv /\ ReadsCompletedStores

\* The types the arithmetic of the proofs needs.
LEMMA Numbers ==
  ASSUME TypeInv, SecretAssumption
  PROVE  /\ MaxStores \in Nat /\ MaxStores # 0 /\ writes \in 1..MaxStores /\ completed \in 0..MaxStores
         /\ secretStore \in Contents /\ cache \in Contents
         /\ \A k \in Keys : cache[k] \in 0..MaxStores /\ secretStore[k] \in 0..MaxStores
         /\ \A t \in Threads : /\ returned[t] \in Contents
                               /\ version[t] \in 0..MaxStores /\ floor[t] \in 0..MaxStores
         /\ \A t \in Threads, k \in Keys : returned[t][k] \in 0..MaxStores
<1>1. /\ writes \in 1..MaxStores /\ completed \in 0..MaxStores
      /\ secretStore \in Contents /\ cache \in Contents /\ returned \in [Threads -> Contents]
      /\ version \in [Threads -> 0..MaxStores] /\ floor \in [Threads -> 0..MaxStores]
  BY DEF TypeInv, TypeOK
<1>2. \A t \in Threads : returned[t] \in Contents
  BY <1>1
<1> QED
  BY <1>1, <1>2 DEF SecretAssumption, Contents

LEMMA InitIInv == SecretAssumption /\ Init => IInv
<1> SUFFICES ASSUME SecretAssumption, Init PROVE IInv
  OBVIOUS
<1>1. MaxStores \in Nat /\ 0 \in 0..MaxStores /\ 1 \in 0..MaxStores /\ 1 \in 1..MaxStores
  BY DEF SecretAssumption
<1>2. secretStore \in Contents /\ Nothing \in Contents /\ KeysOf(Nothing) = {}
  BY <1>1 DEF Init, Contents, Nothing, KeysOf
<1>3. TypeOK
  BY <1>1, <1>2 DEF Init, TypeOK
<1>4. OwnerInv
  BY DEF Init, OwnerInv
<1>5. NumberInv
  BY DEF Init, NumberInv
<1>6. FreshInv /\ ReadsCompletedStores
  BY <1>2 DEF Init, FreshInv, CacheFresh, ReadsCompletedStores, Nothing
<1> QED
  BY <1>3, <1>4, <1>5, <1>6 DEF IInv, TypeInv

-----------------------------------------------------------------------------
LEMMA LookupKeepsIInv ==
  ASSUME SecretAssumption, IInv, NEW t \in Threads, NEW keys \in SUBSET Keys, Lookup(t, keys)
  PROVE  IInv'
<1> DEFINE hit == cached /\ keys # {} /\ keys \subseteq KeysOf(cache)
           map == IF hit THEN Only(keys, cache) ELSE Nothing
<1>1. /\ getPc' = [getPc EXCEPT ![t] = IF hit THEN "idle" ELSE "fetching"]
      /\ asked' = [asked EXCEPT ![t] = IF hit THEN {} ELSE keys]
      /\ floor' = [floor EXCEPT ![t] = completed]
      /\ returned' = [returned EXCEPT ![t] = map]
      /\ owners' = owners \ {t}
      /\ UNCHANGED <<secretStore, rejected, cached, cache, storePc, storing, version, completed,
                     callbacks, written>>
  BY DEF Lookup, GetGoto, stores
<1>2. map \in Contents /\ \A k \in Keys : map[k] \in {0, cache[k]}
  BY Numbers DEF IInv, Only, Nothing, Contents
<1> HIDE DEF map, hit
<1>3. TypeOK'
  BY <1>1, <1>2, Numbers DEF IInv, TypeInv, TypeOK, Contents
<1>4. OwnerInv'
  BY <1>1 DEF IInv, TypeInv, TypeOK, OwnerInv
<1>5. NumberInv'
  BY <1>1, Numbers DEF IInv, TypeInv, TypeOK, NumberInv
<1>6. FreshInv'
  BY <1>1 DEF IInv, TypeInv, TypeOK, FreshInv, CacheFresh, NoStoreUnderWay
<1>7. ReadsCompletedStores'
  <2>1. ASSUME ~raced, NEW k \in Keys, map[k] # 0 PROVE map[k] >= completed
    BY <1>2, <2>1 DEF IInv, FreshInv
  <2> QED
    BY <1>1, <1>2, <2>1 DEF IInv, TypeInv, TypeOK, ReadsCompletedStores, KeysOf, Contents
<1> QED
  BY <1>3, <1>4, <1>5, <1>6, <1>7 DEF IInv, TypeInv

LEMMA FetchKeepsIInv ==
  ASSUME SecretAssumption, IInv, NEW t \in Threads, Fetch(t)
  PROVE  IInv'
<1> DEFINE keys == IF asked[t] = {} THEN KeysOf(secretStore) ELSE asked[t]
           map == Only(keys, secretStore)
<1>1. /\ getPc' = [getPc EXCEPT ![t] = "filling"] /\ getPc[t] \in {"fetching", "retrying"}
      /\ returned' = [returned EXCEPT ![t] = map]
      /\ keys # {} /\ keys \subseteq KeysOf(secretStore)
      /\ UNCHANGED <<secretStore, rejected, cacheVars, asked, floor, stores, callbacks, written>>
  BY DEF Fetch, GetGoto
<1>2. map \in Contents /\ KeysOf(map) # {} /\ \A k \in Keys : map[k] \in {0, secretStore[k]}
  BY <1>1, Numbers DEF IInv, Only, Contents, KeysOf
<1> HIDE DEF map, keys
<1>3. TypeOK'
  <2>1. t \notin owners
    BY <1>1 DEF IInv, TypeInv, OwnerInv
  <2> QED
    BY <1>1, <1>2, <2>1 DEF IInv, TypeInv, TypeOK, cacheVars, stores
<1>4. OwnerInv'
  BY <1>1, <1>2 DEF IInv, TypeInv, TypeOK, OwnerInv, cacheVars
<1>5. NumberInv'
  BY <1>1 DEF IInv, NumberInv, stores
<1>6. FreshInv'
  BY <1>1, <1>2 DEF IInv, TypeInv, TypeOK, FreshInv, CacheFresh, NoStoreUnderWay, cacheVars, stores
<1>7. ReadsCompletedStores'
  BY <1>1 DEF IInv, TypeInv, TypeOK, ReadsCompletedStores
<1> QED
  BY <1>3, <1>4, <1>5, <1>6, <1>7 DEF IInv, TypeInv

LEMMA FillKeepsIInv ==
  ASSUME SecretAssumption, IInv, NEW t \in Threads, Fill(t)
  PROVE  IInv'
<1> DEFINE merged == [k \in Keys |-> IF returned[t][k] # 0 THEN returned[t][k] ELSE cache[k]]
<1>1. /\ getPc[t] = "filling" /\ getPc' = [getPc EXCEPT ![t] = "idle"]
      /\ asked' = [asked EXCEPT ![t] = {}]
      /\ cached' = TRUE
      /\ \/ /\ cached /\ cache' = merged /\ owners' = owners
            /\ returned' = [u \in Threads |-> IF u \in owners THEN merged ELSE returned[u]]
         \/ /\ ~cached /\ cache' = returned[t] /\ owners' = {t} /\ returned' = returned
      /\ UNCHANGED <<secretStore, rejected, floor, storePc, storing, version, completed,
                     callbacks, written>>
  BY DEF Fill, GetGoto, stores
<1>2. /\ merged \in Contents /\ returned[t] \in Contents
      /\ \A k \in Keys : merged[k] = returned[t][k] \/ merged[k] = cache[k]
      /\ KeysOf(returned[t]) \subseteq KeysOf(merged) /\ KeysOf(returned[t]) # {}
  BY <1>1, Numbers DEF IInv, TypeInv, OwnerInv, Contents, KeysOf
<1> HIDE DEF merged
<1>3. t \notin owners
  BY <1>1 DEF IInv, TypeInv, OwnerInv
<1>4. /\ cache' \in Contents /\ returned' \in [Threads -> Contents]
      /\ \A u \in Threads : getPc[u] # "idle" => returned'[u] = returned[u]
      /\ \A k \in Keys : cache'[k] = returned[t][k] \/ cache'[k] = cache[k]
      /\ KeysOf(cache') # {}
      /\ \A u \in owners' : returned'[u] = cache'
      /\ \A u \in Threads : returned'[u] = returned[u] \/ returned'[u] = cache'
  BY <1>1, <1>2 DEF IInv, TypeInv, TypeOK, OwnerInv
<1>5. TypeOK'
  BY <1>1, <1>4 DEF IInv, TypeInv, TypeOK
<1>6. OwnerInv'
  BY <1>1, <1>4 DEF IInv, TypeInv, TypeOK, OwnerInv
<1>7. NumberInv'
  BY <1>1 DEF IInv, NumberInv
<1>8. FreshInv'
  <2> SUFFICES ASSUME ~raced PROVE FreshInv'
    BY <1>1 DEF FreshInv
  <2>1. \A k \in Keys : returned[t][k] \in {0, secretStore[k]}
    BY <1>1 DEF IInv, FreshInv
  <2>2. \A k \in Keys : returned[t][k] = 0 \/ returned[t][k] >= completed
    BY <2>1, Numbers DEF IInv, NumberInv
  <2>3. \A k \in Keys : cache'[k] = 0 \/ cache'[k] >= completed
    BY <1>4, <2>2 DEF IInv, FreshInv
  <2>4. unreported \/ CacheFresh'
    BY <1>1, <1>4, <2>1 DEF IInv, FreshInv, CacheFresh, NoStoreUnderWay
  <2>5. \A u \in Threads : getPc'[u] = "filling" =>
          \A k \in Keys : returned'[u][k] \in {0, secretStore'[k]}
    BY <1>1, <1>4 DEF IInv, TypeInv, TypeOK, FreshInv
  <2> QED
    BY <1>1, <2>3, <2>4, <2>5 DEF FreshInv
<1>9. ReadsCompletedStores'
  <2> SUFFICES ASSUME ~raced', NEW u \in Threads, getPc'[u] = "idle", NEW k \in Keys, returned'[u][k] # 0
               PROVE  returned'[u][k] >= floor'[u]
    BY DEF ReadsCompletedStores, KeysOf
  <2>1. floor'[u] = floor[u] /\ floor[u] <= completed /\ floor[u] \in 0..MaxStores
        /\ completed \in 0..MaxStores /\ completed <= writes /\ writes \in 1..MaxStores /\ MaxStores \in Nat
    BY <1>1, Numbers DEF IInv, NumberInv
  <2>2. CASE returned'[u] = cache'
    <3>1. cache'[k] >= completed /\ cache'[k] \in 0..MaxStores
      BY <1>1, <1>4, <1>8, <2>2 DEF FreshInv, Contents
    <3> QED
      BY <2>1, <2>2, <3>1
  <2>3. CASE returned'[u] = returned[u] /\ u = t
    <3>1. returned[t][k] = secretStore[k] /\ secretStore[k] = writes
      BY <1>1, <2>3 DEF IInv, FreshInv, NumberInv
    <3> QED
      BY <2>1, <2>3, <3>1
  <2>4. CASE returned'[u] = returned[u] /\ u # t
    BY <1>1, <2>1, <2>4 DEF IInv, TypeInv, TypeOK, ReadsCompletedStores, KeysOf
  <2> QED
    BY <1>4, <2>2, <2>3, <2>4
<1> QED
  BY <1>5, <1>6, <1>7, <1>8, <1>9 DEF IInv, TypeInv

-----------------------------------------------------------------------------
\* The types of the calls of StoreSecret.
StoreTypes ==
  /\ storePc \in [Threads -> {"idle", "writing", "reloading", "retrying", "updating",
                              "callback", "clearing"}]
  /\ storing \in [Threads -> SUBSET Keys]

\* A write makes the cache stale, but somebody has still to clear it, or it has
\* been reported as failed.
LEMMA PutKeepsIInv ==
  ASSUME SecretAssumption, IInv, NEW t \in Threads, NEW keys \in SUBSET Keys, Put(keys),
         version' \in {version, [version EXCEPT ![t] = writes']},
         StoreTypes',
         UNCHANGED <<rejected, cacheVars, returned, gets, completed, callbacks>>,
         unreported' \in BOOLEAN, unreported' \/ ~NoStoreUnderWay'
  PROVE  IInv'
<1>1. /\ writes < MaxStores /\ writes' = writes + 1
      /\ secretStore' = [k \in Keys |-> IF k \in keys THEN writes' ELSE 0]
      /\ raced' = (raced \/ \E u \in Threads : getPc[u] = "filling")
  BY DEF Put
<1>2. writes' \in 1..MaxStores /\ writes' \in 0..MaxStores /\ writes \in 1..MaxStores /\ 0 \in 0..MaxStores
  BY <1>1, Numbers DEF IInv
<1>3. secretStore' \in Contents
  BY <1>1, <1>2 DEF Contents
<1>4. raced' \in BOOLEAN /\ version' \in [Threads -> 0..MaxStores]
  BY <1>1, <1>2 DEF IInv, TypeInv, TypeOK
<1>5. TypeInv'
  BY <1>2, <1>3, <1>4 DEF IInv, TypeInv, TypeOK, OwnerInv, StoreTypes, cacheVars, gets
<1>6. NumberInv'
  <2>1. \A k \in Keys : secretStore'[k] \in {0, writes'}
    BY <1>1
  <2>2. completed' <= writes' /\ \A u \in Threads : floor'[u] <= completed'
    BY <1>1, Numbers DEF IInv, NumberInv, gets
  <2>3. \A u \in Threads : version'[u] <= writes'
    <3>1. version \in [Threads -> 0..MaxStores]
      BY DEF IInv, TypeInv, TypeOK
    <3>2. \A u \in Threads : version[u] <= writes /\ version[u] \in 0..MaxStores
      BY Numbers DEF IInv, NumberInv
    <3> QED
      BY <1>1, <1>2, <3>1, <3>2
  <2> QED
    BY <2>1, <2>2, <2>3 DEF NumberInv
<1>7. FreshInv'
  BY <1>1 DEF IInv, FreshInv, CacheFresh, cacheVars, gets
<1>8. ReadsCompletedStores'
  BY <1>1 DEF IInv, ReadsCompletedStores, gets
<1> QED
  BY <1>5, <1>6, <1>7, <1>8 DEF IInv

LEMMA WriteKeepsIInv ==
  ASSUME SecretAssumption, IInv, NEW t \in Threads, Write(t) \/ WriteUnreported(t)
  PROVE  IInv'
<1>1. storing[t] \in SUBSET Keys
  BY DEF IInv, TypeInv, TypeOK
<1>2. CASE Write(t)
  <2>1. /\ storePc' = [storePc EXCEPT ![t] = "updating"]
        /\ UNCHANGED <<rejected, unreported, cacheVars, returned, gets, storing, completed, callbacks>>
    BY <1>2 DEF Write, StoreGoto
  <2>2. /\ ~NoStoreUnderWay' /\ unreported' \in BOOLEAN
        /\ StoreTypes'
    BY <2>1 DEF NoStoreUnderWay, IInv, TypeInv, TypeOK, StoreTypes
  <2>3. CASE storing[t] = {}
    <3>1. UNCHANGED <<secretStore, version, writes, raced>>
      BY <1>2, <2>3 DEF Write
    <3>2. TypeInv'
      BY <2>1, <3>1 DEF IInv, TypeInv, TypeOK, OwnerInv, cacheVars, gets
    <3> QED
      BY <2>1, <2>2, <3>1, <3>2 DEF IInv, NumberInv, FreshInv, CacheFresh, ReadsCompletedStores,
                                    cacheVars, gets
  <2>4. CASE storing[t] # {}
    BY <1>1, <1>2, <2>1, <2>2, <2>4, PutKeepsIInv DEF Write
  <2> QED
    BY <2>3, <2>4
<1>3. CASE WriteUnreported(t)
  <2>1. /\ storePc' = [storePc EXCEPT ![t] = "idle"] /\ storing' = [storing EXCEPT ![t] = {}]
        /\ Put(storing[t]) /\ unreported' = TRUE
        /\ UNCHANGED <<rejected, cacheVars, returned, gets, version, completed, callbacks>>
    BY <1>3 DEF WriteUnreported, StoreGoto
  <2>2. StoreTypes'
    BY <2>1 DEF IInv, TypeInv, TypeOK, StoreTypes
  <2> QED
    BY <1>1, <2>1, <2>2, PutKeepsIInv
<1> QED
  BY <1>2, <1>3

LEMMA SecretUpdatedKeepsIInv ==
  ASSUME SecretAssumption, IInv, NEW t \in Threads, SecretUpdated(t)
  PROVE  IInv'
<1> DEFINE to == IF callbacks = {} THEN "clearing" ELSE "callback"
<1>1. /\ getPc[t] = "idle" /\ storePc[t] = "updating" /\ storePc' = [storePc EXCEPT ![t] = to]
      /\ to \in {"clearing", "callback"}
      /\ returned' = [returned EXCEPT ![t] = Nothing]
      /\ owners' = owners \ {t}
      /\ UNCHANGED <<secretStore, rejected, cached, cache, gets, storing, version, completed,
                     callbacks, written>>
  BY DEF SecretUpdated, StoreGoto
<1>2. Nothing \in Contents /\ \A k \in Keys : Nothing[k] = 0
  BY Numbers DEF IInv, Contents, Nothing
<1> HIDE DEF to
<1>3. TypeOK'
  BY <1>1, <1>2 DEF IInv, TypeInv, TypeOK, gets
<1>4. OwnerInv'
  BY <1>1 DEF IInv, TypeInv, TypeOK, OwnerInv, gets
<1>5. NumberInv'
  BY <1>1 DEF IInv, NumberInv, gets
<1>6. FreshInv'
  BY <1>1, <1>2 DEF IInv, TypeInv, TypeOK, FreshInv, CacheFresh, NoStoreUnderWay, gets
<1>7. ReadsCompletedStores'
  BY <1>1, <1>2 DEF IInv, TypeInv, TypeOK, ReadsCompletedStores, KeysOf, gets
<1> QED
  BY <1>3, <1>4, <1>5, <1>6, <1>7 DEF IInv, TypeInv

\* A store that has returned counts as completed; the cache is empty then.
LEMMA ClearKeepsIInv ==
  ASSUME SecretAssumption, IInv, NEW t \in Threads, Clear(t)
  PROVE  IInv'
<1>1. /\ storePc' = [storePc EXCEPT ![t] = "idle"]
      /\ storing' = [storing EXCEPT ![t] = {}] /\ version' = [version EXCEPT ![t] = 0]
      /\ completed' = IF version[t] > completed THEN version[t] ELSE completed
      /\ UNCHANGED <<secretStore, writes, raced, rejected, returned, gets, callbacks>>
      /\ unreported' = FALSE
      /\ cached' = FALSE /\ cache' = Nothing /\ owners' = {}
  BY DEF Clear, Stored, StoreGoto
<1>2. Nothing \in Contents /\ KeysOf(Nothing) = {} /\ (\A k \in Keys : Nothing[k] = 0) /\ 0 \in 0..MaxStores
  BY Numbers DEF IInv, Contents, Nothing, KeysOf
<1>3. completed' \in 0..MaxStores /\ completed' <= writes /\ completed <= completed'
  BY <1>1, Numbers DEF IInv, NumberInv
<1>4. TypeOK'
  BY <1>1, <1>2, <1>3 DEF IInv, TypeInv, TypeOK, gets
<1>5. OwnerInv'
  BY <1>1 DEF IInv, TypeInv, TypeOK, OwnerInv, gets
<1>6. NumberInv'
  <2>1. \A u \in Threads : floor[u] <= completed'
    BY <1>3, Numbers DEF IInv, NumberInv
  <2>2. \A u \in Threads : version'[u] \in {0, version[u]}
    BY <1>1 DEF IInv, TypeInv, TypeOK
  <2>3. \A u \in Threads : version'[u] <= writes
    BY <2>2, Numbers DEF IInv, NumberInv
  <2> QED
    BY <1>1, <1>3, <2>1, <2>3 DEF IInv, NumberInv, gets
<1>7. FreshInv'
  BY <1>1, <1>2 DEF IInv, FreshInv, CacheFresh, gets
<1>8. ReadsCompletedStores'
  BY <1>1 DEF IInv, ReadsCompletedStores, gets
<1> QED
  BY <1>4, <1>5, <1>6, <1>7, <1>8 DEF IInv, TypeInv

-----------------------------------------------------------------------------
\* The steps that only move a thread on, or fail, leave the contents alone.
LEMMA OtherGetStepsKeepIInv ==
  ASSUME SecretAssumption, IInv, NEW t \in Threads, FetchRefused(t) \/ FetchFails(t) \/ Reload(t)
  PROVE  IInv'
<1>1. CASE FetchRefused(t)
  BY <1>1 DEF FetchRefused, GetGoto, IInv, TypeInv, TypeOK, OwnerInv, NumberInv, FreshInv,
              CacheFresh,
              NoStoreUnderWay, ReadsCompletedStores, cacheVars, stores
<1>2. CASE FetchFails(t)
  <2>1. /\ getPc' = [getPc EXCEPT ![t] = "idle"] /\ asked' = [asked EXCEPT ![t] = {}]
        /\ floor' = [floor EXCEPT ![t] = 0]
        /\ UNCHANGED <<secretStore, rejected, cacheVars, returned, stores, callbacks, written>>
    BY <1>2 DEF FetchFails, GetGoto
  <2>2. \A k \in Keys : returned[t][k] >= 0
    BY Numbers DEF IInv
  <2>3. TypeInv'
    BY <2>1, Numbers DEF IInv, TypeInv, TypeOK, OwnerInv, cacheVars, stores
  <2>4. NumberInv'
    BY <2>1, Numbers DEF IInv, TypeInv, TypeOK, NumberInv, stores
  <2>5. FreshInv'
    BY <2>1 DEF IInv, TypeInv, TypeOK, FreshInv, CacheFresh, NoStoreUnderWay, cacheVars, stores
  <2>6. ReadsCompletedStores'
    BY <2>1, <2>2 DEF IInv, TypeInv, TypeOK, ReadsCompletedStores, KeysOf
  <2> QED
    BY <2>3, <2>4, <2>5, <2>6 DEF IInv
<1>3. CASE Reload(t)
  <2>1. /\ \/ getPc[t] = "reloading" /\ getPc' = [getPc EXCEPT ![t] = "retrying"] /\ storePc' = storePc
           \/ storePc[t] = "reloading" /\ storePc' = [storePc EXCEPT ![t] = "retrying"] /\ getPc' = getPc
        /\ rejected' = FALSE
        /\ UNCHANGED <<secretStore, cacheVars, returned, asked, floor, storing, version, completed,
                       callbacks, written>>
    BY <1>3 DEF Reload, GetGoto, StoreGoto
  <2>2. TypeInv'
    BY <2>1 DEF IInv, TypeInv, TypeOK, OwnerInv, cacheVars
  <2>3. NoStoreUnderWay' => NoStoreUnderWay
    BY <2>1 DEF NoStoreUnderWay, IInv, TypeInv, TypeOK
  <2>4. FreshInv'
    BY <2>1, <2>3 DEF IInv, TypeInv, TypeOK, FreshInv, CacheFresh, cacheVars
  <2>5. ReadsCompletedStores'
    BY <2>1 DEF IInv, TypeInv, TypeOK, ReadsCompletedStores
  <2> QED
    BY <2>1, <2>2, <2>4, <2>5 DEF IInv, NumberInv
<1> QED
  BY <1>1, <1>2, <1>3

LEMMA OtherStoreStepsKeepIInv ==
  ASSUME SecretAssumption, IInv, NEW t \in Threads, NEW keys \in SUBSET Keys,
         StoreBegin(t, keys) \/ WriteRefused(t) \/ WriteFails(t) \/ CallbackReturns(t)
  PROVE  IInv'
<1>1. /\ \E to \in {"writing", "reloading", "idle", "clearing"} : storePc' = [storePc EXCEPT ![t] = to]
      /\ storePc'[t] # "clearing" => storePc[t] \in {"idle", "writing", "reloading", "retrying"}
      /\ storePc'[t] = "clearing" => storePc[t] = "callback"
      /\ \E new \in SUBSET Keys : storing' = [storing EXCEPT ![t] = new]
      /\ UNCHANGED <<secretStore, rejected, cacheVars, returned, gets, version, completed, callbacks,
                     writes, raced, unreported>>
  BY DEF StoreBegin, WriteRefused, WriteFails, CallbackReturns, StoreGoto, IInv, TypeInv, TypeOK
<1>2. TypeInv'
  BY <1>1 DEF IInv, TypeInv, TypeOK, OwnerInv, cacheVars, gets
<1>3. NoStoreUnderWay' => NoStoreUnderWay
  BY <1>1 DEF NoStoreUnderWay, IInv, TypeInv, TypeOK
<1> QED
  BY <1>1, <1>2, <1>3 DEF IInv, NumberInv, FreshInv, CacheFresh, ReadsCompletedStores, cacheVars,
                          gets

LEMMA StepIInv == SecretAssumption /\ IInv /\ [Next]_vars => IInv'
<1> SUFFICES ASSUME SecretAssumption, IInv, [Next]_vars PROVE IInv'
  OBVIOUS
<1> USE DEF IInv, TypeInv, TypeOK, OwnerInv, NumberInv, FreshInv, CacheFresh, NoStoreUnderWay,
            ReadsCompletedStores, cacheVars, gets, stores
<1>1. ASSUME NEW name \in Names, Register(name) \/ Deregister(name) PROVE IInv'
  BY <1>1 DEF Register, Deregister
<1>2. CASE ListSecretNames \/ Reject
  <2>1. rejected' \in BOOLEAN
    BY <1>2 DEF ListSecretNames, Reject
  <2>2. UNCHANGED <<secretStore, cacheVars, returned, gets, stores, callbacks, written>>
    BY <1>2 DEF ListSecretNames, Reject
  <2> QED
    BY <2>1, <2>2
<1>3. CASE UNCHANGED vars
  BY <1>3 DEF vars
<1> HIDE DEF IInv
<1> QED
  BY <1>1, <1>2, <1>3, LookupKeepsIInv, FetchKeepsIInv, FillKeepsIInv, WriteKeepsIInv,
     SecretUpdatedKeepsIInv, ClearKeepsIInv, OtherGetStepsKeepIInv, OtherStoreStepsKeepIInv
     DEF Next, GetStep, StoreStep

LEMMA InvariantHolds == Spec => []IInv
BY InitIInv, StepIInv, SecretAssumption, PTL DEF Spec

\* The variables have their types, an entry of the cache is never empty, and the
\* threads that were given the map of the entry see what is put into it.
THEOREM TypeCorrect == Spec => []TypeOK
<1>1. IInv => TypeOK
  BY DEF IInv, TypeInv
<1> QED
  BY <1>1, InvariantHolds, PTL

\* Unless somebody has still to clear it, or it has missed a write (one that came
\* between a fetch and its filling, or one reported as failed which no later
\* StoreSecret has mended), the cache has what the store has.
THEOREM CacheFreshHolds == Spec => []CacheFreshUnlessMissed
<1>1. IInv => CacheFreshUnlessMissed
  BY DEF IInv, FreshInv, CacheFreshUnlessMissed
<1> QED
  BY <1>1, InvariantHolds, PTL

\* GetSecret returns no value older than the completed stores.
THEOREM ReadsCompletedStoresHolds == Spec => []ReadsCompletedStores
<1>1. IInv => ReadsCompletedStores
  BY DEF IInv
<1> QED
  BY <1>1, InvariantHolds, PTL

-----------------------------------------------------------------------------
(* The token of the client, TokenRenewal *)

\* A call under way has a context, and so has the client once a goroutine has
\* been started.
ContextInv ==
  /\ context \in 0..sets
  /\ \A c \in Callers : pc[c] # "idle" => ctx[c] # NoContext
  /\ (\E x \in Contexts : renewal[x] # "none") => context # NoContext

TokenTypeInv == TokenTypeOK /\ ContextInv

\* Where the numbers of contexts lie.
LEMMA TokenNumbers ==
  ASSUME TokenTypeInv, TokenAssumption
  PROVE  /\ sets \in 0..MaxSets /\ MaxSets \in Nat
         /\ \A c \in Callers : ctx[c] \in 0..sets
         /\ \A t \in Tokens : cancelFunc[t] \in 0..sets
         /\ \A t \in Tokens : cancelFunc[t] # sets + 1
         /\ token \in Tokens /\ cancelled \subseteq 1..sets /\ sets + 1 \notin cancelled
<1>1. /\ ctx \in [Callers -> 0..sets] /\ cancelFunc \in [Tokens -> 0..sets]
      /\ token \in Tokens /\ cancelled \subseteq 1..sets /\ sets \in 0..MaxSets
  BY DEF TokenTypeInv, TokenTypeOK
<1> QED
  BY <1>1 DEF TokenAssumption

LEMMA InitTokenTypeInv == TokenAssumption /\ TokenInit => TokenTypeInv
<1> SUFFICES ASSUME TokenAssumption, TokenInit PROVE TokenTypeInv
  OBVIOUS
<1> USE DEF TokenInit, NoContext
<1>1. MaxSets \in Nat /\ sets = 0 /\ sets \in 0..MaxSets /\ 0 \in 0..sets
  BY DEF TokenAssumption
<1>2. cancelFunc \in [Tokens -> 0..sets] /\ cancelled \subseteq 1..sets
  BY <1>1
<1>3. pc \in [Callers -> {"idle", "installing", "looking up", "renewing", "starting",
                          "registering", "failing"}]
      /\ newToken \in [Callers -> Tokens] /\ ctx \in [Callers -> 0..sets]
  BY <1>1
<1>4. /\ renewal \in [Contexts -> {"none", "entering", "waiting", "renewing", "forbidden", "ended"}]
      /\ waitsOn \in [Contexts -> 0..sets]
      /\ \A x \in Contexts : renewal[x] = "none"
  BY <1>1
<1> QED
  BY <1>1, <1>2, <1>3, <1>4 DEF TokenTypeInv, TokenTypeOK, ContextInv

LEMMA CallerKeepsTypeInv ==
  ASSUME TokenAssumption, TokenTypeInv, NEW c \in Callers, CallerStep(c)
  PROVE  TokenTypeInv'
<1> USE DEF TokenTypeInv, TokenTypeOK, ContextInv, Contexts, NoContext, Goto, client, contexts, callers, renewals
<1>1. ASSUME Install(c) PROVE TokenTypeInv'
  BY <1>1 DEF Install
<1>2. ASSUME LookupToken(c) PROVE TokenTypeInv'
  BY <1>2 DEF LookupToken
<1>3. ASSUME RenewNow(c) PROVE TokenTypeInv'
  BY <1>3 DEF RenewNow
<1>4. ASSUME Start(c) PROVE TokenTypeInv'
  <2> HIDE DEF TokenTypeInv, TokenTypeOK
  <2>1. /\ ctx[c] # 0
        /\ context' = ctx[c] /\ renewal' = [renewal EXCEPT ![ctx[c]] = "entering"]
        /\ renewal \in [1..MaxSets -> {"none", "entering", "waiting", "renewing", "forbidden", "ended"}]
    BY <1>4 DEF Start, TokenTypeInv, TokenTypeOK
  <2>2. ctx[c] \in 1..MaxSets /\ ctx[c] \in 0..sets
    BY <2>1, TokenNumbers
  <2>3. context' \in 1..MaxSets /\ renewal'[context'] = "entering"
    BY <2>1, <2>2
  <2> QED
    <3>1. /\ renewal' \in [Contexts -> {"none", "entering", "waiting", "renewing", "forbidden",
                                        "ended"}]
          /\ \A x \in Contexts : renewal'[x] \in {renewal[x], "entering"}
      BY <2>1, <2>2
    <3>2. pc' = [pc EXCEPT ![c] = "registering"] /\ started' = TRUE
          /\ UNCHANGED <<token, cancelFunc, contexts, newToken, ctx, waitsOn, expired, gaveUp>>
      BY <1>4 DEF Start
    <3>3. TokenTypeOK'
      <4>1. \A x \in Contexts : renewal'[x] = "waiting" => waitsOn'[x] # NoContext
        BY <3>1, <3>2 DEF TokenTypeInv, TokenTypeOK
      <4>2. pc' \in [Callers -> {"idle", "installing", "looking up", "renewing", "starting",
                                "registering", "failing"}]
        BY <3>2 DEF TokenTypeInv, TokenTypeOK
      <4> QED
        BY <2>3, <3>1, <3>2, <4>1, <4>2 DEF TokenTypeInv, TokenTypeOK
    <3>4. ContextInv'
      <4>1. \A d \in Callers : pc'[d] # "idle" => ctx[d] # NoContext
        BY <2>1, <3>2, <3>3 DEF TokenTypeInv, TokenTypeOK
      <4>2. context' \in 0..sets /\ context' # NoContext
        BY <2>1, <2>2
      <4> QED
        BY <3>2, <4>1, <4>2
    <3> QED
      BY <3>3, <3>4 DEF TokenTypeInv
<1>5. ASSUME RegisterCancel(c) PROVE TokenTypeInv'
  BY <1>5 DEF RegisterCancel
<1>6. ASSUME Fail(c) PROVE TokenTypeInv'
  <2> HIDE DEF TokenTypeInv, TokenTypeOK
  <2>1. ctx[c] # 0
    BY <1>6 DEF Fail, TokenTypeInv
  <2>2. cancelled \union {ctx[c]} \subseteq 1..sets /\ 0 \in 0..sets
    BY <2>1, TokenNumbers
  <2> QED
    BY <1>6, <2>1, <2>2 DEF Fail, TokenTypeInv, TokenTypeOK
<1> QED
  BY <1>1, <1>2, <1>3, <1>4, <1>5, <1>6 DEF CallerStep

LEMMA CancelOldKeepsTypeInv ==
  ASSUME TokenAssumption, TokenTypeInv, NEW c \in Callers, NEW t \in Tokens, CancelOld(c, t)
  PROVE  TokenTypeInv'
<1>1. /\ sets' = sets + 1 /\ sets < MaxSets /\ MaxSets \in Nat
      /\ UNCHANGED <<client, shutdown, renewals, expired, gaveUp>>
      /\ pc' = [pc EXCEPT ![c] = "installing"]
      /\ newToken' = [newToken EXCEPT ![c] = t] /\ ctx' = [ctx EXCEPT ![c] = sets']
      /\ cancelled' = cancelled \union ({cancelFunc[token], cancelFunc[t]} \ {0})
  BY DEF CancelOld, Goto, TokenAssumption, NoContext
<1>2. sets \in 0..MaxSets
  BY DEF TokenTypeInv, TokenTypeOK
<1>3. 0..sets \subseteq 0..sets' /\ 1..sets \subseteq 1..sets' /\ sets' \in 1..sets' /\ sets' \in 0..MaxSets
  BY <1>1, <1>2
<1>4. cancelled' \subseteq 1..sets'
  BY <1>1, <1>2, <1>3, TokenNumbers
<1>5. /\ pc' \in [Callers -> {"idle", "installing", "looking up", "renewing", "starting",
                              "registering", "failing"}]
      /\ newToken' \in [Callers -> Tokens] /\ ctx' \in [Callers -> 0..sets']
      /\ \A d \in Callers : pc'[d] # "idle" => ctx'[d] # NoContext
  <2>1. /\ pc \in [Callers -> {"idle", "installing", "looking up", "renewing", "starting",
                               "registering", "failing"}]
        /\ newToken \in [Callers -> Tokens] /\ ctx \in [Callers -> 0..sets]
        /\ \A d \in Callers : pc[d] # "idle" => ctx[d] # 0
    BY DEF TokenTypeInv, TokenTypeOK, ContextInv, NoContext
  <2>2. sets' # 0 /\ sets' \in 0..sets'
    BY <1>1, <1>2
  <2> QED
    BY <1>1, <1>3, <2>1, <2>2 DEF NoContext
<1>6. started' \in BOOLEAN
  BY DEF CancelOld
<1>7. cancelFunc' \in [Tokens -> 0..sets'] /\ waitsOn' \in [Contexts -> 0..sets']
  <2>1. cancelFunc \in [Tokens -> 0..sets] /\ waitsOn \in [Contexts -> 0..sets]
    BY DEF TokenTypeInv, TokenTypeOK
  <2> QED
    BY <1>1, <1>3, <2>1 DEF client, renewals
<1> QED
  BY <1>1, <1>3, <1>4, <1>5, <1>6, <1>7 DEF TokenTypeInv, TokenTypeOK, ContextInv, client, renewals

LEMMA RenewalKeepsTypeInv ==
  ASSUME TokenAssumption, TokenTypeInv, NEW x \in Contexts, RenewalStep(x)
  PROVE  TokenTypeInv'
<1> USE DEF TokenTypeInv, TokenTypeOK, ContextInv, Contexts, NoContext, RenewalGoto, client, contexts, callers
<1>1. ASSUME Enter(x) PROVE TokenTypeInv'
  <2>1. context # 0 /\ context \in 1..MaxSets /\ context \in 0..sets
    BY <1>1 DEF Enter
  <2> QED
    BY <1>1, <2>1 DEF Enter
<1>2. ASSUME Dismiss(x) PROVE TokenTypeInv'
  BY <1>2 DEF Dismiss
<1>3. ASSUME Tick(x) PROVE TokenTypeInv'
  BY <1>3 DEF Tick
<1>4. ASSUME Renewed(x) PROVE TokenTypeInv'
  BY <1>4 DEF Renewed
<1>5. ASSUME GiveUp(x) PROVE TokenTypeInv'
  BY <1>5 DEF GiveUp
<1>6. ASSUME NEW t \in Tokens, Replace(x, t) PROVE TokenTypeInv'
  BY <1>6 DEF Replace
<1> QED
  BY <1>1, <1>2, <1>3, <1>4, <1>5, <1>6 DEF RenewalStep

LEMMA StepTokenTypeInv == TokenAssumption /\ TokenTypeInv /\ [TokenNext]_tokenVars => TokenTypeInv'
<1> SUFFICES ASSUME TokenAssumption, TokenTypeInv, [TokenNext]_tokenVars PROVE TokenTypeInv'
  OBVIOUS
<1> USE DEF TokenTypeInv, TokenTypeOK, ContextInv, client, contexts, callers, renewals
<1>1. ASSUME NEW t \in Tokens, Expire(t) PROVE TokenTypeInv'
  BY <1>1 DEF Expire
<1>2. CASE Shutdown
  BY <1>2 DEF Shutdown
<1>3. CASE UNCHANGED tokenVars
  BY <1>3 DEF tokenVars
<1> QED
  BY <1>1, <1>2, <1>3, CallerKeepsTypeInv, CancelOldKeepsTypeInv, RenewalKeepsTypeInv
     DEF TokenNext, Terminated

LEMMA TokenTypeInvHolds == TokenSpec => []TokenTypeInv
BY InitTokenTypeInv, StepTokenTypeInv, TokenAssumption, PTL DEF TokenSpec

\* The variables have their types, and a select waits for the context of a
\* goroutine that was started, never for no context.
THEOREM TokenTypeCorrect == TokenSpec => []TokenTypeOK
<1>1. TokenTypeInv => TokenTypeOK
  BY DEF TokenTypeInv
<1> QED
  BY <1>1, TokenTypeInvHolds, PTL

-----------------------------------------------------------------------------
\* What is so when c is the only caller: the context of the latest call is not
\* cancelled before another call, or its failure; and if that call has started
\* a goroutine, the goroutine waits for that very context.
OnlyCallerInv(c) ==
  /\ ctx[c] = sets
  /\ pc[c] # "idle" => sets \notin cancelled
  /\ started =>
       /\ pc[c] \in {"registering", "idle"} /\ context = sets /\ sets # NoContext
       /\ sets \notin cancelled
       /\ \/ shutdown \/ sets \in gaveUp
          \/ Alive(sets) /\ (renewal[sets] = "waiting" => waitsOn[sets] = sets)

LEMMA InitOnlyCaller ==
  ASSUME NEW c \in Callers PROVE TokenInit => OnlyCallerInv(c)
BY DEF TokenInit, OnlyCallerInv, NoContext

LEMMA StepOnlyCaller ==
  ASSUME TokenAssumption, NEW c \in Callers, Callers = {c}, TokenTypeInv, OnlyCallerInv(c), [TokenNext]_tokenVars
  PROVE  OnlyCallerInv(c)'
<1> USE DEF TokenTypeInv, TokenTypeOK, OnlyCallerInv, Contexts, NoContext, Alive, client, contexts, callers, renewals
<1>1. ASSUME NEW t \in Tokens, CancelOld(c, t) PROVE OnlyCallerInv(c)'
  <2>1. /\ sets' = sets + 1 /\ ctx'[c] = sets' /\ started' = FALSE
        /\ cancelled' = cancelled \union ({cancelFunc[token], cancelFunc[t]} \ {0})
    BY <1>1 DEF CancelOld
  <2> HIDE DEF TokenTypeInv, TokenTypeOK
  <2>2. sets' \notin cancelled'
    BY <2>1, TokenNumbers
  <2> QED
    BY <2>1, <2>2
<1>2. ASSUME CallerStep(c) PROVE OnlyCallerInv(c)'
  <2> USE DEF Goto
  <2>1. CASE Install(c)
    BY <2>1 DEF Install
  <2>2. CASE LookupToken(c)
    BY <2>2 DEF LookupToken
  <2>3. CASE RenewNow(c)
    BY <2>3 DEF RenewNow
  <2>4. CASE Start(c)
    BY <2>4 DEF Start, ContextInv
  <2>5. CASE RegisterCancel(c)
    BY <2>5 DEF RegisterCancel
  <2>6. CASE Fail(c)
    BY <2>6 DEF Fail
  <2> QED
    BY <1>2, <2>1, <2>2, <2>3, <2>4, <2>5, <2>6 DEF CallerStep
<1>3. ASSUME NEW x \in Contexts, RenewalStep(x) PROVE OnlyCallerInv(c)'
  <2> USE DEF RenewalGoto
  <2>1. CASE Enter(x)
    BY <2>1 DEF Enter
  <2>2. CASE Dismiss(x)
    BY <2>2 DEF Dismiss, Done
  <2>3. CASE Tick(x)
    BY <2>3 DEF Tick
  <2>4. CASE Renewed(x)
    BY <2>4 DEF Renewed
  <2>5. CASE GiveUp(x)
    <3>1. /\ renewal' = [renewal EXCEPT ![x] = "ended"] /\ gaveUp' = gaveUp \union {x}
          /\ UNCHANGED <<client, contexts, callers, waitsOn, started>>
      BY <2>5 DEF GiveUp
    <3> QED
      BY <3>1
  <2>6. ASSUME NEW t \in Tokens, Replace(x, t) PROVE OnlyCallerInv(c)'
    BY <2>6 DEF Replace
  <2> QED
    BY <1>3, <2>1, <2>2, <2>3, <2>4, <2>5, <2>6 DEF RenewalStep
<1>4. ASSUME NEW t \in Tokens, Expire(t) PROVE OnlyCallerInv(c)'
  BY <1>4 DEF Expire
<1>5. CASE Shutdown
  BY <1>5 DEF Shutdown
<1>6. CASE UNCHANGED tokenVars
  BY <1>6 DEF tokenVars
<1> QED
  BY <1>1, <1>2, <1>3, <1>4, <1>5, <1>6 DEF TokenNext, Terminated

\* If SetAuthToken is called by one goroutine, for any tokens and any number of
\* calls: once its latest call has started a renewal that has met no error, that
\* renewal goes on, whatever renewals were cancelled before.
THEOREM CurrentIsRenewedHolds ==
  ASSUME NEW c \in Callers, Callers = {c}
  PROVE  TokenSpec => []CurrentIsRenewed
<1>1. TokenTypeInv /\ OnlyCallerInv(c) => CurrentIsRenewed
  BY DEF OnlyCallerInv, CurrentIsRenewed, Healthy, Done, TokenTypeInv, TokenTypeOK
<1>2. TokenInit => OnlyCallerInv(c)
  BY InitOnlyCaller
<1>3. TokenTypeInv /\ OnlyCallerInv(c) /\ [TokenNext]_tokenVars => OnlyCallerInv(c)'
  BY StepOnlyCaller, TokenAssumption
<1> QED
  BY <1>1, <1>2, <1>3, TokenTypeInvHolds, PTL DEF TokenSpec

=============================================================================
