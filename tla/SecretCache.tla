---------------------------- MODULE SecretCache ----------------------------
(***************************************************************************)
(* GetSecret and StoreSecret of the SecureProvider in                      *)
(* pkg/bootstrap/secret/secure.go, for one secret name: the cache of key   *)
(* values, the secret store behind it, the callbacks of StoreSecret and    *)
(* the one retry with a reloaded token.                                    *)
(*                                                                         *)
(* The values of a key are told apart by version, 0 standing for a missing *)
(* key.  A Go map is a reference: the map that becomes the cache entry is  *)
(* the one its caller was given, so what is put into the entry later shows *)
(* up in the caller's map as well.                                         *)
(***************************************************************************)
EXTENDS Naturals

CONSTANTS
  Threads,    \* goroutines that use the provider
  Keys,       \* the keys of the secret
  Names,      \* names callbacks are registered for: the secret's, the wildcard
  MaxStores   \* bound: secrets written to the store

ASSUME SecretAssumption == MaxStores \in Nat \ {0}

VARIABLES
  secretStore, \* the store, external
  rejected,    \* the store answers 403 to the token the client has
  cached,      \* p.secretsCache has an entry for the name
  cache,       \* that entry
  owners,      \* the threads that were given that very map
  returned,    \* the map GetSecret has fetched for, or returned to, each thread
  getPc,       \* where each thread is in GetSecret
  asked,       \* the keys it asks for, while it is there
  storePc,     \* where each thread is in StoreSecret
  storing,     \* the keys it stores
  version,     \* the version of their values
  callbacks,   \* p.registeredSecretCallbacks
  writes,      \* writes to the store so far
  completed,   \* history: the latest version whose StoreSecret has returned
  floor,       \* history: what that was when each thread called GetSecret
  raced,       \* history: the secret was written between a fetch and the
               \* filling of the cache with what was fetched
  unreported   \* history: since the cache was last cleared the store has applied
               \* a write that StoreSecret reported as failed

cacheVars == <<cached, cache, owners>>
gets == <<getPc, asked, floor>>
stores == <<storePc, storing, version, completed>>
written == <<secretStore, writes, raced, unreported>>
vars == <<written, rejected, cacheVars, returned, gets, stores, callbacks>>

Nothing == [k \in Keys |-> 0]

Only(keys, map) == [k \in Keys |-> IF k \in keys THEN map[k] ELSE 0]

KeysOf(map) == {k \in Keys : map[k] # 0}

\* NewSecureProvider with a client, the store of which has all the keys.
Init ==
  /\ secretStore = [k \in Keys |-> 1]
  /\ rejected = FALSE
  /\ cached = FALSE /\ cache = Nothing /\ owners = {}
  /\ returned = [t \in Threads |-> Nothing]
  /\ getPc = [t \in Threads |-> "idle"]
  /\ asked = [t \in Threads |-> {}]
  /\ storePc = [t \in Threads |-> "idle"]
  /\ storing = [t \in Threads |-> {}]
  /\ version = [t \in Threads |-> 0]
  /\ callbacks = {}
  /\ writes = 1
  /\ completed = 0
  /\ floor = [t \in Threads |-> 0]
  /\ raced = FALSE /\ unreported = FALSE

GetGoto(t, from, to) == getPc[t] = from /\ getPc' = [getPc EXCEPT ![t] = to]

StoreGoto(t, from, to) ==
  getPc[t] = "idle" /\ storePc[t] = from /\ storePc' = [storePc EXCEPT ![t] = to]

-----------------------------------------------------------------------------
(* GetSecret *)

\* getSecretsCache finds all the keys that are asked for, if any are, and
\* copies them; otherwise the store is asked.  A callback may call GetSecret, and
\* HasSecret calls it with no keys.
Lookup(t, keys) ==
  LET hit == cached /\ keys # {} /\ keys \subseteq KeysOf(cache) IN
  /\ storePc[t] \in {"idle", "callback"}
  /\ GetGoto(t, "idle", IF hit THEN "idle" ELSE "fetching")
  /\ asked' = [asked EXCEPT ![t] = IF hit THEN {} ELSE keys]
  /\ floor' = [floor EXCEPT ![t] = completed]
  /\ returned' = [returned EXCEPT ![t] = IF hit THEN Only(keys, cache) ELSE Nothing]
  /\ owners' = owners \ {t}
  /\ UNCHANGED <<written, rejected, cached, cache, stores, callbacks>>

\* The client filters what the store has by the keys, which must all be there;
\* with no keys it returns everything, and fails if there is nothing.
Fetch(t) ==
  LET keys == IF asked[t] = {} THEN KeysOf(secretStore) ELSE asked[t] IN
  /\ ~rejected
  /\ keys # {} /\ keys \subseteq KeysOf(secretStore)
  /\ GetGoto(t, "fetching", "filling") \/ GetGoto(t, "retrying", "filling")
  /\ returned' = [returned EXCEPT ![t] = Only(keys, secretStore)]
  /\ UNCHANGED <<written, rejected, cacheVars, asked, floor, stores, callbacks>>

\* The store refuses the token; a second time ends the call, as any error does.
FetchRefused(t) ==
  /\ rejected
  /\ GetGoto(t, "fetching", "reloading")
  /\ UNCHANGED <<written, rejected, cacheVars, returned, asked, floor, stores, callbacks>>

FetchFails(t) ==
  /\ \E from \in {"fetching", "reloading", "retrying"} : GetGoto(t, from, "idle")
  /\ asked' = [asked EXCEPT ![t] = {}]
  /\ floor' = [floor EXCEPT ![t] = 0]
  /\ UNCHANGED <<written, rejected, cacheVars, returned, stores, callbacks>>

\* reloadTokenOnAuthError reads the token file and sets the token, which the
\* store has accepted when SetAuthToken looked it up.
Reload(t) ==
  /\ \/ GetGoto(t, "reloading", "retrying") /\ UNCHANGED storePc
     \/ StoreGoto(t, "reloading", "retrying") /\ UNCHANGED getPc
  /\ rejected' = FALSE
  /\ UNCHANGED <<written, cacheVars, returned, asked, floor, storing, version, completed, callbacks>>

\* updateSecretsCache: the fetched map becomes the entry, or its values are put
\* into the entry there is, which is the map of its owners.
Fill(t) ==
  LET merged == [k \in Keys |-> IF returned[t][k] # 0 THEN returned[t][k] ELSE cache[k]] IN
  /\ GetGoto(t, "filling", "idle")
  /\ asked' = [asked EXCEPT ![t] = {}]
  /\ cached' = TRUE
  /\ IF cached
     THEN /\ cache' = merged
          /\ returned' = [u \in Threads |-> IF u \in owners THEN merged ELSE returned[u]]
          /\ UNCHANGED owners
     ELSE cache' = returned[t] /\ owners' = {t} /\ UNCHANGED returned
  /\ UNCHANGED <<written, rejected, floor, stores, callbacks>>

-----------------------------------------------------------------------------
(* StoreSecret *)

StoreBegin(t, keys) ==
  /\ StoreGoto(t, "idle", "writing")
  /\ storing' = [storing EXCEPT ![t] = keys]
  /\ UNCHANGED <<written, rejected, cacheVars, returned, gets, version, completed, callbacks>>

\* The store replaces the secret.
Put(keys) ==
  /\ ~rejected /\ writes < MaxStores
  /\ writes' = writes + 1
  /\ secretStore' = [k \in Keys |-> IF k \in keys THEN writes' ELSE 0]
  /\ raced' = (raced \/ \E u \in Threads : getPc[u] = "filling")

\* With nothing to store the client does not even ask.
Write(t) ==
  /\ StoreGoto(t, "writing", "updating") \/ StoreGoto(t, "retrying", "updating")
  /\ IF storing[t] = {}
     THEN UNCHANGED <<secretStore, version, writes, raced>>
     ELSE Put(storing[t]) /\ version' = [version EXCEPT ![t] = writes']
  /\ UNCHANGED <<rejected, unreported, cacheVars, returned, gets, storing, completed, callbacks>>

\* The write is done, but its reply is lost or reports an error: StoreSecret returns
\* the error, before the callbacks and the cache.
WriteUnreported(t) ==
  /\ storing[t] # {}
  /\ StoreGoto(t, "writing", "idle") \/ StoreGoto(t, "retrying", "idle")
  /\ Put(storing[t])
  /\ storing' = [storing EXCEPT ![t] = {}]
  /\ unreported' = TRUE
  /\ UNCHANGED <<rejected, cacheVars, returned, gets, version, completed, callbacks>>

WriteRefused(t) ==
  /\ rejected /\ storing[t] # {}
  /\ StoreGoto(t, "writing", "reloading")
  /\ UNCHANGED <<written, rejected, cacheVars, returned, gets, storing, version, completed, callbacks>>

\* An error, and the secret is not written.
WriteFails(t) ==
  /\ storing[t] # {}
  /\ \E from \in {"writing", "reloading", "retrying"} : StoreGoto(t, from, "idle")
  /\ storing' = [storing EXCEPT ![t] = {}]
  /\ UNCHANGED <<written, rejected, cacheVars, returned, gets, version, completed, callbacks>>

\* SecretUpdatedAtSecretName calls the callback of the secret, or else the
\* wildcard callback, if there is one.  (What the thread had got is forgotten.)
SecretUpdated(t) ==
  /\ StoreGoto(t, "updating", IF callbacks = {} THEN "clearing" ELSE "callback")
  /\ returned' = [returned EXCEPT ![t] = Nothing]
  /\ owners' = owners \ {t}
  /\ UNCHANGED <<written, rejected, cached, cache, gets, storing, version, completed, callbacks>>

CallbackReturns(t) ==
  /\ StoreGoto(t, "callback", "clearing")
  /\ UNCHANGED <<written, rejected, cacheVars, returned, gets, storing, version, completed, callbacks>>

\* StoreSecret returns.
Stored(t) ==
  /\ StoreGoto(t, "clearing", "idle")
  /\ storing' = [storing EXCEPT ![t] = {}]
  /\ version' = [version EXCEPT ![t] = 0]
  /\ completed' = IF version[t] > completed THEN version[t] ELSE completed
  /\ unreported' = FALSE
  /\ UNCHANGED <<secretStore, writes, raced, rejected, returned, gets, callbacks>>

\* Faulty variant: only the keys that were stored are cleared.
ClearStoredKeys(t) ==
  /\ Stored(t)
  /\ cache' = [k \in Keys |-> IF k \in storing[t] THEN 0 ELSE cache[k]]
  /\ UNCHANGED <<cached, owners>>

\* p.secretsCache = make(...), after the callbacks.
Clear(t) ==
  /\ Stored(t)
  /\ cached' = FALSE /\ cache' = Nothing /\ owners' = {}

-----------------------------------------------------------------------------
\* RegisterSecretUpdatedCallback refuses a second callback for a name.
Register(name) ==
  /\ name \notin callbacks
  /\ callbacks' = callbacks \union {name}
  /\ UNCHANGED <<written, rejected, cacheVars, returned, gets, stores>>

Deregister(name) ==
  /\ callbacks' = callbacks \ {name}
  /\ UNCHANGED <<written, rejected, cacheVars, returned, gets, stores>>

\* ListSecretNames has no effect but that of reloadTokenOnAuthError.
ListSecretNames ==
  /\ rejected
  /\ rejected' = FALSE
  /\ UNCHANGED <<written, cacheVars, returned, gets, stores, callbacks>>

\* The token expires or is revoked.
Reject ==
  /\ rejected' = TRUE
  /\ UNCHANGED <<written, cacheVars, returned, gets, stores, callbacks>>

GetStep(t) ==
  \/ \E keys \in SUBSET Keys : Lookup(t, keys)
  \/ Fetch(t) \/ FetchRefused(t) \/ FetchFails(t) \/ Fill(t)

StoreStep(t) ==
  \/ \E keys \in SUBSET Keys : StoreBegin(t, keys)
  \/ Write(t) \/ WriteUnreported(t) \/ WriteRefused(t) \/ WriteFails(t)
  \/ SecretUpdated(t) \/ CallbackReturns(t) \/ Clear(t)

Next ==
  \/ \E t \in Threads : GetStep(t) \/ StoreStep(t) \/ Reload(t)
  \/ \E name \in Names : Register(name) \/ Deregister(name)
  \/ ListSecretNames \/ Reject

Spec == Init /\ [][Next]_vars

-----------------------------------------------------------------------------
Contents == [Keys -> 0..MaxStores]

\* Types; an entry is never empty, and its owners see what it has.
TypeOK ==
  /\ secretStore \in Contents
  /\ rejected \in BOOLEAN
  /\ cached \in BOOLEAN /\ cache \in Contents /\ owners \subseteq Threads
  /\ cached <=> KeysOf(cache) # {}
  /\ \A t \in owners : cached /\ returned[t] = cache
  /\ returned \in [Threads -> Contents]
  /\ getPc \in [Threads -> {"idle", "fetching", "reloading", "retrying", "filling"}]
  /\ asked \in [Threads -> SUBSET Keys]
  /\ storePc \in [Threads -> {"idle", "writing", "reloading", "retrying", "updating",
                              "callback", "clearing"}]
  /\ storing \in [Threads -> SUBSET Keys]
  /\ version \in [Threads -> 0..MaxStores]
  /\ callbacks \subseteq Names
  /\ writes \in 1..MaxStores
  /\ completed \in 0..MaxStores /\ floor \in [Threads -> 0..MaxStores]
  /\ raced \in BOOLEAN /\ unreported \in BOOLEAN

\* Nobody is between writing the secret and clearing the cache.
NoStoreUnderWay == \A t \in Threads : storePc[t] \notin {"updating", "callback", "clearing"}

\* "Clearing cache because adding a new secret(p) possibly invalidates the
\* previous cache": unless a StoreSecret has still to clear it, what the cache
\* has is what the store has.
CacheFresh == NoStoreUnderWay => \A k \in Keys : cache[k] \in {0, secretStore[k]}

\* So it is, whatever other stores, callbacks and gets go on, unless the cache has
\* missed a write: one has come between a fetch and the filling of the cache, or
\* one was reported as failed although the store had applied it, in which case
\* the next StoreSecret mends it.
CacheFreshUnlessMissed == raced \/ unreported \/ CacheFresh

\* As long as no write comes between a fetch and the filling of the cache,
\* GetSecret returns values at least as new as those of every StoreSecret that
\* had returned without an error when it was called.
ReadsCompletedStores ==
  ~raced => \A t \in Threads : getPc[t] = "idle" =>
              \A k \in KeysOf(returned[t]) : returned[t][k] >= floor[t]

=============================================================================
