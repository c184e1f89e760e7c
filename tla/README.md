# go-mod-edge-utils in TLA+

TLA+ models of `go-mod-edge-utils`, the TLC configurations that check them on
small instances, and TLAPS proofs of every invariant and safety property of the
runs for every value of the constants. Paths such as `sse/polling.go`
are relative to `src/pkg`.

- [The system](#the-system): inventory of components
- [The modules](#the-modules): how state and actions correspond to the code
- [The runs](#the-runs): what each run checks and shows, bounds, fairness
- [Findings](#findings)
- [What the properties assume](#what-the-properties-assume)
- [The proofs](#the-proofs)
- [What is not modelled](#what-is-not-modelled) and [the plan](#the-plan)

Run one model with `tlc -config SseManager_service.cfg SseManager.tla`, the
proofs of one module with `tlapm SseManager_proofs.tla`.

## The system

The repository is a library of parts that edge services are put together from. The
subject here are the parts that keep state between calls and are used by several
goroutines, those whose state outlives the process, and what decides whether a
service starts, whom it answers and how it ends.

| Component | State | Operations | What is hard | What makes it correct |
|---|---|---|---|---|
| SSE broadcaster, `sse/broadcaster.go` | subscriber channels with an `isNew` flag, last hash, RWMutex | `Subscribe`, `Unsubscribe`, `Publish` | publishers share a read lock and swap the hash outside it; channels are closed while others publish; full channels drop | no send on a closed channel; a new subscriber gets its first message; subscribers have what the hash stands for, once; `Publish` never blocks |
| SSE polling, `sse/polling.go` | context and cancel function, wait group | `Start`, `Stop`, the loop with ticker, select and stop condition | unsynchronised fields that each `Start` overwrites and each goroutine reads anew; `Stop` waits for every goroutine | after `Stop` nothing polls; `Stop` returns; the stop condition ends the polling |
| SSE manager and handler, `sse/manager.go`, `sse/handler.go` | map from topic to broadcaster, context | request handler, `CreateOrGetBroadcaster`, `RemoveBroadcaster`, `Shutdown`, cleanup goroutine | lookup and creation under different locks; the cleanup runs later, in its own goroutine | no topic and no polling is left behind; one broadcaster per topic; shutdown ends every stream |
| Retry queue, `re_exec/queue.go` | item slice, limit | `Enqueue`, `Dequeue`, `Peek`, `Size`, the retry loop | size, peek, execution and removal are four critical sections, others use the queue between them | an accepted item stays until it succeeded, is executed once, and gets its turn |
| DI container, `di/container.go` | map of constructors and instances, RWMutex | `Update`, `Get` with nested `get` | `get` writes under a read lock; constructors nest, and may return nil; a writer waits between | one instance per service; no update is lost; no deadlock |
| OpenBao client: token, `secrets/openbao` | token, context, map of cancel functions | `SetAuthToken`, renewal goroutine, replacement callback | network calls between every two steps; a shared context field | the token in use is renewed, by one goroutine, until the service ends |
| Secure secret provider, `bootstrap/secret/secure.go` | cache, last update time, callbacks | `GetSecret`, `StoreSecret`, `ListSecretNames`, `HasSecret`, registration of callbacks | fetch and filling of the cache are not one step; the cache shares its maps with callers; retry with a reloaded token; a write whose reply is lost | the cache has what the store has; a get sees every completed store |
| Creation of the provider, `bootstrap/secret/secret.go`, `bootstrap/startup`, `LoadServiceSecrets` | timer, token file, secrets file, the store | retry loop until a client exists, regeneration of a token, seeding of the secrets | token and secrets files and the store outlive the process; some secrets are stored and others not; a crash between the halves of a write | no secret is lost, none goes back to an older version, no start without its secrets |
| Insecure provider, `bootstrap/secret/insecure.go` | callbacks | reads the configuration | few | as the secure provider |
| Bootstrap and HTTP server, `bootstrap/bootstrap.go`, `bootstrap/handlers` | wait group, context, `isRunning` | handlers in order, shutdown on a signal, fatal errors | two goroutines wait for the wait group and may exit the process; a signal before and after the time it is listened for | everything started is waited for; a cancelled service ends |
| Configuration, `bootstrap/configprocessor`, `bootstrap/environment`, `bootstrap/flags` | configuration struct and its map, log level | load, override from the environment, store, set the level | random order of maps; conversion by JSON type and through `float64`; paths with the same name | overrides win, everything else stays; the outcome does not depend on the order |
| Request authentication, `bootstrap/handlers/headers`, `auth_middleware.go` | key cache | hook, look-up and fetch of the key, verification | requests that share and fill the cache at once, each with the algorithm its token names; an issuer that changes its key | nothing without a checked token; a good token passes |
| Other middleware and common API, `bootstrap/handlers`, `bootstrap/controller` | none, status of the answer | headers, log, request limit, timeout, `Ping`, `Version`, `Config`, `AddSecret` | the timeout and the limit answer although the handler goes on | the answer tells what has happened; everybody gets one |
| OAuth2 and JWT, `auth` | token map | login, refresh | concurrent refresh | one refresh per expiry |
| Audit log, `log/auditlog` | enabled flag, coverage level | set, log | two copies of the level | only covered events are written |
| TLS assets, `bootstrap/handlers/tls` | the PKI directory, three output files | generate unless the three are there | a crash or failure between any two writes, deleted files, restart | the files fit together; a new start copes with what it finds |
| Errors, REST helpers, `errors`, `rest`, `bootstrap/utils` | none | kinds, codes, wrapping, query strings, requests to others | a kind that gets lost on its way through wrappers and services | codes and kinds agree |
| Validation, BACnet tables, models | none | pure functions | tables | - |

How they interact: an SSE request handler asks the manager for its topic's
broadcaster, starts the polling service of its configuration for a new one and
subscribes; the polling goroutine publishes to the broadcaster; the last
`Unsubscribe` starts a goroutine that calls back into polling and manager. The
retry queue calls the retry function with the DI container. The secret provider
calls the OpenBao client, sets its token when a request is refused, and invokes
callbacks which may call the provider again; the client's renewal goroutine asks
a callback of the provider's for a new token.

`Run` creates the secret provider, which seeds the store from the secrets file, then
processes the configuration, then calls the bootstrap handlers, each of which may start
goroutines that belong to the wait group; the HTTP server is one. A request passes the
middlewares, of which authentication asks the issuer for its key (through `rest`) or the
secret provider about the token, and ends in a handler; `AddSecret` calls
`StoreSecret`. A signal or a server that fails cancels the context, which the server's
shutdown, the SSE manager, the renewal goroutines and all others wait for.

`PROJECT.json` lists every hazard found in the code, with its line and the
properties that watch it.

## The modules

A step of a model is what runs between two points at which another goroutine can
interfere: a critical section is one step, a network call, an unlocked read and a
later write are different steps. Definitions have the names of the Go functions.
Data are model values; logging, encoding and wording are left out.

Beside some actions stands a *faulty variant*, the same action with a plausible
mistake (a guard dropped, a lock not taken, a reset forgotten). No specification
uses it: put in the place of the action it makes TLC find the property it belongs to
violated (the pairs are in `PROJECT.json`, "mutants"), which shows that the
property can tell the code from a wrong one.

**SseBroadcaster** — one `Broadcaster`, any publishers, one channel per `Subscribe`.
`Publish` is `PublishHash` (compare and swap of the hash, before the lock),
`PublishLock`, then for each subscriber `PublishVisit` (the decision) and
`PublishSend` (the `select` with `default`), then `PublishUnlock`. A writer enters
only if no publisher is `"sending"`. History variables: `lastSent`, and `serial`,
which says that publications have not overlapped.

**SsePolling** — one `Polling` value. Each start has a context and a goroutine of the
same name; `ctx` is the shared field. The loop is `Fetch`, `PublishData`,
`CheckStopCondition`, `EnterSelect` (which evaluates `p.ctx.Done()` of now), then
`SelectTick` or `SelectDone`; the ticker's channel holds one tick. `Stop` is
`StopCancel` and `StopReturn` (`wg.Wait`).

**PollingService** — the abstract specification of that value: which goroutine runs,
which context it goes by and when it ends. SsePolling implements it (`Service`,
`ImplementsService`: a goroutine between launch and `wg.Done` is just running), and
SseManager is built on it.

**SseManager** — composes the handler, the manager's map and PollingService. A
broadcaster is named by the request that created it. `GetBroadcaster` (read lock) and
`CreateBroadcaster` (write lock) are separate steps, as in the code; then
`SetPollingService`, `StartPolling`, `Subscribe`, and `Leave`, which deletes the
subscriber and starts the cleanup if none is left. The cleanup is `StopPolling`
(or `SkipStopPolling`), `StopPollingDone`, `RemoveBroadcaster`. What is published is
left to SseBroadcaster.

**RetryQueue** — abstract specification of the retry queue: items wait in order, each
is executed once and then removed, and every one gets there. The promise ends
(`Interfere`) when somebody else dequeues.

**ReExecQueue** — the memory queue: `Enqueue`, `Dequeue` by others, and the loop, whose
round is `Size`, `Peek`, `Succeed` or `Fail`, `RemoveFirst`. Implements RetryQueue
(`Promise`, `KeepsPromise`).

**DiContainer** — `Get` as a stack of calls of `get`: `RLock`, `LookupReturns` or
`LookupConstructs`, `Ask` (a nested call), `Construct`, `StoreBegin`/`Store`. `Update` is
`LockBegin`, `Register` for each service, `Unlock`. Go's RWMutex lets no reader in once
a writer waits, and lets all waiting readers in at `Unlock`. An access to the map
while another goroutine writes to it is undefined: `Detect` lets the runtime end the
program or not. A constructor in `NilMakers` may return nil, and is then run again by the next
`Get`, as the one registered for a secret provider that is not there yet (`secret/secret.go:154`).
`MCDiContainer` gives the dependency of one service on another, and two constructors that may.

**TokenRenewal** — `SetAuthToken` as `CancelOld`, `Install`, `LookupToken`, `RenewNow`,
`Start`, `RegisterCancel`/`Fail`, each reading the shared token and context fields when the code does;
the renewal goroutine as `Enter` (its select evaluates `c.context.Done()` of now),
`Dismiss`, `Tick`, `Renewed`, `GiveUp`, `Replace`. The store and the callback are
environment. Contexts are named by the number of the call that made them.

**SecretCache** — `GetSecret` as `Lookup`, `Fetch` (with the retry `FetchRefused`, `Reload`),
`Fill`; `StoreSecret` as `StoreBegin`, `Write` (with the same retry), `SecretUpdated`, the
callback, `Clear`, or it fails: before anything was written (`WriteFails`), or after the store has
applied the write and its reply was lost or an error (`WriteUnreported`; a write is applied, if at all,
before its call returns); `ListSecretNames` with that retry, but without the cache. Values of keys
are told apart by version. That the cache entry *is* the map some callers hold is
modelled (`owners`). `MCSecretCache` defines the symmetry.

**SecretStart** — `NewSecretProvider`: the loop (`HasNotElapsed`), `GetSecretConfig`,
`NewSecretsClient`, which may find the store out of reach or the token refused,
`RegenToken`; then `LoadServiceSecrets` as `ReadSecretsFile`, one `SeedSecret` per secret, in
any order and with any of them failing, whether or not the store has stored it, and the overwriting of the file in its two
halves, `Truncate` and `WriteSecretsFile`, or `WriteFails`, which leaves the file truncated. The timer elapses at any moment. Token
file, secrets file and store outlive the process (`ForgetSecrets`). The module has the
state and the actions, and ServiceRun the specification.

**ServiceRun** — extends SecretStart with `Run`: start, provider, configuration, the handlers
one by one (`WorkerHandler` stands for one with a goroutine, `HttpHandler`, `MessageHandler`), the
wait, the return. The wait group is its counter `wg`; the goroutines are `interrupt`
(`translateInterruptToCancel`), `shutdown` and `serve` of the HTTP server, and `worker`. `Signal`
kills the process while nobody listens for signals. `Ends` is the end of the process,
by return, fatal error or `Crash`; `Start` begins the next life on the same disk.
`MCServiceRun` gives the orders of the handlers.

**ConfigProcess** — `Process` as `LoadFromFile`, `Marshal`, one `Override` per variable in any
order, `Store` (`ConvertFromMap`), `SetLogLevel`. A value is tagged with its kind; `AsJson` is what
JSON makes of it, `ConvertToType` what the code makes of a text given the old value, `Fits` what
`json.Unmarshal` accepts. Numbers beyond `MaxExact`, positive or negative, stand for those beyond 2^53; integer fields are
signed or unsigned (`Fitting`).
`BuildOverrideNames` is the set of results the random order of the paths may have.
`MCConfigProcess` gives the tables: names, numbers, flags, files.

**TlsAssets** — `GetTlsCertAndKeyPath`: `FromEnvironment`, `Skip`, `Rejected`, or the generation of the
CA (`RemovePkiDir`, `MakePkiDir`, `GenerateRoot`), of the certificate (`Sign`, `GenerateTls`) and the
copying of three files. Each write is two steps, create or truncate and write; between
any two steps the process may die (`Crash`) or the call fail (`Fails`). Each call reads the
configuration anew (`Start`), and may find another one; the paths in it stay the same. There may be a CA
from the start, or a part of one. A key is a number,
a certificate names the key it is for and the key that signed it.

**HttpErrors** — operators only: `CodeMapping`, `KindMapping`, `Kind` of a chain of wrapped
errors, the parsers of query strings with their defaults and ranges, and the outcome of
`GetRequest`/`PutRequest` (`SendRequest`) and of `HTTPSender` (`HttpSend`), in the order in which the
code gives up.

**HttpPipeline** — requests in slots, each at one place of its way: `RequestLimit`, then, for a
route with the hook, `NoToken`, `AskStore` (`AskNobody` without a provider: the call panics and the
connection is closed), or `LookUp`, `Fetch`, `FillCache`, `Verify`, then a
handler: `Ping` (with version and configuration), `AddSecret` and `Created`, and two that
services would write with the helpers of this repository, `List` and `Forward`. `Timeout`
answers a request wherever it is and leaves it running. The issuer (`Rotate`) and
what echo does with a second answer are environment. `MCHttpPipeline` lists the requests.

A key in the cache is a pair: which key of the issuer's it is (or the empty text of a reply without one), and the
algorithm it was processed for, as `ProcessVerificationKey` goes by the header of the token that asked
first (`Processable`). `Verdicts` is what `VerifyJWT` may find: a key in the form of another algorithm never verifies
a token; a token of the issuer is verified under the key it is signed with; of somebody else's token with an
algorithm of the HS family, under bytes that are no secret, both verdicts are possible, since the
parser is given no list of valid methods (`headers/jwt.go:34`). For EdDSA the code takes the bytes of
the PEM block for the key as they are (`headers/key.go:88`); whether they are one is left open too.
`AddSecret` has the write that the store applied and whose reply was lost.

## The runs

| Run | Instance | Shows |
|---|---|---|
| `sse_publish` | 2 publishers, 2 channels of capacity 1, 3 data, one of which cannot be marshalled | `NoSendOnClosed`, `FirstMessageGuaranteed`, `UpToDate`, `NoRepeat`, `PublishReturns` |
| `sse_polling` | 2 starts that may overlap, 1 `Stop` | `StopMeansFinished`, `StopReturns`, `StopConditionStops`, and that SsePolling implements PollingService with its liveness |
| `sse_service` | 2 requests, 2 topics that share a polling service, 1 without | `NoLeakedPolling`, `NoAbandonedTopic`, `ShutdownEndsRequests`, `GoneMeansClean` |
| `reexec_retry` | 4 items, room for 2, outsiders that dequeue | `NothingLost`, `EveryItemLeaves`, and that ReExecQueue implements RetryQueue with its liveness |
| `di_concurrent` | 2 getters, 1 updater, 2 updates, a chain of 2 services, one of which may be made nil | `NoLostUpdate`, `MadeByRegistered`, `CallsReturn`; `TypeOK` bounds how often a service is constructed whose constructor does not return nil |
| `token_renew` | 1 caller, 3 calls, 2 tokens, one renewable | `CurrentIsRenewed`, `KeepsRenewing`, `ShutdownEndsRenewal` |
| `secret_stores` | 2 goroutines, 2 keys, a callback, 1 write after the first | `ReadsCompletedStores` |
| `config_process` | 8 settings, two with the same name, every file and every environment with at most 2 variables set | `OverridesTakeEffect`, `OutcomeDecided` |
| `service_life` | 2 starts, 2 secrets, 1 update of each, 2 signals, 2 requests, 2 orders of handlers | `SecretKept`, `SeededBeforeUse`, `UpdatesSurvive`, `ReturnsClean`, `CancelEnds`; `TypeOK` says that the counter of the wait group is right |
| `tls_restart` | 3 calls, each with its own configuration, 7 keys | `AssetsFit`, `NeverStuck`; `TlsTypeOK` says which file may be open |
| `requests` | 2 slots, 3 requests of 8 kinds, 2 keys of the issuer, 3 kinds of services: with public keys (RS, then EdDSA), with secret keys, under TRACE and without a provider, and without validation | `OnlyVerified`, `RefusedOnlyIfStale`, `EffectMatchesAnswer`, `Answered` |
| `sse_shared_polling` | 2 requests, 2 topics | a counterexample: see the findings |

Type invariants are proved (see [the proofs](#the-proofs)). The runs repeat those of DiContainer,
ConfigProcess, ServiceRun and TlsAssets only, which say more than types: how often something is
constructed, what the counter of the wait group is, which file may be open.

**Why the bounds are enough.** The races are between two parties, so there are two of
each kind that can race (publishers, starts, requests, getters, threads). A channel
of capacity 1 is empty, full and dropping within two messages; 64 differs only in the
number of steps. Three data make "new, equal to the last, equal to the one before"
and the marshalling error possible. Two topics with a polling service and one without
make shared, separate and absent polling possible, and two requests on one topic
creation, sharing and removal. Room for two with four items makes the queue full,
drained and full again. A chain of two services has a nested `get` with an update
waiting for it. Three calls of `SetAuthToken` leave a cancelled renewal, its successor
and the successor's successor; in `token_renew` there is one caller, so concurrent
`SetAuthToken` calls are in the model and in no run. One further write suffices for a
cache to be stale.

Two settings that share a name, each with a variable, and one more variable for a third
setting make every interaction of two overrides possible; each setting is one type, and the
texts are of every kind for every type (including `NaN`, a negative number for an unsigned field, and a number that is rounded
out of its field). Two secrets are seeded one without the other; what the second start
does depends on the disk only, so that two starts with a crash in between are what a longer
history repeats. Two signals are one that is handled and one that kills. Three calls of
the TLS generator are one that leaves something behind, one that does so with that, and
one that copes; each uses at most two keys. Two requests share the key cache while a third
follows one of them; two keys are before and after a change, with a foreign token that names HS among the
requests, so that a cache filled for it meets the tokens of the issuer.

`MaxUpdates`, `MaxSets`, `MaxStores`, `MaxStarts`, `MaxSignals`, `MaxRequests`, `MaxKeys`,
`MaxCalls`, `MaxVars` are the bounds that cut something off; the code has none.

**Fairness.**

- *A goroutine that can run does* (weak fairness of a publisher, handler, cleanup, getter,
  updater, `SetAuthToken` call, renewal or loop): Go's scheduler is preemptive and its
  mutexes do not starve a waiter.
- *Select* is strongly fair to the `Done` branch (`SelectDone`, `Dismiss`): Go chooses among
  ready branches at random, so a context that stays done is taken in the end even though
  the ticker may be ready every time.
- *Nothing is assumed of clients*: they may stay or leave, and need not read. A handler
  leaves because `m.ctx` is done, which its loop watches (`serviceDone /\ Leave`).
- *Environment*: the polling function returns, the secret store answers, and in ReExecQueue
  the retry function, tried again and again on an item, returns true in the end
  (`SF_vars(Succeed)`); without that no retry queue can promise anything. A store that never
  answers would hold up a renewal and its dismissal, as `http.DefaultClient` has no timeout.
- *A service* (`service_life`): `Run` and each of its goroutines goes on, the timer runs, and a
  request in flight is answered, which the timeout sees to (`WF_vars(RequestEnds)`); nobody has to
  send a signal, and the server need not fail.
- *Requests* (`requests`): only that time passes (`WF_vars(Timeout(r))`). Neither issuer nor
  handler nor any middleware has to go on.
- Nobody has to call `Start`, `Stop`, `Enqueue`, `Get`, `Update`, `SetAuthToken` or to shut down.
- SecretCache, ConfigProcess, SecretStart and TlsAssets are checked for safety only.

`CHECK_DEADLOCK` is left on; where a system may be done, `Terminated`, `Ended` or `Stays` says what
being done means. In `tls_restart` and `requests` it is off: calls and requests come from outside,
and the model stops when the last of the bounded number has ended.

## Findings

`sse_shared_polling` is a violated property: all broadcasters of a handler share its polling service,
and `Stop` cancels the context of the latest `Start` (`sse/polling.go:74`), so that when the last client
of one topic leaves, the polling of another topic stops, although `sse/broadcaster.go:87` speaks of the
broadcaster's own subscribers.

The following are behaviours of the code that the models have, and that the properties allow for;
a reader may want to know of them:

- two first requests for a topic create two broadcasters, and the second replaces the first, whose
  clients no publisher finds any more (`sse/manager.go:68`);
- two goroutines may construct a service at once and be handed different instances
  (`di/container.go:134`), and a constructor that returns nil is run again by every `Get`
  (`di/container.go:125`);
- the renewal's callback replaces the token, but the cancel function stays under the old one: the
  next `SetAuthToken` cancels nothing and a second renewal runs (`secrets/openbao/secrets.go:242`);
- values fetched before a `StoreSecret` may fill the cache after it was cleared, and stay until the
  next store (`bootstrap/secret/secure.go:116`);
- a `StoreSecret` that fails leaves the cache as it is, also when the store has applied the write and
  only its reply was lost (`bootstrap/secret/secure.go:183`); `AddSecret` then answers 500 with the secret
  stored (`controllers/commonapi.go:120`);
- a secrets file with an entry that is not valid is emptied (`bootstrap/secret/secure.go:271`), and one
  whose writing fails, or the process dies over, stays empty, after which every start fails;
- if the startup timer has elapsed before the first attempt, `NewSecretProvider` returns nil without
  an error (`bootstrap/secret/secret.go:70`);
- `isRunning` becomes false when the shutdown begins, not when it ends (`handlers/httpserver.go:142`);
- with a failed server it depends on who wakes first whether the process exits with 1 or `Run`
  returns (`handlers/httpserver.go:159`);
- a request that is too big is answered with 413 and handled all the same
  (`handlers/common_middleware.go:89`);
- the key cache is never invalidated; an empty answer of the issuer is cached as a key, and a key in the
  form for the algorithm of the token that came first, verified or not
  (`handlers/headers/key.go:63`);
- a token may name any algorithm (`handlers/headers/jwt.go:34`);
- with validation and no secret provider, a token of the secret store makes the handler panic
  (`handlers/auth_secretstore.go:21`);
- a call that is to use a CA fails if it finds only a part of one (`handlers/tls/certificates/cert.go:32`);
- an override of a setting that is null in the file, or of a key with a slash, panics
  (`environment/variables.go:252`), and numbers above 2^53 are rounded, overridden or not
  (`environment/variables.go:88`).

## What the properties assume

Some properties hold under a condition which the module names. Each is needed: without
it TLC finds a counterexample, and the counterexample is something the code does.

- `UpToDate`, `NoRepeat`: *serial*, publications have not overlapped (and could all be marshalled).
  The hash is swapped before the lock is taken (`broadcaster.go:101`), so of two overlapping
  publications the older may be delivered last; equal data are suppressed afterwards.
  `Broadcaster` documents no rule on who may publish.
- `StopReturns`, `StopConditionStops`: *unless Start replaces the context*. A goroutine reads
  `p.ctx` in every round (`polling.go:116`), so a later `Start` keeps it going and `Stop` waits for it.
  Also, one more poll may come between the stop condition and the end (`polling.go:113`).
- `GoneMeansClean` says "until another request comes": the cleanup runs after the lock is released
  (`broadcaster.go:81`), and a subscriber that comes in between may find its topic removed from
  the map and its polling stopped.
- `NothingLost`, `KeepsPromise`, and `NeverAgain`, which is proved only: *LoopAlone*, nobody else has called `Dequeue`. The loop
  removes the first item of now, not the one it executed (`queue.go:128`).
- `CallsReturn` and the invariants of DiContainer hold up to a detected map race
  (`container.go:127`), which ends the program.
- `CurrentIsRenewed`: the latest `SetAuthToken` succeeded and nothing failed since. A cancelled
  renewal that is asking the store at that moment goes on under its successor's context
  (`secrets.go:220`) and so is never dismissed by its own.
- `ReadsCompletedStores`, and `CacheFreshUnlessMissed`, which is proved only: *raced*, a write came between
  a fetch and the filling of the cache; the latter also: *unreported*, a write was applied and reported as
  failed (which is no completed store). Callbacks run before the cache is cleared
  (`secure.go:188`), so what a callback gets may be the old values.
- `SecretKept`: unless *spoiled*, the cases of an emptied secrets file above.
- `SeededBeforeUse` allows for the nil provider of an elapsed timer.
- `UpdatesSurvive`: *scrub*. With `DisableScrubSecretsFile` the file keeps its secrets, and the next
  start stores them again over newer versions, which is what that setting is for.
- `OverridesTakeEffect` names the rounding of large numbers; `OutcomeDecided` is about settings whose
  name is their own, since of two with one name either may be the one that is overridden.
- `AssetsFit`: what is found and not looked into fits unless copying was cut short; a service that is
  the CA itself has no certificate of its own. `NeverStuck` leaves input and output errors, an
  invalid configuration and, for a call that is to use a CA, the lack of a whole one as the only
  reasons for an error.
- `OnlyVerified`: *verified* is what the code has found, which may be wrong for a foreign token of the HS
  family; the property says when at most.
- `RefusedOnlyIfStale`: the issuer has not changed its key, has not answered without one, and could
  be asked, and the cache was not filled for a token of another algorithm; EdDSA is left out (see `Verdicts`).
- `EffectMatchesAnswer`: the answer was not that of the timeout (503) or of the request limit (413), and a
  500 may hide a write that the store has not confirmed.

## The proofs

A proof module `X_proofs` extends the module `X`. Three of them also extend a neighbour, whose definitions
have names of their own for that, and go on with its theorems: SseBroadcaster_proofs with SsePolling,
SecretCache_proofs with TokenRenewal, and ConfigProcess_proofs with TlsAssets, the other thing a service
goes through at its start.

Everything is proved for any sets and any bounds the named assumptions allow, all of which TLC evaluates
in the runs:

- `BroadcasterAssumption`: the capacity is positive, `Dropped` and `None` are no data; `QueueAssumption`: the
  limit is positive; `ManagerAssumption`; `PollingAssumption`; `SecretAssumption`, `HttpAssumption`,
  `TokenAssumption`, `StartAssumption`, `ServiceAssumption`, `TlsAssumption`: the bounds are numbers, and markers
  such as `Nobody` are none of what they mark the absence of.
- `ContainerAssumption`, `NoCycle`: constructors ask for services, and none needs itself. `FiniteAssumption`:
  there are finitely many getters and services, and nil is no instance; without it the counts of
  DiContainer's `TypeOK` would have no meaning.
- `ConfigAssumption`: what Go's types and JSON guarantee of a file that was read. A field holds a value of its
  type or, where the type has one, nil; the log level is a string and has an environment name of its own;
  there is no NaN in a file, although
  there may be one in an environment variable; parsing gives a number, a flag or an error.

The argument of each module:

- **SseBroadcaster_proofs**: `TypeCorrect`, `NoSendOnClosedHolds`, `FirstMessageHolds`. The invariant
  `IInv` adds that what a publisher has still to visit or send to is registered as long as it
  holds the lock (`PublisherInv`; without it a send could hit a closed channel), and that the
  channel of a new subscriber is empty (`ChannelInv`; that is why its first message is never
  dropped). `UpToDateHolds`, `NoRepeatHolds` rest on `SerialInv`: while publications are serial at most
  one publisher is busy, and hash, `lastSent` and the publisher's `todo` agree.
  About SsePolling `PollingTypeCorrect`; `StopMeansFinishedHolds`, whose invariant is that the goroutines
  a waiting `Stop` will report on have been launched; `ImplementsServiceSafety`, one case per action
  of the loop mapping it to a step or a stutter of PollingService.
- **SseManager_proofs**: `TypeCorrect`, `NoAbandonedTopicHolds`, `NoLeakedPollingHolds`. The invariant
  ties requests to broadcasters: a broadcaster that is held was created, for the same topic
  (`HandlerInv`); the subscribers are exactly the requests that stream from it (`SubsInv`), so that
  the request that finds none left really is the last; the map has a broadcaster under its own
  topic only (`MapInv`), so that a cleanup removes the entry of the topic it is for; and polling is
  started only for broadcasters that will stop it (`PollInv`).
- **ReExecQueue_proofs**: `TypeCorrect`, `NothingLostHolds`, `NeverAgainHolds`, `ImplementsPromiseSafety`.
  The invariant says that, while the loop is alone, the queue does not run empty between
  sizing and removal (`NonEmptyInv`), the item in hand is its first (`WorksOnFirst`), and no item is
  queued twice or queued after its execution except the one being removed (`DistinctInv`).
- **DiContainer_proofs**: `NoLostUpdateHolds`, `MadeByRegisteredHolds`: a getter whose copy of the entry is
  old would have to have read it before an update, which cannot come while it holds the read lock;
  so every version on a stack is the registered one. `TypeCorrect` is about numbers. Since no service
  needs itself, services can be ranked by what they need, the calls of a getter have falling ranks
  (`StackInv`), so that no two are for one service and there are at most as many as services
  (`DistinctCalls`, `DepthBound`). And a service for which there is no instance has been constructed at most
  as often, if its constructor does not return nil, as there are getters in one of its constructions that have still to store (`CountInv`): a
  lookup adds a getter to these, a construction moves it on, a store ends the counting since nobody
  begins to construct what is in the map.
- **SecretCache_proofs**: `TypeCorrect`, `CacheFreshHolds`, `ReadsCompletedStoresHolds`. The invariant says
  that who holds the map of the cache entry is not in a get (`OwnerInv`), that the store has its
  latest write and no version is newer (`NumberInv`), and, unless raced, that what a thread
  is about to fill in is what the store has, and that the cache is at least as new as the
  completed stores, and, unless a write was *unreported* since the cache was last cleared, fresh (`FreshInv`).
  About TokenRenewal `TokenTypeCorrect`, for any callers, with `ContextInv`: wherever there is a call or a
  renewal, there is a context that a call has made. `CurrentIsRenewedHolds` is about one caller (the
  theorem assumes `Callers = {c}`): then the caller's context is that of the latest call, and once that
  call has started a renewal, the shared context is the same, nobody has cancelled it, and the
  goroutine is alive and waits for it and no other (`OnlyCallerInv`).
- **ServiceRun_proofs**, about ServiceRun and the SecretStart it extends. `SecretKeptHolds`,
  `SeededBeforeUseHolds`: what the file marks as imported is in the store (`StoredInv`), the file is torn only
  while it is being written or since it was spoiled (`TornInv`), and what the seeding has passed is stored
  or has failed (`SeedInv`). `UpdatesSurviveHolds`, an action property: only the seeding writes without
  looking, and under `scrub` what it may still write has at most its first version (`ScrubInv`), as the
  service, which makes the later ones, runs only with a file that has nothing left to seed. `TypeCorrect`,
  `ReturnsCleanHolds`: the counter of the wait group is the number of goroutines that have still to call
  `Done` (`GroupInv`), handlers start their goroutines once (`HandlerInv`), and a request is served only while
  the server's shutdown is not over (`EndInv`).
- **HttpPipeline_proofs**: about HttpErrors, `WrappingKeepsCode` (`ToBaseError` changes neither kind nor
  code of a chain of errors of any length) and `StatusRoundTrip` (a kind that is sent to
  another service as its code comes back as a kind with the same code). About the
  pipeline `TypeCorrect`, `OnlyVerifiedHolds`, `RefusedOnlyIfStaleHolds`, `EffectMatchesAnswerHolds`.
  The invariant ties the place of a request to what it has: nobody gets beyond authentication
  without a checked token (`VerifiedInv`), until a request is done its only answer can be the timeout's and
  its only status the request limit's (`PhaseInv`), what is in the cache or about to be is a key the issuer
  has had, or the empty one it has answered with (`EntryInv`), and while the issuer keeps its key and answers with it, and nothing
  was cached for another algorithm, every key in the cache or in a request's hands is that key in its own
  form (`KeyInv`). The lemmas `ReplyEnds` and
  `ErrorEnds` say what an end of a request does to the rest, and most actions cite them.
- **ConfigProcess_proofs**: `TypeCorrect`, `OverridesTakeEffectHolds`, `OutcomeDecidedHolds`. The invariant says what
  the loop has done so far in terms that do not mention its order: an entry of the map is the
  conversion of its own variable's text if that variable has had its turn and stands for it, and as
  in the file otherwise (`MapInv`); what has been put back is the map, and fits (`StoredInv`). The lemma
  `ConvertFits` is the core: a conversion by the JSON type of the old value that fits the field gives what
  the text means for the type of that field, and one that does not has a text that is unacceptable for it.
  About TlsAssets `TlsTypeCorrect`, `AssetsFitHolds`, `NeverStuckHolds`: each phase of a call finds what it
  relies on, whatever it started from and whatever the configuration of the calls before. Who writes a certificate has its key on disk (`PrivateInv`), who signs
  has a usable CA (`CaInv`), what is copied goes together (`PkiInv`), and the copies made so far agree with
  their sources (`CopyInv`), so that files that are all there fit unless copying was cut short (`FitInv`).

Checked by TLC only: every liveness property and the liveness halves of the two refinements, since
fairness and `ENABLED` are beyond the prover.

## What is not modelled

`PROJECT.json` gives the status of every component. In the modelled ones: heartbeats and the encoding
of messages in `handler.go` (a message that fails to be written ends the request, which `Leave`
allows at any time); parsing of intervals; the constructors' own behaviour in the DI container other
than asking for services and returning nil; `lastUpdated` and the metrics of the secure provider; a `RequestTimeout` of
0s, which switches the timeout off, and panics of handlers other than that of `AskNobody`; a token's claims, other
than that it may have expired; a TLS configuration whose paths change from call to call. Callbacks that call
back into the object that calls them (a stop condition that calls `Stop`, a constructor that calls `Get`
on the container) deadlock by construction and are left out.

Not modelled at all:

- *OAuth2 and JWT issuance* (`auth`): most of it are calls of libraries for OAuth2 and JWT and of an identity
  provider; its own state is a map of tokens under a mutex. The concurrent refresh is in the plan.
- *Audit log* (`log/auditlog`): formats and writes; two flags.
- *Insecure provider*: reads the configuration struct; its callbacks are those of the secure provider.
- *BACnet tables* (`prts/bacnet.go`): constant tables with range checks, of which a model would be a copy.
- *Validation rules*, `clients.go`, flags, configuration types, models, constants, container names, mocks: data,
  accessors and calls of libraries, without state of their own.
- Cryptography, the encoding of certificates, the wording of errors, TLS between the services.

## The plan

Done, in order of importance: SSE (broadcaster, polling, manager), retry queue, DI container, token
renewal, secret cache, the start of the secret provider and the life of a service, requests with
authentication and errors, configuration, TLS assets; and the proofs of their invariants.

1. OAuthTokens: two requests that refresh one expired token, with an identity provider whose refresh
   tokens are good once. Bounds: two requests, two refreshes.
2. Concurrent `SetAuthToken`: what holds of two overlapping calls, for which CurrentIsRenewed does not.
3. The map of secret callbacks, which is read and written without a lock, with the treatment of
   races that DiContainer has for its own map.
4. AuditLog: `SetCoverageLevel` against the level the handler keeps.
5. What the liveness properties rest on, as invariants that can be proved: that somebody who can go on
   exists whenever somebody waits (`Stop`, `Publish` and `Get` behind a writer, `Run` at its wait group).
