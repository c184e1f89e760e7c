------------------------- MODULE ServiceRun_proofs -------------------------
(***************************************************************************)
(* Theorems about ServiceRun and the SecretStart it extends, for any       *)
(* secrets, handlers and number of starts, signals, updates and requests:  *)
(* crashes, failures and restarts lose no secret and bring no older        *)
(* version back, and Run returns with everything cleaned up.               *)
(***************************************************************************)
EXTENDS ServiceRun, SequenceTheorems, FiniteSetTheorems, TLAPS

-----------------------------------------------------------------------------
(* The start of the secret provider *)

\* A secrets file, or what has been read of one.
File(f) == f = Torn \/ f \in [Secrets -> {"given", "hollow", "imported"}]

SecretType ==
  /\ spc \in {"idle", "starting", "loop", "token", "client", "regen", "read", "seed",
              "overwrite", "writing", "done", "failed"}
  /\ File(secretsFile) /\ File(contents)
  /\ store \in [Secrets -> 0 .. MaxUpdates + 1]
  /\ unseen \subseteq Secrets

Seeding == {"seed", "overwrite", "writing"}

\* What is marked as imported is stored.
StoredInv ==
  \A s \in Secrets : /\ secretsFile[s] = "imported" => store[s] > 0
                     /\ spc \in Seeding /\ contents[s] = "imported" => store[s] > 0

\* The file is torn only while it is being written, unless it was spoiled.
TornInv == ~spoiled /\ spc # "writing" => \A s \in Secrets : secretsFile[s] # "torn"

\* What the loop of seedSecrets has passed is stored, or has failed.
SeedInv ==
  /\ spc \in Seeding \union {"read"} => provider = "secure"
  /\ spc = "seed" => \A s \in Secrets \ unseen : seedErr \/ contents[s] = "imported"
  /\ spc \in {"overwrite", "writing"} => \A s \in Secrets : seedErr \/ contents[s] = "imported"

\* What may still be seeded has not been updated, since the service runs only with
\* a file that is scrubbed.
ScrubInv ==
  scrub => \A s \in Secrets :
    /\ secretsFile[s] = "given" => store[s] <= 1
    /\ spc \in Seeding /\ contents[s] = "given" => store[s] <= 1
    /\ spc = "done" /\ provider = "secure" => secretsFile[s] = "imported"

SecretInv ==
  SecretType /\ StoredInv /\ TornInv /\ SeedInv /\ ScrubInv /\ SeededBeforeUse

-----------------------------------------------------------------------------
(* The life of the service *)

Counted(t) == IF Live(t) /\ t # "failed" THEN 1 ELSE 0

ThreadType ==
  /\ main \in {"down", "secrets", "config", "handlers", "waiting"}
  /\ interrupt \in {"off", "starting", "waiting", "stopped"}
  /\ shutdown \in {"off", "waiting", "draining", "stopped"}
  /\ serve \in {"off", "starting", "listening", "waiting", "failed", "stopped"}
  /\ worker \in {"off", "waiting", "stopped"}
  /\ requests \in 0 .. MaxRequests /\ signals \in 0 .. MaxSignals /\ starts \in 0 .. MaxStarts

\* The wait group counts the goroutines that will call Done.
GroupInv == wg = Counted(interrupt) + Counted(shutdown) + Counted(serve) + Counted(worker)

\* Each handler is called once, and its goroutines start with it.
HandlerInv ==
  /\ next \in Seq({"http", "worker", "message"})
  /\ \A i, j \in 1 .. Len(next) : i # j /\ next[i] = next[j] => next[i] = "message"
  /\ \A i \in 1 .. Len(next) :
       /\ next[i] = "worker" => worker = "off"
       /\ next[i] = "http"   => serve = "off" /\ shutdown = "off"
  /\ main \notin {"handlers", "waiting"} => serve = "off" /\ shutdown = "off" /\ worker = "off"

\* Why a goroutine has ended, and who still serves requests.
EndInv ==
  /\ main # "down" => interrupt # "off"
  /\ interrupt = "stopped" => cancelled
  /\ shutdown \in {"off", "stopped"} => requests = 0

RunInv == ThreadType /\ GroupInv /\ HandlerInv /\ EndInv

\* Every life begins from the beginning.
IdleInv == main = "down" => spc = "idle"

\* The inductive invariant.
IInv == SecretInv /\ RunInv /\ IdleInv

-----------------------------------------------------------------------------
(* The steps of the start *)

LEMMA InitSecretInv == InitSecrets => SecretInv
<1> SUFFICES ASSUME InitSecrets PROVE SecretInv
  OBVIOUS
<1>1. \A s \in Secrets : store[s] \in {0, 1} /\ (secretsFile[s] = "imported" => store[s] = 1)
  BY DEF InitSecrets
<1>2. spc = "idle" /\ DOMAIN store = Secrets
  BY DEF InitSecrets
<1>3. SecretType
  <2>1. store \in [Secrets -> 0 .. MaxUpdates + 1]
    <3>1. store = [s \in Secrets |-> store[s]]
      BY DEF InitSecrets
    <3> QED
      BY <1>1, <3>1, StartAssumption
  <2> QED
    BY <2>1 DEF InitSecrets, SecretType, File, NoFile
<1>4. StoredInv
  <2> SUFFICES ASSUME NEW s \in Secrets
               PROVE  (secretsFile[s] = "imported" => store[s] > 0) /\ spc \notin Seeding
    BY DEF StoredInv
  <2> QED
    BY <1>1, <1>2 DEF Seeding
<1>5. TornInv /\ SeedInv
  BY DEF InitSecrets, TornInv, SeedInv, Seeding
<1>6. ScrubInv
  <2> SUFFICES ASSUME NEW s \in Secrets
               PROVE  store[s] <= 1 /\ spc \notin Seeding \union {"done"}
    BY DEF ScrubInv
  <2> QED
    BY <1>1, <1>2 DEF Seeding
<1>7. SeededBeforeUse
  BY <1>2 DEF SeededBeforeUse
<1> QED
  BY <1>3, <1>4, <1>5, <1>6, <1>7 DEF SecretInv

\* The steps before there is a client touch neither the files nor the store.
LEMMA LoopKeepsInv ==
  ASSUME SecretInv,
         NewSecretProvider \/ HasNotElapsed \/ GetSecretConfig \/ RegenToken \/ TimerElapses
  PROVE  SecretInv'
<1> USE DEF SecretInv, SecretType, File, StoredInv, TornInv, SeedInv, ScrubInv, SeededBeforeUse,
            Seeding, Goto, disk, settings, seeding, Torn
<1>1. CASE NewSecretProvider
  BY <1>1 DEF NewSecretProvider
<1>2. CASE HasNotElapsed
  BY <1>2 DEF HasNotElapsed
<1>3. CASE GetSecretConfig
  BY <1>3 DEF GetSecretConfig
<1>4. CASE RegenToken
  BY <1>4 DEF RegenToken
<1>5. CASE TimerElapses
  BY <1>5 DEF TimerElapses
<1> QED
  BY <1>1, <1>2, <1>3, <1>4, <1>5

\* A client is there: the start ends if there is nothing to seed, or goes on.
LEMMA ClientKeepsInv ==
  ASSUME SecretInv, NewSecretsClient PROVE SecretInv'
<1> USE DEF SecretInv, SecretType, File, StoredInv, TornInv, SeedInv, ScrubInv, SeededBeforeUse,
            Seeding, Goto, disk, settings, seeding, Torn
<1>1. CASE spc' = "done"
  <2>1. \A s \in Secrets : secretsFile[s] = "imported"
    BY <1>1 DEF NewSecretsClient, NoFile
  <2> QED
    BY <1>1, <2>1 DEF NewSecretsClient
<1>2. CASE spc' # "done"
  BY <1>2 DEF NewSecretsClient
<1> QED
  BY <1>1, <1>2

\* Reading and seeding.
LEMMA SeedKeepsInv ==
  ASSUME SecretInv, ReadFails \/ ReadSecretsFile \/ EndSeed \/ (\E s \in Secrets : SeedSecret(s))
  PROVE  SecretInv'
<1> USE StartAssumption
    DEF SecretInv, SecretType, File, StoredInv, TornInv, SeedInv, ScrubInv, SeededBeforeUse,
        Seeding, Goto, disk, settings, seeding, Torn
<1>1. CASE ReadFails
  BY <1>1 DEF ReadFails
<1>2. CASE ReadSecretsFile
  BY <1>2 DEF ReadSecretsFile
<1>3. CASE EndSeed
  BY <1>3 DEF EndSeed
<1>4. ASSUME NEW s \in Secrets, SeedSecret(s) PROVE SecretInv'
  BY <1>4 DEF SeedSecret
<1> QED
  BY <1>1, <1>2, <1>3, <1>4

\* The file is overwritten, with what was read if it was valid.
LEMMA OverwriteKeepsInv ==
  ASSUME SecretInv, Truncate \/ WriteSecretsFile \/ WriteFails PROVE SecretInv'
<1> USE StartAssumption
    DEF SecretInv, SecretType, File, StoredInv, TornInv, SeedInv, ScrubInv, SeededBeforeUse,
        Seeding, Goto, disk, settings, seeding, Torn
<1>1. CASE Truncate
  BY <1>1 DEF Truncate
<1>2. CASE WriteSecretsFile
  BY <1>2 DEF WriteSecretsFile, Valid
<1>3. CASE WriteFails
  BY <1>3 DEF WriteFails
<1> QED
  BY <1>1, <1>2, <1>3

\* The token file is not among the variables of the invariant.
LEMMA SecretsUnchanged ==
  ASSUME SecretInv,
         UNCHANGED <<spc, provider, secretsFile, contents, store, unseen, seedErr, spoiled, scrub,
                     elapsed, lastErr>>
  PROVE  SecretInv'
<1>1. (SecretType /\ StoredInv /\ TornInv)'
  BY DEF SecretInv, SecretType, File, StoredInv, TornInv, Seeding
<1>2. (SeedInv /\ ScrubInv /\ SeededBeforeUse)'
  BY DEF SecretInv, SeedInv, ScrubInv, SeededBeforeUse, Seeding
<1> QED
  BY <1>1, <1>2 DEF SecretInv

\* The service stores a new version, the process dies, the token expires.
LEMMA OutsideKeepsInv ==
  ASSUME SecretInv, (\E s \in Secrets : UpdateSecret(s)) \/ ForgetSecrets \/ ExpireToken
  PROVE  SecretInv'
<1>1. CASE ExpireToken
  BY <1>1, SecretsUnchanged DEF ExpireToken, settings, seeding
<1> USE StartAssumption
    DEF SecretInv, SecretType, File, StoredInv, TornInv, SeedInv, ScrubInv, SeededBeforeUse,
        Seeding, Goto, disk, settings, seeding, Torn
<1>2. ASSUME NEW s \in Secrets, UpdateSecret(s) PROVE SecretInv'
  BY <1>2 DEF UpdateSecret
<1>3. CASE ForgetSecrets
  BY <1>3 DEF ForgetSecrets, NoFile
<1> QED
  BY <1>1, <1>2, <1>3

-----------------------------------------------------------------------------
(* The steps of Run and of the goroutines *)

\* The end of a process, and the start of the next.
LEMMA EndsKeepsInv ==
  ASSUME IInv, NEW how, Ends(how) PROVE IInv'
<1>1. SecretInv'
  BY OutsideKeepsInv DEF IInv, Ends
<1>2. RunInv'
  <2> USE ServiceAssumption DEF IInv, RunInv, Ends
  <2>1. ThreadType' /\ GroupInv' /\ EndInv'
    BY DEF ThreadType, GroupInv, EndInv, Counted, Live
  <2>2. next' \in Seq({"http", "worker", "message"}) /\ Len(next') = 0
    BY EmptySeq
  <2> QED
    BY <2>1, <2>2 DEF HandlerInv
<1> QED
  BY <1>1, <1>2 DEF IInv, IdleInv, Ends, ForgetSecrets

LEMMA StartKeepsInv ==
  ASSUME IInv, Start PROVE IInv'
<1> USE DEF IInv, IdleInv, Start, MainGoto
<1>1. SecretInv'
  BY DEF SecretInv, SecretType, File, StoredInv, TornInv, SeedInv, ScrubInv, SeededBeforeUse,
         Seeding, disk, settings, seeding
<1>2. RunInv'
  BY ServiceAssumption
     DEF RunInv, ThreadType, GroupInv, HandlerInv, EndInv, Counted, Live
<1> QED
  BY <1>1, <1>2

\* The steps of the secret provider leave the rest alone.
LEMMA SecretStepKeepsInv ==
  ASSUME SecretInv, SecretStep \/ TimerElapses PROVE SecretInv'
BY LoopKeepsInv, ClientKeepsInv, SeedKeepsInv, OverwriteKeepsInv DEF SecretStep

LEMMA RunVarsUnchanged ==
  ASSUME RunInv, UNCHANGED runVars PROVE RunInv'
BY DEF RunInv, runVars, threads, ThreadType, GroupInv, HandlerInv, EndInv, Counted, Live

LEMMA SecretVarsUnchanged ==
  ASSUME SecretInv, UNCHANGED secretVars PROVE SecretInv'
BY SecretsUnchanged DEF secretVars, disk, settings, seeding

\* What is left of the handlers is called once each as well.
LEMMA TailKeepsInv ==
  ASSUME HandlerInv, next # <<>>
  PROVE  /\ Head(next) = next[1] /\ Tail(next) \in Seq({"http", "worker", "message"})
         /\ Len(Tail(next)) \in Nat /\ Len(next) \in Nat \ {0} /\ Len(Tail(next)) = Len(next) - 1
         /\ \A i \in 1 .. Len(Tail(next)) : Tail(next)[i] = next[i + 1] /\ i + 1 \in 1 .. Len(next)
BY EmptySeq, HeadTailProperties, LenProperties DEF HandlerInv

LEMMA HandlersKeepInv ==
  ASSUME RunInv, WorkerHandler \/ HttpHandler \/ MessageHandler PROVE RunInv'
<1> USE DEF RunInv
<1>1. next # <<>> /\ main = "handlers" /\ main' = main /\ next' = Tail(next)
  BY DEF WorkerHandler, HttpHandler, MessageHandler
<1>2. HandlerInv'
  <2>1. \A i, j \in 1 .. Len(next') : i # j /\ next'[i] = next'[j] => next'[i] = "message"
    BY <1>1, TailKeepsInv DEF HandlerInv
  <2>2. ASSUME NEW i \in 1 .. Len(next')
        PROVE  /\ next'[i] = "worker" => worker' = "off"
               /\ next'[i] = "http"   => serve' = "off" /\ shutdown' = "off"
    <3>1. next'[i] = next[i + 1] /\ i + 1 \in 1 .. Len(next) /\ i + 1 # 1 /\ 1 \in 1 .. Len(next)
      BY <1>1, TailKeepsInv
    <3>2. next[i + 1] = next[1] => next[1] = "message"
      BY <3>1 DEF HandlerInv
    <3>3. Head(next) = next[1]
      BY <1>1, TailKeepsInv
    <3>4. /\ next[i + 1] = "worker" => worker = "off"
          /\ next[i + 1] = "http"   => serve = "off" /\ shutdown = "off"
      BY <3>1 DEF HandlerInv
    <3>5. CASE WorkerHandler
      BY <3>1, <3>2, <3>3, <3>4, <3>5 DEF WorkerHandler
    <3>6. CASE HttpHandler
      BY <3>1, <3>2, <3>3, <3>4, <3>6 DEF HttpHandler
    <3>7. CASE MessageHandler
      BY <3>1, <3>4, <3>7 DEF MessageHandler, threads
    <3> QED
      BY <3>5, <3>6, <3>7
  <2> QED
    BY <1>1, <2>1, <2>2, TailKeepsInv DEF HandlerInv
<1>3. ThreadType' /\ GroupInv' /\ EndInv'
  <2>1. 1 \in 1 .. Len(next) /\ Head(next) = next[1]
    BY <1>1, TailKeepsInv
  <2>2. Head(next) = "worker" => worker = "off"
    BY <2>1 DEF HandlerInv
  <2>3. Head(next) = "http" => serve = "off" /\ shutdown = "off"
    BY <2>1 DEF HandlerInv
  <2>4. CASE WorkerHandler
    BY <2>2, <2>4 DEF WorkerHandler, ThreadType, GroupInv, EndInv, Counted, Live
  <2>5. CASE HttpHandler
    BY <2>3, <2>5 DEF HttpHandler, ThreadType, GroupInv, EndInv, Counted, Live
  <2>6. CASE MessageHandler
    BY <2>6 DEF MessageHandler, ThreadType, GroupInv, EndInv, Counted, Live, threads
  <2> QED
    BY <2>4, <2>5, <2>6
<1> QED
  BY <1>2, <1>3

\* The rest of Run: it goes on to the configuration, chooses the handlers' list, and waits.
LEMMA MainKeepsInv ==
  ASSUME RunInv, ProcessConfiguration \/ AllHandled PROVE RunInv'
<1> USE DEF RunInv, MainGoto
<1>1. HandlerInv'
  <2>1. CASE AllHandled
    BY <2>1 DEF AllHandled, HandlerInv, threads
  <2>2. CASE ProcessConfiguration /\ next' = next
    BY <2>2 DEF ProcessConfiguration, HandlerInv, threads
  <2>3. CASE ProcessConfiguration /\ next' \in HandlerLists
    BY <2>3, ServiceAssumption DEF ProcessConfiguration, HandlerInv, threads
  <2> QED
    BY <2>1, <2>2, <2>3 DEF ProcessConfiguration
<1>2. ThreadType' /\ GroupInv' /\ EndInv'
  BY DEF ProcessConfiguration, AllHandled, ThreadType, GroupInv, EndInv, Counted, Live, threads
<1> QED
  BY <1>1, <1>2

LEMMA ThreadsKeepInv ==
  ASSUME RunInv,
         \/ Notify \/ InterruptEnds \/ WorkerEnds \/ ServeBegins \/ WaiterEnds
         \/ BeginShutdown \/ EndShutdown \/ ServerClosed \/ ServerFails
  PROVE  RunInv'
<1> USE ServiceAssumption DEF RunInv, ThreadType, GroupInv, HandlerInv, EndInv, Counted, Live
<1>1. CASE Notify
  BY <1>1 DEF Notify
<1>2. CASE InterruptEnds
  BY <1>2 DEF InterruptEnds
<1>3. CASE WorkerEnds
  BY <1>3 DEF WorkerEnds
<1>4. CASE ServeBegins
  BY <1>4 DEF ServeBegins
<1>5. CASE WaiterEnds
  BY <1>5 DEF WaiterEnds
<1>6. CASE BeginShutdown
  BY <1>6 DEF BeginShutdown
<1>7. CASE EndShutdown
  BY <1>7 DEF EndShutdown
<1>8. CASE ServerClosed
  BY <1>8 DEF ServerClosed
<1>9. CASE ServerFails
  BY <1>9 DEF ServerFails
<1> QED
  BY <1>1, <1>2, <1>3, <1>4, <1>5, <1>6, <1>7, <1>8, <1>9

LEMMA RequestsKeepInv ==
  ASSUME RunInv, RequestArrives \/ RequestEnds \/ (Signal /\ interrupt = "waiting") PROVE RunInv'
<1> USE ServiceAssumption DEF RunInv, ThreadType, GroupInv, HandlerInv, EndInv, Counted, Live, threads
<1>1. CASE RequestArrives
  BY <1>1 DEF RequestArrives
<1>2. CASE RequestEnds
  BY <1>2 DEF RequestEnds
<1>3. CASE Signal /\ interrupt = "waiting"
  BY <1>3 DEF Signal
<1> QED
  BY <1>1, <1>2, <1>3

-----------------------------------------------------------------------------

LEMMA InitIInv == Init => IInv
<1> SUFFICES ASSUME Init PROVE IInv
  OBVIOUS
<1>1. SecretInv
  BY InitSecretInv DEF Init
<1>2. ThreadType /\ GroupInv /\ EndInv
  BY ServiceAssumption DEF Init, ThreadType, GroupInv, EndInv, Counted, Live
<1>3. HandlerInv /\ IdleInv
  <2>1. next \in Seq({"http", "worker", "message"}) /\ Len(next) = 0
    BY EmptySeq DEF Init
  <2>2. serve = "off" /\ shutdown = "off" /\ worker = "off" /\ spc = "idle"
    BY DEF Init, InitSecrets
  <2> QED
    BY <2>1, <2>2 DEF HandlerInv, IdleInv
<1> QED
  BY <1>1, <1>2, <1>3 DEF IInv, RunInv

\* What leaves the variables of one part alone keeps what is said of it; the
\* start of the provider takes place in a process.
LEMMA StepIInv == IInv /\ [Next]_vars => IInv'
<1> SUFFICES ASSUME IInv, [Next]_vars PROVE IInv'
  OBVIOUS
<1>1. ASSUME NEW how, Ends(how) PROVE IInv'
  BY <1>1, EndsKeepsInv
<1>2. ASSUME UNCHANGED secretVars, RunInv', main' # "down" \/ main = "down" PROVE IInv'
  BY <1>2, SecretVarsUnchanged DEF IInv, IdleInv, secretVars
<1>3. ASSUME UNCHANGED runVars, SecretInv', main # "down" \/ spc' = spc PROVE IInv'
  BY <1>3, RunVarsUnchanged DEF IInv, IdleInv, runVars
<1>4. CASE Start
  BY <1>4, StartKeepsInv
<1>5. CASE ElapseTimer
  BY <1>3, <1>5, SecretStepKeepsInv DEF IInv, ElapseTimer, TimerElapses
<1>6. CASE Main
  <2>1. CASE CreateSecretProvider
    BY <1>3, <2>1, SecretStepKeepsInv DEF IInv, CreateSecretProvider
  <2>2. CASE WorkerHandler \/ HttpHandler \/ MessageHandler
    BY <1>2, <2>2, HandlersKeepInv DEF IInv, WorkerHandler, HttpHandler, MessageHandler
  <2>3. CASE ProcessConfiguration \/ AllHandled
    BY <1>2, <2>3, MainKeepsInv DEF IInv, ProcessConfiguration, AllHandled, MainGoto
  <2> QED
    BY <1>1, <1>6, <2>1, <2>2, <2>3 DEF Main, FatalError, HandlerFails, RunReturns
<1>7. CASE ExitAfterFailure \/ Crash \/ (Signal /\ interrupt # "waiting")
  BY <1>1, <1>7 DEF ExitAfterFailure, Crash, Signal
<1>8. CASE \/ Notify \/ InterruptEnds \/ WorkerEnds \/ ServeBegins \/ WaiterEnds
           \/ BeginShutdown \/ EndShutdown \/ ServerClosed \/ ServerFails
  BY <1>2, <1>8, ThreadsKeepInv
     DEF IInv, Notify, InterruptEnds, WorkerEnds, ServeBegins, WaiterEnds, BeginShutdown,
         EndShutdown, ServerClosed, ServerFails
<1>9. CASE RequestArrives \/ RequestEnds \/ (Signal /\ interrupt = "waiting")
  BY <1>2, <1>9, RequestsKeepInv DEF IInv, RequestArrives, RequestEnds, Signal
<1>10. CASE Update
  BY <1>3, <1>10, OutsideKeepsInv DEF IInv, Update, UpdateSecret
<1>11. CASE Expire
  BY <1>3, <1>11, OutsideKeepsInv DEF IInv, Expire, ExpireToken
<1>12. CASE UNCHANGED vars
  <2>1. UNCHANGED secretVars /\ UNCHANGED runVars
    BY <1>12 DEF vars
  <2> QED
    BY <1>2, <2>1, RunVarsUnchanged DEF IInv, runVars
<1> QED
  BY <1>4, <1>5, <1>6, <1>7, <1>8, <1>9, <1>10, <1>11, <1>12 DEF Next, Goroutines, Stays

LEMMA InvariantHolds == Spec => []IInv
BY InitIInv, StepIInv, PTL DEF Spec

\* A secret of the file is in the file or in the store, through every failure,
\* crash and restart of the start, unless the file was spoiled.
THEOREM SecretKeptHolds == Spec => []SecretKept
<1>1. IInv => SecretKept
  <2> SUFFICES ASSUME SecretInv, ~spoiled, NEW s \in Secrets
               PROVE  \/ store[s] > 0
                      \/ secretsFile[s] \notin {"imported", "torn"}
                      \/ spc = "writing" /\ contents[s] # "imported"
    BY DEF IInv, SecretKept
  <2> QED
    BY DEF SecretInv, StoredInv, TornInv, Seeding
<1> QED
  BY <1>1, InvariantHolds, PTL

\* The service goes on only without security, or with a provider and every
\* secret of the file stored, or without a provider since its time was up.
THEOREM SeededBeforeUseHolds == Spec => []SeededBeforeUse
<1>1. IInv => SeededBeforeUse
  BY DEF IInv, SecretInv
<1> QED
  BY <1>1, InvariantHolds, PTL

\* What a life of the service has stored is never replaced by something older:
\* only the seeding writes without looking, and what it may still write has not
\* been updated.
THEOREM UpdatesSurviveHolds == Spec => UpdatesSurvive
<1>1. ASSUME IInv, [Next]_vars, scrub, NEW s \in Secrets PROVE store'[s] >= store[s]
  <2> USE StartAssumption
  <2>1. store[s] \in Nat
    BY <1>1 DEF IInv, SecretInv, SecretType
  <2>2. CASE UNCHANGED store
    BY <2>1, <2>2
  <2>3. ASSUME NEW q \in Secrets, SeedSecret(q), ~UNCHANGED store PROVE store'[s] >= store[s]
    <3>1. spc = "seed" /\ contents[q] = "given" /\ store' = [store EXCEPT ![q] = 1]
      BY <2>3 DEF SeedSecret
    <3>2. store[q] <= 1 /\ store \in [Secrets -> 0 .. MaxUpdates + 1]
      BY <1>1, <3>1 DEF IInv, SecretInv, SecretType, ScrubInv, Seeding
    <3> QED
      BY <2>1, <3>1, <3>2
  <2>4. ASSUME NEW q \in Secrets, UpdateSecret(q) PROVE store'[s] >= store[s]
    BY <1>1, <2>1, <2>4 DEF UpdateSecret, IInv, SecretInv, SecretType
  <2>5. CASE SecretStep
    BY <2>2, <2>3, <2>5
       DEF SecretStep, NewSecretProvider, HasNotElapsed, GetSecretConfig, NewSecretsClient,
           RegenToken, ReadFails, ReadSecretsFile, EndSeed, Truncate, WriteSecretsFile, WriteFails,
           disk
  <2>6. CASE TimerElapses \/ ForgetSecrets \/ ExpireToken \/ Start \/ UNCHANGED secretVars
    BY <2>2, <2>6 DEF TimerElapses, ForgetSecrets, ExpireToken, Start, secretVars, disk
  <2> QED
    BY <1>1, <2>4, <2>5, <2>6
       DEF Next, vars, ElapseTimer, Update, Expire, Crash, Stays, Signal, ServerFails,
           RequestArrives, RequestEnds, Ends, Main, CreateSecretProvider, FatalError,
           ProcessConfiguration, WorkerHandler, HttpHandler, MessageHandler, HandlerFails,
           AllHandled, RunReturns, Goroutines, Notify, InterruptEnds, WorkerEnds, ServeBegins,
           WaiterEnds, BeginShutdown, EndShutdown, ServerClosed, ExitAfterFailure
<1>2. IInv /\ [Next]_vars => [scrub => \A s \in Secrets : store'[s] >= store[s]]_secretVars
  BY <1>1
<1> QED
  BY <1>2, InvariantHolds, PTL DEF Spec, UpdatesSurvive

\* Run returns only after the other goroutines have cleaned up, and every
\* request was answered.
THEOREM ReturnsCleanHolds == Spec => ReturnsClean
<1>1. ASSUME IInv, [Next]_vars, exit' = "returned", exit # "returned"
      PROVE  /\ requests = 0 /\ cancelled
             /\ \A t \in {interrupt, shutdown, worker} : ~Live(t)
             /\ serve \in {"off", "stopped", "failed"}
  <2>1. RunReturns
    BY <1>1
       DEF Next, vars, ElapseTimer, Update, Expire, Crash, Stays, Signal, ServerFails, runVars,
           RequestArrives, RequestEnds, Ends, Main, CreateSecretProvider, FatalError, Start,
           ProcessConfiguration, WorkerHandler, HttpHandler, MessageHandler, HandlerFails,
           AllHandled, Goroutines, Notify, InterruptEnds, WorkerEnds, ServeBegins,
           WaiterEnds, BeginShutdown, EndShutdown, ServerClosed, ExitAfterFailure
  <2>2. /\ Counted(interrupt) = 0 /\ Counted(shutdown) = 0
        /\ Counted(serve) = 0 /\ Counted(worker) = 0
    BY <1>1, <2>1 DEF RunReturns, IInv, RunInv, GroupInv, Counted
  <2>3. ThreadType /\ EndInv /\ main # "down"
    BY <1>1, <2>1 DEF RunReturns, IInv, RunInv
  <2> QED
    BY <2>2, <2>3 DEF ThreadType, EndInv, Counted, Live
<1>2. IInv /\ [Next]_vars =>
        [exit' = "returned" /\ exit # "returned" =>
           /\ requests = 0 /\ cancelled
           /\ \A t \in {interrupt, shutdown, worker} : ~Live(t)
           /\ serve \in {"off", "stopped", "failed"}]_vars
  BY <1>1
<1> QED
  BY <1>2, InvariantHolds, PTL DEF Spec, ReturnsClean

-----------------------------------------------------------------------------
(* The counter of the wait group is the number of live goroutines *)

\* One more goroutine, if it is counted.
LEMMA OneMore ==
  ASSUME NEW S, IsFiniteSet(S), NEW p, p \notin S, NEW t, NEW T,
         T = IF Counted(t) = 1 THEN S \union {p} ELSE S
  PROVE  IsFiniteSet(T) /\ Cardinality(T) = Cardinality(S) + Counted(t)
<1>1. CASE Counted(t) = 1
  BY <1>1, FS_AddElement, FS_CardinalityType
<1>2. CASE Counted(t) # 1
  BY <1>2, FS_CardinalityType DEF Counted
<1> QED
  BY <1>1, <1>2

\* The goroutines that will still call Done.
LEMMA GroupSize ==
  Cardinality({p \in {<<1, interrupt>>, <<2, shutdown>>, <<3, serve>>, <<4, worker>>} :
                 Live(p[2]) /\ p[2] # "failed"})
    = Counted(interrupt) + Counted(shutdown) + Counted(serve) + Counted(worker)
<1> DEFINE S1 == IF Counted(interrupt) = 1 THEN {} \union {<<1, interrupt>>} ELSE {}
           S2 == IF Counted(shutdown) = 1 THEN S1 \union {<<2, shutdown>>} ELSE S1
           S3 == IF Counted(serve) = 1 THEN S2 \union {<<3, serve>>} ELSE S2
           S4 == IF Counted(worker) = 1 THEN S3 \union {<<4, worker>>} ELSE S3
<1>1. IsFiniteSet({}) /\ Cardinality({}) = 0
  BY FS_EmptySet
<1>2. IsFiniteSet(S1) /\ Cardinality(S1) = 0 + Counted(interrupt)
  <2>1. <<1, interrupt>> \notin {}
    OBVIOUS
  <2>2. S1 = IF Counted(interrupt) = 1 THEN {} \union {<<1, interrupt>>} ELSE {}
    OBVIOUS
  <2> HIDE DEF S1
  <2> QED
    BY <1>1, <2>1, <2>2, OneMore
<1>3. IsFiniteSet(S2) /\ Cardinality(S2) = Cardinality(S1) + Counted(shutdown)
  BY <1>2, OneMore, <<2, shutdown>> \notin S1
<1>4. IsFiniteSet(S3) /\ Cardinality(S3) = Cardinality(S2) + Counted(serve)
  BY <1>3, OneMore, <<3, serve>> \notin S2
<1>5. IsFiniteSet(S4) /\ Cardinality(S4) = Cardinality(S3) + Counted(worker)
  BY <1>4, OneMore, <<4, worker>> \notin S3
<1>6. {p \in {<<1, interrupt>>, <<2, shutdown>>, <<3, serve>>, <<4, worker>>} :
         Live(p[2]) /\ p[2] # "failed"} = S4
  BY DEF Counted
<1> QED
  BY <1>2, <1>3, <1>4, <1>5, <1>6 DEF Counted

\* The variables have their types, and the wait group's counter is the number of
\* goroutines that have still to call Done.
THEOREM TypeCorrect == Spec => []TypeOK
<1>1. IInv => TypeOK
  BY GroupSize DEF IInv, SecretInv, SecretType, File, RunInv, ThreadType, GroupInv, TypeOK, Threads
<1> QED
  BY <1>1, InvariantHolds, PTL

=============================================================================
