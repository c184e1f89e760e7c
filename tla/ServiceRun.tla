----------------------------- MODULE ServiceRun ----------------------------
(***************************************************************************)
(* The life of a service: Run of pkg/bootstrap/bootstrap.go with the start *)
(* of the secret provider (SecretStart), the bootstrap handlers, of which  *)
(* HttpServer is one and a handler with a long-running goroutine another,  *)
(* the wait group all goroutines are in, signals, requests, the shutdown,  *)
(* and, from outside, the process that dies and is started again.          *)
(***************************************************************************)
EXTENDS SecretStart, FiniteSets, Sequences

CONSTANTS
  HandlerLists, \* orders of the handlers: sequences of "http", "worker", "message"
  MaxStarts,    \* bound: how often the process is started
  MaxRequests,  \* bound: requests that are served at a time
  MaxSignals    \* bound: SIGTERM or SIGINT in one life

\* A handler that starts goroutines is in the list once.
ASSUME ServiceAssumption ==
  /\ \A list \in HandlerLists :
       /\ list \in Seq({"http", "worker", "message"})
       /\ \A i, j \in 1 .. Len(list) : i # j /\ list[i] = list[j] => list[i] = "message"
  /\ MaxStarts \in Nat /\ MaxRequests \in Nat /\ MaxSignals \in Nat

VARIABLES
  main,        \* where Run is; "down": there is no process
  next,        \* the handlers that have not been called yet
  doListen,    \* doListenAndServe
  cancelled,   \* the context is cancelled
  wg,          \* the counter of the wait group
  interrupt,   \* translateInterruptToCancel's goroutine
  shutdown,    \* the goroutine that shuts the server down
  serve,       \* the goroutine in ListenAndServe, or, without it, the one that waits
  worker,      \* the goroutine of the other handler
  isRunning,   \* HttpServer.isRunning
  requests,    \* outstanding requests
  signals,     \* signals this life has received
  starts,      \* starts so far
  exit         \* how the last life ended: "none", "returned", "fatal", "killed"

threads == <<interrupt, shutdown, serve, worker>>
runVars == <<main, next, doListen, cancelled, wg, threads, isRunning, requests, signals, starts, exit>>
vars == <<secretVars, runVars>>

Threads == {"off", "waiting", "starting", "listening", "draining", "failed", "waitGroup", "stopped"}

Live(t) == t \notin {"off", "stopped"}

Init ==
  /\ InitSecrets
  /\ main = "down" /\ next = <<>> /\ doListen \in BOOLEAN /\ cancelled = FALSE /\ wg = 0
  /\ interrupt = "off" /\ shutdown = "off" /\ serve = "off" /\ worker = "off"
  /\ isRunning = FALSE /\ requests = 0 /\ signals = 0 /\ starts = 0 /\ exit = "none"

MainGoto(from, to) == main = from /\ main' = to

\* The process ends, and everything in its memory with it.
Ends(how) ==
  /\ main' = "down" /\ exit' = how
  /\ next' = <<>> /\ cancelled' = FALSE /\ wg' = 0
  /\ interrupt' = "off" /\ shutdown' = "off" /\ serve' = "off" /\ worker' = "off"
  /\ isRunning' = FALSE /\ requests' = 0 /\ signals' = 0
  /\ ForgetSecrets
  /\ UNCHANGED <<doListen, starts>>

-----------------------------------------------------------------------------
(* RunAndReturnWaitGroup and Run *)

Start ==
  /\ starts < MaxStarts
  /\ MainGoto("down", "secrets")
  /\ starts' = starts + 1 /\ exit' = "none"
  /\ wg' = 1 /\ interrupt' = "starting"
  /\ spc' = "starting"
  /\ UNCHANGED <<disk, settings, elapsed, lastErr, seeding, provider,
                 next, doListen, cancelled, shutdown, serve, worker, isRunning, requests, signals>>

CreateSecretProvider ==
  /\ main = "secrets"
  /\ SecretStep
  /\ UNCHANGED runVars

ElapseTimer == TimerElapses /\ UNCHANGED runVars

\* fatalError, when the provider cannot be created or Process fails.
FatalError ==
  /\ \/ main = "secrets" /\ spc = "failed"
     \/ main = "config"
  /\ Ends("fatal")

ProcessConfiguration ==
  /\ \/ MainGoto("secrets", "config") /\ spc = "done" /\ UNCHANGED next
     \/ MainGoto("config", "handlers") /\ next' \in HandlerLists
  /\ UNCHANGED <<secretVars, doListen, cancelled, wg, threads, isRunning, requests, signals, starts, exit>>

\* The handler of another component adds its goroutine, or finds it cannot start.
WorkerHandler ==
  /\ main = "handlers" /\ next # <<>> /\ Head(next) = "worker"
  /\ worker' = "waiting" /\ wg' = wg + 1
  /\ next' = Tail(next)
  /\ UNCHANGED <<secretVars, main, doListen, cancelled, interrupt, shutdown, serve,
                 isRunning, requests, signals, starts, exit>>

\* HttpServer.BootstrapHandler, when the configuration is as it should be.
HttpHandler ==
  /\ main = "handlers" /\ next # <<>> /\ Head(next) = "http"
  /\ serve' = "starting"
  /\ shutdown' = IF doListen THEN "waiting" ELSE "off"
  /\ wg' = wg + (IF doListen THEN 2 ELSE 1)
  /\ next' = Tail(next)
  /\ UNCHANGED <<secretVars, main, doListen, cancelled, interrupt, worker,
                 isRunning, requests, signals, starts, exit>>

\* StartMessage.BootstrapHandler.
MessageHandler ==
  /\ main = "handlers" /\ next # <<>> /\ Head(next) = "message"
  /\ next' = Tail(next)
  /\ UNCHANGED <<secretVars, main, doListen, cancelled, wg, threads, isRunning, requests, signals, starts, exit>>

\* A handler returns FALSE, as HttpServer's does without a port or a usable
\* timeout: Run cancels the context and exits without waiting.
HandlerFails ==
  /\ main = "handlers" /\ next # <<>> /\ Head(next) # "message"
  /\ Ends("fatal")

AllHandled ==
  /\ next = <<>>
  /\ MainGoto("handlers", "waiting")
  /\ UNCHANGED <<secretVars, next, doListen, cancelled, wg, threads, isRunning, requests, signals, starts, exit>>

\* Faulty variant: Run waits for the context only.
RunReturnsOnCancel ==
  /\ main = "waiting" /\ cancelled
  /\ Ends("returned")

\* wg.Wait returns, Run returns, and with it main.
RunReturns ==
  /\ main = "waiting" /\ wg = 0
  /\ Ends("returned")

-----------------------------------------------------------------------------
(* The goroutines *)

\* Until signal.Notify, and again after signal.Stop, a signal kills the process.
Notify ==
  /\ interrupt = "starting"
  /\ interrupt' = "waiting"
  /\ UNCHANGED <<secretVars, main, next, doListen, cancelled, wg, shutdown, serve, worker,
                 isRunning, requests, signals, starts, exit>>

Signal ==
  /\ main # "down" /\ signals < MaxSignals
  /\ IF interrupt = "waiting"
     THEN /\ signals' = signals + 1
          /\ cancelled' = TRUE /\ interrupt' = "stopped" /\ wg' = wg - 1
          /\ UNCHANGED <<secretVars, main, next, doListen, shutdown, serve, worker,
                         isRunning, requests, starts, exit>>
     ELSE Ends("killed")

InterruptEnds ==
  /\ interrupt = "waiting" /\ cancelled
  /\ interrupt' = "stopped" /\ wg' = wg - 1
  /\ UNCHANGED <<secretVars, main, next, doListen, cancelled, shutdown, serve, worker,
                 isRunning, requests, signals, starts, exit>>

\* The goroutine of the other handler cleans up once the context is cancelled.
WorkerEnds ==
  /\ worker = "waiting" /\ cancelled
  /\ worker' = "stopped" /\ wg' = wg - 1
  /\ UNCHANGED <<secretVars, main, next, doListen, cancelled, interrupt, shutdown, serve,
                 isRunning, requests, signals, starts, exit>>

ServeBegins ==
  /\ serve = "starting"
  /\ serve' = IF doListen THEN "listening" ELSE "waiting"
  /\ isRunning' = TRUE
  /\ UNCHANGED <<secretVars, main, next, doListen, cancelled, wg, interrupt, shutdown, worker,
                 requests, signals, starts, exit>>

\* Without ListenAndServe the goroutine waits for the context.
WaiterEnds ==
  /\ serve = "waiting" /\ cancelled
  /\ serve' = "stopped" /\ isRunning' = FALSE /\ wg' = wg - 1
  /\ UNCHANGED <<secretVars, main, next, doListen, cancelled, interrupt, shutdown, worker,
                 requests, signals, starts, exit>>

\* server.Shutdown closes the listeners first, and then waits for the requests;
\* it works before ListenAndServe as well, which then does not listen at all.
BeginShutdown ==
  /\ shutdown = "waiting" /\ cancelled
  /\ shutdown' = "draining"
  /\ UNCHANGED <<secretVars, main, next, doListen, cancelled, wg, interrupt, serve, worker,
                 isRunning, requests, signals, starts, exit>>

EndShutdown ==
  /\ shutdown = "draining" /\ requests = 0
  /\ shutdown' = "stopped" /\ wg' = wg - 1
  /\ UNCHANGED <<secretVars, main, next, doListen, cancelled, interrupt, serve, worker,
                 isRunning, requests, signals, starts, exit>>

\* ListenAndServe returns ErrServerClosed when the shutdown begins.
ServerClosed ==
  /\ serve = "listening" /\ shutdown \in {"draining", "stopped"}
  /\ serve' = "stopped" /\ isRunning' = FALSE /\ wg' = wg - 1
  /\ UNCHANGED <<secretVars, main, next, doListen, cancelled, interrupt, shutdown, worker,
                 requests, signals, starts, exit>>

\* Faulty variant: it stays in the group it waits for.
ServerFailsInGroup ==
  /\ serve = "listening" /\ shutdown = "waiting"
  /\ serve' = "failed" /\ cancelled' = TRUE
  /\ UNCHANGED <<secretVars, main, next, doListen, wg, interrupt, shutdown, worker,
                 isRunning, requests, signals, starts, exit>>

\* It returns another error: the port cannot be bound, or Accept fails.
ServerFails ==
  /\ serve = "listening" /\ shutdown = "waiting"
  /\ serve' = "failed" /\ cancelled' = TRUE /\ wg' = wg - 1
  /\ UNCHANGED <<secretVars, main, next, doListen, interrupt, shutdown, worker,
                 isRunning, requests, signals, starts, exit>>

\* It waits for the group as Run does, and one of the two ends the process.
ExitAfterFailure ==
  /\ serve = "failed" /\ wg = 0
  /\ Ends("fatal")

-----------------------------------------------------------------------------
(* Clients and the outside *)

RequestArrives ==
  /\ serve = "listening" /\ shutdown = "waiting" /\ requests < MaxRequests
  /\ requests' = requests + 1
  /\ UNCHANGED <<secretVars, main, next, doListen, cancelled, wg, threads, isRunning, signals, starts, exit>>

RequestEnds ==
  /\ requests > 0
  /\ requests' = requests - 1
  /\ UNCHANGED <<secretVars, main, next, doListen, cancelled, wg, threads, isRunning, signals, starts, exit>>

Update ==
  /\ main = "waiting"
  /\ \E s \in Secrets : UpdateSecret(s)
  /\ UNCHANGED runVars

Expire == main = "down" /\ ExpireToken /\ UNCHANGED runVars

Crash == main # "down" /\ Ends("killed")

Stays == main = "down" /\ UNCHANGED vars

Main ==
  \/ CreateSecretProvider \/ FatalError \/ ProcessConfiguration
  \/ WorkerHandler \/ HttpHandler \/ MessageHandler \/ HandlerFails \/ AllHandled \/ RunReturns

Goroutines ==
  \/ Notify \/ InterruptEnds \/ WorkerEnds \/ ServeBegins \/ WaiterEnds
  \/ BeginShutdown \/ EndShutdown \/ ServerClosed \/ ExitAfterFailure

Next ==
  \/ Start \/ ElapseTimer \/ Main \/ Goroutines \/ Signal \/ ServerFails
  \/ RequestArrives \/ RequestEnds \/ Update \/ Expire \/ Crash \/ Stays

\* Main and every goroutine go on, time passes, and a request that is served is answered
\* (the Timeout middleware sees to it); nobody has to send a signal.
Fairness ==
  /\ WF_vars(Main) /\ WF_vars(ElapseTimer)
  /\ WF_vars(Notify) /\ WF_vars(InterruptEnds) /\ WF_vars(WorkerEnds)
  /\ WF_vars(ServeBegins) /\ WF_vars(WaiterEnds) /\ WF_vars(ServerClosed)
  /\ WF_vars(BeginShutdown) /\ WF_vars(EndShutdown)
  /\ WF_vars(ExitAfterFailure) /\ WF_vars(RequestEnds)

Spec == Init /\ [][Next]_vars /\ Fairness

-----------------------------------------------------------------------------
(* Properties *)

\* The types of the variables; the counter of the wait group is that of the
\* goroutines that will still call Done, never negative, which would panic.
TypeOK ==
  /\ spc \in {"idle", "starting", "loop", "token", "client", "regen", "read", "seed",
              "overwrite", "writing", "done", "failed"}
  /\ secretsFile = Torn \/ secretsFile \in [Secrets -> {"given", "hollow", "imported"}]
  /\ store \in [Secrets -> 0 .. MaxUpdates + 1]
  /\ main \in {"down", "secrets", "config", "handlers", "waiting"}
  /\ \A t \in {interrupt, shutdown, serve, worker} : t \in Threads
  /\ requests \in 0 .. MaxRequests /\ signals \in 0 .. MaxSignals /\ starts \in 0 .. MaxStarts
  /\ wg = Cardinality({p \in {<<1, interrupt>>, <<2, shutdown>>, <<3, serve>>, <<4, worker>>} :
                         Live(p[2]) /\ p[2] # "failed"})

\* When Run returns, the other goroutines have cleaned up and every request that
\* came in has been answered, also if the server failed and races it to the exit.
ReturnsClean ==
  [][exit' = "returned" /\ exit # "returned" =>
       /\ requests = 0 /\ cancelled
       /\ \A t \in {interrupt, shutdown, worker} : ~Live(t)
       /\ serve \in {"off", "stopped", "failed"}]_vars

\* A service whose context is cancelled, by a signal or by a server that failed,
\* ends, and so does one whose server failed: no goroutine waits for one that
\* waits for it.
CancelEnds == (cancelled \/ serve = "failed") ~> (main = "down")

=============================================================================
