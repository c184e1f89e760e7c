----------------------------- MODULE SseManager -----------------------------
(***************************************************************************)
(* The SSE service of pkg/sse: requests to a Handler with a PollingService *)
(* and to handlers without, the manager's map of broadcasters, their       *)
(* lifecycle and the one Polling value (module PollingService).            *)
(*                                                                         *)
(* Each request runs the handler in a goroutine of its own: it looks its   *)
(* topic up, creates a broadcaster if there is none, attaches the polling  *)
(* service to a new one, subscribes, streams until the client leaves or    *)
(* the service stops, and unsubscribes.  The unsubscription that leaves a  *)
(* broadcaster empty starts a goroutine that stops the polling and removes *)
(* the topic from the manager.                                             *)
(*                                                                         *)
(* A broadcaster is named by the request that created it, and so is the    *)
(* cleanup goroutine by the request whose unsubscription started it.  What *)
(* is published is left to SseBroadcaster.                                 *)
(***************************************************************************)
CONSTANTS
  Requests,     \* requests, each in a goroutine of its own
  Topics,       \* topics the requests are for
  PolledTopics, \* those of the handler that was given a PollingService
  None

ASSUME ManagerAssumption == PolledTopics \subseteq Topics /\ None \notin Requests

VARIABLES
  broadcasters,  \* m.broadcasters: the broadcaster of each topic, or None
  subs,          \* the requests subscribed to each broadcaster
  withPolling,   \* broadcasters whose pollingService is set
  rpc,           \* where the handler of each request is
  topic,         \* its topic
  held,          \* the broadcaster it works with
  cleanup,       \* where the handleNoSubscribers goroutine it started is
  serviceDone    \* m.ctx is done

VARIABLES ctx, cancelled, phase, waitOn, call  \* of the Polling value

Polling == INSTANCE PollingService WITH Broadcasters <- Requests, Stoppers <- Requests

pollingVars == <<ctx, cancelled, phase, waitOn, call>>
handlerVars == <<broadcasters, subs, withPolling, rpc, topic, held, cleanup>>
vars == <<handlerVars, serviceDone, pollingVars>>

Goto(r, from, to) ==
  /\ rpc[r] = from
  /\ rpc' = [rpc EXCEPT ![r] = to]

\* NewManager, and a handler built with one PollingService.
Init ==
  /\ Polling!Init
  /\ broadcasters = [t \in Topics |-> None]
  /\ subs = [b \in Requests |-> {}]
  /\ withPolling = {}
  /\ rpc = [r \in Requests |-> "idle"]
  /\ topic = [r \in Requests |-> None]
  /\ held = [r \in Requests |-> None]
  /\ cleanup = [r \in Requests |-> "none"]
  /\ serviceDone = FALSE

-----------------------------------------------------------------------------
(* The handler, up to its subscription.                                    *)

\* CreateOrGetBroadcaster, first half: the lookup under the read lock.
GetBroadcaster(r, t) ==
  /\ Goto(r, "idle", IF broadcasters[t] = None THEN "creating" ELSE "subscribing")
  /\ topic' = [topic EXCEPT ![r] = t]
  /\ held' = [held EXCEPT ![r] = broadcasters[t]]
  /\ UNCHANGED <<broadcasters, subs, withPolling, cleanup, serviceDone, pollingVars>>

\* CreateOrGetBroadcaster, second half: a new broadcaster is stored under the
\* write lock, whatever the map holds by then.
CreateBroadcaster(r) ==
  /\ Goto(r, "creating", IF topic[r] \in PolledTopics THEN "attaching" ELSE "subscribing")
  /\ broadcasters' = [broadcasters EXCEPT ![topic[r]] = r]
  /\ held' = [held EXCEPT ![r] = r]
  /\ UNCHANGED <<subs, withPolling, topic, cleanup, serviceDone, pollingVars>>

\* The handler gives a new broadcaster the polling service.
SetPollingService(r) ==
  /\ Goto(r, "attaching", "starting")
  /\ withPolling' = withPolling \union {held[r]}
  /\ UNCHANGED <<broadcasters, subs, topic, held, cleanup, serviceDone, pollingVars>>

\* StartPolling: pollingService.Start(b), once for the same broadcaster.
StartPolling(r) ==
  /\ rpc[r] = "starting"
  /\ Polling!StartContext(held[r])
  /\ UNCHANGED <<handlerVars, serviceDone>>

StartPollingDone(r) ==
  /\ Goto(r, "starting", "subscribing")
  /\ Polling!StartGo(held[r])
  /\ UNCHANGED <<broadcasters, subs, withPolling, topic, held, cleanup, serviceDone>>

\* handleSSE subscribes to whichever broadcaster the request got.
Subscribe(r) ==
  /\ Goto(r, "subscribing", "streaming")
  /\ subs' = [subs EXCEPT ![held[r]] = @ \union {r}]
  /\ UNCHANGED <<broadcasters, withPolling, topic, held, cleanup, serviceDone, pollingVars>>

-----------------------------------------------------------------------------
(* The end of a request, and the cleanup it may start.                     *)

\* Faulty variants: emptiness is tested before the subscriber is deleted; the
\* loop does not watch the context of the service.
LeaveTestsBeforeDelete(r) ==
  LET b == held[r] IN
  /\ Goto(r, "streaming", "done")
  /\ subs' = [subs EXCEPT ![b] = @ \ {r}]
  /\ cleanup' = [cleanup EXCEPT ![r] = IF subs[b] = {} THEN "begun" ELSE @]
  /\ UNCHANGED <<broadcasters, withPolling, topic, held, serviceDone, pollingVars>>

LeaveOnlyWithClient(r) ==
  LET b == held[r] IN
  \/ /\ ~serviceDone
     /\ Goto(r, "streaming", "done")
     /\ subs' = [subs EXCEPT ![b] = @ \ {r}]
     /\ cleanup' = [cleanup EXCEPT ![r] = IF subs[b] = {r} THEN "begun" ELSE @]
     /\ UNCHANGED <<broadcasters, withPolling, topic, held, serviceDone, pollingVars>>
  \/ serviceDone /\ rpc[r] = "streaming" /\ UNCHANGED vars

\* handleSSE returns, because the client left, a write failed or m.ctx is
\* done, and its deferred Unsubscribe runs.
Leave(r) ==
  LET b == held[r] IN
  /\ Goto(r, "streaming", "done")
  /\ subs' = [subs EXCEPT ![b] = @ \ {r}]
  /\ cleanup' = [cleanup EXCEPT ![r] = IF subs[b] = {r} THEN "begun" ELSE @]
  /\ UNCHANGED <<broadcasters, withPolling, topic, held, serviceDone, pollingVars>>

CleanupGoto(r, from, to) ==
  /\ cleanup[r] = from
  /\ cleanup' = [cleanup EXCEPT ![r] = to]

\* handleNoSubscribers: StopPolling, if the broadcaster has a polling service.
StopPolling(r) ==
  /\ held[r] \in withPolling
  /\ CleanupGoto(r, "begun", "stopping")
  /\ Polling!StopCancel(r)
  /\ UNCHANGED <<broadcasters, subs, withPolling, rpc, topic, held, serviceDone>>

SkipStopPolling(r) ==
  /\ held[r] \notin withPolling
  /\ CleanupGoto(r, "begun", "removing")
  /\ UNCHANGED <<broadcasters, subs, withPolling, rpc, topic, held, serviceDone, pollingVars>>

\* Faulty variant: the cleanup does not wait for the polling to end.
StopPollingNoWait(r) ==
  /\ CleanupGoto(r, "stopping", "removing")
  /\ UNCHANGED <<broadcasters, subs, withPolling, rpc, topic, held, serviceDone, pollingVars>>

StopPollingDone(r) ==
  /\ CleanupGoto(r, "stopping", "removing")
  /\ Polling!StopReturn(r)
  /\ UNCHANGED <<broadcasters, subs, withPolling, rpc, topic, held, serviceDone>>

\* Faulty variant: the callback leaves the map alone.
RemoveBroadcasterForgotten(r) ==
  /\ CleanupGoto(r, "removing", "done")
  /\ UNCHANGED <<broadcasters, subs, withPolling, rpc, topic, held, serviceDone, pollingVars>>

\* onEmptyCb: RemoveBroadcaster(topic), whichever broadcaster is there now.
RemoveBroadcaster(r) ==
  /\ CleanupGoto(r, "removing", "done")
  /\ broadcasters' = [broadcasters EXCEPT ![topic[r]] = None]
  /\ UNCHANGED <<subs, withPolling, rpc, topic, held, serviceDone, pollingVars>>

-----------------------------------------------------------------------------
\* The polling goroutines run beside all this.
PollStep(b) ==
  /\ Polling!PollStep(b)
  /\ UNCHANGED <<handlerVars, serviceDone>>

\* The manager's context is cancelled, by Shutdown or with its parent.
Shutdown ==
  /\ ~serviceDone
  /\ serviceDone' = TRUE
  /\ UNCHANGED <<handlerVars, pollingVars>>

\* Every request has been served and everything it started has ended.
Quiet ==
  /\ \A r \in Requests : rpc[r] = "done" /\ cleanup[r] \in {"none", "done"}
  /\ Polling!Running = {}

Terminated == Quiet /\ UNCHANGED vars

HandlerStep(r) ==
  \/ CreateBroadcaster(r) \/ SetPollingService(r)
  \/ StartPolling(r) \/ StartPollingDone(r) \/ Subscribe(r)

CleanupStep(r) ==
  StopPolling(r) \/ SkipStopPolling(r) \/ StopPollingDone(r) \/ RemoveBroadcaster(r)

Next ==
  \/ \E r \in Requests :
       \/ \E t \in Topics : GetBroadcaster(r, t)
       \/ HandlerStep(r) \/ Leave(r) \/ CleanupStep(r) \/ PollStep(r)
  \/ Shutdown
  \/ Terminated

\* A handler and a cleanup goroutine run when they can; a streaming handler
\* leaves once m.ctx is done; polling is fair as PollingService says.
Fairness ==
  \A r \in Requests :
    /\ WF_vars(HandlerStep(r))
    /\ WF_vars(serviceDone /\ Leave(r))
    /\ WF_vars(CleanupStep(r))
    /\ WF_vars(Polling!Look(r) /\ PollStep(r))
    /\ WF_vars(Polling!Finish(r) /\ PollStep(r))

Spec == Init /\ [][Next]_vars /\ Fairness

-----------------------------------------------------------------------------
TypeOK ==
  /\ Polling!TypeOK
  /\ broadcasters \in [Topics -> Requests \union {None}]
  /\ subs \in [Requests -> SUBSET Requests]
  /\ withPolling \subseteq Requests
  /\ rpc \in [Requests -> {"idle", "creating", "attaching", "starting",
                           "subscribing", "streaming", "done"}]
  /\ topic \in [Requests -> Topics \union {None}]
  /\ held \in [Requests -> Requests \union {None}]
  /\ cleanup \in [Requests -> {"none", "begun", "stopping", "removing", "done"}]
  /\ serviceDone \in BOOLEAN

\* A request that will still unsubscribe from its broadcaster.
Using(r) == rpc[r] \in {"attaching", "starting", "subscribing", "streaming"}

\* A cleanup goroutine that has not ended.
Cleaning(r) == cleanup[r] \in {"begun", "stopping", "removing"}

\* A topic in the manager's map is never abandoned: some request still works
\* with its broadcaster, or a cleanup of that broadcaster is under way.
NoAbandonedTopic ==
  \A t \in Topics : broadcasters[t] # None =>
    \E r \in Requests : held[r] = broadcasters[t] /\ (Using(r) \/ Cleaning(r))

\* A polling goroutine is never leaked: as long as one runs, a request works
\* with the broadcaster it was started for, or a cleanup of that broadcaster
\* has still to wait for it.
NoLeakedPolling ==
  \A b \in Polling!Running :
    \E r \in Requests : held[r] = b /\ (Using(r) \/ cleanup[r] \in {"begun", "stopping"})

\* "Stop the polling service if it is set and there are no subscribers left":
\* the cleanup of one topic does not cancel the polling of another one that
\* has subscribers.
StopsOnlyOwnTopic ==
  [][\A r \in Requests : cleanup[r] = "begun" /\ cleanup'[r] = "stopping" =>
       \A b \in cancelled' \ cancelled : topic[b] # topic[r] => subs[b] = {}]_vars

\* When m.ctx is done every request that streams ends, whatever it is doing.
ShutdownEndsRequests ==
  \A r \in Requests : serviceDone /\ rpc[r] # "idle" ~> rpc[r] = "done"

\* When no request works with a broadcaster any more, all that was started is
\* undone: no polling goroutine runs and no topic is left in the map, until
\* another request comes.
GoneMeansClean ==
  (\A r \in Requests : ~Using(r) /\ rpc[r] # "creating")
    ~> \/ \E r \in Requests : Using(r) \/ rpc[r] = "creating"
       \/ Polling!Running = {} /\ \A t \in Topics : broadcasters[t] = None

=============================================================================
