--------------------------- MODULE PollingService ---------------------------
(***************************************************************************)
(* What the PollingService of pkg/sse/interfaces.go, as the Polling struct *)
(* keeps it, does to its starts: which goroutine runs, which context it    *)
(* goes by and when it ends.  What is polled and published, and how the    *)
(* rounds of the loop go, is left to SsePolling, which implements this     *)
(* specification; SseManager is built on it.                               *)
(*                                                                         *)
(* A HandlerConfig holds one Polling value and the handler starts it once  *)
(* for every broadcaster it creates, so one value may be started several   *)
(* times: ctx and cancel are fields of the value, which every Start        *)
(* overwrites and every goroutine reads afresh.  A start, its context and  *)
(* its goroutine are named by the broadcaster it publishes to.             *)
(***************************************************************************)
CONSTANTS
  Broadcasters,  \* publishers Start is called with, once each
  Stoppers,      \* goroutines that call Stop
  None           \* the nil context

VARIABLES
  ctx,        \* the start whose context p.ctx and p.cancel hold, or None
  cancelled,  \* the starts whose context has been cancelled
  phase,      \* "unstarted", "starting", "running", "finished" for each start
  waitOn,     \* the start whose context each goroutine goes by, or None
  call        \* "idle", "waiting", "returned" for each Stop call

pollingVars == <<ctx, cancelled, phase, waitOn, call>>

\* The goroutines the wait group counts.
Running == {b \in Broadcasters : phase[b] = "running"}

Init ==
  /\ ctx = None
  /\ cancelled = {}
  /\ phase = [b \in Broadcasters |-> "unstarted"]
  /\ waitOn = [b \in Broadcasters |-> None]
  /\ call = [k \in Stoppers |-> "idle"]

\* Start makes a new context and stores it over the one there was.
StartContext(b) ==
  /\ phase[b] = "unstarted"
  /\ phase' = [phase EXCEPT ![b] = "starting"]
  /\ ctx' = b
  /\ UNCHANGED <<cancelled, waitOn, call>>

\* Start adds the goroutine to the wait group and launches it.
StartGo(b) ==
  /\ phase[b] = "starting"
  /\ phase' = [phase EXCEPT ![b] = "running"]
  /\ UNCHANGED <<ctx, cancelled, waitOn, call>>

\* A round of the loop begins: the goroutine goes by the context of now.
Look(b) ==
  /\ phase[b] = "running"
  /\ waitOn[b] # ctx
  /\ waitOn' = [waitOn EXCEPT ![b] = ctx]
  /\ UNCHANGED <<ctx, cancelled, phase, call>>

\* The stop condition holds: the goroutine cancels the context of now.
CancelItself(b) ==
  /\ phase[b] = "running"
  /\ cancelled' = cancelled \union {ctx}
  /\ UNCHANGED <<ctx, phase, waitOn, call>>

\* The goroutine ends, for a context that is done.
Finish(b) ==
  /\ phase[b] = "running"
  /\ waitOn[b] \in cancelled
  /\ phase' = [phase EXCEPT ![b] = "finished"]
  /\ UNCHANGED <<ctx, cancelled, waitOn, call>>

\* Stop cancels the context of now, if any, and then waits for all goroutines.
StopCancel(k) ==
  /\ call[k] = "idle"
  /\ call' = [call EXCEPT ![k] = "waiting"]
  /\ cancelled' = cancelled \union ({ctx} \ {None})
  /\ UNCHANGED <<ctx, phase, waitOn>>

StopReturn(k) ==
  /\ call[k] = "waiting"
  /\ Running = {}
  /\ call' = [call EXCEPT ![k] = "returned"]
  /\ UNCHANGED <<ctx, cancelled, phase, waitOn>>

PollStep(b) == Look(b) \/ CancelItself(b) \/ Finish(b)

Next ==
  \/ \E b \in Broadcasters : StartContext(b) \/ StartGo(b) \/ PollStep(b)
  \/ \E k \in Stoppers : StopCancel(k) \/ StopReturn(k)

\* A goroutine goes on to its next round and heeds a context that stays done;
\* a Stop call returns when it can.
Fairness ==
  /\ \A b \in Broadcasters :
       /\ WF_pollingVars(StartGo(b))
       /\ WF_pollingVars(Look(b))
       /\ WF_pollingVars(Finish(b))
  /\ \A k \in Stoppers : WF_pollingVars(StopReturn(k))

Spec == Init /\ [][Next]_pollingVars /\ Fairness

-----------------------------------------------------------------------------
TypeOK ==
  /\ ctx \in Broadcasters \union {None}
  /\ cancelled \subseteq Broadcasters
  /\ phase \in [Broadcasters -> {"unstarted", "starting", "running", "finished"}]
  /\ waitOn \in [Broadcasters -> Broadcasters \union {None}]
  /\ call \in [Stoppers -> {"idle", "waiting", "returned"}]

=============================================================================
