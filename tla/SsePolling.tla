----------------------------- MODULE SsePolling -----------------------------
(***************************************************************************)
(* One Polling value of pkg/sse/polling.go: Start launches a goroutine     *)
(* that polls and publishes until its context is done, and Stop cancels    *)
(* the context and waits for the goroutines to finish.                     *)
(*                                                                         *)
(* What PollingService says of contexts and goroutines is detailed here:   *)
(* polling, publishing, the stop condition, the ticker and the select.     *)
(*                                                                         *)
(* The fields are not synchronised.  Start stores ctx and cancel in one    *)
(* step here: a Stop or a goroutine that sees only the first of the two    *)
(* stores behaves like one that ran just before or after both.             *)
(***************************************************************************)
EXTENDS Naturals

CONSTANTS
  Broadcasters,  \* publishers Start is called with, once each
  Stoppers,      \* goroutines that call Stop
  NoContext      \* the nil context

ASSUME PollingAssumption == NoContext \notin Broadcasters

VARIABLES
  ctx,        \* the start whose context p.ctx and p.cancel hold, or NoContext
  cancelled,  \* the starts whose context has been cancelled
  pollPc,     \* where the goroutine of each start is
  result,     \* what its last poll gave: "more", "last" (the stop condition
              \* holds of it) or "error"
  tick,       \* its ticker's channel: "none" (no ticker yet), "empty", "full"
  waitOn,     \* the start whose context its select waits on
  call,       \* where each Stop call is: "idle", "waiting", "returned"
  launched    \* history: the goroutines launched before the call began

pollingVars == <<ctx, cancelled, pollPc, result, tick, waitOn, call, launched>>

PollPc == {"unstarted", "starting", "fetching", "publishing", "checking",
           "looping", "selecting", "exiting", "finished"}

\* The goroutines the wait group counts.
Running == {b \in Broadcasters : pollPc[b] \notin {"unstarted", "starting", "finished"}}

PollGoto(b, from, to) ==
  /\ pollPc[b] = from
  /\ pollPc' = [pollPc EXCEPT ![b] = to]

\* NewPolling: no context yet.
PollingInit ==
  /\ ctx = NoContext
  /\ cancelled = {}
  /\ pollPc = [b \in Broadcasters |-> "unstarted"]
  /\ result = [b \in Broadcasters |-> "more"]
  /\ tick = [b \in Broadcasters |-> "none"]
  /\ waitOn = [b \in Broadcasters |-> NoContext]
  /\ call = [k \in Stoppers |-> "idle"]
  /\ launched = [k \in Stoppers |-> {}]

-----------------------------------------------------------------------------
(* Start.                                                                  *)

\* Start makes a new context and stores it over the one there was.
StartContext(b) ==
  /\ PollGoto(b, "unstarted", "starting")
  /\ ctx' = b
  /\ UNCHANGED <<cancelled, result, tick, waitOn, call, launched>>

\* Start adds the goroutine to the wait group and launches it.
StartGo(b) ==
  /\ PollGoto(b, "starting", "fetching")
  /\ UNCHANGED <<ctx, cancelled, result, tick, waitOn, call, launched>>

-----------------------------------------------------------------------------
(* The goroutine, pollingAndPublish.                                       *)

\* pollingFunc(p.ctx) returns; what it returns is not this package's code.
Fetch(b) ==
  /\ PollGoto(b, "fetching", "publishing")
  /\ \E r \in {"more", "last", "error"} : result' = [result EXCEPT ![b] = r]
  /\ UNCHANGED <<ctx, cancelled, tick, waitOn, call, launched>>

\* The data, or the response made from the error, is published.
PublishData(b) ==
  /\ PollGoto(b, "publishing", IF result[b] = "error" THEN "looping" ELSE "checking")
  /\ UNCHANGED <<ctx, cancelled, result, tick, waitOn, call, launched>>

\* Faulty variant: the stop condition is asked, and nothing done about it.
CheckStopConditionIgnored(b) ==
  /\ PollGoto(b, "checking", "looping")
  /\ UNCHANGED <<ctx, cancelled, result, tick, waitOn, call, launched>>

\* The stop condition is asked; if it holds, p.cancel is called, which is the
\* cancel of the latest start.
CheckStopCondition(b) ==
  /\ PollGoto(b, "checking", "looping")
  /\ cancelled' = IF result[b] = "last" THEN cancelled \union {ctx} ELSE cancelled
  /\ UNCHANGED <<ctx, result, tick, waitOn, call, launched>>

\* Faulty variant: the loop goes by the context it was started with.
EnterSelectOwnContext(b) ==
  /\ PollGoto(b, "looping", "selecting")
  /\ waitOn' = [waitOn EXCEPT ![b] = b]
  /\ tick' = [tick EXCEPT ![b] = IF @ = "none" THEN "empty" ELSE @]
  /\ UNCHANGED <<ctx, cancelled, result, call, launched>>

\* The ticker is made after the first poll; every round of the loop evaluates
\* p.ctx.Done() and then blocks.
EnterSelect(b) ==
  /\ PollGoto(b, "looping", "selecting")
  /\ waitOn' = [waitOn EXCEPT ![b] = ctx]
  /\ tick' = [tick EXCEPT ![b] = IF @ = "none" THEN "empty" ELSE @]
  /\ UNCHANGED <<ctx, cancelled, result, call, launched>>

\* The ticker's channel keeps one tick for a slow receiver.
Tick(b) ==
  /\ tick[b] = "empty"
  /\ tick' = [tick EXCEPT ![b] = "full"]
  /\ UNCHANGED <<ctx, cancelled, pollPc, result, waitOn, call, launched>>

\* The select takes the ticker's branch, whether or not the context is done.
SelectTick(b) ==
  /\ PollGoto(b, "selecting", "fetching")
  /\ tick[b] = "full"
  /\ tick' = [tick EXCEPT ![b] = "empty"]
  /\ UNCHANGED <<ctx, cancelled, result, waitOn, call, launched>>

\* The select takes the branch of the context.
SelectDone(b) ==
  /\ PollGoto(b, "selecting", "exiting")
  /\ waitOn[b] \in cancelled
  /\ UNCHANGED <<ctx, cancelled, result, tick, waitOn, call, launched>>

\* The deferred stopCallback and ticker.Stop, then wg.Done.
Exit(b) ==
  /\ PollGoto(b, "exiting", "finished")
  /\ tick' = [tick EXCEPT ![b] = "none"]
  /\ UNCHANGED <<ctx, cancelled, result, waitOn, call, launched>>

PollStep(b) ==
  \/ Fetch(b) \/ PublishData(b) \/ CheckStopCondition(b) \/ EnterSelect(b)
  \/ Tick(b) \/ SelectTick(b) \/ SelectDone(b) \/ Exit(b)

-----------------------------------------------------------------------------
(* Stop.                                                                   *)

\* Faulty variant: Stop waits without cancelling the context.
StopOnlyWaits(k) ==
  /\ call[k] = "idle"
  /\ call' = [call EXCEPT ![k] = "waiting"]
  /\ launched' = [launched EXCEPT ![k] =
                    {b \in Broadcasters : pollPc[b] \notin {"unstarted", "starting"}}]
  /\ UNCHANGED <<ctx, cancelled, pollPc, result, tick, waitOn>>

\* Stop cancels the context p.cancel stands for at that moment, if any.
StopCancel(k) ==
  /\ call[k] = "idle"
  /\ call' = [call EXCEPT ![k] = "waiting"]
  /\ cancelled' = cancelled \union ({ctx} \ {NoContext})
  /\ launched' = [launched EXCEPT ![k] =
                    {b \in Broadcasters : pollPc[b] \notin {"unstarted", "starting"}}]
  /\ UNCHANGED <<ctx, pollPc, result, tick, waitOn>>

\* Faulty variant: Stop does not wait for the goroutines.
StopReturnAtOnce(k) ==
  /\ call[k] = "waiting"
  /\ call' = [call EXCEPT ![k] = "returned"]
  /\ UNCHANGED <<ctx, cancelled, pollPc, result, tick, waitOn, launched>>

\* wg.Wait returns when no goroutine is running, whichever start it is of.
StopReturn(k) ==
  /\ call[k] = "waiting"
  /\ Running = {}
  /\ call' = [call EXCEPT ![k] = "returned"]
  /\ UNCHANGED <<ctx, cancelled, pollPc, result, tick, waitOn, launched>>

-----------------------------------------------------------------------------
\* Every start has been made and has finished, and every Stop has returned.
Terminated ==
  /\ \A b \in Broadcasters : pollPc[b] = "finished"
  /\ \A k \in Stoppers : call[k] = "returned"
  /\ UNCHANGED pollingVars

PollingNext ==
  \/ \E b \in Broadcasters : StartContext(b) \/ StartGo(b) \/ PollStep(b)
  \/ \E k \in Stoppers : StopCancel(k) \/ StopReturn(k)
  \/ Terminated

\* A goroutine that can run does: the poll returns and the ticker ticks.  Go's
\* select chooses among the ready branches at random, so a context that stays
\* done is not passed over forever.  Nobody has to call Start or Stop.
PollFairness(b) ==
  /\ WF_pollingVars(StartGo(b))
  /\ WF_pollingVars(Fetch(b) \/ PublishData(b) \/ CheckStopCondition(b)
                    \/ EnterSelect(b) \/ Exit(b))
  /\ WF_pollingVars(Tick(b))
  /\ WF_pollingVars(SelectTick(b) \/ SelectDone(b))
  /\ SF_pollingVars(SelectDone(b))

PollingFairness ==
  /\ \A b \in Broadcasters : PollFairness(b)
  /\ \A k \in Stoppers : WF_pollingVars(StopReturn(k))

PollingSpec == PollingInit /\ [][PollingNext]_pollingVars /\ PollingFairness

-----------------------------------------------------------------------------
PollingTypeOK ==
  /\ ctx \in Broadcasters \union {NoContext}
  /\ cancelled \subseteq Broadcasters
  /\ pollPc \in [Broadcasters -> PollPc]
  /\ result \in [Broadcasters -> {"more", "last", "error"}]
  /\ tick \in [Broadcasters -> {"none", "empty", "full"}]
  /\ waitOn \in [Broadcasters -> Broadcasters \union {NoContext}]
  /\ call \in [Stoppers -> {"idle", "waiting", "returned"}]
  /\ launched \in [Stoppers -> SUBSET Broadcasters]

\* Once Stop has returned, the goroutines launched before it was called have
\* run their stop callback and publish nothing more: "It cancels the context
\* and waits for the polling goroutine to finish."
StopMeansFinished ==
  \A k \in Stoppers : call[k] = "returned" =>
    \A b \in launched[k] : pollPc[b] = "finished"

\* A Stop called once the goroutine is launched returns, though the goroutine
\* may be polling and may take a tick instead of the done context many times;
\* unless Start replaces the context meanwhile, which keeps the goroutine going.
StopReturns ==
  \A k \in Stoppers, b \in Broadcasters :
    call[k] = "waiting" /\ b \in launched[k] /\ ctx = b
      ~> call[k] = "returned" \/ ctx # b

\* "Polling will stop after publishing data if the function returns true", if
\* not at once: data the stop condition holds of ends the polling, unless Start
\* replaces the context meanwhile.
StopConditionStops ==
  \A b, c \in Broadcasters :
    pollPc[b] = "checking" /\ result[b] = "last" /\ ctx = c
      ~> pollPc[b] = "finished" \/ ctx # c

\* SsePolling implements PollingService: between its launch and wg.Done, a
\* goroutine is just running, whatever it is doing.
Service == INSTANCE PollingService WITH
  None <- NoContext,
  phase <- [b \in Broadcasters |->
              IF b \in Running THEN "running" ELSE pollPc[b]]

\* The polling loop keeps the contract SseManager relies on, fairness included.
ImplementsService == Service!Spec

=============================================================================
