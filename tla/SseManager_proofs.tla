-------------------------- MODULE SseManager_proofs --------------------------
(***************************************************************************)
(* Theorems about SseManager, for any number of requests and topics, with  *)
(* and without a polling service.                                          *)
(***************************************************************************)
EXTENDS SseManager, TLAPS

\* A broadcaster that some request holds exists and is for that topic.
HandlerInv ==
  \A r \in Requests :
    /\ rpc[r] # "idle" => topic[r] \in Topics
    /\ rpc[r] \notin {"idle", "creating"} => held[r] \in Requests
    /\ held[r] # None =>
         rpc[held[r]] \notin {"idle", "creating"} /\ topic[held[r]] = topic[r]
    /\ rpc[r] \in {"attaching", "starting"} => held[r] = r
    /\ rpc[r] # "done" => cleanup[r] = "none"
    /\ rpc[r] = "starting" => r \in withPolling

\* The subscribers of a broadcaster are the requests that stream from it.
SubsInv ==
  \A b \in Requests, r \in Requests :
    r \in subs[b] <=> rpc[r] = "streaming" /\ held[r] = b

\* The map holds a topic's broadcaster under that topic.
MapInv ==
  \A t \in Topics : broadcasters[t] # None =>
    /\ rpc[broadcasters[t]] \notin {"idle", "creating"}
    /\ topic[broadcasters[t]] = t

\* Polling is only ever started for a broadcaster that has the service set.
PollInv ==
  \A b \in Requests :
    /\ phase[b] # "unstarted" => b \in withPolling /\ ctx # None
    /\ phase[b] = "starting" => rpc[b] = "starting"

IInv ==
  /\ TypeOK /\ HandlerInv /\ SubsInv /\ MapInv /\ PollInv
  /\ NoAbandonedTopic /\ NoLeakedPolling

LEMMA InitIInv == Init => IInv
<1> SUFFICES ASSUME Init PROVE IInv
  OBVIOUS
<1> USE ManagerAssumption DEF Init, Polling!Init
<1>1. TypeOK
  BY DEF TypeOK, Polling!TypeOK
<1>2. HandlerInv /\ SubsInv /\ MapInv
  BY DEF HandlerInv, SubsInv, MapInv
<1>3. PollInv /\ NoAbandonedTopic /\ NoLeakedPolling
  BY DEF PollInv, NoAbandonedTopic, NoLeakedPolling, Polling!Running
<1> QED
  BY <1>1, <1>2, <1>3 DEF IInv

\* Types and the bookkeeping of holders, subscribers and starts are preserved.
LEMMA StepBookkeeping ==
  IInv /\ [Next]_vars => (TypeOK /\ HandlerInv /\ SubsInv /\ MapInv /\ PollInv)'
<1> DEFINE Book == TypeOK /\ HandlerInv /\ SubsInv /\ MapInv /\ PollInv
<1> SUFFICES ASSUME Book, [Next]_vars PROVE Book'
  BY DEF IInv
<1> USE ManagerAssumption
    DEF TypeOK, Polling!TypeOK, HandlerInv, SubsInv, MapInv, PollInv, Goto,
        CleanupGoto, handlerVars, pollingVars
<1>1. ASSUME NEW r \in Requests, NEW t \in Topics, GetBroadcaster(r, t) PROVE Book'
  BY <1>1 DEF GetBroadcaster
<1>2. ASSUME NEW r \in Requests, CreateBroadcaster(r) PROVE Book'
  BY <1>2 DEF CreateBroadcaster
<1>3. ASSUME NEW r \in Requests, SetPollingService(r) PROVE Book'
  BY <1>3 DEF SetPollingService
<1>4. ASSUME NEW r \in Requests, StartPolling(r) PROVE Book'
  BY <1>4 DEF StartPolling, Polling!StartContext
<1>5. ASSUME NEW r \in Requests, StartPollingDone(r) PROVE Book'
  BY <1>5 DEF StartPollingDone, Polling!StartGo
<1>6. ASSUME NEW r \in Requests, Subscribe(r) PROVE Book'
  BY <1>6 DEF Subscribe
<1>7. ASSUME NEW r \in Requests, Leave(r) PROVE Book'
  BY <1>7 DEF Leave
<1>8. ASSUME NEW r \in Requests, StopPolling(r) PROVE Book'
  BY <1>8 DEF StopPolling, Polling!StopCancel
<1>9. ASSUME NEW r \in Requests, SkipStopPolling(r) PROVE Book'
  BY <1>9 DEF SkipStopPolling
<1>10. ASSUME NEW r \in Requests, StopPollingDone(r) PROVE Book'
  BY <1>10 DEF StopPollingDone, Polling!StopReturn
<1>11. ASSUME NEW r \in Requests, RemoveBroadcaster(r) PROVE Book'
  BY <1>11 DEF RemoveBroadcaster
<1>12. ASSUME NEW r \in Requests, PollStep(r) PROVE Book'
  BY <1>12 DEF PollStep, Polling!PollStep, Polling!Look, Polling!CancelItself,
               Polling!Finish
<1>13. CASE Shutdown
  BY <1>13 DEF Shutdown
<1>14. CASE UNCHANGED vars
  BY <1>14 DEF vars
<1> QED
  BY <1>1, <1>2, <1>3, <1>4, <1>5, <1>6, <1>7, <1>8, <1>9, <1>10, <1>11, <1>12,
     <1>13, <1>14 DEF Next, HandlerStep, CleanupStep, Terminated
\* A step leaves every topic in the map with a request that will remove it.
LEMMA StepNoAbandonedTopic == IInv /\ [Next]_vars => NoAbandonedTopic'
<1> SUFFICES ASSUME IInv, [Next]_vars PROVE NoAbandonedTopic'
  OBVIOUS
<1> USE ManagerAssumption
    DEF IInv, TypeOK, HandlerInv, SubsInv, MapInv, NoAbandonedTopic, Using,
        Cleaning, Goto, CleanupGoto, handlerVars, pollingVars
<1>1. ASSUME NEW r \in Requests, NEW t \in Topics, GetBroadcaster(r, t)
      PROVE  NoAbandonedTopic'
  BY <1>1 DEF GetBroadcaster
<1>2. ASSUME NEW r \in Requests, CreateBroadcaster(r) PROVE NoAbandonedTopic'
  BY <1>2 DEF CreateBroadcaster
<1>3. ASSUME NEW r \in Requests,
             SetPollingService(r) \/ StartPolling(r) \/ StartPollingDone(r) \/ Subscribe(r)
      PROVE  NoAbandonedTopic'
  BY <1>3 DEF SetPollingService, StartPolling, StartPollingDone, Subscribe
\* The last subscriber to leave starts a cleanup; others stay otherwise.
<1>4. ASSUME NEW r \in Requests, Leave(r) PROVE NoAbandonedTopic'
  <2> SUFFICES ASSUME NEW t \in Topics, broadcasters'[t] # None
               PROVE  \E q \in Requests : held'[q] = broadcasters'[t]
                                          /\ (Using(q)' \/ Cleaning(q)')
    OBVIOUS
  <2>1. PICK q \in Requests : held[q] = broadcasters[t] /\ (Using(q) \/ Cleaning(q))
    BY <1>4 DEF Leave
  <2>2. CASE q # r
    BY <1>4, <2>1, <2>2 DEF Leave
  <2>3. CASE q = r /\ subs[held[r]] = {r}
    BY <1>4, <2>1, <2>3 DEF Leave
  <2>4. CASE q = r /\ subs[held[r]] # {r}
    <3>1. PICK s \in Requests : s \in subs[held[r]] /\ s # r
      BY <1>4, <2>4 DEF Leave
    <3> QED
      BY <1>4, <2>1, <2>4, <3>1 DEF Leave
  <2> QED
    BY <2>2, <2>3, <2>4
<1>5. ASSUME NEW r \in Requests,
             StopPolling(r) \/ SkipStopPolling(r) \/ StopPollingDone(r)
      PROVE  NoAbandonedTopic'
  BY <1>5 DEF StopPolling, SkipStopPolling, StopPollingDone
\* A cleanup removes the topic of the broadcaster it was started for.
<1>6. ASSUME NEW r \in Requests, RemoveBroadcaster(r) PROVE NoAbandonedTopic'
  <2> SUFFICES ASSUME NEW t \in Topics, broadcasters'[t] # None
               PROVE  \E q \in Requests : held'[q] = broadcasters'[t]
                                          /\ (Using(q)' \/ Cleaning(q)')
    OBVIOUS
  <2>1. topic[r] # t /\ broadcasters[t] = broadcasters'[t]
    BY <1>6 DEF RemoveBroadcaster
  <2>2. PICK q \in Requests : held[q] = broadcasters[t] /\ (Using(q) \/ Cleaning(q))
    BY <2>1
  <2>3. q # r
    BY <2>1, <2>2
  <2> QED
    BY <1>6, <2>1, <2>2, <2>3 DEF RemoveBroadcaster
<1>7. ASSUME NEW r \in Requests, PollStep(r) PROVE NoAbandonedTopic'
  BY <1>7 DEF PollStep
<1>8. CASE Shutdown \/ UNCHANGED vars
  BY <1>8 DEF Shutdown, vars
<1> QED
  BY <1>1, <1>2, <1>3, <1>4, <1>5, <1>6, <1>7, <1>8
     DEF Next, HandlerStep, CleanupStep, Terminated

\* A step leaves every polling goroutine with a request that will stop it.
LEMMA StepNoLeakedPolling == IInv /\ [Next]_vars => NoLeakedPolling'
<1> SUFFICES ASSUME IInv, [Next]_vars PROVE NoLeakedPolling'
  OBVIOUS
<1> USE ManagerAssumption
    DEF IInv, TypeOK, Polling!TypeOK, HandlerInv, SubsInv, PollInv, NoLeakedPolling,
        Using, Goto, CleanupGoto, handlerVars, pollingVars, Polling!Running
<1>1. ASSUME NEW r \in Requests, NEW t \in Topics, GetBroadcaster(r, t)
      PROVE  NoLeakedPolling'
  BY <1>1 DEF GetBroadcaster
<1>2. ASSUME NEW r \in Requests, CreateBroadcaster(r) PROVE NoLeakedPolling'
  BY <1>2 DEF CreateBroadcaster
<1>3. ASSUME NEW r \in Requests, SetPollingService(r) \/ Subscribe(r)
      PROVE  NoLeakedPolling'
  BY <1>3 DEF SetPollingService, Subscribe
<1>4. ASSUME NEW r \in Requests, StartPolling(r) PROVE NoLeakedPolling'
  BY <1>4 DEF StartPolling, Polling!StartContext
<1>5. ASSUME NEW r \in Requests, StartPollingDone(r) PROVE NoLeakedPolling'
  BY <1>5 DEF StartPollingDone, Polling!StartGo
<1>6. ASSUME NEW r \in Requests, Leave(r) PROVE NoLeakedPolling'
  <2> SUFFICES ASSUME NEW b \in Requests, phase'[b] = "running"
               PROVE  \E q \in Requests : held'[q] = b
                        /\ (Using(q)' \/ cleanup'[q] \in {"begun", "stopping"})
    OBVIOUS
  <2>1. PICK q \in Requests : held[q] = b
                             /\ (Using(q) \/ cleanup[q] \in {"begun", "stopping"})
    BY <1>6 DEF Leave
  <2>2. CASE q # r
    BY <1>6, <2>1, <2>2 DEF Leave
  <2>3. CASE q = r /\ subs[held[r]] = {r}
    BY <1>6, <2>1, <2>3 DEF Leave
  <2>4. CASE q = r /\ subs[held[r]] # {r}
    <3>1. PICK s \in Requests : s \in subs[held[r]] /\ s # r
      BY <1>6, <2>4 DEF Leave
    <3> QED
      BY <1>6, <2>1, <2>4, <3>1 DEF Leave
  <2> QED
    BY <2>2, <2>3, <2>4
<1>7. ASSUME NEW r \in Requests, StopPolling(r) PROVE NoLeakedPolling'
  BY <1>7 DEF StopPolling, Polling!StopCancel
\* A cleanup that does not stop the polling is for a broadcaster without any.
<1>8. ASSUME NEW r \in Requests, SkipStopPolling(r) PROVE NoLeakedPolling'
  BY <1>8 DEF SkipStopPolling
\* A cleanup that is done waiting has seen the last goroutine end.
<1>9. ASSUME NEW r \in Requests, StopPollingDone(r) PROVE NoLeakedPolling'
  BY <1>9 DEF StopPollingDone, Polling!StopReturn
<1>10. ASSUME NEW r \in Requests, RemoveBroadcaster(r) PROVE NoLeakedPolling'
  BY <1>10 DEF RemoveBroadcaster
<1>11. ASSUME NEW r \in Requests, PollStep(r) PROVE NoLeakedPolling'
  BY <1>11 DEF PollStep, Polling!PollStep, Polling!Look, Polling!CancelItself,
               Polling!Finish
<1>12. CASE Shutdown \/ UNCHANGED vars
  BY <1>12 DEF Shutdown, vars
<1> QED
  BY <1>1, <1>2, <1>3, <1>4, <1>5, <1>6, <1>7, <1>8, <1>9, <1>10, <1>11, <1>12
     DEF Next, HandlerStep, CleanupStep, Terminated

LEMMA Invariance == Spec => []IInv
<1>1. IInv /\ [Next]_vars => IInv'
  BY StepBookkeeping, StepNoAbandonedTopic, StepNoLeakedPolling DEF IInv
<1> QED
  BY InitIInv, <1>1, PTL DEF Spec

\* Type correctness of the SSE service.
THEOREM TypeCorrect == Spec => []TypeOK
<1>1. IInv => TypeOK
  BY DEF IInv
<1> QED
  BY <1>1, Invariance, PTL

\* However requests and cleanups interleave, a topic in the manager's map has a
\* request that works with its broadcaster or a cleanup that will remove it.
THEOREM NoAbandonedTopicHolds == Spec => []NoAbandonedTopic
<1>1. IInv => NoAbandonedTopic
  BY DEF IInv
<1> QED
  BY <1>1, Invariance, PTL

\* However starts and stops of the shared polling service interleave, a polling
\* goroutine that runs has a request that will stop it or a cleanup waiting.
THEOREM NoLeakedPollingHolds == Spec => []NoLeakedPolling
<1>1. IInv => NoLeakedPolling
  BY DEF IInv
<1> QED
  BY <1>1, Invariance, PTL

=============================================================================
