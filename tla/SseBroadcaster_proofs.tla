------------------------ MODULE SseBroadcaster_proofs ------------------------
(***************************************************************************)
(* Theorems about SseBroadcaster, for any sets of publishers, channels and *)
(* messages and any channel capacity.  IInv, defined there, is inductive;  *)
(* the safety properties are its consequences.  At the end the theorems    *)
(* about SsePolling, the loop that publishes on a broadcaster, for any     *)
(* number of starts and of Stop calls.                                     *)
(***************************************************************************)
EXTENDS SseBroadcaster, SsePolling, SequenceTheorems, TLAPS

\* NewBroadcaster makes a broadcaster that satisfies the inductive invariant.
LEMMA InitIInv == Init => IInv
<1> SUFFICES ASSUME Init PROVE IInv
  OBVIOUS
<1> USE BroadcasterAssumption DEF Init
<1>1. TypeOK
  BY DEF TypeOK
<1>2. PublisherInv /\ ChannelInv /\ FirstMessageGuaranteed
  BY DEF PublisherInv, ChannelInv, FirstMessageGuaranteed
<1> QED
  BY <1>1, <1>2 DEF IInv

\* Every step of a handler or of a publisher preserves it.
LEMMA StepIInv == IInv /\ [Next]_vars => IInv'
<1> SUFFICES ASSUME IInv, [Next]_vars PROVE IInv'
  OBVIOUS
<1> USE BroadcasterAssumption
    DEF IInv, TypeOK, PublisherInv, ChannelInv, FirstMessageGuaranteed,
        NoReader, publisherVars, subscriberVars
<1>1. ASSUME NEW ch \in Channels, Subscribe(ch) PROVE IInv'
  BY <1>1 DEF Subscribe
<1>2. ASSUME NEW ch \in Channels, Unsubscribe(ch) PROVE IInv'
  BY <1>2 DEF Unsubscribe
<1>3. ASSUME NEW ch \in Channels, Receive(ch) PROVE IInv'
  BY <1>3 DEF Receive
<1>4. ASSUME NEW p \in Publishers, NEW d \in Data, PublishHash(p, d) PROVE IInv'
  BY <1>4 DEF PublishHash, shouldSendUpdate
<1>5. ASSUME NEW p \in Publishers, PublishLock(p) PROVE IInv'
  BY <1>5 DEF PublishLock
<1>6. ASSUME NEW p \in Publishers, NEW ch \in Channels, PublishVisit(p, ch)
      PROVE  IInv'
  BY <1>6 DEF PublishVisit
<1>7. ASSUME NEW p \in Publishers, PublishSend(p) PROVE IInv'
  <2> DEFINE ch == sendTo[p]
  <2>1. ch \in subscribers /\ data[p] \in Data /\ pc[p] = "sending"
    BY <1>7 DEF PublishSend
  <2>2. CASE Len(chan[ch]) < ChanCap
    <3>1. /\ chan' = [chan EXCEPT ![ch] = Append(@, data[p])]
          /\ isNew' = [isNew EXCEPT ![ch] = FALSE]
          /\ lastSent' = [lastSent EXCEPT ![ch] = data[p]]
          /\ sendTo' = [sendTo EXCEPT ![p] = None]
          /\ UNCHANGED <<subscribers, closed, lastHash, pc, data, shouldSend, todo, serial>>
      BY <1>7, <2>2 DEF PublishSend
    <3>2. chan' \in [Channels -> Seq(Data)]
      BY <2>1, <3>1
    <3>3. PublisherInv' /\ ChannelInv' /\ FirstMessageGuaranteed'
      BY <2>1, <3>1
    <3>4. TypeOK'
      BY <2>1, <3>1, <3>2
    <3> QED
      BY <3>3, <3>4
  <2>3. CASE ~(Len(chan[ch]) < ChanCap)
    <3>1. ~isNew[ch]
      BY <2>1, <2>3
    <3>2. /\ lastSent' = [lastSent EXCEPT ![ch] = Dropped]
          /\ sendTo' = [sendTo EXCEPT ![p] = None]
          /\ UNCHANGED <<subscribers, closed, isNew, chan, lastHash, pc, data,
                         shouldSend, todo, serial>>
      BY <1>7, <2>3 DEF PublishSend
    <3> QED
      BY <2>1, <3>1, <3>2
  <2> QED
    BY <2>2, <2>3
<1>8. ASSUME NEW p \in Publishers, PublishUnlock(p) PROVE IInv'
  BY <1>8 DEF PublishUnlock
<1>9. CASE UNCHANGED vars
  BY <1>9 DEF vars
<1> QED
  BY <1>1, <1>2, <1>3, <1>4, <1>5, <1>6, <1>7, <1>8, <1>9 DEF Next, PublishStep

LEMMA Invariance == Spec => []IInv
BY InitIInv, StepIInv, PTL DEF Spec

\* Type correctness of the broadcaster.  It needs IInv: that what a publisher
\* sends is a message depends on where the publisher is.
THEOREM TypeCorrect == Spec => []TypeOK
<1>1. IInv => TypeOK
  BY DEF IInv
<1> QED
  BY <1>1, Invariance, PTL

\* Unsubscribe never closes a channel a Publish in progress will send to.
THEOREM NoSendOnClosedHolds == Spec => []NoSendOnClosed
<1>1. IInv => NoSendOnClosed
  BY DEF IInv, NoSendOnClosed, PublisherInv, ChannelInv
<1> QED
  BY <1>1, Invariance, PTL

\* Publish never passes a new subscriber without giving it its first message.
THEOREM FirstMessageHolds == Spec => []FirstMessageGuaranteed
<1>1. IInv => FirstMessageGuaranteed
  BY DEF IInv
<1> QED
  BY <1>1, Invariance, PTL
-----------------------------------------------------------------------------
(* As long as publications do not overlap, the hash and the subscribers    *)
(* agree.  SerialInv says how the two are related while a publication is   *)
(* under way: the subscribers it has passed have the data, and those still *)
(* to come had something else last.                                        *)

UpToDateAt(ch) == isNew[ch] \/ lastSent[ch] \in {lastHash, Dropped}

Passed(p, ch) ==
  \/ ~shouldSend[p]
  \/ pc[p] = "sending" /\ ch \notin todo[p] \union {sendTo[p]}

\* Where the only publication under way is.
OneAtATime ==
  /\ \A p, q \in Publishers : pc[p] # "idle" /\ pc[q] # "idle" => p = q
  /\ \A p \in Publishers :
       /\ pc[p] = "idle" => ~shouldSend[p]
       /\ pc[p] # "idle" => data[p] = lastHash
       /\ sendTo[p] # None => isNew[sendTo[p]] \/ shouldSend[p]

NewOnesHaveNothing ==
  \A ch \in Channels :
    ch \notin subscribers \union closed \/ isNew[ch] => lastSent[ch] \in {None, Dropped}

Agree ==
  \A ch \in subscribers :
    IF \A p \in Publishers : Passed(p, ch) THEN UpToDateAt(ch) ELSE lastSent[ch] # lastHash

SerialInv == serial => OneAtATime /\ NewOnesHaveNothing /\ Agree

\* While p publishes, p alone decides whether a subscriber has been passed.
LEMMA OnlyOnePasses ==
  ASSUME OneAtATime, NEW p \in Publishers, pc[p] # "idle", NEW ch
  PROVE  (\A q \in Publishers : Passed(q, ch)) <=> Passed(p, ch)
BY DEF OneAtATime, Passed

\* The relation between hash and subscribers holds at every step.
LEMMA StepSerialInv == IInv /\ IInv' /\ SerialInv /\ [Next]_vars => SerialInv'
<1> SUFFICES ASSUME IInv, IInv', SerialInv, [Next]_vars, serial'
             PROVE  (OneAtATime /\ NewOnesHaveNothing /\ Agree)'
  BY DEF SerialInv
<1> USE BroadcasterAssumption
    DEF IInv, TypeOK, PublisherInv, ChannelInv, FirstMessageGuaranteed, NoReader,
        publisherVars, subscriberVars
<1>0. serial /\ OneAtATime /\ NewOnesHaveNothing /\ Agree
  BY DEF SerialInv, Next, PublishStep, Subscribe, Unsubscribe, Receive, PublishHash,
         PublishLock, PublishVisit, PublishSend, PublishUnlock, vars
<1>1. ASSUME NEW ch \in Channels, Subscribe(ch)
      PROVE  (OneAtATime /\ NewOnesHaveNothing /\ Agree)'
  <2>1. \A q \in Publishers : ch \notin todo[q] /\ sendTo[q] # ch
    BY <1>1 DEF Subscribe
  <2> QED
    BY <1>0, <1>1, <2>1 DEF Subscribe, OneAtATime, NewOnesHaveNothing, Agree, Passed, UpToDateAt
<1>2. ASSUME NEW ch \in Channels, Unsubscribe(ch)
      PROVE  (OneAtATime /\ NewOnesHaveNothing /\ Agree)'
  BY <1>0, <1>2 DEF Unsubscribe, OneAtATime, NewOnesHaveNothing, Agree, Passed, UpToDateAt
<1>3. ASSUME NEW ch \in Channels, Receive(ch)
      PROVE  (OneAtATime /\ NewOnesHaveNothing /\ Agree)'
  BY <1>0, <1>3 DEF Receive, OneAtATime, NewOnesHaveNothing, Agree, Passed, UpToDateAt
<1>4. ASSUME NEW p \in Publishers, NEW d \in Data, PublishHash(p, d)
      PROVE  (OneAtATime /\ NewOnesHaveNothing /\ Agree)'
  <2>1. d \notin Unmarshalable /\ \A q \in Publishers : pc[q] = "idle"
    BY <1>4 DEF PublishHash
  <2>2. \A ch \in subscribers : UpToDateAt(ch)
    BY <1>0, <2>1 DEF OneAtATime, Agree, Passed
  <2>3. CASE lastHash = d
    <3>1. UNCHANGED <<shouldSend, lastHash>>
      BY <1>0, <1>4, <2>1, <2>3 DEF PublishHash, shouldSendUpdate, OneAtATime
    <3> QED
      BY <1>0, <1>4, <2>1, <2>2, <2>3, <3>1
      DEF PublishHash, OneAtATime, NewOnesHaveNothing, Agree, Passed, UpToDateAt
  <2>4. CASE lastHash # d
    <3>1. lastHash' = d /\ shouldSend' = [shouldSend EXCEPT ![p] = TRUE]
      BY <1>4, <2>1, <2>4 DEF PublishHash, shouldSendUpdate
    <3>2. \A ch \in subscribers : lastSent[ch] # d
      <4> SUFFICES ASSUME NEW ch \in subscribers PROVE lastSent[ch] # d
        OBVIOUS
      <4>1. lastSent[ch] \in {None, Dropped, lastHash}
        BY <1>0, <2>2 DEF NewOnesHaveNothing, UpToDateAt
      <4>2. None # d /\ Dropped # d
        OBVIOUS
      <4> QED
        BY <2>4, <4>1, <4>2
    <3> QED
      BY <1>0, <1>4, <2>1, <3>1, <3>2
      DEF PublishHash, OneAtATime, NewOnesHaveNothing, Agree, Passed, UpToDateAt
  <2> QED
    BY <2>3, <2>4
<1>5. ASSUME NEW p \in Publishers, pc[p] # "idle", PublishStep(p)
      PROVE  (OneAtATime /\ NewOnesHaveNothing /\ Agree)'
  <2>1. OneAtATime'
    BY <1>0, <1>5 DEF PublishStep, PublishLock, PublishVisit, PublishSend, PublishUnlock, OneAtATime
  <2>2. NewOnesHaveNothing'
    BY <1>0, <1>5 DEF PublishStep, PublishLock, PublishVisit, PublishSend, PublishUnlock,
                      NewOnesHaveNothing
  <2>3. \A ch \in subscribers : IF Passed(p, ch) THEN UpToDateAt(ch) ELSE lastSent[ch] # lastHash
    BY <1>0, <1>5, OnlyOnePasses DEF Agree
  <2>4. \A ch : (\A q \in Publishers : q # p => Passed(q, ch)')
    BY <1>0, <1>5 DEF PublishStep, PublishLock, PublishVisit, PublishSend, PublishUnlock,
                      OneAtATime, Passed
  <2>5. SUFFICES \A ch \in subscribers' :
                   IF Passed(p, ch)' THEN UpToDateAt(ch)' ELSE (lastSent[ch] # lastHash)'
    BY <2>1, <2>2, <2>4 DEF Agree
  <2>6. CASE PublishLock(p)
    BY <2>3, <2>6 DEF PublishLock, Passed, UpToDateAt
  <2>7. ASSUME NEW c \in Channels, PublishVisit(p, c)
        PROVE  \A ch \in subscribers' :
                 IF Passed(p, ch)' THEN UpToDateAt(ch)' ELSE (lastSent[ch] # lastHash)'
    BY <2>3, <2>7 DEF PublishVisit, Passed, UpToDateAt
  <2>8. CASE PublishSend(p)
    <3>1. sendTo[p] \in subscribers /\ pc[p] = "sending" /\ data[p] = lastHash
      BY <1>0, <2>8 DEF PublishSend, OneAtATime
    <3>2. CASE Len(chan[sendTo[p]]) < ChanCap
      <4>1. /\ isNew' = [isNew EXCEPT ![sendTo[p]] = FALSE]
            /\ lastSent' = [lastSent EXCEPT ![sendTo[p]] = data[p]]
            /\ sendTo' = [sendTo EXCEPT ![p] = None]
            /\ UNCHANGED <<subscribers, closed, lastHash, pc, data, shouldSend, todo>>
        BY <2>8, <3>2 DEF PublishSend
      <4> QED
        BY <2>3, <3>1, <4>1 DEF Passed, UpToDateAt
    <3>3. CASE ~(Len(chan[sendTo[p]]) < ChanCap)
      <4>1. /\ lastSent' = [lastSent EXCEPT ![sendTo[p]] = Dropped]
            /\ sendTo' = [sendTo EXCEPT ![p] = None]
            /\ UNCHANGED <<subscribers, closed, isNew, lastHash, pc, data, shouldSend, todo>>
        BY <2>8, <3>3 DEF PublishSend
      <4> QED
        BY <2>3, <3>1, <4>1 DEF Passed, UpToDateAt
    <3> QED
      BY <3>2, <3>3
  <2>9. CASE PublishUnlock(p)
    BY <2>3, <2>9 DEF PublishUnlock, Passed, UpToDateAt
  <2> QED
    BY <1>5, <2>6, <2>7, <2>8, <2>9 DEF PublishStep
<1>6. CASE UNCHANGED vars
  BY <1>0, <1>6 DEF vars, OneAtATime, NewOnesHaveNothing, Agree, Passed, UpToDateAt
<1>7. ASSUME NEW p \in Publishers, PublishStep(p) PROVE pc[p] # "idle"
  BY <1>7 DEF PublishStep, PublishLock, PublishVisit, PublishSend, PublishUnlock
<1> QED
  BY <1>1, <1>2, <1>3, <1>4, <1>5, <1>6, <1>7 DEF Next

LEMMA SerialInvariance == Spec => []SerialInv
<1>1. Init => SerialInv
  BY DEF Init, SerialInv, OneAtATime, NewOnesHaveNothing, Agree, Passed
<1> QED
  BY <1>1, StepSerialInv, Invariance, PTL DEF Spec

\* As long as publications do not overlap, they leave every subscriber with the
\* data of the last hash, unless its channel was full.
THEOREM UpToDateHolds == Spec => []UpToDate
<1>1. SerialInv => UpToDate
  BY DEF SerialInv, OneAtATime, Agree, Passed, UpToDateAt, UpToDate
<1> QED
  BY <1>1, SerialInvariance, PTL

\* As long as publications do not overlap, no subscriber is sent the same data
\* twice in a row.
THEOREM NoRepeatHolds == Spec => NoRepeat
<1> USE BroadcasterAssumption
<1>1. IInv /\ SerialInv /\ [Next]_vars =>
        [serial => \A ch \in Channels :
           Len(chan'[ch]) > Len(chan[ch]) => lastSent'[ch] # lastSent[ch]]_vars
  <2> SUFFICES ASSUME IInv, SerialInv, Next, serial, NEW ch \in Channels,
                      Len(chan'[ch]) > Len(chan[ch])
               PROVE  lastSent'[ch] # lastSent[ch]
    BY DEF vars
  <2> USE DEF IInv, TypeOK
  <2>1. chan[ch] \in Seq(Data)
    OBVIOUS
  <2>2. ASSUME NEW c \in Channels, Subscribe(c) \/ Unsubscribe(c) \/ Receive(c)
        PROVE  FALSE
    <3>1. CASE Subscribe(c)
      BY <2>1, <3>1 DEF Subscribe
    <3>2. CASE Unsubscribe(c)
      BY <2>1, <3>2 DEF Unsubscribe
    <3>3. CASE Receive(c)
      BY <2>1, <3>3 DEF Receive
    <3> QED
      BY <2>2, <3>1, <3>2, <3>3
  <2>3. PICK p \in Publishers : PublishSend(p) /\ ch = sendTo[p]
    <3>1. PICK p \in Publishers : PublishStep(p) \/ \E d \in Data : PublishHash(p, d)
      BY <2>2 DEF Next
    <3>2. chan' # chan
      BY <2>1
    <3>3. PublishSend(p)
      BY <3>1, <3>2 DEF PublishStep, PublishHash, PublishLock, PublishVisit, PublishUnlock
    <3>4. ch = sendTo[p]
      BY <2>1, <3>3 DEF PublishSend
    <3> QED
      BY <3>3, <3>4
  <2>4. pc[p] = "sending" /\ ch \in subscribers /\ data[p] = lastHash /\ lastHash \in Data
    BY <2>3 DEF PublisherInv, SerialInv, OneAtATime
  <2>5. lastSent'[ch] = lastHash
    BY <2>1, <2>3, <2>4 DEF PublishSend
  <2>6. lastSent[ch] # lastHash
    <3>1. CASE shouldSend[p]
      <4>1. ~Passed(p, ch)
        BY <2>3, <3>1 DEF Passed
      <4> QED
        BY <2>4, <4>1 DEF SerialInv, Agree
    <3>2. CASE ~shouldSend[p]
      <4>1. isNew[ch]
        BY <2>3, <2>4, <3>2 DEF SerialInv, OneAtATime
      <4>2. lastSent[ch] \in {None, Dropped}
        BY <2>4, <4>1 DEF SerialInv, NewOnesHaveNothing
      <4> QED
        BY <2>4, <4>2
    <3> QED
      BY <3>1, <3>2
  <2> QED
    BY <2>5, <2>6
<1> QED
  BY <1>1, Invariance, SerialInvariance, PTL DEF Spec, NoRepeat

\* ---- The polling loop that publishes on a broadcaster, SsePolling: ----

\* What a Stop call has seen launched is past its launch.
LaunchedInv ==
  \A k \in Stoppers : \A b \in launched[k] : pollPc[b] \notin {"unstarted", "starting"}

\* A context in use is that of a start that was made: where the goroutine is
\* launched, there is a context.
PollingContextInv == \A b \in Broadcasters : pollPc[b] # "unstarted" => ctx # NoContext

\* A goroutine that has left its loop did so for a context that is done.
ExitInv == \A b \in Broadcasters : pollPc[b] = "exiting" => waitOn[b] \in cancelled

PollingIInv == PollingTypeOK /\ LaunchedInv /\ PollingContextInv /\ ExitInv /\ StopMeansFinished

LEMMA InitPollingIInv == PollingInit => PollingIInv
BY PollingAssumption
   DEF PollingInit, PollingIInv, PollingTypeOK, LaunchedInv, PollingContextInv, ExitInv,
       StopMeansFinished, PollPc

LEMMA StepPollingIInv == PollingIInv /\ [PollingNext]_pollingVars => PollingIInv'
<1> SUFFICES ASSUME PollingIInv, [PollingNext]_pollingVars PROVE PollingIInv'
  OBVIOUS
<1> USE PollingAssumption
    DEF PollingIInv, PollingTypeOK, LaunchedInv, PollingContextInv, ExitInv, StopMeansFinished,
        PollPc, PollGoto
<1>1. ASSUME NEW b \in Broadcasters, StartContext(b) PROVE PollingIInv'
  BY <1>1 DEF StartContext
<1>2. ASSUME NEW b \in Broadcasters, StartGo(b) PROVE PollingIInv'
  BY <1>2 DEF StartGo
<1>3. ASSUME NEW b \in Broadcasters, PollStep(b) PROVE PollingIInv'
  <2>1. CASE Fetch(b)
    BY <2>1 DEF Fetch
  <2>2. CASE PublishData(b)
    BY <2>2 DEF PublishData
  <2>3. CASE CheckStopCondition(b)
    BY <2>3 DEF CheckStopCondition
  <2>4. CASE EnterSelect(b)
    BY <2>4 DEF EnterSelect
  <2>5. CASE Tick(b)
    BY <2>5 DEF Tick
  <2>6. CASE SelectTick(b)
    BY <2>6 DEF SelectTick
  <2>7. CASE SelectDone(b)
    BY <2>7 DEF SelectDone
  <2>8. CASE Exit(b)
    BY <2>8 DEF Exit
  <2> QED
    BY <1>3, <2>1, <2>2, <2>3, <2>4, <2>5, <2>6, <2>7, <2>8 DEF PollStep
<1>4. ASSUME NEW k \in Stoppers, StopCancel(k) PROVE PollingIInv'
  BY <1>4 DEF StopCancel
<1>5. ASSUME NEW k \in Stoppers, StopReturn(k) PROVE PollingIInv'
  BY <1>5 DEF StopReturn, Running
<1>6. CASE UNCHANGED pollingVars
  BY <1>6 DEF pollingVars
<1> QED
  BY <1>1, <1>2, <1>3, <1>4, <1>5, <1>6 DEF PollingNext, Terminated

LEMMA PollingInvariance == PollingSpec => []PollingIInv
BY InitPollingIInv, StepPollingIInv, PTL DEF PollingSpec

\* Type correctness of the polling loop.
THEOREM PollingTypeCorrect == PollingSpec => []PollingTypeOK
<1>1. PollingIInv => PollingTypeOK
  BY DEF PollingIInv
<1> QED
  BY <1>1, PollingInvariance, PTL

\* After Stop has returned no goroutine launched before it polls or publishes.
THEOREM StopMeansFinishedHolds == PollingSpec => []StopMeansFinished
<1>1. PollingIInv => StopMeansFinished
  BY DEF PollingIInv
<1> QED
  BY <1>1, PollingInvariance, PTL

-----------------------------------------------------------------------------
\* Every step of the polling loop, of Start and of Stop is a step PollingService
\* allows or leaves its variables alone.
THEOREM ImplementsServiceSafety ==
  PollingSpec => Service!Init /\ [][Service!Next]_Service!pollingVars
<1>1. PollingInit => Service!Init
  BY DEF PollingInit, Service!Init, Running
<1>2. PollingIInv /\ [PollingNext]_pollingVars => [Service!Next]_Service!pollingVars
  <2> SUFFICES ASSUME PollingIInv, [PollingNext]_pollingVars
               PROVE  [Service!Next]_Service!pollingVars
    OBVIOUS
  <2> USE PollingAssumption DEF PollingIInv, PollingTypeOK, ExitInv, PollPc, PollGoto, Running
  <2>1. ASSUME NEW b \in Broadcasters, StartContext(b) PROVE Service!StartContext(b)
    BY <2>1 DEF StartContext, Service!StartContext
  <2>2. ASSUME NEW b \in Broadcasters, StartGo(b) PROVE Service!StartGo(b)
    BY <2>2 DEF StartGo, Service!StartGo
  <2>3. ASSUME NEW b \in Broadcasters,
               Fetch(b) \/ PublishData(b) \/ Tick(b) \/ SelectTick(b) \/ SelectDone(b)
        PROVE  UNCHANGED Service!pollingVars
    BY <2>3 DEF Fetch, PublishData, Tick, SelectTick, SelectDone, Service!pollingVars
  <2>4. ASSUME NEW b \in Broadcasters, CheckStopCondition(b)
        PROVE  Service!CancelItself(b) \/ UNCHANGED Service!pollingVars
    BY <2>4 DEF CheckStopCondition, Service!CancelItself, Service!pollingVars
  <2>5. ASSUME NEW b \in Broadcasters, EnterSelect(b)
        PROVE  Service!Look(b) \/ UNCHANGED Service!pollingVars
    BY <2>5 DEF EnterSelect, Service!Look, Service!pollingVars
  <2>6. ASSUME NEW b \in Broadcasters, Exit(b) PROVE Service!Finish(b)
    BY <2>6 DEF Exit, Service!Finish
  <2>7. ASSUME NEW k \in Stoppers, StopCancel(k) PROVE Service!StopCancel(k)
    BY <2>7 DEF StopCancel, Service!StopCancel
  <2>8. ASSUME NEW k \in Stoppers, StopReturn(k) PROVE Service!StopReturn(k)
    BY <2>8 DEF StopReturn, Service!StopReturn, Service!Running
  <2>9. CASE UNCHANGED pollingVars
    BY <2>9 DEF pollingVars, Service!pollingVars
  <2> QED
    BY <2>1, <2>2, <2>3, <2>4, <2>5, <2>6, <2>7, <2>8, <2>9
       DEF PollingNext, PollStep, Terminated, Service!Next, Service!PollStep
<1> QED
  BY <1>1, <1>2, PollingInvariance, PTL DEF PollingSpec

=============================================================================
