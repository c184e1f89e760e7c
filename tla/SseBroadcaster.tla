--------------------------- MODULE SseBroadcaster ---------------------------
(***************************************************************************)
(* One Broadcaster of pkg/sse: any number of goroutines call Publish on it *)
(* (the polling goroutine, and user code that got the broadcaster from the *)
(* manager) while request handlers subscribe, drain their channel and      *)
(* unsubscribe.                                                            *)
(*                                                                         *)
(* Publish is split at the points where another goroutine can run: the     *)
(* hash is compared and swapped before the read lock is taken, and under   *)
(* the read lock, which several publishers hold at once, each subscriber   *)
(* is first looked at and then sent to.  Subscribe and Unsubscribe hold    *)
(* the write lock throughout and are one step each.                        *)
(*                                                                         *)
(* A subscriber is its channel; each Subscribe call makes a new one.  A    *)
(* message is a member of Data, two messages have the same hash exactly    *)
(* when they are equal, and json.Marshal fails on the Unmarshalable ones.  *)
(* The goroutine Unsubscribe starts when the last subscriber leaves acts   *)
(* on the polling service and on the manager only: see SseManager.         *)
(***************************************************************************)
EXTENDS Naturals, Sequences

CONSTANTS
  Publishers,     \* goroutines that call Publish
  Channels,       \* the channels Subscribe makes, one per call
  Data,           \* what is published
  Unmarshalable,  \* the data json.Marshal returns an error for
  ChanCap,        \* capacity of a subscriber channel (64 in the code)
  None,           \* the empty lastHash, and "no value"
  Dropped         \* stands in lastSent for a message a full channel dropped

ASSUME BroadcasterAssumption ==
  /\ ChanCap \in Nat \ {0}
  /\ Unmarshalable \subseteq Data
  /\ None \notin Data \union Channels
  /\ Dropped \notin Data \union {None}

VARIABLES
  subscribers,  \* channels in b.subscribers
  closed,       \* channels that have been closed
  isNew,        \* Subscriber.isNew of each channel
  chan,         \* messages buffered in each channel
  lastHash,     \* b.lastHash
  pc,           \* where each publisher is: "idle", "hashed" or "sending"
  data,         \* argument of the Publish call in progress
  shouldSend,   \* its local shouldSend
  todo,         \* subscribers its loop has still to visit
  sendTo,       \* the subscriber it has decided to send to, or None
  lastSent,     \* history: last message sent to a channel, or Dropped
  serial        \* history: publications have not overlapped, and all their
                \* data could be marshalled

vars == <<subscribers, closed, isNew, chan, lastHash, pc, data, shouldSend,
          todo, sendTo, lastSent, serial>>

publisherVars  == <<pc, data, shouldSend, todo, sendTo, serial>>
subscriberVars == <<subscribers, closed, isNew>>

-----------------------------------------------------------------------------
\* What the lock b.mu lets in: a writer needs every reader out.
NoReader == \A p \in Publishers : pc[p] # "sending"

\* NewBroadcaster.
Init ==
  /\ subscribers = {}
  /\ closed = {}
  /\ isNew = [ch \in Channels |-> FALSE]
  /\ chan = [ch \in Channels |-> <<>>]
  /\ lastHash = None
  /\ pc = [p \in Publishers |-> "idle"]
  /\ data = [p \in Publishers |-> None]
  /\ shouldSend = [p \in Publishers |-> FALSE]
  /\ todo = [p \in Publishers |-> {}]
  /\ sendTo = [p \in Publishers |-> None]
  /\ lastSent = [ch \in Channels |-> None]
  /\ serial = TRUE

\* Subscribe: a new channel is registered as a new subscriber.
Subscribe(ch) ==
  /\ ch \notin subscribers \union closed
  /\ NoReader
  /\ subscribers' = subscribers \union {ch}
  /\ isNew' = [isNew EXCEPT ![ch] = TRUE]
  /\ UNCHANGED <<closed, chan, lastHash, lastSent, publisherVars>>

\* Faulty variant: the write lock is not taken.
UnsubscribeUnlocked(ch) ==
  /\ ch \in subscribers
  /\ subscribers' = subscribers \ {ch}
  /\ closed' = closed \union {ch}
  /\ chan' = [chan EXCEPT ![ch] = <<>>]
  /\ UNCHANGED <<isNew, lastHash, lastSent, publisherVars>>

\* Unsubscribe: the entry is deleted and the channel closed; what is buffered
\* in it is no longer read, since the handler's loop has ended.
Unsubscribe(ch) ==
  /\ ch \in subscribers
  /\ NoReader
  /\ subscribers' = subscribers \ {ch}
  /\ closed' = closed \union {ch}
  /\ chan' = [chan EXCEPT ![ch] = <<>>]
  /\ UNCHANGED <<isNew, lastHash, lastSent, publisherVars>>

\* The handler's loop takes one message off its channel.
Receive(ch) ==
  /\ ch \in subscribers
  /\ chan[ch] # <<>>
  /\ chan' = [chan EXCEPT ![ch] = Tail(@)]
  /\ UNCHANGED <<subscriberVars, lastHash, lastSent, publisherVars>>

\* shouldSendUpdate: an error of json.Marshal means no update; otherwise the
\* hash is compared with the last one and, if different, stored.
shouldSendUpdate(d) == d \notin Unmarshalable /\ lastHash # d

\* Publish(d) begins: the hash is compared and swapped before the lock.
PublishHash(p, d) ==
  /\ pc[p] = "idle"
  /\ pc' = [pc EXCEPT ![p] = "hashed"]
  /\ data' = [data EXCEPT ![p] = d]
  /\ shouldSend' = [shouldSend EXCEPT ![p] = shouldSendUpdate(d)]
  /\ lastHash' = IF shouldSendUpdate(d) THEN d ELSE lastHash
  /\ serial' = (serial /\ d \notin Unmarshalable /\ \A q \in Publishers : pc[q] = "idle")
  /\ UNCHANGED <<subscriberVars, chan, todo, sendTo, lastSent>>

\* Publish takes the read lock and starts ranging over the subscribers.
PublishLock(p) ==
  /\ pc[p] = "hashed"
  /\ pc' = [pc EXCEPT ![p] = "sending"]
  /\ todo' = [todo EXCEPT ![p] = subscribers]
  /\ UNCHANGED <<subscriberVars, chan, lastHash, data, shouldSend, sendTo,
                 lastSent, serial>>

\* Faulty variants: only a changed message is sent; only a new subscriber is
\* sent to.
PublishVisitIgnoringNew(p, ch) ==
  /\ pc[p] = "sending"
  /\ sendTo[p] = None
  /\ ch \in todo[p]
  /\ todo' = [todo EXCEPT ![p] = @ \ {ch}]
  /\ sendTo' = [sendTo EXCEPT ![p] = IF shouldSend[p] THEN ch ELSE None]
  /\ UNCHANGED <<subscriberVars, chan, lastHash, pc, data, shouldSend, lastSent, serial>>

PublishVisitOnlyNew(p, ch) ==
  /\ pc[p] = "sending"
  /\ sendTo[p] = None
  /\ ch \in todo[p]
  /\ todo' = [todo EXCEPT ![p] = @ \ {ch}]
  /\ sendTo' = [sendTo EXCEPT ![p] = IF isNew[ch] THEN ch ELSE None]
  /\ UNCHANGED <<subscriberVars, chan, lastHash, pc, data, shouldSend, lastSent, serial>>

\* Publish looks at one subscriber, in the order the map yields them.
PublishVisit(p, ch) ==
  /\ pc[p] = "sending"
  /\ sendTo[p] = None
  /\ ch \in todo[p]
  /\ todo' = [todo EXCEPT ![p] = @ \ {ch}]
  /\ sendTo' = [sendTo EXCEPT ![p] =
                  IF isNew[ch] \/ shouldSend[p] THEN ch ELSE None]
  /\ UNCHANGED <<subscriberVars, chan, lastHash, pc, data, shouldSend, lastSent, serial>>

\* Faulty variants: a full channel blocks the publisher; isNew is never reset.
PublishSendBlocking(p) ==
  LET ch == sendTo[p] IN
  /\ ch # None
  /\ Len(chan[ch]) < ChanCap
  /\ chan' = [chan EXCEPT ![ch] = Append(@, data[p])]
  /\ isNew' = [isNew EXCEPT ![ch] = FALSE]
  /\ lastSent' = [lastSent EXCEPT ![ch] = data[p]]
  /\ sendTo' = [sendTo EXCEPT ![p] = None]
  /\ UNCHANGED <<subscribers, closed, lastHash, pc, data, shouldSend, todo, serial>>

PublishSendStaysNew(p) ==
  LET ch == sendTo[p] IN
  /\ ch # None
  /\ IF Len(chan[ch]) < ChanCap
     THEN /\ chan' = [chan EXCEPT ![ch] = Append(@, data[p])]
          /\ lastSent' = [lastSent EXCEPT ![ch] = data[p]]
     ELSE lastSent' = [lastSent EXCEPT ![ch] = Dropped] /\ UNCHANGED chan
  /\ sendTo' = [sendTo EXCEPT ![p] = None]
  /\ UNCHANGED <<subscriberVars, lastHash, pc, data, shouldSend, todo, serial>>

\* Publish sends to it; a full channel drops the message.
PublishSend(p) ==
  LET ch == sendTo[p] IN
  /\ ch # None
  /\ IF Len(chan[ch]) < ChanCap
     THEN /\ chan' = [chan EXCEPT ![ch] = Append(@, data[p])]
          /\ isNew' = [isNew EXCEPT ![ch] = FALSE]
          /\ lastSent' = [lastSent EXCEPT ![ch] = data[p]]
     ELSE /\ lastSent' = [lastSent EXCEPT ![ch] = Dropped]
          /\ UNCHANGED <<chan, isNew>>
  /\ sendTo' = [sendTo EXCEPT ![p] = None]
  /\ UNCHANGED <<subscribers, closed, lastHash, pc, data, shouldSend, todo, serial>>

\* Publish has ranged over all subscribers and releases the lock.
PublishUnlock(p) ==
  /\ pc[p] = "sending"
  /\ sendTo[p] = None
  /\ todo[p] = {}
  /\ pc' = [pc EXCEPT ![p] = "idle"]
  /\ data' = [data EXCEPT ![p] = None]
  /\ shouldSend' = [shouldSend EXCEPT ![p] = FALSE]
  /\ UNCHANGED <<subscriberVars, chan, lastHash, todo, sendTo, lastSent, serial>>

PublishStep(p) ==
  \/ PublishLock(p)
  \/ \E ch \in Channels : PublishVisit(p, ch)
  \/ PublishSend(p)
  \/ PublishUnlock(p)

Next ==
  \/ \E ch \in Channels : Subscribe(ch) \/ Unsubscribe(ch) \/ Receive(ch)
  \/ \E p \in Publishers : PublishStep(p) \/ \E d \in Data : PublishHash(p, d)

\* A Publish call that has begun keeps running.  Nothing is assumed of the
\* subscribers: a client may stop reading, and may stay or leave.
Fairness == \A p \in Publishers : WF_vars(PublishStep(p))

Spec == Init /\ [][Next]_vars /\ Fairness

-----------------------------------------------------------------------------
TypeOK ==
  /\ subscribers \subseteq Channels
  /\ closed \subseteq Channels
  /\ isNew \in [Channels -> BOOLEAN]
  /\ chan \in [Channels -> Seq(Data)]
  /\ lastHash \in Data \union {None}
  /\ pc \in [Publishers -> {"idle", "hashed", "sending"}]
  /\ data \in [Publishers -> Data \union {None}]
  /\ shouldSend \in [Publishers -> BOOLEAN]
  /\ todo \in [Publishers -> SUBSET Channels]
  /\ sendTo \in [Publishers -> Channels \union {None}]
  /\ lastSent \in [Channels -> Data \union {None, Dropped}]
  /\ serial \in BOOLEAN

\* The registered channels are the open ones: a handler that leaves closes a
\* channel no publisher is about to send to, although publishers decide to
\* send and send in two steps.  A send on a closed channel would panic.
NoSendOnClosed ==
  /\ subscribers \intersect closed = {}
  /\ \A p \in Publishers : sendTo[p] # None => sendTo[p] \notin closed

\* A subscriber registered when Publish takes the lock has received its first
\* message by the time the loop has passed it, whether the data changed or not
\* and however slow it is: the channel of a new subscriber cannot be full.
FirstMessageGuaranteed ==
  \A p \in Publishers : pc[p] = "sending" =>
    \A ch \in subscribers \ (todo[p] \union {sendTo[p]}) : ~isNew[ch]

\* As long as publications do not overlap, whoever makes them: once they have
\* returned, a subscriber that is no longer new has been sent the data the last
\* hash stands for, unless its channel was full then.  Publications of equal
\* data are suppressed from then on, so nothing else would repair it.
UpToDate ==
  serial /\ (\A p \in Publishers : pc[p] = "idle") =>
    \A ch \in subscribers : isNew[ch] \/ lastSent[ch] \in {lastHash, Dropped}

\* "Only send data to subscribers that are new or if the data has changed": as
\* long as publications do not overlap, a subscriber never gets the same data
\* twice in a row.
NoRepeat ==
  [][serial => \A ch \in Channels :
       Len(chan'[ch]) > Len(chan[ch]) => lastSent'[ch] # lastSent[ch]]_vars

\* Publish always returns, even if no subscriber ever reads its channel.
PublishReturns == \A p \in Publishers : pc[p] # "idle" ~> pc[p] = "idle"

-----------------------------------------------------------------------------
(* The inductive invariant behind the safety properties above.             *)

\* What a publisher's locals stand for while it is between two steps: what it
\* has still to visit or send to is registered as long as it holds the lock.
PublisherInv ==
  \A p \in Publishers :
    /\ pc[p] # "idle" => data[p] \in Data
    /\ pc[p] # "sending" => todo[p] = {} /\ sendTo[p] = None
    /\ todo[p] \subseteq subscribers
    /\ sendTo[p] \in subscribers \union {None}
    /\ sendTo[p] \notin todo[p]

\* A channel that is not registered, and one whose subscriber is new, is empty.
ChannelInv ==
  /\ subscribers \intersect closed = {}
  /\ \A ch \in Channels : ch \notin subscribers \/ isNew[ch] => chan[ch] = <<>>

IInv ==
  TypeOK /\ PublisherInv /\ ChannelInv /\ FirstMessageGuaranteed

=============================================================================
