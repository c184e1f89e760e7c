---------------------------- MODULE ReExecQueue ----------------------------
(***************************************************************************)
(* The memory queue of pkg/re_exec/queue.go: callers enqueue items, and    *)
(* the loop NewMemoryQueue starts calls the retry function on the first of *)
(* them at every interval, until it fails or the queue is empty.           *)
(*                                                                         *)
(* Every method locks the queue for its own duration only, so the size,    *)
(* the peek, the call of the retry function and the removal of one round   *)
(* are separate steps.  The common.Queue the caller gets has Dequeue as    *)
(* well, and anybody may call it.                                          *)
(***************************************************************************)
EXTENDS Naturals, Sequences

CONSTANTS
  Items,       \* what is enqueued, each at most once
  queueLimit,  \* QueueLimit, or DefaultMaxQueueLimit for 0
  Zero         \* the zero value of an item

ASSUME QueueAssumption == queueLimit \in Nat \ {0} /\ Zero \notin Items

VARIABLES
  items,     \* q.items
  ctxDone,   \* q.ctx is done
  loopPc,    \* where reExecLoop is
  item,      \* what it peeked at
  offered,   \* history: the items Enqueue has been called with
  accepted,  \* history: the items Enqueue has accepted
  executed,  \* history: the items the retry function returned true for
  taken      \* history: the items removed by outside callers of Dequeue

vars == <<items, ctxDone, loopPc, item, offered, accepted, executed, taken>>

loopVars == <<loopPc, item, executed>>

Goto(from, to) == loopPc = from /\ loopPc' = to

\* NewMemoryQueue, which starts the loop.
Init ==
  /\ items = <<>>
  /\ ctxDone = FALSE
  /\ loopPc = "waiting"
  /\ item = Zero
  /\ offered = {}
  /\ accepted = {}
  /\ executed = {}
  /\ taken = {}

\* Enqueue: the item is appended, or dropped with KindLimitExceeded.
Enqueue(x) ==
  /\ x \notin offered
  /\ offered' = offered \union {x}
  /\ IF Len(items) >= queueLimit
     THEN UNCHANGED <<items, accepted>>
     ELSE items' = Append(items, x) /\ accepted' = accepted \union {x}
  /\ UNCHANGED <<loopVars, ctxDone, taken>>

\* Dequeue, called from outside the loop.
Dequeue ==
  /\ items # <<>>
  /\ items' = Tail(items)
  /\ taken' = taken \union {Head(items)}
  /\ UNCHANGED <<loopVars, ctxDone, offered, accepted>>

\* time.After fires.
Interval ==
  /\ Goto("waiting", "sizing")
  /\ UNCHANGED <<items, ctxDone, item, offered, accepted, executed, taken>>

\* The loop is seen to end by the select only, not while a round goes on.
Exit ==
  /\ ctxDone
  /\ Goto("waiting", "exited")
  /\ UNCHANGED <<items, ctxDone, item, offered, accepted, executed, taken>>

\* for q.Size() != 0
Size ==
  /\ Goto("sizing", IF items = <<>> THEN "waiting" ELSE "peeking")
  /\ UNCHANGED <<items, ctxDone, item, offered, accepted, executed, taken>>

\* Faulty variant: the item peeked at is the newest one.
PeekLast ==
  /\ Goto("peeking", "executing")
  /\ item' = IF items = <<>> THEN Zero ELSE items[Len(items)]
  /\ UNCHANGED <<items, ctxDone, offered, accepted, executed, taken>>

\* Peek returns the first item, or the zero value.
Peek ==
  /\ Goto("peeking", "executing")
  /\ item' = IF items = <<>> THEN Zero ELSE Head(items)
  /\ UNCHANGED <<items, ctxDone, offered, accepted, executed, taken>>

\* The retry function returns true.
Succeed ==
  /\ Goto("executing", "removing")
  /\ executed' = executed \union {item}
  /\ UNCHANGED <<items, ctxDone, item, offered, accepted, taken>>

\* Faulty variant: a failed item is removed too.
FailAndRemove ==
  /\ Goto("executing", "removing")
  /\ UNCHANGED <<items, ctxDone, item, offered, accepted, executed, taken>>

\* It returns false, which ends the round.
Fail ==
  /\ Goto("executing", "waiting")
  /\ UNCHANGED <<items, ctxDone, item, offered, accepted, executed, taken>>

\* Faulty variant: the item stays after success.
RemoveNothing ==
  /\ Goto("removing", "sizing")
  /\ UNCHANGED <<items, ctxDone, item, offered, accepted, executed, taken>>

\* q.Dequeue() in the loop: the first item of now is removed, if there is one.
RemoveFirst ==
  /\ Goto("removing", "sizing")
  /\ items' = IF items = <<>> THEN items ELSE Tail(items)
  /\ UNCHANGED <<ctxDone, item, offered, accepted, executed, taken>>

\* The context given to NewMemoryQueue is cancelled.
Cancel ==
  /\ ~ctxDone
  /\ ctxDone' = TRUE
  /\ UNCHANGED <<loopVars, items, offered, accepted, taken>>

\* Nothing is left to do once the loop has ended and everything was offered.
Terminated == loopPc = "exited" /\ offered = Items /\ UNCHANGED vars

LoopStep == Interval \/ Size \/ Peek \/ Succeed \/ Fail \/ RemoveFirst

Next ==
  \/ \E x \in Items : Enqueue(x)
  \/ Dequeue
  \/ LoopStep \/ Exit
  \/ Cancel
  \/ Terminated

\* The loop runs on and the retry function, tried again and again, succeeds in
\* the end: that is what the queue is for, and not up to its code.
Fairness == WF_vars(LoopStep) /\ SF_vars(Succeed)

Spec == Init /\ [][Next]_vars /\ Fairness

-----------------------------------------------------------------------------
Queued == {items[i] : i \in DOMAIN items}

TypeOK ==
  /\ items \in Seq(Items) /\ Len(items) <= queueLimit
  /\ ctxDone \in BOOLEAN
  /\ loopPc \in {"waiting", "sizing", "peeking", "executing", "removing", "exited"}
  /\ item \in Items \union {Zero}
  /\ offered \subseteq Items
  /\ accepted \subseteq offered
  /\ executed \subseteq Items \union {Zero}
  /\ taken \subseteq Items

\* The loop alone removes the items: nobody else has dequeued one.
LoopAlone == taken = {}

\* "Enqueue method that adds a new item to the queue": while the loop is alone,
\* what was accepted stays until the retry function has returned true for it.
NothingLost == LoopAlone => accepted \subseteq Queued \union executed

\* While the loop is alone, an item is not executed again after success, and no
\* zero value ever is, however many are added while the retry function runs.
NeverAgain ==
  LoopAlone => /\ loopPc = "executing" => item \notin executed
               /\ Zero \notin executed

\* An accepted item does not stay forever in a queue whose loop goes on, even
\* when others dequeue between its steps.
EveryItemLeaves ==
  \A x \in Items : x \in Queued ~> x \notin Queued \/ loopPc = "exited"

\* The memory queue implements RetryQueue, liveness included.
Promise == INSTANCE RetryQueue WITH
  pending <- items, stopped <- loopPc = "exited", shared <- ~LoopAlone

KeepsPromise == Promise!Spec

=============================================================================
