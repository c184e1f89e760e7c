----------------------------- MODULE RetryQueue -----------------------------
(***************************************************************************)
(* What the memory queue of pkg/re_exec promises whoever enqueues an item: *)
(* an accepted item waits, in order, until the retry function has returned *)
(* true for it, and is then removed; as long as the queue is not stopped   *)
(* every accepted item gets there.  The queue has a Dequeue method as well *)
(* that others may call; the promise ends when they do.                    *)
(***************************************************************************)
EXTENDS Naturals, Sequences

CONSTANTS
  Items,      \* what is enqueued, each at most once
  queueLimit  \* how many items may wait

VARIABLES
  pending,   \* the accepted items that wait
  offered,   \* the items Enqueue has been called with
  executed,  \* the items the retry function has returned true for
  stopped,   \* the retry loop has ended
  shared     \* somebody else has removed an item

queueVars == <<pending, offered, executed, stopped, shared>>

\* The loop is at work on the queue, and is the only one.
Promised == ~stopped /\ ~shared

Init ==
  /\ pending = <<>>
  /\ offered = {}
  /\ executed = {}
  /\ stopped = FALSE
  /\ shared = FALSE

\* Enqueue succeeds while there is room, and fails with KindLimitExceeded.
Offer(x) ==
  /\ x \notin offered
  /\ offered' = offered \union {x}
  /\ pending' = IF Len(pending) < queueLimit THEN Append(pending, x) ELSE pending
  /\ UNCHANGED <<executed, stopped, shared>>

\* The first item is executed with success, for the first time.
Execute ==
  /\ Promised
  /\ pending # <<>>
  /\ Head(pending) \notin executed
  /\ executed' = executed \union {Head(pending)}
  /\ UNCHANGED <<pending, offered, stopped, shared>>

\* Only an executed item is removed.
Remove ==
  /\ Promised
  /\ pending # <<>>
  /\ Head(pending) \in executed
  /\ pending' = Tail(pending)
  /\ UNCHANGED <<offered, executed, stopped, shared>>

\* The loop does not end between executing an item and removing it.
Stop ==
  /\ Promised
  /\ \A i \in DOMAIN pending : pending[i] \notin executed
  /\ stopped' = TRUE
  /\ UNCHANGED <<pending, offered, executed, shared>>

\* Somebody else removes an item, after which nothing is promised.
Interfere == shared' = TRUE

Next == (\E x \in Items : Offer(x)) \/ Execute \/ Remove \/ Stop \/ Interfere

Fairness == WF_queueVars(Execute) /\ WF_queueVars(Remove)

Spec == Init /\ [][Next]_queueVars /\ Fairness

=============================================================================
