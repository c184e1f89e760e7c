------------------------- MODULE ReExecQueue_proofs -------------------------
(***************************************************************************)
(* Theorems about ReExecQueue, for any items and any queue limit.          *)
(***************************************************************************)
EXTENDS ReExecQueue, SequenceTheorems, TLAPS

\* Types hold initially and are preserved, and with them the limit of the queue.
LEMMA InitType == Init => TypeOK
<1> SUFFICES ASSUME Init PROVE TypeOK
  OBVIOUS
<1> USE QueueAssumption DEF QueueAssumption
<1>1. items \in Seq(Items) /\ Len(items) = 0
  BY DEF Init
<1>2. Len(items) <= queueLimit
  BY <1>1
<1> QED
  BY <1>1, <1>2 DEF Init, TypeOK

LEMMA StepType == TypeOK /\ [Next]_vars => TypeOK'
<1> SUFFICES ASSUME TypeOK, [Next]_vars PROVE TypeOK'
  OBVIOUS
<1> USE QueueAssumption DEF QueueAssumption, TypeOK, loopVars, Goto
<1>1. ASSUME NEW x \in Items, Enqueue(x) PROVE TypeOK'
  BY <1>1, AppendProperties DEF Enqueue
<1>2. CASE Dequeue
  BY <1>2, HeadTailProperties DEF Dequeue
<1>3. CASE Interval \/ Size \/ Fail \/ Exit \/ Cancel
  BY <1>3 DEF Interval, Size, Fail, Exit, Cancel
<1>4. CASE Peek
  BY <1>4, HeadTailProperties DEF Peek
<1>5. CASE Succeed
  BY <1>5 DEF Succeed
<1>6. CASE RemoveFirst
  BY <1>6, HeadTailProperties DEF RemoveFirst
<1>7. CASE UNCHANGED vars
  BY <1>7 DEF vars
<1> QED
  BY <1>1, <1>2, <1>3, <1>4, <1>5, <1>6, <1>7 DEF Next, LoopStep, Terminated

-----------------------------------------------------------------------------
(* While the loop is alone, which LoopInv is about.                        *)

\* The item the loop works with is the first one, so that what is removed is
\* what was executed.
WorksOnFirst ==
  loopPc \in {"executing", "removing"} => items # <<>> /\ item = Head(items)

\* The waiting items differ from each other, and none of them has been
\* executed, but for the first one just before it is removed.
DistinctInv ==
  /\ Queued \union executed \subseteq offered
  /\ \A i, j \in DOMAIN items : items[i] = items[j] => i = j
  /\ \A i \in DOMAIN items :
       items[i] \in executed <=> (i = 1 /\ loopPc = "removing")

\* Between sizing the queue and removing its first item, there is a first item.
NonEmptyInv == loopPc \in {"peeking", "executing", "removing"} => items # <<>>

LoopInv ==
  /\ NonEmptyInv /\ WorksOnFirst /\ DistinctInv
  /\ accepted \subseteq Queued \union executed /\ Zero \notin executed

\* The inductive invariant.
IInv == TypeOK /\ (LoopAlone => LoopInv)

\* What the first and the other elements of a sequence become when one is
\* removed or added.
LEMMA TailElements ==
  ASSUME NEW S, NEW s \in Seq(S), s # <<>>
  PROVE  /\ Head(s) = s[1] /\ 1 \in DOMAIN s
         /\ Tail(s) \in Seq(S)
         /\ DOMAIN Tail(s) = 1..(Len(s) - 1)
         /\ DOMAIN s = 1..Len(s) /\ Len(s) \in Nat \ {0}
         /\ \A i \in DOMAIN Tail(s) : Tail(s)[i] = s[i + 1]
BY HeadTailProperties, EmptySeq, LenProperties

LEMMA AppendElements ==
  ASSUME NEW S, NEW s \in Seq(S), NEW x \in S
  PROVE  /\ DOMAIN Append(s, x) = 1..(Len(s) + 1)
         /\ DOMAIN s = 1..Len(s) /\ Len(s) \in Nat
         /\ \A i \in DOMAIN s : Append(s, x)[i] = s[i]
         /\ Append(s, x)[Len(s) + 1] = x
         /\ Append(s, x) # <<>>
BY AppendProperties, LenProperties

\* Adding an item at the end leaves the first one first.
LEMMA EnqueueKeepsLoopInv ==
  ASSUME TypeOK, LoopInv, NEW x \in Items, Enqueue(x)
  PROVE  LoopInv'
<1> DEFINE longer == Append(items, x)
<1>1. CASE Len(items) >= queueLimit
  BY <1>1 DEF Enqueue, LoopInv, NonEmptyInv, WorksOnFirst, DistinctInv, Queued, loopVars
<1>2. CASE ~(Len(items) >= queueLimit)
  <2>1. items' = longer /\ accepted' = accepted \union {x} /\ offered' = offered \union {x}
        /\ UNCHANGED <<loopPc, item, executed, taken>> /\ x \notin offered
    BY <1>2 DEF Enqueue, loopVars
  <2>2. /\ DOMAIN longer = 1..(Len(items) + 1)
        /\ DOMAIN items = 1..Len(items) /\ Len(items) \in Nat
        /\ \A i \in DOMAIN items : longer[i] = items[i]
        /\ longer[Len(items) + 1] = x
        /\ longer # <<>> /\ longer \in Seq(Items)
    BY AppendElements, AppendProperties DEF TypeOK
  <2>3. \A i \in DOMAIN items : items[i] # x
    BY <2>1 DEF LoopInv, DistinctInv, Queued
  <2>4. x \notin executed
    BY <2>1 DEF LoopInv, DistinctInv
  <2>5. items # <<>> => Head(longer) = Head(items)
    BY AppendProperties, <2>2, EmptySeq, HeadTailProperties DEF TypeOK
  <2> HIDE DEF longer
  <2>6. Queued' = Queued \union {x}
    BY <2>1, <2>2 DEF Queued
  <2>7. NonEmptyInv' /\ WorksOnFirst'
    BY <2>1, <2>2, <2>5 DEF LoopInv, NonEmptyInv, WorksOnFirst
  <2>8. (Queued \union executed \subseteq offered)'
    BY <2>1, <2>6 DEF LoopInv, DistinctInv
  <2>9. (\A i, j \in DOMAIN items : items[i] = items[j] => i = j)'
    BY <2>1, <2>2, <2>3 DEF LoopInv, DistinctInv
  <2>10. (\A i \in DOMAIN items :
            items[i] \in executed <=> (i = 1 /\ loopPc = "removing"))'
    BY <2>1, <2>2, <2>4, EmptySeq DEF LoopInv, DistinctInv, WorksOnFirst
  <2>11. (accepted \subseteq Queued \union executed)' /\ (Zero \notin executed)'
    BY <2>1, <2>6 DEF LoopInv
  <2> QED
    BY <2>7, <2>8, <2>9, <2>10, <2>11 DEF LoopInv, DistinctInv
<1> QED
  BY <1>1, <1>2

\* The removed item is the one that was executed.
LEMMA RemoveKeepsLoopInv ==
  ASSUME TypeOK, LoopInv, RemoveFirst
  PROVE  LoopInv'
<1> DEFINE rest == Tail(items)
<1>1. loopPc = "removing" /\ loopPc' = "sizing" /\ items # <<>> /\ items' = rest
      /\ UNCHANGED <<item, offered, accepted, executed, taken>>
  BY DEF RemoveFirst, Goto, LoopInv, NonEmptyInv
<1>2. /\ DOMAIN rest = 1..(Len(items) - 1)
      /\ DOMAIN items = 1..Len(items) /\ Len(items) \in Nat \ {0}
      /\ \A i \in DOMAIN rest : rest[i] = items[i + 1]
      /\ 1 \in DOMAIN items
  BY <1>1, TailElements DEF TypeOK
<1> HIDE DEF rest
<1>3. items[1] \in executed
  BY <1>1, <1>2 DEF LoopInv, DistinctInv
<1>4. \A i \in DOMAIN items : i = 1 \/ (i - 1 \in DOMAIN rest /\ rest[i - 1] = items[i])
  BY <1>2
<1>5. Queued \subseteq Queued' \union executed /\ Queued' \subseteq Queued
  BY <1>1, <1>2, <1>3, <1>4 DEF Queued
<1>6. NonEmptyInv' /\ WorksOnFirst'
  BY <1>1 DEF NonEmptyInv, WorksOnFirst
<1>7. (Queued \union executed \subseteq offered)'
  BY <1>1, <1>5 DEF LoopInv, DistinctInv
<1>8. (\A i, j \in DOMAIN items : items[i] = items[j] => i = j)'
  BY <1>1, <1>2 DEF LoopInv, DistinctInv
<1>9. (\A i \in DOMAIN items :
         items[i] \in executed <=> (i = 1 /\ loopPc = "removing"))'
  BY <1>1, <1>2 DEF LoopInv, DistinctInv
<1>10. (accepted \subseteq Queued \union executed)' /\ (Zero \notin executed)'
  BY <1>1, <1>5 DEF LoopInv
<1> QED
  BY <1>6, <1>7, <1>8, <1>9, <1>10 DEF LoopInv, DistinctInv

\* Every step the loop is alone in, whoever enqueues, keeps LoopInv.
LEMMA StepLoopInv ==
  ASSUME TypeOK, LoopInv, [Next]_vars, LoopAlone'
  PROVE  LoopInv'
<1>1. ASSUME NEW x \in Items, Enqueue(x) PROVE LoopInv'
  BY <1>1, EnqueueKeepsLoopInv
<1>2. CASE RemoveFirst
  BY <1>2, RemoveKeepsLoopInv
<1>3. ASSUME UNCHANGED <<items, offered, accepted, executed>>,
             loopPc' \in {"waiting", "sizing", "exited"}, loopPc # "removing"
      PROVE  LoopInv'
  BY <1>3 DEF LoopInv, NonEmptyInv, WorksOnFirst, DistinctInv, Queued
<1>4. CASE Interval \/ Exit \/ Fail
  BY <1>3, <1>4 DEF Interval, Exit, Fail, Goto
<1>5. CASE Size
  BY <1>5 DEF Size, Goto, LoopInv, NonEmptyInv, WorksOnFirst, DistinctInv, Queued
<1>6. CASE Peek
  BY <1>6 DEF Peek, Goto, LoopInv, NonEmptyInv, WorksOnFirst, DistinctInv, Queued
<1>7. CASE Succeed
  <2>1. items # <<>> /\ item = items[1] /\ 1 \in DOMAIN items /\ items[1] \in Items
    BY <1>7, TailElements DEF Succeed, Goto, LoopInv, WorksOnFirst, TypeOK
  <2>2. \A i \in DOMAIN items : items[i] \in executed' <=> i = 1
    BY <1>7, <2>1 DEF Succeed, Goto, LoopInv, DistinctInv
  <2> QED
    BY <1>7, <2>1, <2>2, QueueAssumption
       DEF QueueAssumption, Succeed, Goto, LoopInv, NonEmptyInv, WorksOnFirst, DistinctInv, Queued
<1>8. CASE Dequeue
  BY <1>8 DEF Dequeue, LoopAlone
<1>9. CASE Cancel \/ UNCHANGED vars
  BY <1>9 DEF Cancel, vars, loopVars, LoopInv, NonEmptyInv, WorksOnFirst, DistinctInv, Queued
<1> QED
  BY <1>1, <1>2, <1>4, <1>5, <1>6, <1>7, <1>8, <1>9 DEF Next, LoopStep, Terminated

LEMMA InvariantHolds == Spec => []IInv
<1>1. Init => IInv
  BY QueueAssumption, InitType
     DEF QueueAssumption, Init, IInv, LoopInv, NonEmptyInv, WorksOnFirst, DistinctInv, Queued
<1>2. IInv /\ [Next]_vars => IInv'
  <2>1. [Next]_vars /\ LoopAlone' => LoopAlone
    BY DEF LoopAlone, Next, LoopStep, Enqueue, Dequeue, Interval, Exit, Size, Peek, Succeed,
           Fail, RemoveFirst, Cancel, Terminated, vars
  <2> QED
    BY <2>1, StepType, StepLoopInv DEF IInv
<1> QED
  BY <1>1, <1>2, PTL DEF Spec

\* Type correctness of the memory queue; the queue never exceeds its limit.
THEOREM TypeCorrect == Spec => []TypeOK
<1>1. IInv => TypeOK
  BY DEF IInv
<1> QED
  BY <1>1, InvariantHolds, PTL

\* No accepted item is lost before the retry function has returned true for
\* it, for any number of items and any limit, while the loop is alone.
THEOREM NothingLostHolds == Spec => []NothingLost
<1>1. IInv => NothingLost
  BY DEF IInv, LoopInv, NothingLost
<1> QED
  BY <1>1, InvariantHolds, PTL

\* No item is executed again after success, and the zero value never is, while
\* the loop is alone.
THEOREM NeverAgainHolds == Spec => []NeverAgain
<1>1. IInv => NeverAgain
  <2> SUFFICES ASSUME TypeOK, LoopInv PROVE /\ loopPc = "executing" => item \notin executed
                                            /\ Zero \notin executed
    BY DEF IInv, NeverAgain
  <2>1. loopPc = "executing" => 1 \in DOMAIN items /\ item = items[1]
    BY TailElements DEF LoopInv, WorksOnFirst, TypeOK
  <2> QED
    BY <2>1 DEF LoopInv, DistinctInv
<1> QED
  BY <1>1, InvariantHolds, PTL

\* The memory queue implements RetryQueue: each of its steps is a step of the
\* promise or leaves it alone.  (That accepted items get executed needs
\* fairness, and is checked by TLC.)
THEOREM ImplementsPromiseSafety ==
  Spec => Promise!Init /\ [][Promise!Next]_(Promise!queueVars)
<1>1. Init => Promise!Init
  BY DEF Init, Promise!Init, LoopAlone
<1>2. IInv /\ [Next]_vars => [Promise!Next]_(Promise!queueVars)
  <2> SUFFICES ASSUME IInv, [Next]_vars
               PROVE  [Promise!Next]_(Promise!queueVars)
    OBVIOUS
  <2>0. TypeOK
    BY DEF IInv
  <2>1. CASE ~LoopAlone'
    BY <2>1 DEF Promise!Next, Promise!Interfere
  <2>2. CASE LoopAlone'
    <3>1. LoopAlone
      BY <2>2 DEF LoopAlone, Next, LoopStep, Enqueue, Dequeue, Interval, Exit, Size, Peek,
                  Succeed, Fail, RemoveFirst, Cancel, Terminated, vars
    <3>2. LoopInv
      BY <3>1 DEF IInv
    <3> USE <2>0, <2>2, <3>1, <3>2 DEF Promise!queueVars, Promise!Promised, Goto
    <3>3. ASSUME NEW x \in Items, Enqueue(x) PROVE Promise!Offer(x)
      BY <3>3, QueueAssumption, LenProperties
         DEF QueueAssumption, Enqueue, Promise!Offer, loopVars, TypeOK
    <3>4. CASE Interval \/ Size \/ Peek \/ Fail
      BY <3>4 DEF Interval, Size, Peek, Fail
    <3>5. CASE Succeed
      <4>1. items # <<>> /\ item = Head(items)
        BY <3>5 DEF Succeed, LoopInv, WorksOnFirst
      <4>2. Head(items) = items[1] /\ 1 \in DOMAIN items
        BY <4>1, TailElements DEF TypeOK
      <4>3. Head(items) \notin executed
        BY <3>5, <4>2 DEF Succeed, LoopInv, DistinctInv
      <4> QED
        BY <3>5, <4>1, <4>3 DEF Succeed, Promise!Next, Promise!Execute
    <3>6. CASE RemoveFirst
      <4>1. items # <<>>
        BY <3>6 DEF RemoveFirst, LoopInv, NonEmptyInv
      <4>2. Head(items) = items[1] /\ 1 \in DOMAIN items
        BY <4>1, TailElements DEF TypeOK
      <4>3. Head(items) \in executed
        BY <3>6, <4>2 DEF RemoveFirst, LoopInv, DistinctInv
      <4> QED
        BY <3>6, <4>1, <4>3 DEF RemoveFirst, Promise!Next, Promise!Remove
    <3>7. CASE Exit
      BY <3>7 DEF Exit, LoopInv, DistinctInv, Promise!Next, Promise!Stop
    <3>8. CASE Cancel \/ UNCHANGED vars
      BY <3>8 DEF Cancel, vars, loopVars
    <3>9. ~Dequeue
      BY DEF Dequeue, LoopAlone
    <3> QED
      BY <3>3, <3>4, <3>5, <3>6, <3>7, <3>8, <3>9
         DEF Next, LoopStep, Terminated, Promise!Next
  <2> QED
    BY <2>1, <2>2
<1> QED
  BY <1>1, <1>2, InvariantHolds, PTL DEF Spec

=============================================================================
