------------------------- MODULE DiContainer_proofs -------------------------
(***************************************************************************)
(* Theorems about DiContainer, for any getters, updaters, services and     *)
(* dependencies without a cycle: although get holds the read lock only and *)
(* writes back the entry it read earlier, no registration is lost, and     *)
(* what is handed out was made by the registered constructor.  And, as     *)
(* there are finitely many getters and services, the bounds of the types:  *)
(* how often a service is constructed, and how deep the calls of get nest. *)
(***************************************************************************)
EXTENDS DiContainer, SequenceTheorems, FiniteSetTheorems, TLAPS

AnyInstance == [version : Nat, nth : Nat]

AnyCall == [service : Services, phase : {"lookup", "constructing", "storing"},
            version : Nat, asks : SUBSET Services, made : AnyInstance \union {Nil}]

TypeInv ==
  /\ constructor \in [Services -> Nat] /\ registered \in [Services -> Nat]
  /\ built \in [Services -> Nat]
  /\ instance \in [Services -> AnyInstance \union {Nil}]
  /\ handedOut \in [Services -> SUBSET AnyInstance]
  /\ stack \in [Getters -> Seq(AnyCall)]

\* What a constructor returns: an instance of its own, or nil if it may.
MadeBy(call) ==
  \/ call.made \in AnyInstance /\ call.made.version = call.version
  \/ call.made = Nil /\ <<call.service, call.version>> \in NilMakers

\* A call that has read a constructor holds the read lock, and the constructor
\* is still in the map; what it has made is that constructor's.
CallInv ==
  \A g \in Getters : \A i \in DOMAIN stack[g] :
    LET call == stack[g][i] IN
      call.phase # "lookup" =>
        /\ g \in readers
        /\ call.version = constructor[call.service]
        /\ call.phase = "storing" => MadeBy(call)

InstanceInv ==
  \A s \in Services : instance[s] # Nil => instance[s].version = constructor[s]

\* The inductive invariant of the safety properties.
IInv == TypeInv /\ CallInv /\ InstanceInv /\ NoLostUpdate /\ MadeByRegistered

\* The innermost call of a Get that is under way.
LEMMA TopCall ==
  ASSUME TypeInv, NEW g \in Getters, stack[g] # <<>>
  PROVE  /\ Len(stack[g]) \in DOMAIN stack[g] /\ Len(stack[g]) \in Nat \ {0}
         /\ DOMAIN stack[g] = 1..Len(stack[g])
         /\ Top(g) = stack[g][Len(stack[g])]
         /\ Top(g) \in AnyCall /\ stack[g] \in Seq(AnyCall)
BY EmptySeq, LenProperties, ElementOfSeq DEF TypeInv, Top

\* What replacing, adding and removing a call does to the stacks.
LEMMA SetTopEffect ==
  ASSUME TypeInv, NEW g \in Getters, stack[g] # <<>>, NEW call \in AnyCall, SetTop(g, call)
  PROVE  /\ stack' \in [Getters -> Seq(AnyCall)]
         /\ \A h \in Getters \ {g} : stack'[h] = stack[h]
         /\ DOMAIN stack'[g] = DOMAIN stack[g]
         /\ \A i \in DOMAIN stack[g] :
              stack'[g][i] = IF i = Len(stack[g]) THEN call ELSE stack[g][i]
<1>1. stack'[g] = [stack[g] EXCEPT ![Len(stack[g])] = call]
  BY DEF SetTop, TypeInv
<1>2. [stack[g] EXCEPT ![Len(stack[g])] = call] \in Seq(AnyCall)
  BY TopCall, ExceptSeq
<1> QED
  BY <1>1, <1>2, TopCall DEF SetTop, TypeInv

LEMMA AskEffect ==
  ASSUME TypeInv, NEW g \in Getters, NEW d \in Services, Ask(g, d)
  PROVE  /\ stack' \in [Getters -> Seq(AnyCall)]
         /\ \A h \in Getters \ {g} : stack'[h] = stack[h]
         /\ \A i \in DOMAIN stack'[g] :
              \/ stack'[g][i].phase = "lookup"
              \/ /\ i \in DOMAIN stack[g] /\ stack'[g][i].phase = stack[g][i].phase
                 /\ stack'[g][i].service = stack[g][i].service
                 /\ stack'[g][i].version = stack[g][i].version
                 /\ stack'[g][i].made = stack[g][i].made
         /\ DOMAIN stack'[g] = 1..(Len(stack[g]) + 1)
         /\ stack'[g][Len(stack[g]) + 1] = Call(d)
         /\ \A i \in DOMAIN stack[g] :
              /\ i \in DOMAIN stack'[g]
              /\ \/ stack'[g][i] = stack[g][i]
                 \/ stack'[g][i] = [stack[g][i] EXCEPT !.asks = stack[g][i].asks \ {d}]
<1> DEFINE n == Len(stack[g])
           asked == [stack[g][n] EXCEPT !.asks = stack[g][n].asks \ {d}]
           below == [stack[g] EXCEPT ![n] = asked]
<1>1. stack[g] # <<>>
  BY DEF Ask, At
<1>2. n \in Nat \ {0} /\ DOMAIN stack[g] = 1..n /\ stack[g] \in Seq(AnyCall)
      /\ stack[g][n] \in AnyCall /\ n \in DOMAIN stack[g]
  BY <1>1, TopCall
<1>3. /\ asked \in AnyCall /\ asked.phase = stack[g][n].phase
      /\ asked.service = stack[g][n].service
      /\ asked.version = stack[g][n].version /\ asked.made = stack[g][n].made
  BY <1>2 DEF AnyCall
<1>4. Call(d) \in AnyCall /\ Call(d).phase = "lookup"
  BY DEF Call, AnyCall
<1>5. stack' = [stack EXCEPT ![g] = Append(below, Call(d))]
  BY <1>2 DEF Ask, TopAsked, Top, TypeInv
<1> HIDE DEF asked
<1>6. below \in Seq(AnyCall) /\ Len(below) = n /\ DOMAIN below = 1..n
      /\ \A i \in 1..n : below[i] = IF i = n THEN asked ELSE stack[g][i]
  BY <1>2, <1>3, ExceptSeq
<1> HIDE DEF below
<1>7. /\ Append(below, Call(d)) \in Seq(AnyCall)
      /\ DOMAIN Append(below, Call(d)) = 1..(n + 1)
      /\ \A i \in 1..n : Append(below, Call(d))[i] = below[i]
      /\ Append(below, Call(d))[n + 1] = Call(d)
  BY <1>2, <1>4, <1>6, AppendProperties, LenProperties
<1>8. stack'[g] = Append(below, Call(d))
  BY <1>5 DEF TypeInv
<1>9. \A i \in 1..(n + 1) : i = n + 1 \/ i \in 1..n
  BY <1>2
<1>10. asked = [stack[g][n] EXCEPT !.asks = stack[g][n].asks \ {d}]
  BY DEF asked
<1> HIDE DEF n
<1>11. stack' \in [Getters -> Seq(AnyCall)] /\ \A h \in Getters \ {g} : stack'[h] = stack[h]
  BY <1>5, <1>7 DEF TypeInv
<1>12. /\ DOMAIN stack'[g] = 1..(n + 1) /\ stack'[g][n + 1] = Call(d)
       /\ \A i \in 1..n : stack'[g][i] = IF i = n THEN asked ELSE stack[g][i]
  BY <1>6, <1>7, <1>8
<1>13. \A i \in 1..n : i \in 1..(n + 1)
  BY <1>2
<1>14. \A i \in DOMAIN stack[g] :
         /\ i \in DOMAIN stack'[g]
         /\ \/ stack'[g][i] = stack[g][i]
            \/ stack'[g][i] = [stack[g][i] EXCEPT !.asks = stack[g][i].asks \ {d}]
  BY <1>2, <1>10, <1>12, <1>13
<1>15. \A i \in DOMAIN stack'[g] :
         \/ stack'[g][i].phase = "lookup"
         \/ /\ i \in DOMAIN stack[g] /\ stack'[g][i].phase = stack[g][i].phase
            /\ stack'[g][i].service = stack[g][i].service
            /\ stack'[g][i].version = stack[g][i].version
            /\ stack'[g][i].made = stack[g][i].made
  BY <1>2, <1>3, <1>4, <1>9, <1>12
<1> QED
  BY <1>11, <1>12, <1>14, <1>15 DEF n

LEMMA ReturnEffect ==
  ASSUME TypeInv, NEW g \in Getters, stack[g] # <<>>, NEW result, Return(g, result)
  PROVE  /\ stack' \in [Getters -> Seq(AnyCall)]
         /\ \A h \in Getters \ {g} : stack'[h] = stack[h]
         /\ DOMAIN stack'[g] = DOMAIN stack[g] \ {Len(stack[g])}
         /\ \A i \in DOMAIN stack'[g] : stack'[g][i] = stack[g][i]
         /\ readers \subseteq readers' \union {g}
         /\ DOMAIN stack'[g] # {} => readers' = readers
<1> DEFINE n == Len(stack[g])
           below == SubSeq(stack[g], 1, n - 1)
<1>1. n \in Nat \ {0} /\ DOMAIN stack[g] = 1..n /\ stack[g] \in Seq(AnyCall)
  BY TopCall
<1>2. below \in Seq(AnyCall) /\ DOMAIN below = 1..(n - 1)
      /\ \A i \in 1..(n - 1) : below[i] = stack[g][i]
  BY <1>1, SubSeqProperties
<1>3. stack' = [stack EXCEPT ![g] = below]
  BY DEF Return
<1>4. readers' = IF n = 1 THEN readers \ {g} ELSE readers
  BY DEF Return
<1> HIDE DEF below, n
<1> QED
  BY <1>1, <1>2, <1>3, <1>4 DEF TypeInv

-----------------------------------------------------------------------------
LEMMA InitIInv == Init => IInv
<1> SUFFICES ASSUME Init PROVE IInv
  OBVIOUS
<1>1. \A g \in Getters : stack[g] = <<>> /\ stack[g] \in Seq(AnyCall) /\ DOMAIN stack[g] = {}
  BY EmptySeq DEF Init
<1>2. TypeInv
  BY <1>1 DEF Init, TypeInv
<1>3. CallInv
  BY <1>1 DEF CallInv
<1> QED
  BY <1>2, <1>3 DEF Init, IInv, InstanceInv, NoLostUpdate, MadeByRegistered

\* Handing out an instance of the registered constructor.
LEMMA HandOut ==
  ASSUME IInv, NEW s \in Services, NEW i \in AnyInstance, i.version = registered[s],
         registered' = registered,
         handedOut' = [handedOut EXCEPT ![s] = @ \union {i}]
  PROVE  handedOut' \in [Services -> SUBSET AnyInstance] /\ MadeByRegistered'
<1>1. handedOut \in [Services -> SUBSET AnyInstance]
  BY DEF IInv, TypeInv
<1>2. handedOut[s] \union {i} \in SUBSET AnyInstance
  BY <1>1
<1>3. handedOut' \in [Services -> SUBSET AnyInstance]
  BY <1>1, <1>2
<1>4. \A t \in Services : handedOut'[t] = IF t = s THEN handedOut[s] \union {i} ELSE handedOut[t]
  BY <1>1
<1> QED
  BY <1>3, <1>4 DEF IInv, MadeByRegistered

\* get returns what the map holds.
LEMMA LookupReturnsKeepsIInv ==
  ASSUME IInv, NEW g \in Getters, LookupReturns(g)
  PROVE  IInv'
<1> DEFINE s == Top(g).service
<1>1. stack[g] # <<>> /\ Return(g, instance[s]) /\ UNCHANGED serviceMap
  BY DEF LookupReturns, At
<1>2. s \in Services
  BY <1>1, TopCall DEF IInv, AnyCall
<1>3. /\ UNCHANGED <<registered, built>>
      /\ instance[s] = Nil => handedOut' = handedOut
      /\ instance[s] # Nil => handedOut' = [handedOut EXCEPT ![s] = @ \union {instance[s]}]
  BY <1>1 DEF Return
<1> HIDE DEF s
<1>4. instance[s] # Nil => instance[s] \in AnyInstance /\ instance[s].version = registered[s]
  BY <1>2 DEF IInv, TypeInv, InstanceInv, NoLostUpdate
<1>5. handedOut' \in [Services -> SUBSET AnyInstance] /\ MadeByRegistered'
  <2>1. CASE instance[s] = Nil
    BY <2>1, <1>3 DEF IInv, TypeInv, MadeByRegistered
  <2>2. CASE instance[s] # Nil
    BY <2>2, <1>2, <1>3, <1>4, HandOut
  <2> QED
    BY <2>1, <2>2
<1>6. TypeInv'
  BY <1>1, <1>3, <1>5, ReturnEffect DEF IInv, TypeInv, serviceMap
<1>7. CallInv'
  BY <1>1, ReturnEffect DEF IInv, CallInv, serviceMap
<1> QED
  BY <1>1, <1>3, <1>5, <1>6, <1>7 DEF IInv, InstanceInv, NoLostUpdate, serviceMap

\* A call that reads a constructor holds the read lock.
LEMMA LookupConstructsKeepsIInv ==
  ASSUME ContainerAssumption, IInv, NEW g \in Getters, LookupConstructs(g)
  PROVE  IInv'
<1> DEFINE s == Top(g).service
           call == [Top(g) EXCEPT !.phase = "constructing", !.version = constructor[s],
                                  !.asks = Dep[s]]
<1>1. stack[g] # <<>> /\ SetTop(g, call) /\ g \in readers
      /\ UNCHANGED <<serviceMap, readers, history>>
  BY DEF LookupConstructs, At, locks
<1>2. Top(g) \in AnyCall /\ s \in Services
  BY <1>1, TopCall DEF IInv, AnyCall
<1>3. /\ call \in AnyCall /\ call.phase = "constructing" /\ call.service = s
      /\ call.version = constructor[s]
  BY <1>2 DEF ContainerAssumption, IInv, TypeInv, AnyCall
<1> HIDE DEF call, s
<1>4. TypeInv'
  BY <1>1, <1>3, SetTopEffect DEF IInv, TypeInv, serviceMap, history
<1>5. CallInv'
  BY <1>1, <1>3, SetTopEffect DEF IInv, CallInv, serviceMap
<1> QED
  BY <1>1, <1>4, <1>5 DEF IInv, InstanceInv, NoLostUpdate, MadeByRegistered, serviceMap, history

LEMMA AskKeepsIInv ==
  ASSUME IInv, NEW g \in Getters, NEW d \in Services, Ask(g, d)
  PROVE  IInv'
<1>1. UNCHANGED <<serviceMap, readers, history>>
  BY DEF Ask, locks
<1>2. TypeInv'
  BY <1>1, AskEffect DEF IInv, TypeInv, serviceMap, history
<1>3. CallInv'
  <2> SUFFICES ASSUME NEW h \in Getters, NEW i \in DOMAIN stack'[h],
                      stack'[h][i].phase # "lookup"
               PROVE  LET call == stack'[h][i] IN
                        /\ h \in readers
                        /\ call.version = constructor[call.service]
                        /\ call.phase = "storing" => MadeBy(call)
    BY <1>1 DEF CallInv, serviceMap
  <2>1. /\ i \in DOMAIN stack[h] /\ stack'[h][i].phase = stack[h][i].phase
        /\ stack'[h][i].service = stack[h][i].service
        /\ stack'[h][i].version = stack[h][i].version
        /\ stack'[h][i].made = stack[h][i].made
    <3>1. CASE h = g
      BY <3>1, AskEffect DEF IInv
    <3>2. CASE h # g
      BY <3>2, AskEffect DEF IInv
    <3> QED
      BY <3>1, <3>2
  <2> QED
    BY <2>1 DEF IInv, CallInv, MadeBy
<1> QED
  BY <1>1, <1>2, <1>3 DEF IInv, InstanceInv, NoLostUpdate, MadeByRegistered, serviceMap, history

\* What Construct does, with the result of the constructor picked.
LEMMA ConstructMakes ==
  ASSUME IInv, NEW g \in Getters, Construct(g)
  PROVE  LET s == Top(g).service
             mayBeNil == <<s, Top(g).version>> \in NilMakers IN
         /\ s \in Services /\ built[s] \in Nat
         /\ built' = [built EXCEPT ![s] = IF mayBeNil THEN @ ELSE @ + 1]
         /\ built' \in [Services -> Nat]
         /\ built'[s] = IF mayBeNil THEN built[s] ELSE built[s] + 1
         /\ \E made \in AnyInstance \union {Nil} :
              /\ \/ made = [version |-> Top(g).version, nth |-> built'[s]]
                    /\ made \in AnyInstance /\ made.version = Top(g).version
                 \/ made = Nil /\ mayBeNil
              /\ [Top(g) EXCEPT !.phase = "storing", !.made = made] \in AnyCall
              /\ SetTop(g, [Top(g) EXCEPT !.phase = "storing", !.made = made])
<1> DEFINE s == Top(g).service
           mayBeNil == <<s, Top(g).version>> \in NilMakers
           new == [version |-> Top(g).version, nth |-> built'[s]]
<1>1. Top(g) \in AnyCall
  BY TopCall DEF Construct, At, IInv
<1>2. s \in Services /\ Top(g).version \in Nat
  BY <1>1 DEF AnyCall
<1>3. built' = [built EXCEPT ![s] = IF mayBeNil THEN @ ELSE @ + 1]
  BY DEF Construct
<1>4. /\ built[s] \in Nat /\ built' \in [Services -> Nat]
      /\ built'[s] = IF mayBeNil THEN built[s] ELSE built[s] + 1
  BY <1>2, <1>3 DEF IInv, TypeInv
<1>5. \E made \in {new} \union (IF mayBeNil THEN {Nil} ELSE {}) :
        SetTop(g, [Top(g) EXCEPT !.phase = "storing", !.made = made])
  BY DEF Construct
<1>6. PICK made : /\ made = new \/ (made = Nil /\ mayBeNil)
                  /\ SetTop(g, [Top(g) EXCEPT !.phase = "storing", !.made = made])
  BY <1>5
<1>7. new \in AnyInstance /\ new.version = Top(g).version
  BY <1>2, <1>4 DEF AnyInstance
<1>8. made \in AnyInstance \union {Nil}
  BY <1>6, <1>7
<1>9. [Top(g) EXCEPT !.phase = "storing", !.made = made] \in AnyCall
  BY <1>1, <1>8 DEF AnyCall
<1> QED
  BY <1>2, <1>3, <1>4, <1>6, <1>7, <1>8, <1>9

LEMMA ConstructKeepsIInv ==
  ASSUME IInv, NEW g \in Getters, Construct(g)
  PROVE  IInv'
<1> DEFINE s == Top(g).service
<1>1. stack[g] # <<>> /\ Top(g).phase = "constructing"
      /\ UNCHANGED <<serviceMap, readers, registered, handedOut>>
  BY DEF Construct, At, locks
<1>2. Top(g) \in AnyCall /\ s \in Services
  BY <1>1, TopCall DEF IInv, AnyCall
<1>3. built' \in [Services -> Nat]
  BY ConstructMakes
<1>4. g \in readers /\ Top(g).version = constructor[s]
  BY <1>1, TopCall DEF IInv, CallInv
<1>5. PICK made \in AnyInstance \union {Nil} :
        /\ \/ made \in AnyInstance /\ made.version = Top(g).version
           \/ made = Nil /\ <<s, Top(g).version>> \in NilMakers
        /\ [Top(g) EXCEPT !.phase = "storing", !.made = made] \in AnyCall
        /\ SetTop(g, [Top(g) EXCEPT !.phase = "storing", !.made = made])
  BY ConstructMakes
<1> DEFINE call == [Top(g) EXCEPT !.phase = "storing", !.made = made]
<1>6. /\ call \in AnyCall /\ SetTop(g, call) /\ call.phase = "storing" /\ call.service = s
      /\ call.version = constructor[s] /\ MadeBy(call)
  BY <1>2, <1>4, <1>5 DEF AnyCall, MadeBy
<1> HIDE DEF call, s
<1>7. TypeInv'
  BY <1>1, <1>3, <1>6, SetTopEffect DEF IInv, TypeInv, serviceMap
<1>8. CallInv'
  BY <1>1, <1>4, <1>6, SetTopEffect DEF IInv, CallInv, serviceMap
<1> QED
  BY <1>1, <1>7, <1>8 DEF IInv, InstanceInv, NoLostUpdate, MadeByRegistered, serviceMap

\* The entry that is written back holds the constructor the map has anyway.
LEMMA StoreKeepsIInv ==
  ASSUME IInv, NEW g \in Getters, Store(g)
  PROVE  IInv'
<1> DEFINE s == Top(g).service
           made == Top(g).made
<1>1. stack[g] # <<>> /\ Return(g, made) /\ Top(g).phase = "storing"
      /\ constructor' = [constructor EXCEPT ![s] = Top(g).version]
      /\ instance' = [instance EXCEPT ![s] = made]
  BY DEF Store, At
<1>2. Top(g) \in AnyCall /\ s \in Services
  BY <1>1, TopCall DEF IInv, AnyCall
<1>3. /\ Top(g).version = constructor[s]
      /\ made = Nil \/ (made \in AnyInstance /\ made.version = constructor[s])
  <2>1. Len(stack[g]) \in DOMAIN stack[g] /\ Top(g) = stack[g][Len(stack[g])]
    BY <1>1, TopCall DEF IInv
  <2>2. Top(g).version = constructor[s] /\ MadeBy(Top(g))
    BY <1>1, <2>1 DEF IInv, CallInv
  <2> QED
    BY <2>2 DEF MadeBy
<1>4. constructor' = constructor
  <2>1. ASSUME NEW f \in [Services -> Nat], NEW x \in Services PROVE [f EXCEPT ![x] = f[x]] = f
    OBVIOUS
  <2>2. constructor \in [Services -> Nat]
    BY DEF IInv, TypeInv
  <2>3. constructor' = [constructor EXCEPT ![s] = constructor[s]]
    BY <1>1, <1>3
  <2> HIDE DEF s
  <2> QED
    BY <1>2, <2>1, <2>2, <2>3
<1>5. /\ UNCHANGED <<registered, built>>
      /\ \/ handedOut' = handedOut
         \/ made # Nil /\ handedOut' = [handedOut EXCEPT ![s] = @ \union {made}]
  BY <1>1 DEF Return
<1> HIDE DEF s, made
<1>6. handedOut' \in [Services -> SUBSET AnyInstance] /\ MadeByRegistered'
  <2>1. CASE handedOut' = handedOut
    BY <2>1, <1>5 DEF IInv, TypeInv, MadeByRegistered
  <2>2. CASE made # Nil /\ handedOut' = [handedOut EXCEPT ![s] = @ \union {made}]
    <3>1. made \in AnyInstance /\ made.version = registered[s]
      BY <1>2, <1>3, <2>2 DEF IInv, NoLostUpdate
    <3> QED
      BY <2>2, <3>1, <1>2, <1>5, HandOut
  <2> QED
    BY <1>5, <2>1, <2>2
<1>7. TypeInv'
  BY <1>1, <1>2, <1>3, <1>4, <1>5, <1>6, ReturnEffect DEF IInv, TypeInv
<1>8. CallInv'
  <2> SUFFICES ASSUME NEW h \in Getters, NEW i \in DOMAIN stack'[h],
                      stack'[h][i].phase # "lookup"
               PROVE  LET call == stack'[h][i] IN
                        /\ h \in readers'
                        /\ call.version = constructor[call.service]
                        /\ call.phase = "storing" => MadeBy(call)
    BY <1>4 DEF CallInv
  <2>1. i \in DOMAIN stack[h] /\ stack'[h][i] = stack[h][i] /\ (h \in readers => h \in readers')
    <3>1. CASE h = g
      BY <1>1, <3>1, ReturnEffect DEF IInv
    <3>2. CASE h # g
      BY <1>1, <3>2, ReturnEffect DEF IInv
    <3> QED
      BY <3>1, <3>2
  <2> QED
    BY <2>1 DEF IInv, CallInv
<1>9. InstanceInv'
  BY <1>1, <1>2, <1>3, <1>4 DEF IInv, TypeInv, InstanceInv
<1>10. NoLostUpdate'
  BY <1>4, <1>5 DEF IInv, NoLostUpdate
<1> QED
  BY <1>6, <1>7, <1>8, <1>9, <1>10 DEF IInv

\* Update registers when no Get holds the lock, hence no call has read an entry.
LEMMA RegisterKeepsIInv ==
  ASSUME IInv, NEW u \in Updaters, NEW s \in Services, Register(u, s)
  PROVE  IInv'
<1>1. /\ readers = {} /\ UNCHANGED <<readers, stack>>
      /\ registered' = [registered EXCEPT ![s] = @ + 1]
      /\ constructor' = [constructor EXCEPT ![s] = registered'[s]]
      /\ instance' = [instance EXCEPT ![s] = Nil]
      /\ built' = [built EXCEPT ![s] = 0]
      /\ handedOut' = [handedOut EXCEPT ![s] = {}]
  BY DEF Register, locks
<1>2. TypeInv'
  BY <1>1 DEF IInv, TypeInv
<1>3. CallInv'
  BY <1>1 DEF IInv, CallInv
<1> QED
  BY <1>1, <1>2, <1>3 DEF IInv, TypeInv, InstanceInv, NoLostUpdate, MadeByRegistered

LEMMA StepIInv == ContainerAssumption /\ IInv /\ [Next]_vars => IInv'
<1> SUFFICES ASSUME ContainerAssumption, IInv, [Next]_vars PROVE IInv'
  OBVIOUS
<1>1. ASSUME NEW g \in Getters, NEW s \in Services, RLock(g, s) PROVE IInv'
  <2>1. /\ stack' = [stack EXCEPT ![g] = <<Call(s)>>] /\ readers \subseteq readers'
        /\ UNCHANGED <<serviceMap, history>>
    BY <1>1 DEF RLock
  <2>2. Call(s) \in AnyCall /\ Call(s).phase = "lookup"
    BY DEF Call, AnyCall
  <2>3. /\ <<Call(s)>> \in Seq(AnyCall) /\ DOMAIN <<Call(s)>> = {1}
        /\ <<Call(s)>>[1] = Call(s)
    BY <2>2
  <2>4. TypeInv'
    BY <2>1, <2>3 DEF IInv, TypeInv, serviceMap, history
  <2>5. CallInv'
    BY <2>1, <2>2, <2>3 DEF IInv, TypeInv, CallInv, serviceMap
  <2> QED
    BY <2>1, <2>4, <2>5 DEF IInv, InstanceInv, NoLostUpdate, MadeByRegistered, serviceMap, history
<1>2. ASSUME NEW g \in Getters, StoreBegin(g) PROVE IInv'
  BY <1>2 DEF StoreBegin, IInv, TypeInv, CallInv, InstanceInv, NoLostUpdate, MadeByRegistered,
              serviceMap, history, locks
<1>3. ASSUME NEW u \in Updaters, NEW new \in SUBSET Services, LockBegin(u, new) PROVE IInv'
  BY <1>3 DEF LockBegin, IInv, TypeInv, CallInv, InstanceInv, NoLostUpdate, MadeByRegistered,
              serviceMap
<1>4. ASSUME NEW u \in Updaters, Unlock(u) PROVE IInv'
  BY <1>4 DEF Unlock, IInv, TypeInv, CallInv, InstanceInv, NoLostUpdate, MadeByRegistered,
              serviceMap, history
<1>5. CASE UNCHANGED vars
  BY <1>5 DEF vars, IInv, TypeInv, CallInv, InstanceInv, NoLostUpdate, MadeByRegistered,
              serviceMap, history, locks
<1> QED
  BY <1>1, <1>2, <1>3, <1>4, <1>5, LookupReturnsKeepsIInv, LookupConstructsKeepsIInv,
     AskKeepsIInv, ConstructKeepsIInv, StoreKeepsIInv, RegisterKeepsIInv
     DEF Next, GetStep, UpdateStep, Terminated

LEMMA InvariantHolds == Spec => []IInv
BY InitIInv, StepIInv, ContainerAssumption, PTL DEF Spec

\* No interleaving of Gets and Updates puts a replaced constructor back.
THEOREM NoLostUpdateHolds == Spec => []NoLostUpdate
<1>1. IInv => NoLostUpdate
  BY DEF IInv
<1> QED
  BY <1>1, InvariantHolds, PTL

\* What is handed out was made by the constructor registered then and now.
THEOREM MadeByRegisteredHolds == Spec => []MadeByRegistered
<1>1. IInv => MadeByRegistered
  BY DEF IInv
<1> QED
  BY <1>1, InvariantHolds, PTL

-----------------------------------------------------------------------------
(* Type correctness: the depth of the calls, the number of constructions *)

\* A getter that stores is in its innermost call, under the read lock.
LockInv ==
  /\ \A g \in writing : g \in readers /\ stack[g] # <<>> /\ Top(g).phase = "storing"
  /\ readers \subseteq Getters /\ blocked \subseteq Getters /\ writing \subseteq Getters
  /\ pending \in Updaters \union {Nobody} /\ todo \in [Updaters -> SUBSET Services]
  /\ crashed \in BOOLEAN

\* A registration takes a call of Update.
VersionInv ==
  /\ updates \in 0 .. MaxUpdates
  /\ \A s \in Services :
       registered[s] <= updates + (IF pending \in Updaters /\ s \in todo[pending] THEN 0 ELSE 1)

\* A ranking of the services by what they need, which NoCycle promises.
Rank ==
  CHOOSE rank \in [Services -> 0 .. Cardinality(Services)] :
    \A s \in Services : \A d \in Dep[s] : rank[d] < rank[s]

\* A call is for something that the calls below it need.
StackInv ==
  \A g \in Getters : \A i \in DOMAIN stack[g] :
    /\ stack[g][i].asks \subseteq Dep[stack[g][i].service]
    /\ \A j \in DOMAIN stack[g] :
         i < j => Rank[stack[g][j].service] < Rank[stack[g][i].service]

\* Who is constructing a service, and who is about to put one into the map.
In(g, s, phase) ==
  \E i \in DOMAIN stack[g] : stack[g][i].service = s /\ stack[g][i].phase = phase

Constructing(s) == {g \in Getters : In(g, s, "constructing")}
Storing(s) == {g \in Getters : In(g, s, "storing")}

\* Who has constructed an instance has not stored it yet, or it is in the map, and
\* nobody begins to construct another.  This is so unless the constructor may
\* return nil, whose runs are not counted.
Counted(s) ==
  /\ built[s] + Cardinality(Constructing(s)) <= Cardinality(Getters)
  /\ <<s, constructor[s]>> \in NilMakers => built[s] = 0
  /\ <<s, constructor[s]>> \notin NilMakers /\ instance[s] = Nil =>
       built[s] + Cardinality(Constructing(s)) <= Cardinality(Constructing(s) \union Storing(s))

CountInv == \A s \in Services : Counted(s)

\* What is bounded by these numbers.
BoundInv ==
  /\ \A g \in Getters : \A i \in DOMAIN stack[g] :
       stack[g][i] \in Calls /\ (stack[g][i].phase # "lookup" => stack[g][i].version # 0)
  /\ instance \in [Services -> Instances \union {Nil}]
  /\ handedOut \in [Services -> SUBSET Instances]

\* The inductive invariant of the types.
TInv == IInv /\ LockInv /\ VersionInv /\ StackInv /\ CountInv /\ BoundInv

\* The services can be ranked by what they need.
LEMMA RankWorks ==
  /\ Rank \in [Services -> Int]
  /\ \A s \in Services : \A d \in Dep[s] : Rank[d] < Rank[s]
<1>1. 0 .. Cardinality(Services) \subseteq Int
  BY FiniteAssumption, FS_CardinalityType
<1>2. Rank \in [Services -> 0 .. Cardinality(Services)]
      /\ \A s \in Services : \A d \in Dep[s] : Rank[d] < Rank[s]
  BY NoCycle DEF Rank
<1> QED
  BY <1>1, <1>2

\* No getter is in two calls of get for one service, so that it is in no more
\* calls than there are services.
LEMMA DistinctCalls ==
  ASSUME IInv, StackInv, NEW g \in Getters, NEW i \in DOMAIN stack[g], NEW j \in DOMAIN stack[g],
         stack[g][i].service = stack[g][j].service
  PROVE  i = j
<1>1. stack[g] \in Seq(AnyCall) /\ DOMAIN stack[g] = 1..Len(stack[g]) /\ Len(stack[g]) \in Nat
  BY LenProperties DEF IInv, TypeInv
<1>2. stack[g][i] \in AnyCall /\ i \in Int /\ j \in Int
  BY <1>1, ElementOfSeq
<1>3. Rank[stack[g][i].service] \in Int
  BY <1>2, RankWorks DEF AnyCall
<1>4. ~(i < j) /\ ~(j < i)
  BY <1>3 DEF StackInv
<1> QED
  BY <1>2, <1>4

\* ... hence calls nest no deeper than there are services.
LEMMA DepthBound ==
  ASSUME IInv, StackInv, NEW g \in Getters
  PROVE  Len(stack[g]) <= Cardinality(Services)
<1> DEFINE f == [i \in DOMAIN stack[g] |-> stack[g][i].service]
<1>1. stack[g] \in Seq(AnyCall) /\ DOMAIN stack[g] = 1..Len(stack[g]) /\ Len(stack[g]) \in Nat
  BY LenProperties DEF IInv, TypeInv
<1>2. ASSUME NEW i \in DOMAIN stack[g] PROVE stack[g][i].service \in Services
  <2>1. stack[g][i] \in AnyCall
    BY <1>1, ElementOfSeq
  <2> QED
    BY <2>1 DEF AnyCall
<1>3. f \in Injection(DOMAIN stack[g], Services)
  BY <1>2, DistinctCalls DEF Injection, IsInjective
<1>4. Cardinality(DOMAIN stack[g]) <= Cardinality(Services)
  BY <1>3, FiniteAssumption, FS_Injection
<1> HIDE DEF f
<1>5. Cardinality(1..Len(stack[g])) = Len(stack[g])
  <2>1. ASSUME NEW n \in Nat PROVE Cardinality(1..n) = n
    BY FS_Interval
  <2> QED
    BY <1>1, <2>1
<1> QED
  BY <1>1, <1>4, <1>5

LEMMA InitTInv == Init => TInv
<1> SUFFICES ASSUME Init PROVE TInv
  OBVIOUS
<1>1. IInv
  BY InitIInv
<1>2. \A g \in Getters : stack[g] = <<>> /\ DOMAIN stack[g] = {}
  BY DEF Init
<1>3. LockInv
  BY DEF Init, LockInv
<1>4. VersionInv
  BY ContainerAssumption DEF Init, VersionInv
<1>5. StackInv
  BY <1>2 DEF StackInv
<1>6. CountInv
  <2>1. \A s \in Services : Constructing(s) = {} /\ Storing(s) = {} /\ built[s] = 0
    BY <1>2 DEF Constructing, Storing, In, Init
  <2>2. Cardinality({}) = 0 /\ Cardinality(Getters) \in Nat
    BY FiniteAssumption, FS_EmptySet, FS_CardinalityType
  <2> QED
    BY <2>1, <2>2 DEF CountInv, Counted
<1>7. BoundInv
  BY <1>2 DEF Init, BoundInv
<1> QED
  BY <1>1, <1>3, <1>4, <1>5, <1>6, <1>7 DEF TInv

\* What the steps of a getter do to its own calls, and not to those of others.
LEMMA OthersKept ==
  ASSUME IInv, NEW g \in Getters, GetStep(g) \/ \E s \in Services : RLock(g, s)
  PROVE  \A h \in Getters \ {g} : stack'[h] = stack[h]
BY DEF GetStep, RLock, LookupReturns, LookupConstructs, Ask, Construct, StoreBegin, Store, Return,
       SetTop, IInv, TypeInv

\* The innermost call finds no instance and begins to construct one.
LEMMA TopConstructs ==
  ASSUME IInv, NEW g \in Getters, LookupConstructs(g)
  PROVE  LET n == Len(stack[g])
             s == stack[g][n].service IN
         /\ n \in DOMAIN stack[g] /\ stack[g][n] \in AnyCall /\ stack[g][n].phase = "lookup"
         /\ constructor[s] # 0 /\ instance[s] = Nil
         /\ DOMAIN stack'[g] = DOMAIN stack[g]
         /\ \A i \in DOMAIN stack[g] \ {n} : stack'[g][i] = stack[g][i]
         /\ stack'[g][n] \in AnyCall
         /\ stack'[g][n].service = s /\ stack'[g][n].phase = "constructing"
         /\ stack'[g][n].version = constructor[s] /\ stack'[g][n].asks = Dep[s]
         /\ stack'[g][n].made = stack[g][n].made
         /\ UNCHANGED <<serviceMap, history>>
<1> DEFINE n == Len(stack[g])
           s == stack[g][n].service
           call == [stack[g][n] EXCEPT !.phase = "constructing", !.asks = Dep[s],
                                       !.version = constructor[s]]
<1>1. stack[g] # <<>>
  BY DEF LookupConstructs, At
<1>2. n \in DOMAIN stack[g] /\ stack[g][n] \in AnyCall /\ Top(g) = stack[g][n]
  BY <1>1, TopCall DEF IInv
<1>3. /\ stack[g][n].phase = "lookup" /\ constructor[s] # 0 /\ instance[s] = Nil
      /\ UNCHANGED <<serviceMap, history>>
  BY <1>2 DEF LookupConstructs, At
<1>4. /\ call \in AnyCall /\ call.service = s /\ call.phase = "constructing"
      /\ call.version = constructor[s] /\ call.asks = Dep[s] /\ call.made = stack[g][n].made
  BY <1>2, ContainerAssumption DEF AnyCall, IInv, TypeInv
<1>5. SetTop(g, call)
  BY <1>2 DEF LookupConstructs, AnyCall
<1> HIDE DEF call
<1>6. /\ DOMAIN stack'[g] = DOMAIN stack[g]
      /\ \A i \in DOMAIN stack[g] : stack'[g][i] = IF i = n THEN call ELSE stack[g][i]
  BY <1>1, <1>4, <1>5, SetTopEffect DEF IInv
<1> QED
  BY <1>2, <1>3, <1>4, <1>6

\* The innermost call has what the constructor returned.
LEMMA TopStores ==
  ASSUME IInv, NEW g \in Getters, Construct(g)
  PROVE  LET n == Len(stack[g])
             s == stack[g][n].service
             mayBeNil == <<s, stack[g][n].version>> \in NilMakers IN
         /\ n \in DOMAIN stack[g] /\ stack[g][n] \in AnyCall /\ stack[g][n].phase = "constructing"
         /\ stack[g][n].version = constructor[s] /\ s \in Services
         /\ built' = [built EXCEPT ![s] = IF mayBeNil THEN @ ELSE @ + 1]
         /\ built'[s] = IF mayBeNil THEN built[s] ELSE built[s] + 1
         /\ DOMAIN stack'[g] = DOMAIN stack[g]
         /\ \A i \in DOMAIN stack[g] \ {n} : stack'[g][i] = stack[g][i]
         /\ stack'[g][n] \in AnyCall
         /\ stack'[g][n].service = s /\ stack'[g][n].phase = "storing"
         /\ stack'[g][n].version = stack[g][n].version /\ stack'[g][n].asks = stack[g][n].asks
         /\ \/ stack'[g][n].made = [version |-> stack[g][n].version, nth |-> built'[s]]
            \/ stack'[g][n].made = Nil /\ mayBeNil
         /\ UNCHANGED <<serviceMap, registered, handedOut, updates>>
<1> DEFINE n == Len(stack[g])
           s == stack[g][n].service
           mayBeNil == <<s, stack[g][n].version>> \in NilMakers
<1>1. stack[g] # <<>>
  BY DEF Construct, At
<1>2. n \in DOMAIN stack[g] /\ stack[g][n] \in AnyCall /\ Top(g) = stack[g][n]
  BY <1>1, TopCall DEF IInv
<1>3. s \in Services
  BY <1>2 DEF AnyCall
<1>4. /\ stack[g][n].phase = "constructing"
      /\ UNCHANGED <<serviceMap, registered, handedOut, updates>>
  BY <1>2 DEF Construct, At
<1>5. stack[g][n].version = constructor[s]
  BY <1>2, <1>4 DEF IInv, CallInv
<1>6. /\ built' = [built EXCEPT ![s] = IF mayBeNil THEN @ ELSE @ + 1]
      /\ built'[s] = IF mayBeNil THEN built[s] ELSE built[s] + 1
  BY <1>2, ConstructMakes
<1>7. PICK made \in AnyInstance \union {Nil} :
        /\ \/ made = [version |-> stack[g][n].version, nth |-> built'[s]]
           \/ made = Nil /\ mayBeNil
        /\ [stack[g][n] EXCEPT !.phase = "storing", !.made = made] \in AnyCall
        /\ SetTop(g, [stack[g][n] EXCEPT !.phase = "storing", !.made = made])
  BY <1>2, ConstructMakes
<1> DEFINE call == [stack[g][n] EXCEPT !.phase = "storing", !.made = made]
<1>8. /\ call \in AnyCall /\ call.service = s /\ call.phase = "storing" /\ call.made = made
      /\ call.version = stack[g][n].version /\ call.asks = stack[g][n].asks /\ SetTop(g, call)
  BY <1>2, <1>7 DEF AnyCall
<1> HIDE DEF call
<1>9. /\ DOMAIN stack'[g] = DOMAIN stack[g]
      /\ \A i \in DOMAIN stack[g] : stack'[g][i] = IF i = n THEN call ELSE stack[g][i]
  BY <1>1, <1>8, SetTopEffect DEF IInv
<1> QED
  BY <1>2, <1>3, <1>4, <1>5, <1>6, <1>7, <1>8, <1>9

-----------------------------------------------------------------------------
LEMMA StepLock ==
  ASSUME TInv, [Next]_vars
  PROVE  LockInv'
<1> USE DEF TInv, LockInv
<1>1. ASSUME NEW g \in Getters, \E s \in Services : RLock(g, s) PROVE LockInv'
  BY <1>1, OthersKept DEF RLock, Top
<1>2. ASSUME NEW g \in Getters, LookupReturns(g) \/ LookupConstructs(g)
                                  \/ (\E d \in Services : Ask(g, d)) \/ Construct(g)
      PROVE  LockInv'
  <2>1. \A h \in Getters \ {g} : stack'[h] = stack[h]
    BY <1>2, OthersKept DEF GetStep
  <2>2. g \notin writing /\ writing' = writing /\ readers \subseteq readers' \union {g}
        /\ readers' \subseteq readers
        /\ UNCHANGED <<blocked, pending, todo>> /\ crashed' \in BOOLEAN
    BY <1>2 DEF LookupReturns, LookupConstructs, Ask, Construct, Return, At, Detect, locks
  <2> QED
    BY <2>1, <2>2 DEF Top
<1>3. ASSUME NEW g \in Getters, StoreBegin(g) PROVE LockInv'
  <2>1. g \in readers
    BY <1>3, TopCall DEF StoreBegin, At, IInv, CallInv
  <2> QED
    BY <1>3, <2>1 DEF StoreBegin, At, Detect, locks, Top
<1>4. ASSUME NEW g \in Getters, Store(g) PROVE LockInv'
  <2>1. \A h \in Getters \ {g} : stack'[h] = stack[h]
    BY <1>4, OthersKept DEF GetStep
  <2>2. /\ writing' = writing \ {g}
        /\ readers \subseteq readers' \union {g} /\ readers' \subseteq readers
        /\ UNCHANGED <<blocked, pending, todo, crashed>>
    BY <1>4 DEF Store, Return
  <2> QED
    BY <2>1, <2>2 DEF Top
<1>5. ASSUME NEW u \in Updaters,
             (\E new \in SUBSET Services : LockBegin(u, new)) \/ UpdateStep(u)
      PROVE  LockInv'
  BY <1>5 DEF LockBegin, UpdateStep, Register, Unlock, locks, Top
<1>6. CASE UNCHANGED vars
  BY <1>6 DEF vars, locks, Top
<1> QED
  BY <1>1, <1>2, <1>3, <1>4, <1>5, <1>6 DEF Next, GetStep, Terminated

\* Only the calls of Update register.
LEMMA StepVersion ==
  ASSUME TInv, [Next]_vars
  PROVE  VersionInv'
<1> USE ContainerAssumption DEF TInv, VersionInv
<1>1. CASE /\ UNCHANGED <<registered, updates, todo, pending>>
  BY <1>1
<1>2. ASSUME NEW u \in Updaters, NEW new \in SUBSET Services, LockBegin(u, new) PROVE VersionInv'
  BY <1>2 DEF LockBegin, LockInv, IInv, TypeInv
<1>3. ASSUME NEW u \in Updaters, NEW s \in Services, Register(u, s) PROVE VersionInv'
  BY <1>3 DEF Register, LockInv, IInv, TypeInv, locks
<1>4. ASSUME NEW u \in Updaters, Unlock(u) PROVE VersionInv'
  BY <1>4 DEF Unlock, LockInv, IInv, TypeInv, history
<1> QED
  BY <1>1, <1>2, <1>3, <1>4
     DEF Next, GetStep, UpdateStep, Terminated, RLock, LookupReturns, LookupConstructs, Ask,
         Construct, StoreBegin, Store, Return, history, locks, vars

\* The first call of a Get.
LEMMA FirstCall ==
  ASSUME IInv, NEW g \in Getters, NEW s \in Services, RLock(g, s)
  PROVE  /\ stack[g] = <<>> /\ DOMAIN stack'[g] = {1} /\ stack'[g][1] = Call(s)
         /\ UNCHANGED <<serviceMap, history>>
<1>1. stack'[g] = <<Call(s)>>
  BY DEF RLock, IInv, TypeInv
<1> QED
  BY <1>1 DEF RLock

\* The end of a call.
LEMMA LastCall ==
  ASSUME IInv, NEW g \in Getters, LookupReturns(g) \/ Store(g)
  PROVE  LET n == Len(stack[g]) IN
         /\ n \in DOMAIN stack[g] /\ stack[g][n] \in AnyCall /\ stack[g][n] = Top(g)
         /\ stack[g][n].phase = IF LookupReturns(g) THEN "lookup" ELSE "storing"
         /\ DOMAIN stack'[g] = DOMAIN stack[g] \ {n}
         /\ \A i \in DOMAIN stack'[g] : stack'[g][i] = stack[g][i]
         /\ built' = built
<1>1. stack[g] # <<>>
  BY DEF LookupReturns, Store, At
<1>2. \E result : Return(g, result)
  BY DEF LookupReturns, Store
<1>3. Top(g).phase = IF LookupReturns(g) THEN "lookup" ELSE "storing"
  BY DEF LookupReturns, Store, At
<1> QED
  BY <1>1, <1>2, <1>3, TopCall, ReturnEffect DEF IInv, Return

\* A new call is for something the innermost one needs.
LEMMA StepStack ==
  ASSUME TInv, [Next]_vars
  PROVE  StackInv'
<1> USE DEF TInv
<1>0. SUFFICES ASSUME NEW g \in Getters PROVE
        \A i \in DOMAIN stack'[g] :
          /\ stack'[g][i].asks \subseteq Dep[stack'[g][i].service]
          /\ \A j \in DOMAIN stack'[g] :
               i < j => Rank[stack'[g][j].service] < Rank[stack'[g][i].service]
  BY DEF StackInv
<1> USE DEF StackInv
<1>1. CASE stack'[g] = stack[g]
  BY <1>1
<1>2. CASE \E s \in Services : RLock(g, s)
  <2>1. PICK s \in Services : RLock(g, s)
    BY <1>2
  <2>2. Call(s).asks = {}
    BY DEF Call
  <2> QED
    BY <2>1, <2>2, FirstCall
<1>3. CASE LookupReturns(g) \/ Store(g)
  BY <1>3, LastCall
<1>4. CASE LookupConstructs(g)
  BY <1>4, TopConstructs
<1>5. CASE Construct(g)
  <2> DEFINE n == Len(stack[g])
  <2>1. /\ DOMAIN stack'[g] = DOMAIN stack[g]
        /\ \A i \in DOMAIN stack[g] \ {n} : stack'[g][i] = stack[g][i]
        /\ stack'[g][n].service = stack[g][n].service /\ stack'[g][n].asks = stack[g][n].asks
    BY <1>5, TopStores
  <2> HIDE DEF n
  <2>2. \A i \in DOMAIN stack[g] : /\ stack'[g][i].service = stack[g][i].service
                                  /\ stack'[g][i].asks = stack[g][i].asks
    BY <2>1
  <2> QED
    BY <2>1, <2>2
<1>6. ASSUME NEW d \in Services, Ask(g, d)
      PROVE  \A i \in DOMAIN stack'[g] :
               /\ stack'[g][i].asks \subseteq Dep[stack'[g][i].service]
               /\ \A j \in DOMAIN stack'[g] :
                    i < j => Rank[stack'[g][j].service] < Rank[stack'[g][i].service]
  <2> DEFINE n == Len(stack[g])
  <2>1. stack[g] # <<>> /\ d \in Top(g).asks
    BY <1>6 DEF Ask, At
  <2>2. n \in Nat /\ n \in DOMAIN stack[g] /\ DOMAIN stack[g] = 1..n /\ Top(g) = stack[g][n]
        /\ stack[g] \in Seq(AnyCall)
    BY <2>1, TopCall DEF IInv
  <2>3. ASSUME NEW i \in DOMAIN stack[g]
        PROVE  /\ stack[g][i] \in AnyCall
               /\ stack'[g][i].service = stack[g][i].service
               /\ stack'[g][i].asks \subseteq stack[g][i].asks
    <3>1. stack[g][i] \in AnyCall
      BY <2>2, ElementOfSeq
    <3>2. \/ stack'[g][i] = stack[g][i]
          \/ stack'[g][i] = [stack[g][i] EXCEPT !.asks = stack[g][i].asks \ {d}]
      BY <1>6, AskEffect DEF IInv
    <3> QED
      BY <3>1, <3>2 DEF AnyCall
  <2>4. /\ DOMAIN stack'[g] = 1..(n + 1)
        /\ stack'[g][n + 1].service = d /\ stack'[g][n + 1].asks = {}
    <3>1. Call(d).service = d /\ Call(d).asks = {}
      BY DEF Call
    <3> QED
      BY <1>6, <3>1, AskEffect DEF IInv
  <2>5. ASSUME NEW i \in DOMAIN stack[g] PROVE Rank[d] < Rank[stack[g][i].service]
    <3>1. Rank[d] < Rank[stack[g][n].service]
      BY <2>1, <2>2, <2>3, RankWorks DEF AnyCall
    <3>2. i # n => Rank[stack[g][n].service] < Rank[stack[g][i].service]
      BY <2>2
    <3>3. Rank[d] \in Int /\ Rank[stack[g][n].service] \in Int /\ Rank[stack[g][i].service] \in Int
      BY <2>2, <2>3, RankWorks DEF AnyCall
    <3> QED
      BY <3>1, <3>2, <3>3
  <2> HIDE DEF n
  <2>6. \A i \in 1..(n + 1) : i = n + 1 \/ i \in DOMAIN stack[g]
    BY <2>2
  <2>7. \A j \in 1..(n + 1) : ~(n + 1 < j)
    BY <2>2
  <2> QED
    BY <2>3, <2>4, <2>5, <2>6, <2>7
<1>7. stack'[g] = stack[g] \/ GetStep(g) \/ \E s \in Services : RLock(g, s)
  BY OthersKept
     DEF Next, Terminated, LockBegin, UpdateStep, Register, Unlock, vars
<1> QED
  BY <1>1, <1>2, <1>3, <1>4, <1>5, <1>6, <1>7 DEF GetStep, StoreBegin

\* The calls below the new one are as they were, but for what the innermost asks.
LEMMA AskKeepsCalls ==
  ASSUME TypeInv, NEW g \in Getters, NEW d \in Services, Ask(g, d), NEW i \in DOMAIN stack[g]
  PROVE  \E asks \in SUBSET stack[g][i].asks : stack'[g][i] = [stack[g][i] EXCEPT !.asks = asks]
<1>1. \/ stack'[g][i] = stack[g][i]
      \/ stack'[g][i] = [stack[g][i] EXCEPT !.asks = stack[g][i].asks \ {d}]
  BY AskEffect
<1>2. stack[g][i] \in AnyCall
  BY ElementOfSeq, LenProperties DEF TypeInv
<1>3. stack[g][i] = [stack[g][i] EXCEPT !.asks = stack[g][i].asks]
  BY <1>2 DEF AnyCall
<1> QED
  BY <1>1, <1>3

\* The bound of all these counts.
LEMMA NumberOfGetters == Cardinality(Getters) \in Nat
BY FiniteAssumption, FS_CardinalityType

\* Who is in a construction can be counted.
LEMMA BusyFinite ==
  ASSUME NEW s
  PROVE  /\ IsFiniteSet(Constructing(s)) /\ Cardinality(Constructing(s)) \in Nat
         /\ IsFiniteSet(Constructing(s) \union Storing(s))
         /\ Cardinality(Constructing(s) \union Storing(s)) \in Nat
         /\ Cardinality(Constructing(s) \union Storing(s)) <= Cardinality(Getters)
<1>1. Constructing(s) \in SUBSET Getters /\ Constructing(s) \union Storing(s) \in SUBSET Getters
  BY DEF Constructing, Storing
<1> QED
  BY <1>1, FiniteAssumption, FS_Subset, FS_CardinalityType

\* No version is beyond what the calls of Update allow.
LEMMA VersionBound ==
  ASSUME TInv, NEW s \in Services
  PROVE  /\ registered[s] \in 0 .. (MaxUpdates + 1) /\ constructor[s] = registered[s]
         /\ constructor[s] # 0 => constructor[s] \in 1 .. (MaxUpdates + 1)
<1>1. constructor[s] = registered[s] /\ registered[s] \in Nat
  BY DEF TInv, IInv, TypeInv, NoLostUpdate
<1>2. updates \in Nat /\ updates <= MaxUpdates /\ MaxUpdates \in Nat
  BY ContainerAssumption DEF TInv, VersionInv
<1>3. registered[s] <= updates + 0 \/ registered[s] <= updates + 1
  BY DEF TInv, VersionInv
<1> QED
  BY <1>1, <1>2, <1>3

\* Instances are made by versions and in numbers that are in range.
LEMMA StepBound ==
  ASSUME TInv, [Next]_vars
  PROVE  BoundInv'
<1> USE DEF TInv
<1>1. ASSUME NEW g \in Getters, NEW s \in Services, RLock(g, s) PROVE BoundInv'
  <2>1. Call(s) \in Calls /\ Call(s).phase = "lookup"
    BY <1>1, ContainerAssumption DEF Call, Calls
  <2> QED
    BY <1>1, <2>1, FirstCall, OthersKept DEF BoundInv, serviceMap, history
<1>2. ASSUME NEW g \in Getters, LookupReturns(g) \/ Store(g) PROVE BoundInv'
  <2> DEFINE n == Len(stack[g])
             s == stack[g][n].service
             result == IF LookupReturns(g) THEN instance[s] ELSE stack[g][n].made
  <2>1. n \in DOMAIN stack[g] /\ stack[g][n] \in AnyCall /\ s \in Services /\ Top(g) = stack[g][n]
    BY <1>2, LastCall DEF AnyCall
  <2>2. result \in Instances \union {Nil}
    BY <2>1 DEF BoundInv, Calls
  <2>3. handedOut' = IF result = Nil THEN handedOut
                     ELSE [handedOut EXCEPT ![s] = @ \union {result}]
    BY <1>2, <2>1 DEF LookupReturns, Store, Return, At
  <2>4. instance' = instance \/ instance' = [instance EXCEPT ![s] = result]
    BY <1>2, <2>1 DEF LookupReturns, Store, serviceMap, At
  <2> HIDE DEF result, s
  <2>5. handedOut' \in [Services -> SUBSET Instances]
    BY <2>1, <2>2, <2>3 DEF BoundInv
  <2>6. instance' \in [Services -> Instances \union {Nil}]
    BY <2>1, <2>2, <2>4 DEF BoundInv
  <2>7. \A h \in Getters \ {g} : stack'[h] = stack[h]
    BY <1>2, OthersKept DEF GetStep
  <2> QED
    BY <1>2, <2>5, <2>6, <2>7, LastCall DEF BoundInv
<1>3. ASSUME NEW g \in Getters, LookupConstructs(g) PROVE BoundInv'
  <2> DEFINE n == Len(stack[g])
             s == stack[g][n].service
  <2>1. s \in Services /\ constructor[s] \in 1 .. (MaxUpdates + 1)
    <3>1. s \in Services /\ constructor[s] # 0
      BY <1>3, TopConstructs DEF AnyCall
    <3> HIDE DEF s
    <3> QED
      BY <3>1, VersionBound
  <2>2. stack[g][n] \in Calls
    BY <1>3, TopConstructs DEF BoundInv
  <2>3. stack'[g][n] \in Calls /\ stack'[g][n].version # 0
    BY <1>3, <2>1, <2>2, TopConstructs, ContainerAssumption DEF AnyCall, Calls
  <2>4. \A h \in Getters \ {g} : stack'[h] = stack[h]
    BY <1>3, OthersKept DEF GetStep
  <2> QED
    BY <1>3, <2>3, <2>4, TopConstructs DEF BoundInv, serviceMap, history
<1>4. ASSUME NEW g \in Getters, NEW d \in Services, Ask(g, d) PROVE BoundInv'
  <2> DEFINE n == Len(stack[g])
  <2>1. UNCHANGED <<instance, handedOut>>
    BY <1>4 DEF Ask, serviceMap, history
  <2>2. Call(d) \in Calls /\ Call(d).phase = "lookup"
    BY <1>4, ContainerAssumption DEF Call, Calls
  <2>3. ASSUME NEW i \in DOMAIN stack[g]
        PROVE  stack'[g][i] \in Calls /\ (stack'[g][i].phase # "lookup" => stack'[g][i].version # 0)
    <3>1. stack[g][i] \in Calls /\ (stack[g][i].phase # "lookup" => stack[g][i].version # 0)
      BY DEF BoundInv
    <3>2. TypeInv
      BY DEF IInv
    <3>3. PICK asks \in SUBSET stack[g][i].asks :
            stack'[g][i] = [stack[g][i] EXCEPT !.asks = asks]
      BY <1>4, <3>2, AskKeepsCalls
    <3> QED
      BY <3>1, <3>3 DEF Calls
  <2>4. \A i \in DOMAIN stack'[g] : i \in DOMAIN stack[g] \/ i = n + 1
    <3>1. n \in Nat /\ DOMAIN stack[g] = 1..n
      BY <1>4, TopCall DEF IInv, Ask, At
    <3>2. DOMAIN stack'[g] = 1..(n + 1)
      BY <1>4, AskEffect DEF IInv
    <3> HIDE DEF n
    <3> QED
      BY <3>1, <3>2
  <2>5. stack'[g][n + 1] = Call(d)
    BY <1>4, AskEffect DEF IInv
  <2>6. \A h \in Getters \ {g} : stack'[h] = stack[h]
    BY <1>4, OthersKept DEF GetStep
  <2> HIDE DEF n
  <2> QED
    BY <2>1, <2>2, <2>3, <2>4, <2>5, <2>6 DEF BoundInv
<1>5. ASSUME NEW g \in Getters, Construct(g) PROVE BoundInv'
  <2> DEFINE n == Len(stack[g])
             s == stack[g][n].service
  <2>1. /\ n \in DOMAIN stack[g] /\ stack[g][n] \in AnyCall /\ s \in Services
        /\ stack[g][n].phase = "constructing"
    BY <1>5, TopStores DEF AnyCall
  <2>2. stack[g][n] \in Calls /\ stack[g][n].version \in 1 .. (MaxUpdates + 1)
    BY <2>1, ContainerAssumption DEF BoundInv, Calls, AnyCall
  \* g is one of those that construct s.
  <2>3. built'[s] \in 0 .. Cardinality(Getters)
    <3>1. g \in Constructing(s)
      BY <2>1 DEF Constructing, In
    <3>2. Cardinality(Constructing(s)) \in Nat /\ Cardinality(Constructing(s)) # 0
      BY <3>1, BusyFinite, FS_EmptySet
    <3>3. built[s] \in Nat /\ built[s] + Cardinality(Constructing(s)) <= Cardinality(Getters)
      BY <2>1 DEF CountInv, Counted, IInv, TypeInv
    <3>4. built'[s] = built[s] \/ built'[s] = built[s] + 1
      BY <1>5, TopStores
    <3> HIDE DEF s
    <3> QED
      BY <3>2, <3>3, <3>4, NumberOfGetters
  <2>4. stack'[g][n].made \in Instances \union {Nil}
    <3>1. \/ stack'[g][n].made = [version |-> stack[g][n].version, nth |-> built'[s]]
          \/ stack'[g][n].made = Nil
      BY <1>5, TopStores
    <3> QED
      BY <2>2, <2>3, <3>1 DEF Instances
  <2>5. stack'[g][n] \in Calls /\ stack'[g][n].version # 0
    <3>1. /\ stack'[g][n] \in AnyCall /\ stack'[g][n].version = stack[g][n].version
      BY <1>5, TopStores
    <3> QED
      BY <2>2, <2>4, <3>1 DEF AnyCall, Calls
  <2>6. \A h \in Getters \ {g} : stack'[h] = stack[h]
    BY <1>5, OthersKept DEF GetStep
  <2>7. /\ UNCHANGED <<instance, handedOut>> /\ DOMAIN stack'[g] = DOMAIN stack[g]
        /\ \A i \in DOMAIN stack[g] \ {n} : stack'[g][i] = stack[g][i]
    BY <1>5, TopStores DEF serviceMap
  <2> HIDE DEF n, s
  <2> QED
    BY <2>5, <2>6, <2>7 DEF BoundInv
<1>6. ASSUME NEW u \in Updaters, NEW s \in Services, Register(u, s) PROVE BoundInv'
  BY <1>6 DEF Register, BoundInv
<1>7. CASE UNCHANGED <<stack, instance, handedOut>>
  BY <1>7 DEF BoundInv
<1> QED
  BY <1>1, <1>2, <1>3, <1>4, <1>5, <1>6, <1>7
     DEF Next, GetStep, UpdateStep, Terminated, StoreBegin, LockBegin, Unlock, history, serviceMap,
         vars

\* Steps that begin and end no construction.
LEMMA CountKept ==
  ASSUME NEW s \in Services, Counted(s), built'[s] = built[s], constructor'[s] = constructor[s],
         Constructing(s)' = Constructing(s),
         <<s, constructor[s]>> \notin NilMakers /\ instance'[s] = Nil =>
           instance[s] = Nil /\ Storing(s)' = Storing(s)
  PROVE  Counted(s)'
BY DEF Counted

\* A lookup that finds no instance: as g is in no other call for s, there is one
\* more in a construction.
LEMMA OneMoreConstructs ==
  ASSUME TInv, NEW g \in Getters, NEW s \in Services,
         g \notin Constructing(s) \union Storing(s),
         Constructing(s)' = Constructing(s) \union {g}, Storing(s)' = Storing(s),
         instance[s] = Nil, UNCHANGED <<built, instance, constructor>>
  PROVE  Counted(s)'
<1> DEFINE C == Constructing(s)
           B == Constructing(s) \union Storing(s)
<1>1. IsFiniteSet(C) /\ IsFiniteSet(B) /\ Cardinality(C) \in Nat /\ Cardinality(B) \in Nat
  BY BusyFinite
<1>2. /\ Cardinality(C \union {g}) = Cardinality(C) + 1
      /\ Cardinality(B \union {g}) = Cardinality(B) + 1
  BY <1>1, FS_AddElement
<1>3. /\ built[s] \in Nat
      /\ <<s, constructor[s]>> \in NilMakers => built[s] = 0
      /\ <<s, constructor[s]>> \notin NilMakers => built[s] + Cardinality(C) <= Cardinality(B)
  BY DEF TInv, CountInv, Counted, IInv, TypeInv
<1>4. B \union {g} \subseteq Getters
  BY DEF Constructing, Storing
<1>5. Cardinality(B \union {g}) <= Cardinality(Getters) /\ Cardinality(B \union {g}) \in Nat
  BY <1>4, FiniteAssumption, FS_Subset, FS_CardinalityType
<1>6. Constructing(s)' \union Storing(s)' = B \union {g}
  OBVIOUS
<1>7. C \union {g} \subseteq B \union {g} /\ IsFiniteSet(B \union {g})
  BY <1>1, FS_AddElement
<1>8. Cardinality(C \union {g}) <= Cardinality(B \union {g})
  BY <1>7, FS_Subset
<1> HIDE DEF C, B
<1>9. /\ <<s, constructor[s]>> \notin NilMakers =>
           built[s] + Cardinality(C \union {g}) <= Cardinality(B \union {g})
      /\ built[s] + Cardinality(C \union {g}) <= Cardinality(Getters)
  BY <1>1, <1>2, <1>3, <1>5, <1>8, NumberOfGetters
<1>10. Constructing(s)' = C \union {g}
  BY DEF C
<1> QED
  BY <1>3, <1>6, <1>9, <1>10 DEF Counted

\* A constructor returns: one less constructs, and one more has been constructed,
\* if it is counted.
LEMMA OneMoreConstructed ==
  ASSUME TInv, NEW g \in Getters, NEW s \in Services, g \in Constructing(s),
         Constructing(s)' = Constructing(s) \ {g}, Storing(s)' = Storing(s) \union {g},
         built'[s] = IF <<s, constructor[s]>> \in NilMakers THEN built[s] ELSE built[s] + 1,
         UNCHANGED <<instance, constructor>>
  PROVE  Counted(s)'
<1> DEFINE C == Constructing(s)
           B == Constructing(s) \union Storing(s)
<1>1. IsFiniteSet(C) /\ Cardinality(C) \in Nat /\ Cardinality(B) \in Nat
  BY BusyFinite
<1>2. Cardinality(C \ {g}) = Cardinality(C) - 1
  BY <1>1, FS_RemoveElement
<1>3. Counted(s) /\ built[s] \in Nat
  BY DEF TInv, CountInv, IInv, TypeInv
<1>4. Constructing(s)' \union Storing(s)' = B /\ Constructing(s)' = C \ {g}
  OBVIOUS
<1>5. /\ <<s, constructor[s]>> \notin NilMakers =>
           built'[s] + Cardinality(C \ {g}) = built[s] + Cardinality(C)
      /\ built'[s] + Cardinality(C \ {g}) <= built[s] + Cardinality(C)
      /\ built'[s] + Cardinality(C \ {g}) \in Int /\ built[s] + Cardinality(C) \in Int
  BY <1>1, <1>2, <1>3
<1>6. built'[s] + Cardinality(C \ {g}) <= Cardinality(Getters)
  BY <1>3, <1>5, NumberOfGetters DEF Counted
<1> HIDE DEF C, B
<1> QED
  BY <1>3, <1>4, <1>5, <1>6 DEF Counted, C, B

\* The two bounds on what was constructed, action by action.
LEMMA StepCount ==
  ASSUME TInv, [Next]_vars
  PROVE  CountInv'
<1>1. TypeInv /\ IInv /\ StackInv /\ LockInv /\ \A s \in Services : Counted(s)
  BY DEF TInv, IInv, CountInv
<1>2. \A g \in Getters, s \in Services :
        /\ In(g, s, "constructing") <=> g \in Constructing(s)
        /\ In(g, s, "storing") <=> g \in Storing(s)
  BY DEF Constructing, Storing, In
\* Calls that begin, end or ask while in the lookup.
<1>3. ASSUME NEW g \in Getters, (\E t \in Services : RLock(g, t)) \/ LookupReturns(g)
                                  \/ (\E d \in Services : Ask(g, d)),
             NEW s \in Services
      PROVE  Counted(s)'
  <2>1. \A h \in Getters \ {g} : stack'[h] = stack[h]
    BY <1>1, <1>3, OthersKept DEF GetStep
  <2>2. UNCHANGED <<built, instance, constructor>>
    BY <1>3 DEF RLock, LookupReturns, Ask, Return, serviceMap, history
  <2>3. /\ In(g, s, "constructing")' = In(g, s, "constructing")
        /\ In(g, s, "storing")' = In(g, s, "storing")
    <3>1. ASSUME NEW t \in Services, RLock(g, t)
          PROVE  /\ In(g, s, "constructing")' = In(g, s, "constructing")
                 /\ In(g, s, "storing")' = In(g, s, "storing")
      <4>1. DOMAIN stack[g] = {} /\ DOMAIN stack'[g] = {1} /\ stack'[g][1].phase = "lookup"
        <5>1. stack[g] = <<>> /\ DOMAIN stack'[g] = {1} /\ stack'[g][1] = Call(t)
          BY <1>1, <3>1, FirstCall
        <5> QED
          BY <5>1 DEF Call
      <4> QED
        BY <4>1 DEF In
    <3>2. CASE LookupReturns(g)
      BY <1>1, <3>2, LastCall DEF In
    <3>3. ASSUME NEW d \in Services, Ask(g, d)
          PROVE  /\ In(g, s, "constructing")' = In(g, s, "constructing")
                 /\ In(g, s, "storing")' = In(g, s, "storing")
      <4>1. \A i \in DOMAIN stack'[g] :
              \/ stack'[g][i].phase = "lookup"
              \/ /\ i \in DOMAIN stack[g] /\ stack'[g][i].phase = stack[g][i].phase
                 /\ stack'[g][i].service = stack[g][i].service
        BY <1>1, <3>3, AskEffect
      <4>2. \A i \in DOMAIN stack[g] : i \in DOMAIN stack'[g]
        BY <1>1, <3>3, AskEffect
      <4>3. ASSUME NEW i \in DOMAIN stack[g]
            PROVE  /\ stack'[g][i].phase = stack[g][i].phase
                   /\ stack'[g][i].service = stack[g][i].service
        <5>1. PICK asks \in SUBSET stack[g][i].asks :
                stack'[g][i] = [stack[g][i] EXCEPT !.asks = asks]
          BY <1>1, <3>3, AskKeepsCalls
        <5>2. stack[g][i] \in AnyCall
          BY <1>1, ElementOfSeq, LenProperties DEF TypeInv
        <5> QED
          BY <5>1, <5>2 DEF AnyCall
      <4> QED
        BY <4>1, <4>2, <4>3 DEF In
    <3> QED
      BY <1>3, <3>1, <3>2, <3>3
  <2>4. Constructing(s)' = Constructing(s) /\ Storing(s)' = Storing(s)
    BY <1>2, <2>1, <2>3 DEF Constructing, Storing, In
  <2> QED
    BY <1>1, <2>2, <2>4, CountKept
<1>4. ASSUME NEW g \in Getters, LookupConstructs(g), NEW s \in Services PROVE Counted(s)'
  <2> DEFINE n == Len(stack[g])
  <2>1. \A h \in Getters \ {g} : stack'[h] = stack[h]
    BY <1>1, <1>4, OthersKept DEF GetStep
  <2>2. /\ n \in DOMAIN stack[g] /\ stack[g][n].phase = "lookup"
        /\ DOMAIN stack'[g] = DOMAIN stack[g]
        /\ instance[stack[g][n].service] = Nil
        /\ \A i \in DOMAIN stack[g] \ {n} : stack'[g][i] = stack[g][i]
        /\ stack'[g][n].service = stack[g][n].service /\ stack'[g][n].phase = "constructing"
        /\ UNCHANGED <<built, instance, constructor>>
    BY <1>1, <1>4, TopConstructs DEF serviceMap, history
  <2>3. \A i \in DOMAIN stack[g] : stack[g][i].service = stack[g][n].service => i = n
    BY <1>1, <2>2, DistinctCalls
  <2> HIDE DEF n
  <2>4. In(g, s, "storing")' = In(g, s, "storing")
    BY <2>2 DEF In
  <2>5. CASE s = stack[g][n].service
    <3>1. ~In(g, s, "constructing") /\ ~In(g, s, "storing")
      BY <2>2, <2>3, <2>5 DEF In
    <3>2. In(g, s, "constructing")'
      BY <2>2, <2>5 DEF In
    <3>3. Constructing(s)' = Constructing(s) \union {g} /\ Storing(s)' = Storing(s)
      BY <2>1, <2>4, <3>1, <3>2 DEF Constructing, Storing, In
    <3> QED
      BY <1>2, <2>2, <2>5, <3>1, <3>3, OneMoreConstructs
  <2>6. CASE s # stack[g][n].service
    <3>1. In(g, s, "constructing")' = In(g, s, "constructing")
      BY <2>2, <2>6 DEF In
    <3>2. Constructing(s)' = Constructing(s) /\ Storing(s)' = Storing(s)
      BY <2>1, <2>4, <3>1 DEF Constructing, Storing, In
    <3> QED
      BY <1>1, <2>2, <3>2, CountKept
  <2> QED
    BY <2>5, <2>6
<1>5. ASSUME NEW g \in Getters, Construct(g), NEW s \in Services PROVE Counted(s)'
  <2> DEFINE n == Len(stack[g])
  <2>1. \A h \in Getters \ {g} : stack'[h] = stack[h]
    BY <1>1, <1>5, OthersKept DEF GetStep
  <2>2. /\ n \in DOMAIN stack[g] /\ stack[g][n].phase = "constructing"
        /\ DOMAIN stack'[g] = DOMAIN stack[g]
        /\ \A i \in DOMAIN stack[g] \ {n} : stack'[g][i] = stack[g][i]
        /\ stack'[g][n].service = stack[g][n].service /\ stack'[g][n].phase = "storing"
        /\ stack[g][n].version = constructor[stack[g][n].service]
        /\ built' = [built EXCEPT ![stack[g][n].service] =
                       IF <<stack[g][n].service, stack[g][n].version>> \in NilMakers
                       THEN @ ELSE @ + 1]
        /\ UNCHANGED <<instance, constructor>>
    BY <1>1, <1>5, TopStores DEF serviceMap
  <2>3. \A i \in DOMAIN stack[g] : stack[g][i].service = stack[g][n].service => i = n
    BY <1>1, <2>2, DistinctCalls
  <2> HIDE DEF n
  <2>4. CASE s = stack[g][n].service
    <3>1. In(g, s, "constructing") /\ ~In(g, s, "constructing")' /\ In(g, s, "storing")'
      BY <2>2, <2>3, <2>4 DEF In
    <3>2. Constructing(s)' = Constructing(s) \ {g} /\ Storing(s)' = Storing(s) \union {g}
      BY <2>1, <3>1 DEF Constructing, Storing, In
    <3>3. built'[s] = IF <<s, constructor[s]>> \in NilMakers THEN built[s] ELSE built[s] + 1
      BY <1>1, <2>2, <2>4 DEF TypeInv
    <3> QED
      BY <1>2, <2>2, <3>1, <3>2, <3>3, OneMoreConstructed
  <2>5. CASE s # stack[g][n].service
    <3>1. /\ In(g, s, "constructing")' = In(g, s, "constructing")
          /\ In(g, s, "storing")' = In(g, s, "storing")
      BY <2>2, <2>5 DEF In
    <3>2. Constructing(s)' = Constructing(s) /\ Storing(s)' = Storing(s)
      BY <2>1, <3>1 DEF Constructing, Storing, In
    <3>3. built'[s] = built[s]
      BY <1>1, <2>2, <2>5 DEF TypeInv
    <3> QED
      BY <1>1, <2>2, <3>2, <3>3, CountKept
  <2> QED
    BY <2>4, <2>5
\* The instance is in the map: from now on nobody begins to construct another.
<1>6. ASSUME NEW g \in Getters, Store(g), NEW s \in Services PROVE Counted(s)'
  <2> DEFINE n == Len(stack[g])
             t == stack[g][n].service
  <2>1. \A h \in Getters \ {g} : stack'[h] = stack[h]
    BY <1>1, <1>6, OthersKept DEF GetStep
  <2>2. /\ n \in DOMAIN stack[g] /\ stack[g][n].phase = "storing" /\ stack[g][n] = Top(g)
        /\ DOMAIN stack'[g] = DOMAIN stack[g] \ {n}
        /\ \A i \in DOMAIN stack'[g] : stack'[g][i] = stack[g][i]
        /\ built' = built
    <3>1. ~LookupReturns(g)
      BY <1>6 DEF Store, LookupReturns, At
    <3> QED
      BY <1>1, <1>6, <3>1, LastCall
  <2>3. /\ stack[g][n].version = constructor[t] /\ stack[g][n] \in AnyCall
        /\ <<t, constructor[t]>> \notin NilMakers => stack[g][n].made # Nil
    <3>1. stack[g][n] \in AnyCall
      BY <1>6, <1>1, LastCall
    <3>2. stack[g][n].version = constructor[t] /\ MadeBy(stack[g][n])
      BY <1>1, <2>2 DEF IInv, CallInv
    <3> HIDE DEF n
    <3> QED
      BY <3>1, <3>2, FiniteAssumption DEF MadeBy, AnyInstance
  <2>4. /\ instance' = [instance EXCEPT ![t] = stack[g][n].made]
        /\ constructor' = constructor
    BY <1>1, <1>6, <2>2, <2>3 DEF Store, TypeInv
  <2>5. In(g, s, "constructing")' = In(g, s, "constructing")
    BY <2>2 DEF In
  <2>6. Constructing(s)' = Constructing(s)
    BY <2>1, <2>5 DEF Constructing, In
  <2>7. CASE s = t
    <3>1. <<s, constructor[s]>> \notin NilMakers => instance'[s] # Nil
      BY <1>1, <2>3, <2>4, <2>7 DEF TypeInv
    <3>2. Counted(s) /\ built'[s] = built[s] /\ constructor'[s] = constructor[s]
      BY <1>1, <2>2, <2>4
    <3> QED
      BY <2>6, <3>1, <3>2, CountKept
  <2>8. CASE s # t
    <3>1. In(g, s, "storing")' = In(g, s, "storing")
      BY <2>2, <2>8 DEF In
    <3>2. instance'[s] = instance[s]
      BY <1>1, <2>4, <2>8 DEF TypeInv
    <3>3. \A h \in Getters : In(h, s, "storing")' = In(h, s, "storing")
      BY <2>1, <3>1 DEF In
    <3>4. Storing(s)' = Storing(s)
      BY <3>3 DEF Storing
    <3> QED
      BY <1>1, <2>2, <2>4, <2>6, <3>2, <3>4, CountKept
  <2> QED
    BY <2>7, <2>8
\* With the write lock held nobody is in a construction.
<1>7. ASSUME NEW u \in Updaters, NEW t \in Services, Register(u, t), NEW s \in Services
      PROVE  Counted(s)'
  <2>1. UNCHANGED stack /\ readers = {} /\ built' = [built EXCEPT ![t] = 0]
        /\ instance' = [instance EXCEPT ![t] = Nil]
        /\ \E v : constructor' = [constructor EXCEPT ![t] = v]
    BY <1>7 DEF Register
  <2>2. Constructing(s)' = Constructing(s) /\ Storing(s)' = Storing(s)
    BY <2>1 DEF Constructing, Storing, In
  <2>3. CASE s = t
    <3>1. Constructing(s) = {} /\ Storing(s) = {}
      BY <1>1, <2>1 DEF Constructing, Storing, In, IInv, CallInv
    <3>2. built'[s] = 0 /\ Cardinality({}) = 0
      BY <1>1, <2>1, <2>3, FS_EmptySet DEF TypeInv
    <3>3. Constructing(s)' = {} /\ Constructing(s)' \union Storing(s)' = {}
      BY <2>2, <3>1
    <3>4. Cardinality(Constructing(s))' = 0 /\ Cardinality(Constructing(s) \union Storing(s))' = 0
      BY <3>2, <3>3
    <3> HIDE DEF Constructing, Storing
    <3> QED
      BY <3>2, <3>4, NumberOfGetters DEF Counted
  <2>4. CASE s # t
    <3>1. built'[s] = built[s] /\ instance'[s] = instance[s] /\ constructor'[s] = constructor[s]
      BY <1>1, <2>1, <2>4 DEF TypeInv
    <3> QED
      BY <1>1, <2>2, <3>1, CountKept
  <2> QED
    BY <2>3, <2>4
<1>8. ASSUME UNCHANGED <<stack, built, instance, constructor>>, NEW s \in Services PROVE Counted(s)'
  <2>1. Constructing(s)' = Constructing(s) /\ Storing(s)' = Storing(s)
    BY <1>8 DEF Constructing, Storing, In
  <2> QED
    BY <1>1, <1>8, <2>1, CountKept
<1>9. ASSUME NEW s \in Services PROVE Counted(s)'
  BY <1>3, <1>4, <1>5, <1>6, <1>7, <1>8
     DEF Next, GetStep, UpdateStep, Terminated, StoreBegin, LockBegin, Unlock, history, serviceMap,
         vars
<1> QED
  BY <1>9 DEF CountInv

-----------------------------------------------------------------------------
LEMMA StepTInv == TInv /\ [Next]_vars => TInv'
<1> SUFFICES ASSUME TInv, [Next]_vars PROVE TInv'
  OBVIOUS
<1>1. IInv'
  BY ContainerAssumption, StepIInv DEF TInv
<1>2. LockInv' /\ VersionInv' /\ StackInv' /\ CountInv' /\ BoundInv'
  BY StepLock, StepVersion, StepStack, StepCount, StepBound
<1> QED
  BY <1>1, <1>2 DEF TInv

\* The numbers TypeOK bounds, from what the invariant counts.
LEMMA TypeFromTInv ==
  ASSUME TInv
  PROVE  TypeOK
<1>1. IInv /\ LockInv /\ VersionInv /\ StackInv /\ CountInv /\ BoundInv /\ TypeInv
  BY DEF TInv, IInv
<1>2. /\ constructor \in [Services -> 0..(MaxUpdates + 1)]
      /\ registered \in [Services -> 0..(MaxUpdates + 1)]
  <2>1. \A s \in Services : /\ constructor[s] \in 0..(MaxUpdates + 1)
                            /\ registered[s] \in 0..(MaxUpdates + 1)
    BY VersionBound
  <2> QED
    BY <1>1, <2>1 DEF TypeInv
<1>3. writing \subseteq readers
  BY <1>1 DEF LockInv
<1>4. \A g \in Getters : /\ Len(stack[g]) <= Cardinality(Services)
                         /\ \A i \in DOMAIN stack[g] : stack[g][i] \in Calls
  BY <1>1, DepthBound DEF BoundInv
<1>5. built \in [Services -> 0..Cardinality(Getters)]
  <2>1. ASSUME NEW s \in Services PROVE built[s] \in 0..Cardinality(Getters)
    <3>1. built[s] \in Nat /\ built[s] + Cardinality(Constructing(s)) <= Cardinality(Getters)
      BY <1>1 DEF TypeInv, CountInv, Counted
    <3>2. Cardinality(Constructing(s)) \in Nat
      BY BusyFinite
    <3> HIDE DEF Constructing
    <3> QED
      BY <3>1, <3>2, NumberOfGetters
  <2> QED
    BY <1>1, <2>1 DEF TypeInv
<1> QED
  BY <1>1, <1>2, <1>3, <1>4, <1>5 DEF TypeOK, LockInv, BoundInv, VersionInv

\* However many Gets race to construct a service, it is constructed at most once
\* per getter and registration, unless its constructor may return nil, and calls
\* nest no deeper than there are services.
THEOREM TypeCorrect == Spec => []TypeOK
BY InitTInv, StepTInv, TypeFromTInv, PTL DEF Spec

=============================================================================
