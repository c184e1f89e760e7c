---------------------------- MODULE DiContainer ----------------------------
(***************************************************************************)
(* The dependency injection container of pkg/di/container.go: a map from   *)
(* service names to constructors and the instances they made, under a      *)
(* sync.RWMutex.  Update replaces constructors under the write lock; Get   *)
(* holds the read lock only, although the get it wraps writes to the map   *)
(* when it constructs an instance.                                         *)
(*                                                                         *)
(* A constructor asks for other services through the get it is given, so a *)
(* Get is a stack of calls.  It is modelled one map access at a time, as   *)
(* other Gets go on between them.  The map is Go's: an access while        *)
(* another goroutine writes may be detected, which ends the program, or    *)
(* not.                                                                    *)
(***************************************************************************)
EXTENDS Naturals, Sequences, FiniteSets

CONSTANTS
  Getters,    \* goroutines that call Get
  Updaters,   \* goroutines that call Update
  Services,   \* service names
  Dep,        \* what the constructor of each service asks get for
  NilMakers,  \* the registrations, <<service, version>>, whose constructor may return nil
  MaxUpdates, \* bound: calls of Update, after that of NewContainer
  Nobody,     \* no updater
  Nil         \* Go's nil, as an instance

ASSUME ContainerAssumption ==
  /\ Dep \in [Services -> SUBSET Services]
  /\ NilMakers \subseteq Services \X Nat
  /\ MaxUpdates \in Nat
  /\ Nobody \notin Updaters

\* For what is counted: goroutines and services are finitely many.
ASSUME FiniteAssumption ==
  /\ IsFiniteSet(Getters) /\ IsFiniteSet(Services)
  /\ Nil \notin [version : Nat, nth : Nat]

\* A service that needs itself to be constructed never is: the calls of get
\* would not end.
ASSUME NoCycle ==
  \E rank \in [Services -> 0..Cardinality(Services)] :
    \A s \in Services : \A d \in Dep[s] : rank[d] < rank[s]

VARIABLES
  constructor, \* version of the constructor in the map, 0 if there is no entry
  instance,    \* the instance in the map
  writing,     \* the getters that are storing to the map
  readers,     \* the getters that hold the read lock
  blocked,     \* the getters that wait for it
  pending,     \* the updater that holds or waits for the write lock
  todo,        \* the services an updater still has to register
  stack,       \* the calls of get each getter is in, innermost last
  crashed,     \* the runtime has detected a concurrent map access
  registered,  \* history: version of the latest constructor Update was given
  built,       \* history: how often the current constructor has run, unless it may return nil
  handedOut,   \* history: the instances returned since the latest Update
  updates      \* calls of Update so far

locks == <<readers, blocked, pending>>
serviceMap == <<constructor, instance>>
history == <<registered, built, handedOut, updates>>
vars == <<serviceMap, writing, locks, todo, stack, crashed, history>>

\* A call of get: what it is for, and once it has read the map, the constructor
\* it found, the dependencies left to ask for and the instance made.
Call(s) == [service |-> s, phase |-> "lookup", version |-> 0, asks |-> {}, made |-> Nil]

Top(g) == stack[g][Len(stack[g])]

SetTop(g, call) == stack' = [stack EXCEPT ![g][Len(stack[g])] = call]

\* The calls of g when the innermost one has asked for d.
TopAsked(g, d) ==
  [stack[g] EXCEPT ![Len(stack[g])] = [Top(g) EXCEPT !.asks = Top(g).asks \ {d}]]

At(g, phase) == ~crashed /\ stack[g] # <<>> /\ Top(g).phase = phase

\* NewContainer, with some of the services.
Init ==
  /\ constructor \in [Services -> {0, 1}]
  /\ instance = [s \in Services |-> Nil]
  /\ writing = {}
  /\ readers = {}
  /\ blocked = {}
  /\ pending = Nobody
  /\ todo = [u \in Updaters |-> {}]
  /\ stack = [g \in Getters |-> <<>>]
  /\ crashed = FALSE
  /\ registered = constructor
  /\ built = [s \in Services |-> 0]
  /\ handedOut = [s \in Services |-> {}]
  /\ updates = 0

\* The caller of Get enters at the lookup of s, or waits behind a writer.
RLock(g, s) ==
  /\ ~crashed /\ stack[g] = <<>>
  /\ stack' = [stack EXCEPT ![g] = <<Call(s)>>]
  /\ IF pending = Nobody
     THEN readers' = readers \union {g} /\ UNCHANGED blocked
     ELSE blocked' = blocked \union {g} /\ UNCHANGED readers
  /\ UNCHANGED <<serviceMap, writing, pending, todo, crashed, history>>

\* The runtime detects that another goroutine is storing, or does not.
Detect(g) ==
  \/ crashed' = FALSE
  \/ writing \ {g} # {} /\ crashed' = TRUE

\* The innermost call of get returns an instance; the outermost one unlocks.
Return(g, result) ==
  /\ stack' = [stack EXCEPT ![g] = SubSeq(@, 1, Len(@) - 1)]
  /\ readers' = IF Len(stack[g]) = 1 THEN readers \ {g} ELSE readers
  /\ handedOut' = IF result = Nil THEN handedOut
                  ELSE [handedOut EXCEPT ![Top(g).service] = @ \union {result}]
  /\ UNCHANGED <<blocked, pending, registered, built, updates>>

\* get finds no entry, or an instance to return.
LookupReturns(g) ==
  LET s == Top(g).service IN
  /\ At(g, "lookup") /\ g \in readers
  /\ constructor[s] = 0 \/ instance[s] # Nil
  /\ Detect(g)
  /\ Return(g, instance[s])
  /\ UNCHANGED <<serviceMap, writing, todo>>

\* get finds a constructor only, of which it works with a copy.
LookupConstructs(g) ==
  LET s == Top(g).service IN
  /\ At(g, "lookup") /\ g \in readers
  /\ constructor[s] # 0 /\ instance[s] = Nil
  /\ Detect(g)
  /\ SetTop(g, [Top(g) EXCEPT !.phase = "constructing", !.version = constructor[s],
                              !.asks = Dep[s]])
  /\ UNCHANGED <<serviceMap, writing, locks, todo, history>>

\* Faulty variant: the constructor is given Get, which locks again.
AskThroughGet(g, d) ==
  /\ At(g, "constructing") /\ d \in Top(g).asks
  /\ stack' = IF pending = Nobody
              THEN [stack EXCEPT ![g] = Append(TopAsked(g, d), Call(d))] ELSE stack
  /\ UNCHANGED <<serviceMap, writing, locks, todo, crashed, history>>

\* The constructor asks for one of the services it needs.
Ask(g, d) ==
  /\ At(g, "constructing") /\ d \in Top(g).asks
  /\ stack' = [stack EXCEPT ![g] = Append(TopAsked(g, d), Call(d))]
  /\ UNCHANGED <<serviceMap, writing, locks, todo, crashed, history>>

\* The constructor returns a new instance, or nil.  Runs of one that may return
\* nil are not counted, as every get that finds nil runs it again; its instances
\* are not told apart.
Construct(g) ==
  LET s == Top(g).service
      mayBeNil == <<s, Top(g).version>> \in NilMakers IN
  /\ At(g, "constructing") /\ Top(g).asks = {}
  /\ built' = [built EXCEPT ![s] = IF mayBeNil THEN @ ELSE @ + 1]
  /\ \E made \in {[version |-> Top(g).version, nth |-> built'[s]]}
                  \union (IF mayBeNil THEN {Nil} ELSE {}) :
       SetTop(g, [Top(g) EXCEPT !.phase = "storing", !.made = made])
  /\ UNCHANGED <<serviceMap, writing, locks, todo, crashed, registered, handedOut, updates>>

StoreBegin(g) ==
  /\ At(g, "storing") /\ g \notin writing
  /\ Detect(g)
  /\ writing' = writing \union {g}
  /\ UNCHANGED <<serviceMap, locks, todo, stack, history>>

\* Faulty variant: the instance is returned and not kept.
StoreNothing(g) ==
  /\ At(g, "storing") /\ g \in writing
  /\ writing' = writing \ {g}
  /\ Return(g, Top(g).made)
  /\ UNCHANGED <<serviceMap, todo, crashed>>

\* c.serviceMap[serviceName] = service, the copy with the constructor read
\* before; then get returns.  Nil leaves, or puts, no instance there.
Store(g) ==
  LET s == Top(g).service IN
  /\ At(g, "storing") /\ g \in writing
  /\ constructor' = [constructor EXCEPT ![s] = Top(g).version]
  /\ instance' = [instance EXCEPT ![s] = Top(g).made]
  /\ writing' = writing \ {g}
  /\ Return(g, Top(g).made)
  /\ UNCHANGED <<todo, crashed>>

\* Update asks for the write lock: from now on a Get that comes has to wait.
LockBegin(u, new) ==
  /\ ~crashed /\ pending = Nobody /\ todo[u] = {} /\ new # {}
  /\ updates < MaxUpdates
  /\ updates' = updates + 1
  /\ pending' = u
  /\ todo' = [todo EXCEPT ![u] = new]
  /\ UNCHANGED <<serviceMap, writing, readers, blocked, stack, crashed, registered, built, handedOut>>

\* Faulty variant: Update does not wait for the Gets under way.
RegisterUnlocked(u, s) ==
  /\ ~crashed /\ pending = u /\ s \in todo[u]
  /\ registered' = [registered EXCEPT ![s] = @ + 1]
  /\ constructor' = [constructor EXCEPT ![s] = registered'[s]]
  /\ instance' = [instance EXCEPT ![s] = Nil]
  /\ built' = [built EXCEPT ![s] = 0]
  /\ handedOut' = [handedOut EXCEPT ![s] = {}]
  /\ todo' = [todo EXCEPT ![u] = @ \ {s}]
  /\ UNCHANGED <<writing, locks, stack, crashed, updates>>

\* With the lock, it puts the new constructors into the map one by one.
Register(u, s) ==
  /\ ~crashed /\ pending = u /\ readers = {} /\ s \in todo[u]
  /\ registered' = [registered EXCEPT ![s] = @ + 1]
  /\ constructor' = [constructor EXCEPT ![s] = registered'[s]]
  /\ instance' = [instance EXCEPT ![s] = Nil]
  /\ built' = [built EXCEPT ![s] = 0]
  /\ handedOut' = [handedOut EXCEPT ![s] = {}]
  /\ todo' = [todo EXCEPT ![u] = @ \ {s}]
  /\ UNCHANGED <<writing, locks, stack, crashed, updates>>

\* Unlock lets in all the Gets that wait, before the next writer.
Unlock(u) ==
  /\ ~crashed /\ pending = u /\ todo[u] = {}
  /\ pending' = Nobody
  /\ readers' = readers \union blocked
  /\ blocked' = {}
  /\ UNCHANGED <<serviceMap, writing, todo, stack, crashed, history>>

GetStep(g) ==
  \/ LookupReturns(g) \/ LookupConstructs(g)
  \/ \E d \in Services : Ask(g, d)
  \/ Construct(g) \/ StoreBegin(g) \/ Store(g)

UpdateStep(u) == (\E s \in Services : Register(u, s)) \/ Unlock(u)

\* The program has ended.
Terminated == crashed /\ UNCHANGED vars

Next ==
  \/ \E g \in Getters, s \in Services : RLock(g, s)
  \/ \E g \in Getters : GetStep(g)
  \/ \E u \in Updaters, new \in SUBSET Services : LockBegin(u, new)
  \/ \E u \in Updaters : UpdateStep(u)
  \/ Terminated

\* Goroutines run on once they have called Get or Update.
Fairness ==
  /\ \A g \in Getters : WF_vars(GetStep(g))
  /\ \A u \in Updaters : WF_vars(UpdateStep(u))

Spec == Init /\ [][Next]_vars /\ Fairness

-----------------------------------------------------------------------------
Instances == [version : 1..(MaxUpdates + 1), nth : 0..Cardinality(Getters)]

Calls == [service : Services, phase : {"lookup", "constructing", "storing"},
          version : 0..(MaxUpdates + 1), asks : SUBSET Services,
          made : Instances \union {Nil}]

\* Types; the lock: a getter that stores holds the read lock; the calls of get
\* nest no deeper than there are services; and, unless its constructor may return
\* nil, no getter constructs a service twice for one registration, though several
\* may construct it at once.
TypeOK ==
  /\ constructor \in [Services -> 0..(MaxUpdates + 1)]
  /\ instance \in [Services -> Instances \union {Nil}]
  /\ writing \subseteq readers
  /\ readers \subseteq Getters /\ blocked \subseteq Getters
  /\ pending \in Updaters \union {Nobody}
  /\ todo \in [Updaters -> SUBSET Services]
  /\ \A g \in Getters : /\ Len(stack[g]) <= Cardinality(Services)
                        /\ \A i \in DOMAIN stack[g] : stack[g][i] \in Calls
  /\ crashed \in BOOLEAN
  /\ registered \in [Services -> 0..(MaxUpdates + 1)]
  /\ built \in [Services -> 0..Cardinality(Getters)]
  /\ handedOut \in [Services -> SUBSET Instances]
  /\ updates \in 0..MaxUpdates

\* get writes the whole entry back, with the constructor it read before the
\* construction, which takes as long as the constructor likes: even so it never
\* puts back a constructor that Update has replaced meanwhile.
NoLostUpdate ==
  \A s \in Services : constructor[s] = registered[s]

\* What Get and the constructors are handed was made by the constructor that is
\* registered, never by one replaced since.
MadeByRegistered ==
  \A s \in Services : \A i \in handedOut[s] : i.version = registered[s]

\* However deep constructors ask for others, and whoever waits to update
\* meanwhile, a Get and an Update return.
CallsReturn ==
  /\ \A g \in Getters : stack[g] # <<>> ~> stack[g] = <<>> \/ crashed
  /\ \A u \in Updaters : pending = u ~> pending # u \/ crashed

=============================================================================
