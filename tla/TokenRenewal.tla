---------------------------- MODULE TokenRenewal ----------------------------
(***************************************************************************)
(* How the OpenBao client of pkg/secrets/openbao/secrets.go keeps its      *)
(* token: SetAuthToken cancels the renewal of the old token, installs the  *)
(* new one, looks it up at the secret store and starts a goroutine that    *)
(* renews it at intervals and asks a callback for a replacement when the   *)
(* store forbids the renewal.                                              *)
(*                                                                         *)
(* Every call to the store is a step of its own: it takes as long as the   *)
(* network does, and other callers and renewals go on meanwhile.  Only the *)
(* map of cancel functions is locked; the token and the context are plain  *)
(* fields, read anew wherever the code reads them.                         *)
(***************************************************************************)
EXTENDS Naturals

CONSTANTS
  Callers,   \* goroutines that call SetAuthToken
  Tokens,    \* tokens a caller may load or a callback return
  Renewable, \* those the store says can be renewed at some interval
  MaxSets    \* bound: calls of SetAuthToken

ASSUME TokenAssumption == Renewable \subseteq Tokens /\ MaxSets \in Nat \ {0}

\* A context, and the goroutine started under it, are named by the number of
\* the call of SetAuthToken that made them.
Contexts == 1..MaxSets
NoContext == 0

VARIABLES
  token,      \* c.Config.Authentication.AuthToken
  context,    \* c.context
  cancelFunc, \* c.secretStoreTokenToCancelFuncMap
  cancelled,  \* the contexts whose cancel function was called
  shutdown,   \* the context all are derived from is done
  pc,         \* where each caller is in SetAuthToken
  newToken,   \* what it was given
  ctx,        \* the context it made
  renewal,    \* where each goroutine is in doTokenRefreshPeriodically
  waitsOn,    \* the context its select has evaluated
  expired,    \* the tokens the store does not accept any more
  sets,       \* calls of SetAuthToken so far
  started,    \* history: the latest call started a renewal
  gaveUp      \* history: the goroutines that ended because renewing failed

client == <<token, context, cancelFunc>>
contexts == <<cancelled, shutdown, sets>>
callers == <<pc, newToken, ctx>>
renewals == <<renewal, waitsOn>>
tokenVars == <<client, contexts, callers, renewals, expired, started, gaveUp>>

\* Faulty variant: contexts are not derived from the one of the caller.
DoneByCancelOnly(x) == x \in cancelled

Done(x) == shutdown \/ x \in cancelled

\* NewClient; NewSecretsClient then calls SetAuthToken.
TokenInit ==
  /\ token \in Tokens
  /\ context = NoContext
  /\ cancelFunc = [t \in Tokens |-> NoContext]
  /\ cancelled = {}
  /\ shutdown = FALSE
  /\ pc = [c \in Callers |-> "idle"]
  /\ newToken = [c \in Callers |-> token]
  /\ ctx = [c \in Callers |-> NoContext]
  /\ renewal = [x \in Contexts |-> "none"]
  /\ waitsOn = [x \in Contexts |-> NoContext]
  /\ expired = {}
  /\ sets = 0
  /\ started = FALSE
  /\ gaveUp = {}

Goto(c, from, to) == pc[c] = from /\ pc' = [pc EXCEPT ![c] = to]

\* With the lock held, the contexts of the old and of the new token are
\* cancelled.  The first call is that of NewSecretsClient, for its own token.
CancelOld(c, t) ==
  /\ Goto(c, "idle", "installing")
  /\ sets < MaxSets
  /\ sets = 0 => t = token
  /\ sets = 1 => \A d \in Callers : pc[d] = "idle"
  /\ sets' = sets + 1
  /\ newToken' = [newToken EXCEPT ![c] = t]
  /\ ctx' = [ctx EXCEPT ![c] = sets']
  /\ cancelled' = cancelled \union ({cancelFunc[token], cancelFunc[t]} \ {NoContext})
  /\ started' = FALSE
  /\ UNCHANGED <<client, shutdown, renewals, expired, gaveUp>>

Install(c) ==
  /\ Goto(c, "installing", "looking up")
  /\ token' = newToken[c]
  /\ UNCHANGED <<context, cancelFunc, contexts, newToken, ctx, renewals, expired, started, gaveUp>>

\* The store is asked about the token that is installed by now.  A token it
\* does not accept, or any other error, fails the call; one that cannot be
\* renewed needs no goroutine; one close to its end is renewed right away.
LookupToken(c) ==
  /\ \/ Goto(c, "looking up", "failing")
     \/ token \notin expired \union Renewable /\ Goto(c, "looking up", "registering")
     \/ token \in Renewable \ expired
        /\ (Goto(c, "looking up", "starting") \/ Goto(c, "looking up", "renewing"))
  /\ UNCHANGED <<client, contexts, newToken, ctx, renewals, expired, started, gaveUp>>

RenewNow(c) ==
  /\ \/ Goto(c, "renewing", "failing")
     \/ token \notin expired /\ Goto(c, "renewing", "starting")
  /\ UNCHANGED <<client, contexts, newToken, ctx, renewals, expired, started, gaveUp>>

\* Faulty variant: the field keeps the context of the first call.
StartUnderFirstContext(c) ==
  /\ Goto(c, "starting", "registering")
  /\ context' = IF context = NoContext THEN ctx[c] ELSE context
  /\ renewal' = [renewal EXCEPT ![ctx[c]] = "entering"]
  /\ started' = TRUE
  /\ UNCHANGED <<token, cancelFunc, contexts, newToken, ctx, waitsOn, expired, gaveUp>>

\* c.context = ctx, and the goroutine.
Start(c) ==
  /\ Goto(c, "starting", "registering")
  /\ context' = ctx[c]
  /\ renewal' = [renewal EXCEPT ![ctx[c]] = "entering"]
  /\ started' = TRUE
  /\ UNCHANGED <<token, cancelFunc, contexts, newToken, ctx, waitsOn, expired, gaveUp>>

\* The cancel function is kept under the token that is installed by now.
RegisterCancel(c) ==
  /\ Goto(c, "registering", "idle")
  /\ cancelFunc' = [cancelFunc EXCEPT ![token] = ctx[c]]
  /\ UNCHANGED <<token, context, contexts, newToken, ctx, renewals, expired, started, gaveUp>>

\* After an error the new context is cancelled, and no cancel function is kept;
\* the new token stays installed.
Fail(c) ==
  /\ Goto(c, "failing", "idle")
  /\ cancelled' = cancelled \union {ctx[c]}
  /\ cancelFunc' = [cancelFunc EXCEPT ![token] = NoContext]
  /\ UNCHANGED <<token, context, shutdown, sets, newToken, ctx, renewals, expired, started, gaveUp>>

\* SetAuthToken by c.
CallerStep(c) ==
  Install(c) \/ LookupToken(c) \/ RenewNow(c) \/ Start(c) \/ RegisterCancel(c) \/ Fail(c)

-----------------------------------------------------------------------------
RenewalGoto(x, from, to) ==
  renewal[x] = from /\ renewal' = [renewal EXCEPT ![x] = to]

\* The goroutine enters its select, which evaluates c.context.Done() of now.
Enter(x) ==
  /\ RenewalGoto(x, "entering", "waiting")
  /\ waitsOn' = [waitsOn EXCEPT ![x] = context]
  /\ UNCHANGED <<client, contexts, callers, expired, started, gaveUp>>

\* If the context is done as well when the ticker fires, either may be taken.
Dismiss(x) ==
  /\ RenewalGoto(x, "waiting", "ended")
  /\ Done(waitsOn[x])
  /\ UNCHANGED <<client, contexts, callers, waitsOn, expired, started, gaveUp>>

Tick(x) ==
  /\ RenewalGoto(x, "waiting", "renewing")
  /\ UNCHANGED <<client, contexts, callers, waitsOn, expired, started, gaveUp>>

\* The store renews the token that is installed, or answers that it may not
\* be renewed.
Renewed(x) ==
  /\ RenewalGoto(x, "renewing", IF token \in expired THEN "forbidden" ELSE "entering")
  /\ UNCHANGED <<client, contexts, callers, waitsOn, expired, started, gaveUp>>

\* Another error ends the goroutine, as does a callback that finds no
\* replacement, or no callback.
GiveUp(x) ==
  /\ RenewalGoto(x, "renewing", "ended") \/ RenewalGoto(x, "forbidden", "ended")
  /\ gaveUp' = gaveUp \union {x}
  /\ UNCHANGED <<client, contexts, callers, waitsOn, expired, started>>

\* The callback returns a replacement, which becomes the token.
Replace(x, t) ==
  /\ RenewalGoto(x, "forbidden", "entering")
  /\ token' = t
  /\ UNCHANGED <<context, cancelFunc, contexts, callers, waitsOn, expired, started, gaveUp>>

RenewalStep(x) ==
  \/ Enter(x) \/ Dismiss(x) \/ Tick(x) \/ Renewed(x) \/ GiveUp(x)
  \/ \E t \in Tokens : Replace(x, t)

-----------------------------------------------------------------------------
\* A token the store does not accept any more.
Expire(t) ==
  /\ t \notin expired
  /\ expired' = expired \union {t}
  /\ UNCHANGED <<client, contexts, callers, renewals, started, gaveUp>>

\* The context the client was made with is cancelled.
Shutdown ==
  /\ ~shutdown
  /\ shutdown' = TRUE
  /\ UNCHANGED <<client, cancelled, sets, callers, renewals, expired, started, gaveUp>>

\* Nothing is left to do.
Terminated ==
  /\ sets = MaxSets /\ \A c \in Callers : pc[c] = "idle"
  /\ \A x \in Contexts : renewal[x] \in {"none", "ended"}
  /\ UNCHANGED tokenVars

TokenNext ==
  \/ \E c \in Callers, t \in Tokens : CancelOld(c, t)
  \/ \E c \in Callers : CallerStep(c)
  \/ \E x \in Contexts : RenewalStep(x)
  \/ \E t \in Tokens : Expire(t)
  \/ Shutdown
  \/ Terminated

\* A call that was begun goes on and the store answers it; a goroutine runs on,
\* its ticker fires, and a context that stays done is noticed among the ticks.
Fairness ==
  /\ \A c \in Callers : WF_tokenVars(CallerStep(c))
  /\ \A x \in Contexts : WF_tokenVars(RenewalStep(x)) /\ SF_tokenVars(Dismiss(x))

TokenSpec == TokenInit /\ [][TokenNext]_tokenVars /\ Fairness

-----------------------------------------------------------------------------
\* Types; and the context the select reads was made for a goroutine.
TokenTypeOK ==
  /\ token \in Tokens
  /\ context = NoContext \/ (context \in Contexts /\ renewal[context] # "none")
  /\ cancelFunc \in [Tokens -> 0..sets]
  /\ cancelled \subseteq 1..sets
  /\ shutdown \in BOOLEAN
  /\ pc \in [Callers -> {"idle", "installing", "looking up", "renewing", "starting",
                         "registering", "failing"}]
  /\ newToken \in [Callers -> Tokens]
  /\ ctx \in [Callers -> 0..sets]
  /\ renewal \in [Contexts -> {"none", "entering", "waiting", "renewing", "forbidden", "ended"}]
  /\ waitsOn \in [Contexts -> 0..sets]
  /\ \A x \in Contexts : renewal[x] = "waiting" => waitsOn[x] # NoContext
  /\ expired \subseteq Tokens
  /\ sets \in 0..MaxSets
  /\ started \in BOOLEAN
  /\ gaveUp \subseteq Contexts

Alive(x) == renewal[x] \notin {"none", "ended"}

\* The latest call of SetAuthToken has returned with a renewal started, which
\* has not met an error since.
Healthy ==
  /\ started /\ ~shutdown
  /\ \A c \in Callers : pc[c] = "idle"
  /\ context \notin gaveUp

\* While that is so, there is a goroutine that renews the token, and the
\* select it will wait in is not done: whatever goroutines were cancelled
\* before, dismissing them does not take the renewal with it.
CurrentIsRenewed ==
  Healthy => /\ Alive(context) /\ ~Done(context)
             /\ renewal[context] = "waiting" => waitsOn[context] = context

\* So the token is renewed again and again.
KeepsRenewing ==
  []<>(Healthy => \E x \in Contexts : renewal[x] = "renewing")

\* Whichever context a goroutine reads from the shared field, it ends with the
\* service.
ShutdownEndsRenewal ==
  \A x \in Contexts : shutdown /\ Alive(x) ~> renewal[x] = "ended"

=============================================================================
