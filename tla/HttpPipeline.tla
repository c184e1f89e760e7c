---------------------------- MODULE HttpPipeline ----------------------------
(***************************************************************************)
(* A request on its way through the middlewares of HttpServer, the JWT     *)
(* authentication with its cache of verification keys, and the handlers of *)
(* CommonController or of the service, while other requests do the same,   *)
(* the issuer replaces its signing key, and the timeout answers requests   *)
(* whose handlers go on.                                                   *)
(*                                                                         *)
(* What the echo framework does is as the code uses it: the status that is *)
(* written first is the one that counts, an error returned by a handler is *)
(* answered with its code, and the timeout answers with 503.               *)
(***************************************************************************)
EXTENDS HttpErrors

CONSTANTS
  Slots,     \* requests that are served at a time
  Calls,     \* requests that may come: records of
             \*   route: "ping", "config", "secret", "list", "forward"
             \*   big: more than MaxRequestSize
             \*   token: "none", "malformed", "expired", "foreign", "good", "store"
             \*   alg: what the header of a foreign token names
             \*   decodable: the body is a SecretRequest
             \*   query: the query string, whose "of" tells what is asked for
             \*   given: the fields of SetSecretData the sender has
             \*   data: what it is to send
  MaxOffset, MaxCount, \* what the handler of the list allows
  Settings,  \* <<hook, trace, hasProvider, keyAlg>> of the services
  MaxKeys,   \* bound: keys the issuer signs with, one after the other
  MaxCalls   \* bound: requests in all

\* The families of algorithms ProcessVerificationKey tells apart; "none" stands for
\* those it does not support.
Algs == {"HS", "RS", "ES", "EdDSA", "none"}

ASSUME HttpAssumption ==
  /\ Settings \subseteq BOOLEAN \X BOOLEAN \X BOOLEAN \X [1 .. MaxKeys -> Algs \ {"none"}]
  /\ \A c \in Calls : c.alg \in Algs
  /\ MaxKeys \in Nat \ {0} /\ MaxCalls \in Nat

VARIABLES
  pc,        \* where each request is
  call,      \* the request
  signed,    \* the issuer's key that its token is signed with
  key,       \* verifyKey: a key, and the algorithm it was processed for
  status,    \* the first status written, 0 for none
  answer,    \* what the client got, 0 for nothing yet
  cache,     \* keysCache at the issuer
  issuerKey, \* the key the issuer signs with, external
  hook,      \* AutoConfigAuthenticationFunc returns the real handler
  trace,     \* the log level is TRACE
  hasProvider, \* there is a secret provider
  keyAlg,    \* the algorithm of each of the issuer's keys, external
  calls,     \* requests so far
  stored,    \* history: the requests whose secret has been stored
  excused,   \* history: requests for which there was a reason to be refused
  verified,  \* history: requests whose token has been checked
  unreported, \* history: stored, but the store's reply was lost or an error
  emptyReply, \* history: the issuer has answered without a key
  otherAlg   \* history: the cache has been filled for a token of another algorithm

settings == <<hook, trace, hasProvider, keyAlg>>
effects == <<stored, unreported>>
fillings == <<emptyReply, otherAlg>>
vars == <<pc, call, signed, key, status, answer, cache, issuerKey, settings, calls,
          effects, excused, verified, fillings>>

Foreign == 0   \* a key that is not the issuer's
Missing == -1
Empty == -2    \* an empty reply is taken for an empty key
NoKey == <<Missing, "none">>

Aborted == -1  \* the answer of a handler that panics: the connection is closed

NoCall == [route |-> "none", big |-> FALSE, token |-> "none", alg |-> "none", decodable |-> TRUE,
           query |-> [of |-> "page", offset |-> Absent, limit |-> Absent],
           given |-> {}, data |-> "text"]

\* NewCommonController and AddRoute: all routes but that of Ping have the hook.
Secured(c) == hook /\ c.route # "ping"

OwnToken(r) == call[r].token \in {"good", "expired"}

\* parsedToken.Method.Alg(): what the token says, before anything is verified.
Alg(r) == IF OwnToken(r) THEN keyAlg[signed[r]] ELSE call[r].alg

Init ==
  /\ pc = [r \in Slots |-> "idle"] /\ call = [r \in Slots |-> NoCall]
  /\ signed = [r \in Slots |-> 0] /\ key = [r \in Slots |-> NoKey]
  /\ status = [r \in Slots |-> 0] /\ answer = [r \in Slots |-> 0]
  /\ cache = NoKey /\ issuerKey = 1 /\ calls = 0
  /\ \E s \in Settings : hook = s[1] /\ trace = s[2] /\ hasProvider = s[3] /\ keyAlg = s[4]
  /\ stored = {} /\ unreported = {} /\ excused = {} /\ verified = {}
  /\ emptyReply = FALSE /\ otherAlg = FALSE

Goto(r, from, to) == pc[r] = from /\ pc' = [pc EXCEPT ![r] = to]

\* Something is written; after the timeout nobody reads it.
Write(r, code) ==
  /\ status' = [status EXCEPT ![r] = IF @ = 0 THEN StatusSent(code) ELSE @]
  /\ answer' = [answer EXCEPT ![r] = IF @ = 0 THEN status'[r] ELSE @]

\* SendJsonResp, SendJsonErrResp and WriteErrorResponse end the handler.
Reply(r, from, code) == Goto(r, from, "done") /\ Write(r, code)

\* An error is returned through LoggingMiddleware.  Whether it can replace the
\* status of RequestLimitMiddleware is up to the framework.
ReturnError(r, from, code) ==
  LET returned == IF trace THEN 500 ELSE code IN
  /\ Goto(r, from, "done")
  /\ \/ Write(r, returned)
     \/ /\ status[r] # 0
        /\ status' = [status EXCEPT ![r] = returned]
        /\ answer' = [answer EXCEPT ![r] = IF @ = 0 THEN returned ELSE @]

-----------------------------------------------------------------------------
(* The middlewares *)

\* ManageHeader and LoggingMiddleware on the way in; the timeout starts.  A token
\* is signed with the issuer's key of some moment.
Arrive(r, c) ==
  /\ calls < MaxCalls
  /\ answer[r] # 0 \/ pc[r] = "idle"
  /\ pc[r] \in {"idle", "done"}
  /\ pc' = [pc EXCEPT ![r] = "limit"]
  /\ call' = [call EXCEPT ![r] = c]
  /\ \E k \in IF c.token \in {"good", "expired"} THEN 1 .. issuerKey ELSE {Foreign} : signed' = [signed EXCEPT ![r] = k]
  /\ key' = [key EXCEPT ![r] = NoKey]
  /\ status' = [status EXCEPT ![r] = 0] /\ answer' = [answer EXCEPT ![r] = 0]
  /\ calls' = calls + 1
  /\ stored' = stored \ {r} /\ unreported' = unreported \ {r}
  /\ excused' = excused \ {r} /\ verified' = verified \ {r}
  /\ UNCHANGED <<cache, issuerKey, settings, fillings>>

\* RequestLimitMiddleware writes its answer, and calls the next one all the same,
\* unless the answer cannot be written.
RequestLimit(r) ==
  /\ \/ /\ Goto(r, "limit", IF Secured(call[r]) THEN "auth" ELSE "handler")
        /\ status' = [status EXCEPT ![r] = IF call[r].big THEN 413 ELSE 0]
        /\ UNCHANGED answer
     \/ call[r].big /\ \E code \in {413, 500} : Reply(r, "limit", code)
  /\ UNCHANGED <<call, signed, key, cache, issuerKey, settings, calls, effects, excused, verified, fillings>>

\* Faulty variant: the time spent on authentication does not count.
TimeoutOfHandler(r) ==
  /\ pc[r] \in {"handler", "stored"} /\ answer[r] = 0
  /\ answer' = [answer EXCEPT ![r] = 503]
  /\ UNCHANGED <<pc, call, signed, key, status, cache, issuerKey, settings, calls, effects, excused, verified, fillings>>

\* TimeoutWithConfig answers; the handler is not told.
Timeout(r) ==
  /\ pc[r] \notin {"idle", "done"} /\ answer[r] = 0
  /\ answer' = [answer EXCEPT ![r] = 503]
  /\ UNCHANGED <<pc, call, signed, key, status, cache, issuerKey, settings, calls, effects, excused, verified, fillings>>

-----------------------------------------------------------------------------
(* AuthenticationHandlerFunc *)

\* The header has no Bearer token, or one that does not parse.
NoToken(r) ==
  /\ call[r].token \in {"none", "malformed"}
  /\ ReturnError(r, "auth", 401)
  /\ UNCHANGED <<call, signed, key, cache, issuerKey, settings, calls, effects, excused, verified, fillings>>

\* A token of the secret store: SecretStoreAuthenticationHandlerFunc.
AskStore(r) ==
  /\ call[r].token = "store" /\ hasProvider
  /\ \/ Goto(r, "auth", "handler") /\ verified' = verified \union {r} /\ UNCHANGED <<status, answer, excused>>
     \/ ReturnError(r, "auth", 401) /\ excused' = excused \union {r} /\ UNCHANGED verified
  /\ UNCHANGED <<call, signed, key, cache, issuerKey, settings, calls, effects, fillings>>

\* Without a provider there is nothing to call IsJWTValid of.
AskNobody(r) ==
  /\ call[r].token = "store" /\ ~hasProvider
  /\ Goto(r, "auth", "done")
  /\ answer' = [answer EXCEPT ![r] = IF @ = 0 THEN Aborted ELSE @]
  /\ UNCHANGED <<call, signed, key, status, cache, issuerKey, settings, calls, effects, excused, verified, fillings>>

\* GetVerificationKey takes the key from the cache ...
LookUp(r) ==
  /\ call[r].token \in {"expired", "foreign", "good"}
  /\ Goto(r, "auth", IF cache = NoKey THEN "fetch" ELSE "verify")
  /\ key' = [key EXCEPT ![r] = cache]
  /\ UNCHANGED <<call, signed, status, answer, cache, issuerKey, settings, calls, effects, excused, verified, fillings>>

\* ProcessVerificationKey turns any text into bytes; to the other algorithms it
\* has to be a public key, and to two of them one of their own kind.
Processable(k, alg) ==
  \/ alg = "HS"
  \/ k # Empty /\ alg = "EdDSA" /\ keyAlg[k] # "HS"
  \/ k # Empty /\ alg \in {"RS", "ES"} /\ keyAlg[k] = alg

\* VerificationKeyByIssuer asks; what comes back is one of these, or no answer.
Replies ==
  {[status |-> 0, readable |-> FALSE, body |-> "other"]} \union
  [status : {200, 404}, readable : {TRUE}, body : {"key", "empty", "other"}] \union
  [status : {200}, readable : {FALSE}, body : {"other"}]

\* ... or asks the issuer, who need not answer, nor answer with a key, and
\* processes the key for the algorithm of this token.  Every error is a 401.
Fetch(r) ==
  /\ pc[r] = "fetch"
  /\ \E url, token \in BOOLEAN, reply \in Replies :
       LET code == SendRequest([url |-> url, token |-> token], reply)
           k    == IF reply.body = "key" THEN issuerKey ELSE Empty IN
       /\ emptyReply' = (emptyReply \/ (code = 0 /\ k = Empty))
       /\ excused' = IF code = 0 THEN excused ELSE excused \union {r}
       /\ IF code = 0 /\ Processable(k, Alg(r))
          THEN /\ Goto(r, "fetch", "fill") /\ UNCHANGED <<status, answer>>
               /\ key' = [key EXCEPT ![r] = <<k, Alg(r)>>]
          ELSE ReturnError(r, "fetch", 401) /\ UNCHANGED key
  /\ UNCHANGED <<call, signed, cache, issuerKey, settings, calls, effects, verified, otherAlg>>

\* keysCache has one entry for the issuer, whatever the key was processed for.
Fill(r) ==
  LET k == key[r][1] IN
  /\ Goto(r, "fill", "verify")
  /\ cache' = key[r]
  /\ otherAlg' = (otherAlg \/ (k # Empty /\ keyAlg[k] # key[r][2]))

\* Faulty variant: the key is stored, and not returned.
FillCacheOnly(r) ==
  /\ Fill(r) /\ key' = [key EXCEPT ![r] = NoKey]
  /\ UNCHANGED <<call, signed, status, answer, issuerKey, settings, calls, effects, excused, verified, emptyReply>>

FillCache(r) ==
  /\ Fill(r)
  /\ UNCHANGED <<call, signed, key, status, answer, issuerKey, settings, calls, effects, excused, verified, emptyReply>>

\* What VerifyJWT may find.  A key that was processed for another algorithm than
\* the token's never verifies it.  A token of the issuer is verified with the key it
\* is signed with, expired or not; the bytes that are taken for an EdDSA key may
\* or may not be one.  Another's token is not, unless the key is bytes that are
\* no secret: a public key's text, or nothing; then it is left open.
Verdicts(r) ==
  LET k == key[r][1] IN
  CASE key[r][2] # Alg(r) -> {FALSE}
    [] OwnToken(r)        -> IF k # signed[r] THEN {FALSE}
                             ELSE IF Alg(r) = "EdDSA" THEN BOOLEAN ELSE {TRUE}
    [] OTHER              -> IF Alg(r) = "HS" /\ (k # Empty => keyAlg[k] # "HS") THEN BOOLEAN ELSE {FALSE}

\* Faulty variant: an error of the signature is taken for one of the expiry.
VerifyAnything(r) ==
  /\ Goto(r, "verify", "handler")
  /\ key' = [key EXCEPT ![r] = NoKey]
  /\ verified' = IF TRUE \in Verdicts(r) THEN verified \union {r} ELSE verified
  /\ UNCHANGED <<call, signed, status, answer, cache, issuerKey, settings, calls, effects, excused, fillings>>

\* VerifyJWT.
Verify(r) ==
  /\ key' = [key EXCEPT ![r] = NoKey]
  /\ \E valid \in Verdicts(r) :
       IF valid
       THEN Goto(r, "verify", "handler") /\ verified' = verified \union {r} /\ UNCHANGED <<status, answer>>
       ELSE ReturnError(r, "verify", 401) /\ UNCHANGED verified
  /\ UNCHANGED <<call, signed, cache, issuerKey, settings, calls, effects, excused, fillings>>

-----------------------------------------------------------------------------
(* The handlers *)

AtHandler(r, route) == pc[r] = "handler" /\ call[r].route = route

\* Ping and Version have nothing to fail; Config may not be convertible.
Ping(r) ==
  /\ \/ AtHandler(r, "ping") /\ Reply(r, "handler", 200)
     \/ AtHandler(r, "config") /\ \E code \in {200, HttpCode(<<"UnexpectedServerError">>)} : Reply(r, "handler", code)
  /\ UNCHANGED <<call, signed, key, cache, issuerKey, settings, calls, effects, excused, verified, fillings>>

\* Faulty variant: the error of addSecret is not looked at.
AddSecretUnchecked(r) ==
  /\ AtHandler(r, "secret")
  /\ IF call[r].decodable
     THEN /\ Goto(r, "handler", "stored") /\ UNCHANGED <<status, answer, unreported>>
          /\ stored' \in {stored, stored \union {r}}
     ELSE Reply(r, "handler", HttpCode(<<"ContractInvalid">>)) /\ UNCHANGED effects
  /\ UNCHANGED <<call, signed, key, cache, issuerKey, settings, calls, excused, verified, fillings>>

\* AddSecret until the secret is stored.  When StoreSecret fails the store may have
\* stored the secret all the same, if its reply is what was lost or an error.
AddSecret(r) ==
  /\ AtHandler(r, "secret")
  /\ CASE ~call[r].decodable -> Reply(r, "handler", HttpCode(<<"ContractInvalid">>)) /\ UNCHANGED effects
       [] call[r].decodable /\ ~hasProvider -> Reply(r, "handler", HttpCode(<<"UnexpectedServerError">>)) /\ UNCHANGED effects
       [] OTHER ->
            \/ /\ Goto(r, "handler", "stored")
               /\ stored' = stored \union {r} /\ UNCHANGED <<status, answer, unreported>>
            \/ /\ Reply(r, "handler", HttpCode(Wrapped("Unknown", <<>>)))
               /\ \/ UNCHANGED effects
                  \/ stored' = stored \union {r} /\ unreported' = unreported \union {r}
  /\ UNCHANGED <<call, signed, key, cache, issuerKey, settings, calls, excused, verified, fillings>>

Created(r) ==
  /\ Reply(r, "stored", 201)
  /\ UNCHANGED <<call, signed, key, cache, issuerKey, settings, calls, effects, excused, verified, fillings>>

\* A handler of the service that lists objects, with the helpers of pkg/rest.
ParseQuery(query) ==
  CASE query.of = "page"     -> ParseGetAll(query, MaxOffset, MaxCount)
    [] query.of = "interval" -> ParseStartEnd(query)
    [] OTHER                 -> ParseGetLogs(query)

\* The header is written before encodeAndWriteResponse can fail.
List(r) ==
  LET failure == ParseQuery(call[r].query) IN
  /\ AtHandler(r, "list")
  /\ IF failure # <<>> THEN Reply(r, "handler", HttpCode(failure))
     ELSE Reply(r, "handler", 200) \/ ReturnError(r, "handler", 500)
  /\ UNCHANGED <<call, signed, key, cache, issuerKey, settings, calls, effects, excused, verified, fillings>>

\* A handler of the service that passes data on with HTTPSender and answers with
\* the error it gets.
SendAnswer(sent, given, hasSecret, reply) ==
  LET failure == HttpSend(sent, given, hasSecret, reply) IN
  IF failure = <<>> THEN 200 ELSE HttpCode(failure)

Forward(r) ==
  /\ AtHandler(r, "forward")
  /\ \E url, hasSecret, readable \in BOOLEAN, code \in {0, 200, 404} :
       Reply(r, "handler", SendAnswer([data |-> call[r].data, url |-> url], call[r].given, hasSecret,
                                      [status |-> code, readable |-> readable]))
  /\ UNCHANGED <<call, signed, key, cache, issuerKey, settings, calls, effects, excused, verified, fillings>>

-----------------------------------------------------------------------------

\* The issuer, outside, signs with a new key from now on.
Rotate ==
  /\ issuerKey < MaxKeys
  /\ issuerKey' = issuerKey + 1
  /\ UNCHANGED <<pc, call, signed, key, status, answer, cache, settings, calls, effects, excused, verified, fillings>>

Serve(r) ==
  \/ RequestLimit(r) \/ NoToken(r) \/ AskStore(r) \/ AskNobody(r) \/ LookUp(r) \/ FillCache(r) \/ Verify(r)
  \/ Ping(r) \/ AddSecret(r) \/ Created(r) \/ List(r) \/ Forward(r)

Next ==
  \/ Rotate
  \/ \E r \in Slots :
       \/ \E c \in Calls : Arrive(r, c)
       \/ Serve(r) \/ Fetch(r) \/ Timeout(r)

\* Time passes.  The issuer need not answer, and the handler of a service may
\* take as long as it likes.
Spec == Init /\ [][Next]_vars /\ \A r \in Slots : WF_vars(Timeout(r))

-----------------------------------------------------------------------------
(* Properties *)

Codes == {0, 200, 201, 400, 401, 403, 404, 405, 413, 500, 502, 503}

Keys == (Empty .. MaxKeys) \X Algs

\* The types of the variables.
TypeOK ==
  /\ pc \in [Slots -> {"idle", "limit", "auth", "fetch", "fill", "verify", "handler", "stored", "done"}]
  /\ call \in [Slots -> Calls \union {NoCall}]
  /\ key \in [Slots -> Keys] /\ cache \in Keys
  /\ signed \in [Slots -> 0 .. MaxKeys] /\ issuerKey \in 1 .. MaxKeys /\ calls \in 0 .. MaxCalls
  /\ status \in [Slots -> Codes] /\ answer \in [Slots -> Codes \union {Aborted}]
  /\ <<hook, trace, hasProvider, keyAlg>> \in Settings
  /\ stored \subseteq Slots /\ unreported \subseteq stored
  /\ excused \subseteq Slots /\ verified \subseteq Slots
  /\ emptyReply \in BOOLEAN /\ otherAlg \in BOOLEAN

\* While tokens are validated no request to any route but that of Ping has an
\* effect or a favourable answer unless its token has been verified, also if it
\* was too big, timed out, or shared the cache with requests whose tokens are
\* no good.  A token that is not of the issuer is verified at most if it names an
\* algorithm of the HS family, and the issuer has a key that is no secret or
\* has answered without one: the methods a token may name are not restricted.
OnlyVerified ==
  \A r \in Slots :
    hook /\ call[r].route # "ping" /\ (r \in stored \/ answer[r] \in {200, 201}) =>
      /\ r \in verified
      /\ call[r].token = "foreign" =>
           call[r].alg = "HS" /\ (emptyReply \/ \E k \in 1 .. issuerKey : keyAlg[k] # "HS")

\* A token of the issuer (but for EdDSA, see Verdicts) is refused only if the
\* issuer could not be asked, has answered without a key, or has ever changed its
\* key, or if the cache has been filled for a token that names another algorithm:
\* the cache all requests share, and fill at the same time, is never the reason
\* otherwise.
RefusedOnlyIfStale ==
  \A r \in Slots :
    answer[r] = 401 /\ OwnToken(r) /\ Alg(r) # "EdDSA" =>
      r \in excused \/ emptyReply \/ otherAlg \/ issuerKey > 1

\* The client learns what has happened, unless the answer was that of the
\* timeout or of the request limit, which are given whatever the handler does,
\* or the store has not confirmed what it did: then it is told of an error.
EffectMatchesAnswer ==
  \A r \in Slots :
    /\ answer[r] = 201 => r \in stored \ unreported
    /\ r \in stored => answer[r] \in {0, 201, 413, 503} \/ (r \in unreported /\ answer[r] = 500)
    /\ pc[r] = "done" => answer[r] # 0

\* Every request is answered, or its connection closed, even if the issuer or the handler never returns,
\* so that a shutdown, which waits for the requests, comes to an end.
Answered == \A r \in Slots : (pc[r] # "idle" /\ answer[r] = 0) ~> (answer[r] # 0)

=============================================================================
