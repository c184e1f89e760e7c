------------------------ MODULE HttpPipeline_proofs ------------------------
(***************************************************************************)
(* Theorems about the errors of HttpErrors, for every chain of errors and  *)
(* every request, and about HttpPipeline, for any number of requests at a  *)
(* time, of calls and of keys of the issuer: nothing is done for a request *)
(* whose token was not checked, and its client is told what was done.      *)
(***************************************************************************)
EXTENDS HttpPipeline, WellFoundedInduction, TLAPS

Known(chain) == {i \in DOMAIN chain : chain[i] # "Unknown"}

\* A chain that has a known kind has a first one, which is its kind.
LEMMA KindIsFirstKnown ==
  ASSUME NEW chain \in Seq(Kinds), Known(chain) # {}
  PROVE  \E i \in Known(chain) : /\ Kind(chain) = chain[i]
                                 /\ \A j \in Known(chain) : i <= j
<1>1. Known(chain) \subseteq Nat
  BY DEF Known
<1> DEFINE Less == {ss \in Nat \X Nat : ss[1] < ss[2]}
<1>2. Less = OpToRel(<, Nat)
  BY Zenon DEF OpToRel
<1>3. IsWellFoundedOn(Less, Nat)
  BY <1>2, NatLessThanWellFounded, Zenon
<1>4. PICK x \in Known(chain) : \A y \in Known(chain) : ~ (<<y, x>> \in Less)
  <2> HIDE DEF Less
  <2> QED
    BY <1>1, <1>3, WFMin
<1>5. ASSUME NEW y \in Known(chain) PROVE x <= y
  <2>1. x \in Nat /\ y \in Nat /\ <<y, x>> \in Nat \X Nat
    BY <1>1
  <2>2. ~ (<<y, x>>[1] < <<y, x>>[2])
    BY <1>4, <2>1
  <2> QED
    BY <2>1, <2>2
<1> QED
  BY <1>5 DEF Kind, Known

LEMMA KindOfUnknown ==
  ASSUME NEW chain \in Seq(Kinds), Known(chain) = {}
  PROVE  Kind(chain) = "Unknown"
BY DEF Kind, Known

\* Putting a kind in front of a chain.
LEMMA WrappedKind ==
  ASSUME NEW kind \in Kinds, NEW chain \in Seq(Kinds)
  PROVE  /\ Wrapped(kind, chain) \in Seq(Kinds)
         /\ kind # "Unknown" => Kind(Wrapped(kind, chain)) = kind
         /\ kind = "Unknown" /\ Known(chain) = {} => Kind(Wrapped(kind, chain)) = "Unknown"
<1> DEFINE w == Wrapped(kind, chain)
<1>1. /\ w \in Seq(Kinds) /\ Len(w) = Len(chain) + 1 /\ w[1] = kind
      /\ \A i \in 2..Len(w) : w[i] = chain[i - 1]
      /\ DOMAIN w = 1..Len(w) /\ Len(chain) \in Nat /\ DOMAIN chain = 1..Len(chain)
  BY DEF Wrapped
<1> HIDE DEF w
<1>2. kind # "Unknown" => Kind(w) = kind
  <2> SUFFICES ASSUME kind # "Unknown" PROVE Kind(w) = kind
    OBVIOUS
  <2>1. 1 \in Known(w) /\ Known(w) \subseteq 1..Len(w)
    BY <1>1 DEF Known
  <2>2. PICK i \in Known(w) : Kind(w) = w[i] /\ \A j \in Known(w) : i <= j
    BY <1>1, <2>1, KindIsFirstKnown
  <2>3. i = 1
    BY <1>1, <2>1, <2>2
  <2> QED
    BY <1>1, <2>2, <2>3
<1>3. kind = "Unknown" /\ Known(chain) = {} => Kind(w) = "Unknown"
  <2> SUFFICES ASSUME kind = "Unknown", Known(chain) = {} PROVE Known(w) = {}
    BY <1>1, KindOfUnknown
  <2>1. ASSUME NEW i \in 1..Len(w) PROVE w[i] = "Unknown"
    <3>1. CASE i = 1
      BY <1>1, <3>1
    <3>2. CASE i # 1
      <4>1. i \in 2..Len(w) /\ i - 1 \in DOMAIN chain
        BY <1>1, <3>2
      <4> QED
        BY <1>1, <4>1 DEF Known
    <3> QED
      BY <3>1, <3>2
  <2> QED
    BY <1>1, <2>1 DEF Known
<1> QED
  BY <1>1, <1>2, <1>3 DEF w

\* Wrapping an error with ToBaseError or BaseErrorWrapper changes neither its
\* kind nor the status it is answered with, however long the chain is.
THEOREM WrappingKeepsCode ==
  ASSUME NEW chain \in Seq(Kinds)
  PROVE  Kind(ToBaseError(chain)) = Kind(chain) /\ HttpCode(ToBaseError(chain)) = HttpCode(chain)
<1>1. CASE Known(chain) = {}
  <2>1. Kind(chain) = "Unknown" /\ "Unknown" \in Kinds
    BY <1>1, KindOfUnknown DEF Kinds
  <2> QED
    BY <1>1, <2>1, WrappedKind DEF ToBaseError, HttpCode
<1>2. CASE Known(chain) # {}
  <2>1. PICK i \in Known(chain) : Kind(chain) = chain[i]
    BY <1>2, KindIsFirstKnown
  <2>2. Kind(chain) \in Kinds /\ Kind(chain) # "Unknown"
    BY <2>1 DEF Known
  <2> QED
    BY <2>2, WrappedKind DEF ToBaseError, HttpCode
<1> QED
  BY <1>1, <1>2

\* KindMapping inverts codeMapping: an error passed on from service to service as
\* a status keeps its status.
THEOREM StatusRoundTrip ==
  \A kind \in Kinds : CodeMapping(KindMapping(CodeMapping(kind))) = CodeMapping(kind)
<1> SUFFICES ASSUME NEW kind \in Kinds
             PROVE  CodeMapping(KindMapping(CodeMapping(kind))) = CodeMapping(kind)
  OBVIOUS
<1>1. CodeMapping(kind) \in {400, 401, 403, 404, 405, 409, 413, 416, 423, 500, 501, 502, 503}
  BY DEF CodeMapping
<1>2. \A code \in {400, 401, 403, 404, 405, 409, 413, 416, 423, 500, 501, 502, 503} :
        CodeMapping(KindMapping(code)) = code
  BY DEF CodeMapping, KindMapping
<1> QED
  BY <1>1, <1>2

-----------------------------------------------------------------------------
(* The pipeline *)

\* Until its handler ends a request has no answer but that of the timeout, and a
\* secret is stored for it only right before.
PhaseInv ==
  \A r \in Slots :
    /\ pc[r] = "idle" => answer[r] = 0 /\ r \notin stored
    /\ pc[r] \notin {"idle", "done"} =>
         /\ answer[r] \in {0, 503} /\ status[r] \in {0, 413}
         /\ (r \in stored <=> pc[r] = "stored") /\ r \notin unreported
    /\ pc[r] = "done" =>
         /\ answer[r] # 0 /\ (answer[r] = 201 => r \in stored \ unreported)
         /\ r \in stored => answer[r] \in {201, 413, 503} \/ (r \in unreported /\ answer[r] = 500)

\* When the token of another than the issuer may be taken for verified.
MayPass(r) ==
  call[r].token = "foreign" =>
    call[r].alg = "HS" /\ (emptyReply \/ \E k \in 1 .. issuerKey : keyAlg[k] # "HS")

\* No handler but that of Ping is reached without a verified token.
VerifiedInv ==
  \A r \in Slots :
    /\ hook /\ call[r].route # "ping" /\ pc[r] \in {"handler", "stored"} => r \in verified
    /\ r \in verified => MayPass(r)

\* A key the issuer has given out, or the empty one.
IsEntry(e) ==
  /\ e[1] = Empty => emptyReply
  /\ e[1] = Empty \/ e[1] \in 1 .. issuerKey

\* Where the keys are that tokens are signed and verified with.
EntryInv ==
  /\ cache = NoKey \/ IsEntry(cache)
  /\ \A r \in Slots :
       /\ pc[r] \in {"fill", "verify"} => IsEntry(key[r])
       /\ pc[r] # "idle" /\ OwnToken(r) => signed[r] \in 1 .. issuerKey

\* As long as the issuer has one key and answers with it, and it is cached for its
\* own algorithm, no other gets into the cache or is verified with.
KeyInv ==
  ~emptyReply /\ ~otherAlg /\ issuerKey = 1 =>
    /\ cache \in {NoKey, <<1, keyAlg[1]>>}
    /\ \A r \in Slots : /\ pc[r] = "fill" => key[r] = <<1, Alg(r)>>
                        /\ pc[r] = "verify" => key[r] = <<1, keyAlg[1]>>

\* The inductive invariant.
IInv == /\ TypeOK /\ PhaseInv /\ VerifiedInv /\ EntryInv /\ KeyInv
        /\ OnlyVerified /\ RefusedOnlyIfStale

\* A request r ends in the phase "from" with one of the codes, unless a status
\* was written before, or it was answered before.
Ended(r, from, codes) ==
  /\ pc[r] = from /\ pc' = [pc EXCEPT ![r] = "done"]
  /\ status' \in [Slots -> Codes] /\ answer' \in [Slots -> Codes \union {Aborted}]
  /\ \A q \in Slots \ {r} : answer'[q] = answer[q] /\ status'[q] = status[q]
  /\ answer[r] # 0 => answer'[r] = answer[r]
  /\ answer[r] = 0 => answer'[r] \in codes \union ({status[r]} \ {0})

LEMMA ReplyEnds ==
  ASSUME TypeOK, NEW r \in Slots, NEW from, NEW code \in Codes \ {0}, Reply(r, from, code)
  PROVE  Ended(r, from, {code})
<1>1. StatusSent(code) = code
  BY DEF StatusSent, Codes
<1>2. /\ status' = [status EXCEPT ![r] = IF @ = 0 THEN code ELSE @]
      /\ answer' = [answer EXCEPT ![r] = IF @ = 0 THEN status'[r] ELSE @]
  BY <1>1 DEF Reply, Write
<1>3. status \in [Slots -> Codes] /\ answer \in [Slots -> Codes \union {Aborted}]
  BY DEF TypeOK
<1>4. status' \in [Slots -> Codes] /\ status'[r] = IF status[r] = 0 THEN code ELSE status[r]
  BY <1>2, <1>3
<1> HIDE DEF Codes
<1> QED
  BY <1>2, <1>3, <1>4 DEF Reply, Goto, Ended

LEMMA ErrorEnds ==
  ASSUME TypeOK, NEW r \in Slots, NEW from, NEW code \in Codes \ {0}, ReturnError(r, from, code)
  PROVE  Ended(r, from, {code, 500})
<1> DEFINE returned == IF trace THEN 500 ELSE code
<1>1. returned \in {code, 500} /\ returned \in Codes \ {0}
  BY DEF Codes
<1>2. CASE Write(r, returned)
  <2>1. Reply(r, from, returned)
    BY <1>2 DEF ReturnError, Reply
  <2>2. Ended(r, from, {returned})
    BY <1>1, <2>1, ReplyEnds
  <2> QED
    BY <1>1, <2>2 DEF Ended
<1>3. CASE /\ status' = [status EXCEPT ![r] = returned]
           /\ answer' = [answer EXCEPT ![r] = IF @ = 0 THEN returned ELSE @]
  <2>1. status \in [Slots -> Codes] /\ answer \in [Slots -> Codes \union {Aborted}]
    BY DEF TypeOK
  <2> HIDE DEF returned
  <2>2. pc[r] = from /\ pc' = [pc EXCEPT ![r] = "done"]
    BY DEF ReturnError, Goto
  <2> QED
    BY <1>1, <1>3, <2>1, <2>2 DEF Ended
<1> QED
  BY <1>2, <1>3 DEF ReturnError

\* The algorithms of the issuer's keys and of the tokens.
LEMMA AlgTypes ==
  ASSUME HttpAssumption, IInv
  PROVE  /\ keyAlg \in [1 .. MaxKeys -> Algs \ {"none"}]
         /\ 1 \in 1 .. MaxKeys /\ issuerKey \in 1 .. MaxKeys /\ MaxKeys \in Nat
         /\ \A r \in Slots : pc[r] # "idle" => Alg(r) \in Algs
         /\ \A r \in Slots : pc[r] # "idle" /\ OwnToken(r) => Alg(r) = keyAlg[signed[r]] /\ signed[r] \in 1 .. MaxKeys
<1>1. /\ keyAlg \in [1 .. MaxKeys -> Algs \ {"none"}]
      /\ issuerKey \in 1 .. MaxKeys /\ MaxKeys \in Nat \ {0}
  BY DEF IInv, TypeOK, HttpAssumption
<1>2. ASSUME NEW r \in Slots, pc[r] # "idle", OwnToken(r)
      PROVE  Alg(r) = keyAlg[signed[r]] /\ signed[r] \in 1 .. MaxKeys
  <2>1. signed[r] \in 1 .. issuerKey
    BY <1>2 DEF IInv, EntryInv
  <2> QED
    BY <1>1, <1>2, <2>1 DEF Alg
<1>3. ASSUME NEW r \in Slots, ~OwnToken(r) PROVE Alg(r) \in Algs
  <2>1. call[r] \in Calls \union {NoCall}
    BY DEF IInv, TypeOK
  <2> QED
    BY <1>3, <2>1 DEF Alg, HttpAssumption, NoCall, Algs
<1> QED
  BY <1>1, <1>2, <1>3

\* What a step that ends a request must respect.
LEMMA EndKeepsIInv ==
  ASSUME HttpAssumption, IInv, NEW r \in Slots, NEW from, NEW codes, Ended(r, from, codes),
         from \notin {"idle", "done"}, 0 \notin codes,
         from = "stored" \/ 201 \notin codes, from = "stored" => codes = {201},
         codes \intersect {200, 201} # {} => from \in {"handler", "stored"},
         401 \in codes /\ OwnToken(r) /\ Alg(r) # "EdDSA" =>
           r \in excused' \/ emptyReply' \/ otherAlg \/ issuerKey > 1,
         excused \subseteq excused', excused' \subseteq Slots,
         emptyReply' \in BOOLEAN, emptyReply => emptyReply',
         key' \in [Slots -> Keys], \A q \in Slots \ {r} : key'[q] = key[q],
         \/ UNCHANGED effects
         \/ /\ stored' = stored \union {r} /\ unreported' = unreported \union {r}
            /\ from = "handler" /\ codes = {500},
         UNCHANGED <<call, signed, cache, issuerKey, settings, calls, verified, otherAlg>>
  PROVE  IInv'
<1>1. UNCHANGED <<hook, trace, hasProvider, keyAlg>>
  BY DEF settings
<1>2. /\ pc' \in [Slots -> {"idle", "limit", "auth", "fetch", "fill", "verify", "handler", "stored", "done"}]
      /\ pc'[r] = "done" /\ \A q \in Slots \ {r} : pc'[q] = pc[q]
  BY DEF IInv, TypeOK, Ended
<1>3. /\ stored' \subseteq Slots /\ unreported' \subseteq stored'
      /\ \A q \in Slots \ {r} : (q \in stored' <=> q \in stored) /\ (q \in unreported' <=> q \in unreported)
      /\ r \in stored' <=> r \in stored \/ r \in unreported'
      /\ r \in unreported' => r \in unreported \/ (from = "handler" /\ codes = {500})
  BY DEF IInv, TypeOK, effects
<1>4. TypeOK'
  BY <1>1, <1>2, <1>3 DEF IInv, TypeOK, Ended
<1>5. /\ answer[r] \in {0, 503} /\ status[r] \in {0, 413} /\ (r \in stored <=> from = "stored")
      /\ r \notin unreported
  BY DEF IInv, PhaseInv, Ended
<1>6. answer'[r] \in codes \union {413, 503} /\ answer'[r] # 0
  BY <1>5 DEF Ended
<1>7. PhaseInv'
  <2>1. ASSUME NEW q \in Slots \ {r}
        PROVE  /\ pc'[q] = pc[q] /\ answer'[q] = answer[q] /\ status'[q] = status[q]
               /\ (q \in stored' <=> q \in stored) /\ (q \in unreported' <=> q \in unreported)
    BY <1>2, <1>3 DEF Ended
  <2>2. /\ answer'[r] = 201 => r \in stored' \ unreported'
        /\ r \in stored' => answer'[r] \in {201, 413, 503} \/ (r \in unreported' /\ answer'[r] = 500)
    BY <1>3, <1>5, <1>6
  <2> QED
    BY <1>2, <1>6, <2>1, <2>2 DEF IInv, PhaseInv
<1>8. VerifiedInv'
  BY <1>1, <1>2 DEF IInv, VerifiedInv, MayPass
<1>9. EntryInv'
  BY <1>2 DEF IInv, EntryInv, IsEntry, OwnToken, Ended
<1>10. KeyInv'
  BY <1>1, <1>2 DEF IInv, KeyInv, OwnToken, Alg, Ended
<1>11. OnlyVerified'
  <2>1. hook /\ call[r].route # "ping" /\ from \in {"handler", "stored"} => r \in verified
    BY DEF IInv, VerifiedInv, Ended
  <2>2. answer'[r] \in {200, 201} => from \in {"handler", "stored"}
    BY <1>6
  <2>3. r \in stored' => from \in {"handler", "stored"}
    BY <1>3, <1>5
  <2>4. ASSUME NEW q \in Slots, hook', call'[q].route # "ping", q \in stored' \/ answer'[q] \in {200, 201}
        PROVE  q \in verified'
    BY <1>1, <1>3, <2>1, <2>2, <2>3, <2>4 DEF IInv, OnlyVerified, Ended
  <2> QED
    BY <1>8, <2>4 DEF OnlyVerified, VerifiedInv, MayPass
<1>12. RefusedOnlyIfStale'
  <2>1. ASSUME NEW q \in Slots PROVE OwnToken(q)' = OwnToken(q) /\ Alg(q)' = Alg(q)
    BY <1>1 DEF OwnToken, Alg
  <2>2. ASSUME NEW q \in Slots, answer'[q] = 401, OwnToken(q), Alg(q) # "EdDSA"
        PROVE  q \in excused' \/ emptyReply' \/ otherAlg' \/ issuerKey' > 1
    BY <1>6, <2>2 DEF IInv, RefusedOnlyIfStale, Ended
  <2> QED
    BY <2>1, <2>2 DEF RefusedOnlyIfStale
<1> QED
  BY <1>4, <1>7, <1>8, <1>9, <1>10, <1>11, <1>12 DEF IInv

-----------------------------------------------------------------------------
\* The codes handlers answer with, but for the 201 of AddSecret.
HandlerCodes == {200, 400, 403, 404, 405, 500, 502}

LEMMA CodeOfOne ==
  ASSUME NEW kind \in Kinds
  PROVE  /\ kind # "Unknown" => HttpCode(<<kind>>) = CodeMapping(kind)
         /\ HttpCode(Wrapped("Unknown", <<>>)) = 500
         /\ kind # "Unknown" => HttpCode(Wrapped(kind, <<kind>>)) = CodeMapping(kind)
<1>1. <<>> \in Seq(Kinds) /\ Known(<<>>) = {} /\ <<kind>> \in Seq(Kinds) /\ "Unknown" \in Kinds
  BY DEF Known, Kinds
<1>2. Wrapped(kind, <<>>) = <<kind>>
  BY DEF Wrapped
<1>3. CodeMapping("Unknown") = 500
  BY DEF CodeMapping
<1> QED
  BY <1>1, <1>2, <1>3, WrappedKind DEF HttpCode

LEMMA QueryCodes ==
  ASSUME NEW query, ParseQuery(query) # <<>>
  PROVE  HttpCode(ParseQuery(query)) = 400
<1>1. ParseQuery(query) \in {<<"ContractInvalid">>, Wrapped("ContractInvalid", <<"ContractInvalid">>)}
  BY Zenon DEF ParseQuery, ParseGetAll, ParseStartEnd, ParseGetLogs, Unparsable
<1>2. "ContractInvalid" \in Kinds /\ CodeMapping("ContractInvalid") = 400
  BY DEF Kinds, CodeMapping
<1> QED
  BY <1>1, <1>2, CodeOfOne

LEMMA SendCodes ==
  ASSUME NEW sent, NEW given, NEW hasSecret, NEW reply,
         HttpSend(sent, given, hasSecret, reply) # <<>>
  PROVE  HttpCode(HttpSend(sent, given, hasSecret, reply)) \in HandlerCodes
<1> DEFINE kinds == {"NotFound", "ContractInvalid", "NotAllowed", "UnexpectedServerError", "IOError", "Communication"}
<1>1. /\ kinds \subseteq Kinds /\ \A kind \in kinds : kind # "Unknown"
      /\ \A kind \in kinds : CodeMapping(kind) \in HandlerCodes
  BY DEF Kinds, CodeMapping, HandlerCodes
<1>2. HttpCode(ToBaseError(<<"ContractInvalid">>)) = HttpCode(<<"ContractInvalid">>)
  <2>1. <<"ContractInvalid">> \in Seq(Kinds)
    BY DEF Kinds
  <2> QED
    BY <2>1, WrappingKeepsCode
<1>3. HttpSend(sent, given, hasSecret, reply) \in
        {ToBaseError(<<"ContractInvalid">>), <<"NotFound">>, <<"ContractInvalid">>, <<"NotAllowed">>,
         <<"UnexpectedServerError">>, <<"IOError">>, <<"Communication">>}
  BY DEF HttpSend
<1> QED
  BY <1>1, <1>2, <1>3, CodeOfOne

\* A handler ends with one of these codes.
LEMMA HandlerKeepsIInv ==
  ASSUME HttpAssumption, IInv, NEW r \in Slots, NEW code \in HandlerCodes, Reply(r, "handler", code),
         UNCHANGED <<call, signed, key, cache, issuerKey, settings, calls, effects, excused, verified, fillings>>
  PROVE  IInv'
<1>1. code \in Codes \ {0} /\ code \notin {0, 201, 401}
  BY DEF HandlerCodes, Codes
<1>2. Ended(r, "handler", {code})
  BY <1>1, ReplyEnds DEF IInv
<1>3. key' \in [Slots -> Keys] /\ excused' \subseteq Slots /\ emptyReply' \in BOOLEAN
  BY DEF IInv, TypeOK, fillings
<1> QED
  BY <1>1, <1>2, <1>3, EndKeepsIInv DEF fillings

\* AuthenticationHandlerFunc refuses the token.
LEMMA RefusalKeepsIInv ==
  ASSUME HttpAssumption, IInv, NEW r \in Slots, NEW from \in {"auth", "fetch", "verify"}, ReturnError(r, from, 401),
         OwnToken(r) /\ Alg(r) # "EdDSA" => r \in excused' \/ emptyReply' \/ otherAlg \/ issuerKey > 1,
         excused' \in {excused, excused \union {r}},
         emptyReply' \in BOOLEAN, emptyReply => emptyReply',
         key' \in [Slots -> Keys], \A q \in Slots \ {r} : key'[q] = key[q],
         UNCHANGED <<call, signed, cache, issuerKey, settings, calls, effects, verified, otherAlg>>
  PROVE  IInv'
<1>1. 401 \in Codes \ {0} /\ from \notin {"idle", "done", "stored"}
  BY DEF Codes
<1>2. Ended(r, from, {401, 500})
  BY <1>1, ErrorEnds DEF IInv
<1>3. excused' \subseteq Slots /\ excused \subseteq excused'
  BY DEF IInv, TypeOK
<1> QED
  BY <1>1, <1>2, <1>3, EndKeepsIInv

\* A request that has not been answered by its handler moves on.
LEMMA MoveKeepsIInv ==
  ASSUME HttpAssumption, IInv, NEW r \in Slots, NEW from, NEW to, Goto(r, from, to),
         from \notin {"idle", "done", "stored"},
         to \in {"auth", "fetch", "fill", "verify", "handler"},
         to = "handler" => from = "handler" \/ r \in verified' \/ ~hook \/ call[r].route = "ping",
         status' \in [Slots -> Codes], \A q \in Slots \ {r} : status'[q] = status[q],
         status'[r] \in {0, 413},
         key' \in [Slots -> Keys], \A q \in Slots \ {r} : key'[q] = key[q],
         cache' \in Keys, emptyReply' \in BOOLEAN, emptyReply => emptyReply',
         otherAlg' \in BOOLEAN, otherAlg => otherAlg',
         cache' = NoKey \/ IsEntry(cache)', to \in {"fill", "verify"} => IsEntry(key[r])',
         ~emptyReply' /\ ~otherAlg' /\ issuerKey = 1 =>
           /\ cache' \in {NoKey, <<1, keyAlg[1]>>}
           /\ to = "fill" => key'[r] = <<1, Alg(r)>>
           /\ to = "verify" => key'[r] = <<1, keyAlg[1]>>,
         verified' = verified \/ (verified' = verified \union {r} /\ MayPass(r)),
         UNCHANGED <<call, signed, answer, issuerKey, settings, calls, effects, excused>>
  PROVE  IInv'
<1>1. UNCHANGED <<hook, trace, hasProvider, keyAlg, stored, unreported>>
  BY DEF settings, effects
<1>2. /\ pc' \in [Slots -> {"idle", "limit", "auth", "fetch", "fill", "verify", "handler", "stored", "done"}]
      /\ pc'[r] = to /\ pc[r] = from /\ \A q \in Slots \ {r} : pc'[q] = pc[q]
  BY DEF IInv, TypeOK, Goto
<1>3. TypeOK'
  BY <1>1, <1>2 DEF IInv, TypeOK
<1>4. PhaseInv'
  BY <1>1, <1>2 DEF IInv, PhaseInv
<1>5. \A q \in Slots : (OwnToken(q)' <=> OwnToken(q)) /\ Alg(q)' = Alg(q) /\ (MayPass(q) => MayPass(q)')
  BY <1>1 DEF OwnToken, Alg, MayPass
<1>6. VerifiedInv'
  BY <1>1, <1>2, <1>5 DEF IInv, VerifiedInv
<1>7. EntryInv'
  <2>1. \A q \in Slots \ {r} : pc'[q] \in {"fill", "verify"} => IsEntry(key[q])'
    BY <1>2 DEF IInv, EntryInv, IsEntry
  <2>2. \A q \in Slots : pc'[q] # "idle" /\ OwnToken(q)' => signed'[q] \in 1 .. issuerKey'
    BY <1>2, <1>5 DEF IInv, EntryInv
  <2> QED
    BY <1>2, <2>1, <2>2 DEF EntryInv
<1>8. KeyInv'
  BY <1>1, <1>2, <1>5 DEF IInv, KeyInv
<1>9. OnlyVerified'
  <2>1. \A q \in Slots : hook /\ call[q].route # "ping" /\ (q \in stored \/ answer[q] \in {200, 201}) => q \in verified
    BY DEF IInv, OnlyVerified
  <2> QED
    BY <1>1, <1>6, <2>1 DEF OnlyVerified, VerifiedInv, MayPass
<1>10. RefusedOnlyIfStale'
  BY <1>5 DEF IInv, RefusedOnlyIfStale
<1> QED
  BY <1>3, <1>4, <1>6, <1>7, <1>8, <1>9, <1>10 DEF IInv

-----------------------------------------------------------------------------
LEMMA InitIInv == HttpAssumption /\ Init => IInv
<1> SUFFICES ASSUME HttpAssumption, Init PROVE IInv
  OBVIOUS
<1>1. \E set \in Settings : hook = set[1] /\ trace = set[2] /\ hasProvider = set[3] /\ keyAlg = set[4]
  BY DEF Init
<1>2. <<hook, trace, hasProvider, keyAlg>> \in Settings
  <2>1. PICK set \in Settings : hook = set[1] /\ trace = set[2] /\ hasProvider = set[3] /\ keyAlg = set[4]
    BY <1>1
  <2>2. set \in BOOLEAN \X BOOLEAN \X BOOLEAN \X [1 .. MaxKeys -> Algs \ {"none"}]
    BY <2>1 DEF HttpAssumption
  <2>3. set = <<set[1], set[2], set[3], set[4]>>
    BY <2>2
  <2> QED
    BY <2>1, <2>3
<1>3. MaxKeys \in Nat /\ 0 \in 0 .. MaxKeys /\ NoKey \in Keys /\ 1 \in 1 .. MaxKeys /\ 0 \in 0 .. MaxCalls
  BY DEF HttpAssumption, NoKey, Keys, Missing, Empty, Algs
<1>4. TypeOK
  <2>1. 0 \in Codes
    BY DEF Codes
  <2> HIDE DEF Codes
  <2>2. /\ key \in [Slots -> Keys] /\ cache \in Keys
        /\ signed \in [Slots -> 0 .. MaxKeys] /\ issuerKey \in 1 .. MaxKeys /\ calls \in 0 .. MaxCalls
    BY <1>3 DEF Init
  <2>3. status \in [Slots -> Codes] /\ answer \in [Slots -> Codes \union {Aborted}]
    BY <2>1 DEF Init
  <2> QED
    BY <1>2, <2>2, <2>3 DEF Init, TypeOK
<1> QED
  BY <1>4 DEF Init, IInv, PhaseInv, VerifiedInv, EntryInv, KeyInv, OwnToken, OnlyVerified, RefusedOnlyIfStale, NoCall

LEMMA ArriveKeepsIInv ==
  ASSUME HttpAssumption, IInv, NEW r \in Slots, NEW c \in Calls, Arrive(r, c)
  PROVE  IInv'
<1>1. /\ pc' = [pc EXCEPT ![r] = "limit"] /\ call' = [call EXCEPT ![r] = c]
      /\ key' = [key EXCEPT ![r] = NoKey]
      /\ status' = [status EXCEPT ![r] = 0] /\ answer' = [answer EXCEPT ![r] = 0]
      /\ calls < MaxCalls /\ calls' = calls + 1
      /\ stored' = stored \ {r} /\ unreported' = unreported \ {r}
      /\ excused' = excused \ {r} /\ verified' = verified \ {r}
      /\ UNCHANGED <<cache, issuerKey, settings, fillings>>
  BY DEF Arrive
<1>2. UNCHANGED <<hook, trace, hasProvider, keyAlg, emptyReply, otherAlg>>
  BY <1>1 DEF settings, fillings
<1>3. PICK k \in IF c.token \in {"good", "expired"} THEN 1 .. issuerKey ELSE {0} : signed' = [signed EXCEPT ![r] = k]
  BY DEF Arrive, Foreign
<1>4. k \in 0 .. MaxKeys /\ (c.token \in {"good", "expired"} => k \in 1 .. issuerKey)
  BY <1>3 DEF IInv, TypeOK, HttpAssumption
<1>5. NoKey \in Keys /\ calls' \in 0 .. MaxCalls
  BY <1>1 DEF IInv, TypeOK, HttpAssumption, NoKey, Keys, Algs, Missing, Empty
<1>6. TypeOK'
  <2>1. signed' \in [Slots -> 0 .. MaxKeys] /\ key' \in [Slots -> Keys]
    BY <1>1, <1>3, <1>4, <1>5 DEF IInv, TypeOK
  <2>2. 0 \in Codes
    BY DEF Codes
  <2>3. status' \in [Slots -> Codes] /\ answer' \in [Slots -> Codes \union {Aborted}]
    BY <1>1, <2>2 DEF IInv, TypeOK
  <2> QED
    BY <1>1, <1>2, <1>5, <2>1, <2>3 DEF IInv, TypeOK
\* What has become of the other requests, and of this one.
<1>7. /\ signed'[r] = k /\ call'[r] = c /\ pc'[r] = "limit" /\ answer'[r] = 0 /\ status'[r] = 0
      /\ \A q \in Slots \ {r} : /\ signed'[q] = signed[q] /\ call'[q] = call[q] /\ pc'[q] = pc[q]
                               /\ key'[q] = key[q] /\ answer'[q] = answer[q] /\ status'[q] = status[q]
  BY <1>1, <1>3 DEF IInv, TypeOK
<1>8. \A q \in Slots \ {r} : /\ OwnToken(q)' = OwnToken(q) /\ Alg(q)' = Alg(q)
                             /\ MayPass(q)' = MayPass(q)
  BY <1>1, <1>2, <1>7 DEF OwnToken, Alg, MayPass
<1>9. PhaseInv'
  BY <1>1, <1>7 DEF IInv, PhaseInv
<1>10. VerifiedInv'
  BY <1>1, <1>2, <1>7, <1>8 DEF IInv, VerifiedInv
<1>11. EntryInv'
  <2>1. cache' = NoKey \/ IsEntry(cache)'
    BY <1>1, <1>2 DEF IInv, EntryInv, IsEntry
  <2>2. \A q \in Slots \ {r} : /\ pc'[q] \in {"fill", "verify"} => IsEntry(key[q])'
                               /\ pc'[q] # "idle" /\ OwnToken(q)' => signed'[q] \in 1 .. issuerKey'
    BY <1>1, <1>2, <1>7, <1>8 DEF IInv, EntryInv, IsEntry
  <2>3. OwnToken(r)' => signed'[r] \in 1 .. issuerKey'
    BY <1>1, <1>4, <1>7 DEF OwnToken
  <2> QED
    BY <1>7, <2>1, <2>2, <2>3 DEF EntryInv
<1>12. KeyInv'
  BY <1>1, <1>2, <1>7, <1>8 DEF IInv, KeyInv
<1>13. OnlyVerified'
  <2>1. \A q \in Slots \ {r} : hook /\ call[q].route # "ping" /\ (q \in stored \/ answer[q] \in {200, 201}) => q \in verified
    BY DEF IInv, OnlyVerified
  <2> QED
    BY <1>1, <1>2, <1>7, <1>10, <2>1 DEF OnlyVerified, VerifiedInv, MayPass
<1>14. RefusedOnlyIfStale'
  BY <1>1, <1>2, <1>7, <1>8 DEF IInv, RefusedOnlyIfStale
<1> QED
  BY <1>6, <1>9, <1>10, <1>11, <1>12, <1>13, <1>14 DEF IInv

LEMMA TimeoutKeepsIInv ==
  ASSUME IInv, NEW r \in Slots, Timeout(r)
  PROVE  IInv'
<1>1. /\ pc[r] \notin {"idle", "done"} /\ answer[r] = 0 /\ answer' = [answer EXCEPT ![r] = 503]
      /\ UNCHANGED <<pc, call, signed, key, status, cache, issuerKey, settings, calls, effects, excused,
                     verified, fillings>>
  BY DEF Timeout
<1>2. UNCHANGED <<hook, trace, hasProvider, keyAlg, stored, unreported, emptyReply, otherAlg>>
  BY <1>1 DEF settings, effects, fillings
<1>3. answer' \in [Slots -> Codes \union {Aborted}]
  BY <1>1 DEF IInv, TypeOK, Codes
<1>4. TypeOK' /\ VerifiedInv' /\ EntryInv' /\ KeyInv'
  BY <1>1, <1>2, <1>3 DEF IInv, TypeOK, VerifiedInv, MayPass, EntryInv, IsEntry, KeyInv, OwnToken, Alg
<1>5. PhaseInv'
  BY <1>1, <1>2 DEF IInv, TypeOK, PhaseInv
<1>6. OnlyVerified'
  BY <1>1, <1>2 DEF IInv, TypeOK, OnlyVerified
<1>7. RefusedOnlyIfStale'
  BY <1>1, <1>2 DEF IInv, TypeOK, RefusedOnlyIfStale, OwnToken, Alg
<1> QED
  BY <1>4, <1>5, <1>6, <1>7 DEF IInv

LEMMA RotateKeepsIInv == HttpAssumption /\ IInv /\ Rotate => IInv'
<1> SUFFICES ASSUME HttpAssumption, IInv, Rotate PROVE IInv'
  OBVIOUS
<1>1. /\ issuerKey' = issuerKey + 1 /\ issuerKey < MaxKeys
      /\ UNCHANGED <<pc, call, signed, key, status, answer, cache, settings, calls, effects, excused,
                     verified, fillings>>
  BY DEF Rotate
<1>2. UNCHANGED <<hook, trace, hasProvider, keyAlg, stored, unreported, emptyReply, otherAlg>>
  BY <1>1 DEF settings, effects, fillings
<1>3. issuerKey' \in 1 .. MaxKeys /\ issuerKey' > 1 /\ 1 .. issuerKey \subseteq 1 .. issuerKey'
  BY <1>1 DEF IInv, TypeOK, HttpAssumption
<1>4. TypeOK' /\ PhaseInv' /\ KeyInv' /\ RefusedOnlyIfStale'
  BY <1>1, <1>2, <1>3 DEF IInv, TypeOK, PhaseInv, KeyInv, RefusedOnlyIfStale
<1>5. \A r \in Slots : MayPass(r) => MayPass(r)'
  BY <1>1, <1>2, <1>3 DEF MayPass
<1>6. VerifiedInv'
  BY <1>1, <1>2, <1>5 DEF IInv, VerifiedInv
<1>7. EntryInv'
  BY <1>1, <1>2, <1>3 DEF IInv, EntryInv, IsEntry, OwnToken
<1>8. OnlyVerified'
  <2>1. \A q \in Slots : hook /\ call[q].route # "ping" /\ (q \in stored \/ answer[q] \in {200, 201}) => q \in verified
    BY DEF IInv, OnlyVerified
  <2> QED
    BY <1>1, <1>2, <1>6, <2>1 DEF OnlyVerified, VerifiedInv, MayPass
<1> QED
  BY <1>4, <1>6, <1>7, <1>8 DEF IInv

-----------------------------------------------------------------------------
\* What is so of the cache whenever nothing is put into it.
LEMMA CacheStays ==
  ASSUME IInv, cache' = cache, issuerKey' = issuerKey, keyAlg' = keyAlg, emptyReply => emptyReply', otherAlg' = otherAlg
  PROVE  /\ cache' = NoKey \/ IsEntry(cache)'
         /\ ~emptyReply' /\ ~otherAlg' /\ issuerKey = 1 => cache' \in {NoKey, <<1, keyAlg[1]>>}
BY DEF IInv, EntryInv, KeyInv, IsEntry

LEMMA FetchKeepsIInv ==
  ASSUME HttpAssumption, IInv, NEW r \in Slots, Fetch(r)
  PROVE  IInv'
<1>1. PICK ok \in BOOLEAN, k \in {issuerKey, Empty} :
        /\ emptyReply' = (emptyReply \/ (ok /\ k = Empty))
        /\ excused' = IF ok THEN excused ELSE excused \union {r}
        /\ IF ok /\ Processable(k, Alg(r))
           THEN /\ Goto(r, "fetch", "fill") /\ UNCHANGED <<status, answer>>
                /\ key' = [key EXCEPT ![r] = <<k, Alg(r)>>]
           ELSE ReturnError(r, "fetch", 401) /\ UNCHANGED key
  <2>1. PICK url \in BOOLEAN, token \in BOOLEAN, reply \in Replies :
          LET code == SendRequest([url |-> url, token |-> token], reply)
              k    == IF reply.body = "key" THEN issuerKey ELSE Empty IN
          /\ emptyReply' = (emptyReply \/ (code = 0 /\ k = Empty))
          /\ excused' = IF code = 0 THEN excused ELSE excused \union {r}
          /\ IF code = 0 /\ Processable(k, Alg(r))
             THEN /\ Goto(r, "fetch", "fill") /\ UNCHANGED <<status, answer>>
                  /\ key' = [key EXCEPT ![r] = <<k, Alg(r)>>]
             ELSE ReturnError(r, "fetch", 401) /\ UNCHANGED key
    BY DEF Fetch
  <2> DEFINE c == SendRequest([url |-> url, token |-> token], reply) = 0
             k == IF reply.body = "key" THEN issuerKey ELSE Empty
  <2>2. k \in {issuerKey, Empty}
    OBVIOUS
  <2>3. /\ emptyReply' = (emptyReply \/ (c /\ k = Empty))
        /\ excused' = IF c THEN excused ELSE excused \union {r}
        /\ IF c /\ Processable(k, Alg(r))
           THEN /\ Goto(r, "fetch", "fill") /\ UNCHANGED <<status, answer>>
                /\ key' = [key EXCEPT ![r] = <<k, Alg(r)>>]
           ELSE ReturnError(r, "fetch", 401) /\ UNCHANGED key
    BY <2>1
  <2>4. c \in BOOLEAN
    OBVIOUS
  <2> HIDE DEF c, k
  <2> QED
    BY <2>2, <2>3, <2>4
<1>2. pc[r] = "fetch" /\ UNCHANGED <<call, signed, cache, issuerKey, settings, calls, effects, verified, otherAlg>>
  BY DEF Fetch
<1>3. /\ key \in [Slots -> Keys] /\ cache \in Keys /\ status \in [Slots -> Codes]
      /\ emptyReply' \in BOOLEAN /\ otherAlg' \in BOOLEAN /\ (emptyReply => emptyReply')
  BY <1>1, <1>2 DEF IInv, TypeOK
<1>4. keyAlg' = keyAlg /\ status[r] \in {0, 413}
  BY <1>2 DEF settings, IInv, PhaseInv
<1>5. k \in Empty .. MaxKeys /\ Alg(r) \in Algs
  BY <1>2, AlgTypes DEF Empty
<1>6. CASE ok /\ Processable(k, Alg(r))
  <2>1. /\ Goto(r, "fetch", "fill") /\ UNCHANGED <<status, answer, excused>>
        /\ key' = [key EXCEPT ![r] = <<k, Alg(r)>>] /\ emptyReply' = (emptyReply \/ k = Empty)
    BY <1>1, <1>6
  <2>2. key' \in [Slots -> Keys] /\ key'[r] = <<k, Alg(r)>> /\ \A q \in Slots \ {r} : key'[q] = key[q]
    BY <1>3, <1>5, <2>1 DEF Keys
  <2>3. IsEntry(key[r])' /\ (~emptyReply' /\ issuerKey = 1 => key'[r] = <<1, Alg(r)>>)
    <3>1. key'[r][1] = k /\ issuerKey' = issuerKey /\ issuerKey \in 1 .. issuerKey
      BY <1>2, <2>2, AlgTypes
    <3>2. k = Empty => emptyReply'
      BY <2>1
    <3>3. IsEntry(key[r])'
      BY <3>1, <3>2 DEF IsEntry
    <3> QED
      BY <2>2, <3>2, <3>3
  <2> QED
    BY <1>2, <1>3, <1>4, <2>1, <2>2, <2>3, CacheStays, MoveKeepsIInv
<1>7. CASE ~(ok /\ Processable(k, Alg(r)))
  <2>1. ReturnError(r, "fetch", 401) /\ UNCHANGED key
    BY <1>1, <1>7
  <2>2. OwnToken(r) => r \in excused' \/ emptyReply' \/ issuerKey > 1
    <3> SUFFICES ASSUME OwnToken(r), ok, k # Empty, ~(issuerKey > 1) PROVE FALSE
      BY <1>1
    <3>1. k = 1 /\ issuerKey = 1
      BY AlgTypes
    <3>2. Alg(r) = keyAlg[1] /\ keyAlg[1] \in Algs \ {"none"}
      BY <1>2, <3>1, AlgTypes DEF IInv, EntryInv
    <3> QED
      BY <1>7, <3>1, <3>2 DEF Processable, Algs
  <2>3. excused' \in {excused, excused \union {r}}
    BY <1>1
  <2> QED
    BY <1>2, <1>3, <2>1, <2>2, <2>3, RefusalKeepsIInv
<1> QED
  BY <1>6, <1>7

LEMMA VerifyKeepsIInv ==
  ASSUME HttpAssumption, IInv, NEW r \in Slots, Verify(r)
  PROVE  IInv'
<1>1. PICK valid \in Verdicts(r) :
        IF valid
        THEN Goto(r, "verify", "handler") /\ verified' = verified \union {r} /\ UNCHANGED <<status, answer>>
        ELSE ReturnError(r, "verify", 401) /\ UNCHANGED verified
  BY DEF Verify
<1>2. /\ key' = [key EXCEPT ![r] = NoKey]
      /\ UNCHANGED <<call, signed, cache, issuerKey, settings, calls, effects, excused, fillings>>
  BY DEF Verify
<1>3. UNCHANGED <<keyAlg, emptyReply, otherAlg>> /\ NoKey \in Keys
  BY <1>2 DEF settings, fillings, HttpAssumption, NoKey, Keys, Algs, Missing, Empty
<1>4. /\ key' \in [Slots -> Keys] /\ \A q \in Slots \ {r} : key'[q] = key[q]
      /\ cache' \in Keys /\ status \in [Slots -> Codes] /\ emptyReply' \in BOOLEAN /\ otherAlg' \in BOOLEAN
  BY <1>2, <1>3 DEF IInv, TypeOK
<1>5. pc[r] = "verify"
  BY <1>1 DEF Goto, ReturnError
<1>6. IsEntry(key[r]) /\ status[r] \in {0, 413}
  BY <1>5 DEF IInv, EntryInv, PhaseInv
<1>7. CASE valid
  <2>1. Goto(r, "verify", "handler") /\ verified' = verified \union {r} /\ UNCHANGED <<status, answer>>
    BY <1>1, <1>7
  <2>2. MayPass(r)
    <3> SUFFICES ASSUME call[r].token = "foreign"
                 PROVE  call[r].alg = "HS" /\ (emptyReply \/ \E k \in 1 .. issuerKey : keyAlg[k] # "HS")
      BY DEF MayPass
    <3>1. ~OwnToken(r) /\ Alg(r) = call[r].alg
      BY DEF OwnToken, Alg
    <3>2. Alg(r) = "HS" /\ (key[r][1] # Empty => keyAlg[key[r][1]] # "HS")
      BY <1>7, <3>1 DEF Verdicts
    <3> QED
      BY <1>6, <3>1, <3>2 DEF IsEntry
  <2> QED
    BY <1>2, <1>3, <1>4, <1>6, <2>1, <2>2, CacheStays, MoveKeepsIInv
<1>8. CASE ~valid
  <2>1. ReturnError(r, "verify", 401) /\ UNCHANGED verified
    BY <1>1, <1>8
  <2>2. ASSUME OwnToken(r), Alg(r) # "EdDSA", ~emptyReply, ~otherAlg, ~(issuerKey > 1) PROVE FALSE
    <3>1. issuerKey = 1 /\ signed[r] = 1 /\ Alg(r) = keyAlg[1]
      BY <1>5, <2>2, AlgTypes DEF IInv, EntryInv
    <3>2. key[r] = <<1, keyAlg[1]>>
      BY <1>5, <2>2, <3>1 DEF IInv, KeyInv
    <3>3. Verdicts(r) = {TRUE}
      BY <2>2, <3>1, <3>2 DEF Verdicts
    <3> QED
      BY <1>8, <3>3
  <2> QED
    BY <1>2, <1>3, <1>4, <2>1, <2>2, RefusalKeepsIInv
<1> QED
  BY <1>7, <1>8

LEMMA AuthenticationKeepsIInv ==
  ASSUME HttpAssumption, IInv, NEW r \in Slots,
         NoToken(r) \/ AskStore(r) \/ AskNobody(r) \/ LookUp(r) \/ FillCache(r)
  PROVE  IInv'
<1>1. /\ key \in [Slots -> Keys] /\ cache \in Keys /\ status \in [Slots -> Codes]
      /\ verified \subseteq Slots /\ emptyReply \in BOOLEAN /\ otherAlg \in BOOLEAN /\ excused \subseteq Slots
  BY DEF IInv, TypeOK
<1>2. \A from : pc[r] = from /\ from \notin {"idle", "done"} => status[r] \in {0, 413}
  BY DEF IInv, PhaseInv
<1>3. CASE NoToken(r)
  <2>1. ~OwnToken(r)
    BY <1>3 DEF NoToken, OwnToken
  <2> QED
    BY <1>1, <1>3, <2>1, RefusalKeepsIInv DEF NoToken, fillings
<1>4. CASE AskStore(r)
  <2>1. CASE Goto(r, "auth", "handler") /\ verified' = verified \union {r} /\ UNCHANGED <<status, answer, excused>>
    <3>1. status[r] \in {0, 413} /\ MayPass(r)
      BY <1>2, <1>4, <2>1 DEF Goto, AskStore, MayPass
    <3>2. UNCHANGED <<call, signed, key, cache, issuerKey, settings, calls, effects, fillings, keyAlg, emptyReply, otherAlg>>
      BY <1>4 DEF AskStore, settings, fillings
    <3> QED
      BY <1>1, <2>1, <3>1, <3>2, CacheStays, MoveKeepsIInv
  <2>2. CASE ReturnError(r, "auth", 401) /\ excused' = excused \union {r} /\ UNCHANGED verified
    BY <1>1, <1>4, <2>2, RefusalKeepsIInv DEF AskStore, fillings
  <2> QED
    BY <1>4, <2>1, <2>2 DEF AskStore
<1>5. CASE AskNobody(r)
  <2>1. /\ pc[r] = "auth" /\ pc' = [pc EXCEPT ![r] = "done"] /\ status' = status
        /\ answer' = [answer EXCEPT ![r] = IF @ = 0 THEN Aborted ELSE @]
    BY <1>5 DEF AskNobody, Goto
  <2>2. answer \in [Slots -> Codes \union {Aborted}]
    BY DEF IInv, TypeOK
  <2>3. Ended(r, "auth", {Aborted})
    BY <1>1, <2>1, <2>2 DEF Ended
  <2> QED
    BY <1>1, <1>5, <2>3, EndKeepsIInv DEF AskNobody, Aborted, fillings
<1>6. CASE LookUp(r)
  <2>1. Goto(r, "auth", IF cache = NoKey THEN "fetch" ELSE "verify") /\ status[r] \in {0, 413}
    BY <1>2, <1>6 DEF LookUp, Goto
  <2>2. key' \in [Slots -> Keys] /\ key'[r] = cache /\ \A q \in Slots \ {r} : key'[q] = key[q]
    BY <1>1, <1>6 DEF LookUp
  <2>3. UNCHANGED <<call, signed, status, answer, cache, issuerKey, settings, calls, effects, excused, verified,
                    keyAlg, emptyReply, otherAlg>>
    BY <1>6 DEF LookUp, settings, fillings
  <2>4. /\ cache' = NoKey \/ IsEntry(cache)'
        /\ ~emptyReply' /\ ~otherAlg' /\ issuerKey = 1 => cache' \in {NoKey, <<1, keyAlg[1]>>}
    BY <2>3, CacheStays
  <2>5. CASE cache = NoKey
    BY <1>1, <2>1, <2>2, <2>3, <2>4, <2>5, MoveKeepsIInv
  <2>6. CASE cache # NoKey
    <3>1. IsEntry(key[r])'
      BY <2>2, <2>3, <2>4, <2>6 DEF IsEntry
    <3> QED
      BY <1>1, <2>1, <2>2, <2>3, <2>4, <2>6, <3>1, MoveKeepsIInv
  <2> QED
    BY <2>5, <2>6
<1>7. CASE FillCache(r)
  <2>1. /\ Goto(r, "fill", "verify") /\ pc[r] = "fill" /\ cache' = key[r] /\ status[r] \in {0, 413}
        /\ key[r] \in Keys
        /\ otherAlg' = (otherAlg \/ (key[r][1] # Empty /\ keyAlg[key[r][1]] # key[r][2]))
        /\ UNCHANGED <<call, signed, key, status, answer, issuerKey, settings, calls, effects, excused, verified,
                       emptyReply, keyAlg>>
    BY <1>1, <1>2, <1>7 DEF FillCache, Fill, Goto, settings
  <2>2. IsEntry(key[r]) /\ IsEntry(cache)' /\ IsEntry(key[r])'
    BY <2>1 DEF IInv, EntryInv, IsEntry
  <2>3. ~emptyReply' /\ ~otherAlg' /\ issuerKey = 1 => key[r] = <<1, keyAlg[1]>>
    <3> SUFFICES ASSUME ~emptyReply, ~otherAlg, ~otherAlg', issuerKey = 1 PROVE key[r] = <<1, keyAlg[1]>>
      BY <2>1
    <3>1. key[r] = <<1, Alg(r)>>
      BY <2>1 DEF IInv, KeyInv
    <3>2. key[r][1] = 1 /\ key[r][2] = Alg(r) /\ 1 # Empty
      BY <3>1 DEF Empty
    <3>3. ~(key[r][1] # Empty /\ keyAlg[key[r][1]] # key[r][2])
      BY <2>1
    <3>4. keyAlg[1] = Alg(r)
      BY <3>2, <3>3
    <3> QED
      BY <3>1, <3>4
  <2>4. otherAlg' \in BOOLEAN /\ (otherAlg => otherAlg') /\ key' \in [Slots -> Keys] /\ cache' \in Keys
        /\ status' \in [Slots -> Codes] /\ key'[r] = key[r] /\ status'[r] = status[r]
    BY <1>1, <2>1
  <2>5. ~emptyReply' /\ ~otherAlg' /\ issuerKey = 1 =>
          cache' \in {NoKey, <<1, keyAlg[1]>>} /\ key'[r] = <<1, keyAlg[1]>>
    BY <2>1, <2>3, <2>4
  <2>6. /\ Goto(r, "fill", "verify") /\ status'[r] \in {0, 413} /\ verified' = verified
        /\ \A q \in Slots \ {r} : status'[q] = status[q] /\ key'[q] = key[q]
        /\ emptyReply' \in BOOLEAN /\ (emptyReply => emptyReply')
        /\ UNCHANGED <<call, signed, answer, issuerKey, settings, calls, effects, excused>>
    BY <1>1, <2>1
  <2> HIDE DEF IsEntry
  <2> QED
    BY <2>2, <2>4, <2>5, <2>6, MoveKeepsIInv
<1> QED
  BY <1>3, <1>4, <1>5, <1>6, <1>7

LEMMA HandlersKeepIInv ==
  ASSUME HttpAssumption, IInv, NEW r \in Slots,
         RequestLimit(r) \/ Ping(r) \/ AddSecret(r) \/ Created(r) \/ List(r) \/ Forward(r)
  PROVE  IInv'
<1>1. /\ HttpCode(<<"UnexpectedServerError">>) \in HandlerCodes
      /\ HttpCode(<<"ContractInvalid">>) \in HandlerCodes
      /\ HttpCode(Wrapped("Unknown", <<>>)) \in HandlerCodes /\ 200 \in HandlerCodes
  <2>1. "UnexpectedServerError" \in Kinds /\ "ContractInvalid" \in Kinds
        /\ CodeMapping("UnexpectedServerError") = 500 /\ CodeMapping("ContractInvalid") = 400
    BY DEF Kinds, CodeMapping
  <2> QED
    BY <2>1, CodeOfOne DEF HandlerCodes
<1>2. /\ key \in [Slots -> Keys] /\ cache \in Keys /\ emptyReply \in BOOLEAN /\ otherAlg \in BOOLEAN
      /\ excused \subseteq Slots /\ verified \subseteq Slots /\ stored \subseteq Slots
      /\ status \in [Slots -> Codes] /\ issuerKey \in 1 .. MaxKeys
  BY DEF IInv, TypeOK
<1>3. CASE RequestLimit(r)
  <2>1. UNCHANGED <<call, signed, key, cache, issuerKey, settings, calls, effects, excused, verified, keyAlg,
                    emptyReply, otherAlg>>
    BY <1>3 DEF RequestLimit, settings, fillings
  <2>2. CASE /\ Goto(r, "limit", IF Secured(call[r]) THEN "auth" ELSE "handler")
             /\ status' = [status EXCEPT ![r] = IF call[r].big THEN 413 ELSE 0] /\ UNCHANGED answer
    <3>1. status' \in [Slots -> Codes] /\ status'[r] \in {0, 413} /\ \A q \in Slots \ {r} : status'[q] = status[q]
      BY <1>2, <2>2 DEF Codes
    <3> QED
      BY <1>2, <2>1, <2>2, <3>1, CacheStays, MoveKeepsIInv DEF Secured
  <2>3. ASSUME NEW code \in {413, 500}, Reply(r, "limit", code) PROVE IInv'
    <3>1. Ended(r, "limit", {code})
      BY <2>3, ReplyEnds DEF IInv, Codes
    <3> QED
      BY <1>2, <2>1, <3>1, EndKeepsIInv
  <2> QED
    BY <1>3, <2>2, <2>3 DEF RequestLimit
<1>4. CASE Ping(r)
  <2>1. PICK code \in HandlerCodes : Reply(r, "handler", code)
    BY <1>1, <1>4 DEF Ping
  <2> QED
    BY <1>4, <2>1, HandlerKeepsIInv DEF Ping
<1>5. CASE AddSecret(r)
  <2>1. CASE Goto(r, "handler", "stored") /\ stored' = stored \union {r} /\ UNCHANGED <<status, answer, unreported>>
    <3>1. /\ pc' \in [Slots -> {"idle", "limit", "auth", "fetch", "fill", "verify", "handler", "stored", "done"}]
          /\ pc'[r] = "stored" /\ pc[r] = "handler" /\ \A q \in Slots \ {r} : pc'[q] = pc[q]
      BY <2>1 DEF IInv, TypeOK, Goto
    <3>2. /\ UNCHANGED <<call, signed, key, cache, issuerKey, settings, calls, excused, verified, fillings>>
          /\ UNCHANGED <<hook, trace, hasProvider, keyAlg, emptyReply, otherAlg>> /\ stored' \subseteq Slots
      BY <1>2, <1>5, <2>1 DEF AddSecret, settings, fillings
    <3>3. TypeOK' /\ VerifiedInv' /\ RefusedOnlyIfStale'
      BY <2>1, <3>1, <3>2 DEF IInv, TypeOK, VerifiedInv, MayPass, RefusedOnlyIfStale, OwnToken, Alg
    <3>4. PhaseInv'
      BY <2>1, <3>1 DEF IInv, PhaseInv
    <3>5. EntryInv' /\ KeyInv'
      BY <2>1, <3>1, <3>2 DEF IInv, EntryInv, IsEntry, KeyInv, OwnToken, Alg
    <3>6. OnlyVerified'
      <4>1. \A q \in Slots : hook /\ call[q].route # "ping" /\ (q \in stored' \/ answer[q] \in {200, 201}) => q \in verified
        BY <2>1, <3>1 DEF IInv, OnlyVerified, VerifiedInv
      <4> QED
        BY <2>1, <3>2, <3>3, <4>1 DEF OnlyVerified, VerifiedInv, MayPass
    <3> QED
      BY <3>3, <3>4, <3>5, <3>6 DEF IInv
  <2>2. ASSUME NEW code \in HandlerCodes, Reply(r, "handler", code), UNCHANGED effects PROVE IInv'
    BY <1>5, <2>2, HandlerKeepsIInv DEF AddSecret
  <2>3. CASE /\ Reply(r, "handler", HttpCode(Wrapped("Unknown", <<>>)))
             /\ stored' = stored \union {r} /\ unreported' = unreported \union {r}
    <3>1. HttpCode(Wrapped("Unknown", <<>>)) = 500 /\ 500 \in Codes \ {0}
      <4>1. "NotFound" \in Kinds /\ 500 \in Codes \ {0}
        BY DEF Kinds, Codes
      <4> QED
        BY <4>1, CodeOfOne
    <3>2. Ended(r, "handler", {500})
      BY <2>3, <3>1, ReplyEnds DEF IInv
    <3>3. UNCHANGED <<call, signed, key, cache, issuerKey, settings, calls, excused, verified, emptyReply, otherAlg>>
      BY <1>5 DEF AddSecret, fillings
    <3> QED
      BY <1>2, <2>3, <3>2, <3>3, EndKeepsIInv
  <2>4. \/ Goto(r, "handler", "stored") /\ stored' = stored \union {r} /\ UNCHANGED <<status, answer, unreported>>
        \/ \E code \in HandlerCodes : Reply(r, "handler", code) /\ UNCHANGED effects
        \/ /\ Reply(r, "handler", HttpCode(Wrapped("Unknown", <<>>)))
           /\ stored' = stored \union {r} /\ unreported' = unreported \union {r}
    BY <1>1, <1>5 DEF AddSecret
  <2> QED
    BY <2>1, <2>2, <2>3, <2>4
<1>6. CASE Created(r)
  <2>1. Ended(r, "stored", {201})
    BY <1>6, ReplyEnds DEF Created, IInv, Codes
  <2> QED
    BY <1>2, <1>6, <2>1, EndKeepsIInv DEF Created, fillings
<1>7. CASE List(r)
  <2> DEFINE failure == ParseQuery(call[r].query)
  <2>1. CASE ReturnError(r, "handler", 500)
    <3>1. Ended(r, "handler", {500})
      BY <2>1, ErrorEnds DEF IInv, Codes
    <3>2. UNCHANGED <<call, signed, key, cache, issuerKey, settings, calls, effects, excused, verified, fillings>>
      BY <1>7 DEF List
    <3> QED
      BY <1>2, <3>1, <3>2, EndKeepsIInv DEF fillings
  <2>2. ASSUME NEW code \in HandlerCodes, Reply(r, "handler", code) PROVE IInv'
    BY <1>7, <2>2, HandlerKeepsIInv DEF List
  <2>3. ReturnError(r, "handler", 500) \/ \E code \in HandlerCodes : Reply(r, "handler", code)
    <3>1. failure # <<>> => HttpCode(failure) \in HandlerCodes
      BY QueryCodes DEF HandlerCodes
    <3>2. IF failure # <<>> THEN Reply(r, "handler", HttpCode(failure))
          ELSE Reply(r, "handler", 200) \/ ReturnError(r, "handler", 500)
      BY <1>7 DEF List
    <3> HIDE DEF failure
    <3> QED
      BY <1>1, <3>1, <3>2
  <2> QED
    BY <2>1, <2>2, <2>3
<1>8. CASE Forward(r)
  <2>1. PICK url \in BOOLEAN, hasSecret \in BOOLEAN, readable \in BOOLEAN, code \in {0, 200, 404} :
          Reply(r, "handler", SendAnswer([data |-> call[r].data, url |-> url], call[r].given, hasSecret,
                                         [status |-> code, readable |-> readable]))
    BY <1>8 DEF Forward
  <2>2. PICK sent, given, reply : Reply(r, "handler", SendAnswer(sent, given, hasSecret, reply))
    BY <2>1
  <2>3. SendAnswer(sent, given, hasSecret, reply) \in HandlerCodes
    BY <1>1, SendCodes DEF SendAnswer
  <2> QED
    BY <1>8, <2>2, <2>3, HandlerKeepsIInv DEF Forward
<1> QED
  BY <1>3, <1>4, <1>5, <1>6, <1>7, <1>8

LEMMA StepIInv == HttpAssumption /\ IInv /\ [Next]_vars => IInv'
<1> SUFFICES ASSUME HttpAssumption, IInv, [Next]_vars PROVE IInv'
  OBVIOUS
<1>1. CASE UNCHANGED vars
  <2>1. UNCHANGED <<pc, call, signed, key, status, answer, cache, issuerKey, calls, excused, verified, hook, trace,
                    hasProvider, keyAlg, stored, unreported, emptyReply, otherAlg>>
    BY <1>1 DEF vars, settings, effects, fillings
  <2>2. TypeOK' /\ PhaseInv' /\ VerifiedInv'
    BY <2>1 DEF IInv, TypeOK, PhaseInv, VerifiedInv, MayPass
  <2>3. EntryInv' /\ KeyInv'
    BY <2>1 DEF IInv, EntryInv, IsEntry, KeyInv, OwnToken, Alg
  <2>4. OnlyVerified' /\ RefusedOnlyIfStale'
    BY <2>1 DEF IInv, OnlyVerified, RefusedOnlyIfStale, OwnToken, Alg
  <2> QED
    BY <2>2, <2>3, <2>4 DEF IInv
<1> QED
  BY <1>1, ArriveKeepsIInv, TimeoutKeepsIInv, RotateKeepsIInv, FetchKeepsIInv, VerifyKeepsIInv,
     AuthenticationKeepsIInv, HandlersKeepIInv
     DEF Next, Serve

LEMMA InvariantHolds == Spec => []IInv
BY InitIInv, StepIInv, HttpAssumption, PTL DEF Spec

\* The variables have their types; in particular no status is written but those
\* of Codes, whichever error a handler or a middleware ends with.
THEOREM TypeCorrect == Spec => []TypeOK
<1>1. IInv => TypeOK
  BY DEF IInv
<1> QED
  BY <1>1, InvariantHolds, PTL

\* No request gets around the verification of its token by timing out, by being too
\* big or through the cache of keys; and a token of another than the issuer counts
\* as verified only where a key that is no secret is taken for one.
THEOREM OnlyVerifiedHolds == Spec => []OnlyVerified
<1>1. IInv => OnlyVerified
  BY DEF IInv
<1> QED
  BY <1>1, InvariantHolds, PTL

\* The cache is the reason for a refusal only after the issuer changed its key or
\* answered without one, or the key was cached for another algorithm.
THEOREM RefusedOnlyIfStaleHolds == Spec => []RefusedOnlyIfStale
<1>1. IInv => RefusedOnlyIfStale
  BY DEF IInv
<1> QED
  BY <1>1, InvariantHolds, PTL

\* A request for which a secret was stored is answered with 201, or by the timeout
\* or the request limit, or with an error because the store has not confirmed it;
\* and only a request whose secret the store has confirmed is answered with 201.
THEOREM EffectMatchesAnswerHolds == Spec => []EffectMatchesAnswer
<1>1. IInv => EffectMatchesAnswer
  <2> SUFFICES ASSUME IInv, NEW r \in Slots
               PROVE  /\ answer[r] = 201 => r \in stored \ unreported
                      /\ r \in stored => answer[r] \in {0, 201, 413, 503} \/ (r \in unreported /\ answer[r] = 500)
                      /\ pc[r] = "done" => answer[r] # 0
    BY DEF EffectMatchesAnswer
  <2> QED
    BY DEF IInv, PhaseInv
<1> QED
  BY <1>1, InvariantHolds, PTL

=============================================================================
