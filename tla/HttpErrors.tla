----------------------------- MODULE HttpErrors ----------------------------
(***************************************************************************)
(* Error kinds and status codes of pkg/errors, and the helpers of pkg/rest *)
(* and pkg/bootstrap/utils that read requests and decide on the answer.    *)
(***************************************************************************)
EXTENDS Integers, Sequences

Kinds == {"Unknown", "Database", "Communication", "NotFound", "ContractInvalid",
          "UnexpectedServerError", "LimitExceeded", "StatusConflict", "DuplicateName",
          "InvalidId", "ServiceUnavailable", "NotAllowed", "ServiceLocked", "NotImplemented",
          "RangeNotSatisfiable", "IOError", "OverflowError", "NaNError", "Unauthorized",
          "AuthenticationFailure", "PayloadDecodeFailure", "Timeout", "Forbidden"}

\* codeMapping; what it does not name is an internal error.
CodeMapping(kind) ==
  CASE kind = "Communication"                     -> 502
    [] kind = "NotFound"                          -> 404
    [] kind \in {"ContractInvalid", "InvalidId"}  -> 400
    [] kind \in {"StatusConflict", "DuplicateName"} -> 409
    [] kind = "LimitExceeded"                     -> 413
    [] kind = "ServiceUnavailable"                -> 503
    [] kind = "ServiceLocked"                     -> 423
    [] kind = "NotImplemented"                    -> 501
    [] kind = "NotAllowed"                        -> 405
    [] kind = "RangeNotSatisfiable"               -> 416
    [] kind \in {"IOError", "Forbidden"}          -> 403
    [] kind = "Unauthorized"                      -> 401
    [] OTHER                                      -> 500

\* KindMapping, its counterpart for the codes of answers.
KindMapping(code) ==
  CASE code = 500 -> "UnexpectedServerError" [] code = 502 -> "Communication"
    [] code = 404 -> "NotFound"              [] code = 400 -> "ContractInvalid"
    [] code = 409 -> "StatusConflict"        [] code = 413 -> "LimitExceeded"
    [] code = 503 -> "ServiceUnavailable"    [] code = 423 -> "ServiceLocked"
    [] code = 501 -> "NotImplemented"        [] code = 405 -> "NotAllowed"
    [] code = 416 -> "RangeNotSatisfiable"   [] code = 401 -> "Unauthorized"
    [] code = 403 -> "Forbidden"             [] OTHER      -> "Unknown"

\* Kind of a chain of wrapped errors: the first that is not Unknown.  An error
\* that is not a BaseError adds nothing to the chain.
Kind(chain) ==
  LET known == {i \in DOMAIN chain : chain[i] # "Unknown"} IN
  IF known = {} THEN "Unknown"
  ELSE chain[CHOOSE i \in known : \A j \in known : i <= j]

\* NewBaseError around another error, and what NewHTTPError answers for it.
Wrapped(kind, chain) == <<kind>> \o chain

\* ToBaseError and BaseErrorWrapper.
ToBaseError(chain) == Wrapped(Kind(chain), chain)

HttpCode(chain) == CodeMapping(Kind(chain))

\* SendJsonResp: what is no status code is an internal error.
StatusSent(code) == IF code < 100 \/ code > 900 THEN 500 ELSE code

-----------------------------------------------------------------------------
(* Query strings; a value is a number, or one of these. *)

Absent == -100
NotANumber == -200

\* parseQueryStringToInt and its kin for the values it can parse.
ParseInt(value, default) == IF value = Absent THEN default ELSE value

\* checkValueRange.
InRange(value, min, max) == min <= max /\ min <= value /\ value <= max

Unparsable == <<"ContractInvalid">>

\* ParseGetAllObjectsRequestQueryString: the error, or none.  A bound of zero
\* is none.
ParseGetAll(query, maxOffset, maxCount) ==
  LET offset == ParseInt(query.offset, 0)
      limit  == ParseInt(query.limit, 20) IN
  IF \/ NotANumber \in {query.offset, query.limit}
     \/ maxOffset > 0 /\ ~InRange(offset, 0, maxOffset)
     \/ maxCount > 0 /\ ~InRange(limit, -1, maxCount)
  THEN Unparsable ELSE <<>>

\* ParseStartEndRequestQueryString wraps the error, and does not compare the two.
ParseStartEnd(query) ==
  IF NotANumber \in {query.start, query.end} THEN Wrapped("ContractInvalid", Unparsable) ELSE <<>>

\* ParseGetLogsRequestQueryString.
ParseGetLogs(query) ==
  IF NotANumber \in {query.since, query.until, query.tail, query.timestamps} THEN Unparsable ELSE <<>>

-----------------------------------------------------------------------------
(* Requests to other services *)

\* GetRequest and PutRequest: the status of the echo.HTTPError they end with, or
\* 0.  What comes back is a status with a body, or not even that.
SendRequest(sent, reply) ==
  CASE ~sent.url \/ ~sent.token -> 500   \* CreateRequest, AddAuthenticationData
    [] reply.status = 0          -> 503   \* makeRequest
    [] ~reply.readable           -> 416   \* getBody
    [] reply.status > 207        -> reply.status
    [] reply.body = "other"      -> 400   \* an empty one is taken as it is
    [] OTHER                     -> 0

\* determineIfUsingSecret of HTTPSender: "yes", "no", or the error.
UsingSecret(given) ==
  CASE given = {}                         -> "no"
    [] given = {"name", "key", "header"}  -> "yes"
    [] OTHER                              -> "error"

\* httpSend, in the order in which it gives up.
HttpSend(sent, given, hasSecret, reply) ==
  CASE sent.data = "nil"                 -> <<"NotFound">>
    [] sent.data = "unmarshalable"       -> <<"ContractInvalid">>   \* coerceType
    [] ~sent.url                         -> <<"NotAllowed">>
    [] UsingSecret(given) = "error"      -> ToBaseError(<<"ContractInvalid">>)
    [] UsingSecret(given) = "yes" /\ ~hasSecret -> <<"NotFound">>
    [] reply.status = 0                  -> <<"UnexpectedServerError">>
    [] ~reply.readable                   -> <<"IOError">>
    [] reply.status \notin 200 .. 299    -> <<"Communication">>
    [] OTHER                             -> <<>>

=============================================================================
