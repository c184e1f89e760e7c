--------------------------- MODULE MCHttpPipeline ---------------------------
(* Requests to every route, with every kind of token and of mistake. *)
EXTENDS HttpPipeline

MCCalls ==
  {[NoCall EXCEPT !.route = "ping"],
   [NoCall EXCEPT !.route = "config", !.token = "malformed"],
   [NoCall EXCEPT !.route = "secret", !.token = "good"],
   [NoCall EXCEPT !.route = "secret", !.token = "good", !.big = TRUE],
   [NoCall EXCEPT !.route = "secret", !.token = "foreign", !.alg = "HS"],
   [NoCall EXCEPT !.route = "secret", !.token = "store", !.decodable = FALSE],
   [NoCall EXCEPT !.route = "list", !.token = "expired", !.query.limit = -2],
   [NoCall EXCEPT !.route = "forward", !.given = {"name", "key", "header"}]}

\* Validation for an issuer with public keys, and, under TRACE and without a
\* provider, for one with secret keys; no validation and no secrets.
MCSettings ==
  {<<TRUE, FALSE, TRUE, <<"RS", "EdDSA">>>>, <<TRUE, TRUE, FALSE, <<"HS", "HS">>>>,
   <<FALSE, FALSE, FALSE, <<"RS", "RS">>>>}

=============================================================================
