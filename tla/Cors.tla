-------------------------------- MODULE Cors --------------------------------
(***************************************************************************)
(* The headers of the Cors middleware (cors/).  A header is the set of its *)
(* values: {} when it is absent, {"*"} for the wildcard.  A layer L has    *)
(*   allow_origin           [kind, set]: Const, List or a predicate, which *)
(*                          is the set of the origins it accepts           *)
(*   allow_credentials, allow_private_network                              *)
(*                          [kind, set]: "No", "Yes" or a predicate        *)
(*   allow_methods, allow_headers                                          *)
(*                          [mirror, const]: MirrorRequest or Const        *)
(*   expose_headers         a header                                       *)
(*   vary, is_vary_custom   the explicit Vary, if there is one             *)
(* Max-Age is left out: nothing else depends on it.                        *)
(***************************************************************************)
Wildcard == {"*"}
NoOrigin == "no origin"   \* the request has no Origin header

Choices(origins) == [kind : {"No", "Yes", "Predicate"}, set : SUBSET origins]
Names == [mirror : BOOLEAN, const : SUBSET STRING]
(* One header value, or origins to compare with; list panics at a wildcard. *)
OriginType(origins) ==
  [kind : {"Const"}, set : {{o} : o \in origins \cup Wildcard}]
    \cup [kind : {"List", "Predicate", "AsyncPredicate"}, set : SUBSET origins]
LayerType(origins) ==
  [allow_origin : OriginType(origins),
   allow_credentials : Choices(origins), allow_private_network : Choices(origins),
   allow_methods : Names, allow_headers : Names,
   expose_headers : SUBSET STRING, vary : SUBSET STRING, is_vary_custom : BOOLEAN]

(* ensure_usable_cors_rules: layer and poll_ready panic otherwise.         *)
ensure_usable_cors_rules(L) ==
  L.allow_credentials.kind = "Yes" =>
    Wildcard \notin {L.allow_headers.const, L.allow_methods.const,
                     L.allow_origin.set, L.expose_headers}

\* Mutant: no allowed origin is thought to depend on the request.
varies_with_origin_Never(L) == FALSE
varies_with_origin(L) == L.allow_origin.kind # "Const"
varies_with_request_method(L)  == L.allow_methods.mirror
varies_with_request_headers(L) == L.allow_headers.mirror

(* update_vary_header                                                      *)
Vary(L) ==
  IF L.is_vary_custom THEN L.vary
  ELSE (IF varies_with_origin(L) THEN {"origin"} ELSE {})
         \cup (IF varies_with_request_method(L)
                 THEN {"access-control-request-method"} ELSE {})
         \cup (IF varies_with_request_headers(L)
                 THEN {"access-control-request-headers"} ELSE {})

(* AllowCredentials::to_header and AllowPrivateNetwork::to_header          *)
Allows(choice, origin) ==
  \/ choice.kind = "Yes"
  \/ choice.kind = "Predicate" /\ origin # NoOrigin /\ origin \in choice.set
PrivateNetwork(L, r) == r.private /\ Allows(L.allow_private_network, r.origin)

(* AllowMethods::to_header and AllowHeaders::to_header                     *)
MirrorOrConst(choice, requested) ==
  IF choice.mirror THEN requested ELSE choice.const

(* What the future of AllowOrigin::to_future resolves to.  Only            *)
(* AsyncPredicate, asked about an origin, may take its time.               *)
AllowOrigin(L, origin) ==
  IF L.allow_origin.kind = "Const" THEN L.allow_origin.set
  ELSE {origin} \cap L.allow_origin.set
TakesTime(L, origin) ==
  L.allow_origin.kind = "AsyncPredicate" /\ origin # NoOrigin

NoHeaders == [origin |-> {}, credentials |-> FALSE, private |-> FALSE, vary |-> {},
              methods |-> {}, headers |-> {}, expose |-> {}]

ExposeHeaders(L) == L.expose_headers

(* The headers Cors::call collects before the origin is known.             *)
CallHeaders(L, r) ==
  LET both == [NoHeaders EXCEPT
                 !.credentials = Allows(L.allow_credentials, r.origin),
                 !.private = PrivateNetwork(L, r), !.vary = Vary(L)]
  IN IF r.method = "OPTIONS"
       THEN [both EXCEPT
               !.methods = MirrorOrConst(L.allow_methods, r.request_method),
               !.headers = MirrorOrConst(L.allow_headers, r.request_headers)]
       ELSE [both EXCEPT !.expose = ExposeHeaders(L)]

(* ResponseFuture::poll: Vary is appended to that of the inner response,   *)
(* the other headers replace it, and what Cors does not set stays.         *)
Merge(response, h) ==
  LET Over(new, old) == IF new # {} THEN new ELSE old
  IN [origin |-> Over(h.origin, response.origin),
      credentials |-> h.credentials \/ response.credentials,
      private |-> h.private \/ response.private,
      vary |-> response.vary \cup h.vary,
      methods |-> response.methods, headers |-> response.headers,
      expose |-> Over(h.expose, response.expose)]
=============================================================================
