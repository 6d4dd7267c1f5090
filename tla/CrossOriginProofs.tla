-------------------------- MODULE CrossOriginProofs -------------------------
(***************************************************************************)
(* The safety properties of CrossOrigin for all settings, origins and      *)
(* fetches, and for any number of fetches after one another.               *)
(***************************************************************************)
EXTENDS CrossOrigin, TLAPS

Settings ==
  /\ layer \in Layers /\ protection \in Protections /\ handler \in Handlers
  /\ fetch \in Fetches

\* All headers that Cors has for request r.
FullHeaders(r) == [CallHeaders(layer, r) EXCEPT !.origin = AllowOrigin(layer, r.origin)]

\* A response that Cors makes of one of Csrf or of the handler.
Decorated(inner, r) == [inner EXCEPT !.headers = Merge(@, FullHeaders(r))]
AnswersFor(r) == {Decorated(Forbidden, r), Decorated(HandlerResponse(r), r)}
PreflightAnswer(r) == [status |-> 200, content |-> "", headers |-> FullHeaders(r)]

\* The future for request r, as far as it got.
Stage(r, allow, complete, inner) ==
  [kind |-> IF r.method = "OPTIONS" THEN "PreflightCall" ELSE "CorsCall",
   headers |-> IF allow = "taken" THEN FullHeaders(r) ELSE CallHeaders(layer, r),
   allow |-> allow, allow_origin_complete |-> complete, inner |-> inner]

(* The origin check is taken exactly when it is marked complete.           *)
Polling ==
  pc = "polling" =>
    /\ future = Stage(request, future.allow, future.allow_origin_complete, future.inner)
    /\ future.allow_origin_complete \in BOOLEAN
    /\ future.allow_origin_complete <=> future.allow = "taken"

(* The request on its way is the one of the current fetch.                 *)
Asked ==
  /\ pc = "preflight" => NeedsPreflight(fetch)
  /\ pc \in {"polling", "check"} =>
       IF request.method = "OPTIONS"
         THEN request = Preflight(fetch) /\ NeedsPreflight(fetch)
         ELSE request = Actual(fetch)

(* Past the preflight only with the grant of the settings.                 *)
Passed ==
  /\ NeedsPreflight(fetch)
  /\ pc = "actual" \/ (pc \in {"polling", "check"} /\ request.method # "OPTIONS")
  => PreflightGranted(fetch)

(* The handler was called if and only if Csrf let the actual request pass. *)
Reach ==
  /\ reached \in BOOLEAN
  /\ pc \in {"idle", "preflight", "actual"} => ~reached
  /\ pc \in {"polling", "check"} =>
       IF request.method = "OPTIONS" THEN ~reached
       ELSE fetch.method # "GET" =>
              (reached <=> verify(protection, Actual(fetch)) = "Ok")

(* Every stored response is one that Cors makes for the stored request.    *)
Cached == \A e \in cache : e.response \in AnswersFor(e.request)

(* The browser sees the answer to its own request, or to a request that    *)
(* the cache may take for it.                                              *)
Served ==
  pc = "check" =>
    IF request.method = "OPTIONS" THEN response = PreflightAnswer(request)
    ELSE \E q \in {request} \cup {e.request : e \in cache} :
           /\ response \in AnswersFor(q)
           /\ q = request \/ Fresh([request |-> q, response |-> response], request)

CrossOriginInv ==
  /\ Settings /\ Polling /\ Asked /\ Passed /\ Reach /\ Cached /\ Served
  /\ AccessIsExact /\ HandlerIsProtected /\ NeverRepolled

-----------------------------------------------------------------------------
(* What is in the requests of a fetch.                                     *)
LEMMA FetchParts ==
  ASSUME NEW f \in Fetches
  PROVE  /\ f.method \in {"GET", "POST", "PUT"} /\ f.origin \in DOMAIN Uri
         /\ f.origin \notin {NoOrigin, "", "*"}
         /\ f.client \in {"modern", "old", "user", "program", "blank"}
         /\ f.via \in {"direct", "absolute", "rewritten"}
         /\ f.credentials \in BOOLEAN /\ f.private \in BOOLEAN
         /\ IsCrossOrigin(f) => OriginHeader(f) = f.origin
  BY CrossOriginAssumption DEF Fetch, IsCrossOrigin, OriginHeader, Browser

LEMMA RequestParts ==
  ASSUME NEW f \in Fetches
  PROVE  /\ Actual(f).method = f.method /\ Actual(f).method # "OPTIONS"
         /\ Actual(f).origin = OriginHeader(f) /\ Actual(f).accept = f.accept
         /\ Preflight(f).method = "OPTIONS" /\ Preflight(f).origin = OriginHeader(f)
         /\ Preflight(f).private = f.private
         /\ Preflight(f).request_method = {f.method}
         /\ Preflight(f).request_headers = f.headers
  BY FetchParts DEF Actual, Preflight

(* add_trusted_origin keeps the well-formed http and https origins.        *)
LEMMA TrustedOriginsAreFine ==
  ASSUME NEW C \in Protections, NEW o \in DOMAIN Uri
  PROVE  o \in TrustedOrigins(C) <=>
           WebOrigin(o) /\ [origin |-> o, form |-> "fine"] \in C.candidates
<1>1. C.candidates \subseteq [origin : DOMAIN Uri,
                              form : {"fine", "path", "query", "fragment", "not ascii",
                                      "not a url"}]
  BY CrossOriginAssumption DEF Protection
<1>2. ASSUME NEW c \in C.candidates
      PROVE  parse_origin(c) = "Ok" <=> c.form = "fine" /\ WebOrigin(c.origin)
  <2>1. c.form \in {"fine", "path", "query", "fragment", "not ascii", "not a url"}
    BY <1>1
  <2> QED  BY <2>1 DEF parse_origin
<1>3. ASSUME NEW c \in C.candidates, c.form = "fine", c.origin = o
      PROVE  c = [origin |-> o, form |-> "fine"]
  BY <1>1, <1>3
<1>4. o \in TrustedOrigins(C) <=>
        \E c \in C.candidates : c.origin = o /\ parse_origin(c) = "Ok"
  BY DEF TrustedOrigins
<1>5. ASSUME o \in TrustedOrigins(C)
      PROVE  WebOrigin(o) /\ [origin |-> o, form |-> "fine"] \in C.candidates
  <2>1. PICK c \in C.candidates : c.origin = o /\ parse_origin(c) = "Ok"
    BY <1>4, <1>5
  <2> QED  BY <2>1, <1>2, <1>3
<1>6. ASSUME WebOrigin(o), [origin |-> o, form |-> "fine"] \in C.candidates
      PROVE  o \in TrustedOrigins(C)
  BY <1>2, <1>4, <1>6
<1> QED  BY <1>5, <1>6

(* What Csrf::verify decides, in terms of who sends the request.           *)
LEMMA VerifyDecides ==
  ASSUME Settings, fetch.method # "GET"
  PROVE  verify(protection, Actual(fetch)) = "Ok" <=>
           IF fetch.client = "old"
             THEN \/ /\ WebOrigin(fetch.origin)
                     /\ Uri[fetch.origin].host = Uri[Self].host
                     /\ fetch.via # "rewritten"
                  \/ fetch.path \in protection.bypass
                  \/ Trusted(fetch.origin)
             ELSE Legitimate(fetch)
<1> DEFINE r == Actual(fetch)
<1>1. /\ fetch \in Fetches /\ protection \in Protections
      /\ fetch.method \in {"POST", "PUT"}
      /\ fetch.client \in {"modern", "old", "user", "program", "blank"}
      /\ fetch.via \in {"direct", "absolute", "rewritten"}
      /\ fetch.origin \in DOMAIN Uri /\ fetch.origin \notin {NoOrigin, ""}
  BY FetchParts DEF Settings
<1>2. /\ r.method = fetch.method /\ r.origin = OriginHeader(fetch)
      /\ r.has_origin = (OriginHeader(fetch) \notin {NoOrigin, ""})
      /\ r.sec_fetch_site = SecFetchSite(fetch) /\ r.path = fetch.path
      /\ r.authority = (IF fetch.via = "absolute" THEN Uri[Self].host ELSE Absent)
      /\ r.host = (IF fetch.via = "direct" THEN Uri[Self].host ELSE Rewritten)
  BY DEF Actual
<1>3. fetch.client \in {"modern", "old", "user"} => OriginHeader(fetch) = fetch.origin
  BY <1>1 DEF OriginHeader, IsCrossOrigin, Browser
<1>4. Trusted(fetch.origin) <=> fetch.origin \in TrustedOrigins(protection)
  BY <1>1, TrustedOriginsAreFine DEF Trusted
<1>5. fetch.client \in {"modern", "old"} =>
        (is_exempt(protection, r) <=>
           fetch.path \in protection.bypass \/ Trusted(fetch.origin))
  BY <1>2, <1>3, <1>4 DEF is_exempt
<1>6. r.method \notin SafeMethods
  BY <1>1, <1>2 DEF SafeMethods
<1> HIDE DEF r
<1>7. CASE fetch.client = "modern"
  <2>1. CASE fetch.origin = Self
    <3>1. r.sec_fetch_site = "same-origin"
      BY <1>2, <1>7, <2>1 DEF SecFetchSite
    <3>2. Legitimate(fetch)
      BY <2>1 DEF Legitimate, IsCrossOrigin
    <3> QED  BY <1>7, <3>1, <3>2 DEF verify, r
  <2>2. CASE fetch.origin # Self
    <3>1. r.sec_fetch_site \in {"same-site", "cross-site"}
      BY <1>2, <1>7, <2>2 DEF SecFetchSite
    <3>2. verify(protection, r) = "Ok" <=> is_exempt(protection, r)
      BY <1>6, <3>1 DEF verify, Absent
    <3>3. Legitimate(fetch) <=> fetch.path \in protection.bypass \/ Trusted(fetch.origin)
      BY <1>7, <2>2 DEF Legitimate, IsCrossOrigin
    <3> QED  BY <1>5, <1>7, <3>2, <3>3 DEF r
  <2> QED  BY <2>1, <2>2
<1>8. CASE fetch.client = "old"
  <2>1. r.sec_fetch_site = Absent /\ r.origin = fetch.origin
    BY <1>2, <1>3, <1>8 DEF SecFetchSite
  <2>2. r.has_origin
    BY <1>1, <1>2, <1>3, <1>8
  <2>3. verify(protection, r) = "Ok" <=> SameHost(r) \/ is_exempt(protection, r)
    BY <1>6, <2>1, <2>2 DEF verify, Absent
  <2>4. Self \in DOMAIN Uri
    BY CrossOriginAssumption
  <2>5. Uri[Self].host \notin {Absent, Rewritten}
        /\ Uri[fetch.origin].host \notin {Absent, Rewritten}
    BY <1>1, <2>4, CrossOriginAssumption
  <2>6. Rewritten # Absent
    BY DEF Rewritten, Absent
  <2>7. effective_host(r) =
          IF fetch.via = "rewritten" THEN Rewritten ELSE Uri[Self].host
    BY <1>1, <1>2, <2>5 DEF effective_host
  <2>8. SameHost(r) <=>
          /\ WebOrigin(fetch.origin) /\ Uri[fetch.origin].host = Uri[Self].host
          /\ fetch.via # "rewritten"
    BY <2>1, <2>5, <2>6, <2>7 DEF SameHost
  <2> QED  BY <1>5, <1>8, <2>3, <2>8 DEF r
<1>9. CASE fetch.client \in {"user", "program", "blank"}
  <2>1. Legitimate(fetch)
    BY <1>9 DEF Legitimate, IsCrossOrigin
  <2>2. \/ r.sec_fetch_site = "none"
        \/ r.sec_fetch_site \in {Absent, ""} /\ ~r.has_origin
    BY <1>1, <1>2, <1>9 DEF SecFetchSite, OriginHeader, IsCrossOrigin, Browser
  <2>3. verify(protection, r) = "Ok"
    BY <1>6, <2>2 DEF verify, Absent
  <2> QED  BY <1>9, <2>1, <2>3 DEF r
<1> QED  BY <1>1, <1>7, <1>8, <1>9

-----------------------------------------------------------------------------
(* What Cors collects for a request.                                       *)
LEMMA HeaderParts ==
  ASSUME NEW r
  PROVE  /\ FullHeaders(r).origin = AllowOrigin(layer, r.origin)
         /\ FullHeaders(r).credentials = Allows(layer.allow_credentials, r.origin)
         /\ FullHeaders(r).private = PrivateNetwork(layer, r)
         /\ FullHeaders(r).vary = Vary(layer)
         /\ r.method = "OPTIONS" =>
              /\ FullHeaders(r).methods =
                   MirrorOrConst(layer.allow_methods, r.request_method)
              /\ FullHeaders(r).headers =
                   MirrorOrConst(layer.allow_headers, r.request_headers)
         /\ [CallHeaders(layer, r) EXCEPT !.origin = @] = CallHeaders(layer, r)
         /\ [FullHeaders(r) EXCEPT !.origin = @] = FullHeaders(r)
  BY DEF FullHeaders, CallHeaders, NoHeaders

(* ... and what it makes of the inner response.                            *)
LEMMA AnswerParts ==
  ASSUME NEW r, NEW a \in AnswersFor(r), handler \in Handlers
  PROVE  LET own == IF a.status = 200 THEN handler.origin ELSE {}
         IN /\ a.headers.origin = IF AllowOrigin(layer, r.origin) # {}
                                    THEN AllowOrigin(layer, r.origin) ELSE own
            /\ a.headers.credentials <=> Allows(layer.allow_credentials, r.origin)
            /\ Vary(layer) \subseteq a.headers.vary
            /\ a.status = 200 /\ handler.negotiates =>
                 a.content = r.accept /\ "accept" \in a.headers.vary
<1> DEFINE h == FullHeaders(r)
<1>1. /\ h.origin = AllowOrigin(layer, r.origin)
      /\ h.credentials = Allows(layer.allow_credentials, r.origin)
      /\ h.vary = Vary(layer)
  BY HeaderParts
<1> HIDE DEF h
<1>2. CASE a = Decorated(Forbidden, r)
  <2>1. /\ a.status = 403
        /\ a.headers.origin = (IF h.origin # {} THEN h.origin ELSE {})
        /\ a.headers.credentials = (h.credentials \/ FALSE)
        /\ a.headers.vary = {} \cup h.vary
    BY <1>2 DEF Decorated, Forbidden, NoResponse, NoHeaders, Merge, h
  <2>2. a.headers.credentials <=> Allows(layer.allow_credentials, r.origin)
    BY <1>1, <2>1 DEF Allows
  <2> QED  BY <1>1, <2>1, <2>2
<1>3. CASE a = Decorated(HandlerResponse(r), r)
  <2> DEFINE own == IF handler.negotiates THEN {"accept"} ELSE {}
             inner == HandlerResponse(r)
  <2>1. /\ inner = [status |-> inner.status, content |-> inner.content,
                    headers |-> inner.headers]
        /\ inner.status = 200
        /\ inner.content = (IF handler.negotiates THEN r.accept ELSE "")
        /\ inner.headers.origin = handler.origin
        /\ inner.headers.credentials = FALSE
        /\ inner.headers.vary = own
    BY DEF HandlerResponse, NoHeaders
  <2> HIDE DEF inner
  <2>2. /\ a.status = inner.status /\ a.content = inner.content
        /\ a.headers = Merge(inner.headers, h)
    BY <1>3, <2>1 DEF Decorated, h, inner
  <2>3. /\ a.status = 200
        /\ a.content = (IF handler.negotiates THEN r.accept ELSE "")
        /\ a.headers.origin = (IF h.origin # {} THEN h.origin ELSE handler.origin)
        /\ a.headers.vary = own \cup h.vary
    <3> HIDE DEF own
    <3>1. a.status = 200 /\ a.content = (IF handler.negotiates THEN r.accept ELSE "")
      BY <2>1, <2>2
    <3>2. /\ a.headers.origin = (IF h.origin # {} THEN h.origin ELSE inner.headers.origin)
          /\ a.headers.vary = inner.headers.vary \cup h.vary
      BY <2>2 DEF Merge
    <3>3. a.headers.origin = (IF h.origin # {} THEN h.origin ELSE handler.origin)
      BY <2>1, <3>2
    <3>4. a.headers.vary = own \cup h.vary
      BY <2>1, <3>2
    <3> QED  BY <3>1, <3>3, <3>4
  <2>4. a.headers.credentials = (h.credentials \/ inner.headers.credentials)
    BY <2>2 DEF Merge
  <2>5. a.headers.credentials <=> Allows(layer.allow_credentials, r.origin)
    BY <1>1, <2>1, <2>4 DEF Allows
  <2> QED  BY <1>1, <2>3, <2>5
<1> QED  BY <1>2, <1>3 DEF AnswersFor

(* The layers and what they allow.                                         *)
LEMMA LayerParts ==
  ASSUME Settings
  PROVE  /\ layer.allow_origin.kind = "Const" =>
              \E o \in DOMAIN Uri \cup Wildcard : layer.allow_origin.set = {o}
         /\ layer.allow_origin.kind # "Const" => layer.allow_origin.set \subseteq DOMAIN Uri
         /\ layer.allow_credentials.kind \in {"No", "Yes", "Predicate"}
         /\ handler.origin \in {{}, Wildcard}
         /\ layer.is_vary_custom \in BOOLEAN
  BY CrossOriginAssumption DEF Settings, LayerType, OriginType, Choices

(* The CORS check accepts the answer to request q for the page of fetch f  *)
(* exactly if the settings grant it, when q is as good as the page's own   *)
(* request: the origin is the same, or Vary does not name it.              *)
LEMMA SharedIsGranted ==
  ASSUME Settings, NEW f \in Fetches, IsCrossOrigin(f),
         NEW q, NEW a, a \in AnswersFor(q), response = a,
         \/ q.origin = f.origin
         \/ Announced /\ ("origin" \in a.headers.vary => q.origin = f.origin)
  PROVE  Shared(f, a) <=> Granted(f) \/ HandlerGrants(f)
<1>1. /\ f.origin \in DOMAIN Uri /\ f.origin \notin {NoOrigin, "", "*"}
      /\ f.credentials \in BOOLEAN
  BY FetchParts
<1>2. /\ a.headers.origin = IF AllowOrigin(layer, q.origin) # {}
                              THEN AllowOrigin(layer, q.origin)
                              ELSE IF a.status = 200 THEN handler.origin ELSE {}
      /\ a.headers.credentials <=> Allows(layer.allow_credentials, q.origin)
      /\ Vary(layer) \subseteq a.headers.vary
  BY AnswerParts DEF Settings
<1>3. CASE layer.allow_origin.kind = "Const"
  <2>1. PICK o \in DOMAIN Uri \cup Wildcard : layer.allow_origin.set = {o}
    BY <1>3, LayerParts
  <2>2. a.headers.origin = {o}
    BY <1>2, <1>3, <2>1 DEF AllowOrigin
  <2>3. ~HandlerGrants(f)
    BY <1>3 DEF HandlerGrants
  <2>4. CASE o = "*"
    <3>1. Shared(f, a) <=> ~f.credentials
      BY <1>1, <2>2, <2>4 DEF Shared, Wildcard
    <3>2. Granted(f) <=> ~f.credentials
      BY <1>1, <2>1, <2>4 DEF Granted, OriginAllowed, CredentialsAllowed, Wildcard
    <3> QED  BY <2>3, <3>1, <3>2
  <2>5. CASE o # "*"
    <3>1. Shared(f, a) <=> o = f.origin /\ (f.credentials => a.headers.credentials)
      BY <2>2, <2>5 DEF Shared, Wildcard
    <3>2. OriginAllowed(f) <=> o = f.origin
      BY <2>1, <2>5 DEF OriginAllowed, Wildcard
    <3>3. Allows(layer.allow_credentials, q.origin) <=>
            Allows(layer.allow_credentials, f.origin)
      <4>1. CASE q.origin = f.origin
        BY <4>1
      <4>2. CASE q.origin # f.origin
        <5>1. layer.allow_credentials.kind # "Predicate"
          BY <1>2, <1>3, <4>2 DEF Announced, Vary
        <5> QED  BY <5>1 DEF Allows
      <4> QED  BY <4>1, <4>2
    <3>4. CredentialsAllowed(f) <=> Allows(layer.allow_credentials, f.origin)
      BY <1>1, <2>1, <2>5 DEF CredentialsAllowed, Allows, Wildcard
    <3> QED  BY <1>2, <2>3, <3>1, <3>2, <3>3, <3>4 DEF Granted
  <2> QED  BY <2>4, <2>5
<1>4. CASE layer.allow_origin.kind # "Const"
  <2>1. q.origin = f.origin
    BY <1>2, <1>4 DEF Announced, Vary, varies_with_origin
  <2>2. layer.allow_origin.set \subseteq DOMAIN Uri /\ "*" \notin DOMAIN Uri
    BY <1>4, LayerParts, CrossOriginAssumption
  <2>3. OriginAllowed(f) <=> f.origin \in layer.allow_origin.set
    BY <2>2 DEF OriginAllowed, Wildcard
  <2>4. CredentialsAllowed(f) <=> Allows(layer.allow_credentials, f.origin)
    BY <1>1, <2>2 DEF CredentialsAllowed, Allows, Wildcard
  <2>5. CASE f.origin \in layer.allow_origin.set
    <3>1. a.headers.origin = {f.origin}
      BY <1>2, <1>4, <2>1, <2>5 DEF AllowOrigin
    <3>2. Shared(f, a) <=> (f.credentials => a.headers.credentials)
      BY <1>1, <3>1 DEF Shared, Wildcard
    <3>3. ~HandlerGrants(f)
      BY <2>3, <2>5 DEF HandlerGrants
    <3> QED  BY <1>2, <2>1, <2>3, <2>4, <2>5, <3>2, <3>3 DEF Granted
  <2>6. CASE f.origin \notin layer.allow_origin.set
    <3>1. a.headers.origin = IF a.status = 200 THEN handler.origin ELSE {}
      BY <1>2, <1>4, <2>1, <2>6 DEF AllowOrigin
    <3>2. handler.origin \in {{}, Wildcard}
      BY LayerParts
    <3>3. Shared(f, a) <=> a.status = 200 /\ handler.origin = Wildcard /\ ~f.credentials
      BY <1>1, <3>1, <3>2 DEF Shared, Wildcard
    <3> QED  BY <1>4, <2>3, <2>6, <3>3 DEF Granted, HandlerGrants
  <2> QED  BY <2>5, <2>6
<1> QED  BY <1>3, <1>4

(* A preflight passes exactly if the settings grant what it asks for.      *)
LEMMA PreflightIsGranted ==
  ASSUME Settings, NeedsPreflight(fetch)
  PROVE  PreflightPasses(fetch, PreflightAnswer(Preflight(fetch))) <=>
           PreflightGranted(fetch)
<1> DEFINE r == Preflight(fetch)
           h == FullHeaders(r)
           a == PreflightAnswer(r)
<1>1. /\ fetch \in Fetches
      /\ fetch.origin \in DOMAIN Uri /\ fetch.origin \notin {NoOrigin, "", "*"}
      /\ fetch.credentials \in BOOLEAN /\ fetch.private \in BOOLEAN
  BY FetchParts DEF Settings
<1>2. /\ r.method = "OPTIONS" /\ r.origin = fetch.origin /\ r.private = fetch.private
      /\ r.request_method = {fetch.method} /\ r.request_headers = fetch.headers
  <2>1. IsCrossOrigin(fetch)
    BY DEF NeedsPreflight
  <2>2. OriginHeader(fetch) = fetch.origin
    BY <1>1, <2>1, FetchParts
  <2> QED  BY <1>1, <2>2, RequestParts
<1>3. /\ h.origin = AllowOrigin(layer, fetch.origin)
      /\ h.credentials = Allows(layer.allow_credentials, fetch.origin)
      /\ h.private = PrivateNetwork(layer, r)
      /\ h.methods = MirrorOrConst(layer.allow_methods, {fetch.method})
      /\ h.headers = MirrorOrConst(layer.allow_headers, fetch.headers)
  BY <1>2, HeaderParts
<1>4. a.headers = h
  BY DEF PreflightAnswer
<1> HIDE DEF r, h, a
<1>5. Shared(fetch, a) <=> Granted(fetch)
  <2>1. CredentialsAllowed(fetch) <=>
          layer.allow_origin.set # Wildcard /\ Allows(layer.allow_credentials, fetch.origin)
    BY <1>1 DEF CredentialsAllowed, Allows
  <2>2. CASE layer.allow_origin.kind = "Const"
    <3>1. PICK o \in DOMAIN Uri \cup Wildcard : layer.allow_origin.set = {o}
      BY <2>2, LayerParts
    <3>2. h.origin = {o}
      BY <1>3, <2>2, <3>1 DEF AllowOrigin
    <3>3. CASE o = "*"
      BY <1>1, <1>4, <2>1, <3>1, <3>2, <3>3 DEF Shared, Granted, OriginAllowed, Wildcard
    <3>4. CASE o # "*"
      BY <1>1, <1>3, <1>4, <2>1, <3>1, <3>2, <3>4
         DEF Shared, Granted, OriginAllowed, Wildcard
    <3> QED  BY <3>3, <3>4
  <2>3. CASE layer.allow_origin.kind # "Const"
    <3>1. layer.allow_origin.set \subseteq DOMAIN Uri /\ "*" \notin DOMAIN Uri
      BY <2>3, LayerParts, CrossOriginAssumption
    <3>2. h.origin = {fetch.origin} \cap layer.allow_origin.set
      BY <1>3, <2>3 DEF AllowOrigin
    <3> QED  BY <1>1, <1>3, <1>4, <2>1, <3>1, <3>2
             DEF Shared, Granted, OriginAllowed, Wildcard
  <2> QED  BY <2>2, <2>3
<1>6. Lists(h.methods, {fetch.method}, fetch) <=>
        Named(layer.allow_methods, {fetch.method}, fetch)
  BY <1>3 DEF Lists, Named, MirrorOrConst
<1>7. Lists(h.headers, fetch.headers, fetch) <=>
        Named(layer.allow_headers, fetch.headers, fetch)
  BY <1>3 DEF Lists, Named, MirrorOrConst
<1>8. (fetch.private => h.private) <=>
        (fetch.private => \/ layer.allow_private_network.kind = "Yes"
                          \/ /\ layer.allow_private_network.kind = "Predicate"
                             /\ fetch.origin \in layer.allow_private_network.set)
  BY <1>1, <1>2, <1>3 DEF PrivateNetwork, Allows
<1> QED  BY <1>4, <1>5, <1>6, <1>7, <1>8 DEF PreflightPasses, PreflightGranted, a, r

-----------------------------------------------------------------------------
(* The settings do not change, nor does what follows from them.            *)
LEMMA Kept ==
  ASSUME UNCHANGED settings
  PROVE  /\ \A r : /\ FullHeaders(r)' = FullHeaders(r)
                   /\ AnswersFor(r)' = AnswersFor(r)
                   /\ PreflightAnswer(r)' = PreflightAnswer(r)
         /\ \A r, a, c, i : Stage(r, a, c, i)' = Stage(r, a, c, i)
         /\ \A f : PreflightGranted(f)' <=> PreflightGranted(f)
<1>1. layer' = layer /\ handler' = handler /\ protection' = protection
  BY DEF settings
<1>2. ASSUME NEW r
      PROVE  FullHeaders(r)' = FullHeaders(r)
  BY <1>1 DEF FullHeaders
<1>3. ASSUME NEW r
      PROVE  AnswersFor(r)' = AnswersFor(r) /\ PreflightAnswer(r)' = PreflightAnswer(r)
  <2>1. HandlerResponse(r)' = HandlerResponse(r)
    BY <1>1 DEF HandlerResponse
  <2> QED  BY <1>2, <2>1 DEF AnswersFor, PreflightAnswer, Decorated
<1>4. ASSUME NEW r, NEW a, NEW c, NEW i
      PROVE  Stage(r, a, c, i)' = Stage(r, a, c, i)
  BY <1>1, <1>2 DEF Stage
<1>5. ASSUME NEW f
      PROVE  PreflightGranted(f)' <=> PreflightGranted(f)
  BY <1>1 DEF PreflightGranted, Granted, OriginAllowed, CredentialsAllowed
<1> QED  BY <1>2, <1>3, <1>4, <1>5

(* No verdict is due in a step that does not end the fetch with one.       *)
LEMMA NoVerdict ==
  ASSUME pc' # "done" \/ outcome' \in {"dropped"}
  PROVE  AccessIsExact' /\ HandlerIsProtected'
  BY DEF AccessIsExact, HandlerIsProtected, Done

(* The future once its first part is done.                                 *)
LEMMA OriginIsSet ==
  ASSUME Polling, AllowKnown
  PROVE  /\ WithOrigin = Stage(request, "taken", request.method # "OPTIONS", future.inner)
         /\ WithOrigin.headers = FullHeaders(request)
         /\ future.kind = "CorsCall" <=> request.method # "OPTIONS"
         /\ future.kind = "PreflightCall" <=> request.method = "OPTIONS"
<1>1. /\ pc = "polling"
      /\ future.allow_origin_complete \/ future.allow \in {"ready", "taken"}
  BY DEF AllowKnown
<1> DEFINE F == Stage(request, future.allow, future.allow_origin_complete, future.inner)
           h == FullHeaders(request)
           k == CallHeaders(layer, request)
<1>2. /\ future = F /\ future.allow_origin_complete \in BOOLEAN
      /\ future.allow_origin_complete <=> future.allow = "taken"
  BY <1>1 DEF Polling
<1>3. /\ future = [kind |-> future.kind, headers |-> future.headers,
                   allow |-> future.allow,
                   allow_origin_complete |-> future.allow_origin_complete,
                   inner |-> future.inner]
      /\ future.kind = IF request.method = "OPTIONS" THEN "PreflightCall" ELSE "CorsCall"
      /\ future.headers = IF future.allow = "taken" THEN h ELSE k
  <2> HIDE DEF h, k
  <2>1. F.kind = IF request.method = "OPTIONS" THEN "PreflightCall" ELSE "CorsCall"
    BY DEF Stage
  <2>2. F.headers = IF future.allow = "taken" THEN h ELSE k
    BY DEF Stage, h, k
  <2>3. F = [kind |-> F.kind, headers |-> F.headers, allow |-> F.allow,
             allow_origin_complete |-> F.allow_origin_complete, inner |-> F.inner]
    BY DEF Stage
  <2> HIDE DEF F
  <2> QED  BY <1>2, <2>1, <2>2, <2>3
<1>4. /\ [h EXCEPT !.origin = @] = h
      /\ [k EXCEPT !.origin = AllowOrigin(layer, request.origin)] = h
  BY HeaderParts DEF FullHeaders
<1> DEFINE c == future.kind = "CorsCall"
           g == [future.headers EXCEPT
                   !.origin = IF future.allow_origin_complete \/ future.allow = "taken"
                                THEN @ ELSE AllowOrigin(layer, request.origin)]
<1> HIDE DEF F, h, k
<1>5. g = h
  BY <1>2, <1>3, <1>4
<1>6. WithOrigin = [kind |-> future.kind, headers |-> g, allow |-> "taken",
                    allow_origin_complete |-> c, inner |-> future.inner]
  <2>1. WithOrigin = [future EXCEPT !.allow = "taken", !.headers = g,
                                    !.allow_origin_complete = c]
    BY DEF WithOrigin
  <2> HIDE DEF g, c
  <2> QED  BY <1>3, <2>1
<1>7. c = (request.method # "OPTIONS")
  BY <1>3
<1>8. Stage(request, "taken", request.method # "OPTIONS", future.inner) =
        [kind |-> IF request.method = "OPTIONS" THEN "PreflightCall" ELSE "CorsCall",
         headers |-> h, allow |-> "taken",
         allow_origin_complete |-> request.method # "OPTIONS", inner |-> future.inner]
  BY DEF Stage, h
<1> HIDE DEF g, c
<1>9. WithOrigin = Stage(request, "taken", request.method # "OPTIONS", future.inner)
  BY <1>3, <1>5, <1>6, <1>7, <1>8
<1>10. WithOrigin.headers = h
  BY <1>5, <1>6
<1> QED  BY <1>3, <1>9, <1>10 DEF h

(* ResponseFuture::poll does not ask a completed origin check again.       *)
LEMMA NoRepoll ==
  ASSUME Polling, NeverRepolled, pc = "polling", Repolls
  PROVE  NeverRepolled'
  BY DEF Polling, NeverRepolled, Repolls

(* While the future is polled only the future changes.                     *)
LEMMA StillPolling ==
  ASSUME CrossOriginInv, pc = "polling", NEW a, NEW c \in BOOLEAN, NEW i,
         c <=> a = "taken",
         future' = Stage(request, a, c, i), NeverRepolled',
         UNCHANGED <<settings, fetch, pc, request, response, cache, outcome, reached, count>>
  PROVE  CrossOriginInv'
<1>1. UNCHANGED settings /\ UNCHANGED <<layer, protection, handler>>
  BY DEF settings
<1>2. Settings'
  BY <1>1 DEF CrossOriginInv, Settings
<1>3. Polling'
  <2>1. future'.allow = a /\ future'.allow_origin_complete = c /\ future'.inner = i
    BY DEF Stage
  <2>2. Stage(request, future.allow, future.allow_origin_complete, future.inner)' =
          Stage(request, a, c, i)
    BY <1>1, <2>1, Kept
  <2> QED  BY <2>1, <2>2 DEF Polling
<1>4. Asked'
  BY DEF CrossOriginInv, Asked
<1>5. Passed'
  BY <1>1, Kept DEF CrossOriginInv, Passed
<1>6. Reach'
  BY <1>1 DEF CrossOriginInv, Reach
<1>7. Cached'
  BY <1>1, Kept DEF CrossOriginInv, Cached
<1>8. Served' /\ AccessIsExact' /\ HandlerIsProtected'
  BY NoVerdict DEF Served
<1> QED  BY <1>2, <1>3, <1>4, <1>5, <1>6, <1>7, <1>8 DEF CrossOriginInv

(* The response of Cors goes through the cache to the browser.             *)
LEMMA Responding ==
  ASSUME CrossOriginInv, pc = "polling", NEW res, Ready(res),
         IF request.method = "OPTIONS" THEN res = PreflightAnswer(request)
         ELSE res \in AnswersFor(request)
  PROVE  CrossOriginInv'
<1>1. /\ UNCHANGED settings /\ UNCHANGED <<layer, protection, handler>>
      /\ UNCHANGED <<fetch, request, outcome, reached>>
      /\ pc' = "check" /\ response' = res /\ Repolls
  BY DEF Ready, settings
<1>2. Settings'
  BY <1>1 DEF CrossOriginInv, Settings
<1>3. Polling'
  BY <1>1 DEF Polling
<1>4. Asked'
  BY <1>1 DEF CrossOriginInv, Asked
<1>5. Passed'
  BY <1>1, Kept DEF CrossOriginInv, Passed
<1>6. Reach'
  BY <1>1 DEF CrossOriginInv, Reach
<1>7. Cached'
  <2>1. CASE cache' = cache
    BY <1>1, <2>1, Kept DEF CrossOriginInv, Cached
  <2>2. CASE request.method = "GET" /\ cache' = {[request |-> request, response |-> res]}
    BY <1>1, <2>2, Kept DEF Cached
  <2> QED  BY <2>1, <2>2 DEF Ready
<1>8. Served'
  BY <1>1, Kept DEF Served
<1>9. AccessIsExact' /\ HandlerIsProtected'
  BY <1>1, NoVerdict
<1>10. NeverRepolled'
  BY <1>1, NoRepoll DEF CrossOriginInv
<1> QED  BY <1>2, <1>3, <1>4, <1>5, <1>6, <1>7, <1>8, <1>9, <1>10 DEF CrossOriginInv

-----------------------------------------------------------------------------
LEMMA BeginStep ==
  ASSUME CrossOriginInv, Begin
  PROVE  CrossOriginInv'
<1>1. /\ UNCHANGED settings /\ UNCHANGED <<layer, protection, handler>>
      /\ UNCHANGED <<fetch, cache, reached, repolled>>
      /\ pc = "idle" /\ pc' = IF NeedsPreflight(fetch) THEN "preflight" ELSE "actual"
  BY DEF Begin, settings
<1>2. Settings' /\ Polling' /\ Reach' /\ Served' /\ NeverRepolled'
  BY <1>1 DEF CrossOriginInv, Settings, Polling, Reach, Served, NeverRepolled
<1>3. Asked' /\ Passed'
  BY <1>1 DEF Asked, Passed
<1>4. Cached'
  BY <1>1, Kept DEF CrossOriginInv, Cached
<1>5. AccessIsExact' /\ HandlerIsProtected'
  BY <1>1, NoVerdict
<1> QED  BY <1>2, <1>3, <1>4, <1>5 DEF CrossOriginInv

LEMMA CallStep ==
  ASSUME CrossOriginInv, Call
  PROVE  CrossOriginInv'
<1> DEFINE r == IF pc = "preflight" THEN Preflight(fetch) ELSE Actual(fetch)
           passed == r.method # "OPTIONS" /\ verify(protection, r) = "Ok"
           allow == IF TakesTime(layer, r.origin) THEN "unpolled" ELSE "ready"
           inner == IF r.method = "OPTIONS" THEN "none"
                    ELSE IF passed THEN "unpolled" ELSE "rejected"
<1>1. /\ UNCHANGED settings /\ UNCHANGED <<layer, protection, handler>>
      /\ UNCHANGED <<fetch, response, cache, outcome, repolled>>
      /\ pc \in {"preflight", "actual"} /\ pc' = "polling" /\ request' = r
      /\ reached' = (reached \/ passed)
      /\ future' =
           [kind |-> IF r.method = "OPTIONS" THEN "PreflightCall" ELSE "CorsCall",
            headers |-> CallHeaders(layer, r), allow |-> allow,
            allow_origin_complete |-> FALSE, inner |-> inner]
  BY DEF Call, settings
<1>2. fetch \in Fetches
  BY DEF CrossOriginInv, Settings
<1>3. r.method = "OPTIONS" <=> pc = "preflight"
  BY <1>1, <1>2, RequestParts
<1>4. Settings' /\ Served' /\ NeverRepolled'
  BY <1>1 DEF CrossOriginInv, Settings, Served, NeverRepolled
<1>5. Polling'
  <2>1. allow # "taken"
    OBVIOUS
  <2>2. future' = Stage(r, allow, FALSE, inner)
    <3> HIDE DEF r, allow, inner
    <3> QED  BY <1>1, <2>1 DEF Stage
  <2> HIDE DEF r, allow, inner
  <2>3. /\ future'.allow = allow /\ future'.allow_origin_complete = FALSE
        /\ future'.inner = inner
    BY <1>1
  <2>4. Stage(request, future.allow, future.allow_origin_complete, future.inner)' =
          Stage(r, allow, FALSE, inner)
    BY <1>1, <2>3, Kept
  <2> QED  BY <2>1, <2>2, <2>3, <2>4 DEF Polling
<1>6. Asked'
  BY <1>1, <1>3 DEF CrossOriginInv, Asked
<1>7. Passed'
  BY <1>1, <1>3, Kept DEF CrossOriginInv, Passed
<1>8. Reach'
  <2>1. ~reached
    BY <1>1 DEF CrossOriginInv, Reach
  <2>2. reached' \in BOOLEAN /\ (reached' <=> passed)
    BY <1>1, <2>1
  <2>3. CASE pc = "preflight"
    BY <1>1, <1>3, <2>2, <2>3 DEF Reach
  <2>4. CASE pc = "actual"
    BY <1>1, <1>3, <2>2, <2>4 DEF Reach
  <2> QED  BY <1>1, <2>3, <2>4
<1>9. Cached'
  BY <1>1, Kept DEF CrossOriginInv, Cached
<1>10. AccessIsExact' /\ HandlerIsProtected'
  BY <1>1, NoVerdict
<1> QED  BY <1>4, <1>5, <1>6, <1>7, <1>8, <1>9, <1>10 DEF CrossOriginInv

LEMMA ReplayStep ==
  ASSUME CrossOriginInv, Replay
  PROVE  CrossOriginInv'
<1>1. /\ UNCHANGED settings /\ UNCHANGED <<layer, protection, handler>>
      /\ UNCHANGED <<fetch, cache, outcome, reached, repolled>>
      /\ pc = "actual" /\ pc' = "check" /\ request' = Actual(fetch)
  BY DEF Replay, settings
<1>2. PICK entry \in cache : Fresh(entry, Actual(fetch)) /\ response' = entry.response
  BY DEF Replay
<1>3. fetch \in Fetches /\ Actual(fetch).method # "OPTIONS"
  BY RequestParts DEF CrossOriginInv, Settings
<1>4. fetch.method = "GET"
  BY <1>2, <1>3, RequestParts DEF Fresh
<1>5. Settings' /\ Polling' /\ Asked' /\ NeverRepolled'
  BY <1>1, <1>3 DEF CrossOriginInv, Settings, Polling, Asked, NeverRepolled
<1>6. Passed'
  BY <1>1, <1>3, Kept DEF CrossOriginInv, Passed
<1>7. Reach'
  BY <1>1, <1>3, <1>4 DEF CrossOriginInv, Reach
<1>8. Cached'
  BY <1>1, Kept DEF CrossOriginInv, Cached
<1>9. Served'
  <2>1. response' \in AnswersFor(entry.request)'
    BY <1>1, <1>2, Kept DEF CrossOriginInv, Cached
  <2>2. Fresh([request |-> entry.request, response |-> response'], request')
    BY <1>1, <1>2 DEF Fresh
  <2>3. entry.request \in {request'} \cup {e.request : e \in cache'}
    BY <1>1
  <2> QED  BY <1>1, <1>3, <2>1, <2>2, <2>3 DEF Served
<1>10. AccessIsExact' /\ HandlerIsProtected'
  BY <1>1, NoVerdict
<1> QED  BY <1>5, <1>6, <1>7, <1>8, <1>9, <1>10 DEF CrossOriginInv

LEMMA FutureStep ==
  ASSUME CrossOriginInv, AllowCompletes \/ InnerCompletes \/ AllowPending \/ InnerPending
  PROVE  CrossOriginInv'
<1> DEFINE a == future.allow
           c == future.allow_origin_complete
           i == future.inner
<1>1. pc = "polling"
  BY DEF AllowCompletes, InnerCompletes, AllowPending, InnerPending, AllowKnown
<1>2. Polling /\ NeverRepolled
  BY DEF CrossOriginInv
<1>3. future = Stage(request, a, c, i) /\ c \in BOOLEAN /\ (c <=> a = "taken")
  BY <1>1, <1>2 DEF Polling
<1>4. UNCHANGED <<settings, fetch, pc, request, response, cache, outcome, reached, count>>
  BY DEF AllowCompletes, InnerCompletes, AllowPending, InnerPending
<1>5. ASSUME NEW x, x # "taken", a # "taken"
      PROVE  [Stage(request, a, c, i) EXCEPT !.allow = x] = Stage(request, x, c, i)
  BY <1>5 DEF Stage
<1>6. ASSUME NEW b, NEW d, NEW x, NEW y
      PROVE  [Stage(request, b, d, x) EXCEPT !.inner = y] = Stage(request, b, d, y)
  BY DEF Stage
<1> HIDE DEF a, c, i
<1>7. ASSUME NEW d, WithOrigin = Stage(request, "taken", d, i),
             future' = [WithOrigin EXCEPT !.inner = "waiting"]
      PROVE  future' = Stage(request, "taken", d, "waiting")
  BY <1>6, <1>7
<1>8. CASE AllowCompletes
  <2>1. a # "taken" /\ future' = [future EXCEPT !.allow = "ready"] /\ UNCHANGED repolled
    BY <1>8 DEF AllowCompletes, a
  <2>2. future' = Stage(request, "ready", c, i)
    BY <1>3, <1>5, <2>1
  <2>3. NeverRepolled'
    BY <1>2, <2>1 DEF NeverRepolled
  <2>4. c \in BOOLEAN /\ (c <=> "ready" = "taken")
    BY <1>3, <2>1
  <2> QED  BY <1>1, <1>4, <2>2, <2>3, <2>4, StillPolling
<1>9. CASE InnerCompletes
  <2>1. future' = [future EXCEPT !.inner = "ready"] /\ UNCHANGED repolled
    BY <1>9 DEF InnerCompletes
  <2>2. future' = Stage(request, a, c, "ready")
    BY <1>3, <1>6, <2>1
  <2>3. NeverRepolled'
    BY <1>2, <2>1 DEF NeverRepolled
  <2> QED  BY <1>1, <1>3, <1>4, <2>2, <2>3, StillPolling
<1>10. CASE AllowPending
  <2>1. a # "taken" /\ future' = [future EXCEPT !.allow = "waiting"] /\ UNCHANGED repolled
    BY <1>10 DEF AllowPending, a
  <2>2. future' = Stage(request, "waiting", c, i)
    BY <1>3, <1>5, <2>1
  <2>3. NeverRepolled'
    BY <1>2, <2>1 DEF NeverRepolled
  <2>4. c \in BOOLEAN /\ (c <=> "waiting" = "taken")
    BY <1>3, <2>1
  <2> QED  BY <1>1, <1>4, <2>2, <2>3, <2>4, StillPolling
<1>11. CASE InnerPending
  <2>1. /\ AllowKnown /\ future.kind = "CorsCall" /\ Repolls
        /\ future' = [WithOrigin EXCEPT !.inner = "waiting"]
    BY <1>11 DEF InnerPending
  <2>2. /\ WithOrigin = Stage(request, "taken", request.method # "OPTIONS", i)
        /\ request.method # "OPTIONS"
    BY <1>2, <2>1, OriginIsSet DEF i
  <2>3. PICK d \in BOOLEAN : d = (request.method # "OPTIONS")
    OBVIOUS
  <2>4. WithOrigin = Stage(request, "taken", d, i) /\ (d <=> "taken" = "taken")
    BY <2>2, <2>3
  <2>5. future' = Stage(request, "taken", d, "waiting")
    BY <1>7, <2>1, <2>4, Zenon
  <2>6. NeverRepolled'
    BY <1>1, <1>2, <2>1, NoRepoll
  <2> QED  BY <1>1, <1>4, <2>4, <2>5, <2>6, StillPolling
<1> QED  BY <1>8, <1>9, <1>10, <1>11

LEMMA ResponseStep ==
  ASSUME CrossOriginInv, Responds \/ PreflightResponds
  PROVE  CrossOriginInv'
<1>1. pc = "polling" /\ AllowKnown /\ Polling
  BY DEF Responds, PreflightResponds, AllowKnown, CrossOriginInv
<1>2. /\ WithOrigin.headers = FullHeaders(request)
      /\ future.kind = "CorsCall" <=> request.method # "OPTIONS"
      /\ future.kind = "PreflightCall" <=> request.method = "OPTIONS"
  BY <1>1, OriginIsSet
<1>3. CASE Responds
  <2> DEFINE inner == IF future.inner = "rejected" THEN Forbidden
                      ELSE HandlerResponse(request)
             res == [inner EXCEPT !.headers = Merge(@, WithOrigin.headers)]
  <2>1. future.kind = "CorsCall" /\ Ready(res)
    BY <1>3 DEF Responds
  <2>2. res \in AnswersFor(request)
    BY <1>2 DEF AnswersFor, Decorated
  <2> HIDE DEF res
  <2> QED  BY <1>1, <1>2, <2>1, <2>2, Responding
<1>4. CASE PreflightResponds
  <2> DEFINE res == [status |-> 200, content |-> "", headers |-> WithOrigin.headers]
  <2>1. future.kind = "PreflightCall" /\ Ready(res)
    BY <1>4 DEF PreflightResponds
  <2>2. res = PreflightAnswer(request)
    BY <1>2 DEF PreflightAnswer
  <2> HIDE DEF res
  <2> QED  BY <1>1, <1>2, <2>1, <2>2, Responding
<1> QED  BY <1>3, <1>4

(* The browser's check: the one place where a fetch gets its verdict.      *)
LEMMA CheckStep ==
  ASSUME CrossOriginInv, Check
  PROVE  CrossOriginInv'
<1>1. /\ UNCHANGED settings /\ UNCHANGED <<layer, protection, handler>>
      /\ UNCHANGED <<fetch, request, response, cache, reached, repolled>>
      /\ pc = "check" /\ pc' \in {"actual", "done"}
  BY DEF Check, settings
<1>2. Settings /\ fetch \in Fetches /\ Asked /\ Served /\ Passed /\ Reach
  BY DEF CrossOriginInv, Settings
<1>3. Settings' /\ Polling' /\ Served' /\ NeverRepolled'
  BY <1>1 DEF CrossOriginInv, Settings, Polling, Served, NeverRepolled
<1>4. Cached'
  BY <1>1, Kept DEF CrossOriginInv, Cached
<1>5. CASE request.method = "OPTIONS"
  <2>1. NeedsPreflight(fetch) /\ request = Preflight(fetch)
    BY <1>1, <1>2, <1>5 DEF Asked
  <2>2. PreflightPasses(fetch, response) <=> PreflightGranted(fetch)
    BY <1>1, <1>2, <1>5, <2>1, PreflightIsGranted DEF Served
  <2>3. ~reached
    BY <1>1, <1>2, <1>5 DEF Reach
  <2>4. Asked' /\ Reach'
    BY <1>1, <1>2, <2>3 DEF Asked, Reach
  <2>5. CASE PreflightPasses(fetch, response)
    <3>1. pc' = "actual"
      BY <1>5, <2>1, <2>5 DEF Check
    <3>2. Passed'
      BY <1>1, <2>2, <2>5, Kept DEF Passed
    <3> QED  BY <1>3, <1>4, <2>4, <3>1, <3>2, NoVerdict DEF CrossOriginInv
  <2>6. CASE ~PreflightPasses(fetch, response)
    <3>1. pc' = "done" /\ outcome' = "refused"
      BY <1>5, <2>1, <2>6 DEF Check
    <3>2. Passed' /\ HandlerIsProtected'
      BY <3>1 DEF Passed, HandlerIsProtected, Done
    <3>3. ~PreflightGranted(fetch)'
      BY <1>1, <2>2, <2>6, Kept
    <3>4. IsCrossOrigin(fetch) /\ NeedsPreflight(fetch)
      BY <2>1 DEF NeedsPreflight
    <3>5. AccessIsExact'
      BY <1>1, <3>1, <3>3, <3>4 DEF AccessIsExact, Done
    <3> QED  BY <1>3, <1>4, <2>4, <3>2, <3>5 DEF CrossOriginInv
  <2> QED  BY <2>5, <2>6
<1>6. CASE request.method # "OPTIONS"
  <2>1. request = Actual(fetch)
    BY <1>1, <1>2, <1>6 DEF Asked
  <2>2. /\ pc' = "done"
        /\ outcome' = IF ~IsCrossOrigin(fetch) \/ Shared(fetch, response)
                        THEN "readable" ELSE "hidden"
    BY <1>6 DEF Check
  <2>3. Asked' /\ Passed' /\ Reach'
    BY <1>1, <1>2, <2>2 DEF Asked, Passed, Reach
  <2>4. NeedsPreflight(fetch) => PreflightGranted(fetch)
    BY <1>1, <1>2, <1>6 DEF Passed
  <2>5. PICK q \in {request} \cup {e.request : e \in cache} :
          /\ response \in AnswersFor(q)
          /\ q = request \/ Fresh([request |-> q, response |-> response], request)
    BY <1>1, <1>2, <1>6 DEF Served
  <2>6. /\ q = request \/ ("origin" \in response.headers.vary => q.origin = request.origin)
        /\ q = request \/ ("accept" \in response.headers.vary => q.accept = request.accept)
    BY <2>5 DEF Fresh
  <2>7. request.origin = OriginHeader(fetch) /\ request.accept = fetch.accept
    BY <1>2, <2>1, RequestParts
  <2>8. IsCrossOrigin(fetch) /\ Announced =>
          (Shared(fetch, response) <=> Granted(fetch) \/ HandlerGrants(fetch))
    <3> SUFFICES ASSUME IsCrossOrigin(fetch), Announced
                 PROVE  Shared(fetch, response) <=> Granted(fetch) \/ HandlerGrants(fetch)
      OBVIOUS
    <3>1. request.origin = fetch.origin
      BY <1>2, <2>7, FetchParts
    <3>2. \/ q.origin = fetch.origin
          \/ Announced /\ ("origin" \in response.headers.vary => q.origin = fetch.origin)
      BY <2>6, <3>1
    <3> QED  BY <1>2, <2>5, <3>2, SharedIsGranted
  <2>9. response.status = 200 /\ handler.negotiates => response.content = fetch.accept
    <3>1. handler \in Handlers
      BY <1>2 DEF Settings
    <3>2. response.status = 200 /\ handler.negotiates =>
            response.content = q.accept /\ "accept" \in response.headers.vary
      BY <2>5, <3>1, AnswerParts
    <3> QED  BY <2>6, <2>7, <3>2
  <2>10. AccessIsExact'
    <3>1. /\ Announced' <=> Announced
          /\ Granted(fetch)' <=> Granted(fetch)
          /\ HandlerGrants(fetch)' <=> HandlerGrants(fetch)
      BY <1>1 DEF Announced, Granted, OriginAllowed, CredentialsAllowed, HandlerGrants
    <3>2. PreflightGranted(fetch)' <=> PreflightGranted(fetch)
      BY <1>1, Kept
    <3>3. Announced =>
            (outcome' = "readable" <=>
               \/ ~IsCrossOrigin(fetch)
               \/ Granted(fetch) \/ HandlerGrants(fetch))
      BY <2>2, <2>8
    <3> QED  BY <1>1, <2>4, <2>9, <3>1, <3>2, <3>3 DEF AccessIsExact, Done
  <2>11. HandlerIsProtected'
    <3>1. fetch.method # "GET" => (reached <=> verify(protection, Actual(fetch)) = "Ok")
      BY <1>1, <1>2, <1>6 DEF Reach
    <3>2. /\ Trusted(fetch.origin)' <=> Trusted(fetch.origin)
          /\ Legitimate(fetch)' <=> Legitimate(fetch)
      BY <1>1 DEF Trusted, Legitimate
    <3> QED  BY <1>1, <1>2, <3>1, <3>2, VerifyDecides DEF HandlerIsProtected
  <2> QED  BY <1>3, <1>4, <2>3, <2>10, <2>11 DEF CrossOriginInv
<1> QED  BY <1>5, <1>6

(* The inner service fails, or the client goes away.                       *)
LEMMA EndStep ==
  ASSUME CrossOriginInv, InnerFails \/ Disconnect
  PROVE  CrossOriginInv'
<1>1. /\ UNCHANGED settings /\ UNCHANGED <<layer, protection, handler>>
      /\ UNCHANGED <<fetch, request, response, cache, reached>>
      /\ pc = "polling" /\ pc' = "done"
      /\ outcome' = "dropped" \/ (outcome' = "failed" /\ InnerFails)
  BY DEF InnerFails, Disconnect, AllowKnown, settings
<1>2. Settings' /\ Polling' /\ Asked' /\ Passed' /\ Reach' /\ Served'
  BY <1>1 DEF CrossOriginInv, Settings, Polling, Asked, Passed, Reach, Served
<1>3. Cached'
  BY <1>1, Kept DEF CrossOriginInv, Cached
<1>4. NeverRepolled'
  BY <1>1, NoRepoll DEF CrossOriginInv, InnerFails, Disconnect, NeverRepolled
<1>5. AccessIsExact'
  BY <1>1 DEF AccessIsExact, Done
<1>6. HandlerIsProtected'
  <2>1. CASE outcome' = "dropped"
    BY <1>1, <2>1, NoVerdict
  <2>2. CASE InnerFails
    <3>1. Polling /\ AllowKnown /\ future.kind = "CorsCall" /\ Settings /\ Asked /\ Reach
      BY <2>2 DEF CrossOriginInv, InnerFails
    <3>2. request.method # "OPTIONS"
      BY <3>1, OriginIsSet
    <3>3. fetch.method # "GET" => (reached <=> verify(protection, Actual(fetch)) = "Ok")
      BY <1>1, <3>1, <3>2 DEF Reach
    <3>4. /\ Trusted(fetch.origin)' <=> Trusted(fetch.origin)
          /\ Legitimate(fetch)' <=> Legitimate(fetch)
      BY <1>1 DEF Trusted, Legitimate
    <3> QED  BY <1>1, <3>1, <3>3, <3>4, VerifyDecides DEF HandlerIsProtected
  <2> QED  BY <1>1, <2>1, <2>2
<1> QED  BY <1>2, <1>3, <1>4, <1>5, <1>6 DEF CrossOriginInv

LEMMA AgainStep ==
  ASSUME CrossOriginInv, NEW f \in Fetches, Again(f)
  PROVE  CrossOriginInv'
<1>1. /\ UNCHANGED settings /\ UNCHANGED <<layer, protection, handler>>
      /\ UNCHANGED <<cache, repolled>> /\ fetch' = f /\ pc' = "idle" /\ reached' = FALSE
  BY DEF Again, settings
<1>2. Settings' /\ Polling' /\ Asked' /\ Passed' /\ Reach' /\ Served' /\ NeverRepolled'
  BY <1>1 DEF CrossOriginInv, Settings, Polling, Asked, Passed, Reach, Served,
              NeverRepolled
<1>3. Cached'
  BY <1>1, Kept DEF CrossOriginInv, Cached
<1>4. AccessIsExact' /\ HandlerIsProtected'
  BY <1>1, NoVerdict
<1> QED  BY <1>2, <1>3, <1>4 DEF CrossOriginInv

LEMMA StutterStep ==
  ASSUME CrossOriginInv, UNCHANGED vars
  PROVE  CrossOriginInv'
<1>1. /\ UNCHANGED settings /\ UNCHANGED <<layer, protection, handler>>
      /\ UNCHANGED <<fetch, pc, request, future, response, cache, outcome, reached, repolled>>
  BY DEF vars, settings
<1>2. Settings' /\ Asked' /\ Reach' /\ NeverRepolled'
  BY <1>1 DEF CrossOriginInv, Settings, Asked, Reach, NeverRepolled
<1>3. Polling' /\ Passed' /\ Cached' /\ Served'
  BY <1>1, Kept DEF CrossOriginInv, Polling, Passed, Cached, Served
<1>4. AccessIsExact'
  BY <1>1, Kept DEF CrossOriginInv, AccessIsExact, Done, Announced, Granted, OriginAllowed,
                    CredentialsAllowed, HandlerGrants
<1>5. HandlerIsProtected'
  BY <1>1 DEF CrossOriginInv, HandlerIsProtected, Done, Trusted, Legitimate
<1> QED  BY <1>2, <1>3, <1>4, <1>5 DEF CrossOriginInv

-----------------------------------------------------------------------------
LEMMA InitIsSound == Init => CrossOriginInv
<1> SUFFICES ASSUME Init PROVE CrossOriginInv
  OBVIOUS
<1>1. /\ pc = "idle" /\ cache = {} /\ reached = FALSE /\ repolled = FALSE
      /\ layer \in Layers /\ protection \in Protections /\ handler \in Handlers
      /\ fetch \in Fetches
  BY DEF Init
<1> QED  BY <1>1 DEF CrossOriginInv, Settings, Polling, Asked, Passed, Reach, Cached,
                     Served, AccessIsExact, HandlerIsProtected, NeverRepolled, Done

LEMMA StepIsSound == CrossOriginInv /\ [Next]_vars => CrossOriginInv'
<1> SUFFICES ASSUME CrossOriginInv, [Next]_vars PROVE CrossOriginInv'
  OBVIOUS
<1>1. CASE Progress
  BY <1>1, BeginStep, CallStep, ReplayStep, FutureStep, ResponseStep, CheckStep DEF Progress
<1>2. CASE InnerFails \/ Disconnect
  BY <1>2, EndStep
<1>3. CASE \E f \in Fetches : Again(f)
  BY <1>3, AgainStep
<1>4. CASE Over
  BY <1>4, StutterStep DEF Over
<1>5. CASE UNCHANGED vars
  BY <1>5, StutterStep
<1> QED  BY <1>1, <1>2, <1>3, <1>4, <1>5 DEF Next

(* The inductive invariant: the future on its way has the headers of the   *)
(* request on its way, every stored response is one that Cors makes for    *)
(* the stored request, and no fetch gets past the preflight or to the      *)
(* handler but by the settings.                                            *)
THEOREM CrossOriginIsSound == Spec => []CrossOriginInv
  BY InitIsSound, StepIsSound, PTL DEF Spec

(* Whatever the settings of Cors and whatever a cache replays: a page can  *)
(* read a response exactly when the settings let it, and it is the         *)
(* response to its own request (Cors::call, update_vary_header and         *)
(* ResponseFuture::poll).                                                  *)
THEOREM AccessIsAlwaysExact == Spec => []AccessIsExact
<1>1. CrossOriginInv => AccessIsExact
  BY DEF CrossOriginInv
<1> QED  BY <1>1, CrossOriginIsSound, PTL

(* The handler is called exactly for the writes that Csrf::verify and the  *)
(* bypass and trusted origins of the settings let pass.                    *)
THEOREM HandlerIsAlwaysProtected == Spec => []HandlerIsProtected
<1>1. CrossOriginInv => HandlerIsProtected
  BY DEF CrossOriginInv
<1> QED  BY <1>1, CrossOriginIsSound, PTL

(* ResponseFuture::poll never polls the completed origin check again.      *)
THEOREM OriginIsAskedOnce == Spec => []NeverRepolled
<1>1. CrossOriginInv => NeverRepolled
  BY DEF CrossOriginInv
<1> QED  BY <1>1, CrossOriginIsSound, PTL
=============================================================================
