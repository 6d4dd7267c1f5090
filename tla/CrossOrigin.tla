----------------------------- MODULE CrossOrigin ----------------------------
(***************************************************************************)
(* Cors around Csrf around a handler, as web pages meet them: a browser    *)
(* sends a preflight where the fetch standard asks for one, a shared cache *)
(* may store and replay responses under their Vary header, and the browser *)
(* decides what the page may read.  The response future of Cors joins an   *)
(* asynchronous origin check and the inner future; it is polled only when  *)
(* its waker was called.                                                   *)
(***************************************************************************)
EXTENDS Cors, Csrf, Integers

CONSTANTS Self,         \* the origin of the server
          Layers,       \* settings of Cors
          Protections,  \* settings of Csrf
          Handlers,     \* [negotiates, origin]: the handler's own headers
          Fetches,      \* what clients ask for, see Fetch
          MaxFetches    \* bound on the requests that follow one another

(* A fetch.  The client is a browser that knows Sec-Fetch-Site or an old   *)
(* one, its user, or a program without Origin.  A path to the server may   *)
(* put the authority into the request target or rewrite Host.              *)
Fetch ==
  [client : {"modern", "old", "user", "program", "blank"}, origin : DOMAIN Uri,
   method : {"GET", "POST", "PUT"}, headers : SUBSET STRING, credentials : BOOLEAN,
   private : BOOLEAN, accept : STRING, path : STRING,
   via : {"direct", "absolute", "rewritten"}]

Rewritten == "internal"   \* what a proxy may write into Host

Protection ==
  [candidates : SUBSET [origin : DOMAIN Uri,
                        form : {"fine", "path", "query", "fragment", "not ascii",
                                "not a url"}],
   bypass : SUBSET STRING]

ASSUME CrossOriginAssumption ==
  /\ Self \in DOMAIN Uri
  /\ Layers \subseteq LayerType(DOMAIN Uri)
  /\ Protections \subseteq Protection
  /\ Handlers \subseteq [negotiates : BOOLEAN, origin : {{}, Wildcard}]
  /\ Fetches \subseteq Fetch
  \* No origin and no host is written like a header's absence or the wildcard.
  /\ DOMAIN Uri \cap {NoOrigin, "", "*"} = {}
  /\ \A o \in DOMAIN Uri : Uri[o].host \notin {Absent, Rewritten}
  /\ MaxFetches \in Nat

VARIABLES
  layer, protection, handler,   \* the settings
  fetch,     \* what is asked for now
  pc,        \* "idle", "preflight", "actual", "polling", "check", "done"
  request,   \* the request on its way
  future,    \* ResponseFuture of Cors
  woken,     \* its task's waker was called since the last poll
  response,  \* the response on its way
  cache,     \* the shared cache: at most one request with its response
  outcome,   \* what came of the fetch
  reached,   \* history: the handler was called for this fetch
  repolled,  \* history: a future was polled after it had completed
  count      \* fetches so far

settings == <<layer, protection, handler>>
vars == <<settings, fetch, pc, request, future, woken, response, cache, outcome,
          reached, repolled, count>>

-----------------------------------------------------------------------------
(* The browser, after the fetch standard.                                  *)
Browser(f)    == f.client \in {"modern", "old", "user"}
IsCrossOrigin(f) == f.client \in {"modern", "old"} /\ f.origin # Self
SimpleMethods == {"GET", "HEAD", "POST"}
NeedsPreflight(f) ==
  IsCrossOrigin(f) /\ (f.method \notin SimpleMethods \/ f.headers # {} \/ f.private)

OriginHeader(f) ==
  IF f.client = "blank" THEN ""
  ELSE IF IsCrossOrigin(f) \/ (Browser(f) /\ f.method # "GET") THEN f.origin
  ELSE NoOrigin

SecFetchSite(f) ==
  CASE f.client = "modern" ->
         IF f.origin = Self THEN "same-origin"
         ELSE IF Uri[f.origin].site = Uri[Self].site THEN "same-site" ELSE "cross-site"
    [] f.client = "user"  -> "none"
    [] f.client = "blank" -> ""
    [] OTHER -> Absent

Actual(f) ==
  [method |-> f.method, origin |-> OriginHeader(f),
   has_origin |-> OriginHeader(f) \notin {NoOrigin, ""},
   sec_fetch_site |-> SecFetchSite(f), private |-> FALSE,
   request_method |-> {}, request_headers |-> {}, accept |-> f.accept, path |-> f.path,
   authority |-> IF f.via = "absolute" THEN Uri[Self].host ELSE Absent,
   host |-> IF f.via = "direct" THEN Uri[Self].host ELSE Rewritten]
Preflight(f) ==
  [Actual(f) EXCEPT !.method = "OPTIONS", !.private = f.private,
                    !.request_method = {f.method}, !.request_headers = f.headers]

(* The CORS check: may the page at the fetch's origin read the response?   *)
Shared(f, res) ==
  \/ res.headers.origin = Wildcard /\ ~f.credentials
  \/ res.headers.origin = {f.origin} /\ (f.credentials => res.headers.credentials)

Lists(header, values, f) ==
  values \subseteq header \/ (header = Wildcard /\ ~f.credentials)
PreflightPasses(f, res) ==
  /\ Shared(f, res)
  /\ f.method \in SimpleMethods \/ Lists(res.headers.methods, {f.method}, f)
  /\ Lists(res.headers.headers, f.headers, f)
  /\ f.private => res.headers.private

(* A shared cache may answer a request with a stored response if the       *)
(* request headers that Vary names are the same.                           *)
Fresh(entry, r) ==
  /\ r.method = "GET" /\ entry.request.path = r.path
  /\ "origin" \in entry.response.headers.vary => entry.request.origin = r.origin
  /\ "accept" \in entry.response.headers.vary => entry.request.accept = r.accept

-----------------------------------------------------------------------------
NoFuture   == [kind |-> "none", headers |-> NoHeaders, allow |-> "taken",
               allow_origin_complete |-> FALSE, inner |-> "none"]
NoResponse == [status |-> 0, content |-> "", headers |-> NoHeaders]
NoRequest  == [method |-> "none"]

(* The handler: its response may depend on Accept, and then says so.       *)
HandlerResponse(r) ==
  [status |-> 200,
   content |-> IF handler.negotiates THEN r.accept ELSE "",
   headers |-> [NoHeaders EXCEPT !.origin = handler.origin,
                  !.vary = IF handler.negotiates THEN {"accept"} ELSE {}]]

(* DefaultResponseForProtectionError                                       *)
Forbidden == [NoResponse EXCEPT !.status = 403]

Init ==
  /\ layer \in {L \in Layers : ensure_usable_cors_rules(L)}
  /\ protection \in Protections
  /\ handler \in Handlers
  /\ fetch \in Fetches
  /\ pc = "idle"
  /\ request = NoRequest
  /\ future = NoFuture
  /\ woken = FALSE
  /\ response = NoResponse
  /\ cache = {}
  /\ outcome = "none"
  /\ reached = FALSE
  /\ repolled = FALSE
  /\ count = 0

Begin ==
  /\ pc = "idle"
  /\ pc' = IF NeedsPreflight(fetch) THEN "preflight" ELSE "actual"
  /\ count' = count + 1
  /\ UNCHANGED <<settings, fetch, request, future, woken, response, cache, outcome,
                 reached, repolled>>

(* Cors::call, and through it Csrf::call and the handler's.                *)
Call ==
  LET r == IF pc = "preflight" THEN Preflight(fetch) ELSE Actual(fetch)
      passed == r.method # "OPTIONS" /\ verify(protection, r) = "Ok"
  IN
  /\ pc \in {"preflight", "actual"}
  /\ pc' = "polling"
  /\ request' = r
  /\ future' =
       [kind |-> IF r.method = "OPTIONS" THEN "PreflightCall" ELSE "CorsCall",
        headers |-> CallHeaders(layer, r),
        allow |-> IF TakesTime(layer, r.origin) THEN "unpolled" ELSE "ready",
        allow_origin_complete |-> FALSE,
        inner |-> IF r.method = "OPTIONS" THEN "none"
                  ELSE IF passed THEN "unpolled" ELSE "rejected"]
  /\ reached' = (reached \/ passed)
  /\ woken' = TRUE
  /\ UNCHANGED <<settings, fetch, response, cache, outcome, repolled, count>>

(* The cache answers instead.                                              *)
Replay ==
  /\ pc = "actual"
  /\ \E entry \in cache :
       /\ Fresh(entry, Actual(fetch))
       /\ response' = entry.response
  /\ request' = Actual(fetch)
  /\ pc' = "check"
  /\ UNCHANGED <<settings, fetch, future, woken, cache, outcome, reached,
                 repolled, count>>

(* The two futures complete, and wake the task if they were polled.        *)
AllowCompletes ==
  /\ pc = "polling" /\ future.allow \in {"unpolled", "waiting"}
  /\ woken' = (woken \/ future.allow = "waiting")
  /\ future' = [future EXCEPT !.allow = "ready"]
  /\ UNCHANGED <<settings, fetch, pc, request, response, cache, outcome, reached,
                 repolled, count>>

InnerCompletes ==
  /\ pc = "polling" /\ future.inner \in {"unpolled", "waiting"}
  /\ woken' = (woken \/ future.inner = "waiting")
  /\ future' = [future EXCEPT !.inner = "ready"]
  /\ UNCHANGED <<settings, fetch, pc, request, response, cache, outcome, reached,
                 repolled, count>>

-----------------------------------------------------------------------------
(* ResponseFuture::poll: first the origin, unless that is complete.        *)
AllowPending ==
  /\ pc = "polling" /\ woken
  /\ ~future.allow_origin_complete /\ future.allow \in {"unpolled", "waiting"}
  /\ future' = [future EXCEPT !.allow = "waiting"]
  /\ woken' = FALSE
  /\ UNCHANGED <<settings, fetch, pc, request, response, cache, outcome, reached,
                 repolled, count>>

AllowKnown ==
  /\ pc = "polling" /\ woken
  /\ future.allow_origin_complete \/ future.allow \in {"ready", "taken"}

\* Mutant: allow_origin_complete is never set.
WithOrigin_NotComplete ==
  [future EXCEPT
     !.allow = "taken",
     !.headers.origin = IF future.allow_origin_complete \/ future.allow = "taken" THEN @
                        ELSE AllowOrigin(layer, request.origin)]

(* The future after that part of poll.                                     *)
WithOrigin ==
  [future EXCEPT
     !.allow = "taken",
     !.headers.origin = IF future.allow_origin_complete \/ future.allow = "taken" THEN @
                        ELSE AllowOrigin(layer, request.origin),
     !.allow_origin_complete = (future.kind = "CorsCall")]

Repolls == repolled' = (repolled \/ (~future.allow_origin_complete /\ future.allow = "taken"))

\* Mutant: the inner future is left for the next poll, which nobody asks for.
InnerPending_Unpolled ==
  /\ AllowKnown /\ future.kind = "CorsCall" /\ future.inner = "unpolled"
  /\ future' = WithOrigin
  /\ woken' = FALSE
  /\ Repolls
  /\ UNCHANGED <<settings, fetch, pc, request, response, cache, outcome, reached, count>>

(* ... then the inner future.                                              *)
InnerPending ==
  /\ AllowKnown /\ future.kind = "CorsCall" /\ future.inner \in {"unpolled", "waiting"}
  /\ future' = [WithOrigin EXCEPT !.inner = "waiting"]
  /\ woken' = FALSE
  /\ Repolls
  /\ UNCHANGED <<settings, fetch, pc, request, response, cache, outcome, reached, count>>

(* Ready(Ok): the response passes the cache, which may keep it.            *)
Ready(res) ==
  /\ response' = res
  /\ pc' = "check"
  /\ cache' \in {cache} \cup
       (IF request.method = "GET" THEN {{[request |-> request, response |-> res]}} ELSE {})
  /\ future' = NoFuture
  /\ woken' = FALSE
  /\ Repolls
  /\ UNCHANGED <<settings, fetch, request, outcome, reached, count>>

Responds ==
  LET inner == IF future.inner = "rejected" THEN Forbidden ELSE HandlerResponse(request)
  IN
  /\ AllowKnown /\ future.kind = "CorsCall" /\ future.inner \in {"ready", "rejected"}
  /\ Ready([inner EXCEPT !.headers = Merge(@, WithOrigin.headers)])

PreflightResponds ==
  /\ AllowKnown /\ future.kind = "PreflightCall"
  /\ Ready([status |-> 200, content |-> "", headers |-> WithOrigin.headers])

(* The inner service fails; so does the call.                              *)
InnerFails ==
  /\ AllowKnown /\ future.kind = "CorsCall" /\ future.inner = "ready"
  /\ outcome' = "failed"
  /\ pc' = "done"
  /\ future' = NoFuture
  /\ woken' = FALSE
  /\ Repolls
  /\ UNCHANGED <<settings, fetch, request, response, cache, reached, count>>

(* The client goes away and the server drops the future.                   *)
Disconnect ==
  /\ pc = "polling"
  /\ outcome' = "dropped"
  /\ pc' = "done"
  /\ future' = NoFuture
  /\ woken' = FALSE
  /\ UNCHANGED <<settings, fetch, request, response, cache, reached, repolled, count>>

-----------------------------------------------------------------------------
Check ==
  /\ pc = "check"
  /\ IF NeedsPreflight(fetch) /\ request.method = "OPTIONS"
       THEN IF PreflightPasses(fetch, response)
              THEN pc' = "actual" /\ UNCHANGED outcome
              ELSE pc' = "done" /\ outcome' = "refused"
       ELSE /\ pc' = "done"
            /\ outcome' = IF ~IsCrossOrigin(fetch) \/ Shared(fetch, response)
                            THEN "readable" ELSE "hidden"
  /\ UNCHANGED <<settings, fetch, request, future, woken, response, cache, reached,
                 repolled, count>>

(* Another fetch follows, if the cache makes it depend on this one.        *)
Again(f) ==
  /\ pc = "done" /\ count < MaxFetches /\ cache # {} /\ f.method = "GET"
  /\ fetch' = f
  /\ pc' = "idle"
  /\ request' = NoRequest
  /\ response' = NoResponse
  /\ outcome' = "none"
  /\ reached' = FALSE
  /\ UNCHANGED <<settings, future, woken, cache, repolled, count>>

Over == pc = "done" /\ UNCHANGED vars

Progress ==
  \/ Begin \/ Call \/ Replay \/ AllowCompletes \/ InnerCompletes
  \/ AllowPending \/ InnerPending \/ Responds \/ PreflightResponds \/ Check

Next ==
  \/ Progress
  \/ InnerFails
  \/ Disconnect
  \/ \E f \in Fetches : Again(f)
  \/ Over

(* The browser goes on, the executor polls a woken task, and the origin    *)
(* check and the handler complete.                                         *)
Spec == Init /\ [][Next]_vars /\ WF_vars(Progress)

-----------------------------------------------------------------------------
Done(o) == pc = "done" /\ outcome \in o

(* What the settings say about a page, in terms of its origin.             *)
OriginAllowed(f) == layer.allow_origin.set = Wildcard \/ f.origin \in layer.allow_origin.set
CredentialsAllowed(f) ==
  /\ layer.allow_origin.set # Wildcard
  /\ \/ layer.allow_credentials.kind = "Yes"
     \/ layer.allow_credentials.kind = "Predicate" /\ f.origin \in layer.allow_credentials.set
Granted(f) == OriginAllowed(f) /\ (f.credentials => CredentialsAllowed(f))
Named(choice, values, f) ==
  \/ choice.mirror
  \/ values \subseteq choice.const
  \/ choice.const = Wildcard /\ ~f.credentials
PreflightGranted(f) ==
  /\ Granted(f)
  /\ f.method \in SimpleMethods \/ Named(layer.allow_methods, {f.method}, f)
  /\ Named(layer.allow_headers, f.headers, f)
  /\ f.private => \/ layer.allow_private_network.kind = "Yes"
                  \/ /\ layer.allow_private_network.kind = "Predicate"
                     /\ f.origin \in layer.allow_private_network.set
(* A handler that lets everybody read is heard where Cors is silent.       *)
HandlerGrants(f) ==
  /\ ~OriginAllowed(f) /\ layer.allow_origin.kind # "Const"
  /\ response.status = 200 /\ handler.origin = Wildcard /\ ~f.credentials

(* Whether Vary tells a cache that the origin matters: a Vary of one's own *)
(* has to name it, and credentials that depend on the origin are not       *)
(* announced when the allowed origin is a constant.                        *)
Announced ==
  IF layer.is_vary_custom THEN "origin" \in layer.vary
  ELSE layer.allow_credentials.kind = "Predicate" => layer.allow_origin.kind # "Const"

(* A page can read a response exactly when the settings of Cors let it,    *)
(* and it reads the response to its own request, although a cache may have *)
(* answered with one that was made for another page.                       *)
AccessIsExact ==
  /\ Done({"readable", "hidden", "refused"}) /\ Announced =>
       (outcome = "readable" <=>
          \/ ~IsCrossOrigin(fetch)
          \/ /\ NeedsPreflight(fetch) => PreflightGranted(fetch)
             /\ Granted(fetch) \/ HandlerGrants(fetch))
  /\ Done({"readable"}) /\ handler.negotiates /\ response.status = 200 =>
       response.content = fetch.accept

Trusted(o) == WebOrigin(o) /\ [origin |-> o, form |-> "fine"] \in protection.candidates

(* Who may change the server's state: its own pages and users, programs,   *)
(* and what the settings exempt.                                           *)
Legitimate(f) ==
  ~IsCrossOrigin(f) \/ f.path \in protection.bypass \/ Trusted(f.origin)

(* The handler is called for legitimate requests only, whatever Cors       *)
(* allows, and for all that get past the preflight.  An old browser tells  *)
(* less: the page's host decides, whether its scheme is http or https.     *)
HandlerIsProtected ==
  Done({"readable", "hidden", "failed"}) /\ fetch.method # "GET" =>
    (reached <=>
       IF fetch.client = "old"
         THEN \/ /\ WebOrigin(fetch.origin) /\ Uri[fetch.origin].host = Uri[Self].host
                 /\ fetch.via # "rewritten"
              \/ fetch.path \in protection.bypass
              \/ Trusted(fetch.origin)
         ELSE Legitimate(fetch))

(* The origin check is not polled again once it is complete, though the    *)
(* task goes on to be woken and polled for the inner future (an async      *)
(* block would panic).                                                     *)
NeverRepolled == ~repolled

(* Every fetch comes to an end: no wake-up is lost between the futures.    *)
FetchEnds == pc # "done" ~> pc = "done"
=============================================================================
