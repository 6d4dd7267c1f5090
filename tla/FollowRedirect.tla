--------------------------- MODULE FollowRedirect ---------------------------
(***************************************************************************)
(* The FollowRedirect middleware (follow_redirect/mod.rs): one call, its   *)
(* response future, and the chain of requests that future sends through    *)
(* the inner service.  The executor polls the future only when its waker   *)
(* was called (`woken`); the inner future is `unpolled` when it was just   *)
(* created, `waiting` once it was polled and stored the waker, and `ready` *)
(* when it has completed.                                                  *)
(***************************************************************************)
EXTENDS RedirectPolicy, Sequences

CONSTANTS
  Uris,        \* the URIs a request or a Location header may name
  NoUri,       \* Location missing, not UTF-8, or not resolvable
  Methods,     \* request methods
  Statuses,    \* response status codes
  HeaderSets,  \* header sets of the original request
  Extensions,  \* request extension types
  Layers,      \* configurations of the layer, see RedirectPolicy
  MaxLimit     \* bound on Limited::new

Redirects == {301, 302, 303, 307, 308}

UriType ==
  [scheme : Schemes, host : STRING, port : 0..NoPort, path : STRING]
LayerType ==
  [policy : {"standard", "guarded"}, limit : 0..MaxLimit, clones : BOOLEAN,
   block_cross_origin : BOOLEAN, block_any : BOOLEAN,
   remove_blocklisted : BOOLEAN, remove_all : BOOLEAN,
   remove_all_extensions : BOOLEAN, allowed : SUBSET Extensions,
   preserve_extensions : BOOLEAN]

ASSUME UrisAssumption    == Uris \subseteq UriType /\ NoUri \notin Uris
ASSUME LayersAssumption  == Layers \subseteq LayerType
ASSUME MaxLimitAssumption == MaxLimit \in Nat
ASSUME HeadersAssumption == HeaderSets \subseteq SUBSET HeaderNames
ASSUME MethodsAssumption == {"GET", "HEAD", "POST"} \subseteq Methods
ASSUME StatusesAssumption == Statuses \subseteq Nat

VARIABLES
  layer,       \* the layer's configuration, fixed
  phase,       \* "idle", "sent", "done", "dropped"
  inner,       \* the inner future: "none", "unpolled", "waiting", "ready"
  woken,       \* the task's waker was called since the last poll
  method, uri, headers, extensions,  \* fields of ResponseFuture
  body,        \* BodyRepr: Some(data), Some(zero-length), Empty, None
  policy,      \* the call's clone of the policy
  sent,        \* history: requests given to the inner service
  result       \* what the future resolved to

vars == <<layer, phase, inner, woken, method, uri, headers, extensions, body,
          policy, sent, result>>

Bodies    == {"data", "zero"}
BodyReprs == Bodies \cup {"Empty", "None"}

Requests ==
  [method : Methods, uri : Uris, headers : SUBSET HeaderNames,
   extensions : SUBSET Extensions, body : Bodies]
Results ==
  [kind : {"none", "ok", "err", "policy_err"}, status : Statuses \cup {0},
   uri : Uris \cup {NoUri}, location : Uris \cup {NoUri}]

NoResult == [kind |-> "none", status |-> 0, uri |-> NoUri, location |-> NoUri]
Error    == [NoResult EXCEPT !.kind = "err"]
PolicyError == [NoResult EXCEPT !.kind = "policy_err"]

-----------------------------------------------------------------------------
\* clone_body: an exactly empty body is Default::default(), any other is up
\* to the policy.
clone_body_PolicyOnly(b, cloned) == IF cloned THEN b ELSE "None"  \* Mutant
clone_body(b, cloned) ==
  IF b = "zero" THEN "zero" ELSE IF cloned THEN b ELSE "None"

\* BodyRepr::try_clone_from keeps what is already there.
try_clone_from(repr, b, cloned) ==
  IF repr = "None" THEN clone_body(b, cloned) ELSE repr

\* BodyRepr::take: the body it returns, and what it leaves behind.
Taken(repr)     == IF repr = "Empty" THEN "zero" ELSE repr
LeftAfter(repr) == IF repr = "Empty" THEN "Empty" ELSE "None"

\* resolve_uri: a Location can only be joined to an absolute base.
resolve_uri(location, base) ==
  IF base.scheme = "none" THEN NoUri ELSE location

\* The request rewriting the response's status asks for.
DropsPayload(m, status) ==
  \/ status \in {301, 302} /\ m = "POST"
  \/ status = 303
NewMethod(m, status) ==
  IF ~ DropsPayload(m, status) THEN m
  ELSE IF status = 303 /\ m = "HEAD" THEN "HEAD" ELSE "GET"
NewHeaders_SeeOther(h, m, status) ==  \* Mutant: only 303 drops them
  IF status = 303 THEN h \ PayloadHeaders ELSE h
NewHeaders(h, m, status) ==
  IF DropsPayload(m, status) THEN h \ PayloadHeaders ELSE h
NewBody(b, m, status) == IF DropsPayload(m, status) THEN "Empty" ELSE b

\* What the future remembers of the headers (extensions) of a request it sends:
\* what the policy left of them.
CarriedForward_Unfiltered(before, after) == before  \* Mutant
CarriedForward(before, after) == after

-----------------------------------------------------------------------------
Init ==
  /\ layer \in Layers
  /\ phase = "idle"
  /\ inner = "none"
  /\ woken = FALSE
  /\ method = "GET"
  /\ uri = NoUri
  /\ headers = {}
  /\ extensions = {}
  /\ body = "None"
  /\ policy = [remaining |-> layer.limit, blocked |-> FALSE]
  /\ sent = <<>>
  /\ result = NoResult

\* FollowRedirect::call: the body is cloned, on_request filters the request, and
\* the future snapshots what is left of it.
Call(req, cloned) ==
  LET filtered == on_request(layer, policy, req)
  IN
  /\ phase = "idle"
  /\ phase' = "sent"
  /\ inner' = "unpolled"
  /\ woken' = TRUE
  /\ method' = req.method
  /\ uri' = req.uri
  /\ headers' = filtered.headers
  /\ extensions' = IF layer.preserve_extensions THEN filtered.extensions ELSE {}
  /\ body' = try_clone_from("None", req.body, cloned)
  /\ sent' = <<filtered>>
  /\ UNCHANGED <<layer, policy, result>>

\* The inner future was polled and is not ready: it keeps the task's waker.
PollPending ==
  /\ phase = "sent" /\ woken /\ inner = "unpolled"
  /\ inner' = "waiting"
  /\ woken' = FALSE
  /\ UNCHANGED <<layer, phase, method, uri, headers, extensions, body, policy,
                 sent, result>>

\* The inner future completes and calls the waker it was given.
InnerCompletes ==
  /\ phase = "sent" /\ inner = "waiting"
  /\ inner' = "ready"
  /\ woken' = TRUE
  /\ UNCHANGED <<layer, phase, method, uri, headers, extensions, body, policy,
                 sent, result>>

\* The executor polls the future and the inner future resolves (it may do so
\* on its first poll).
PollsReady ==
  /\ phase = "sent" /\ woken
  /\ inner \in {"unpolled", "ready"}

\* The future resolves; its fields are dead from here on.
Resolve(res) ==
  /\ phase' = "done"
  /\ inner' = "none"
  /\ woken' = FALSE
  /\ result' = res
  /\ UNCHANGED <<layer, uri, extensions, sent>>

\* The response, with the RequestUri extension put into it.
Response_First(status, location) ==  \* Mutant: the original request's URI
  [kind |-> "ok", status |-> status, uri |-> sent[1].uri, location |-> location]
Response(status, location) ==
  [kind |-> "ok", status |-> status, uri |-> uri, location |-> location]

\* ready!(future.poll(cx)?): the inner service failed.
InnerError ==
  /\ PollsReady
  /\ Resolve(Error)
  /\ UNCHANGED <<method, headers, body, policy>>

\* Not a redirection this middleware follows.
NotRedirect(status, location) ==
  /\ PollsReady
  /\ status \notin Redirects
  /\ Resolve(Response(status, location))
  /\ UNCHANGED <<method, headers, body, policy>>

\* The assignments every redirection status makes before anything else.
Rewrite(status) ==
  /\ method' = NewMethod(method, status)
  /\ headers' = NewHeaders(headers, method, status)

\* The body is gone and was not cloned: the redirection is returned as is.
NoBody(status, location) ==
  /\ PollsReady
  /\ status \in Redirects
  /\ NewBody(body, method, status) = "None"
  /\ Rewrite(status)
  /\ body' = "None"
  /\ Resolve(Response(status, location))
  /\ UNCHANGED policy

NoLocation(status, location) ==
  LET repr == NewBody(body, method, status)
  IN
  /\ PollsReady
  /\ status \in Redirects
  /\ repr # "None"
  /\ resolve_uri(location, uri) = NoUri
  /\ Rewrite(status)
  /\ body' = LeftAfter(repr)
  /\ Resolve(Response(status, location))
  /\ UNCHANGED policy

\* The guard shared by the three outcomes of Policy::redirect.
Attempting(status, location) ==
  /\ PollsReady
  /\ status \in Redirects
  /\ NewBody(body, method, status) # "None"
  /\ resolve_uri(location, uri) # NoUri

Attempt(location) == [previous |-> uri, location |-> location]

\* Action::Stop returns the redirection, Err the policy's error.
PolicyStops(status, location) ==
  LET r == redirect(layer, policy, Attempt(location))
  IN
  /\ Attempting(status, location)
  /\ r.action \in {"Stop", "Err"}
  /\ Rewrite(status)
  /\ body' = LeftAfter(NewBody(body, method, status))
  /\ policy' = r.st
  /\ Resolve(IF r.action = "Stop" THEN Response(status, location) ELSE PolicyError)

\* cx.waker().wake_by_ref()
wake_by_ref_Lost == woken' = FALSE  \* Mutant
wake_by_ref == woken' = TRUE

\* Action::Follow: send the next request, keep what the policy left of it,
\* and wake the task so that the new inner future is polled.
Follow(status, location, cloned) ==
  LET repr == NewBody(body, method, status)
      r    == redirect(layer, policy, Attempt(location))
      kept == NewHeaders(headers, method, status)
      req  == on_request(layer, r.st,
                [method |-> NewMethod(method, status), uri |-> location,
                 headers |-> kept, extensions |-> extensions,
                 body |-> Taken(repr)])
  IN
  /\ Attempting(status, location)
  /\ r.action = "Follow"
  /\ policy' = r.st
  /\ method' = req.method
  /\ uri' = location
  /\ headers' = CarriedForward(kept, req.headers)
  /\ extensions' = CarriedForward(extensions, req.extensions)
  /\ body' = try_clone_from(LeftAfter(repr), Taken(repr), cloned)
  /\ sent' = Append(sent, req)
  /\ inner' = "unpolled"
  /\ wake_by_ref
  /\ UNCHANGED <<layer, phase, result>>

\* The caller drops the response future.
Drop ==
  /\ phase = "sent"
  /\ phase' = "dropped"
  /\ inner' = "none"
  /\ UNCHANGED <<layer, woken, method, uri, headers, extensions, body, policy,
                 sent, result>>

\* Nothing more happens to a call that is over.
Over ==
  /\ phase \in {"done", "dropped"}
  /\ UNCHANGED vars

Calls ==
  \E m \in Methods, u \in Uris, h \in HeaderSets, x \in SUBSET Extensions,
     b \in Bodies, c \in CloneOutcomes(layer) :
    Call([method |-> m, uri |-> u, headers |-> h, extensions |-> x,
          body |-> b], c)

\* What Location may say: nothing usable, or a reference that resolves to an
\* absolute URI.
Locations == {u \in Uris : u.scheme # "none"} \cup {NoUri}

PollReady ==
  \/ InnerError
  \/ \E s \in Statuses, loc \in Locations :
       \/ NotRedirect(s, loc)
       \/ NoBody(s, loc)
       \/ NoLocation(s, loc)
       \/ PolicyStops(s, loc)
       \/ \E c \in CloneOutcomes(layer) : Follow(s, loc, c)

Next == Calls \/ PollPending \/ InnerCompletes \/ PollReady \/ Drop \/ Over

\* The executor polls a woken task; the inner service's futures complete.
Fairness == WF_vars(PollPending \/ PollReady) /\ WF_vars(InnerCompletes)

Spec == Init /\ [][Next]_vars /\ Fairness

-----------------------------------------------------------------------------
TypeOK ==
  /\ layer \in Layers
  /\ phase \in {"idle", "sent", "done", "dropped"}
  /\ inner \in {"none", "unpolled", "waiting", "ready"}
  /\ woken \in BOOLEAN
  /\ method \in Methods
  /\ uri \in Uris \cup {NoUri}
  /\ headers \in SUBSET HeaderNames
  /\ extensions \in SUBSET Extensions
  /\ body \in BodyReprs
  /\ policy \in PolicyState(MaxLimit)
  /\ sent \in Seq(Requests)
  /\ result \in Results

\* RFC 6454 origin of a URI with a known scheme, independent of eq_origin.
Origin(u) == <<u.scheme, u.host, EffectivePort(u)>>

\* Requests 2..i all went to the origin of the original request.
AtHome(i) == \A j \in 2..i : Origin(sent[j].uri) = Origin(sent[1].uri)

(* "the Standard policy drops credential headers and all extensions        *)
(* cross-origin": a blocklisted header, or an extension that is not on the *)
(* allowlist, is in a request only if the chain never left the original    *)
(* origin, not even to come back to it later.                              *)
CredentialsStayHome ==
  (layer.policy = "standard" /\ layer.block_cross_origin) =>
    \A i \in DOMAIN sent :
      /\ /\ layer.remove_blocklisted \/ layer.remove_all
         /\ sent[i].headers \cap BLOCKLIST # {}
         => AtHome(i)
      /\ /\ layer.remove_all_extensions
         /\ ~ (sent[i].extensions \subseteq layer.allowed)
         => AtHome(i)

(* "filtering is cumulative, so a dropped value never reappears later in   *)
(* the chain", whatever made it disappear.                                 *)
FilteringIsCumulative ==
  \A i, j \in DOMAIN sent : i < j =>
    /\ sent[j].headers \subseteq sent[i].headers
    /\ sent[j].extensions \subseteq sent[i].extensions

(* Limited::new(n) sends at most n redirected requests.                    *)
WithinLimit == Len(sent) <= layer.limit + 1

(* A chain that turned into GET (or dropped its body) carries no data and  *)
(* no payload header: the method, body and header rewriting agree on every *)
(* path through mixed 301/302/303/307/308 chains.                          *)
PayloadAgrees ==
  \A i, j \in DOMAIN sent : i < j =>
    /\ sent[j].method # sent[i].method =>
         sent[j].method = "GET" /\ sent[j].body = "zero"
    /\ sent[i].body = "data" /\ sent[j].body = "zero" =>
         sent[j].headers \cap PayloadHeaders = {}
    /\ sent[j].body = "data" => sent[i].body = "data"

(* RequestUri is the URI of the request that the returned response answers.*)
RequestUriIsEffective ==
  result.kind = "ok" => result.uri = sent[Len(sent)].uri

(* The middleware hands back a redirection only when it could not be       *)
(* followed: no usable Location, a body that cannot be sent again, the     *)
(* limit, or a cross-origin target under SameOrigin, whose chains never    *)
(* leave the first origin; and the policy's own error only when the limit  *)
(* is used up.                                                             *)
OutcomeExplained ==
  LET last == sent[Len(sent)]
  IN
  /\ (result.kind = "ok" /\ result.status \in Redirects) =>
       \/ result.location = NoUri
       \/ last.uri.scheme = "none"
       \/ last.body = "data" /\ ~ DropsPayload(last.method, result.status)
       \/ layer.policy = "standard" /\ Len(sent) = layer.limit + 1
       \/ /\ layer.policy = "guarded"
          /\ \/ Origin(last.uri) # Origin(result.location)
             \/ last.uri.scheme = "other"
  /\ result.kind = "policy_err" =>
       layer.policy = "guarded" /\ Len(sent) = layer.limit + 1
  /\ layer.policy = "guarded" => AtHome(Len(sent))

(* FollowRedirect as a RedirectChain: what the last request carried, and   *)
(* what the layer is set up to keep at the first origin.                   *)
Carries(hs, xs) == ({"header"} \X hs) \cup ({"extension"} \X xs)

Secrets ==
  IF layer.policy = "standard" /\ layer.block_cross_origin
  THEN Carries(IF layer.remove_blocklisted \/ layer.remove_all THEN BLOCKLIST ELSE {},
               IF layer.remove_all_extensions THEN Extensions \ layer.allowed ELSE {})
  ELSE {}

Carried ==
  IF sent = <<>> THEN {}
  ELSE Carries(sent[Len(sent)].headers, sent[Len(sent)].extensions)

HopsLeft == IF sent = <<>> THEN layer.limit ELSE layer.limit + 1 - Len(sent)

Stage ==
  IF phase = "idle" THEN "idle" ELSE IF phase = "sent" THEN "open" ELSE "over"

Chain == INSTANCE RedirectChain WITH
           Items <- Carries(HeaderNames, Extensions),
           stage <- Stage, left <- HopsLeft, secret <- Secrets,
           carried <- Carried, home <- AtHome(Len(sent))

(* The response future, with its snapshots, its cloned policy and its      *)
(* filters, does no more than the chain it stands for: every poll is a hop *)
(* that spends the limit and sheds what it must, the end, or invisible.    *)
IsRedirectChain == Chain!Spec

(* Every call that is not dropped resolves: each followed redirection      *)
(* wakes the task, and the limit ends redirect loops.                      *)
Resolves == phase = "sent" ~> phase \in {"done", "dropped"}
=============================================================================
