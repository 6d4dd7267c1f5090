--------------------------- MODULE RedirectPolicy ---------------------------
(***************************************************************************)
(* The redirection policies of follow_redirect/policy/: Limited,           *)
(* SameOrigin, FilterCredentials, an always-failing policy, and the And/Or *)
(* combinators.  A policy is stateful: `redirect` takes &mut self and      *)
(* decides about one attempt, `on_request` filters the request that is     *)
(* about to be sent.  Both are operators here, from the policy's state and *)
(* an attempt to an outcome and the state the call leaves behind.          *)
(***************************************************************************)
EXTENDS Naturals

\* Values of the header names the code looks at, and one it does not.
BLOCKLIST == {"authorization", "cookie", "proxy-authorization"}
PayloadHeaders ==
  {"content-type", "content-length", "content-encoding", "transfer-encoding"}
HeaderNames == BLOCKLIST \cup PayloadHeaders \cup {"accept"}

\* Uri::port_u16() is None: a value outside u16.
NoPort == 65536
Schemes == {"http", "https", "other", "none"}

\* Scheme-dependent default of the port comparison in eq_origin.
EffectivePort(u) ==
  IF u.port # NoPort THEN u.port
  ELSE IF u.scheme = "http" THEN 80 ELSE 443

\* Mutant: the ports are not compared.
eq_origin_AnyPort(lhs, rhs) ==
  /\ lhs.scheme = rhs.scheme
  /\ lhs.scheme \in {"http", "https"}
  /\ lhs.host = rhs.host

\* Same scheme (http or https only), same host, same effective port.
eq_origin(lhs, rhs) ==
  /\ lhs.scheme = rhs.scheme
  /\ lhs.scheme \in {"http", "https"}
  /\ lhs.host = rhs.host
  /\ EffectivePort(lhs) = EffectivePort(rhs)

-----------------------------------------------------------------------------
(* The state of a policy value, and of one layer's configuration of it:    *)
(*   policy  "standard": And<And<Limited, FilterCredentials>, CloneBodyFn> *)
(*           "guarded" : And<Or<Limited, Err>, SameOrigin>                 *)
(*   limit   Limited::new(limit)                                           *)
(*   clones  the caller installed a clone_body_fn that may clone a body    *)
(*   the remaining fields are FilterCredentials' settings.                 *)
PolicyState(maxLimit) == [remaining : 0..maxLimit, blocked : BOOLEAN]

Actions == {"Follow", "Stop", "Err"}

\* Mutant: the budget is checked but never spent.
Limited_Unspent(L, p, a) ==
  [action |-> IF p.remaining > 0 THEN "Follow" ELSE "Stop", st |-> p]

\* Mutant: one redirection too many.
Limited_OffByOne(L, p, a) ==
  IF p.remaining + 1 > 0
  THEN [action |-> "Follow", st |-> [p EXCEPT !.remaining = p.remaining - 1]]
  ELSE [action |-> "Stop", st |-> p]

Limited(L, p, a) ==
  IF p.remaining > 0
  THEN [action |-> "Follow", st |-> [p EXCEPT !.remaining = p.remaining - 1]]
  ELSE [action |-> "Stop", st |-> p]

\* Mutant: hosts are compared, not origins.
SameOrigin_Host(L, p, a) ==
  [action |-> IF a.previous.host = a.location.host THEN "Follow" ELSE "Stop",
   st |-> p]

SameOrigin(L, p, a) ==
  [action |-> IF eq_origin(a.previous, a.location) THEN "Follow" ELSE "Stop",
   st |-> p]

FilterCredentials(L, p, a) ==
  [action |-> "Follow",
   st |-> [p EXCEPT !.blocked =
             \/ L.block_any
             \/ L.block_cross_origin /\ ~ eq_origin(a.previous, a.location)]]

\* redirect_fn(|_| Err(..)), and Result<Action, E> used as a policy.
AlwaysErr(L, p, a) == [action |-> "Err", st |-> p]

\* CloneBodyFn::redirect: follows, and leaves the other policies' state alone.
CloneBodyFn(L, p, a) == [action |-> "Follow", st |-> p]

(* The combinators, from the first policy's outcome and the outcome of the *)
(* second one asked in the state the first one left.  The second is not    *)
(* asked (its state does not change) when the first one decides.           *)
And(first, second) == IF first.action = "Follow" THEN second ELSE first
Or(first, second) ==
  IF first.action \in {"Stop", "Err"} THEN second ELSE first

\* And<And<Limited, FilterCredentials>, CloneBodyFn>
Standard(L, p, a) ==
  LET r == Limited(L, p, a)
  IN  And(r, FilterCredentials(L, r.st, a))
StandardClone(L, p, a) ==
  LET r == Standard(L, p, a)
  IN  And(r, CloneBodyFn(L, r.st, a))

\* And<Or<Limited, Err>, SameOrigin>
LimitedOrErr(L, p, a) ==
  LET r == Limited(L, p, a)
  IN  Or(r, AlwaysErr(L, r.st, a))
Guarded(L, p, a) ==
  LET r == LimitedOrErr(L, p, a)
  IN  And(r, SameOrigin(L, r.st, a))

redirect(L, p, a) ==
  IF L.policy = "standard" THEN StandardClone(L, p, a) ELSE Guarded(L, p, a)

-----------------------------------------------------------------------------
(* FilterCredentials::on_request; the other policies use the trait's       *)
(* default, which does nothing.  And/Or call on_request of both sides.     *)
FilterHeaders(L, p, headers) ==
  IF L.policy # "standard" \/ ~ p.blocked THEN headers
  ELSE IF L.remove_all THEN {}
  ELSE IF L.remove_blocklisted THEN headers \ BLOCKLIST
  ELSE headers

FilterExtensions(L, p, extensions) ==
  IF L.policy = "standard" /\ p.blocked /\ L.remove_all_extensions
  THEN extensions \cap L.allowed
  ELSE extensions

\* The request as it is sent: method, URI and body are left alone.
on_request(L, p, req) ==
  [method |-> req.method, uri |-> req.uri, body |-> req.body,
   headers |-> FilterHeaders(L, p, req.headers),
   extensions |-> FilterExtensions(L, p, req.extensions)]

(* Policy::clone_body: None for every policy but CloneBodyFn, whose        *)
(* caller-supplied function may or may not clone.                          *)
CloneOutcomes(L) == IF L.policy = "standard" /\ L.clones THEN BOOLEAN ELSE {FALSE}
=============================================================================
