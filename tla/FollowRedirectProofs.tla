------------------------ MODULE FollowRedirectProofs ------------------------
(* Proofs of the safety properties of FollowRedirect, for every set of     *)
(* URIs, methods, statuses, header sets and layer configurations.          *)
EXTENDS FollowRedirect, TLAPS

\* What the fields of a future in flight have to do with the last request.
InFlight ==
  /\ phase = "idle" => sent = <<>> /\ policy.remaining = layer.limit
  /\ phase # "idle" => sent # <<>>
  /\ phase \in {"idle", "sent"} => result.kind = "none"
  /\ phase = "sent" =>
       /\ uri = sent[Len(sent)].uri
       /\ headers = sent[Len(sent)].headers
       /\ extensions \subseteq sent[Len(sent)].extensions

\* Requests sent and budget left never exceed the limit together.
Budget == sent # <<>> => Len(sent) + policy.remaining <= layer.limit + 1

IInv ==
  /\ TypeOK
  /\ InFlight
  /\ Budget
  /\ CredentialsStayHome
  /\ FilteringIsCumulative
  /\ RequestUriIsEffective

-----------------------------------------------------------------------------
(* Limited spends one unit of its budget to follow, and nothing to stop.   *)
LEMMA LimitedOutcome ==
  ASSUME NEW L, NEW p \in PolicyState(MaxLimit), NEW a
  PROVE  /\ Limited(L, p, a).action \in {"Follow", "Stop"}
         /\ Limited(L, p, a).st \in PolicyState(MaxLimit)
         /\ Limited(L, p, a).st.remaining <= p.remaining
         /\ Limited(L, p, a).action = "Follow" =>
              Limited(L, p, a).st.remaining + 1 = p.remaining
<1>1. CASE p.remaining > 0
  <2>1. [p EXCEPT !.remaining = p.remaining - 1] \in PolicyState(MaxLimit)
    BY <1>1, MaxLimitAssumption DEF PolicyState
  <2>2. [p EXCEPT !.remaining = p.remaining - 1].remaining = p.remaining - 1
    BY DEF PolicyState
  <2>3. p.remaining \in Nat
    BY MaxLimitAssumption DEF PolicyState
  <2>4. QED BY <1>1, <2>1, <2>2, <2>3 DEF Limited
<1>2. CASE ~ (p.remaining > 0)
  <2>1. p.remaining <= p.remaining
    BY MaxLimitAssumption DEF PolicyState
  <2>2. QED BY <1>2, <2>1 DEF Limited
<1>3. QED BY <1>1, <1>2

(* FilterCredentials always follows, keeps the budget, and blocks every    *)
(* cross-origin hop when it is configured to.                              *)
LEMMA FilterCredentialsOutcome ==
  ASSUME NEW L, NEW p \in PolicyState(MaxLimit), NEW a
  PROVE  /\ FilterCredentials(L, p, a).action = "Follow"
         /\ FilterCredentials(L, p, a).st \in PolicyState(MaxLimit)
         /\ FilterCredentials(L, p, a).st.remaining = p.remaining
         /\ L.block_cross_origin /\ ~ eq_origin(a.previous, a.location)
              => FilterCredentials(L, p, a).st.blocked
<1> DEFINE blocks == \/ L.block_any
                     \/ L.block_cross_origin /\ ~ eq_origin(a.previous, a.location)
<1>1. blocks \in BOOLEAN
  OBVIOUS
<1>2. L.block_cross_origin /\ ~ eq_origin(a.previous, a.location) => blocks
  OBVIOUS
<1>3. FilterCredentials(L, p, a) =
        [action |-> "Follow", st |-> [p EXCEPT !.blocked = blocks]]
  BY DEF FilterCredentials
<1> HIDE DEF blocks
<1>4. QED BY <1>1, <1>2, <1>3 DEF PolicyState

(* The answer of either policy: it costs one unit of budget to follow, and *)
(* FilterCredentials blocks every cross-origin hop it is asked about.      *)
LEMMA RedirectOutcome ==
  ASSUME NEW L \in LayerType, NEW p \in PolicyState(MaxLimit), NEW a
  PROVE  /\ redirect(L, p, a).action \in Actions
         /\ redirect(L, p, a).st \in PolicyState(MaxLimit)
         /\ redirect(L, p, a).st.remaining <= p.remaining
         /\ redirect(L, p, a).action = "Follow" =>
              redirect(L, p, a).st.remaining + 1 = p.remaining
         /\ (/\ redirect(L, p, a).action = "Follow" /\ L.policy = "standard"
             /\ L.block_cross_origin /\ ~ eq_origin(a.previous, a.location))
            => redirect(L, p, a).st.blocked
<1> DEFINE m == Limited(L, p, a)
           f == FilterCredentials(L, m.st, a)
<1>1. /\ m.action \in {"Follow", "Stop"}
      /\ m.st \in PolicyState(MaxLimit)
      /\ m.st.remaining <= p.remaining
      /\ m.action = "Follow" => m.st.remaining + 1 = p.remaining
  BY LimitedOutcome
<1>2. /\ f.action = "Follow"
      /\ f.st \in PolicyState(MaxLimit)
      /\ f.st.remaining = m.st.remaining
      /\ L.block_cross_origin /\ ~ eq_origin(a.previous, a.location)
           => f.st.blocked
  BY <1>1, FilterCredentialsOutcome
<1>3. L.policy = "standard" => redirect(L, p, a) = IF m.action = "Follow"
        THEN [action |-> "Follow", st |-> f.st] ELSE m
  BY <1>2 DEF redirect, StandardClone, Standard, And, CloneBodyFn
<1>4. L.policy # "standard" =>
        redirect(L, p, a) =
          IF m.action = "Follow" THEN SameOrigin(L, m.st, a) ELSE AlwaysErr(L, m.st, a)
  BY <1>1 DEF redirect, Guarded, LimitedOrErr, And, Or, AlwaysErr
<1>5. /\ SameOrigin(L, m.st, a).action \in {"Follow", "Stop"}
      /\ SameOrigin(L, m.st, a).st = m.st
      /\ AlwaysErr(L, m.st, a) = [action |-> "Err", st |-> m.st]
  BY DEF SameOrigin, AlwaysErr
<1> HIDE DEF m, f
<1>6. CASE L.policy = "standard"
  BY <1>1, <1>2, <1>3, <1>6 DEF Actions
<1>7. CASE L.policy # "standard"
  BY <1>1, <1>4, <1>5, <1>7 DEF Actions
<1>8. QED BY <1>6, <1>7

(* on_request only removes, and removes every credential of a blocked hop. *)
LEMMA FilterOnlyRemoves ==
  ASSUME NEW L \in LayerType, NEW p \in PolicyState(MaxLimit),
         NEW h \in SUBSET HeaderNames, NEW x \in SUBSET Extensions
  PROVE  /\ FilterHeaders(L, p, h) \subseteq h
         /\ FilterExtensions(L, p, x) \subseteq x
         /\ (/\ p.blocked /\ L.policy = "standard"
             /\ L.remove_blocklisted \/ L.remove_all)
            => FilterHeaders(L, p, h) \cap BLOCKLIST = {}
         /\ (p.blocked /\ L.policy = "standard" /\ L.remove_all_extensions)
            => FilterExtensions(L, p, x) \subseteq L.allowed
BY DEF FilterHeaders, FilterExtensions, LayerType, PolicyState

\* Two URIs that eq_origin accepts have one RFC 6454 origin.
LEMMA SameOriginSameTuple ==
  ASSUME NEW u, NEW v, eq_origin(u, v)
  PROVE  Origin(u) = Origin(v)
BY DEF eq_origin, Origin

\* A service that was not called yet satisfies the invariant.
LEMMA InitEstablishes == Init => IInv
<1> SUFFICES ASSUME Init PROVE IInv
  OBVIOUS
<1>1. layer \in LayerType /\ layer.limit \in 0..MaxLimit /\ layer.limit \in Nat
  BY LayersAssumption, MaxLimitAssumption DEF Init, LayerType
<1>2. policy \in PolicyState(MaxLimit)
  BY <1>1 DEF Init, PolicyState
<1>3. result \in Results
  BY DEF Init, Results, NoResult
<1>4. TypeOK
  <2>1. sent \in Seq(Requests)
    BY DEF Init
  <2>2. method \in Methods /\ body \in BodyReprs /\ woken \in BOOLEAN
    BY MethodsAssumption DEF Init, BodyReprs
  <2>3. QED BY <1>2, <1>3, <2>1, <2>2 DEF Init, TypeOK
<1>5. InFlight /\ Budget
  BY <1>1 DEF Init, InFlight, Budget, NoResult
<1>6. CredentialsStayHome /\ FilteringIsCumulative /\ RequestUriIsEffective
  BY DEF Init, CredentialsStayHome, FilteringIsCumulative,
         RequestUriIsEffective, NoResult
<1>7. QED BY <1>4, <1>5, <1>6 DEF IInv

-----------------------------------------------------------------------------
\* A step that sends nothing keeps what is said about the requests sent.
LEMMA NothingSent ==
  ASSUME IInv, UNCHANGED <<layer, sent>>
  PROVE  CredentialsStayHome' /\ FilteringIsCumulative'
BY DEF IInv, CredentialsStayHome, FilteringIsCumulative, AtHome

\* The rewriting of a redirected request stays within the types.
LEMMA RewriteTypes ==
  ASSUME TypeOK, NEW s \in Statuses
  PROVE  /\ NewMethod(method, s) \in Methods
         /\ NewHeaders(headers, method, s) \subseteq headers
         /\ NewBody(body, method, s) \in BodyReprs
         /\ NewBody(body, method, s) # "None" =>
              Taken(NewBody(body, method, s)) \in Bodies
         /\ LeftAfter(NewBody(body, method, s)) \in BodyReprs
<1>1. NewMethod(method, s) \in Methods
  BY MethodsAssumption DEF TypeOK, NewMethod
<1>2. NewHeaders(headers, method, s) \subseteq headers
  BY DEF NewHeaders
<1>3. NewBody(body, method, s) \in BodyReprs
  BY DEF NewBody, BodyReprs, TypeOK
<1>4. QED BY <1>1, <1>2, <1>3 DEF Taken, LeftAfter, BodyReprs, Bodies

\* The steps that resolve the future send nothing and answer the last request.
LEMMA ResolvePreserves ==
  ASSUME IInv, PollsReady,
         NEW s \in Statuses, NEW loc \in Uris \cup {NoUri},
         NEW res \in {Error, PolicyError, Response(s, loc)}, Resolve(res),
         policy' \in PolicyState(MaxLimit),
         policy'.remaining <= policy.remaining,
         method' \in Methods, headers' \in SUBSET HeaderNames, body' \in BodyReprs
  PROVE  IInv'
<1>1. res \in Results /\ (res.kind = "ok" => res.uri = uri)
  BY DEF IInv, TypeOK, Error, PolicyError, NoResult, Response, Results
<1>2. TypeOK'
  BY <1>1 DEF IInv, TypeOK, Resolve
<1>3. InFlight'
  BY DEF IInv, InFlight, PollsReady, Resolve
<1>4. Budget'
  <2>1. /\ policy.remaining \in Nat /\ policy'.remaining \in Nat
        /\ layer.limit \in Nat /\ Len(sent) \in Nat
    BY LayersAssumption, MaxLimitAssumption
       DEF IInv, TypeOK, PolicyState, LayerType
  <2>2. QED BY <2>1 DEF IInv, Budget, Resolve
<1>5. CredentialsStayHome' /\ FilteringIsCumulative'
  BY NothingSent DEF Resolve
<1>6. RequestUriIsEffective'
  BY <1>1 DEF IInv, InFlight, RequestUriIsEffective, PollsReady, Resolve
<1>7. QED BY <1>2, <1>3, <1>4, <1>5, <1>6 DEF IInv

-----------------------------------------------------------------------------
\* FollowRedirect::call sends the original request, filtered by on_request.
LEMMA CallPreserves ==
  ASSUME IInv, NEW m \in Methods, NEW u \in Uris, NEW h \in HeaderSets,
         NEW x \in SUBSET Extensions, NEW b \in Bodies, NEW c \in BOOLEAN,
         Call([method |-> m, uri |-> u, headers |-> h, extensions |-> x,
               body |-> b], c)
  PROVE  IInv'
<1> DEFINE req == [method |-> m, uri |-> u, headers |-> h, extensions |-> x,
                   body |-> b]
           fh  == FilterHeaders(layer, policy, h)
           fx  == FilterExtensions(layer, policy, x)
           out == [method |-> m, uri |-> u, headers |-> fh, extensions |-> fx,
                   body |-> b]
<1>1. layer \in LayerType /\ h \in SUBSET HeaderNames
      /\ policy \in PolicyState(MaxLimit)
  BY LayersAssumption, HeadersAssumption DEF IInv, TypeOK
<1>2. fh \in SUBSET HeaderNames /\ fx \in SUBSET Extensions
  BY <1>1, FilterOnlyRemoves
<1>3. on_request(layer, policy, req) = out
  BY DEF on_request
<1>4. /\ phase = "idle" /\ phase' = "sent"
      /\ inner' = "unpolled" /\ woken' = TRUE
      /\ method' = m /\ uri' = u /\ headers' = fh
      /\ extensions' = IF layer.preserve_extensions THEN fx ELSE {}
      /\ body' = try_clone_from("None", b, c)
      /\ sent' = <<out>>
      /\ UNCHANGED <<layer, policy, result>>
  BY <1>3 DEF Call
<1> HIDE DEF fh, fx
<1>5. out \in Requests
  BY <1>2 DEF Requests
<1>6. sent' \in Seq(Requests) /\ Len(sent') = 1 /\ sent'[1] = out
  BY <1>4, <1>5
<1>7. TypeOK'
  <2>1. try_clone_from("None", b, c) \in BodyReprs
    BY DEF try_clone_from, clone_body, Bodies, BodyReprs
  <2>2. extensions' \in SUBSET Extensions
    BY <1>2, <1>4
  <2>3. QED BY <1>2, <1>4, <1>6, <2>1, <2>2 DEF IInv, TypeOK
<1>8. InFlight'
  BY <1>4, <1>6 DEF IInv, InFlight
<1>9. Budget'
  <2>1. layer.limit \in Nat /\ policy.remaining = layer.limit
    BY <1>1, <1>4, MaxLimitAssumption DEF IInv, InFlight, LayerType
  <2>2. QED BY <1>4, <1>6, <2>1 DEF Budget
<1>10. CredentialsStayHome'
  BY <1>4, <1>6 DEF CredentialsStayHome, AtHome
<1>11. FilteringIsCumulative'
  BY <1>4, <1>6 DEF FilteringIsCumulative
<1>12. RequestUriIsEffective'
  BY <1>4 DEF IInv, InFlight, RequestUriIsEffective
<1>13. QED BY <1>7, <1>8, <1>9, <1>10, <1>11, <1>12 DEF IInv

\* Action::Follow sends one more request, built from the carried-forward fields.
LEMMA FollowPreserves ==
  ASSUME IInv, NEW s \in Statuses, NEW loc \in Uris \cup {NoUri},
         NEW c \in BOOLEAN, Follow(s, loc, c)
  PROVE  IInv'
<1> DEFINE repr == NewBody(body, method, s)
           r    == redirect(layer, policy, Attempt(loc))
           kept == NewHeaders(headers, method, s)
           fh   == FilterHeaders(layer, r.st, kept)
           fx   == FilterExtensions(layer, r.st, extensions)
           req  == [method |-> NewMethod(method, s), uri |-> loc, headers |-> fh,
                    extensions |-> fx, body |-> Taken(repr)]
           n    == Len(sent)
<1>1. /\ phase = "sent"
      /\ repr # "None" /\ resolve_uri(loc, uri) # NoUri
      /\ r.action = "Follow"
      /\ policy' = r.st /\ method' = req.method /\ uri' = loc
      /\ headers' = fh /\ extensions' = fx
      /\ body' = try_clone_from(LeftAfter(repr), Taken(repr), c)
      /\ sent' = Append(sent, req)
      /\ inner' = "unpolled" /\ woken' = TRUE
      /\ UNCHANGED <<layer, phase, result>>
  BY DEF Follow, Attempting, PollsReady, CarriedForward, wake_by_ref, on_request
<1>2. /\ layer \in LayerType /\ policy \in PolicyState(MaxLimit)
      /\ headers \in SUBSET HeaderNames /\ extensions \in SUBSET Extensions
      /\ layer.limit \in Nat /\ policy.remaining \in Nat
  BY LayersAssumption, MaxLimitAssumption
     DEF IInv, TypeOK, LayerType, PolicyState
<1>3. /\ r.st \in PolicyState(MaxLimit)
      /\ r.st.remaining + 1 = policy.remaining
      /\ (/\ layer.policy = "standard" /\ layer.block_cross_origin
          /\ ~ eq_origin(uri, loc)) => r.st.blocked
  BY <1>1, <1>2, RedirectOutcome DEF Attempt
<1>4. /\ req.method \in Methods /\ kept \subseteq headers
      /\ Taken(repr) \in Bodies /\ LeftAfter(repr) \in BodyReprs
  BY <1>1, RewriteTypes DEF IInv
<1>5. /\ fh \subseteq kept /\ fx \subseteq extensions
      /\ (/\ r.st.blocked /\ layer.policy = "standard"
          /\ layer.remove_blocklisted \/ layer.remove_all)
         => fh \cap BLOCKLIST = {}
      /\ (r.st.blocked /\ layer.policy = "standard"
          /\ layer.remove_all_extensions) => fx \subseteq layer.allowed
  BY <1>2, <1>3, <1>4, FilterOnlyRemoves
<1>6. loc \in Uris
  <2>1. loc # NoUri
    BY <1>1 DEF resolve_uri
  <2>2. QED BY <2>1
<1> HIDE DEF repr, r, kept, fh, fx
<1>7. req \in Requests
  BY <1>2, <1>4, <1>5, <1>6 DEF Requests
<1>8. /\ sent \in Seq(Requests) /\ n \in Nat /\ n > 0
      /\ uri = sent[n].uri /\ headers = sent[n].headers
      /\ extensions \subseteq sent[n].extensions
  BY <1>1 DEF IInv, TypeOK, InFlight
<1>9. /\ sent' \in Seq(Requests) /\ Len(sent') = n + 1
      /\ sent'[n + 1] = req /\ \A i \in 1..n : sent'[i] = sent[i]
      /\ DOMAIN sent = 1..n /\ DOMAIN sent' = 1..(n + 1)
  BY <1>1, <1>7, <1>8
<1>10. TypeOK'
  <2>1. body' \in BodyReprs
    BY <1>1, <1>4 DEF try_clone_from, clone_body, Bodies, BodyReprs
  <2>2. QED BY <1>1, <1>2, <1>3, <1>4, <1>5, <1>6, <1>9, <2>1 DEF IInv, TypeOK
<1>11. InFlight'
  BY <1>1, <1>8, <1>9 DEF IInv, InFlight
<1>12. Budget'
  <2>1. r.st.remaining \in Nat
    BY <1>3, MaxLimitAssumption DEF PolicyState
  <2>2. n + policy.remaining <= layer.limit + 1
    BY <1>8 DEF IInv, Budget
  <2>3. QED BY <1>1, <1>2, <1>3, <1>8, <1>9, <2>1, <2>2 DEF Budget
<1>13. CredentialsStayHome'
  <2> DEFINE Home(i) == \A j \in 2..i : Origin(sent'[j].uri) = Origin(sent'[1].uri)
  <2> SUFFICES ASSUME layer.policy = "standard", layer.block_cross_origin
               PROVE  \A i \in 1..(n + 1) :
      /\ (/\ layer.remove_blocklisted \/ layer.remove_all
          /\ sent'[i].headers \cap BLOCKLIST # {})
         => Home(i)
      /\ (/\ layer.remove_all_extensions
          /\ ~ (sent'[i].extensions \subseteq layer.allowed))
         => Home(i)
    BY <1>1, <1>9 DEF CredentialsStayHome, AtHome
  <2>1. \A i \in 1..n : AtHome(i) => Home(i)
    BY <1>8, <1>9 DEF AtHome
  <2>2. AtHome(n) /\ eq_origin(uri, loc) => Home(n + 1)
    <3> SUFFICES ASSUME AtHome(n), eq_origin(uri, loc), NEW j \in 2..(n + 1)
                 PROVE  Origin(sent'[j].uri) = Origin(sent'[1].uri)
      OBVIOUS
    <3>1. Origin(sent[n].uri) = Origin(sent[1].uri)
      BY <1>8 DEF AtHome
    <3>2. Origin(req.uri) = Origin(sent[n].uri)
      BY <1>8, SameOriginSameTuple
    <3>3. CASE j = n + 1
      BY <1>8, <1>9, <3>1, <3>2, <3>3
    <3>4. CASE j \in 2..n
      BY <1>8, <1>9, <3>4 DEF AtHome
    <3>5. QED BY <1>8, <3>3, <3>4
  <2>3. \A i \in 1..n :
      /\ (/\ layer.remove_blocklisted \/ layer.remove_all
          /\ sent[i].headers \cap BLOCKLIST # {})
         => AtHome(i)
      /\ (/\ layer.remove_all_extensions
          /\ ~ (sent[i].extensions \subseteq layer.allowed))
         => AtHome(i)
    BY <1>9 DEF IInv, CredentialsStayHome
  <2>4. (/\ layer.remove_blocklisted \/ layer.remove_all
         /\ fh \cap BLOCKLIST # {}) => Home(n + 1)
    <3> SUFFICES ASSUME layer.remove_blocklisted \/ layer.remove_all,
                        fh \cap BLOCKLIST # {}
                 PROVE  AtHome(n) /\ eq_origin(uri, loc)
      BY <2>2
    <3>1. eq_origin(uri, loc)
      BY <1>3, <1>5
    <3>2. sent[n].headers \cap BLOCKLIST # {}
      BY <1>4, <1>5, <1>8
    <3>3. QED BY <1>8, <2>3, <3>1, <3>2
  <2>5. (/\ layer.remove_all_extensions /\ ~ (fx \subseteq layer.allowed))
        => Home(n + 1)
    <3> SUFFICES ASSUME layer.remove_all_extensions, ~ (fx \subseteq layer.allowed)
                 PROVE  AtHome(n) /\ eq_origin(uri, loc)
      BY <2>2
    <3>1. eq_origin(uri, loc)
      BY <1>3, <1>5
    <3>2. ~ (sent[n].extensions \subseteq layer.allowed)
      BY <1>5, <1>8
    <3>3. QED BY <1>8, <2>3, <3>1, <3>2
  <2> HIDE DEF Home
  <2>6. ASSUME NEW i \in 1..n
        PROVE  sent'[i] = sent[i] /\ (AtHome(i) => Home(i))
    BY <1>9, <2>1
  <2>7. QED BY <1>8, <1>9, <2>3, <2>4, <2>5, <2>6
<1>14. FilteringIsCumulative'
  <2> SUFFICES ASSUME NEW i \in 1..(n + 1), NEW j \in 1..(n + 1), i < j
               PROVE  /\ sent'[j].headers \subseteq sent'[i].headers
                      /\ sent'[j].extensions \subseteq sent'[i].extensions
    BY <1>9 DEF FilteringIsCumulative
  <2>1. \A k \in 1..n : /\ sent[n].headers \subseteq sent[k].headers
                        /\ sent[n].extensions \subseteq sent[k].extensions
    BY <1>8, <1>9 DEF IInv, FilteringIsCumulative
  <2>2. CASE j \in 1..n
    BY <1>8, <1>9, <2>2 DEF IInv, FilteringIsCumulative
  <2>3. CASE j = n + 1
    <3>1. i \in 1..n
      BY <1>8, <2>3
    <3>2. sent'[j].headers = fh /\ sent'[j].extensions = fx
      BY <1>9, <2>3
    <3>3. sent'[i] = sent[i]
      BY <1>9, <3>1
    <3>4. fh \subseteq sent[n].headers /\ fx \subseteq sent[n].extensions
      BY <1>4, <1>5, <1>8
    <3>5. QED BY <2>1, <3>1, <3>2, <3>3, <3>4
  <2>4. QED BY <1>8, <2>2, <2>3
<1>15. RequestUriIsEffective'
  BY <1>1 DEF IInv, InFlight, RequestUriIsEffective
<1>16. QED BY <1>10, <1>11, <1>12, <1>13, <1>14, <1>15 DEF IInv

-----------------------------------------------------------------------------
\* The inductive step, one case per action.
LEMMA NextPreserves == IInv /\ [Next]_vars => IInv'
<1> SUFFICES ASSUME IInv, [Next]_vars PROVE IInv'
  OBVIOUS
<1> USE DEF IInv
<1>1. CASE Calls
  <2>1. CloneOutcomes(layer) \subseteq BOOLEAN
    BY DEF CloneOutcomes
  <2>2. QED BY <1>1, <2>1, CallPreserves DEF Calls
<1>2. CASE PollPending \/ InnerCompletes \/ Drop
  <2>1. TypeOK'
    BY <1>2 DEF TypeOK, PollPending, InnerCompletes, Drop
  <2>2. InFlight' /\ Budget' /\ RequestUriIsEffective'
    BY <1>2 DEF InFlight, Budget, RequestUriIsEffective, PollPending,
                InnerCompletes, Drop
  <2>3. CredentialsStayHome' /\ FilteringIsCumulative'
    BY <1>2, NothingSent DEF PollPending, InnerCompletes, Drop
  <2>4. QED BY <2>1, <2>2, <2>3
<1>3. ASSUME NEW s \in Statuses, NEW loc \in Uris \cup {NoUri},
             NotRedirect(s, loc) \/ NoBody(s, loc) \/ NoLocation(s, loc)
      PROVE  IInv'
  <2>1. PollsReady /\ Resolve(Response(s, loc)) /\ UNCHANGED policy
    BY <1>3 DEF NotRedirect, NoBody, NoLocation
  <2>2. method' \in Methods /\ headers' \in SUBSET HeaderNames
        /\ body' \in BodyReprs
    <3>1. NewHeaders(headers, method, s) \in SUBSET HeaderNames
      BY RewriteTypes DEF TypeOK
    <3>2. QED BY <1>3, <3>1, RewriteTypes
          DEF TypeOK, NotRedirect, NoBody, NoLocation, Rewrite, BodyReprs
  <2>3. policy' \in PolicyState(MaxLimit) /\ policy'.remaining <= policy.remaining
    BY <2>1, MaxLimitAssumption DEF TypeOK, PolicyState
  <2>4. QED BY <2>1, <2>2, <2>3, ResolvePreserves
<1>4. ASSUME NEW s \in Statuses, NEW loc \in Uris \cup {NoUri},
             PolicyStops(s, loc)
      PROVE  IInv'
  <2> DEFINE r == redirect(layer, policy, Attempt(loc))
  <2>1. PollsReady /\ policy' = r.st
        /\ \E res \in {Error, PolicyError, Response(s, loc)} : Resolve(res)
    BY <1>4 DEF PolicyStops, Attempting
  <2>2. method' \in Methods /\ headers' \in SUBSET HeaderNames
        /\ body' \in BodyReprs
    <3>1. NewHeaders(headers, method, s) \in SUBSET HeaderNames
      BY RewriteTypes DEF TypeOK
    <3>2. QED BY <1>4, <3>1, RewriteTypes DEF TypeOK, PolicyStops, Rewrite
  <2>3. policy' \in PolicyState(MaxLimit) /\ policy'.remaining <= policy.remaining
    BY <2>1, RedirectOutcome, LayersAssumption DEF TypeOK
  <2>4. QED BY <2>1, <2>2, <2>3, ResolvePreserves
<1>5. CASE InnerError
  <2>1. TypeOK'
    BY <1>5 DEF InnerError, Resolve, TypeOK, Error, NoResult, Results
  <2>2. InFlight' /\ Budget' /\ RequestUriIsEffective'
    BY <1>5 DEF InnerError, PollsReady, Resolve, InFlight, Budget,
                RequestUriIsEffective, Error, NoResult
  <2>3. CredentialsStayHome' /\ FilteringIsCumulative'
    BY <1>5, NothingSent DEF InnerError, Resolve
  <2>4. QED BY <2>1, <2>2, <2>3
<1>6. ASSUME NEW s \in Statuses, NEW loc \in Uris \cup {NoUri},
             NEW c \in CloneOutcomes(layer), Follow(s, loc, c)
      PROVE  IInv'
  BY <1>6, FollowPreserves DEF CloneOutcomes
<1>7. CASE UNCHANGED vars
  <2>1. TypeOK' /\ InFlight' /\ Budget' /\ RequestUriIsEffective'
    BY <1>7 DEF vars, TypeOK, InFlight, Budget, RequestUriIsEffective
  <2>2. QED BY <1>7, <2>1, NothingSent DEF vars
<1>8. QED BY <1>1, <1>2, <1>3, <1>4, <1>5, <1>6, <1>7 DEF Next, PollReady, Locations, Over

\* The invariant holds along every behaviour of the response future.
LEMMA Invariance == Spec => []IInv
BY InitEstablishes, NextPreserves, PTL DEF Spec

(* Every field of the response future, the policy's budget included, stays *)
(* within its type: Limited's counter never underflows.                    *)
THEOREM TypeCorrect == Spec => []TypeOK
<1>1. IInv => TypeOK
  BY DEF IInv
<1>2. QED BY <1>1, Invariance, PTL

(* Whatever the redirects, Limited::new(n) never lets FollowRedirect send  *)
(* more than n requests after the first.                                   *)
THEOREM LimitHolds == Spec => []WithinLimit
<1>1. IInv => WithinLimit
  <2> SUFFICES ASSUME IInv PROVE WithinLimit
    OBVIOUS
  <2>1. /\ policy.remaining \in Nat /\ layer.limit \in Nat
        /\ sent \in Seq(Requests) /\ Len(sent) \in Nat
    BY LayersAssumption, MaxLimitAssumption
       DEF IInv, TypeOK, PolicyState, LayerType
  <2>2. CASE sent = <<>>
    BY <2>1, <2>2 DEF WithinLimit
  <2>3. CASE sent # <<>>
    BY <2>1, <2>3 DEF WithinLimit, IInv, Budget
  <2>4. QED BY <2>2, <2>3
<1>2. QED BY <1>1, Invariance, PTL

(* For every set of URIs and every filter configuration: a credential      *)
(* header or a non-allowlisted extension is never sent once the chain has  *)
(* left the original request's origin, even if it returns there.           *)
THEOREM CredentialsConfined == Spec => []CredentialsStayHome
<1>1. IInv => CredentialsStayHome
  BY DEF IInv
<1>2. QED BY <1>1, Invariance, PTL

(* Headers and extensions only ever shrink along a chain, because the      *)
(* future carries forward what the policy left of the previous request.    *)
THEOREM FilteringCumulative == Spec => []FilteringIsCumulative
<1>1. IInv => FilteringIsCumulative
  BY DEF IInv
<1>2. QED BY <1>1, Invariance, PTL

(* The RequestUri extension names the request the response answers.        *)
THEOREM RequestUriCorrect == Spec => []RequestUriIsEffective
<1>1. IInv => RequestUriIsEffective
  BY DEF IInv
<1>2. QED BY <1>1, Invariance, PTL

-----------------------------------------------------------------------------
\* A step that sends nothing shows in the chain only by its stage.
LEMMA NothingCarried ==
  ASSUME UNCHANGED <<layer, sent>>
  PROVE  /\ UNCHANGED <<HopsLeft, Secrets, Carried>>
         /\ AtHome(Len(sent))' = AtHome(Len(sent))
BY DEF HopsLeft, Secrets, Carried, AtHome

\* What requests and layers may carry are items of the chain.
LEMMA CarriesItems ==
  ASSUME NEW hs \in SUBSET HeaderNames, NEW xs \in SUBSET Extensions
  PROVE  Carries(hs, xs) \in SUBSET Carries(HeaderNames, Extensions)
BY DEF Carries

\* FollowRedirect::call starts the chain.
LEMMA CallStarts ==
  ASSUME IInv, IInv', NEW req, NEW c, Call(req, c)
  PROVE  Chain!Start
<1>1. /\ phase = "idle" /\ phase' = "sent" /\ UNCHANGED layer
      /\ sent' = <<on_request(layer, policy, req)>>
  BY DEF Call
<1>2. sent = <<>> /\ layer.limit \in Nat
  BY <1>1, LayersAssumption, MaxLimitAssumption DEF IInv, InFlight, TypeOK, LayerType
<1>3. Len(sent) = 0 /\ Len(sent') = 1 /\ sent' # <<>>
  BY <1>1, <1>2
<1>4. HopsLeft' = HopsLeft /\ Secrets' = Secrets
  BY <1>1, <1>2, <1>3 DEF HopsLeft, Secrets
<1>5. Carried' \in SUBSET Carries(HeaderNames, Extensions)
  <2>1. sent'[1] \in Requests
    BY <1>1 DEF IInv, TypeOK
  <2>2. sent'[1].headers \in SUBSET HeaderNames /\ sent'[1].extensions \in SUBSET Extensions
    BY <2>1 DEF Requests
  <2>3. QED BY <1>3, <2>2, CarriesItems DEF Carried
<1>6. AtHome(Len(sent)) = TRUE /\ AtHome(Len(sent))' = TRUE
  BY <1>3 DEF AtHome
<1>7. Stage = "idle" /\ Stage' = "open"
  BY <1>1 DEF Stage
<1>8. QED BY <1>4, <1>5, <1>6, <1>7 DEF Chain!Start

\* Action::Follow is a hop of the chain.
LEMMA FollowHops ==
  ASSUME IInv, IInv', NEW s, NEW loc, NEW c, Follow(s, loc, c)
  PROVE  Chain!Hop
<1> DEFINE n == Len(sent)
<1>1. /\ phase = "sent" /\ UNCHANGED <<layer, phase>>
      /\ \E req : sent' = Append(sent, req)
  BY DEF Follow, Attempting, PollsReady
<1>2. PICK req : sent' = Append(sent, req)
  BY <1>1
<1>3. /\ sent \in Seq(Requests) /\ sent' \in Seq(Requests) /\ sent # <<>>
      /\ n \in Nat /\ n > 0 /\ layer \in LayerType /\ layer.limit \in Nat
  BY <1>1, LayersAssumption, MaxLimitAssumption DEF IInv, InFlight, TypeOK, LayerType
<1>4. /\ Len(sent') = n + 1 /\ sent' # <<>>
      /\ \A i \in 1..n : sent'[i] = sent[i]
      /\ DOMAIN sent' = 1..(n + 1)
  BY <1>2, <1>3
<1> DEFINE last == sent'[n + 1]
<1>5. HopsLeft = layer.limit + 1 - n /\ HopsLeft' = layer.limit + 1 - (n + 1)
  BY <1>1, <1>3, <1>4 DEF HopsLeft
<1>6. HopsLeft > 0 /\ HopsLeft' = HopsLeft - 1
  <2>1. n + 1 + policy'.remaining <= layer.limit + 1 /\ policy'.remaining \in Nat
    BY <1>1, <1>4, MaxLimitAssumption DEF IInv, Budget, TypeOK, PolicyState
  <2>2. QED BY <1>3, <1>5, <2>1
<1>7. Secrets' = Secrets
  BY <1>1 DEF Secrets
<1>8. Carried = Carries(sent[n].headers, sent[n].extensions)
      /\ Carried' = Carries(last.headers, last.extensions)
  BY <1>3, <1>4 DEF Carried
<1>9. last.headers \subseteq sent[n].headers /\ last.extensions \subseteq sent[n].extensions
  BY <1>3, <1>4 DEF IInv, FilteringIsCumulative
<1>10. Carried' \in SUBSET Carried
  BY <1>8, <1>9 DEF Carries
<1>11. AtHome(Len(sent))' => AtHome(Len(sent))
  BY <1>3, <1>4 DEF AtHome
<1>12. ~ AtHome(Len(sent))' => Carried' \cap Secrets' = {}
  <2> SUFFICES ASSUME ~ AtHome(Len(sent))' PROVE Carried' \cap Secrets' = {}
    OBVIOUS
  <2> DEFINE hs == IF layer.remove_blocklisted \/ layer.remove_all THEN BLOCKLIST ELSE {}
             xs == IF layer.remove_all_extensions THEN Extensions \ layer.allowed ELSE {}
  <2>1. CASE layer.policy = "standard" /\ layer.block_cross_origin
    <3>1. /\ (layer.remove_blocklisted \/ layer.remove_all) => last.headers \cap BLOCKLIST = {}
          /\ layer.remove_all_extensions => last.extensions \subseteq layer.allowed
      <4>1. n + 1 \in DOMAIN sent'
        BY <1>3, <1>4
      <4>2. CredentialsStayHome'
        BY DEF IInv
      <4>3. ~ AtHome(n + 1)'
        BY <1>4 DEF AtHome
      <4>4. QED BY <1>1, <2>1, <4>1, <4>2, <4>3 DEF CredentialsStayHome, AtHome
    <3>2. last.headers \cap hs = {} /\ last.extensions \cap xs = {}
      BY <3>1
    <3>3. Secrets' = Carries(hs, xs)
      BY <1>7, <2>1 DEF Secrets
    <3> HIDE DEF hs, xs, last
    <3>4. QED BY <1>8, <3>2, <3>3 DEF Carries
  <2>2. CASE ~ (layer.policy = "standard" /\ layer.block_cross_origin)
    BY <1>7, <2>2 DEF Secrets
  <2>3. QED BY <2>1, <2>2
<1>13. Stage = "open" /\ Stage' = "open"
  BY <1>1 DEF Stage
<1>14. AtHome(Len(sent))' \in {AtHome(Len(sent)), FALSE}
  <2>1. AtHome(Len(sent)) \in BOOLEAN /\ AtHome(Len(sent))' \in BOOLEAN
    BY DEF AtHome
  <2>2. QED BY <1>11, <2>1
<1> HIDE DEF last
<1>15. QED BY <1>6, <1>7, <1>10, <1>12, <1>13, <1>14 DEF Chain!Hop

\* Every step of the future is a step of the chain or does not show.
LEMMA StepRefines == IInv /\ IInv' /\ [Next]_vars => [Chain!Next]_(Chain!vars)
<1> SUFFICES ASSUME IInv, IInv', [Next]_vars PROVE [Chain!Next]_(Chain!vars)
  OBVIOUS
<1>1. CASE UNCHANGED <<layer, phase, sent>>
  BY <1>1, NothingCarried DEF Chain!vars, Stage
<1>2. CASE phase = "sent" /\ phase' \in {"done", "dropped"} /\ UNCHANGED <<layer, sent>>
  <2>1. Stage = "open" /\ Stage' = "over"
    BY <1>2 DEF Stage
  <2>2. QED BY <1>2, <2>1, NothingCarried DEF Chain!Next, Chain!End
<1>3. CASE Calls
  BY <1>3, CallStarts DEF Calls, Chain!Next
<1>4. CASE \E s \in Statuses, loc \in Locations, c \in CloneOutcomes(layer) : Follow(s, loc, c)
  BY <1>4, FollowHops DEF Chain!Next
<1>5. CASE PollPending \/ InnerCompletes \/ Over \/ UNCHANGED vars
  BY <1>1, <1>5 DEF PollPending, InnerCompletes, Over, vars
<1>6. CASE Drop
  BY <1>2, <1>6 DEF Drop
<1>7. CASE InnerError
  BY <1>2, <1>7 DEF InnerError, PollsReady, Resolve
<1>8. CASE \E s \in Statuses, loc \in Locations :
             NotRedirect(s, loc) \/ NoBody(s, loc) \/ NoLocation(s, loc) \/ PolicyStops(s, loc)
  BY <1>2, <1>8 DEF NotRedirect, NoBody, NoLocation, PolicyStops, Attempting, PollsReady, Resolve
<1>9. QED BY <1>3, <1>4, <1>5, <1>6, <1>7, <1>8 DEF Next, PollReady

(* For every configuration, FollowRedirect implements RedirectChain: its   *)
(* polls are hops that spend the limit and shed what they must, the end of *)
(* the call, or steps that do not show.                                    *)
THEOREM ImplementsRedirectChain == Spec => IsRedirectChain
<1>1. Init => Chain!Init
  <2> SUFFICES ASSUME Init PROVE Chain!Init
    OBVIOUS
  <2>1. layer \in LayerType /\ layer.limit \in Nat /\ sent = <<>> /\ phase = "idle"
    BY LayersAssumption, MaxLimitAssumption DEF Init, LayerType
  <2>2. HopsLeft \in Nat /\ Carried = {} /\ Stage = "idle"
    BY <2>1 DEF HopsLeft, Carried, Stage
  <2>3. AtHome(Len(sent)) = TRUE
    BY <2>1 DEF AtHome
  <2>4. Secrets \in SUBSET Carries(HeaderNames, Extensions)
    BY DEF Secrets, Carries, HeaderNames
  <2>5. QED BY <2>2, <2>3, <2>4 DEF Chain!Init
<1>2. QED BY <1>1, StepRefines, Invariance, PTL DEF Spec, IsRedirectChain, Chain!Spec

-----------------------------------------------------------------------------
(* What becomes of the payload, and why a chain ended.  Both need to know  *)
(* what the future's fields remember of the last request: its method,      *)
(* whether its body had data (a body that is `None` had some: an empty one *)
(* is always cloned), and what is left of the budget, exactly.             *)
Remembered ==
  phase = "sent" =>
    /\ method = sent[Len(sent)].method
    /\ sent[Len(sent)].body = "data" <=> body \in {"data", "None"}
    /\ Len(sent) + policy.remaining = layer.limit + 1

JInv == Remembered /\ PayloadAgrees /\ OutcomeExplained

(* Why a policy does not follow: its budget is spent, or SameOrigin does   *)
(* not see one origin; the error is the guarded policy's, out of budget.   *)
LEMMA StopOutcome ==
  ASSUME NEW L \in LayerType, NEW p \in PolicyState(MaxLimit), NEW a
  PROVE  /\ redirect(L, p, a).action = "Stop" =>
              \/ L.policy = "standard" /\ p.remaining = 0
              \/ L.policy = "guarded" /\ ~ eq_origin(a.previous, a.location)
         /\ redirect(L, p, a).action = "Err" => L.policy = "guarded" /\ p.remaining = 0
         /\ redirect(L, p, a).action = "Follow" /\ L.policy = "guarded" =>
              eq_origin(a.previous, a.location)
<1> DEFINE m == Limited(L, p, a)
           f == FilterCredentials(L, m.st, a)
<1>1. p.remaining \in Nat /\ L.policy \in {"standard", "guarded"}
  BY MaxLimitAssumption DEF PolicyState, LayerType
<1>2. /\ m.action \in {"Follow", "Stop"} /\ m.st \in PolicyState(MaxLimit)
      /\ m.action = "Stop" => p.remaining = 0
  BY <1>1, LimitedOutcome DEF Limited
<1>3. f.action = "Follow"
  BY <1>2, FilterCredentialsOutcome
<1>4. L.policy = "standard" => redirect(L, p, a) = IF m.action = "Follow"
        THEN [action |-> "Follow", st |-> f.st] ELSE m
  BY <1>3 DEF redirect, StandardClone, Standard, And, CloneBodyFn
<1>5. L.policy # "standard" =>
        redirect(L, p, a) =
          IF m.action = "Follow" THEN SameOrigin(L, m.st, a) ELSE AlwaysErr(L, m.st, a)
  BY <1>2 DEF redirect, Guarded, LimitedOrErr, And, Or, AlwaysErr
<1>6. /\ SameOrigin(L, m.st, a).action =
           IF eq_origin(a.previous, a.location) THEN "Follow" ELSE "Stop"
      /\ AlwaysErr(L, m.st, a).action = "Err"
  BY DEF SameOrigin, AlwaysErr
<1> HIDE DEF m, f
<1>7. CASE L.policy = "standard"
  BY <1>2, <1>4, <1>7
<1>8. CASE L.policy = "guarded"
  BY <1>2, <1>5, <1>6, <1>8
<1>9. QED BY <1>1, <1>7, <1>8

\* Two absolute URIs of one web origin are the same to eq_origin.
LEMMA SameTupleSameOrigin ==
  ASSUME NEW u \in UriType, NEW v \in UriType, ~ eq_origin(u, v)
  PROVE  Origin(u) # Origin(v) \/ u.scheme \in {"other", "none"}
BY DEF eq_origin, Origin, UriType, Schemes

\* How a redirected request differs from the request before it.
LEMMA RewriteOutcome ==
  ASSUME TypeOK, NEW s, NewBody(body, method, s) # "None"
  PROVE  LET b == Taken(NewBody(body, method, s)) IN
         /\ NewMethod(method, s) # method => NewMethod(method, s) = "GET" /\ b = "zero"
         /\ method = "GET" => NewMethod(method, s) = "GET"
         /\ body \in {"data", "None"} /\ b = "zero" =>
              NewHeaders(headers, method, s) \cap PayloadHeaders = {}
         /\ b = "data" => body = "data"
         /\ b \in Bodies
<1>1. body \in {"data", "zero", "Empty", "None"}
  BY DEF TypeOK, BodyReprs, Bodies
<1>2. CASE DropsPayload(method, s)
  BY <1>1, <1>2 DEF NewMethod, NewBody, NewHeaders, Taken, Bodies
<1>3. CASE ~ DropsPayload(method, s)
  BY <1>1, <1>3 DEF NewMethod, NewBody, NewHeaders, Taken, Bodies
<1>4. QED BY <1>2, <1>3

\* The future keeps a body exactly if it could send the same one again.
LEMMA KeptBody ==
  ASSUME NEW repr \in BodyReprs, repr # "None", NEW c
  PROVE  Taken(repr) = "data" <=>
           try_clone_from(LeftAfter(repr), Taken(repr), c) \in {"data", "None"}
BY DEF BodyReprs, Bodies, Taken, LeftAfter, try_clone_from, clone_body

\* A step that sends nothing and decides nothing.
LEMMA NothingDecided ==
  ASSUME JInv, UNCHANGED <<layer, sent, result>>
  PROVE  PayloadAgrees' /\ OutcomeExplained'
BY DEF JInv, PayloadAgrees, OutcomeExplained, AtHome

\* The original request.
LEMMA CallExplained ==
  ASSUME IInv, JInv, NEW m \in Methods, NEW u \in Uris, NEW h \in HeaderSets,
         NEW x \in SUBSET Extensions, NEW b \in Bodies, NEW c \in BOOLEAN,
         Call([method |-> m, uri |-> u, headers |-> h, extensions |-> x,
               body |-> b], c)
  PROVE  JInv'
<1> DEFINE out == [method |-> m, uri |-> u, body |-> b,
                   headers |-> FilterHeaders(layer, policy, h),
                   extensions |-> FilterExtensions(layer, policy, x)]
<1>1. /\ phase = "idle" /\ method' = m /\ body' = try_clone_from("None", b, c)
      /\ sent' = <<out>> /\ UNCHANGED <<layer, policy, result>>
  BY DEF Call, on_request
<1>2. Len(sent') = 1 /\ sent'[1] = out /\ DOMAIN sent' = {1}
  BY <1>1
<1>3. out.method = m /\ out.body = b
  OBVIOUS
<1> HIDE DEF out
<1>4. b = "data" <=> try_clone_from("None", b, c) \in {"data", "None"}
  BY DEF try_clone_from, clone_body, Bodies
<1>5. layer.limit \in Nat /\ policy.remaining = layer.limit /\ result.kind = "none"
  BY <1>1, LayersAssumption, MaxLimitAssumption DEF IInv, InFlight, TypeOK, LayerType
<1>6. Remembered'
  BY <1>1, <1>2, <1>3, <1>4, <1>5 DEF Remembered
<1>7. PayloadAgrees'
  BY <1>2 DEF PayloadAgrees
<1>8. OutcomeExplained'
  BY <1>1, <1>2, <1>5 DEF OutcomeExplained, AtHome
<1>9. QED BY <1>6, <1>7, <1>8 DEF JInv

\* A redirected request.
LEMMA FollowExplained ==
  ASSUME IInv, JInv, NEW s \in Statuses, NEW loc \in Uris \cup {NoUri},
         NEW c \in BOOLEAN, Follow(s, loc, c)
  PROVE  JInv'
<1> DEFINE repr == NewBody(body, method, s)
           r    == redirect(layer, policy, Attempt(loc))
           kept == NewHeaders(headers, method, s)
           fh   == FilterHeaders(layer, r.st, kept)
           fx   == FilterExtensions(layer, r.st, extensions)
           req  == [method |-> NewMethod(method, s), uri |-> loc, headers |-> fh,
                    extensions |-> fx, body |-> Taken(repr)]
           n    == Len(sent)
<1>1. /\ phase = "sent" /\ repr # "None" /\ r.action = "Follow"
      /\ policy' = r.st /\ method' = req.method
      /\ body' = try_clone_from(LeftAfter(repr), Taken(repr), c)
      /\ sent' = Append(sent, req) /\ UNCHANGED <<layer, phase, result>>
  BY DEF Follow, Attempting, PollsReady, on_request
<1>2. /\ layer \in LayerType /\ policy \in PolicyState(MaxLimit)
      /\ headers \in SUBSET HeaderNames /\ extensions \in SUBSET Extensions
      /\ layer.limit \in Nat /\ policy.remaining \in Nat
  BY LayersAssumption, MaxLimitAssumption
     DEF IInv, TypeOK, LayerType, PolicyState
<1>3. /\ r.st \in PolicyState(MaxLimit) /\ r.st.remaining + 1 = policy.remaining
      /\ layer.policy = "guarded" => eq_origin(uri, loc)
  BY <1>1, <1>2, RedirectOutcome, StopOutcome DEF Attempt
<1>4. /\ NewMethod(method, s) # method => NewMethod(method, s) = "GET" /\ Taken(repr) = "zero"
      /\ method = "GET" => NewMethod(method, s) = "GET"
      /\ body \in {"data", "None"} /\ Taken(repr) = "zero" => kept \cap PayloadHeaders = {}
      /\ Taken(repr) = "data" => body = "data"
      /\ Taken(repr) \in Bodies /\ kept \subseteq headers /\ repr \in BodyReprs
  BY <1>1, RewriteOutcome, RewriteTypes DEF IInv
<1>5. fh \subseteq kept
  BY <1>2, <1>3, <1>4, FilterOnlyRemoves
<1>6. Taken(repr) = "data" <=> body' \in {"data", "None"}
  BY <1>1, <1>4, KeptBody
<1> HIDE DEF repr, r, kept, fh, fx
<1>7. /\ n \in Nat /\ n > 0 /\ uri = sent[n].uri /\ headers = sent[n].headers
      /\ DOMAIN sent = 1..n /\ sent \in Seq(Requests)
  BY <1>1 DEF IInv, TypeOK, InFlight
<1>8. /\ Len(sent') = n + 1 /\ sent'[n + 1] = req /\ DOMAIN sent' = 1..(n + 1)
      /\ \A i \in 1..n : sent'[i] = sent[i]
  BY <1>1, <1>7
<1>9. /\ req.method = NewMethod(method, s) /\ req.uri = loc /\ req.headers = fh
      /\ req.body = Taken(repr)
  OBVIOUS
<1> HIDE DEF req
<1>10. /\ method = sent[n].method /\ (sent[n].body = "data" <=> body \in {"data", "None"})
       /\ n + policy.remaining = layer.limit + 1 /\ sent[n].body \in Bodies
  <2>1. sent[n] \in Requests
    BY <1>7
  <2>2. sent[n].body \in Bodies
    BY <2>1 DEF Requests
  <2>3. QED BY <1>1, <2>2 DEF JInv, Remembered
<1>11. Remembered'
  <2>1. r.st.remaining \in Nat
    BY <1>3, MaxLimitAssumption DEF PolicyState
  <2>2. (n + 1) + policy'.remaining = layer.limit + 1
    <3>1. policy'.remaining = r.st.remaining
      BY <1>1
    <3>2. n + (r.st.remaining + 1) = layer.limit + 1
      BY <1>3, <1>10
    <3>3. n \in Nat /\ layer.limit \in Nat
      BY <1>2, <1>7
    <3> HIDE DEF n
    <3>4. QED BY <2>1, <3>1, <3>2, <3>3
  <2>3. QED BY <1>1, <1>6, <1>8, <1>9, <2>2 DEF Remembered
<1>12. PayloadAgrees'
  <2> SUFFICES ASSUME NEW i \in 1..(n + 1), NEW j \in 1..(n + 1), i < j
               PROVE  /\ sent'[j].method # sent'[i].method =>
                           sent'[j].method = "GET" /\ sent'[j].body = "zero"
                      /\ sent'[i].body = "data" /\ sent'[j].body = "zero" =>
                           sent'[j].headers \cap PayloadHeaders = {}
                      /\ sent'[j].body = "data" => sent'[i].body = "data"
    BY <1>8 DEF PayloadAgrees
  <2>1. i \in 1..n /\ sent'[i] = sent[i]
    BY <1>7, <1>8
  <2>2. CASE j \in 1..n
    BY <1>7, <1>8, <2>1, <2>2 DEF JInv, PayloadAgrees
  <2>3. CASE j = n + 1
    <3>1. sent'[j] = req
      BY <1>8, <2>3
    <3>2. \/ i = n
          \/ /\ sent[n].method # sent[i].method =>
                  sent[n].method = "GET" /\ sent[n].body = "zero"
             /\ sent[i].body = "data" /\ sent[n].body = "zero" =>
                  sent[n].headers \cap PayloadHeaders = {}
             /\ sent[n].body = "data" => sent[i].body = "data"
      <4>1. i = n \/ i < n
        <5>1. n \in Nat /\ i \in 1..n
          BY <1>7, <2>1
        <5> HIDE DEF n
        <5>2. QED BY <5>1
      <4>2. i < n => i \in DOMAIN sent /\ n \in DOMAIN sent
        BY <1>7, <2>1
      <4>3. PayloadAgrees
        BY DEF JInv
      <4>4. QED BY <4>1, <4>2, <4>3 DEF PayloadAgrees
    <3>3. req.method # sent[i].method => req.method = "GET" /\ req.body = "zero"
      BY <1>4, <1>9, <1>10, <3>2 DEF Bodies
    <3>4. sent[i].body = "data" /\ req.body = "zero" => req.headers \cap PayloadHeaders = {}
      <4>1. CASE sent[n].body = "data"
        BY <1>4, <1>5, <1>9, <1>10, <4>1
      <4>2. CASE sent[n].body = "zero"
        BY <1>4, <1>5, <1>7, <1>9, <3>2, <4>2
      <4>3. QED BY <1>10, <4>1, <4>2 DEF Bodies
    <3>5. req.body = "data" => sent[i].body = "data"
      BY <1>4, <1>9, <1>10, <3>2
    <3>6. QED BY <2>1, <3>1, <3>3, <3>4, <3>5
  <2>4. QED BY <1>7, <2>2, <2>3
<1>13. OutcomeExplained'
  <2>1. result'.kind = "none"
    BY <1>1 DEF IInv, InFlight
  <2>2. ASSUME layer.policy = "guarded", NEW j \in 2..(n + 1)
        PROVE  Origin(sent'[j].uri) = Origin(sent'[1].uri)
    <3>1. \A i \in 2..n : Origin(sent[i].uri) = Origin(sent[1].uri)
      BY <1>7, <2>2 DEF JInv, OutcomeExplained, AtHome
    <3>2. Origin(loc) = Origin(sent[n].uri)
      BY <1>3, <1>7, <2>2, SameOriginSameTuple
    <3>3. Origin(sent[n].uri) = Origin(sent[1].uri)
      BY <1>7, <3>1
    <3>4. CASE j = n + 1
      BY <1>7, <1>8, <1>9, <3>2, <3>3, <3>4
    <3>5. CASE j \in 2..n
      BY <1>7, <1>8, <3>1, <3>5
    <3>6. QED BY <1>7, <3>4, <3>5
  <2>3. layer'.policy = "guarded" => AtHome(Len(sent))'
    BY <1>1, <1>8, <2>2 DEF AtHome
  <2>4. QED BY <2>1, <2>3 DEF OutcomeExplained
<1>14. QED BY <1>11, <1>12, <1>13 DEF JInv

\* A response handed back: what it answers, and why it was not followed.
LEMMA ResolveExplained ==
  ASSUME IInv, JInv, NEW s \in Statuses, NEW loc \in Uris \cup {NoUri},
         NotRedirect(s, loc) \/ NoBody(s, loc) \/ NoLocation(s, loc) \/ PolicyStops(s, loc)
  PROVE  JInv'
<1> DEFINE r    == redirect(layer, policy, Attempt(loc))
           last == sent[Len(sent)]
<1>1. /\ phase = "sent" /\ phase' = "done" /\ UNCHANGED <<layer, sent>>
      /\ \/ result' = Response(s, loc)
         \/ result' = PolicyError /\ PolicyStops(s, loc) /\ r.action = "Err"
      /\ PolicyStops(s, loc) /\ result' = Response(s, loc) => r.action = "Stop"
  BY DEF NotRedirect, NoBody, NoLocation, PolicyStops, Attempting, PollsReady, Resolve,
         Response, PolicyError, NoResult
<1>2. /\ layer \in LayerType /\ policy \in PolicyState(MaxLimit) /\ sent \in Seq(Requests)
      /\ layer.limit \in Nat /\ policy.remaining \in Nat /\ Len(sent) \in Nat
  BY LayersAssumption, MaxLimitAssumption DEF IInv, TypeOK, LayerType, PolicyState
<1>3. /\ method = last.method /\ (last.body = "data" <=> body \in {"data", "None"})
      /\ Len(sent) + policy.remaining = layer.limit + 1 /\ uri = last.uri
  BY <1>1 DEF JInv, Remembered, IInv, InFlight
<1>4. policy.remaining = 0 => Len(sent) = layer.limit + 1
  BY <1>2, <1>3
<1>5. last.uri \in Uris
  <2>1. Len(sent) \in 1..Len(sent)
    BY <1>1, <1>2 DEF IInv, InFlight
  <2>2. last \in Requests
    BY <1>2, <2>1
  <2>3. QED BY <2>2 DEF Requests
<1>6. /\ r.action = "Stop" => \/ layer.policy = "standard" /\ policy.remaining = 0
                              \/ layer.policy = "guarded" /\ ~ eq_origin(uri, loc)
      /\ r.action = "Err" => layer.policy = "guarded" /\ policy.remaining = 0
  BY <1>2, StopOutcome DEF Attempt
<1>7. /\ Response(s, loc).kind = "ok" /\ Response(s, loc).status = s
      /\ Response(s, loc).location = loc /\ PolicyError.kind = "policy_err"
  BY DEF Response, PolicyError, NoResult
<1> HIDE DEF r, last
<1>8. CASE result' = PolicyError
  <2>1. r.action = "Err"
    BY <1>1, <1>7, <1>8
  <2>2. layer.policy = "guarded" /\ Len(sent) = layer.limit + 1
    BY <1>4, <1>6, <2>1
  <2>3. OutcomeExplained'
    BY <1>1, <1>7, <1>8, <2>2 DEF JInv, OutcomeExplained, AtHome
  <2>4. QED BY <1>1, <2>3 DEF JInv, Remembered, PayloadAgrees
<1>9. CASE result' = Response(s, loc)
  <2>1. ASSUME s \in Redirects
        PROVE  \/ loc = NoUri
               \/ last.uri.scheme = "none"
               \/ last.body = "data" /\ ~ DropsPayload(last.method, s)
               \/ layer.policy = "standard" /\ Len(sent) = layer.limit + 1
               \/ /\ layer.policy = "guarded"
                  /\ \/ Origin(last.uri) # Origin(loc)
                     \/ last.uri.scheme = "other"
    <3>1. CASE NotRedirect(s, loc)
      BY <2>1, <3>1 DEF NotRedirect
    <3>2. CASE NoBody(s, loc)
      BY <1>3, <3>2 DEF NoBody, NewBody
    <3>3. CASE NoLocation(s, loc)
      BY <1>3, <3>3 DEF NoLocation, resolve_uri
    <3>4. CASE PolicyStops(s, loc)
      <4>1. CASE layer.policy = "standard" /\ policy.remaining = 0
        BY <1>4, <4>1
      <4>2. CASE layer.policy = "guarded" /\ ~ eq_origin(uri, loc)
        <5>1. CASE loc = NoUri
          BY <5>1
        <5>2. CASE loc # NoUri
          <6>1. last.uri \in UriType /\ loc \in UriType
            BY <1>5, <5>2, UrisAssumption
          <6>2. QED BY <1>3, <4>2, <6>1, SameTupleSameOrigin
        <5>3. QED BY <5>1, <5>2
      <4>3. QED BY <1>1, <1>6, <1>9, <3>4, <4>1, <4>2
    <3>5. QED BY <3>1, <3>2, <3>3, <3>4
  <2>2. OutcomeExplained'
    <3>1. layer.policy = "guarded" => AtHome(Len(sent))
      BY DEF JInv, OutcomeExplained
    <3>2. (layer.policy = "guarded" => AtHome(Len(sent)))'
      BY <1>1, <3>1 DEF AtHome
    <3>3. last' = last
      BY <1>1 DEF last
    <3>4. result'.kind = "ok" /\ result'.status = s /\ result'.location = loc
      BY <1>7, <1>9
    <3>5. QED BY <1>1, <2>1, <3>2, <3>3, <3>4 DEF OutcomeExplained, last
  <2>3. QED BY <1>1, <2>2 DEF JInv, Remembered, PayloadAgrees
<1>10. QED BY <1>1, <1>8, <1>9

LEMMA JInvFirst == Init => JInv
BY DEF Init, JInv, Remembered, PayloadAgrees, OutcomeExplained, AtHome, NoResult

LEMMA JInvPreserved == IInv /\ JInv /\ [Next]_vars => JInv'
<1> SUFFICES ASSUME IInv, JInv, [Next]_vars PROVE JInv'
  OBVIOUS
<1>1. CASE Calls
  <2>1. CloneOutcomes(layer) \subseteq BOOLEAN
    BY DEF CloneOutcomes
  <2>2. QED BY <1>1, <2>1, CallExplained DEF Calls
<1>2. CASE PollPending \/ InnerCompletes \/ Drop
  <2>1. Remembered'
    BY <1>2 DEF JInv, Remembered, PollPending, InnerCompletes, Drop
  <2>2. UNCHANGED <<layer, sent, result>>
    BY <1>2 DEF PollPending, InnerCompletes, Drop
  <2>3. QED BY <2>1, <2>2, NothingDecided DEF JInv
<1>3. ASSUME NEW s \in Statuses, NEW loc \in Uris \cup {NoUri},
             NotRedirect(s, loc) \/ NoBody(s, loc) \/ NoLocation(s, loc) \/ PolicyStops(s, loc)
      PROVE  JInv'
  BY <1>3, ResolveExplained
<1>4. CASE InnerError
  <2>1. phase' = "done" /\ UNCHANGED <<layer, sent>> /\ result' = Error
    BY <1>4 DEF InnerError, Resolve
  <2>2. Error.kind = "err"
    BY DEF Error, NoResult
  <2>3. PayloadAgrees'
    BY <2>1 DEF JInv, PayloadAgrees
  <2>4. OutcomeExplained'
    BY <2>1, <2>2 DEF JInv, OutcomeExplained, AtHome
  <2>5. QED BY <2>1, <2>3, <2>4 DEF JInv, Remembered
<1>5. ASSUME NEW s \in Statuses, NEW loc \in Uris \cup {NoUri},
             NEW c \in CloneOutcomes(layer), Follow(s, loc, c)
      PROVE  JInv'
  BY <1>5, FollowExplained DEF CloneOutcomes
<1>6. CASE UNCHANGED vars
  <2>1. Remembered'
    BY <1>6 DEF vars, JInv, Remembered
  <2>2. QED BY <1>6, <2>1, NothingDecided DEF vars, JInv
<1>7. QED BY <1>1, <1>2, <1>3, <1>4, <1>5, <1>6 DEF Next, PollReady, Locations, Over

LEMMA JInvariance == Spec => []JInv
BY Invariance, JInvFirst, JInvPreserved, PTL DEF Spec

(* Along every chain of mixed 301, 302, 303, 307 and 308 redirections the  *)
(* method, the body and the payload headers change together.               *)
THEOREM PayloadConsistent == Spec => []PayloadAgrees
<1>1. JInv => PayloadAgrees
  BY DEF JInv
<1>2. QED BY <1>1, JInvariance, PTL

(* A redirection is handed back, and an error given, only for one of the   *)
(* reasons the policies have; and SameOrigin never leaves the first origin.*)
THEOREM OutcomeIsExplained == Spec => []OutcomeExplained
<1>1. JInv => OutcomeExplained
  BY DEF JInv
<1>2. QED BY <1>1, JInvariance, PTL
=============================================================================
