------------------------- MODULE MCMiddlewareStack --------------------------
(* Families of stacks, each with the requests that matter to it.           *)
EXTENDS MiddlewareStack

Id == "x-request-id"
Auth == "authorization"

Stacks(alphabet, n) == BoundedSeq(alphabet, n)

MCUri(form, path) == [form |-> form, path |-> path, query |-> "q"]
Request(headers) ==
  [headers |-> headers, id |-> Absent, extension |-> Absent,
   uri |-> MCUri("origin", <<"/">>), chunks |-> <<>>, wraps |-> <<>>]
With(h, texts) == [NoHeaders EXCEPT ![h] = [i \in DOMAIN texts |-> Plain(texts[i])]]

Exchange(stacks, requests, handlers) ==
  {[layers |-> s, request |-> r, handler |-> k] :
     s \in stacks, r \in requests, k \in handlers}

(* Ids: other layers that write the header, catch panics or refuse.        *)
IdLayers ==
  {SetRequestIdLayer(Id), PropagateRequestIdLayer(Id), CatchPanicLayer,
   BearerLayer("Bearer t"), PropagateHeaderLayer(Id),
   SetRequestHeaderLayer(Insertion("override", Id, "forced")),
   SetResponseHeaderLayer(Insertion("if_not_present", Id, "late"))}
IdRequests ==
  {Request(With(Id, texts)) : texts \in {<<>>, <<"mine">>, <<"mine", "other">>}}
    \cup {[Request(NoHeaders) EXCEPT !.id = "earlier"]}

(* Secrets: marks, copies and rewrites of one header.                      *)
SecretLayers ==
  {SetSensitiveRequestHeadersLayer({Auth}), SetSensitiveResponseHeadersLayer({Auth}),
   AddAuthorizationLayer("Bearer t", TRUE), AddAuthorizationLayer("Bearer u", FALSE),
   PropagateHeaderLayer(Auth), CatchPanicLayer,
   SetMultipleRequestHeadersLayer(<<Insertion("append", Auth, "more"),
                                    Insertion("if_not_present", Id, "set")>>),
   SetResponseHeaderLayer(Insertion("append", Auth, "more"))}
SecretRequests == {Request(With(Auth, texts)) : texts \in {<<>>, <<"Bearer t", "second">>}}

(* Gates and the layers that rewrite what they look at.                    *)
GateLayers ==
  {BearerLayer("Bearer t"), BasicLayer("Basic b"), HasHeaderValueLayer(Id, "set"),
   AcceptLayer("application", "json"), AddAuthorizationLayer("Bearer t", FALSE),
   SetRequestHeaderLayer(Insertion("append", Auth, "Basic b")),
   SetMultipleRequestHeadersLayer(<<Insertion("if_not_present", Auth, "Basic b"),
                                    Insertion("override", Id, Absent),
                                    Insertion("append", Id, "set")>>),
   RequestBodyLimitLayer(1), CatchPanicLayer, SetStatusLayer(202), SetStatusLayer(404)}
GateRequests ==
  {Request(With(Auth, texts)) : texts \in {<<>>, <<"Bearer t">>, <<"Basic b", "Bearer t">>}}
    \cup {Request(With("accept", texts)) : texts \in
            {<<"text/html, */*">>, <<"text/html", "application/json">>,
             <<"text/html, application/*">>, <<"*/json, text/html">>}}
    \cup {Request(With("content-length", <<"2">>))}

(* Limits around, between and inside layers that change the length, or     *)
(* the header that gives it.                                               *)
LimitLayers ==
  {RequestBodyLimitLayer(n) : n \in 0..3}
    \cup {MapRequestBodyLayer, MapResponseBodyLayer,
          SetRequestHeaderLayer(Insertion("override", "content-length", "1"))}
LimitRequests ==
  {[Request(With("content-length", texts)) EXCEPT !.chunks = chunks] :
     texts \in {<<>>, <<"0">>, <<"1">>, <<"2">>, <<"3">>, <<"x">>, <<"1", "3">>},
     chunks \in {<<>>, <<0>>, <<1>>, <<2>>, <<1, 1>>, <<2, 1>>, <<1, 2>>}}

(* Paths.                                                                  *)
Paths == {<<"/">> \o p : p \in BoundedSeq({"/", "a"}, 4)}
PathRequests ==
  {[Request(NoHeaders) EXCEPT !.uri = u] :
     u \in {MCUri(f, p) : f \in {"origin", "absolute"}, p \in Paths}
             \cup {MCUri("authority", <<>>), MCUri("asterisk", <<"*">>)}}

MCExchanges ==
  Exchange(Stacks(IdLayers, 3), IdRequests, {"app"})
    \cup Exchange(Stacks(SecretLayers, 3) \cup {SetSensitiveHeadersLayer({Auth, Id})},
                  SecretRequests, {"app"})
    \cup Exchange(Stacks(GateLayers, 3), GateRequests, {"app"})
    \cup Exchange(Stacks(LimitLayers, 2), LimitRequests, {"app"})
    \cup Exchange(Stacks({NormalizePathLayer("trim"), NormalizePathLayer("append")}, 2)
                    \cup {<<AddExtensionLayer("state"), SetResponseHeaderLayer(Insertion("override", "location", "/x"))>>},
                  PathRequests, {"redirect"})

\* A bare response, one with an id in the header or the extension, one with
\* credentials.
MCAnswers ==
  {Response(200, <<>>),
   [Response(200, <<>>) EXCEPT !.headers = With(Id, <<"own">>)],
   [Response(200, <<>>) EXCEPT !.id = "own"],
   [Response(200, <<>>) EXCEPT !.headers = With(Auth, <<"Bearer t">>)]}
=============================================================================
