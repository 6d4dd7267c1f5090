---------------------------- MODULE RequestGates ----------------------------
(***************************************************************************)
(* The middleware that may answer a request itself: ValidateRequestHeader  *)
(* with its validators (Accept, a required header value, Basic and Bearer  *)
(* credentials) and RequestBodyLimit; and the other wrappers of bodies.    *)
(***************************************************************************)
EXTENDS HeaderServices

NoResponse == [kind |-> "none", status |-> 0, headers |-> NoHeaders, id |-> Absent,
               body |-> <<>>]
Response(status, body) ==
  [NoResponse EXCEPT !.kind = "response", !.status = status, !.body = body]

(* The text of an Accept line stands for the media ranges in it; what does *)
(* not parse is in none.                                                   *)
MediaRanges(text) ==
  CASE text = "text/html, */*"          -> {<<"text", "html">>, <<"*", "*">>}
    [] text = "application/json"        -> {<<"application", "json">>}
    [] text = "text/html, application/*" -> {<<"text", "html">>, <<"application", "*">>}
    [] text = "*/json, text/html"       -> {<<"*", "json">>, <<"text", "html">>}
    [] OTHER                            -> {}

AcceptLayer(type, subtype) ==
  [kind |-> "validate", rule |-> "accept", type |-> type, subtype |-> subtype]
HasHeaderValueLayer(h, text) ==
  [kind |-> "validate", rule |-> "header", header |-> h, text |-> text]
BearerLayer(credentials) ==
  [kind |-> "validate", rule |-> "bearer", text |-> credentials]
BasicLayer(credentials) ==
  [kind |-> "validate", rule |-> "basic", text |-> credentials]

AcceptHeader(l, req) ==
  \/ req.headers["accept"] = <<>>
  \/ \E line \in ToSet(req.headers["accept"]) :
     \E range \in MediaRanges(line.text) :
       \/ range = <<l.type, l.subtype>>
       \/ range = <<l.type, "*">>
       \/ range = <<"*", "*">>

RequiredHeaderValue(l, req) == get(req.headers, l.header) = l.text

\* Mutant: any value of the header will do.
Bearer_AnyValue(l, req) ==
  \E value \in ToSet(req.headers["authorization"]) : value.text = l.text

Bearer(l, req) == get(req.headers, "authorization") = l.text
Basic(l, req)  == get(req.headers, "authorization") = l.text

validate(l, req) ==
  \/ l.rule = "accept" /\ AcceptHeader(l, req)
  \/ l.rule = "header" /\ RequiredHeaderValue(l, req)
  \/ l.rule = "bearer" /\ Bearer(l, req)
  \/ l.rule = "basic"  /\ Basic(l, req)

\* NOT_ACCEPTABLE, FORBIDDEN, UNAUTHORIZED; the body is the default.
RefusalStatus == [accept |-> 406, header |-> 403, bearer |-> 401, basic |-> 401]
Refusal(l) ==
  LET res == Response(RefusalStatus[l.rule], <<>>)
  IN IF l.rule # "basic" THEN res
     ELSE [res EXCEPT !.headers = insert(@, "www-authenticate", Plain("Basic"))]

-----------------------------------------------------------------------------
(* A request body is the sizes of its chunks and the wrappers around it,   *)
(* the first one applied first: http_body_util's Limited, and functions    *)
(* of map_request_body, of which one that doubles the bytes stands for     *)
(* all that change the length.                                             *)
RequestBodyLimitLayer(limit) == [kind |-> "limit", limit |-> limit]

\* Content-Length as a number, -1 if it is missing or does not parse.
AsNumber(text) ==
  CASE text = "0" -> 0 [] text = "1" -> 1 [] text = "2" -> 2 [] text = "3" -> 3
    [] OTHER -> -1
ContentLength(headers) == AsNumber(get(headers, "content-length"))

TooLarge(l, req) == ContentLength(req.headers) > l.limit

\* Mutant: a body may be longer than its Content-Length.
BodyLimit_LayerOnly(l, req) == l.limit

BodyLimit(l, req) ==
  LET len == ContentLength(req.headers)
  IN IF len = -1 \/ len > l.limit THEN l.limit ELSE len

RequestBodyLimit(l, req) ==
  [req EXCEPT !.wraps = Append(@, [wrap |-> "limited", limit |-> BodyLimit(l, req)])]

TextResponse(status, text) ==
  [Response(status, <<text>>) EXCEPT
     !.headers = insert(@, "content-type", Plain("text/plain"))]

create_error_response == TextResponse(413, "length limit exceeded")

MapRequestBodyLayer == [kind |-> "map_request_body"]
MapRequestBody(req) == [req EXCEPT !.wraps = Append(@, [wrap |-> "doubled", limit |-> 0])]

MapResponseBodyLayer == [kind |-> "map_response_body"]
MapResponseBody(res) == [res EXCEPT !.body = Append(@, "mapped")]

\* The size of `bytes` when they have come through the first k wrappers.
Through(wraps, k, bytes) ==
  LET size[n \in 0..Len(wraps)] ==
        IF n = 0 THEN bytes
        ELSE IF wraps[n].wrap = "doubled" THEN 2 * size[n - 1] ELSE size[n - 1]
  IN size[k]

(* One poll of the wrapped body: `before` bytes were read from it already, *)
(* the next chunk has `next`.  Limited fails once more than its limit has  *)
(* come through.                                                           *)
LengthLimitError(wraps, before, next) ==
  \E k \in DOMAIN wraps :
    /\ wraps[k].wrap = "limited"
    /\ Through(wraps, k - 1, before + next) > wraps[k].limit
=============================================================================
