-------------------------- MODULE MiddlewareStack ---------------------------
(***************************************************************************)
(* One exchange through a stack of the middleware that rewrites, refuses   *)
(* or rescues messages: each layer's call hands the request to the next    *)
(* layer or answers it, a handler reads the body and responds, fails or    *)
(* panics, and each layer's future hands the result back.  The messages    *)
(* between any two layers are kept: they are what a logging layer there    *)
(* would see.                                                              *)
(***************************************************************************)
EXTENDS RequestGates, NormalizePath, FiniteSets

CONSTANTS
  Exchanges,  \* what may meet: [layers, request, handler]
  Answers     \* the responses the handler may give

\* What each layer is made with.
LayerType ==
  [kind : {"set_request_id", "propagate_request_id", "propagate_header"}, header : Names]
    \cup [kind : {"set_request_header", "set_response_header"},
          insertions : Seq([mode : {"override", "append", "if_not_present"},
                            header : Names, text : STRING])]
    \cup [kind : {"sensitive_request", "sensitive_response"}, headers : SUBSET Names]
    \cup [kind : {"add_authorization"}, value : Values]
    \cup [kind : {"add_extension"}, value : STRING]
    \cup [kind : {"normalize_path"}, mode : {"trim", "append"}]
    \cup [kind : {"set_status"}, status : Nat]
    \cup [kind : {"catch_panic", "map_request_body", "map_response_body"}]
    \cup [kind : {"validate"}, rule : {"accept"}, type : STRING, subtype : STRING]
    \cup [kind : {"validate"}, rule : {"header"}, header : Names, text : Texts]
    \cup [kind : {"validate"}, rule : {"basic", "bearer"}, text : Texts]
    \cup [kind : {"limit"}, limit : Nat]

\* A request as the caller sends it, its body not wrapped yet, and a response.
RequestType ==
  [headers : HeaderMaps, id : STRING, extension : STRING, uri : Uris, chunks : Seq(Nat),
   wraps : {<<>>}]
ResponseType ==
  [kind : {"response"}, status : Nat, headers : HeaderMaps, id : STRING, body : Seq(STRING)]

ASSUME StackAssumption ==
  /\ \A x \in Exchanges : x.layers \in Seq(LayerType) /\ x.request \in RequestType
  /\ Answers \subseteq ResponseType

VARIABLES
  layers,     \* the stack, outermost first
  handler,    \* "app", or "redirect" for services::Redirect
  calls,      \* calls[i] is the request given to layer i; one more for the handler
  kept,       \* kept[i] is what the future of layer i keeps of the request
  results,    \* results[i] is what layer i gave back, and the last one the handler
  phase,      \* "call", "handle", "poll"
  at,         \* the layer to be polled next, 0 when the caller has the result
  taken,      \* chunks of the body that the handler was given
  fault       \* the handler's read failed

vars == <<layers, handler, calls, kept, results, phase, at, taken, fault>>

Bottom == Len(layers) + 1
NoResult == NoResponse
Error == [NoResponse EXCEPT !.kind = "error"]
Panic(where) == [NoResponse EXCEPT !.kind = "panic", !.body = <<where>>]

Init ==
  /\ \E x \in Exchanges :
       layers = x.layers /\ handler = x.handler /\ calls = <<x.request>>
  /\ kept = <<>>
  /\ results = [i \in 1..Bottom |-> NoResult]
  /\ phase = IF layers = <<>> THEN "handle" ELSE "call"
  /\ at = 0 /\ taken = 0 /\ fault = FALSE

-----------------------------------------------------------------------------
\* The layer whose call runs, and the request it has.
Layer == layers[Len(calls)]
Req   == calls[Len(calls)]

Calling(kind) == phase = "call" /\ Layer.kind = kind

\* The layer calls the inner service with req; its future keeps k.
Forward(req, k) ==
  /\ calls' = Append(calls, req)
  /\ kept' = Append(kept, k)
  /\ phase' = IF Len(calls) = Len(layers) THEN "handle" ELSE "call"
  /\ UNCHANGED <<layers, handler, results, at, taken, fault>>

\* The layer's future is made with an answer.
Answer(res) ==
  /\ results' = [results EXCEPT ![Len(calls)] = res]
  /\ at' = Len(calls) - 1
  /\ phase' = "poll"
  /\ UNCHANGED <<layers, handler, calls, kept, taken, fault>>

\* make_request_id: an id that no message has yet, or none.
FreshId == "uuid" \o ToString(Len(calls))

CallSetRequestId ==
  /\ Calling("set_request_id")
  /\ \E made \in {Absent, FreshId} :
       Forward(SetRequestId(Layer, Req, made), <<>>)

CallPropagateRequestId ==
  /\ Calling("propagate_request_id")
  /\ Forward(Req, PropagateRequestIdCall(Layer, Req))

CallPropagateHeader ==
  /\ Calling("propagate_header")
  /\ Forward(Req, PropagateHeaderCall(Layer, Req))

CallSetRequestHeader ==
  Calling("set_request_header") /\ Forward(SetRequestHeader(Layer, Req), <<>>)

CallSensitiveRequest ==
  Calling("sensitive_request") /\ Forward(SetSensitiveRequestHeaders(Layer, Req), <<>>)

CallAddAuthorization ==
  Calling("add_authorization") /\ Forward(AddAuthorization(Layer, Req), <<>>)

CallAddExtension ==
  Calling("add_extension") /\ Forward(AddExtension(Layer, Req), <<>>)

CallNormalizePath ==
  /\ Calling("normalize_path")
  /\ Forward([Req EXCEPT !.uri = Normalize(Layer.mode, @)], <<>>)

CallMapRequestBody ==
  Calling("map_request_body") /\ Forward(MapRequestBody(Req), <<>>)

\* The layers that only act on the response.
CallOther ==
  /\ \/ Calling("set_response_header") \/ Calling("sensitive_response")
     \/ Calling("catch_panic") \/ Calling("set_status")
     \/ Calling("map_response_body")
  /\ Forward(Req, <<>>)

CallValidate ==
  /\ Calling("validate")
  /\ \/ validate(Layer, Req) /\ Forward(Req, <<>>)
     \/ ~ validate(Layer, Req) /\ Answer(Refusal(Layer))

CallLimit ==
  /\ Calling("limit")
  /\ \/ ~ TooLarge(Layer, Req) /\ Forward(RequestBodyLimit(Layer, Req), <<>>)
     \/ TooLarge(Layer, Req) /\ Answer(create_error_response)

-----------------------------------------------------------------------------
Handling == phase = "handle" /\ handler = "app"

\* The bytes in the first n chunks.
Size(chunks, n) ==
  LET sum[i \in 0..Len(chunks)] == IF i = 0 THEN 0 ELSE sum[i - 1] + chunks[i]
  IN sum[n]
Given == Size(calls[1].chunks, taken)

\* The handler polls the body for a frame.
ReadBody ==
  /\ Handling /\ ~ fault /\ taken < Len(Req.chunks)
  /\ IF LengthLimitError(Req.wraps, Given, Req.chunks[taken + 1])
     THEN fault' = TRUE /\ UNCHANGED taken
     ELSE taken' = taken + 1 /\ UNCHANGED fault
  /\ UNCHANGED <<layers, handler, calls, kept, results, phase, at>>

Responds == Handling /\ \E res \in Answers : Answer(res)
Fails    == Handling /\ Answer(Error)
Panics   == Handling /\ \E where \in {"call", "poll"} : Answer(Panic(where))

\* services::Redirect
RedirectResponds ==
  /\ phase = "handle" /\ handler = "redirect"
  /\ Answer([Response(307, <<>>) EXCEPT !.headers = insert(@, "location", Plain("/there"))])

-----------------------------------------------------------------------------
Polling(kinds) == phase = "poll" /\ at > 0 /\ layers[at].kind \in kinds

Inner == results[at + 1]

Yield(res) ==
  /\ results' = [results EXCEPT ![at] = res]
  /\ at' = at - 1
  /\ UNCHANGED <<layers, handler, calls, kept, phase, taken, fault>>

\* Futures that change a response let errors (and panics) through.
OnResponse(kind, res) ==
  /\ Polling({kind})
  /\ Yield(IF Inner.kind = "response" THEN res ELSE Inner)

PollPropagateRequestId ==
  OnResponse("propagate_request_id", PropagateRequestIdPoll(layers[at], kept[at], Inner))
PollPropagateHeader ==
  OnResponse("propagate_header", PropagateHeaderPoll(layers[at], kept[at], Inner))
PollSetResponseHeader ==
  OnResponse("set_response_header", SetResponseHeader(layers[at], Inner))
PollSensitiveResponse ==
  OnResponse("sensitive_response", SetSensitiveResponseHeaders(layers[at], Inner))
PollMapResponseBody ==
  OnResponse("map_response_body", MapResponseBody(Inner))

SetStatusLayer(status) == [kind |-> "set_status", status |-> status]
SetStatus(l, res) == [res EXCEPT !.status = l.status]
PollSetStatus == OnResponse("set_status", SetStatus(layers[at], Inner))

\* CatchPanic: a panic of the inner call (Kind::Panicked) or of the inner
\* future (CatchUnwind) becomes a response; DefaultResponseForPanic.
CatchPanicLayer == [kind |-> "catch_panic"]
response_for_panic == TextResponse(500, "Service panicked")
Caught_InFuture(res) == res.kind = "panic" /\ res.body[1] = "poll"  \* Mutant
Caught(res) == res.kind = "panic" /\ res.body[1] \in {"call", "poll"}

PollCatchPanic ==
  /\ Polling({"catch_panic"})
  /\ Yield(IF Caught(Inner) THEN response_for_panic ELSE Inner)

\* The layers that only act on the request return the inner future.
PollOther ==
  /\ Polling({"set_request_id", "set_request_header", "sensitive_request",
              "add_authorization", "add_extension", "normalize_path",
              "map_request_body", "validate", "limit"})
  /\ Yield(Inner)

Over == phase = "poll" /\ at = 0 /\ UNCHANGED vars

Next ==
  \/ CallSetRequestId \/ CallPropagateRequestId \/ CallPropagateHeader
  \/ CallSetRequestHeader \/ CallSensitiveRequest \/ CallAddAuthorization
  \/ CallAddExtension \/ CallNormalizePath \/ CallMapRequestBody \/ CallOther
  \/ CallValidate \/ CallLimit
  \/ ReadBody \/ Responds \/ Fails \/ Panics \/ RedirectResponds
  \/ PollPropagateRequestId \/ PollPropagateHeader \/ PollSetResponseHeader
  \/ PollSensitiveResponse \/ PollMapResponseBody \/ PollSetStatus
  \/ PollCatchPanic \/ PollOther
  \/ Over

Spec == Init /\ [][Next]_vars

-----------------------------------------------------------------------------
(* Who may write a header of the request, or of the response, in order.    *)
(* The id of a SetRequestId layer is what it passed on.                    *)
RequestWrites(i) ==
  LET l == layers[i]
  IN CASE l.kind = "set_request_header" -> l.insertions
       [] l.kind = "add_authorization" ->
            <<Insertion("override", "authorization", l.value.text)>>
       [] l.kind = "set_request_id" ->
            <<Insertion("if_not_present", l.header,
                        IF i < Len(calls) THEN get(calls[i + 1].headers, l.header)
                                          ELSE Absent)>>
       [] OTHER -> <<>>

WritesRequest(i, h) == \E w \in ToSet(RequestWrites(i)) : w.header = h

WritesResponse(i, h) ==
  \/ /\ layers[i].kind = "set_response_header"
     /\ \E w \in ToSet(layers[i].insertions) : w.header = h
  \/ layers[i].kind \in {"propagate_header", "propagate_request_id"} /\ layers[i].header = h

Of(kind) == {i \in DOMAIN layers : layers[i].kind = kind}
Polled(i) == results[i].kind # "none"

(* A SetRequestId layer around a PropagateRequestId layer for the same     *)
(* header, when no other layer writes that header or sets ids: the         *)
(* caller's own id is kept, the handler sees the id in the header and in   *)
(* the extension, and whatever answers below the PropagateRequestId layer  *)
(* - the handler, a gate that refuses, a panic that was caught - the       *)
(* response carries the same id in both places, unless it brought an id of *)
(* its own, which is then kept.  An extension that the caller's request    *)
(* has does not outlive a new id.                                          *)
RequestIdIsCarried ==
  \A s \in Of("set_request_id"), p \in Of("propagate_request_id") :
    LET h     == layers[p].header
        id    == get(calls[p].headers, h)
        own   == get(results[p + 1].headers, h)
        alone == /\ \A j \in DOMAIN layers \ {s, p} :
                      /\ ~ WritesRequest(j, h) /\ ~ WritesResponse(j, h)
                      /\ layers[j].kind \notin {"set_request_id", "propagate_request_id"}
                 /\ calls[1].id = Absent \/ get(calls[1].headers, h) = Absent
    IN s < p /\ layers[s].header = h /\ alone /\ p < Len(calls) =>
         /\ get(calls[1].headers, h) # Absent => id = get(calls[1].headers, h)
         /\ /\ Len(calls) = Bottom /\ id # Absent
            => get(calls[Bottom].headers, h) = id /\ calls[Bottom].id = id
         /\ \A i \in 1..p : results[i].kind = "response" /\ results[p].kind = "response" =>
              /\ own = Absent /\ id # Absent =>
                   get(results[i].headers, h) = id /\ results[i].id = id
              /\ own # Absent =>
                   get(results[i].headers, h) = own /\ results[i].id # Absent

Hidden(headers, h) == \A i \in DOMAIN headers[h] : headers[h][i].sensitive

(* Every layer below SetSensitiveRequestHeaders sees the values of the     *)
(* listed headers marked, every layer above SetSensitiveResponseHeaders    *)
(* those of the response, until some layer writes a new value; and a       *)
(* marked request header that is propagated to the response is marked      *)
(* there too, for every layer above.                                       *)
SecretsStayMarked ==
  /\ \A s \in Of("sensitive_request") : \A h \in layers[s].headers :
     \A j \in (s + 1)..Len(calls) :
       (\A k \in (s + 1)..(j - 1) : ~ WritesRequest(k, h)) =>
         /\ Hidden(calls[j].headers, h)
         /\ \A i \in 1..j :
              /\ j \in Of("propagate_header") /\ layers[j].header = h
              /\ calls[j].headers[h] # <<>>
              /\ results[i].kind = "response" /\ results[j].kind = "response"
              /\ \A k \in i..(j - 1) : ~ WritesResponse(k, h)
              => Hidden(results[i].headers, h)
  /\ \A s \in Of("sensitive_response") : \A h \in layers[s].headers :
     \A i \in 1..s :
       /\ results[i].kind = "response" /\ results[s].kind = "response"
       /\ \A k \in i..(s - 1) : ~ WritesResponse(k, h)
       => Hidden(results[i].headers, h)

\* The first value of a header at layer i, from the caller's request and the
\* writes of the layers above: the last that overrides, or what the caller
\* sent, or the first of the others.
Writings(ws, h) == {n \in DOMAIN ws : ws[n].header = h /\ ws[n].text # Absent}
Overriding(ws, h) == {n \in Writings(ws, h) : ws[n].mode = "override"}

FirstValue(i, h) ==
  LET over   == {j \in 1..(i - 1) : Overriding(RequestWrites(j), h) # {}}
      others == {j \in 1..(i - 1) : Writings(RequestWrites(j), h) # {}}
      Text(j, n) == RequestWrites(j)[n].text
  IN IF over # {} THEN Text(Max(over), Max(Overriding(RequestWrites(Max(over)), h)))
     ELSE IF calls[1].headers[h] # <<>> THEN get(calls[1].headers, h)
     ELSE IF others # {} THEN Text(Min(others), Min(Writings(RequestWrites(Min(others)), h)))
     ELSE Absent

\* The values of a header at layer i: the caller's, unless a layer wrote it.
Lines(i, h) ==
  IF \E j \in 1..(i - 1) : WritesRequest(j, h) THEN calls[i].headers[h]
                                              ELSE calls[1].headers[h]

\* What a gate is for, in terms of what the caller sent.
Violates(i) ==
  LET l == layers[i]
  IN \/ l.kind = "limit" /\ AsNumber(FirstValue(i, "content-length")) > l.limit
     \/ /\ l.kind = "validate" /\ l.rule \in {"basic", "bearer"}
        /\ FirstValue(i, "authorization") # l.text
     \/ /\ l.kind = "validate" /\ l.rule = "header"
        /\ FirstValue(i, l.header) # l.text
     \/ /\ l.kind = "validate" /\ l.rule = "accept"
        /\ Lines(i, "accept") # <<>>
        /\ ~ \E line \in ToSet(Lines(i, "accept")) :
            \E range \in MediaRanges(line.text) :
              \/ range[2] \in {l.subtype, "*"} /\ range[1] = l.type
              \/ range = <<"*", "*">>

(* A request that satisfies every gate, as rewritten by the layers above   *)
(* it, reaches the handler; any other is answered by the outermost gate it *)
(* violates and no layer below is called.  Adding a second value to a      *)
(* header never opens or closes a gate that looks at the first.            *)
GatesDecide ==
  LET violated == {i \in DOMAIN layers : i <= Len(calls) /\ Violates(i)}
  IN /\ violated \subseteq {Len(calls)}
     /\ phase = "poll" /\ Len(calls) < Bottom =>
          /\ violated # {}
          /\ results[Len(calls)].status \in {401, 403, 406, 413}

(* A panic goes no further than the innermost CatchPanic around it, whether*)
(* the handler panicked in call or in its future; the caller gets a        *)
(* response with status 500 or the status that a SetStatus layer further   *)
(* out gives every response.  Errors are no panics and pass.               *)
PanicIsContained ==
  LET catchers == Of("catch_panic")
      outer    == {i \in Of("set_status") : catchers # {} /\ i < Max(catchers)}
  IN results[1].kind # "none" /\ Len(calls) = Bottom =>
       CASE results[Bottom].kind = "error" -> results[1] = Error
         [] results[Bottom].kind = "panic" /\ catchers = {} -> results[1].kind = "panic"
         [] results[Bottom].kind = "panic" /\ catchers # {} ->
              /\ results[1].kind = "response"
              /\ results[1].status = IF outer = {} THEN 500 ELSE layers[Min(outer)].status
         [] OTHER -> results[1].kind = "response"

\* The limits the body is read under: the layer's own and Content-Length.
Wraps(i) == Cardinality({j \in 1..i : layers[j].kind \in {"limit", "map_request_body"}})
Allowed(i) ==
  LET len == AsNumber(FirstValue(i, "content-length"))
  IN IF len = -1 THEN layers[i].limit ELSE Min({len, layers[i].limit})
Measured(i, bytes) == Through(calls[Len(calls)].wraps, Wraps(i) - 1, bytes)

(* The handler never gets more than a limit, or the Content-Length, allows *)
(* at the place of the limit in the stack; a read fails only if the body   *)
(* is really longer than that; and when Content-Length is true and no      *)
(* layer changes it or the length, a request that is not refused is read   *)
(* without an error.                                                       *)
BodyWithinLimit ==
  LET limits == Of("limit")
      total  == Size(calls[1].chunks, Len(calls[1].chunks))
  IN phase # "call" /\ Len(calls) = Bottom =>
       /\ \A i \in limits : Measured(i, Given) <= Allowed(i)
       /\ fault => \E i \in limits : Measured(i, total) > Allowed(i)
       /\ /\ ContentLength(calls[1].headers) = total
          /\ Of("map_request_body") = {}
          /\ \A i \in DOMAIN layers : ~ WritesRequest(i, "content-length")
          => ~ fault

\* The part of a path between its outer slashes.
Core(p) == trim_matches(p)

(* The path a NormalizePath layer passes on has one trailing slash, or none*)
(* and no doubled leading one, as its mode says; nothing between the outer *)
(* slashes nor the query changes, and normalizing again would change       *)
(* nothing.  Paths that differ only in outer slashes become one path when  *)
(* slashes are trimmed.                                                    *)
PathIsNormal ==
  \A i \in Of("normalize_path") :
    i < Len(calls) /\ calls[i].uri.form # "asterisk" =>
      LET mode == layers[i].mode
          from == calls[i].uri
          to   == calls[i + 1].uri
      IN /\ to.query = from.query /\ to.form = from.form
         /\ Core(to.path) = Core(from.path)
         /\ Normalize(mode, to) = to
         /\ from.form = "authority" => to = from
         /\ from.form # "authority" /\ mode = "trim" =>
              to.path = <<"/">> \o Core(from.path)
         /\ from.form # "authority" /\ mode = "append" =>
              ends_with_slash(to.path) /\ ~ ends_with_slashes(to.path)
=============================================================================
