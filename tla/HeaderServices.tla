--------------------------- MODULE HeaderServices ---------------------------
(***************************************************************************)
(* The middleware that rewrites headers and extensions of one message:     *)
(* set_header, request_id, propagate_header, sensitive_headers,            *)
(* add_authorization and add_extension.  Each is a layer (a record with    *)
(* its settings), what its call makes of the request, what its future      *)
(* keeps, and what the future makes of the response.                       *)
(***************************************************************************)
EXTENDS Integers, Sequences, SequencesExt

Names == {"x-request-id", "authorization", "accept", "content-length",
          "www-authenticate", "content-type", "location"}

(* A header value is its text and the flag that hides it from debug        *)
(* output; comparisons look at the text only.  A header map gives each     *)
(* name its values in order.                                               *)
Plain(text) == [text |-> text, sensitive |-> FALSE]
Absent == ""
Texts == STRING \ {Absent}
Values == [text : Texts, sensitive : BOOLEAN]
HeaderMaps == [Names -> Seq(Values)]
NoHeaders == [h \in Names |-> <<>>]

insert(headers, h, value) == [headers EXCEPT ![h] = <<value>>]
append(headers, h, value) == [headers EXCEPT ![h] = Append(@, value)]

\* HeaderMap::get: the first value, Absent if there is none.
get(headers, h) == IF headers[h] = <<>> THEN Absent ELSE headers[h][1].text

-----------------------------------------------------------------------------
(* set_header: an insertion is a name, a mode and the value that           *)
(* make_header_value returns, Absent for None.                             *)
Insertion(mode, h, text) == [mode |-> mode, header |-> h, text |-> text]

InsertHeaderMode(mode, headers, h, text) ==
  IF text = Absent \/ (mode = "if_not_present" /\ headers[h] # <<>>)
  THEN headers
  ELSE IF mode = "append" THEN append(headers, h, Plain(text))
                          ELSE insert(headers, h, Plain(text))

ApplyOne(headers, i) == InsertHeaderMode(i.mode, headers, i.header, i.text)

\* The insertions of one layer, in order.
ApplyAll(headers, insertions) ==
  LET after[n \in 0..Len(insertions)] ==
        IF n = 0 THEN headers ELSE ApplyOne(after[n - 1], insertions[n])
  IN after[Len(insertions)]

SetRequestHeaderLayer(i) == [kind |-> "set_request_header", insertions |-> <<i>>]
SetMultipleRequestHeadersLayer(is) == [kind |-> "set_request_header", insertions |-> is]
SetResponseHeaderLayer(i) == [kind |-> "set_response_header", insertions |-> <<i>>]
SetMultipleResponseHeadersLayer(is) == [kind |-> "set_response_header", insertions |-> is]

SetRequestHeader(l, req) == [req EXCEPT !.headers = ApplyAll(@, l.insertions)]
SetResponseHeader(l, res) == [res EXCEPT !.headers = ApplyAll(@, l.insertions)]

-----------------------------------------------------------------------------
(* request_id.  The extension RequestId of a message is its field id.      *)
SetRequestIdLayer(h) == [kind |-> "set_request_id", header |-> h]

\* `made` is what make_request_id returns, Absent for None.
SetRequestId(l, req, made) ==
  IF req.headers[l.header] # <<>>
  THEN IF req.id = Absent THEN [req EXCEPT !.id = get(req.headers, l.header)]
                          ELSE req
  ELSE IF made = Absent THEN req
  ELSE [req EXCEPT !.id = made, !.headers = insert(@, l.header, Plain(made))]

PropagateRequestIdLayer(h) == [kind |-> "propagate_request_id", header |-> h]

\* The value is cloned, with its flag.
PropagateRequestIdCall(l, req) ==
  IF req.headers[l.header] = <<>> THEN <<>> ELSE <<req.headers[l.header][1]>>

\* Mutant: the request's id replaces the one the handler set.
PropagateRequestIdPoll_Replaces(l, kept, res) ==
  IF kept = <<>> THEN res
  ELSE [res EXCEPT !.id = kept[1].text, !.headers = insert(@, l.header, kept[1])]

PropagateRequestIdPoll(l, kept, res) ==
  IF res.headers[l.header] # <<>>
  THEN IF res.id = Absent THEN [res EXCEPT !.id = get(res.headers, l.header)]
                          ELSE res
  ELSE IF kept = <<>> THEN res
  ELSE [res EXCEPT !.id = kept[1].text, !.headers = insert(@, l.header, kept[1])]

-----------------------------------------------------------------------------
PropagateHeaderLayer(h) == [kind |-> "propagate_header", header |-> h]

PropagateHeaderCall(l, req) ==
  IF req.headers[l.header] = <<>> THEN <<>> ELSE <<req.headers[l.header][1]>>

PropagateHeaderPoll(l, kept, res) ==
  IF kept = <<>> THEN res ELSE [res EXCEPT !.headers = insert(@, l.header, kept[1])]

-----------------------------------------------------------------------------
(* sensitive_headers.  SetSensitiveHeadersLayer is the request layer       *)
(* around the response layer.                                              *)
SetSensitiveRequestHeadersLayer(hs) ==
  [kind |-> "sensitive_request", headers |-> hs]
SetSensitiveResponseHeadersLayer(hs) ==
  [kind |-> "sensitive_response", headers |-> hs]
SetSensitiveHeadersLayer(hs) ==
  <<SetSensitiveRequestHeadersLayer(hs), SetSensitiveResponseHeadersLayer(hs)>>

\* Mutant: headers.get_mut, which finds the first value only.
Marked_First(headers, hs) ==
  [h \in Names |->
     IF h \notin hs \/ headers[h] = <<>> THEN headers[h]
     ELSE [headers[h] EXCEPT ![1].sensitive = TRUE]]

Marked(headers, hs) ==
  [h \in Names |->
     IF h \notin hs THEN headers[h]
     ELSE [i \in DOMAIN headers[h] |-> [headers[h][i] EXCEPT !.sensitive = TRUE]]]

SetSensitiveRequestHeaders(l, req) == [req EXCEPT !.headers = Marked(@, l.headers)]
SetSensitiveResponseHeaders(l, res) == [res EXCEPT !.headers = Marked(@, l.headers)]

-----------------------------------------------------------------------------
(* add_authorization, for basic and bearer credentials, and as_sensitive.  *)
AddAuthorizationLayer(credentials, sensitive) ==
  [kind |-> "add_authorization",
   value |-> [text |-> credentials, sensitive |-> sensitive]]

AddAuthorization(l, req) ==
  [req EXCEPT !.headers = insert(@, "authorization", l.value)]

(* add_extension: one value for each type, the last one inserted.          *)
AddExtensionLayer(value) == [kind |-> "add_extension", value |-> value]
AddExtension(l, req) == [req EXCEPT !.extension = l.value]
=============================================================================
