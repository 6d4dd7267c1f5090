-------------------------- MODULE CompressionStack --------------------------
(***************************************************************************)
(* One request through Decompression (the client), Compression and         *)
(* RequestDecompression (the server) and a handler, and its response back. *)
(* A body is the sequence of codings that were applied to it, the last one *)
(* outermost; decoding a body with the wrong coding makes it fail when it  *)
(* is read (see ForeignBody).                                              *)
(***************************************************************************)
EXTENDS Negotiation

CONSTANTS Loads,     \* what may be asked of the three middleware, by name
          Codings,   \* codings that clients and handlers use
          MinSize    \* SizeAbove's bound

Absent == <<>>

(* A message body: the codings applied to it, and whether all decoding of  *)
(* it so far was done with the right one.                                  *)
Coded(codings) == [codings |-> codings, intact |-> TRUE]

(* What lines of Content-Encoding say; identity is no coding at all.       *)
Applied(lines) ==
  LET coded[n \in 0..Len(lines)] ==
        IF n = 0 THEN <<>>
        ELSE IF lines[n] = "identity" THEN coded[n - 1]
        ELSE Append(coded[n - 1], lines[n])
  IN coded[Len(lines)]
Honest(message) == message.body.codings = Applied(message.content_encoding)

ContentTypes == {"text", "grpc", "grpc-web", "image", "svg", "sse"}

(* A load: the encodings that Decompression may be set to (clients), and   *)
(* Compression and RequestDecompression (servers), whether unaccepted      *)
(* codings are passed through, the requests and the responses.  A response *)
(* has a size, which a size_hint (hint) or a Content-Length header         *)
(* (length) may give away.  Somebody who applies codings says so, in as    *)
(* many Content-Encoding lines as it likes.                                *)
ASSUME StackAssumption ==
  /\ "" \notin Codings    \* "" stands for no header, see FirstLine
  /\ MinSize \in Nat \ {0}
  /\ \A n \in DOMAIN Loads : LET l == Loads[n] IN
       /\ l.clients \cup l.servers \subseteq AcceptEncoding
       /\ l.pass_through \subseteq BOOLEAN
       /\ l.requests \subseteq
            [accept : Seq(Element), content_encoding : Seq(Codings),
             length : BOOLEAN, body : [codings : Seq(Codings), intact : {TRUE}]]
       /\ l.responses \subseteq
            [status : {"ok"}, content_encoding : Seq(Codings), content_range : BOOLEAN,
             accept_ranges : BOOLEAN, vary : BOOLEAN, type : ContentTypes, size : Nat,
             hint : BOOLEAN, length : BOOLEAN,
             body : [codings : Seq(Codings), intact : {TRUE}], accept : {Absent}]
       /\ \A message \in l.requests \cup l.responses : Honest(message)

VARIABLES at,        \* where the request or the response is
          config,    \* the load, and the settings of the three middleware
          asked,     \* the request as the client made it
          req,       \* the request
          encoding,  \* ResponseFuture::encoding of Compression
          made,      \* the response as the handler made it
          res        \* the response
vars == <<at, config, asked, req, encoding, made, res>>

(* AcceptEncoding::to_header_value: a fixed order, no weights; Absent for  *)
(* None.                                                                   *)
ToHeaderValue(accept) ==
  LET Offer(e) == IF e \in accept THEN <<[coding |-> e, q |-> NoQ]>> ELSE <<>>
  IN Offer("zstd") \o Offer("gzip") \o Offer("deflate") \o Offer("br")

(* What the builders of the three services can set.  The two services of   *)
(* the server are given the same encodings.                                *)
DecompressionConfig(load)        == Loads[load].clients
CompressionConfig(load)          == Loads[load].servers
RequestDecompressionConfig(load) == Loads[load].pass_through

Init ==
  /\ at = "client"
  /\ \E load \in DOMAIN Loads :
       /\ config \in [load : {load}, client : DecompressionConfig(load),
                      server : CompressionConfig(load),
                      pass_through : RequestDecompressionConfig(load)]
       /\ asked \in Loads[load].requests
  /\ req = asked
  /\ encoding = Unknown
  /\ made = Absent
  /\ res = Absent

-----------------------------------------------------------------------------
(* Decompression::call fills in a missing Accept-Encoding header.          *)
DecompressionCall ==
  /\ at = "client"
  /\ req' = IF req.accept = Absent
              THEN [req EXCEPT !.accept = ToHeaderValue(config.client)]
              ELSE req
  /\ at' = "compression"
  /\ UNCHANGED <<config, asked, encoding, made, res>>

(* Compression::call fixes the encoding before the handler runs.           *)
CompressionCall ==
  /\ at = "compression"
  /\ encoding' = FromHeaders(req.accept, config.server)
  /\ at' = "request_decompression"
  /\ UNCHANGED <<config, asked, req, made, res>>

(* WrapBody around a body, decoding with one coding.                       *)
Undo(coding, body) ==
  IF body.codings # <<>> /\ Last(body.codings) = coding
    THEN [body EXCEPT !.codings = Front(@)]
    ELSE [body EXCEPT !.intact = FALSE]

\* Mutant: the old Content-Length survives.
Decoded_KeepsLength(message) ==
  [message EXCEPT !.body = Undo(Head(message.content_encoding), @),
                  !.content_encoding = <<>>]

(* Both decompressions look at the first Content-Encoding line, undo that  *)
(* coding, and remove the header (all lines) and the length.               *)
Decoded(message) ==
  [message EXCEPT !.body = Undo(Head(message.content_encoding), @),
                  !.content_encoding = <<>>,
                  !.length = FALSE]

(* entry.get() is the first line; "" without a Content-Encoding header.    *)
FirstLine(message) ==
  IF message.content_encoding = <<>> THEN "" ELSE Head(message.content_encoding)

Decodes(message, accept) == FirstLine(message) \in accept

\* Mutant: a coding that is not accepted is passed on anyway.
PassesOn_Unaccepted == TRUE

(* RequestDecompression::call: decode, pass on or refuse.                  *)
PassesOn ==
  FirstLine(req) \in {"", "identity"} \/ config.pass_through

RequestDecompressionCall ==
  /\ at = "request_decompression"
  /\ Decodes(req, config.server) \/ PassesOn
  /\ req' = IF Decodes(req, config.server) THEN Decoded(req) ELSE req
  /\ at' = "handler"
  /\ UNCHANGED <<config, asked, encoding, made, res>>

(* RequestDecompressionFuture::poll, Unsupported: an empty response that   *)
(* lists the encodings the server takes.                                   *)
Unsupported ==
  [status |-> "unsupported", content_encoding |-> <<>>, content_range |-> FALSE,
   accept_ranges |-> FALSE, vary |-> FALSE, type |-> "text", size |-> 0,
   hint |-> TRUE, length |-> FALSE, body |-> Coded(<<>>),
   accept |-> IF config.server = {}
                THEN <<[coding |-> "identity", q |-> NoQ]>>
                ELSE ToHeaderValue(config.server)]

RefuseRequest ==
  /\ at = "request_decompression"
  /\ ~Decodes(req, config.server) /\ ~PassesOn
  /\ made' = Unsupported
  /\ res' = Unsupported
  /\ at' = "response"
  /\ UNCHANGED <<config, asked, req, encoding>>

(* The handler, external: any response of the load.                        *)
HandlerResponds ==
  /\ at = "handler"
  /\ made' \in Loads[config.load].responses
  /\ res' = made'
  /\ at' = "response"
  /\ UNCHANGED <<config, asked, req, encoding>>

-----------------------------------------------------------------------------
(* SizeAbove: an unknown size is large enough.                             *)
SizeAbove(r) == r.hint \/ r.length => r.size >= MinSize

(* The strings of the default predicate that a content type starts with.   *)
Starts(type) ==
  CASE type = "grpc-web" -> {"grpc", "grpc-web"}
    [] type = "svg"      -> {"image", "svg"}
    [] OTHER             -> {type}

NotForContentType(r, content_type, exception) ==
  exception \in Starts(r.type) \/ content_type \notin Starts(r.type)

(* DefaultPredicate.                                                       *)
Predicate(r) ==
  /\ SizeAbove(r)
  /\ NotForContentType(r, "grpc", "grpc-web")
  /\ NotForContentType(r, "image", "svg")
  /\ NotForContentType(r, "sse", "")

\* Mutant: ranges are compressed.
ShouldCompress_Ranges(r) == r.content_encoding = <<>> /\ Predicate(r)

ShouldCompress(r) ==
  /\ r.content_encoding = <<>>
  /\ ~r.content_range
  /\ Predicate(r)

\* Mutant: Vary is only added to what was compressed.
Compress_VaryLate(chosen, r) ==
  CASE chosen = Unknown -> [r EXCEPT !.status = "not_acceptable", !.vary = TRUE]
    [] chosen = "identity" \/ (chosen # Unknown /\ ~ShouldCompress(r)) -> r
    [] OTHER -> [r EXCEPT !.vary = TRUE,
                          !.accept_ranges = FALSE,
                          !.length = FALSE,
                          !.hint = FALSE,
                          !.content_encoding = <<chosen>>,
                          !.body.codings = Append(@, chosen)]

(* ResponseFuture::poll of Compression, once the inner response is there.  *)
(* A compressed body has no exact size_hint.                               *)
Compress(chosen, r) ==
  CASE chosen = Unknown -> [r EXCEPT !.status = "not_acceptable", !.vary = TRUE]
    [] chosen # Unknown /\ ~ShouldCompress(r) -> r
    [] chosen = "identity" /\ ShouldCompress(r) -> [r EXCEPT !.vary = TRUE]
    [] chosen \in Compressed /\ ShouldCompress(r) ->
         [r EXCEPT !.vary = TRUE,
                   !.accept_ranges = FALSE,
                   !.length = FALSE,
                   !.hint = FALSE,
                   !.content_encoding = <<chosen>>,
                   !.body.codings = Append(@, chosen)]

CompressionPoll ==
  /\ at = "response"
  /\ res' = Compress(encoding, res)
  /\ at' = "wire"
  /\ UNCHANGED <<config, asked, req, encoding, made>>

(* ResponseFuture::poll of Decompression.                                  *)
DecompressionPoll ==
  /\ at = "wire"
  /\ res' = IF Decodes(res, config.client) THEN Decoded(res) ELSE res
  /\ at' = "done"
  /\ UNCHANGED <<config, asked, req, encoding, made>>

Terminated == at = "done" /\ UNCHANGED vars

Next ==
  \/ DecompressionCall \/ CompressionCall
  \/ RequestDecompressionCall \/ RefuseRequest \/ HandlerResponds
  \/ CompressionPoll \/ DecompressionPoll \/ Terminated

Spec == Init /\ [][Next]_vars

-----------------------------------------------------------------------------
(* The encoding that Compression chooses before the handler runs is the    *)
(* one the client's header, or the one Decompression wrote for it, values  *)
(* most; none, and a 406 response, exactly when nothing is acceptable      *)
(* (Encoding::from_headers).  Even a header that contradicts itself never  *)
(* makes the server use an encoding that the client only excluded.         *)
ChoiceIsBest ==
  at \notin {"client", "compression"} =>
    /\ Consistent(req.accept, config.server) => Best(req.accept, config.server, encoding)
    /\ encoding # Unknown => Acceptable(req.accept, config.server, encoding)

\* Whatever was done to a body, its headers say so.
Truthful(message) == message.body.intact /\ Honest(message)

\* What the first line says, which is all that is read, is all there is.
FirstLineSaysAll(message) ==
  message.body.codings =
    IF FirstLine(message) \in {"", "identity"} THEN <<>> ELSE <<FirstLine(message)>>

\* A response the handler encoded itself, and a range of one, are passed on
\* as they are.
HandlersCodingKept ==
  at = "wire" /\ (made.content_encoding # <<>> \/ made.content_range) =>
    res.body = made.body /\ res.length = made.length

\* If another Accept-Encoding header had given this response another coding,
\* Vary says so.
VaryIsSet ==
  at = "wire" /\ ~res.vary =>
    \A other \in Compressed \cup {"identity"} :
      Compress(other, made).content_encoding = res.content_encoding

(* Through all three middleware, nothing that is coded is ever declared    *)
(* plain or the reverse, unless several codings were applied and the first *)
(* of them was undone (see DecodedIsPlain); a Content-Length is that of    *)
(* the body as it is, ranges and what the handler encoded itself reach the *)
(* wire untouched, and a cache in front of the server can tell from Vary   *)
(* what it may reuse (Compression, Decompression, RequestDecompression).   *)
HeadersTellTheTruth ==
  /\ FirstLineSaysAll(asked) \/ req.content_encoding # <<>> => Truthful(req)
  /\ res # Absent /\ (FirstLineSaysAll(made) \/ res.content_encoding # <<>>) => Truthful(res)
  /\ req.length => req.body = asked.body
  /\ at \in {"wire", "done"} /\ res.length => res.body = made.body
  /\ HandlersCodingKept
  /\ VaryIsSet

\* A client that leaves the Accept-Encoding header to Decompression.
TransparentToClient ==
  at = "done" /\ made.status = "ok" /\ made.content_encoding = <<>>
              /\ (req.accept = ToHeaderValue(config.client)) =>
    res.status = "ok" /\ res.content_encoding = <<>> /\ res.body = made.body

\* The handler of a server with RequestDecompression.
HandlerReadsBody ==
  /\ at = "handler" /\ ~config.pass_through /\ FirstLineSaysAll(asked) =>
       req.body = Coded(<<>>)
  /\ made # Absent /\ made.status = "unsupported" =>
       \A i \in DOMAIN made.accept :
         /\ made.accept[i].coding \in config.server \cup {"identity"}
         /\ made.accept[i].coding # FirstLine(asked)

(* However the two sides are configured, a client that leaves the          *)
(* Accept-Encoding header to Decompression gets the handler's plain body   *)
(* and never a 406; the handler is called with a body it can read, unless  *)
(* it asked for pass-through or the request was coded more than its first  *)
(* Content-Encoding line says; and a refused request names encodings that  *)
(* would have been taken.                                                  *)
BothSidesCanRead == TransparentToClient /\ HandlerReadsBody

(* A handler, or a client, that is shown no Content-Encoding gets a plain  *)
(* body: what the documentation of RequestDecompressionLayer and of        *)
(* Decompression means by decompressing transparently.  Of several lines   *)
(* the code undoes one coding and removes all (entry.get, entry.remove).   *)
DecodedIsPlain ==
  /\ at = "handler" /\ req.content_encoding = <<>> => req.body = Coded(<<>>)
  /\ at = "done" /\ res.content_encoding = <<>> => res.body = Coded(<<>>)
=============================================================================
