------------------------------ MODULE ServeDir ------------------------------
(***************************************************************************)
(* ServeDir and ServeFile (services/fs): one call, from the request to the *)
(* last byte of the body, while another actor changes the files.  Every    *)
(* call of the backend is a step of its own, since each one is awaited.    *)
(*                                                                         *)
(* A path is a sequence of components, a component the name and the        *)
(* extensions of a file, <<"hello", "txt", "gz">>.  A file is              *)
(* [kind, len, rev]; rev is unique to its content and is also its          *)
(* modification time, in half seconds.                                     *)
(***************************************************************************)
EXTENDS ContentEncoding, FiniteSetsExt

CONSTANTS Paths,       \* paths that may exist
          Trees,       \* file systems to start from: [Paths -> files]
          FirstRev,    \* above the revision of every file of a tree
          Lengths,     \* lengths of new files
          Configs,     \* settings of the service, see Config
          Requests,    \* what clients ask for, see Request
          ChunkSize,   \* buf_chunk_size
          MaxChanges   \* bound on the changes of the file system

Absent == [kind |-> "none", len |-> 0, rev |-> 0]
Files  == {Absent} \cup [kind : {"file", "dir"}, len : Nat, rev : Nat]

(* ServeDir's fields: single is ServeVariant::SingleFile (ServeFile),      *)
(* precompressed the enabled PrecompressedVariants, mtimes whether the     *)
(* backend knows modification times, prefix_ok whether a URI can be built  *)
(* with redirect_path_prefix.                                              *)
Config ==
  [base : Paths, single : BOOLEAN, append_index_html_on_directories : BOOLEAN,
   html_as_default_extension : BOOLEAN, precompressed : SUBSET Compressed,
   fallback : BOOLEAN, call_fallback_on_method_not_allowed : BOOLEAN,
   mtimes : BOOLEAN, prefix_ok : BOOLEAN]

(* ServeFile: a ServeDir for one file, without a fallback; of the builder  *)
(* methods only the precompressed ones are offered.                        *)
ServeFile(p, variants) ==
  [base |-> p, single |-> TRUE, append_index_html_on_directories |-> FALSE,
   html_as_default_extension |-> FALSE, precompressed |-> variants,
   fallback |-> FALSE, call_fallback_on_method_not_allowed |-> FALSE,
   mtimes |-> TRUE, prefix_ok |-> TRUE]

(* A request.  uri: the path is "/", ends in a slash, or does not.  path:  *)
(* its components once decoded.  nul: the file name has a NUL byte.  The   *)
(* conditional headers are stated in terms of the client's cached copy.    *)
Component == Seq(STRING) \ {<<>>}
NoPath    == <<>>
CurDir    == <<".">>
ParentDir == <<"..">>
NotUtf8   == <<"?">>   \* percent-decoding did not give UTF-8
HeaderKinds == {"absent", "any", "cached", "weak", "other"}
Request ==
  [method : {"GET", "HEAD", "POST"}, uri : {"root", "slash", "plain"},
   path : Seq(Component), nul : BOOLEAN,
   accept : Seq(Element),
   if_match : HeaderKinds, if_none_match : HeaderKinds,
   if_unmodified_since : {"absent", "cached"},
   if_modified_since : {"absent", "cached"},
   range : [kind : {"none", "bytes", "suffix", "multiple", "malformed"},
            first : Nat, last : Nat]]

(* The components that build_and_validate_path keeps, and the encodings    *)
(* that the opening loop is given.                                         *)
Normal(components) ==
  LET kept[n \in 0..Len(components)] ==
        IF n = 0 THEN <<>>
        ELSE IF components[n] = CurDir THEN kept[n - 1]
        ELSE Append(kept[n - 1], components[n])
  IN kept[Len(components)]
Negotiated(r, c) == Explicit(r.accept, c.precompressed)

ASSUME ServeDirAssumption ==
  /\ Paths \subseteq Seq(Component) \ {NoPath}
  /\ \A tree \in Trees :
       /\ tree \in [Paths -> Files]
       /\ \A p \in Paths : tree[p] # Absent => tree[p].rev \in 2..(FirstRev - 1)
       /\ \A p, q \in Paths : tree[p].rev = tree[q].rev => tree[p].len = tree[q].len
  /\ FirstRev \in Nat \ {0, 1}
  /\ Lengths \subseteq Nat
  /\ Configs \subseteq Config
  /\ Requests \subseteq Request
  /\ ChunkSize \in Nat \ {0}
  /\ MaxChanges \in Nat

VARIABLES
  config,      \* the service's settings
  cache,       \* the client's copy from an earlier response, or Absent
  disk,        \* the file system
  changes,     \* how often it changed
  pc,          \* where the call is
  req,
  path,        \* the path that is probed
  target,      \* path_to_file, as it is handed to the opening loop
  negotiated,  \* negotiated_encodings, as a set: their order does not matter
  encoding,    \* maybe_encoding
  file,        \* the open file, as it is now, or Absent
  linked,      \* path still names the open file
  meta,        \* what the metadata call returned
  reply,       \* status line and headers
  body,        \* AsyncReadBody and what was read from it
  quiet,       \* history: no change and no backend error during the call
  seen         \* history: the changes before the metadata call

world   == <<disk, changes>>
opening == <<path, target, negotiated, encoding>>
opened  == <<file, linked, meta>>
vars    == <<config, cache, world, pc, req, opening, opened, reply, body, quiet, seen>>

-----------------------------------------------------------------------------
(* Entity tags and dates (headers.rs).                                     *)
NoTag  == <<>>
NoTime == -1
OtherTag == <<-1, -1>>   \* a tag that is not of any file

\* Mutant: the modification time is left out of the tag.
ETag_Size(m) == IF config.mtimes THEN <<m.len>> ELSE NoTag

(* ETag::from_metadata, with the time at full precision; LastModified, in  *)
(* whole seconds.                                                          *)
ETag(m) == IF config.mtimes THEN <<m.len, m.rev>> ELSE NoTag
LastModified(m) == IF config.mtimes THEN m.rev \div 2 ELSE NoTime

(* A header with entity tags: "*", or one tag that may be weak.            *)
Tag(kind, m) == [any |-> kind = "any", weak |-> kind = "weak",
                 tag |-> IF kind \in {"cached", "weak"} THEN ETag(m) ELSE OtherTag]

strong_eq(etag, header) == ~header.weak /\ header.tag = etag
weak_eq(etag, header)   == header.tag = etag

IfMatchPasses(header, etag)     == header.any \/ strong_eq(etag, header)
IfNoneMatchPasses(header, etag) == ~header.any /\ ~weak_eq(etag, header)

(* Preconditions::check                                                    *)
check(r, m) ==
  LET etag  == ETag(m)
      known == LastModified(m) # NoTime
      since == LastModified(cache)
      failed ==
        IF r.if_match # "absent"
          THEN etag = NoTag \/ ~IfMatchPasses(Tag(r.if_match, cache), etag)
          ELSE r.if_unmodified_since # "absent" /\ known /\ ~(since >= LastModified(m))
      same ==
        IF r.if_none_match # "absent"
          THEN etag # NoTag /\ ~IfNoneMatchPasses(Tag(r.if_none_match, cache), etag)
          ELSE r.if_modified_since # "absent" /\ known /\ ~(since < LastModified(m))
  IN IF failed THEN "PreconditionFailed" ELSE IF same THEN "NotModified" ELSE "None"

-----------------------------------------------------------------------------
(* Paths.                                                                  *)
Extension(e) == CASE e = "gzip" -> "gz" [] e = "deflate" -> "zz"
                  [] e = "br" -> "br" [] e = "zstd" -> "zst"

HasExtension(p) == Len(Last(p)) > 1
WithExtension(p, ext) == [p EXCEPT ![Len(p)] = Append(@, ext)]
WithoutExtension(p) == IF HasExtension(p) THEN [p EXCEPT ![Len(p)] = Front(@)] ELSE p
PushIndexHtml(p) == Append(p, <<"index", "html">>)

At(p) == IF p \in Paths THEN disk[p] ELSE Absent

\* Mutant: encodings with weight 0 are tried as well.
preferred_encoding_Excluded(p, encodings) ==
  LET e == PreferredEncoding_ZeroCounts(encodings)
  IN [encoding |-> e,
      path |-> IF e \in Compressed THEN WithExtension(p, Extension(e)) ELSE p]

(* ServeVariant::build_and_validate_path                                   *)
build_and_validate_path(r) ==
  IF config.single THEN config.base
  ELSE IF {ParentDir, NotUtf8} \cap ToSet(r.path) # {} THEN NoPath
  ELSE config.base \o Normal(r.path)

(* preferred_encoding: the encoding to try next, and the path to try.      *)
preferred_encoding(p, encodings) ==
  LET e == PreferredEncoding(encodings)
  IN [encoding |-> e,
      path |-> IF e \in Compressed THEN WithExtension(p, Extension(e)) ELSE p]

Without(encodings, e) == {x \in encodings : x.encoding # e}

\* Mutants: no encoding is given up; one extension too many is removed.
AfterMiss_Again(tried, encodings) ==
  [path |-> WithoutExtension(tried.path), negotiated |-> encodings]
AfterMiss_DropsTwo(tried, encodings) ==
  [path |-> WithoutExtension(WithoutExtension(tried.path)),
   negotiated |-> Without(encodings, tried.encoding)]

(* A precompressed file does not exist: back to the path without its       *)
(* extension, and on to the other encodings.                               *)
AfterMiss(tried, encodings) ==
  [path |-> WithoutExtension(tried.path),
   negotiated |-> Without(encodings, tried.encoding)]

(* should_return_not_found                                                 *)
BackendErrors == {"PermissionDenied", "NotADirectory", "Other"}
should_return_not_found(err) ==
  err \in {"NotFound", "PermissionDenied", "NotADirectory"}

-----------------------------------------------------------------------------
(* Ranges: http_range_header's validation clips the end to the file, and   *)
(* takes an empty file to have the one range 0-0.                          *)
Validate(r, size) ==
  LET end   == IF size = 0 THEN 0 ELSE size - 1
      first == IF r.kind = "bytes" THEN r.first
               ELSE IF r.first >= size THEN 0 ELSE size - r.first
      last  == IF r.kind = "bytes" THEN Min({r.last, end}) ELSE end
  IN [kind |-> IF first <= last THEN "ok" ELSE "unsatisfiable",
      first |-> first, last |-> last]

try_parse_range(r, size) ==
  IF r.kind = "none" THEN [kind |-> "none", first |-> 0, last |-> 0]
  ELSE IF r.kind = "malformed" THEN [kind |-> "unsatisfiable", first |-> 0, last |-> 0]
  ELSE IF r.kind = "multiple" THEN [kind |-> "multiple", first |-> 0, last |-> 0]
  ELSE Validate(r, size)

-----------------------------------------------------------------------------
NoReply == [status |-> 0, encoding |-> "identity", vary |-> FALSE, etag |-> NoTag,
            modified |-> NoTime, length |-> 0, first |-> 0]
Status(code) == [NoReply EXCEPT !.status = code]
FallbackStatus == 600   \* whatever the fallback answers

Unlimited == -1
NoBody == [state |-> "none", left |-> 0, pos |-> 0, got |-> 0, revs |-> {}]
Reader(left, pos) == [NoBody EXCEPT !.state = "open", !.left = left, !.pos = pos]

Limit(range) == range.last - range.first + 1

(* build_response                                                          *)
Headers(m, e, range) ==
  [status   |-> CASE range.kind = "none" -> 200 [] range.kind = "ok" -> 206
                  [] OTHER -> 416,
   encoding |-> IF e \in Compressed THEN e ELSE "identity",
   vary     |-> config.precompressed # {},
   etag     |-> ETag(m),
   modified |-> LastModified(m),
   length   |-> IF range.kind = "none" THEN m.len
                ELSE IF range.kind # "ok" \/ m.len = 0 THEN 0
                ELSE range.last - range.first + 1,
   first    |-> range.first]
BodyFor(method, range) ==
  IF method = "HEAD" \/ range.kind \notin {"none", "ok"} THEN NoBody
  ELSE IF range.kind = "none" THEN Reader(Unlimited, 0)
  ELSE Reader(Limit(range), range.first)

(* The files that a call for path t may look at: t, and what starts with   *)
(* its name.  Changes of others would not be noticed.                      *)
InReach(p, t) ==
  /\ t # NoPath /\ Len(p) >= Len(t)
  /\ SubSeq(p, 1, Len(t) - 1) = Front(t)
  /\ Head(p[Len(t)]) = Head(Last(t))

(* Copies a client may have: of a file, or of its predecessor.             *)
Conditional(r) == "absent" # r.if_match \/ "absent" # r.if_none_match
  \/ "absent" # r.if_unmodified_since \/ "absent" # r.if_modified_since
Copies ==
  LET t     == build_and_validate_path(req)
      files == {disk[p] : p \in {q \in Paths : InReach(q, t) /\ disk[q].kind = "file"}}
  IN files \cup {[f EXCEPT !.rev = 1] : f \in files}

Init ==
  /\ config \in Configs
  /\ disk \in Trees
  /\ changes = 0
  /\ pc = "idle"
  /\ req \in Requests
  /\ cache \in IF Conditional(req) THEN Copies ELSE {Absent}
  /\ path = NoPath
  /\ target = NoPath
  /\ negotiated = {}
  /\ encoding = Unknown
  /\ file = Absent
  /\ linked = FALSE
  /\ meta = Absent
  /\ reply = NoReply
  /\ body = NoBody
  /\ quiet = TRUE
  /\ seen = 0

-----------------------------------------------------------------------------
(* The response future resolves.                                           *)
Respond(r, b) ==
  /\ pc' = IF b.state = "open" THEN "body" ELSE "done"
  /\ reply' = r
  /\ body' = b

(* FileNotFound, InvalidFilename, or an invalid path.                      *)
Missing ==
  IF config.fallback
    THEN pc' = "fallback" /\ UNCHANGED <<reply, body>>
    ELSE Respond(Status(404), NoBody)

(* Err(err) of open_file, made a response by ServeDir::call.               *)
Failed(err) ==
  IF should_return_not_found(err) THEN Missing ELSE Respond(Status(500), NoBody)

(* The part of open_file that follows the metadata, and the response.      *)
Answer(m, e) ==
  LET verdict == check(req, m)
      range   == try_parse_range(req.range, m.len)
  IN CASE verdict = "PreconditionFailed" -> Respond(Status(412), NoBody)
       [] verdict = "NotModified" ->
            Respond([Status(304) EXCEPT !.etag = ETag(m), !.modified = LastModified(m)],
                    NoBody)
       [] OTHER -> Respond(Headers(m, e, range), BodyFor(req.method, range))

(* ServeDir::try_call.  The fallback is given the original request.        *)
TryCall ==
  LET t == build_and_validate_path(req)
      served == req.method \in {"GET", "HEAD"}
  IN
  /\ pc = "idle"
  /\ path' = t
  /\ target' = t
  /\ negotiated' = Negotiated(req, config)
  /\ \/ /\ ~served
        /\ IF config.call_fallback_on_method_not_allowed /\ config.fallback
             THEN pc' = "fallback" /\ UNCHANGED <<reply, body>>
             ELSE Respond(Status(405), NoBody)
     \/ /\ served /\ t = NoPath
        /\ Missing
     \/ /\ served /\ t # NoPath
        /\ pc' = IF config.single THEN "probe" ELSE "is_dir"
        /\ UNCHANGED <<reply, body>>
  /\ UNCHANGED <<config, cache, world, req, encoding, opened, quiet, seen>>

(* maybe_redirect_or_append_path                                           *)
Continue(p) ==
  /\ path' = p
  /\ target' = p
  /\ pc' = "probe"
  /\ UNCHANGED <<reply, body>>
Stay == UNCHANGED <<path, target>>

(* The name asked for has a NUL byte.  ServeFile does not look at the       *)
(* request's path (ServeVariant::SingleFile).                              *)
NulInName == req.nul /\ ~config.single

(* is_dir: "none" stands for None.                                         *)
is_dir(p) == IF NulInName THEN "none" ELSE At(p).kind

(* append_slash_on_path, and what becomes of its error.                    *)
AppendSlash == Respond(Status(IF config.prefix_ok THEN 307 ELSE 500), NoBody)

RedirectOrAppend ==
  LET kind == is_dir(path)
  IN
  /\ pc = "is_dir"
  /\ \/ /\ req.uri = "slash" /\ kind # "dir"
        /\ Missing /\ Stay
     \/ /\ ~(req.uri = "slash" /\ kind # "dir")
        /\ config.html_as_default_extension /\ kind = "none" /\ ~HasExtension(path)
        /\ Continue(WithExtension(path, "html"))
     \/ /\ req.uri # "slash" /\ kind # "dir"
        /\ ~(config.html_as_default_extension /\ kind = "none" /\ ~HasExtension(path))
        /\ Continue(path)
     \/ /\ kind = "dir" /\ ~config.append_index_html_on_directories
        /\ Missing /\ Stay
     \/ /\ kind = "dir" /\ config.append_index_html_on_directories /\ req.uri # "plain"
        /\ Continue(PushIndexHtml(path))
     \/ /\ kind = "dir" /\ config.append_index_html_on_directories /\ req.uri = "plain"
        /\ AppendSlash /\ Stay
  /\ UNCHANGED <<config, cache, world, req, negotiated, encoding, opened, quiet, seen>>

(* One iteration of open_file_with_fallback (GET) or                       *)
(* file_metadata_with_fallback (HEAD).                                     *)
Found ==
  LET tried == preferred_encoding(path, negotiated)
      found == At(tried.path)
  IN
  /\ pc = "probe" /\ ~NulInName /\ found.kind # "none"
  /\ path' = tried.path
  /\ encoding' = tried.encoding
  /\ IF req.method = "GET"
       THEN /\ file' = found /\ linked' = TRUE /\ meta' = meta
            /\ pc' = "metadata" /\ UNCHANGED <<reply, body>>
       ELSE /\ meta' = found /\ UNCHANGED <<file, linked>>
            /\ Answer(found, tried.encoding)
  /\ UNCHANGED <<config, cache, world, req, target, negotiated, quiet, seen>>

NotFound ==
  LET tried == preferred_encoding(path, negotiated)
      next  == AfterMiss(tried, negotiated)
  IN
  /\ pc = "probe" /\ ~NulInName /\ At(tried.path).kind = "none"
  /\ IF tried.encoding \in Compressed
       THEN /\ path' = next.path /\ negotiated' = next.negotiated
            /\ UNCHANGED <<pc, reply, body>>
       ELSE Failed("NotFound") /\ UNCHANGED <<path, negotiated>>
  /\ UNCHANGED <<config, cache, world, req, target, encoding, opened, quiet, seen>>

(* InvalidInput: only the GET branch knows is_invalid_filename_error.      *)
InvalidFilename ==
  /\ pc = "probe" /\ NulInName
  /\ IF req.method = "GET" THEN Missing ELSE Failed("InvalidInput")
  /\ UNCHANGED <<config, cache, world, req, opening, opened, quiet, seen>>

\* Mutant: the path is asked again instead of the open file.
FileMetadata_ByPath ==
  /\ pc = "metadata"
  /\ meta' = At(path)
  /\ seen' = changes
  /\ Answer(At(path), encoding)
  /\ UNCHANGED <<config, cache, world, req, opening, file, linked, quiet>>

(* File::metadata of the open file, and seek.                              *)
FileMetadata ==
  /\ pc = "metadata"
  /\ seen' = changes
  /\ meta' = file
  /\ Answer(file, encoding)
  /\ UNCHANGED <<config, cache, world, req, opening, file, linked, quiet>>

(* A call of the backend fails.                                            *)
BackendFails(err) ==
  /\ pc \in {"is_dir", "probe", "metadata"} /\ ~NulInName
  /\ Failed(err)
  /\ quiet' = FALSE
  /\ UNCHANGED <<config, cache, world, req, opening, opened, seen>>

FallbackResponds ==
  /\ pc = "fallback"
  /\ Respond(Status(FallbackStatus), NoBody)
  /\ UNCHANGED <<config, cache, world, req, opening, opened, quiet, seen>>

(* AsyncReadBody::poll_frame: a chunk, or the end of the file or range.    *)
Read ==
  LET available == Max({0, file.len - body.pos})
      most == Min({ChunkSize, available} \cup
                  (IF body.left = Unlimited THEN {} ELSE {body.left}))
  IN
  /\ pc = "body" /\ file.kind = "file"
  /\ IF most = 0
       THEN body' = [body EXCEPT !.state = "ended"] /\ pc' = "done"
       ELSE \E n \in 1..most :
              /\ body' = [body EXCEPT
                   !.left = IF @ = Unlimited THEN @ ELSE @ - n,
                   !.pos = @ + n, !.got = @ + n, !.revs = @ \cup {file.rev}]
              /\ UNCHANGED pc
  /\ UNCHANGED <<config, cache, world, req, opening, opened, reply, quiet, seen>>

ReadFails ==
  /\ pc = "body"
  /\ body' = [body EXCEPT !.state = "error"]
  /\ pc' = "done"
  /\ UNCHANGED <<config, cache, world, req, opening, opened, reply, quiet, seen>>

-----------------------------------------------------------------------------
(* The other actor.  A new file replaces what was there, or the file is    *)
(* removed; or the file itself is written to, and whoever has it open sees *)
(* that.                                                                   *)
Change(p, f) ==
  /\ pc \notin {"idle", "done"} /\ changes < MaxChanges /\ InReach(p, target)
  /\ disk' = [disk EXCEPT ![p] = f]
  /\ changes' = changes + 1
  /\ quiet' = FALSE
  /\ UNCHANGED <<config, cache, pc, req, opening, meta, reply, body, seen>>

NewFile(kind, len) == [kind |-> kind, len |-> len, rev |-> FirstRev + changes]

Replace(p) ==
  /\ \/ \E n \in Lengths : Change(p, NewFile("file", n))
     \/ Change(p, NewFile("dir", 0))
     \/ disk[p] # Absent /\ Change(p, Absent)
  /\ linked' = (linked /\ p # path)
  /\ UNCHANGED file

WriteInPlace(p) ==
  \E n \in Lengths :
    /\ disk[p].kind = "file"
    /\ Change(p, NewFile("file", n))
    /\ file' = IF linked /\ p = path THEN NewFile("file", n) ELSE file
    /\ UNCHANGED linked

Over == pc = "done" /\ UNCHANGED vars

Progress ==
  \/ TryCall \/ RedirectOrAppend \/ Found \/ NotFound \/ InvalidFilename
  \/ FileMetadata \/ FallbackResponds \/ Read
  \/ file.kind = "dir" /\ ReadFails

Next ==
  \/ Progress
  \/ \E err \in BackendErrors : BackendFails(err)
  \/ ReadFails
  \/ \E p \in Paths : Replace(p) \/ WriteInPlace(p)
  \/ Over

(* The executor polls the call and the client the body until they end; the *)
(* backend's and the fallback's futures complete, and reading a directory  *)
(* fails.                                                                  *)
Spec == Init /\ [][Next]_vars /\ WF_vars(Progress)

-----------------------------------------------------------------------------
Served == reply.status \in {200, 206, 416}
Accepted == {x \in Negotiated(req, config) : x.qvalue > 0}
Variant(p, e) == IF e \in Compressed THEN WithExtension(p, Extension(e)) ELSE p

\* What is served under a Content-Encoding is the file with that encoding's
\* extension and no other, and the client accepts it.
VariantIsRight ==
  Served =>
    /\ path = Variant(target, reply.encoding)
    /\ reply.encoding # "identity" => \E x \in Accepted : x.encoding = reply.encoding

(* No variant the client prefers to the one chosen exists.                *)
NothingBetter ==
  LET accepted == Accepted IN
  \A x \in accepted :
    /\ x.encoding \in Compressed
    /\ \A y \in accepted : y.encoding = encoding => Less(y, x)
    => At(Variant(target, x.encoding)) = Absent

NothingToServe ==
  \/ At(target) = Absent
  \/ At(target).kind = "dir" /\ ~config.append_index_html_on_directories
  \/ At(target).kind = "file" /\ req.uri = "slash"

(* Whatever changes meanwhile, the opening loop's path and its list of     *)
(* encodings stay in step: what is served under a Content-Encoding is the  *)
(* file with that encoding's extension and the client accepts it.  If      *)
(* nothing changed, the loop of missing variants ends at the best one there*)
(* is, and the fallback or 404 is the answer only when there is nothing to *)
(* serve.                                                                  *)
BestIsFound ==
  /\ VariantIsRight
  /\ quiet =>
      /\ Served => NothingBetter
      /\ /\ reply.status \in {404, FallbackStatus}
         /\ req.method # "POST" /\ target # NoPath /\ ~NulInName
         => NothingToServe

(* The open file was not written to after its metadata was read.           *)
Untouched == file.rev < FirstRev + seen

(* Whatever happens to the path, a body that ends has the announced length *)
(* and is the one its ETag stands for, unless somebody wrote to that very  *)
(* file; and even then a range response never sends more than announced.   *)
LengthIsTrue ==
  /\ body.state = "ended" /\ Untouched =>
       /\ body.got = reply.length
       /\ body.revs \subseteq {file.rev}
       /\ reply.etag = ETag(file)
  /\ reply.status = 206 /\ reply.length > 0 => body.got <= reply.length

(* A client that revalidates its copy with If-None-Match is told that it   *)
(* is current exactly when it is, and one that continues its copy with     *)
(* If-Match is sent bytes of that copy only (Preconditions::check).        *)
ConditionsAreKept ==
  /\ config.mtimes /\ req.if_none_match \in {"cached", "weak"} =>
       /\ reply.status = 304 => meta.rev = cache.rev
       /\ Served => meta.rev # cache.rev
  /\ req.if_match = "cached" /\ Served =>
       /\ meta.rev = cache.rev
       /\ Untouched => body.revs \subseteq {cache.rev}

(* Every call is answered and every body ends: each missing variant is     *)
(* tried once.                                                             *)
Answered == pc # "idle" ~> pc = "done"
=============================================================================
