----------------------------- MODULE MCServeDir -----------------------------
(* A small instance of ServeDir: a text file with two precompressed        *)
(* variants, and a directory with an index.                                *)
EXTENDS ServeDir

Base  == <<<<"srv">>>>
Name  == <<"hello", "txt">>
Text  == Append(Base, Name)
Dir   == Append(Base, <<"docs">>)
Html  == Append(Base, <<"docs", "html">>)
Index == PushIndexHtml(Dir)
Home  == PushIndexHtml(Base)

MCPaths ==
  {Base, Text, WithExtension(Text, "gz"), WithExtension(Text, "br"),
   Dir, Html, Index, WithExtension(Index, "gz"), Home}

F(n, rev) == [kind |-> "file", len |-> n, rev |-> rev]
D(rev)    == [kind |-> "dir", len |-> 1, rev |-> rev]

Tree(entries) == [p \in MCPaths |-> IF p \in DOMAIN entries THEN entries[p] ELSE Absent]
MCTrees ==
  {Tree(Base :> D(6) @@ Text :> F(3, 2) @@ WithExtension(Text, "gz") :> F(2, 3)
        @@ WithExtension(Text, "br") :> F(2, 4) @@ Dir :> D(6)
        @@ Index :> F(2, 3)),
   Tree(Base :> D(6) @@ Text :> F(0, 2) @@ Dir :> D(6) @@ WithExtension(Index, "gz") :> F(1, 3)
        @@ Index :> F(2, 4)),
   Tree(Base :> D(6) @@ Text :> F(3, 2) @@ WithExtension(Text, "gz") :> F(3, 3) @@ Home :> F(1, 5) @@ Html :> F(2, 4))}

MCConfig(dir, precompressed) ==
  [base |-> Base, single |-> FALSE, append_index_html_on_directories |-> dir,
   html_as_default_extension |-> dir, precompressed |-> precompressed,
   fallback |-> ~dir, call_fallback_on_method_not_allowed |-> TRUE,
   mtimes |-> TRUE, prefix_ok |-> TRUE]
MCConfigs ==
  {MCConfig(TRUE, {"gzip", "br"}), MCConfig(FALSE, {"gzip"}),
   [MCConfig(TRUE, {}) EXCEPT !.prefix_ok = FALSE, !.mtimes = FALSE],
   ServeFile(Text, {"gzip", "br"})}

E(coding) == [coding |-> coding, q |-> NoQ]
Half(coding) == [coding |-> coding, q |-> [lead |-> 0, digits |-> <<5>>]]
Excluded(coding) == [coding |-> coding, q |-> [lead |-> 0, digits |-> <<>>]]
MCAccepts ==
  {<<>>, <<E("gzip"), E("br")>>, <<Half("br"), E("identity"), E("gzip")>>,
   <<Excluded("gzip")>>}

RangeHeader(kind, first, last) == [kind |-> kind, first |-> first, last |-> last]
NoRange == RangeHeader("none", 0, 0)

Plain ==
  [method |-> "GET", uri |-> "plain", path |-> <<Name>>, nul |-> FALSE, accept |-> <<>>,
   if_match |-> "absent", if_none_match |-> "absent",
   if_unmodified_since |-> "absent", if_modified_since |-> "absent",
   range |-> NoRange]

ConditionalGets ==
  {[Plain EXCEPT !.if_none_match = "cached"],
   [Plain EXCEPT !.if_none_match = "weak", !.if_modified_since = "cached"],
   [Plain EXCEPT !.if_none_match = "any"],
   [Plain EXCEPT !.if_modified_since = "cached"],
   [Plain EXCEPT !.if_match = "cached", !.range = RangeHeader("bytes", 1, 9)],
   [Plain EXCEPT !.if_match = "cached", !.range = RangeHeader("suffix", 1, 0)],
   [Plain EXCEPT !.if_match = "weak"],
   [Plain EXCEPT !.if_match = "other", !.if_none_match = "cached"],
   [Plain EXCEPT !.if_unmodified_since = "cached", !.range = RangeHeader("bytes", 0, 0)]}
Ranged ==
  {[Plain EXCEPT !.range = r] :
     r \in {RangeHeader("bytes", 0, 0), RangeHeader("bytes", 1, 9), RangeHeader("bytes", 7, 9),
            RangeHeader("multiple", 0, 0), RangeHeader("malformed", 0, 0)}}

MCRequests ==
  {[Plain EXCEPT !.accept = a, !.method = m] : a \in MCAccepts, m \in {"GET", "HEAD"}}
  \cup {[r EXCEPT !.accept = <<E("gzip"), E("br")>>] : r \in ConditionalGets}
  \cup {[r EXCEPT !.method = "HEAD"] : r \in ConditionalGets}
  \cup Ranged
  \cup {[Plain EXCEPT !.path = <<CurDir, <<"docs">>>>, !.uri = u, !.accept = a] :
          u \in {"slash", "plain"}, a \in MCAccepts}
  \cup {[Plain EXCEPT !.path = <<>>, !.uri = "root"],
        [Plain EXCEPT !.uri = "slash"], [Plain EXCEPT !.method = "POST"],
        [Plain EXCEPT !.path = <<ParentDir, Name>>], [Plain EXCEPT !.path = <<NotUtf8>>]}
  \cup {[Plain EXCEPT !.nul = TRUE, !.method = m] : m \in {"GET", "HEAD"}}
=============================================================================
