-------------------------- MODULE MCFollowRedirect --------------------------
(* Small instances of FollowRedirect.                                      *)
EXTENDS FollowRedirect

\* Two http origins that differ in the port only (one spelled with and one
\* without the default port), an https host, a scheme eq_origin rejects and
\* a relative URI.
MCUri(s, h, p, path) == [scheme |-> s, host |-> h, port |-> p, path |-> path]
MCUris ==
  {MCUri("http", "a", NoPort, "/"), MCUri("http", "a", 80, "/"),
   MCUri("http", "a", 8080, "/"), MCUri("https", "a", NoPort, "/"),
   MCUri("other", "a", NoPort, "/"), MCUri("none", "", NoPort, "/")}

MCLayer(kind, limit, clones) ==
  [policy |-> kind, limit |-> limit, clones |-> clones,
   block_cross_origin |-> TRUE, block_any |-> FALSE,
   remove_blocklisted |-> TRUE, remove_all |-> FALSE,
   remove_all_extensions |-> TRUE, allowed |-> {},
   preserve_extensions |-> TRUE]
MCStandard(limit) == MCLayer("standard", limit, FALSE)

\* The default layer, one that clones bodies, SameOrigin, and each filter
\* setting; two redirections where leaving the origin and coming back to it
\* could make a difference.
MCLayers ==
  {MCStandard(0), MCStandard(2), MCLayer("standard", 2, TRUE),
   MCLayer("guarded", 1, FALSE),
   [MCStandard(1) EXCEPT !.allowed = {"x"}, !.remove_blocklisted = FALSE],
   [MCStandard(1) EXCEPT !.remove_all = TRUE],
   [MCStandard(1) EXCEPT !.block_any = TRUE],
   [MCStandard(1) EXCEPT !.block_cross_origin = FALSE],
   [MCStandard(1) EXCEPT !.remove_all_extensions = FALSE],
   [MCStandard(1) EXCEPT !.preserve_extensions = FALSE]}

MCHeaderSets == {BLOCKLIST \cup PayloadHeaders \cup {"accept"}}
=============================================================================
