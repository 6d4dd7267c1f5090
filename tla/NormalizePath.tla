--------------------------- MODULE NormalizePath ----------------------------
(***************************************************************************)
(* normalize_path: a path is the sequence of its characters, of which only *)
(* "/" matters.  A URI is in origin or absolute form (with a path), in     *)
(* authority form (no path at all) or the asterisk of OPTIONS.             *)
(***************************************************************************)
EXTENDS Integers, Sequences, FiniteSetsExt

(* http::Uri gives every URI in origin or absolute form a path that starts *)
(* with a slash.                                                           *)
Characters == {"/", "*"} \cup STRING
Uris ==
  {u \in [form : {"origin", "absolute", "authority", "asterisk"}, path : Seq(Characters),
          query : STRING] :
     CASE u.form = "authority" -> u.path = <<>>
       [] u.form = "asterisk"  -> u.path = <<"*">>
       [] OTHER -> u.path # <<>> /\ u.path[1] = "/"}

NormalizePathLayer(mode) == [kind |-> "normalize_path", mode |-> mode]

ends_with_slash(p) == p # <<>> /\ p[Len(p)] = "/"
ends_with_slashes(p) == Len(p) > 1 /\ p[Len(p)] = "/" /\ p[Len(p) - 1] = "/"
starts_with_slashes(p) == Len(p) > 1 /\ p[1] = "/" /\ p[2] = "/"

\* str::trim_matches('/')
trim_matches(p) ==
  LET kept == {i \in DOMAIN p : p[i] # "/"}
  IN IF kept = {} THEN <<>> ELSE SubSeq(p, Min(kept), Max(kept))

\* Uri::from_parts refuses a path beside an authority without a scheme; the
\* URI is then left as it is.  The query is carried over.
from_parts(uri, new_path) ==
  IF uri.form = "authority" THEN uri
  ELSE [uri EXCEPT !.path = new_path,
                   !.form = IF @ = "asterisk" THEN "origin" ELSE @]

trim_trailing_slash(uri) ==
  IF ~ ends_with_slash(uri.path) /\ ~ starts_with_slashes(uri.path) THEN uri
  ELSE from_parts(uri, <<"/">> \o trim_matches(uri.path))

\* Mutant: several slashes at the end count as one.
append_trailing_slash_Once(uri) ==
  IF ends_with_slash(uri.path) THEN uri
  ELSE from_parts(uri, <<"/">> \o trim_matches(uri.path) \o <<"/">>)

append_trailing_slash(uri) ==
  IF ends_with_slash(uri.path) /\ ~ ends_with_slashes(uri.path) THEN uri
  ELSE LET trimmed == trim_matches(uri.path)
       IN from_parts(uri, IF trimmed = <<>> THEN <<"/">>
                          ELSE <<"/">> \o trimmed \o <<"/">>)

Normalize(mode, uri) ==
  IF mode = "trim" THEN trim_trailing_slash(uri) ELSE append_trailing_slash(uri)
=============================================================================
