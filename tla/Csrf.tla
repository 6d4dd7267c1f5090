-------------------------------- MODULE Csrf --------------------------------
(***************************************************************************)
(* The decision of the Csrf middleware (csrf/).  A configuration C has     *)
(*   candidates   the origins given to add_trusted_origin, and their form  *)
(*   bypass       the paths with_insecure_bypass exempts                   *)
(***************************************************************************)
CONSTANT Uri   \* the parts of every origin: [origins -> [scheme, host, site]]

ASSUME UriAssumption ==
  \A o \in DOMAIN Uri : Uri[o] \in [scheme : STRING, host : STRING, site : STRING]

Absent == "absent"

WebOrigin(o) == Uri[o].scheme \in {"http", "https"}

(* UriExt::parse_origin.  The form of a candidate is the first thing that  *)
(* is wrong with it, if anything is.                                       *)
parse_origin(c) ==
  CASE c.form = "fragment"   -> "InvalidOriginUrlComponents"
    [] c.form = "not ascii"  -> "NonAsciiHostname"
    [] c.form = "not a url"  -> "InvalidOriginUrl"
    [] c.form \in {"fine", "path", "query"} /\ ~WebOrigin(c.origin)
         -> "OpaqueOrigin"
    [] c.form \in {"path", "query"} /\ WebOrigin(c.origin)
         -> "InvalidOriginUrlComponents"
    [] OTHER -> "Ok"

(* add_trusted_origin: what is rejected is not added.                      *)
TrustedOrigins(C) == {c.origin : c \in {d \in C.candidates : parse_origin(d) = "Ok"}}

SafeMethods == {"GET", "HEAD", "OPTIONS"}

is_exempt(C, r) == r.path \in C.bypass \/ r.origin \in TrustedOrigins(C)

(* The authority of the request target, else the Host header.              *)
effective_host(r) == IF r.authority # Absent THEN r.authority ELSE r.host

(* origin_uri has the authority that the request was sent to.              *)
SameHost(r) ==
  /\ WebOrigin(r.origin)
  /\ effective_host(r) # Absent
  /\ Uri[r.origin].host = effective_host(r)

\* Mutant: same-site is taken for same-origin.
verify_SameSite(C, r) ==
  IF \/ r.method \in SafeMethods
     \/ r.sec_fetch_site \in {"same-origin", "same-site", "none"}
     \/ is_exempt(C, r)
    THEN "Ok"
  ELSE IF r.sec_fetch_site \notin {Absent, ""} THEN "CrossOriginRequest"
  ELSE IF ~r.has_origin \/ SameHost(r) THEN "Ok"
  ELSE "CrossOriginRequestFromOldBrowser"

(* Csrf::verify.  has_origin: there is an Origin header with a value.      *)
verify(C, r) ==
  IF r.method \in SafeMethods \/ r.sec_fetch_site \in {"same-origin", "none"}
    THEN "Ok"
  ELSE IF r.sec_fetch_site \notin {Absent, ""}
    THEN IF is_exempt(C, r) THEN "Ok" ELSE "CrossOriginRequest"
  ELSE IF ~r.has_origin \/ SameHost(r) \/ is_exempt(C, r) THEN "Ok"
  ELSE "CrossOriginRequestFromOldBrowser"
=============================================================================
