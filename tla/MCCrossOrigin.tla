--------------------------- MODULE MCCrossOrigin ----------------------------
(* The server is https://s.com; its pages, the same host over http, a      *)
(* subdomain, a partner and an opaque origin.                              *)
EXTENDS CrossOrigin

MCUri ==
  [o \in {"self", "http", "www", "partner", "null"} |->
     CASE o = "self"    -> [scheme |-> "https", host |-> "s.com", site |-> "https s.com"]
       [] o = "http"    -> [scheme |-> "http", host |-> "s.com", site |-> "http s.com"]
       [] o = "www"     -> [scheme |-> "https", host |-> "www.s.com", site |-> "https s.com"]
       [] o = "partner" -> [scheme |-> "https", host |-> "p.com", site |-> "https p.com"]
       [] o = "null"    -> [scheme |-> "none", host |-> "null", site |-> "none"]]

Choice(k, s)  == [kind |-> k, set |-> s]
Mirror        == [mirror |-> TRUE, const |-> {}]
Const(values) == [mirror |-> FALSE, const |-> values]

\* CorsLayer::new
New == [allow_origin |-> Choice("List", {}), allow_credentials |-> Choice("No", {}),
        allow_private_network |-> Choice("No", {}), allow_methods |-> Const({}),
        allow_headers |-> Const({}), expose_headers |-> {}, vary |-> {},
        is_vary_custom |-> FALSE]
\* CorsLayer::permissive and very_permissive
Permissive == [New EXCEPT !.allow_origin = Choice("Const", Wildcard),
                 !.allow_methods = Const(Wildcard), !.allow_headers = Const(Wildcard),
                 !.expose_headers = Wildcard]
VeryPermissive == [New EXCEPT !.allow_origin = Choice("Predicate", DOMAIN MCUri),
                     !.allow_credentials = Choice("Yes", {}),
                     !.allow_methods = Mirror, !.allow_headers = Mirror]
Listed == [New EXCEPT !.allow_origin = Choice("List", {"www", "partner"}),
             !.allow_credentials = Choice("Predicate", {"www"}),
             !.allow_private_network = Choice("Predicate", {"www"}),
             !.allow_methods = Const({"PUT"}), !.allow_headers = Const({"x"})]

MCLayers ==
  {New, Permissive, VeryPermissive, Listed,
   [Listed EXCEPT !.allow_origin.kind = "AsyncPredicate"],
   [Listed EXCEPT !.allow_origin = Choice("Const", {"www"})],
   [VeryPermissive EXCEPT !.allow_origin.kind = "AsyncPredicate",
                          !.allow_private_network = Choice("Yes", {})],
   [Listed EXCEPT !.is_vary_custom = TRUE, !.vary = {"origin", "x-foo"}],
   [Permissive EXCEPT !.allow_credentials = Choice("Yes", {})],
   [Permissive EXCEPT !.allow_credentials = Choice("Predicate", {"www"})]}

Candidate(o, f) == [origin |-> o, form |-> f]
MCProtections ==
  {[candidates |-> {}, bypass |-> {"/hook"}],
   [candidates |-> {Candidate("partner", "fine"), Candidate("null", "fine"),
                    Candidate("www", "path")}, bypass |-> {}]}

MCHandlers == [negotiates : BOOLEAN, origin : {{}, Wildcard}]

Page(client, o, m) ==
  [client |-> client, origin |-> o, method |-> m, headers |-> {}, credentials |-> FALSE,
   private |-> FALSE, accept |-> "en", path |-> "/", via |-> "direct"]

(* Pages that read, with and without credentials; pages that ask for more  *)
(* than a simple request; clients of all kinds that write.                 *)
MCFetches ==
  {[Page("modern", o, "GET") EXCEPT !.credentials = c, !.accept = a] :
     o \in {"self", "www", "partner"}, c \in BOOLEAN, a \in {"en", "fr"}}
  \cup {[Page("modern", o, m) EXCEPT !.headers = h, !.credentials = c, !.private = p] :
          o \in {"www", "partner"}, m \in {"GET", "PUT"}, h \in {{}, {"x"}},
          c \in BOOLEAN, p \in BOOLEAN}
  \cup {[Page(k, o, "POST") EXCEPT !.path = path, !.via = via] :
          k \in {"modern", "old"}, o \in DOMAIN MCUri, path \in {"/", "/hook"},
          via \in {"direct", "absolute", "rewritten"}}
  \cup {Page(k, "self", "POST") : k \in {"user", "program", "blank"}}
=============================================================================
