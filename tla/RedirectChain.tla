--------------------------- MODULE RedirectChain ----------------------------
(***************************************************************************)
(* What FollowRedirect promises of one call, without saying how: a chain   *)
(* of requests that takes no more hops than it was allowed, in which what  *)
(* a request carries (headers and extensions) only ever gets less, and in  *)
(* which nothing secret goes on after the chain has left the origin of the *)
(* first request, even if it comes back.                                   *)
(***************************************************************************)
EXTENDS Naturals

CONSTANT Items   \* what requests carry

VARIABLES
  stage,    \* "idle", "open", "over"
  left,     \* hops left
  secret,   \* items for the first origin only
  carried,  \* items in the last request
  home      \* every request so far went to the first origin

vars == <<stage, left, secret, carried, home>>

Init ==
  /\ stage = "idle"
  /\ left \in Nat
  /\ secret \in SUBSET Items
  /\ carried = {}
  /\ home = TRUE

\* The first request.
Start ==
  /\ stage = "idle"
  /\ stage' = "open"
  /\ carried' \in SUBSET Items
  /\ UNCHANGED <<left, secret, home>>

Hop ==
  /\ stage = "open"
  /\ left > 0
  /\ left' = left - 1
  /\ carried' \in SUBSET carried
  /\ home' \in {home, FALSE}
  /\ ~ home' => carried' \cap secret = {}
  /\ UNCHANGED <<stage, secret>>

\* The future resolves or is dropped.
End ==
  /\ stage = "open"
  /\ stage' = "over"
  /\ UNCHANGED <<left, secret, carried, home>>

Next == Start \/ Hop \/ End

Spec == Init /\ [][Next]_vars
=============================================================================
