---------------------------- MODULE MCReadiness -----------------------------
EXTENDS Readiness, SequencesExt

(* Every stack of at most three layers with at most one FollowRedirect.    *)
MCStacks ==
  {s \in BoundedSeq(Kinds, 3) :
     Cardinality({i \in DOMAIN s : s[i] = "follow"}) <= 1}
=============================================================================
