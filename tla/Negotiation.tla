---------------------------- MODULE Negotiation -----------------------------
(***************************************************************************)
(* What the client asked for: a definition, from RFC 9110, of the best     *)
(* encoding of a set that an Accept-Encoding header accepts, against which *)
(* Encoding::from_headers is checked.                                      *)
(***************************************************************************)
EXTENDS ContentEncoding

(* RFC 9110 12.4.2: a weight is 0 to 1 with at most three decimals.        *)
WellFormed(q) ==
  \/ q = NoQ
  \/ /\ Len(q.digits) <= 3
     /\ \/ q.lead = 0
        \/ q.lead = 1 /\ ToSet(q.digits) \subseteq {0}

Thousandths(q) ==
  LET Digit(n) == IF n \in DOMAIN q.digits THEN q.digits[n] ELSE 0
  IN IF q = NoQ THEN 1000
     ELSE 1000 * q.lead + 100 * Digit(1) + 10 * Digit(2) + Digit(3)

(* The well-formed elements for one encoding, or for "*".                  *)
Elements(header, name) ==
  {i \in DOMAIN header :
     /\ WellFormed(header[i].q)
     /\ header[i].coding \in (IF name = "gzip" THEN {"gzip", "x-gzip"} ELSE {name})}

Weight(header, name) == Thousandths(header[Max(Elements(header, name))].q)

Candidates(supported) == supported \cup {"identity"}

(* The header says one thing about each encoding.                          *)
Consistent(header, supported) ==
  \A name \in Candidates(supported) \cup {"*"} : Cardinality(Elements(header, name)) <= 1

(* What the header says an encoding is worth, in half thousandths: its own *)
(* weight, else the wildcard's; identity needs no mention, but is then     *)
(* worth less than anything the client asked for.                          *)
Worth(header, name) ==
  IF Elements(header, name) # {} THEN 2 * Weight(header, name)
  ELSE IF Elements(header, "*") # {} THEN 2 * Weight(header, "*")
  ELSE IF name = "identity" THEN 1
  ELSE 0

(* The one worth most, the server's preference deciding between equals.    *)
Best(header, supported, encoding) ==
  IF encoding = Unknown
    THEN \A name \in Candidates(supported) : Worth(header, name) = 0
    ELSE /\ Worth(header, encoding) > 0
         /\ \A other \in Candidates(supported) \ {encoding} :
              \/ Worth(header, other) < Worth(header, encoding)
              \/ /\ Worth(header, other) = Worth(header, encoding)
                 /\ Preference(other) < Preference(encoding)

(* Not only excluded.                                                      *)
Acceptable(header, supported, encoding) ==
  LET Wanted(name) == \E i \in Elements(header, name) : Thousandths(header[i].q) > 0
  IN /\ encoding \in Candidates(supported)
     /\ \/ Wanted(encoding)
        \/ /\ Elements(header, encoding) = {}
           /\ \/ Wanted("*")
              \/ encoding = "identity" /\ Elements(header, "*") = {}
=============================================================================
