-------------------------- MODULE ContentEncoding ---------------------------
(***************************************************************************)
(* content_encoding.rs: the choice of an encoding from the request's       *)
(* Accept-Encoding headers.                                                *)
(*                                                                         *)
(* A header is the sequence of its comma-separated elements, all header    *)
(* lines together; an element is [coding, q].  A coding is a name, in the  *)
(* letter case of the comparison the code makes; q is NoQ, or the digits   *)
(* of a weight: [lead, digits], lead the digit in front of the point and   *)
(* digits those behind it.                                                 *)
(***************************************************************************)
EXTENDS Integers, Sequences, SequencesExt, FiniteSetsExt

NoQ == [lead |-> -1, digits |-> <<>>]
Element == [coding : STRING, q : {NoQ} \cup [lead : Nat, digits : Seq(0..9)]]

(* Encoding, ordered from least to most preferred, and the names it is     *)
(* parsed from.                                                            *)
Encodings == <<"identity", "deflate", "gzip", "br", "zstd">>
Compressed == {"deflate", "gzip", "br", "zstd"}
Preference(encoding) == SelectInSeq(Encodings, LAMBDA e : e = encoding)

(* AcceptEncoding: the sets its setters and the crate features can give.   *)
AcceptEncoding == SUBSET Compressed

Unknown == "unknown"

(* Encoding::parse: supported is the set of encodings SupportedEncodings   *)
(* enables; a name that is not supported is an unknown one.                *)
Parse(coding, supported) ==
  CASE coding \in {"gzip", "x-gzip"} /\ "gzip" \in supported -> "gzip"
    [] coding \in supported \cup {"identity"} -> coding
    [] OTHER -> Unknown

(* QValue::parse: thousandths, or BadQ.  The loop multiplies the n-th      *)
(* digit by 100, 10 and 1, and fails on a fourth one.  after[n] is the     *)
(* value and the factor once n digits are read.                            *)
BadQ == -1
One == 1000

ParseQ(q) ==
  LET after[n \in 0..Len(q.digits)] ==
        IF n = 0
          THEN [value |-> q.lead * 1000, factor |-> 100]
          ELSE [value  |-> after[n - 1].value + after[n - 1].factor * q.digits[n],
                factor |-> after[n - 1].factor \div 10]
      sum == after[Len(q.digits)].value
  IN IF q = NoQ THEN One
     ELSE IF q.lead \in {0, 1} /\ Len(q.digits) <= 3 /\ sum <= 1000 THEN sum
     ELSE BadQ

(* encodings: the elements, by their place in the header, that name a      *)
(* supported encoding with a weight that parses, and the set of what they  *)
(* say.                                                                    *)
Listed(header, supported) ==
  {i \in DOMAIN header :
     Parse(header[i].coding, supported) # Unknown /\ ParseQ(header[i].q) # BadQ}

Explicit(header, supported) ==
  {[encoding |-> Parse(header[i].coding, supported),
    qvalue   |-> ParseQ(header[i].q)] : i \in Listed(header, supported)}

(* wildcard_qvalue: the first "*" whose weight parses, BadQ if there is    *)
(* none (None in the code).                                                *)
Wildcard(header) ==
  LET first == SelectInSeq(header, LAMBDA e : e.coding = "*" /\ ParseQ(e.q) # BadQ)
  IN IF first = 0 THEN BadQ ELSE ParseQ(header[first].q)

\* Mutant: the variants of Encoding are listed the other way round.
Less_Reversed(a, b) ==
  \/ a.qvalue < b.qvalue
  \/ a.qvalue = b.qvalue /\ Preference(a.encoding) > Preference(b.encoding)

(* The derived order on (qvalue, encoding).                                *)
Less(a, b) ==
  \/ a.qvalue < b.qvalue
  \/ a.qvalue = b.qvalue /\ Preference(a.encoding) < Preference(b.encoding)

\* Mutant: excluded encodings (q=0) compete too.
PreferredEncoding_ZeroCounts(weighted) ==
  IF weighted = {}
    THEN Unknown
    ELSE (CHOOSE e \in weighted : \A other \in weighted : ~Less(e, other)).encoding

(* Encoding::preferred_encoding: the greatest (qvalue, encoding) with a    *)
(* positive qvalue; Unknown for None.                                      *)
PreferredEncoding(weighted) ==
  LET acceptable == {e \in weighted : e.qvalue > 0} IN
  IF acceptable = {}
    THEN Unknown
    ELSE (CHOOSE e \in acceptable :
            \A other \in acceptable : ~Less(e, other)).encoding

(* The qvalue preferred_encoding_with_wildcard gives an encoding when the  *)
(* header has a wildcard: its first explicit one, else the wildcard's.     *)
Effective(encoding, header, supported) ==
  LET own == {i \in Listed(header, supported) :
                Parse(header[i].coding, supported) = encoding}
  IN IF own = {} THEN Wildcard(header) ELSE ParseQ(header[Min(own)].q)

\* Mutant: identity is offered only when it is listed.
FromHeaders_NoFallback(header, supported) ==
  IF Wildcard(header) = BadQ
    THEN PreferredEncoding(Explicit(header, supported))
    ELSE PreferredEncoding(
           {[encoding |-> e, qvalue |-> Effective(e, header, supported)] :
              e \in supported \cup {"identity"}})

(* preferred_encoding_with_wildcard, the whole of Encoding::from_headers:  *)
(* Unknown means None, the client's preferences cannot be met.             *)
FromHeaders(header, supported) ==
  LET explicit  == Explicit(header, supported)
      preferred == PreferredEncoding(explicit)
      rejected  == \E e \in explicit : e.encoding = "identity" /\ e.qvalue = 0
  IN IF Wildcard(header) = BadQ
       THEN IF preferred = Unknown /\ ~rejected THEN "identity" ELSE preferred
       ELSE PreferredEncoding(
              {[encoding |-> e, qvalue |-> Effective(e, header, supported)] :
                 e \in supported \cup {"identity"}})
=============================================================================
