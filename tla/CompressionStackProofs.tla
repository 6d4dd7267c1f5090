----------------------- MODULE CompressionStackProofs -----------------------
(***************************************************************************)
(* Compression, Decompression and RequestDecompression around a handler,   *)
(* for all settings, headers, codings and sizes and any number of          *)
(* Content-Encoding lines: the choice of an encoding is right, and headers *)
(* and bodies agree unless only the first of several codings was undone.   *)
(***************************************************************************)
EXTENDS CompressionStack, WellFoundedInduction, NaturalsInduction, SequenceTheorems,
        FiniteSetTheorems, TLAPS

Headers == Seq(Element) \cup {ToHeaderValue(a) : a \in AcceptEncoding}
Settings == [load : DOMAIN Loads, client : AcceptEncoding, server : AcceptEncoding,
             pass_through : BOOLEAN]
Outcomes == Compressed \cup {"identity", Unknown}
Weights == {NoQ} \cup [lead : Nat, digits : Seq(0..9)]

IsRequest(q) ==
  q = [accept |-> q.accept, content_encoding |-> q.content_encoding,
       length |-> q.length, body |-> q.body]
IsResponse(r) ==
  r = [status |-> r.status, content_encoding |-> r.content_encoding,
       content_range |-> r.content_range, accept_ranges |-> r.accept_ranges,
       vary |-> r.vary, type |-> r.type, size |-> r.size, hint |-> r.hint,
       length |-> r.length, body |-> r.body, accept |-> r.accept]

(* The body is coded as its lines say.                                     *)
Carried(m) == m.body = Coded(Applied(m.content_encoding))

(* What the request still is, or that it was decoded.                      *)
Untouched ==
  /\ req.content_encoding = asked.content_encoding
  /\ req.body = asked.body
  /\ at = "handler" /\ ~config.pass_through => FirstLine(asked) \in {"", "identity"}
Undone ==
  /\ at \notin {"client", "compression", "request_decompression"}
  /\ req.content_encoding = <<>> /\ req.length = FALSE
  /\ FirstLineSaysAll(asked) => req.body = Coded(<<>>)

RequestIs ==
  /\ config \in Settings
  /\ at \in {"client", "compression", "request_decompression", "handler",
             "response", "wire", "done"}
  /\ Carried(asked) /\ IsRequest(req)
  /\ Untouched \/ Undone
  /\ req.accept \in Headers
  /\ at \notin {"client", "compression"} =>
       /\ encoding \in Outcomes
       /\ req.accept \in {ToHeaderValue(config.client)} =>
            encoding \in (config.client \cap config.server) \cup {"identity"}

(* The response before and after each middleware.                          *)
ResponseIs ==
  IF at \in {"response", "wire", "done"}
    THEN /\ IsResponse(made) /\ Carried(made) /\ made.length \in BOOLEAN
         /\ LET sent == Compress(encoding, made) IN
            res = CASE at = "response" -> made
                    [] at = "wire" -> sent
                    [] at = "done" -> IF Decodes(sent, config.client)
                                        THEN Decoded(sent) ELSE sent
    ELSE made = Absent /\ res = Absent

(* Why a request was refused.                                              *)
HandlerIs ==
  at \in {"response", "wire", "done"} /\ made.status = "unsupported" =>
    /\ made.accept = Unsupported.accept
    /\ FirstLine(asked) \notin config.server \cup {"", "identity"}

CompressionInv == RequestIs /\ ResponseIs /\ HandlerIs
-----------------------------------------------------------------------------
(* QValue::parse reads the thousandths of a weight exactly when it is      *)
(* well-formed.                                                            *)
ReadsDigits(f, a, d, k) ==
  f = [n \in 0..k |->
         IF n = 0
           THEN [value |-> a * 1000, factor |-> 100]
           ELSE [value  |-> f[n - 1].value + f[n - 1].factor * d[n],
                 factor |-> f[n - 1].factor \div 10]]

AreDigits(a, d, k) == a \in Nat /\ k \in 0..3 /\ \A n \in 1..k : d[n] \in 0..9

Decimal(a, d, k) ==
  1000 * a + (IF k >= 1 THEN 100 * d[1] ELSE 0) + (IF k >= 2 THEN 10 * d[2] ELSE 0)
           + (IF k >= 3 THEN d[3] ELSE 0)

LEMMA DigitsAdd ==
  ASSUME NEW a, NEW d, NEW k, NEW f, AreDigits(a, d, k), ReadsDigits(f, a, d, k)
  PROVE  f[k].value = Decimal(a, d, k)
<1>0. a \in Nat /\ k \in 0..3 /\ \A n \in 1..k : d[n] \in 0..9
  BY DEF AreDigits
<1>1. f[0].value = 1000 * a /\ f[0].factor = 100
  BY <1>0 DEF ReadsDigits
<1>2. ASSUME NEW n \in 1..k
      PROVE  /\ f[n].value = f[n - 1].value + f[n - 1].factor * d[n]
             /\ f[n].factor = f[n - 1].factor \div 10
  BY <1>0 DEF ReadsDigits
<1>3. k >= 1 => f[1].value = 1000 * a + 100 * d[1] /\ f[1].factor = 10
  BY <1>0, <1>1, <1>2
<1>4. k >= 2 => f[2].value = 1000 * a + 100 * d[1] + 10 * d[2] /\ f[2].factor = 1
  BY <1>0, <1>2, <1>3
<1>5. k >= 3 => f[3].value = 1000 * a + 100 * d[1] + 10 * d[2] + d[3]
  <2> SUFFICES ASSUME k >= 3 PROVE f[3].value = 1000 * a + 100 * d[1] + 10 * d[2] + d[3]
    OBVIOUS
  <2>1. f[2].value = 1000 * a + 100 * d[1] + 10 * d[2] /\ f[2].factor = 1
    BY <1>0, <1>4
  <2>2. f[3].value = f[2].value + f[2].factor * d[3] /\ d[3] \in 0..9
    BY <1>0, <1>2
  <2>3. f[2].factor * d[3] = d[3]
    BY <2>1, <2>2
  <2> QED  BY <2>1, <2>2, <2>3
<1>6. CASE k = 0
  BY <1>0, <1>1, <1>6 DEF Decimal
<1>7. CASE k = 1
  BY <1>0, <1>3, <1>7 DEF Decimal
<1>8. CASE k = 2
  BY <1>0, <1>4, <1>8 DEF Decimal
<1>9. CASE k = 3
  BY <1>0, <1>5, <1>9 DEF Decimal
<1> QED  BY <1>0, <1>6, <1>7, <1>8, <1>9

LEMMA AfterExists ==
  ASSUME NEW a \in Nat, NEW d, NEW k \in 0..3
  PROVE  \E f : ReadsDigits(f, a, d, k)
<1> DEFINE Step(x, n) == [value |-> x.value + x.factor * d[n], factor |-> x.factor \div 10]
           x0 == [value |-> a * 1000, factor |-> 100]
           x1 == Step(x0, 1)
           x2 == Step(x1, 2)
           x3 == Step(x2, 3)
           g == [n \in 0..k |-> IF n = 0 THEN x0 ELSE IF n = 1 THEN x1
                                ELSE IF n = 2 THEN x2 ELSE x3]
<1> HIDE DEF Step, x0, x1, x2, x3
<1>1. g = [n \in 0..k |-> IF n = 0 THEN x0 ELSE Step(g[n - 1], n)]
  <2> SUFFICES ASSUME NEW n \in 0..k
               PROVE  g[n] = IF n = 0 THEN x0 ELSE Step(g[n - 1], n)
    BY Zenon
  <2>0. n \in 0..3 /\ (n # 0 => n - 1 \in 0..k)
    OBVIOUS
  <2>1. CASE n = 0
    BY <2>1
  <2>2. CASE n = 1
    BY <2>0, <2>2 DEF x1
  <2>3. CASE n = 2
    BY <2>0, <2>3 DEF x2
  <2>4. CASE n = 3
    BY <2>0, <2>4 DEF x3
  <2> QED  BY <2>0, <2>1, <2>2, <2>3, <2>4
<1> HIDE DEF g
<1>2. ReadsDigits(g, a, d, k)
  BY <1>1 DEF Step, x0, ReadsDigits
<1> QED  BY <1>2

LEMMA ParseQIs ==
  ASSUME NEW q \in Weights
  PROVE  /\ ParseQ(q) \in {BadQ} \cup 0..One
         /\ ParseQ(q) # BadQ <=> WellFormed(q)
         /\ WellFormed(q) => ParseQ(q) = Thousandths(q)
<1>1. CASE q = NoQ
  BY <1>1 DEF ParseQ, WellFormed, Thousandths, BadQ, One
<1>2. CASE q # NoQ
  <2> DEFINE k == Len(q.digits)
             d == q.digits
             a == q.lead
             f == CHOOSE f : ReadsDigits(f, a, d, k)
  <2>1. a \in Nat /\ k \in Nat /\ d \in Seq(0..9) /\ \A n \in 1..k : d[n] \in 0..9
    BY <1>2 DEF Weights
  <2>2. DOMAIN d = 1..k
    BY <2>1
  <2>3. ParseQ(q) = IF a \in {0, 1} /\ k <= 3 /\ f[k].value <= 1000
                      THEN f[k].value ELSE BadQ
    BY <1>2, Zenon DEF ParseQ, ReadsDigits
  <2> DEFINE D(n) == IF n \in DOMAIN d THEN d[n] ELSE 0
  <2>4. WellFormed(q) <=> k <= 3 /\ (a = 0 \/ (a = 1 /\ \A n \in 1..k : d[n] = 0))
    <3>1. ToSet(d) = {d[n] : n \in 1..k}
      BY <2>2 DEF ToSet
    <3> QED  BY <1>2, <3>1 DEF WellFormed
  <2>5. Thousandths(q) = 1000 * a + 100 * D(1) + 10 * D(2) + D(3)
    BY <1>2 DEF Thousandths
  <2> HIDE DEF k, d, a, f
  <2>6. CASE k > 3
    BY <2>1, <2>3, <2>4, <2>6
  <2>7. CASE k <= 3
    <3>1. k \in 0..3
      BY <2>1, <2>7
    <3>2. ReadsDigits(f, a, d, k)
      <4>1. \E g : ReadsDigits(g, a, d, k)
        BY <2>1, <3>1, AfterExists
      <4> QED  BY <4>1, Zenon DEF f
    <3>3. f[k].value = Decimal(a, d, k)
      <4>1. AreDigits(a, d, k)
        BY <2>1, <3>1 DEF AreDigits
      <4> QED  BY <3>2, <4>1, DigitsAdd, Zenon
    <3>4. /\ D(1) = IF k >= 1 THEN d[1] ELSE 0
          /\ D(2) = IF k >= 2 THEN d[2] ELSE 0
          /\ D(3) = IF k >= 3 THEN d[3] ELSE 0
      BY <2>2, <3>1
    <3>5. D(1) \in 0..9 /\ D(2) \in 0..9 /\ D(3) \in 0..9
      BY <2>1, <2>2, <3>1
    <3>6. (\A n \in 1..k : d[n] = 0) <=> D(1) = 0 /\ D(2) = 0 /\ D(3) = 0
      BY <2>1, <3>1, <3>4
    <3> HIDE DEF D
    <3>7. f[k].value = 1000 * a + 100 * D(1) + 10 * D(2) + D(3)
      BY <3>3, <3>4, <3>5, <2>1 DEF Decimal
    <3> DEFINE v == f[k].value
               t == Thousandths(q)
               p == ParseQ(q)
    <3>8. v = t /\ p = IF a \in {0, 1} /\ v <= 1000 THEN v ELSE BadQ
      BY <2>3, <2>5, <2>7, <3>7
    <3> HIDE DEF v, t, p
    <3>9. CASE a = 0
      <4>1. t \in 0..999
        BY <2>5, <3>5, <3>9 DEF t
      <4> QED  BY <2>4, <2>7, <3>8, <3>9, <4>1 DEF One, BadQ, t, p
    <3>10. CASE a = 1
      <4>1. t \in 1000..1999 /\ (t = 1000 <=> D(1) = 0 /\ D(2) = 0 /\ D(3) = 0)
        BY <2>5, <3>5, <3>10 DEF t
      <4> QED  BY <2>4, <2>7, <3>6, <3>8, <3>10, <4>1 DEF One, BadQ, t, p
    <3>11. CASE a \notin {0, 1}
      BY <2>4, <3>8, <3>11 DEF One, BadQ, t, p
    <3> QED  BY <3>9, <3>10, <3>11
  <2> QED  BY <2>1, <2>6, <2>7
<1> QED  BY <1>1, <1>2

-----------------------------------------------------------------------------
(* A header whose weights can be read.                                     *)
Readable(h) ==
  Len(h) \in Nat /\ DOMAIN h = 1..Len(h) /\ \A i \in DOMAIN h : h[i].q \in Weights

LEMMA LeastExists ==
  ASSUME NEW S, S \subseteq Nat, S # {}
  PROVE  \E n \in S : \A y \in S : n =< y
<1>1. PICK n \in S : \A y \in S : ~ (<<y, n>> \in OpToRel(<, Nat))
  BY WFMin, NatLessThanWellFounded
<1>2. ASSUME NEW y \in S
      PROVE  n =< y
  <2>1. ~ (y < n)
    BY <1>1 DEF OpToRel
  <2> QED  BY <2>1
<1> QED  BY <1>2

LEMMA MinIn ==
  ASSUME NEW S, S \subseteq Nat, S # {}
  PROVE  Min(S) \in S
<1>1. \E n \in S : \A y \in S : n =< y
  BY LeastExists
<1> QED  BY <1>1 DEF Min

(* Encoding::parse knows each encoding by its names.                       *)
LEMMA ParseIs ==
  ASSUME NEW supported \in AcceptEncoding, NEW c
  PROVE  /\ Parse(c, supported) \in Candidates(supported) \cup {Unknown}
         /\ \A name \in Candidates(supported) :
              Parse(c, supported) = name <=>
                c \in (IF name = "gzip" THEN {"gzip", "x-gzip"} ELSE {name})
<1>1. supported \subseteq {"deflate", "gzip", "br", "zstd"}
  BY DEF AcceptEncoding, Compressed
<1>2. CASE c \in {"gzip", "x-gzip"} /\ "gzip" \in supported
  <2>1. Parse(c, supported) = "gzip"
    BY <1>1, <1>2 DEF Parse
  <2> QED  BY <1>1, <1>2, <2>1 DEF Candidates
<1>3. CASE c \in {"gzip", "x-gzip"} /\ "gzip" \notin supported
  <2>1. Parse(c, supported) = "unknown"
    BY <1>1, <1>3 DEF Parse, Unknown
  <2> QED  BY <1>1, <1>3, <2>1 DEF Candidates, Unknown
<1>4. CASE c \notin {"gzip", "x-gzip"} /\ c \in supported \cup {"identity"}
  <2>1. Parse(c, supported) = c
    BY <1>1, <1>4 DEF Parse
  <2> QED  BY <1>1, <1>4, <2>1 DEF Candidates
<1>5. CASE c \notin {"gzip", "x-gzip"} /\ c \notin supported \cup {"identity"}
  <2>1. Parse(c, supported) = "unknown"
    BY <1>1, <1>5 DEF Parse, Unknown
  <2> QED  BY <1>1, <1>5, <2>1 DEF Candidates, Unknown
<1> QED  BY <1>2, <1>3, <1>4, <1>5

LEMMA UnknownIsNone ==
  ASSUME NEW supported \in AcceptEncoding
  PROVE  Unknown \notin Candidates(supported) /\ "*" \notin Candidates(supported)
         /\ "gzip" # "*"
  BY DEF AcceptEncoding, Compressed, Candidates, Unknown

(* The elements that encodings and wildcard_qvalue find are the            *)
(* well-formed ones, and their weights are thousandths.                    *)
LEMMA ElementParts ==
  ASSUME NEW h, Readable(h), NEW name, NEW i \in Elements(h, name)
  PROVE  /\ i \in DOMAIN h /\ i \in Nat
         /\ ParseQ(h[i].q) = Thousandths(h[i].q) /\ Thousandths(h[i].q) \in 0..One
<1>1. i \in DOMAIN h /\ WellFormed(h[i].q)
  BY DEF Elements
<1>2. h[i].q \in Weights
  BY <1>1 DEF Readable
<1>3. BadQ \notin 0..One
  BY DEF BadQ, One
<1>4. i \in Nat
  BY <1>1 DEF Readable
<1> QED  BY <1>1, <1>2, <1>3, <1>4, ParseQIs

LEMMA ElementsAreNat ==
  ASSUME NEW h, Readable(h), NEW name
  PROVE  Elements(h, name) \subseteq Nat /\ Elements(h, name) \subseteq DOMAIN h
  BY ElementParts

LEMMA ListedIs ==
  ASSUME NEW h, Readable(h), NEW supported \in AcceptEncoding
  PROVE  /\ \A name \in Candidates(supported) :
              {i \in Listed(h, supported) : Parse(h[i].coding, supported) = name}
                = Elements(h, name)
         /\ \A i \in Listed(h, supported) :
              /\ Parse(h[i].coding, supported) \in Candidates(supported)
              /\ i \in Elements(h, Parse(h[i].coding, supported))
<1>1. ASSUME NEW i \in DOMAIN h
      PROVE  ParseQ(h[i].q) # BadQ <=> WellFormed(h[i].q)
  <2>1. h[i].q \in Weights
    BY DEF Readable
  <2> QED  BY <2>1, ParseQIs
<1>2. ASSUME NEW i \in Listed(h, supported)
      PROVE  Parse(h[i].coding, supported) \in Candidates(supported)
  BY ParseIs DEF Listed
<1>3. ASSUME NEW name \in Candidates(supported)
      PROVE  {i \in Listed(h, supported) : Parse(h[i].coding, supported) = name}
               = Elements(h, name)
  <2>1. ASSUME NEW i \in DOMAIN h
        PROVE  i \in Listed(h, supported) /\ Parse(h[i].coding, supported) = name
                 <=> i \in Elements(h, name)
    <3>1. name # Unknown
      BY UnknownIsNone
    <3>2. Parse(h[i].coding, supported) = name <=>
            h[i].coding \in (IF name = "gzip" THEN {"gzip", "x-gzip"} ELSE {name})
      BY ParseIs
    <3> QED  BY <1>1, <3>1, <3>2 DEF Listed, Elements
  <2>2. Listed(h, supported) \subseteq DOMAIN h /\ Elements(h, name) \subseteq DOMAIN h
    BY DEF Listed, Elements
  <2> QED  BY <2>1, <2>2
<1> QED  BY <1>2, <1>3

LEMMA WildcardIs ==
  ASSUME NEW h, Readable(h)
  PROVE  Wildcard(h) = IF Elements(h, "*") = {}
                         THEN BadQ ELSE Thousandths(h[Min(Elements(h, "*"))].q)
<1> DEFINE I == {i \in 1..Len(h) : h[i].coding = "*" /\ ParseQ(h[i].q) # BadQ}
<1>1. ASSUME NEW i \in DOMAIN h
      PROVE  ParseQ(h[i].q) # BadQ <=> WellFormed(h[i].q)
  <2>1. h[i].q \in Weights
    BY DEF Readable
  <2> QED  BY <2>1, ParseQIs
<1>2. I = Elements(h, "*")
  <2>1. DOMAIN h = 1..Len(h)
    BY DEF Readable
  <2>2. Elements(h, "*") = {i \in DOMAIN h : WellFormed(h[i].q) /\ h[i].coding = "*"}
    BY DEF Elements
  <2> QED  BY <1>1, <2>1, <2>2
<1> DEFINE first == IF I # {} THEN Min(I) ELSE 0
<1>3. Wildcard(h) = IF first = 0 THEN BadQ ELSE ParseQ(h[first].q)
  BY DEF Wildcard, SelectInSeq
<1> HIDE DEF I
<1>4. CASE I = {}
  BY <1>2, <1>3, <1>4
<1>5. CASE I # {}
  <2>1. I \subseteq Nat
    BY <1>2, ElementsAreNat
  <2>2. Min(I) \in I
    BY <1>5, <2>1, MinIn
  <2>3. 0 \notin I
    BY DEF I
  <2>4. Wildcard(h) = ParseQ(h[Min(I)].q)
    BY <1>3, <1>5, <2>2, <2>3
  <2>5. ParseQ(h[Min(I)].q) = Thousandths(h[Min(I)].q)
    BY <1>2, <2>2, ElementParts
  <2> QED  BY <1>2, <1>5, <2>4, <2>5
<1> QED  BY <1>4, <1>5

LEMMA PreferenceIsBounded ==
  ASSUME NEW e
  PROVE  Preference(e) \in 0..5
<1> DEFINE I == {i \in 1..Len(Encodings) : Encodings[i] = e}
<1>1. Len(Encodings) = 5
  BY DEF Encodings
<1>2. I \subseteq 1..5
  BY <1>1
<1>3. Preference(e) = IF I # {} THEN Min(I) ELSE 0
  BY DEF Preference, SelectInSeq
<1>4. ASSUME I # {} PROVE Min(I) \in I
  <2>1. \E n \in I : \A y \in I : n =< y
    BY <1>2, <1>4, LeastExists
  <2> HIDE DEF I
  <2> QED  BY <2>1 DEF Min
<1>5. CASE I = {}
  BY <1>3, <1>5
<1>6. CASE I # {}
  <2>1. PICK k \in I : Preference(e) = k
    BY <1>3, <1>4, <1>6
  <2>2. k \in 1..5
    BY <1>2
  <2> QED  BY <2>1, <2>2
<1> QED  BY <1>5, <1>6

LEMMA GreatestExists ==
  ASSUME NEW E, NEW S, S \subseteq [encoding : E, qvalue : 0..One], S # {}
  PROVE  \E m \in S : \A other \in S : ~Less(m, other)
<1> DEFINE Score(x) == 6 * x.qvalue + Preference(x.encoding)
           T == {6005 - Score(x) : x \in S}
<1>1. ASSUME NEW x \in S
      PROVE  x.qvalue \in 0..1000 /\ Preference(x.encoding) \in 0..5
  BY PreferenceIsBounded DEF One
<1>2. T \subseteq Nat /\ T # {}
  <2>1. ASSUME NEW x \in S PROVE 6005 - Score(x) \in Nat
    BY <1>1
  <2> QED  BY <2>1
<1>3. PICK t \in T : \A y \in T : t =< y
  <2> HIDE DEF T
  <2> QED  BY <1>2, LeastExists
<1>4. PICK m \in S : t = 6005 - Score(m)
  BY <1>3
<1>5. ASSUME NEW other \in S PROVE ~Less(m, other)
  <2>1. 6005 - Score(m) =< 6005 - Score(other)
    BY <1>3, <1>4
  <2> QED  BY <2>1, <1>1 DEF Less
<1> QED  BY <1>5

LEMMA PreferredParts ==
  ASSUME NEW E, NEW S, S \subseteq [encoding : E, qvalue : 0..One]
  PROVE  \/ PreferredEncoding(S) = Unknown /\ \A x \in S : ~(x.qvalue > 0)
         \/ \E m \in S :
              /\ PreferredEncoding(S) = m.encoding /\ m.qvalue > 0
              /\ \A x \in S : x.qvalue > 0 => ~Less(m, x)
<1> DEFINE A == {e \in S : e.qvalue > 0}
           m == CHOOSE e \in A : \A other \in A : ~Less(e, other)
<1>1. PreferredEncoding(S) = IF A = {} THEN Unknown ELSE m.encoding
  BY DEF PreferredEncoding
<1>2. CASE A = {}
  BY <1>1, <1>2
<1>3. CASE A # {}
  <2>1. A \subseteq [encoding : E, qvalue : 0..One]
    OBVIOUS
  <2>2. \E e \in A : \A other \in A : ~Less(e, other)
    <3> HIDE DEF A
    <3> QED  BY <1>3, <2>1, GreatestExists
  <2>3. m \in A /\ \A other \in A : ~Less(m, other)
    <3> HIDE DEF A
    <3> QED  BY <2>2
  <2>4. PreferredEncoding(S) = m.encoding
    BY <1>1, <1>3
  <2> HIDE DEF m
  <2> QED  BY <2>3, <2>4
<1> QED  BY <1>2, <1>3

LEMMA PreferencesDiffer ==
  ASSUME NEW supported \in AcceptEncoding, NEW a \in Candidates(supported),
         NEW b \in Candidates(supported), a # b
  PROVE  Preference(a) # Preference(b)
<1>1. Len(Encodings) = 5 /\ Encodings[1] = "identity" /\ Encodings[2] = "deflate"
      /\ Encodings[3] = "gzip" /\ Encodings[4] = "br" /\ Encodings[5] = "zstd"
  BY DEF Encodings
<1>2. ASSUME NEW e \in Candidates(supported)
      PROVE  Preference(e) \in 1..5 /\ Encodings[Preference(e)] = e
  <2> DEFINE I == {i \in 1..Len(Encodings) : Encodings[i] = e}
  <2>1. e \in {"identity", "deflate", "gzip", "br", "zstd"}
    BY DEF Candidates, AcceptEncoding, Compressed
  <2>2. I # {} /\ I \subseteq 1..5
    <3>1. ASSUME NEW k \in 1..5, Encodings[k] = e PROVE k \in I
      BY <1>1, <3>1
    <3>2. \E k \in 1..5 : Encodings[k] = e
      BY <1>1, <2>1
    <3> QED  BY <1>1, <3>1, <3>2
  <2>3. Min(I) \in I
    <3>1. I \subseteq Nat
      BY <2>2
    <3> HIDE DEF I
    <3> QED  BY <2>2, <3>1, MinIn
  <2>4. Preference(e) = Min(I)
    BY <2>2 DEF Preference, SelectInSeq
  <2> QED  BY <2>2, <2>3, <2>4
<1> QED  BY <1>2

(* What encodings finds, and the weight each encoding gets when there is a *)
(* wildcard.                                                               *)
LEMMA ExplicitIs ==
  ASSUME NEW h, Readable(h), NEW supported \in AcceptEncoding
  PROVE  /\ Explicit(h, supported) \subseteq [encoding : Candidates(supported), qvalue : 0..One]
         /\ \A x \in Explicit(h, supported) :
              \E i \in Elements(h, x.encoding) : x.qvalue = Thousandths(h[i].q)
         /\ \A name \in Candidates(supported) : \A i \in Elements(h, name) :
              [encoding |-> name, qvalue |-> Thousandths(h[i].q)] \in Explicit(h, supported)
<1> DEFINE P(i) == Parse(h[i].coding, supported)
           Q(i) == ParseQ(h[i].q)
           T(i) == Thousandths(h[i].q)
           L == Listed(h, supported)
           C == Candidates(supported)
<1>1. Explicit(h, supported) = {[encoding |-> P(i), qvalue |-> Q(i)] : i \in L}
  BY DEF Explicit
<1>2. ASSUME NEW i \in L
      PROVE  P(i) \in C /\ i \in Elements(h, P(i)) /\ Q(i) = T(i) /\ T(i) \in 0..One
  <2>1. P(i) \in C /\ i \in Elements(h, P(i))
    BY ListedIs
  <2> QED  BY <2>1, ElementParts
<1>3. ASSUME NEW name \in C, NEW i \in Elements(h, name)
      PROVE  i \in L /\ P(i) = name
  <2>1. {k \in L : P(k) = name} = Elements(h, name)
    BY ListedIs
  <2> HIDE DEF L, P
  <2> QED  BY <2>1
<1> HIDE DEF P, Q, L, C, T
<1>4. Explicit(h, supported) \subseteq [encoding : C, qvalue : 0..One]
  BY <1>1, <1>2
<1>5. ASSUME NEW x \in Explicit(h, supported)
      PROVE  \E i \in Elements(h, x.encoding) : x.qvalue = T(i)
  BY <1>1, <1>2
<1>6. ASSUME NEW name \in C, NEW i \in Elements(h, name)
      PROVE  [encoding |-> name, qvalue |-> T(i)] \in Explicit(h, supported)
  BY <1>1, <1>2, <1>3
<1> QED  BY <1>4, <1>5, <1>6 DEF C, T

LEMMA EffectiveIs ==
  ASSUME NEW h, Readable(h), NEW supported \in AcceptEncoding,
         NEW name \in Candidates(supported)
  PROVE  Effective(name, h, supported) =
           IF Elements(h, name) = {}
             THEN Wildcard(h) ELSE Thousandths(h[Min(Elements(h, name))].q)
<1> DEFINE own == {i \in Listed(h, supported) : Parse(h[i].coding, supported) = name}
<1>1. own = Elements(h, name)
  BY ListedIs
<1>2. Effective(name, h, supported) =
        IF own = {} THEN Wildcard(h) ELSE ParseQ(h[Min(own)].q)
  BY DEF Effective
<1> HIDE DEF own
<1>3. CASE own # {}
  <2>1. Min(own) \in own
    BY <1>1, <1>3, ElementsAreNat, MinIn
  <2> QED  BY <1>1, <1>2, <1>3, <2>1, ElementParts
<1> QED  BY <1>1, <1>2, <1>3

\* The weight an encoding has next to a wildcard.
Own(h, name) ==
  IF Elements(h, name) = {}
    THEN Thousandths(h[Min(Elements(h, "*"))].q)
    ELSE Thousandths(h[Min(Elements(h, name))].q)

\* One that is not below another of this weight.
NotBelow(name, w, other, v) == v < w \/ (v = w /\ Preference(other) <= Preference(name))

ChosenFromList(h, supported, c) ==
  \/ \E name \in Candidates(supported) : \E i \in Elements(h, name) :
       /\ c = name /\ Thousandths(h[i].q) > 0
       /\ \A other \in Candidates(supported) : \A j \in Elements(h, other) :
            Thousandths(h[j].q) > 0 =>
              NotBelow(name, Thousandths(h[i].q), other, Thousandths(h[j].q))
  \/ /\ \A other \in Candidates(supported) : \A j \in Elements(h, other) :
          Thousandths(h[j].q) = 0
     /\ \/ c = "identity" /\ Elements(h, "identity") = {}
        \/ c = Unknown /\ Elements(h, "identity") # {}

ChosenWithWildcard(h, supported, c) ==
  \/ /\ c \in Candidates(supported) /\ Own(h, c) > 0
     /\ \A other \in Candidates(supported) :
          Own(h, other) > 0 => NotBelow(c, Own(h, c), other, Own(h, other))
  \/ /\ c = Unknown
     /\ \A other \in Candidates(supported) : Own(h, other) = 0

LEMMA NotLess ==
  ASSUME NEW m, NEW x, m.qvalue \in 0..One, x.qvalue \in 0..One, ~Less(m, x)
  PROVE  NotBelow(m.encoding, m.qvalue, x.encoding, x.qvalue)
<1>1. Preference(m.encoding) \in 0..5 /\ Preference(x.encoding) \in 0..5
  BY PreferenceIsBounded
<1> DEFINE a == m.qvalue
           b == x.qvalue
           f == Preference(m.encoding)
           g == Preference(x.encoding)
<1>2. ~(a < b \/ (a = b /\ f < g))
  BY DEF Less
<1>3. a \in 0..1000 /\ b \in 0..1000
  BY DEF One
<1> HIDE DEF a, b, f, g
<1>4. f \in 0..5 /\ g \in 0..5
  BY <1>1 DEF f, g
<1>5. b < a \/ (b = a /\ g <= f)
  BY <1>2, <1>3, <1>4
<1> QED  BY <1>5 DEF NotBelow, a, b, f, g

LEMMA ListIsSearched ==
  ASSUME NEW h, Readable(h), NEW supported \in AcceptEncoding, Elements(h, "*") = {}
  PROVE  ChosenFromList(h, supported, FromHeaders(h, supported))
<1> DEFINE X == Explicit(h, supported)
           C == Candidates(supported)
           T(i) == Thousandths(h[i].q)
           p == PreferredEncoding(X)
           c == FromHeaders(h, supported)
           rejected == \E e \in X : e.encoding = "identity" /\ e.qvalue = 0
<1>1. Wildcard(h) = BadQ
  BY WildcardIs
<1>2. c = IF p = Unknown /\ ~rejected THEN "identity" ELSE p
  BY <1>1 DEF FromHeaders
<1>3. X \subseteq [encoding : C, qvalue : 0..One]
  BY ExplicitIs
<1>4. \A x \in X : \E i \in Elements(h, x.encoding) : x.qvalue = T(i)
  BY ExplicitIs
<1>5. ASSUME NEW name \in C, NEW i \in Elements(h, name)
      PROVE  [encoding |-> name, qvalue |-> T(i)] \in X
  BY ExplicitIs
<1>6. ASSUME NEW name \in C, NEW i \in Elements(h, name)
      PROVE  T(i) \in 0..One
  BY ElementParts
<1>7. "identity" \in C /\ Unknown \notin C
  BY UnknownIsNone DEF Candidates
<1>8. \/ p = Unknown /\ \A x \in X : ~(x.qvalue > 0)
      \/ \E m \in X : /\ p = m.encoding /\ m.qvalue > 0
                      /\ \A x \in X : x.qvalue > 0 => ~Less(m, x)
  <2> HIDE DEF X, C
  <2> QED  BY <1>3, PreferredParts
<1> HIDE DEF X, C, T, p, c
<1>9. CASE p = Unknown /\ \A x \in X : ~(x.qvalue > 0)
  <2>1. ASSUME NEW other \in C, NEW j \in Elements(h, other)
        PROVE  T(j) = 0
    <3> DEFINE x == [encoding |-> other, qvalue |-> T(j)]
    <3>1. x \in X /\ x.qvalue = T(j)
      BY <1>5
    <3> HIDE DEF x
    <3> QED  BY <1>6, <1>9, <3>1 DEF One
  <2>2. rejected <=> Elements(h, "identity") # {}
    <3>1. ASSUME rejected PROVE Elements(h, "identity") # {}
      BY <1>4, <3>1
    <3>2. ASSUME NEW j \in Elements(h, "identity") PROVE rejected
      <4> DEFINE x == [encoding |-> "identity", qvalue |-> T(j)]
      <4>1. x \in X /\ x.encoding = "identity" /\ x.qvalue = 0
        BY <1>5, <1>7, <2>1
      <4> HIDE DEF x
      <4> QED  BY <4>1
    <3> QED  BY <3>1, <3>2
  <2> HIDE DEF rejected
  <2>3. c = IF rejected THEN Unknown ELSE "identity"
    BY <1>2, <1>9
  <2> QED  BY <2>1, <2>2, <2>3 DEF ChosenFromList, C, T, c
<1>10. ASSUME NEW m \in X, p = m.encoding, m.qvalue > 0,
              \A x \in X : x.qvalue > 0 => ~Less(m, x)
       PROVE  ChosenFromList(h, supported, c)
  <2>1. m.encoding \in C /\ m.qvalue \in 0..One
    BY <1>3
  <2>2. PICK i \in Elements(h, m.encoding) : m.qvalue = T(i)
    BY <1>4
  <2>3. c = m.encoding
    BY <1>2, <1>7, <1>10, <2>1
  <2>4. ASSUME NEW other \in C, NEW j \in Elements(h, other), T(j) > 0
        PROVE  NotBelow(m.encoding, T(i), other, T(j))
    <3> DEFINE x == [encoding |-> other, qvalue |-> T(j)]
    <3>1. x \in X /\ x.qvalue = T(j) /\ x.encoding = other
      BY <1>5
    <3> HIDE DEF x
    <3>2. x.qvalue \in 0..One /\ ~Less(m, x)
      BY <1>6, <1>10, <2>4, <3>1
    <3>3. NotBelow(m.encoding, m.qvalue, x.encoding, x.qvalue)
      BY <2>1, <3>2, NotLess
    <3> QED  BY <2>2, <3>1, <3>3
  <2> QED  BY <1>10, <2>1, <2>2, <2>3, <2>4 DEF ChosenFromList, C, T
<1> QED  BY <1>8, <1>9, <1>10 DEF c

LEMMA OwnIs ==
  ASSUME NEW h, Readable(h), NEW name, Elements(h, "*") # {}
  PROVE  /\ Own(h, name) \in 0..One
         /\ \/ Elements(h, name) = {} /\ Own(h, name) = Thousandths(h[Min(Elements(h, "*"))].q)
            \/ /\ Elements(h, name) # {}
               /\ Own(h, name) = Thousandths(h[Min(Elements(h, name))].q)
               /\ Min(Elements(h, name)) \in Elements(h, name)
         /\ Min(Elements(h, "*")) \in Elements(h, "*")
<1>1. ASSUME NEW n, Elements(h, n) # {}
      PROVE  /\ Min(Elements(h, n)) \in Elements(h, n)
             /\ Thousandths(h[Min(Elements(h, n))].q) \in 0..One
  <2>1. Min(Elements(h, n)) \in Elements(h, n)
    BY <1>1, ElementsAreNat, MinIn
  <2> QED  BY <2>1, ElementParts
<1>2. CASE Elements(h, name) = {}
  BY <1>1, <1>2 DEF Own
<1>3. CASE Elements(h, name) # {}
  BY <1>1, <1>3 DEF Own
<1> QED  BY <1>2, <1>3

LEMMA WildcardIsUsed ==
  ASSUME NEW h, Readable(h), NEW supported \in AcceptEncoding, Elements(h, "*") # {}
  PROVE  ChosenWithWildcard(h, supported, FromHeaders(h, supported))
<1> DEFINE C == Candidates(supported)
           S == {[encoding |-> e, qvalue |-> Effective(e, h, supported)] : e \in C}
           c == FromHeaders(h, supported)
<1>1. Wildcard(h) = Thousandths(h[Min(Elements(h, "*"))].q) /\ Wildcard(h) # BadQ
  <2>1. Wildcard(h) = Thousandths(h[Min(Elements(h, "*"))].q)
    BY WildcardIs
  <2>2. Thousandths(h[Min(Elements(h, "*"))].q) \in 0..One
    BY OwnIs, ElementParts
  <2> QED  BY <2>1, <2>2 DEF BadQ, One
<1>2. c = PreferredEncoding(S)
  BY <1>1 DEF FromHeaders, Candidates
<1>3. ASSUME NEW e \in C
      PROVE  Effective(e, h, supported) = Own(h, e) /\ Own(h, e) \in 0..One
  <2>1. Effective(e, h, supported) =
          IF Elements(h, e) = {} THEN Wildcard(h) ELSE Thousandths(h[Min(Elements(h, e))].q)
    BY EffectiveIs
  <2> QED  BY <1>1, <2>1, OwnIs DEF Own
<1>4. ASSUME NEW x \in S
      PROVE  x.encoding \in C /\ x.qvalue = Own(h, x.encoding) /\ x.qvalue \in 0..One
  <2>1. PICK e \in C : x = [encoding |-> e, qvalue |-> Effective(e, h, supported)]
    OBVIOUS
  <2> QED  BY <1>3, <2>1
<1>5. ASSUME NEW e \in C
      PROVE  \E x \in S : x.encoding = e /\ x.qvalue = Own(h, e)
  <2> DEFINE x == [encoding |-> e, qvalue |-> Effective(e, h, supported)]
  <2>1. x \in S /\ x.encoding = e /\ x.qvalue = Own(h, e)
    BY <1>3
  <2> HIDE DEF x, S
  <2> QED  BY <2>1
<1>6. S \subseteq [encoding : C, qvalue : 0..One]
  <2> HIDE DEF C
  <2>1. \A e \in C : Effective(e, h, supported) \in 0..One
    BY <1>3
  <2> QED  BY <2>1
<1>7. \/ c = Unknown /\ \A x \in S : ~(x.qvalue > 0)
      \/ \E m \in S : /\ c = m.encoding /\ m.qvalue > 0
                      /\ \A x \in S : x.qvalue > 0 => ~Less(m, x)
  <2> HIDE DEF S, C, c
  <2> QED  BY <1>2, <1>6, PreferredParts
<1> HIDE DEF S, C, c
<1>8. CASE c = Unknown /\ \A x \in S : ~(x.qvalue > 0)
  <2>1. ASSUME NEW other \in C PROVE Own(h, other) = 0
    <3>1. PICK x \in S : x.encoding = other /\ x.qvalue = Own(h, other)
      BY <1>5
    <3> QED  BY <1>4, <1>8, <3>1 DEF One
  <2> QED  BY <1>8, <2>1 DEF ChosenWithWildcard, C, c
<1>9. ASSUME NEW m \in S, c = m.encoding, m.qvalue > 0,
             \A x \in S : x.qvalue > 0 => ~Less(m, x)
      PROVE  ChosenWithWildcard(h, supported, c)
  <2>1. m.encoding \in C /\ m.qvalue = Own(h, m.encoding) /\ m.qvalue \in 0..One
    BY <1>4
  <2>2. ASSUME NEW other \in C, Own(h, other) > 0
        PROVE  NotBelow(c, Own(h, c), other, Own(h, other))
    <3>1. PICK x \in S : x.encoding = other /\ x.qvalue = Own(h, other)
      BY <1>5
    <3>2. x.qvalue \in 0..One /\ ~Less(m, x)
      BY <1>4, <1>9, <2>2, <3>1
    <3>3. NotBelow(m.encoding, m.qvalue, x.encoding, x.qvalue)
      BY <2>1, <3>2, NotLess
    <3> QED  BY <1>9, <2>1, <3>1, <3>3
  <2> QED  BY <1>9, <2>1, <2>2 DEF ChosenWithWildcard, C
<1> QED  BY <1>7, <1>8, <1>9 DEF c

(* Whatever the header, nothing is chosen that it only excludes.           *)
LEMMA ChoiceIsAcceptable ==
  ASSUME NEW h, Readable(h), NEW supported \in AcceptEncoding,
         FromHeaders(h, supported) # Unknown
  PROVE  Acceptable(h, supported, FromHeaders(h, supported))
<1> DEFINE C == Candidates(supported)
           c == FromHeaders(h, supported)
           T(i) == Thousandths(h[i].q)
<1>1. CASE Elements(h, "*") = {}
  <2>1. ChosenFromList(h, supported, c)
    BY <1>1, ListIsSearched
  <2> SUFFICES Acceptable(h, supported, c)
    OBVIOUS
  <2>0. c # Unknown
    OBVIOUS
  <2> HIDE DEF c
  <2>2. CASE c \in C /\ \E i \in Elements(h, c) : T(i) > 0
    BY <2>2 DEF Acceptable
  <2>3. CASE c = "identity" /\ Elements(h, "identity") = {}
    BY <1>1, <2>3 DEF Acceptable, Candidates
  <2> QED  BY <2>0, <2>1, <2>2, <2>3 DEF ChosenFromList
<1>2. CASE Elements(h, "*") # {}
  <2>1. ChosenWithWildcard(h, supported, c)
    BY <1>2, WildcardIsUsed
  <2>2. c \in C /\ Own(h, c) > 0
    BY <2>1 DEF ChosenWithWildcard
  <2> HIDE DEF c
  <2>3. \/ Elements(h, c) = {} /\ \E i \in Elements(h, "*") : T(i) > 0
        \/ \E i \in Elements(h, c) : T(i) > 0
    BY <1>2, <2>2, OwnIs
  <2>4. Acceptable(h, supported, c)
    BY <2>2, <2>3 DEF Acceptable
  <2> QED  BY <2>4 DEF c
<1> QED  BY <1>1, <1>2

(* A header that says one thing about each encoding.                       *)
LEMMA OnlyOne ==
  ASSUME NEW h, Readable(h), NEW name, Cardinality(Elements(h, name)) <= 1,
         NEW i \in Elements(h, name)
  PROVE  Elements(h, name) = {i} /\ Max(Elements(h, name)) = i /\ Min(Elements(h, name)) = i
<1> DEFINE S == Elements(h, name)
<1>1. IsFiniteSet(S)
  <2>1. S \subseteq 1..Len(h) /\ Len(h) \in Nat
    BY ElementsAreNat DEF Readable
  <2>2. IsFiniteSet(1..Len(h))
    BY <2>1, FS_Interval
  <2> QED  BY <2>1, <2>2, FS_Subset
<1>2. S \subseteq Nat /\ i \in Nat
  BY ElementsAreNat
<1> HIDE DEF S
<1>3. ASSUME NEW j \in S PROVE j = i
  <2> SUFFICES ASSUME j # i PROVE FALSE
    OBVIOUS
  <2>1. IsFiniteSet({i, j}) /\ Cardinality({i, j}) = 2
    <3>1. IsFiniteSet({i}) /\ Cardinality({i}) = 1
      BY FS_Singleton
    <3>2. j \notin {i} /\ {i} \cup {j} = {i, j}
      OBVIOUS
    <3> QED  BY <3>1, <3>2, FS_AddElement
  <2>2. {i, j} \subseteq S
    BY <1>3 DEF S
  <2>3. Cardinality({i, j}) <= Cardinality(S)
    BY <1>1, <2>2, FS_Subset
  <2>4. Cardinality(S) \in Nat /\ Cardinality(S) <= 1
    BY <1>1, FS_CardinalityType DEF S
  <2> QED  BY <2>1, <2>3, <2>4
<1>4. S = {i}
  BY <1>3 DEF S
<1>5. Max({i}) = i /\ Min({i}) = i
  BY <1>2 DEF Max, Min
<1> QED  BY <1>4, <1>5 DEF S

LEMMA WorthIs ==
  ASSUME NEW h, Readable(h), NEW supported, Consistent(h, supported),
         NEW name \in Candidates(supported)
  PROVE  /\ \A i \in Elements(h, name) : Worth(h, name) = 2 * Thousandths(h[i].q)
         /\ Elements(h, name) = {} /\ Elements(h, "*") = {} =>
              Worth(h, name) = IF name = "identity" THEN 1 ELSE 0
         /\ Elements(h, "*") # {} => Worth(h, name) = 2 * Own(h, name)
<1>1. Cardinality(Elements(h, name)) <= 1 /\ Cardinality(Elements(h, "*")) <= 1
  BY DEF Consistent
<1>2. ASSUME NEW i \in Elements(h, name)
      PROVE  Worth(h, name) = 2 * Thousandths(h[i].q) /\ Min(Elements(h, name)) = i
  <2>1. Elements(h, name) # {} /\ Max(Elements(h, name)) = i /\ Min(Elements(h, name)) = i
    BY <1>1, OnlyOne
  <2> QED  BY <2>1 DEF Worth, Weight
<1>3. ASSUME Elements(h, name) = {}, Elements(h, "*") = {}
      PROVE  Worth(h, name) = IF name = "identity" THEN 1 ELSE 0
  BY <1>3 DEF Worth
<1>4. ASSUME NEW k \in Elements(h, "*"), Elements(h, name) = {}
      PROVE  Worth(h, name) = 2 * Own(h, name)
  <2>1. Elements(h, "*") # {} /\ Max(Elements(h, "*")) = k /\ Min(Elements(h, "*")) = k
    BY <1>1, OnlyOne
  <2> QED  BY <1>4, <2>1 DEF Worth, Weight, Own
<1>5. ASSUME NEW i \in Elements(h, name)
      PROVE  Worth(h, name) = 2 * Own(h, name)
  BY <1>2 DEF Own
<1> QED  BY <1>2, <1>3, <1>4, <1>5

(* Of such a header the best encoding is chosen.                           *)
LEMMA ChoiceIsTheBest ==
  ASSUME NEW h, Readable(h), NEW supported \in AcceptEncoding, Consistent(h, supported)
  PROVE  Best(h, supported, FromHeaders(h, supported))
<1> DEFINE C == Candidates(supported)
           c == FromHeaders(h, supported)
           T(i) == Thousandths(h[i].q)
           El(n) == Elements(h, n)
           W(n) == Worth(h, n)
           Pf(n) == Preference(n)
<1>0. Unknown \notin C /\ "identity" \in C
  BY UnknownIsNone DEF Candidates
<1>1. ASSUME NEW n \in C, NEW i \in El(n)
      PROVE  T(i) \in 0..1000 /\ W(n) = 2 * T(i)
  BY ElementParts, WorthIs DEF One
<1>2. ASSUME NEW n \in C, NEW o \in C, n # o
      PROVE  Pf(n) \in 0..5 /\ Pf(o) \in 0..5 /\ Pf(n) # Pf(o)
  BY <1>2, PreferenceIsBounded, PreferencesDiffer
<1>3. Best(h, supported, c) <=>
        IF c = Unknown
          THEN \A n \in C : W(n) = 0
          ELSE /\ W(c) > 0
               /\ \A o \in C \ {c} : W(o) < W(c) \/ (W(o) = W(c) /\ Pf(o) < Pf(c))
  BY DEF Best
<1>4. CASE El("*") = {}
  <2>1. ChosenFromList(h, supported, c)
    BY <1>4, ListIsSearched
  <2>2. ASSUME NEW n \in C, El(n) = {}
        PROVE  W(n) = IF n = "identity" THEN 1 ELSE 0
    BY <1>4, <2>2, WorthIs
  <2>3. \/ \E n \in C : \E i \in El(n) :
             /\ c = n /\ T(i) > 0
             /\ \A o \in C : \A j \in El(o) :
                  T(j) > 0 => (T(j) < T(i) \/ (T(j) = T(i) /\ Pf(o) <= Pf(n)))
        \/ /\ \A o \in C : \A j \in El(o) : T(j) = 0
           /\ (c = "identity" /\ El("identity") = {}) \/ (c = Unknown /\ El("identity") # {})
    BY <2>1 DEF ChosenFromList, NotBelow
  <2> HIDE DEF C, c, T, El, W, Pf
  <2>4. ASSUME NEW n \in C, NEW i \in El(n), c = n, T(i) > 0,
               \A o \in C : \A j \in El(o) :
                  T(j) > 0 => (T(j) < T(i) \/ (T(j) = T(i) /\ Pf(o) <= Pf(n)))
        PROVE  Best(h, supported, c)
    <3>1. W(c) = 2 * T(i) /\ T(i) \in 0..1000 /\ c # Unknown
      BY <1>0, <1>1, <2>4
    <3>2. ASSUME NEW o \in C \ {c}
          PROVE  W(o) < W(c) \/ (W(o) = W(c) /\ Pf(o) < Pf(c))
      <4>1. CASE El(o) = {}
        BY <2>2, <2>4, <3>1, <4>1
      <4>2. ASSUME NEW j \in El(o)
            PROVE  W(o) < W(c) \/ (W(o) = W(c) /\ Pf(o) < Pf(c))
        <5>1. W(o) = 2 * T(j) /\ T(j) \in 0..1000
          BY <1>1
        <5>2. Pf(n) \in 0..5 /\ Pf(o) \in 0..5 /\ Pf(n) # Pf(o)
          BY <1>2, <2>4
        <5>3. T(j) > 0 => (T(j) < T(i) \/ (T(j) = T(i) /\ Pf(o) <= Pf(n)))
          BY <2>4
        <5> DEFINE a == T(i)
                   b == T(j)
                   f == Pf(n)
                   g == Pf(o)
        <5>4. /\ a \in 0..1000 /\ b \in 0..1000 /\ f \in 0..5 /\ g \in 0..5 /\ a > 0 /\ f # g
              /\ b > 0 => (b < a \/ (b = a /\ g <= f))
          BY <2>4, <3>1, <5>1, <5>2, <5>3
        <5>5. W(o) = 2 * b /\ W(c) = 2 * a /\ Pf(o) = g /\ Pf(c) = f
          BY <2>4, <3>1, <5>1
        <5> HIDE DEF a, b, f, g
        <5>6. 2 * b < 2 * a \/ (2 * b = 2 * a /\ g < f)
          BY <5>4, SMTT(20)
        <5> QED  BY <5>5, <5>6, Zenon
      <4> QED  BY <4>1, <4>2
    <3> QED  BY <1>3, <2>4, <3>1, <3>2
  <2>5. ASSUME \A o \in C : \A j \in El(o) : T(j) = 0
        PROVE  \A o \in C : W(o) = IF o = "identity" /\ El(o) = {} THEN 1 ELSE 0
    <3> SUFFICES ASSUME NEW o \in C
                 PROVE  W(o) = IF o = "identity" /\ El(o) = {} THEN 1 ELSE 0
      OBVIOUS
    <3>1. CASE El(o) = {}
      BY <2>2, <3>1
    <3>2. ASSUME NEW j \in El(o) PROVE W(o) = 0
      BY <1>1, <2>5
    <3> QED  BY <3>1, <3>2
  <2>6. ASSUME \A o \in C : \A j \in El(o) : T(j) = 0,
               c = "identity" /\ El("identity") = {}
        PROVE  Best(h, supported, c)
    <3>1. W(c) = 1 /\ c # Unknown /\ \A o \in C \ {c} : W(o) = 0
      BY <1>0, <2>5, <2>6
    <3> QED  BY <1>3, <3>1
  <2>7. ASSUME \A o \in C : \A j \in El(o) : T(j) = 0,
               c = Unknown /\ El("identity") # {}
        PROVE  Best(h, supported, c)
    BY <1>3, <2>5, <2>7
  <2>8. Best(h, supported, c)
    BY <2>3, <2>4, <2>6, <2>7
  <2> QED  BY <2>8 DEF c
<1>5. CASE El("*") # {}
  <2> DEFINE O(n) == Own(h, n)
  <2>1. ChosenWithWildcard(h, supported, c)
    BY <1>5, WildcardIsUsed
  <2>2. ASSUME NEW n \in C PROVE W(n) = 2 * O(n) /\ O(n) \in 0..1000
    BY <1>5, WorthIs, OwnIs DEF One
  <2>3. \/ /\ c \in C /\ O(c) > 0
           /\ \A o \in C : O(o) > 0 => (O(o) < O(c) \/ (O(o) = O(c) /\ Pf(o) <= Pf(c)))
        \/ c = Unknown /\ \A o \in C : O(o) = 0
    BY <2>1 DEF ChosenWithWildcard, NotBelow
  <2> SUFFICES Best(h, supported, c)
    OBVIOUS
  <2> HIDE DEF C, c, T, El, W, Pf, O
  <2>4. CASE c = Unknown /\ \A o \in C : O(o) = 0
    BY <1>3, <2>2, <2>4
  <2>5. ASSUME c \in C, O(c) > 0,
               \A o \in C : O(o) > 0 => (O(o) < O(c) \/ (O(o) = O(c) /\ Pf(o) <= Pf(c)))
        PROVE  Best(h, supported, c)
    <3>1. W(c) = 2 * O(c) /\ O(c) \in 0..1000 /\ c # Unknown
      BY <1>0, <2>2, <2>5
    <3>2. ASSUME NEW o \in C \ {c}
          PROVE  W(o) < W(c) \/ (W(o) = W(c) /\ Pf(o) < Pf(c))
      <4>1. W(o) = 2 * O(o) /\ O(o) \in 0..1000
        BY <2>2
      <4>2. Pf(c) \in 0..5 /\ Pf(o) \in 0..5 /\ Pf(c) # Pf(o)
        BY <1>2, <2>5
      <4>3. O(o) > 0 => (O(o) < O(c) \/ (O(o) = O(c) /\ Pf(o) <= Pf(c)))
        BY <2>5
      <4> DEFINE a == O(c)
                 b == O(o)
                 f == Pf(c)
                 g == Pf(o)
      <4>4. /\ a \in 0..1000 /\ b \in 0..1000 /\ f \in 0..5 /\ g \in 0..5 /\ a > 0 /\ f # g
            /\ b > 0 => (b < a \/ (b = a /\ g <= f))
        BY <2>5, <3>1, <4>1, <4>2, <4>3
      <4>5. W(o) = 2 * b /\ W(c) = 2 * a /\ Pf(o) = g /\ Pf(c) = f
        BY <3>1, <4>1
      <4> HIDE DEF a, b, f, g
      <4>6. 2 * b < 2 * a \/ (2 * b = 2 * a /\ g < f)
        BY <4>4, SMTT(20)
      <4> QED  BY <4>5, <4>6, Zenon
    <3> QED  BY <1>3, <2>5, <3>1, <3>2
  <2> QED  BY <2>3, <2>4, <2>5
<1> QED  BY <1>4, <1>5

-----------------------------------------------------------------------------
(* What AcceptEncoding::to_header_value writes: some of the encodings, all *)
(* of weight one.                                                          *)
Written(s, accept) ==
  /\ Len(s) \in Nat /\ s = [i \in 1..Len(s) |-> s[i]]
  /\ \A i \in 1..Len(s) : s[i].coding \in accept /\ s[i].q = NoQ

LEMMA OfferIs ==
  ASSUME NEW accept, NEW e
  PROVE  Written(IF e \in accept THEN <<[coding |-> e, q |-> NoQ]>> ELSE <<>>, accept)
<1>1. CASE e \in accept
  <2> DEFINE x == [coding |-> e, q |-> NoQ]
  <2>1. x.coding = e /\ x.q = NoQ
    OBVIOUS
  <2> HIDE DEF x
  <2>2. Written(<<x>>, accept)
    BY <1>1, <2>1 DEF Written
  <2> QED  BY <1>1, <2>2 DEF x
<1>2. CASE e \notin accept
  BY <1>2 DEF Written
<1> QED  BY <1>1, <1>2

LEMMA WrittenJoins ==
  ASSUME NEW accept, NEW s, NEW t, Written(s, accept), Written(t, accept)
  PROVE  Written(s \o t, accept)
<1> DEFINE S == {s[i] : i \in 1..Len(s)} \cup {t[i] : i \in 1..Len(t)}
<1>1. s \in Seq(S) /\ t \in Seq(S)
  BY DEF Written
<1>2. /\ s \o t \in Seq(S) /\ Len(s \o t) = Len(s) + Len(t)
      /\ \A i \in 1..Len(s) + Len(t) :
           (s \o t)[i] = IF i <= Len(s) THEN s[i] ELSE t[i - Len(s)]
  BY <1>1, ConcatProperties
<1>3. \A x \in S : x.coding \in accept /\ x.q = NoQ
  BY DEF Written
<1> DEFINE u == s \o t
<1>4. u \in Seq(S)
  BY <1>2
<1> HIDE DEF S, u
<1>5. /\ Len(u) \in Nat /\ u = [i \in 1..Len(u) |-> u[i]]
      /\ \A i \in 1..Len(u) : u[i] \in S
  BY <1>4
<1>6. Written(u, accept)
  BY <1>3, <1>5 DEF Written
<1> QED  BY <1>6 DEF u

LEMMA ToHeaderValueIs ==
  ASSUME NEW accept
  PROVE  Written(ToHeaderValue(accept), accept)
<1> DEFINE Offer(e) == IF e \in accept THEN <<[coding |-> e, q |-> NoQ]>> ELSE <<>>
<1>1. ToHeaderValue(accept) = Offer("zstd") \o Offer("gzip") \o Offer("deflate") \o Offer("br")
  BY DEF ToHeaderValue
<1>2. \A e : Written(Offer(e), accept)
  BY OfferIs
<1> HIDE DEF Offer
<1>3. Written(Offer("zstd") \o Offer("gzip"), accept)
  BY <1>2, WrittenJoins
<1>4. Written(Offer("zstd") \o Offer("gzip") \o Offer("deflate"), accept)
  BY <1>2, <1>3, WrittenJoins
<1>5. Written(Offer("zstd") \o Offer("gzip") \o Offer("deflate") \o Offer("br"), accept)
  BY <1>2, <1>4, WrittenJoins
<1> QED  BY <1>1, <1>5

LEMMA HeadersAreReadable ==
  ASSUME NEW h \in Headers
  PROVE  Readable(h)
<1>1. CASE h \in Seq(Element)
  <2>2. Len(h) \in Nat /\ DOMAIN h = 1..Len(h) /\ \A i \in 1..Len(h) : h[i] \in Element
    <3> HIDE DEF Element
    <3> QED  BY <1>1
  <2>3. \A x \in Element : x.q \in Weights
    BY DEF Element, Weights
  <2> QED  BY <2>2, <2>3 DEF Readable
<1>2. ASSUME NEW a, h = ToHeaderValue(a) PROVE Readable(h)
  <2>1. Written(h, a)
    BY <1>2, ToHeaderValueIs
  <2>2. Len(h) \in Nat /\ DOMAIN h = 1..Len(h)
    BY <2>1 DEF Written
  <2>3. NoQ \in Weights
    BY DEF Weights
  <2> QED  BY <2>1, <2>2, <2>3 DEF Readable, Written
<1> QED  BY <1>1, <1>2 DEF Headers

(* encodings and wildcard_qvalue read from it what was written.            *)
LEMMA WrittenIsRead ==
  ASSUME NEW client \in AcceptEncoding, NEW server \in AcceptEncoding
  PROVE  /\ Explicit(ToHeaderValue(client), server)
              \subseteq [encoding : client \cap server, qvalue : {One}]
         /\ Wildcard(ToHeaderValue(client)) = BadQ
<1> DEFINE h == ToHeaderValue(client)
           X == Explicit(h, server)
<1>1. Written(h, client) /\ DOMAIN h = 1..Len(h)
  BY ToHeaderValueIs DEF Written
<1>2. Readable(h)
  <2>1. NoQ \in Weights
    BY DEF Weights
  <2> QED  BY <1>1, <2>1 DEF Readable, Written
<1> HIDE DEF h
<1>3. client \subseteq {"deflate", "gzip", "br", "zstd"}
  BY DEF AcceptEncoding, Compressed
<1>4. ASSUME NEW i \in DOMAIN h
      PROVE  h[i].coding \in client /\ h[i].q = NoQ
  BY <1>1 DEF Written
<1>5. Elements(h, "*") = {}
  <2>1. "*" \notin client
    BY <1>3
  <2> QED  BY <1>4, <2>1 DEF Elements
<1>6. ASSUME NEW x \in X
      PROVE  x \in [encoding : client \cap server, qvalue : {One}]
  <2>1. x \in [encoding : Candidates(server), qvalue : 0..One]
    BY <1>2, ExplicitIs
  <2>2. PICK i \in Elements(h, x.encoding) : x.qvalue = Thousandths(h[i].q)
    BY <1>2, ExplicitIs
  <2>3. i \in DOMAIN h /\ h[i].coding \in (IF x.encoding = "gzip" THEN {"gzip", "x-gzip"}
                                                                   ELSE {x.encoding})
    BY DEF Elements
  <2>4. x.qvalue = One
    BY <1>4, <2>2, <2>3 DEF Thousandths, One
  <2>5. x.encoding \in client
    BY <1>3, <1>4, <2>3
  <2>6. x.encoding \in server
    BY <1>3, <2>1, <2>5 DEF Candidates
  <2> QED  BY <2>1, <2>4, <2>5, <2>6
<1>7. Wildcard(h) = BadQ
  BY <1>2, <1>5, WildcardIs
<1> QED  BY <1>6, <1>7 DEF h

LEMMA FromHeadersParts ==
  ASSUME NEW h \in Headers, NEW server \in AcceptEncoding
  PROVE  FromHeaders(h, server) \in server \cup {"identity", Unknown}
<1>1. Readable(h) /\ server \in AcceptEncoding
  BY HeadersAreReadable
<1>2. CASE Elements(h, "*") = {}
  <2>1. ChosenFromList(h, server, FromHeaders(h, server))
    BY <1>1, <1>2, ListIsSearched
  <2> QED  BY <2>1 DEF ChosenFromList, Candidates
<1>3. CASE Elements(h, "*") # {}
  <2>1. ChosenWithWildcard(h, server, FromHeaders(h, server))
    BY <1>1, <1>3, WildcardIsUsed
  <2> QED  BY <2>1 DEF ChosenWithWildcard, Candidates
<1> QED  BY <1>2, <1>3

(* The header that Decompression writes never ends in a 406.               *)
LEMMA WrittenParts ==
  ASSUME NEW client \in AcceptEncoding, NEW server \in AcceptEncoding
  PROVE  FromHeaders(ToHeaderValue(client), server) \in (client \cap server) \cup {"identity"}
<1> DEFINE h == ToHeaderValue(client)
           X == Explicit(h, server)
           E == client \cap server
<1>1. X \subseteq [encoding : E, qvalue : {One}] /\ Wildcard(h) = BadQ
  BY WrittenIsRead
<1>2. X \subseteq [encoding : E, qvalue : 0..One]
  BY <1>1 DEF One
<1>3. \A x \in X : x.qvalue = 1000 /\ x.encoding \in E
  BY <1>1 DEF One
<1> DEFINE rejected == \E e \in X : e.encoding = "identity" /\ e.qvalue = 0
<1>4. ~rejected
  BY <1>3
<1>5. FromHeaders(h, server) =
        IF PreferredEncoding(X) = Unknown /\ ~rejected THEN "identity" ELSE PreferredEncoding(X)
  BY <1>1 DEF FromHeaders
<1>6. \/ PreferredEncoding(X) = Unknown
      \/ \E m \in X : PreferredEncoding(X) = m.encoding
  <2> HIDE DEF X, E
  <2> QED  BY <1>2, PreferredParts
<1> HIDE DEF X, E, rejected
<1>7. FromHeaders(h, server) \in E \cup {"identity"}
  BY <1>3, <1>4, <1>5, <1>6
<1> QED  BY <1>7 DEF E
-----------------------------------------------------------------------------
(* Bodies with at most one line.                                           *)
CodesLines(f, lines) ==
  f = [n \in 0..Len(lines) |->
         IF n = 0 THEN <<>>
         ELSE IF lines[n] = "identity" THEN f[n - 1]
         ELSE Append(f[n - 1], lines[n])]

LEMMA AppliedShort ==
  ASSUME NEW lines
  PROVE  /\ Len(lines) = 0 => Applied(lines) = <<>>
         /\ Len(lines) = 1 =>
              Applied(lines) = IF lines[1] = "identity" THEN <<>> ELSE Append(<<>>, lines[1])
<1> DEFINE plain == <<>>
           one == IF lines[1] = "identity" THEN plain ELSE Append(plain, lines[1])
           k == Len(lines)
           g == [n \in 0..k |-> IF n = 0 THEN plain ELSE one]
           f == CHOOSE f : CodesLines(f, lines)
<1>1. Applied(lines) = f[k]
  BY Zenon DEF Applied, CodesLines
<1>2. ASSUME k \in {0, 1} PROVE CodesLines(f, lines)
  <2>1. CodesLines(g, lines)
    <3> HIDE DEF plain, k
    <3>1. ASSUME NEW n \in 0..k
          PROVE  g[n] = IF n = 0 THEN plain
                        ELSE IF lines[n] = "identity" THEN g[n - 1]
                        ELSE Append(g[n - 1], lines[n])
      <4>1. CASE n = 0
        BY <4>1
      <4>2. CASE n # 0
        <5>1. n = 1 /\ n - 1 = 0 /\ 0 \in 0..k
          BY <1>2, <4>2
        <5>2. g[n] = one /\ g[n - 1] = plain
          BY <5>1
        <5> QED  BY <5>1, <5>2
      <4> QED  BY <4>1, <4>2
    <3>2. g = [n \in 0..k |->
                 IF n = 0 THEN plain
                 ELSE IF lines[n] = "identity" THEN g[n - 1]
                 ELSE Append(g[n - 1], lines[n])]
      <4> HIDE DEF one
      <4> QED  BY <3>1
    <3> HIDE DEF g
    <3> QED  BY <3>2 DEF CodesLines, k, plain
  <2> HIDE DEF g
  <2> QED  BY <2>1, Zenon
<1> HIDE DEF f, plain, k
<1>3. ASSUME k = 0 PROVE f[k] = plain
  BY <1>2, <1>3 DEF CodesLines, k, plain
<1>4. ASSUME k = 1 PROVE f[k] = one
  <2>1. CodesLines(f, lines)
    BY <1>2, <1>4
  <2>2. \A n \in 0..k : f[n] = IF n = 0 THEN plain
                               ELSE IF lines[n] = "identity" THEN f[n - 1]
                               ELSE Append(f[n - 1], lines[n])
    BY <2>1 DEF CodesLines, k, plain
  <2>3. f[0] = plain
    BY <1>4, <2>2
  <2>4. f[1] = IF lines[1] = "identity" THEN f[0] ELSE Append(f[0], lines[1])
    BY <1>4, <2>2
  <2> QED  BY <1>4, <2>3, <2>4
<1> QED  BY <1>1, <1>3, <1>4 DEF plain, k

LEMMA AppliedParts ==
  /\ Applied(<<>>) = <<>>
  /\ \A c : Applied(<<c>>) = IF c = "identity" THEN <<>> ELSE <<c>>
<1>1. Applied(<<>>) = <<>>
  <2>1. Len(<<>>) = 0
    OBVIOUS
  <2> QED  BY <2>1, AppliedShort
<1>2. ASSUME NEW c PROVE Applied(<<c>>) = IF c = "identity" THEN <<>> ELSE <<c>>
  <2> DEFINE one == <<c>>
  <2>1. Len(one) = 1 /\ one[1] = c
    OBVIOUS
  <2> HIDE DEF one
  <2>2. Applied(one) = IF c = "identity" THEN <<>> ELSE Append(<<>>, c)
    BY <2>1, AppliedShort
  <2>3. Append(<<>>, c) = <<c>>
    OBVIOUS
  <2> QED  BY <2>2, <2>3 DEF one
<1> QED  BY <1>1, <1>2

LEMMA CarriedIsTruthful ==
  ASSUME NEW m, Carried(m)
  PROVE  Truthful(m) /\ m.body.codings = Applied(m.content_encoding)
  BY DEF Carried, Truthful, Honest, Coded

(* Messages come honest and intact into the stack.                         *)
LEMMA GivenIsCarried ==
  ASSUME NEW m, Honest(m), m.body \in [codings : Seq(Codings), intact : {TRUE}]
  PROVE  Carried(m)
<1> DEFINE lines == Applied(m.content_encoding)
           yes == TRUE
<1>1. m.body.codings = lines
  BY DEF Honest
<1> HIDE DEF lines, yes
<1>2. m.body = [codings |-> lines, intact |-> yes]
  BY <1>1 DEF yes
<1> QED  BY <1>2 DEF Carried, Coded, lines, yes

(* A message without lines is plain.                                       *)
LEMMA NoLines ==
  ASSUME NEW m, Carried(m), m.content_encoding = <<>>
  PROVE  m.body = Coded(<<>>) /\ FirstLine(m) = ""
  BY AppliedParts DEF Carried, FirstLine

(* What the first line says of a message whose body it describes.          *)
LEMMA FirstLineIs ==
  ASSUME NEW m, Carried(m), FirstLineSaysAll(m)
  PROVE  m.body = Coded(IF FirstLine(m) \in {"", "identity"} THEN <<>> ELSE <<FirstLine(m)>>)
  BY CarriedIsTruthful DEF Carried, FirstLineSaysAll

LEMMA UndoOne ==
  ASSUME NEW c
  PROVE  Undo(c, Coded(<<c>>)) = Coded(<<>>)
<1> DEFINE b == Coded(<<c>>)
<1>1. b.codings = <<c>> /\ b.intact = TRUE
  BY DEF Coded
<1>2. <<c>> # <<>> /\ Last(<<c>>) = c
  BY DEF Last
<1>3. Front(<<c>>) = <<>>
  <2> DEFINE s == <<c>>
  <2>1. s \in Seq({c}) /\ Len(s) = 1
    OBVIOUS
  <2> HIDE DEF s
  <2>2. SubSeq(s, 1, 0) = <<>>
    BY <2>1, SubSeqEmpty
  <2> QED  BY <2>1, <2>2 DEF Front, s
<1>4. Undo(c, b) = [b EXCEPT !.codings = <<>>]
  BY <1>1, <1>2, <1>3 DEF Undo
<1>5. [b EXCEPT !.codings = <<>>] = [codings |-> <<>>, intact |-> TRUE]
  <2> DEFINE one == <<c>>
             plain == <<>>
             yes == TRUE
  <2>1. b = [codings |-> one, intact |-> yes]
    BY DEF Coded
  <2> HIDE DEF one, plain, yes, b
  <2>2. [b EXCEPT !.codings = plain] = [codings |-> plain, intact |-> yes]
    BY <2>1
  <2> QED  BY <2>2 DEF plain, yes
<1> QED  BY <1>4, <1>5 DEF Coded

LEMMA AcceptIsCompressed ==
  /\ \A a \in AcceptEncoding : a \subseteq Compressed
  /\ "" \notin Compressed /\ "identity" \notin Compressed /\ Unknown \notin Compressed
  /\ Unknown # "identity"
  BY DEF AcceptEncoding, Compressed, Unknown

(* What both decompressions leave: no lines, no length and, when the first *)
(* line said all, a plain body.                                            *)
LEMMA DecodedBody ==
  ASSUME NEW m, Carried(m), FirstLineSaysAll(m), FirstLine(m) \in Compressed
  PROVE  Undo(Head(m.content_encoding), m.body) = Coded(<<>>)
<1>1. FirstLine(m) \notin {"", "identity"}
  BY AcceptIsCompressed
<1>2. m.body = Coded(<<FirstLine(m)>>)
  BY <1>1, FirstLineIs
<1>3. Head(m.content_encoding) = FirstLine(m)
  BY <1>1 DEF FirstLine
<1> QED  BY <1>2, <1>3, UndoOne

LEMMA DecodedRequest ==
  ASSUME NEW q, IsRequest(q)
  PROVE  /\ IsRequest(Decoded(q)) /\ Decoded(q).accept = q.accept
         /\ Decoded(q).content_encoding = <<>> /\ Decoded(q).length = FALSE
         /\ Decoded(q).body = Undo(Head(q.content_encoding), q.body)
<1> DEFINE b == Undo(Head(q.content_encoding), q.body)
           d == Decoded(q)
           plain == <<>>
           no == FALSE
<1>1. d = [q EXCEPT !.body = b, !.content_encoding = plain, !.length = no]
  BY DEF Decoded
<1> HIDE DEF b, d, plain, no
<1>2. d = [accept |-> q.accept, content_encoding |-> plain, length |-> no, body |-> b]
  BY <1>1 DEF IsRequest
<1>3. IsRequest(d) /\ d.accept = q.accept /\ d.content_encoding = plain /\ d.length = no
      /\ d.body = b
  BY <1>2 DEF IsRequest
<1> QED  BY <1>3 DEF b, d, plain, no

LEMMA DecodedResponse ==
  ASSUME NEW r, IsResponse(r)
  PROVE  /\ Decoded(r).status = r.status
         /\ Decoded(r).content_encoding = <<>> /\ Decoded(r).length = FALSE
         /\ Decoded(r).body = Undo(Head(r.content_encoding), r.body)
<1> DEFINE b == Undo(Head(r.content_encoding), r.body)
           d == Decoded(r)
           plain == <<>>
           no == FALSE
<1>1. d = [r EXCEPT !.body = b, !.content_encoding = plain, !.length = no]
  BY DEF Decoded
<1> HIDE DEF b, d, plain, no
<1>2. d = [status |-> r.status, content_encoding |-> plain,
       content_range |-> r.content_range, accept_ranges |-> r.accept_ranges,
       vary |-> r.vary, type |-> r.type, size |-> r.size, hint |-> r.hint,
       length |-> no, body |-> b, accept |-> r.accept]
  BY <1>1 DEF IsResponse
<1>3. d.status = r.status /\ d.content_encoding = plain /\ d.length = no /\ d.body = b
  BY <1>2
<1> QED  BY <1>3 DEF b, d, plain, no
-----------------------------------------------------------------------------
(* What Compression makes of a response.                                   *)
LEMMA CompressCases ==
  ASSUME NEW r, IsResponse(r), Carried(r), NEW chosen \in Outcomes
  PROVE  LET c == Compress(chosen, r) IN
         \/ /\ chosen = Unknown
            /\ c = [r EXCEPT !.status = "not_acceptable", !.vary = TRUE]
         \/ chosen # Unknown /\ ~ShouldCompress(r) /\ c = r
         \/ chosen = "identity" /\ ShouldCompress(r) /\ c = [r EXCEPT !.vary = TRUE]
         \/ /\ chosen \in Compressed /\ ShouldCompress(r)
            /\ c = [r EXCEPT !.vary = TRUE, !.accept_ranges = FALSE, !.length = FALSE,
                             !.hint = FALSE, !.content_encoding = <<chosen>>,
                             !.body.codings = Append(@, chosen)]
<1>1. Unknown \notin Compressed /\ Unknown # "identity" /\ "identity" \notin Compressed
  BY AcceptIsCompressed
<1>2. CASE chosen = Unknown
  BY <1>1, <1>2 DEF Compress
<1>3. CASE chosen # Unknown /\ ~ShouldCompress(r)
  BY <1>1, <1>3 DEF Compress
<1>4. CASE chosen = "identity" /\ ShouldCompress(r)
  BY <1>1, <1>4 DEF Compress
<1>5. CASE chosen \in Compressed /\ ShouldCompress(r)
  BY <1>1, <1>5 DEF Compress
<1> QED  BY <1>2, <1>3, <1>4, <1>5 DEF Outcomes

LEMMA CompressParts ==
  ASSUME NEW r, IsResponse(r), Carried(r), NEW chosen \in Outcomes, NEW c,
         c = Compress(chosen, r)
  PROVE  /\ IsResponse(c) /\ Carried(c)
         /\ \/ /\ c.body = r.body /\ c.content_encoding = r.content_encoding
               /\ c.length = r.length
            \/ /\ chosen \in Compressed /\ ShouldCompress(r) /\ c.length = FALSE
               /\ c.content_encoding = <<chosen>>
         /\ chosen # Unknown => c.status = r.status
         /\ c.vary = TRUE \/ (~ShouldCompress(r) /\ c = r)
<1>1. CASE /\ chosen = Unknown
           /\ c = [r EXCEPT !.status = "not_acceptable", !.vary = TRUE]
  <2> DEFINE refused == "not_acceptable"
             yes == TRUE
  <2>1. c = [r EXCEPT !.status = refused, !.vary = yes]
    BY <1>1
  <2> HIDE DEF refused, yes
  <2>2. c = [status |-> refused, content_encoding |-> r.content_encoding,
       content_range |-> r.content_range, accept_ranges |-> r.accept_ranges,
       vary |-> yes, type |-> r.type, size |-> r.size, hint |-> r.hint,
       length |-> r.length, body |-> r.body, accept |-> r.accept]
    BY <2>1 DEF IsResponse
  <2>3. IsResponse(c) /\ c.body = r.body /\ c.content_encoding = r.content_encoding
        /\ c.length = r.length /\ c.vary = yes
    BY <2>2 DEF IsResponse
  <2>4. Carried(c)
    BY <2>3 DEF Carried
  <2> QED  BY <1>1, <2>3, <2>4 DEF yes
<1>2. CASE chosen # Unknown /\ ~ShouldCompress(r) /\ c = r
  BY <1>2
<1>3. CASE chosen = "identity" /\ ShouldCompress(r) /\ c = [r EXCEPT !.vary = TRUE]
  <2> DEFINE yes == TRUE
  <2>1. c = [r EXCEPT !.vary = yes]
    BY <1>3
  <2> HIDE DEF yes
  <2>2. c = [status |-> r.status, content_encoding |-> r.content_encoding,
       content_range |-> r.content_range, accept_ranges |-> r.accept_ranges,
       vary |-> yes, type |-> r.type, size |-> r.size, hint |-> r.hint,
       length |-> r.length, body |-> r.body, accept |-> r.accept]
    BY <2>1 DEF IsResponse
  <2>3. IsResponse(c) /\ c.body = r.body /\ c.content_encoding = r.content_encoding
        /\ c.length = r.length /\ c.vary = yes /\ c.status = r.status
    BY <2>2 DEF IsResponse
  <2>4. Carried(c)
    BY <2>3 DEF Carried
  <2> QED  BY <1>3, <2>3, <2>4 DEF yes
<1>4. CASE /\ chosen \in Compressed /\ ShouldCompress(r)
           /\ c = [r EXCEPT !.vary = TRUE, !.accept_ranges = FALSE, !.length = FALSE,
                            !.hint = FALSE, !.content_encoding = <<chosen>>,
                            !.body.codings = Append(@, chosen)]
  <2> DEFINE yes == TRUE
             no == FALSE
             one == <<chosen>>
             codings == Append(r.body.codings, chosen)
             b == [r.body EXCEPT !.codings = codings]
  <2>1. c = [r EXCEPT !.vary = yes, !.accept_ranges = no, !.length = no, !.hint = no,
                      !.content_encoding = one, !.body = b]
    BY <1>4
  <2>2. b = Coded(one)
    <3>1. r.content_encoding = <<>>
      BY <1>4 DEF ShouldCompress
    <3>2. r.body = Coded(<<>>)
      BY <3>1, AppliedParts DEF Carried
    <3>3. r.body.codings = <<>>
      BY <3>2 DEF Coded
    <3>4. codings = one
      <4>1. Append(<<>>, chosen) = <<chosen>>
        OBVIOUS
      <4> QED  BY <3>3, <4>1
    <3> DEFINE plain == <<>>
    <3>5. r.body = [codings |-> plain, intact |-> yes]
      BY <3>2 DEF Coded
    <3> HIDE DEF one, yes, plain, codings
    <3>6. [r.body EXCEPT !.codings = codings] = [codings |-> codings, intact |-> yes]
      BY <3>5
    <3> QED  BY <3>4, <3>6 DEF Coded, yes
  <2> HIDE DEF yes, no, one, b, codings
  <2>3. c = [status |-> r.status, content_encoding |-> one,
       content_range |-> r.content_range, accept_ranges |-> no,
       vary |-> yes, type |-> r.type, size |-> r.size, hint |-> no,
       length |-> no, body |-> b, accept |-> r.accept]
    BY <2>1 DEF IsResponse
  <2>4. IsResponse(c) /\ c.body = b /\ c.content_encoding = one
        /\ c.length = no /\ c.vary = yes /\ c.status = r.status
    BY <2>3 DEF IsResponse
  <2>5. Carried(c)
    <3>1. chosen # "identity"
      BY <1>4, AcceptIsCompressed
    <3>2. Applied(one) = one
      BY <3>1, AppliedParts DEF one
    <3> QED  BY <2>2, <2>4, <3>2 DEF Carried
  <2> QED  BY <1>4, <2>4, <2>5 DEF yes, no, one
<1> QED  BY <1>1, <1>2, <1>3, <1>4, CompressCases
-----------------------------------------------------------------------------
LEMMA RequestsAreGiven ==
  ASSUME NEW load \in DOMAIN Loads, NEW q \in Loads[load].requests
  PROVE  IsRequest(q) /\ Carried(q) /\ q.accept \in Headers
<1> DEFINE lines == Seq(Codings)
           bodies == [codings : lines, intact : {TRUE}]
           headers == Seq(Element)
<1>1. q \in [accept : headers, content_encoding : lines, length : BOOLEAN, body : bodies]
      /\ Honest(q)
  BY StackAssumption
<1> HIDE DEF lines, bodies, headers
<1>2. IsRequest(q) /\ q.accept \in headers /\ q.body \in bodies
  BY <1>1 DEF IsRequest
<1> QED  BY <1>1, <1>2, GivenIsCarried DEF Headers, lines, bodies, headers

LEMMA InitSettings ==
  ASSUME Init
  PROVE  config \in Settings /\ IsRequest(asked) /\ Carried(asked) /\ asked.accept \in Headers
<1>1. PICK load \in DOMAIN Loads :
        /\ config \in [load : {load}, client : Loads[load].clients,
                       server : Loads[load].servers, pass_through : Loads[load].pass_through]
        /\ asked \in Loads[load].requests
  BY DEF Init, DecompressionConfig, CompressionConfig, RequestDecompressionConfig
<1>2. /\ Loads[load].clients \subseteq AcceptEncoding
      /\ Loads[load].servers \subseteq AcceptEncoding
      /\ Loads[load].pass_through \subseteq BOOLEAN
  BY StackAssumption
<1>3. config \in Settings
  <2> DEFINE C == Loads[load].clients
             S == Loads[load].servers
             P == Loads[load].pass_through
             A == AcceptEncoding
  <2>1. config \in [load : {load}, client : C, server : S, pass_through : P]
        /\ C \subseteq A /\ S \subseteq A /\ P \subseteq BOOLEAN
    BY <1>1, <1>2
  <2> HIDE DEF C, S, P, A
  <2>2. config \in [load : DOMAIN Loads, client : A, server : A, pass_through : BOOLEAN]
    BY <2>1
  <2> QED  BY <2>2 DEF Settings, A
<1> QED  BY <1>1, <1>3, RequestsAreGiven

LEMMA InitIsSound ==
  ASSUME Init
  PROVE  CompressionInv
<1>1. at = "client" /\ req = asked /\ made = Absent /\ res = Absent
  BY DEF Init
<1> QED  BY <1>1, InitSettings
         DEF CompressionInv, RequestIs, ResponseIs, HandlerIs, Untouched

LEMMA DecompressionCallKeeps ==
  ASSUME CompressionInv, DecompressionCall
  PROVE  CompressionInv'
<1>1. /\ at = "client" /\ at' = "compression"
      /\ UNCHANGED <<config, asked, encoding, made, res>>
      /\ req' = IF req.accept = Absent
                  THEN [req EXCEPT !.accept = ToHeaderValue(config.client)] ELSE req
  BY DEF DecompressionCall
<1>2. /\ Carried(asked) /\ IsRequest(req) /\ Untouched /\ made = Absent /\ res = Absent
      /\ req.accept \in Headers /\ config \in Settings
  BY <1>1 DEF CompressionInv, RequestIs, ResponseIs, Undone
<1> DEFINE h == ToHeaderValue(config.client)
<1>3. h \in Headers
  BY <1>2 DEF Headers, Settings
<1>4. IsRequest(req') /\ req'.accept \in Headers
      /\ req'.content_encoding = req.content_encoding /\ req'.body = req.body
  <2>1. CASE req.accept = Absent
    <3> HIDE DEF h
    <3>1. req' = [req EXCEPT !.accept = h]
      BY <1>1, <2>1 DEF h
    <3>2. req' = [accept |-> h, content_encoding |-> req.content_encoding,
                  length |-> req.length, body |-> req.body]
      BY <1>2, <3>1 DEF IsRequest
    <3> QED  BY <1>3, <3>2 DEF IsRequest
  <2>2. CASE req.accept # Absent
    BY <1>1, <1>2, <2>2
  <2> QED  BY <2>1, <2>2
<1>5. Untouched'
  BY <1>1, <1>2, <1>4 DEF Untouched
<1>6. Carried(asked)'
  BY <1>1, <1>2 DEF Carried
<1> QED  BY <1>1, <1>2, <1>4, <1>5, <1>6 DEF CompressionInv, RequestIs, ResponseIs, HandlerIs

LEMMA CompressionCallKeeps ==
  ASSUME CompressionInv, CompressionCall
  PROVE  CompressionInv'
<1>1. /\ at = "compression" /\ at' = "request_decompression"
      /\ encoding' = FromHeaders(req.accept, config.server)
      /\ UNCHANGED <<config, asked, req, made, res>>
  BY DEF CompressionCall
<1>2. /\ Carried(asked) /\ IsRequest(req) /\ Untouched /\ made = Absent /\ res = Absent
      /\ req.accept \in Headers /\ config \in Settings
  BY <1>1 DEF CompressionInv, RequestIs, ResponseIs, Undone
<1>3. config.client \in AcceptEncoding /\ config.server \in AcceptEncoding
  BY <1>2 DEF Settings
<1>4. encoding' \in Outcomes
  <2>1. encoding' \in config.server \cup {"identity", Unknown}
    BY <1>1, <1>2, <1>3, FromHeadersParts
  <2> QED  BY <1>3, <2>1, AcceptIsCompressed DEF Outcomes
<1>5. req.accept = ToHeaderValue(config.client) =>
        encoding' \in (config.client \cap config.server) \cup {"identity"}
  BY <1>1, <1>3, WrittenParts
<1>6. Untouched' /\ Carried(asked)'
  BY <1>1, <1>2 DEF Untouched, Carried
<1> QED  BY <1>1, <1>2, <1>4, <1>5, <1>6 DEF CompressionInv, RequestIs, ResponseIs, HandlerIs

LEMMA RequestDecompressionCallKeeps ==
  ASSUME CompressionInv, RequestDecompressionCall
  PROVE  CompressionInv'
<1>1. /\ at = "request_decompression" /\ at' = "handler"
      /\ UNCHANGED <<config, asked, encoding, made, res>>
      /\ Decodes(req, config.server) \/ PassesOn
      /\ req' = IF Decodes(req, config.server) THEN Decoded(req) ELSE req
  BY DEF RequestDecompressionCall
<1>2. /\ Carried(asked) /\ IsRequest(req) /\ Untouched /\ made = Absent /\ res = Absent
      /\ req.accept \in Headers /\ encoding \in Outcomes
      /\ req.accept \in {ToHeaderValue(config.client)} =>
           encoding \in (config.client \cap config.server) \cup {"identity"}
      /\ config \in Settings
  BY <1>1 DEF CompressionInv, RequestIs, ResponseIs, Undone
<1>3. FirstLine(req) = FirstLine(asked)
  BY <1>2 DEF FirstLine, Untouched
<1>4. Carried(asked)' /\ (FirstLineSaysAll(asked))' = FirstLineSaysAll(asked)
      /\ FirstLine(asked)' = FirstLine(asked)
  BY <1>1, <1>2 DEF Carried, FirstLineSaysAll, FirstLine
<1>5. IsRequest(req') /\ req'.accept = req.accept /\ (Untouched \/ Undone)'
  <2>1. CASE Decodes(req, config.server)
    <3>1. FirstLine(asked) \in Compressed
      BY <1>2, <1>3, <2>1, AcceptIsCompressed DEF Decodes, Settings
    <3>2. /\ IsRequest(req') /\ req'.accept = req.accept /\ req'.length = FALSE
          /\ req'.content_encoding = <<>>
          /\ req'.body = Undo(Head(asked.content_encoding), asked.body)
      BY <1>1, <1>2, <2>1, DecodedRequest DEF Untouched
    <3>3. FirstLineSaysAll(asked) => req'.body = Coded(<<>>)
      BY <1>2, <3>1, <3>2, DecodedBody
    <3> QED  BY <1>1, <1>4, <3>2, <3>3 DEF Undone
  <2>2. CASE ~Decodes(req, config.server)
    <3>1. req' = req /\ PassesOn
      BY <1>1, <2>2
    <3>2. ~config.pass_through => FirstLine(asked) \in {"", "identity"}
      BY <1>3, <3>1 DEF PassesOn
    <3> QED  BY <1>1, <1>2, <1>4, <3>1, <3>2 DEF Untouched
  <2> QED  BY <2>1, <2>2
<1> QED  BY <1>1, <1>2, <1>4, <1>5 DEF CompressionInv, RequestIs, ResponseIs, HandlerIs

(* Nothing changes about the request on the way back.                      *)
LEMMA RequestIsKept ==
  ASSUME RequestIs, UNCHANGED <<config, asked, req, encoding>>,
         at \notin {"client", "compression"}, at' \in {"response", "wire", "done"}
  PROVE  RequestIs'
<1>1. Carried(asked)' /\ (FirstLineSaysAll(asked))' = FirstLineSaysAll(asked)
  BY DEF RequestIs, Carried, FirstLineSaysAll, FirstLine
<1>2. (Untouched \/ Undone)'
  BY <1>1 DEF RequestIs, Untouched, Undone
<1> QED  BY <1>1, <1>2 DEF RequestIs

LEMMA RefuseRequestKeeps ==
  ASSUME CompressionInv, RefuseRequest
  PROVE  CompressionInv'
<1>1. /\ at = "request_decompression" /\ at' = "response"
      /\ UNCHANGED <<config, asked, req, encoding>>
      /\ ~Decodes(req, config.server) /\ ~PassesOn
      /\ made' = Unsupported /\ res' = Unsupported
  BY DEF RefuseRequest
<1>2. RequestIs /\ RequestIs'
  BY <1>1, RequestIsKept DEF CompressionInv
<1> DEFINE plain == <<>>
           b == Coded(plain)
           no == FALSE
           yes == TRUE
           status == "unsupported"
           type == "text"
           size == 0
           accept == Unsupported.accept
<1>3. Unsupported = [status |-> status, content_encoding |-> plain, content_range |-> no,
                     accept_ranges |-> no, vary |-> no, type |-> type, size |-> size,
                     hint |-> yes, length |-> no, body |-> b, accept |-> accept]
  BY DEF Unsupported
<1> HIDE DEF plain, b, no, yes, status, type, size, accept
<1>4. IsResponse(made') /\ made'.content_encoding = plain /\ made'.body = b
      /\ made'.length = no /\ made'.accept = accept
  BY <1>1, <1>3 DEF IsResponse
<1>5. Carried(made') /\ made'.length \in BOOLEAN
  BY <1>4, AppliedParts DEF Carried, plain, b, no
<1>6. ResponseIs'
  BY <1>1, <1>4, <1>5 DEF ResponseIs
<1>7. Unsupported.accept' = Unsupported.accept
  BY <1>1 DEF Unsupported
<1>8. FirstLine(asked)' = FirstLine(asked)
      /\ FirstLine(asked) \notin config.server \cup {"", "identity"}
  <2>1. Untouched
    BY <1>1, <1>2 DEF RequestIs, Undone
  <2>2. FirstLine(asked)' = FirstLine(req)
    BY <1>1, <2>1 DEF Untouched, FirstLine
  <2> QED  BY <1>1, <2>1, <2>2 DEF Decodes, PassesOn, Untouched, FirstLine
<1>9. HandlerIs'
  BY <1>1, <1>4, <1>7, <1>8 DEF HandlerIs, accept
<1> QED  BY <1>2, <1>6, <1>9 DEF CompressionInv

LEMMA HandlerRespondsKeeps ==
  ASSUME CompressionInv, HandlerResponds
  PROVE  CompressionInv'
<1>1. /\ at = "handler" /\ at' = "response" /\ UNCHANGED <<config, asked, req, encoding>>
      /\ made' \in Loads[config.load].responses /\ res' = made'
  BY DEF HandlerResponds
<1>2. RequestIs'
  BY <1>1, RequestIsKept DEF CompressionInv
<1>3. IsResponse(made') /\ made'.status = "ok" /\ made'.length \in BOOLEAN /\ Carried(made')
  <2> DEFINE lines == Seq(Codings)
             bodies == [codings : lines, intact : {TRUE}]
             absent == {Absent}
             ok == "ok"
  <2>1. config.load \in DOMAIN Loads
    BY DEF CompressionInv, RequestIs, Settings
  <2>2. made' \in
          [status : {ok}, content_encoding : lines, content_range : BOOLEAN,
           accept_ranges : BOOLEAN, vary : BOOLEAN, type : ContentTypes, size : Nat,
           hint : BOOLEAN, length : BOOLEAN, body : bodies, accept : absent]
        /\ Honest(made')
    BY <1>1, <2>1, StackAssumption
  <2> HIDE DEF lines, bodies, absent, ok
  <2>3. IsResponse(made') /\ made'.status = ok /\ made'.length \in BOOLEAN
        /\ made'.body \in bodies
    BY <2>2 DEF IsResponse
  <2> QED  BY <2>2, <2>3, GivenIsCarried DEF lines, bodies, ok
<1>4. ResponseIs'
  BY <1>1, <1>3 DEF ResponseIs
<1>5. HandlerIs'
  BY <1>1, <1>3 DEF HandlerIs
<1> QED  BY <1>2, <1>4, <1>5 DEF CompressionInv

LEMMA PollKeeps ==
  ASSUME CompressionInv, CompressionPoll \/ DecompressionPoll
  PROVE  CompressionInv'
<1>1. /\ UNCHANGED <<config, asked, req, encoding, made>>
      /\ \/ at = "response" /\ at' = "wire" /\ res' = Compress(encoding, res)
         \/ /\ at = "wire" /\ at' = "done"
            /\ res' = IF Decodes(res, config.client) THEN Decoded(res) ELSE res
  BY DEF CompressionPoll, DecompressionPoll
<1>2. RequestIs'
  BY <1>1, RequestIsKept DEF CompressionInv
<1>3. ResponseIs'
  BY <1>1 DEF CompressionInv, ResponseIs
<1>4. Unsupported.accept' = Unsupported.accept
  BY <1>1 DEF Unsupported
<1>5. HandlerIs'
  BY <1>1, <1>4 DEF CompressionInv, HandlerIs, FirstLine
<1> QED  BY <1>2, <1>3, <1>5 DEF CompressionInv

LEMMA StutterKeeps ==
  ASSUME CompressionInv, UNCHANGED vars
  PROVE  CompressionInv'
<1>1. UNCHANGED <<at, config, asked, req, encoding, made, res>>
  BY DEF vars
<1>2. Unsupported.accept' = Unsupported.accept
  BY <1>1 DEF Unsupported
<1> QED  BY <1>1, <1>2 DEF CompressionInv, RequestIs, ResponseIs, HandlerIs, Untouched, Undone,
                         Carried, FirstLineSaysAll, FirstLine
-----------------------------------------------------------------------------
(* The request and the response always are what the three middleware have  *)
(* made of them so far: a body coded as its lines say, a request that was  *)
(* left alone or decoded by its first line, on the wire what Compression   *)
(* made of the handler's response, and for the client what Decompression   *)
(* made of that (the call and poll functions of Compression, Decompression *)
(* and RequestDecompression).                                              *)
THEOREM CompressionIsSound == Spec => []CompressionInv
<1>1. Init => CompressionInv
  BY InitIsSound
<1>2. CompressionInv /\ [Next]_vars => CompressionInv'
  <2> SUFFICES ASSUME CompressionInv, [Next]_vars
               PROVE  CompressionInv'
    OBVIOUS
  <2>1. CASE DecompressionCall
    BY <2>1, DecompressionCallKeeps
  <2>2. CASE CompressionCall
    BY <2>2, CompressionCallKeeps
  <2>3. CASE RequestDecompressionCall
    BY <2>3, RequestDecompressionCallKeeps
  <2>4. CASE RefuseRequest
    BY <2>4, RefuseRequestKeeps
  <2>5. CASE HandlerResponds
    BY <2>5, HandlerRespondsKeeps
  <2>6. CASE CompressionPoll \/ DecompressionPoll
    BY <2>6, PollKeeps
  <2>7. CASE Terminated \/ UNCHANGED vars
    BY <2>7, StutterKeeps DEF Terminated
  <2> QED  BY <2>1, <2>2, <2>3, <2>4, <2>5, <2>6, <2>7 DEF Next
<1> QED  BY <1>1, <1>2, PTL DEF Spec

(* What the invariant says of a response that is on its way back.          *)
LEMMA ResponseParts ==
  ASSUME CompressionInv, at \in {"response", "wire", "done"}, NEW sent,
         sent = Compress(encoding, made)
  PROVE  /\ IsResponse(made) /\ Carried(made) /\ IsResponse(sent) /\ Carried(sent)
         /\ \/ /\ sent.body = made.body /\ sent.content_encoding = made.content_encoding
               /\ sent.length = made.length
            \/ /\ encoding \in Compressed /\ ShouldCompress(made) /\ sent.length = FALSE
               /\ sent.content_encoding = <<encoding>>
         /\ encoding # Unknown => sent.status = made.status
         /\ sent.vary = TRUE \/ (~ShouldCompress(made) /\ sent = made)
         /\ at = "response" => res = made
         /\ at = "wire" => res = sent
         /\ at = "done" => \/ Decodes(sent, config.client) /\ res = Decoded(sent)
                           \/ ~Decodes(sent, config.client) /\ res = sent
         /\ config.client \subseteq Compressed
<1>1. IsResponse(made) /\ Carried(made) /\ encoding \in Outcomes
  BY DEF CompressionInv, RequestIs, ResponseIs
<1>2. config.client \subseteq Compressed
  <2>1. config.client \in AcceptEncoding
    BY DEF CompressionInv, RequestIs, Settings
  <2> QED  BY <2>1, AcceptIsCompressed
<1>3. /\ at = "response" => res = made
      /\ at = "wire" => res = sent
      /\ at = "done" => res = IF Decodes(sent, config.client) THEN Decoded(sent) ELSE sent
  BY DEF CompressionInv, ResponseIs
<1>4. IsResponse(sent) /\ Carried(sent)
  BY <1>1, CompressParts, Zenon
<1>5. \/ /\ sent.body = made.body /\ sent.content_encoding = made.content_encoding
         /\ sent.length = made.length
      \/ /\ encoding \in Compressed /\ ShouldCompress(made) /\ sent.length = FALSE
         /\ sent.content_encoding = <<encoding>>
  BY <1>1, CompressParts, ZenonT(120)
<1>6. /\ encoding # Unknown => sent.status = made.status
      /\ sent.vary = TRUE \/ (~ShouldCompress(made) /\ sent = made)
  BY <1>1, CompressParts, Zenon
<1>7. at = "done" => \/ Decodes(sent, config.client) /\ res = Decoded(sent)
                     \/ ~Decodes(sent, config.client) /\ res = sent
  BY <1>3
<1> QED  BY <1>1, <1>2, <1>3, <1>4, <1>5, <1>6, <1>7

(* Decompression's first line is Compression's, or the handler's.          *)
LEMMA DecodedFromServer ==
  ASSUME NEW sent, IsResponse(sent), Carried(sent), FirstLine(sent) \in Compressed,
         \/ /\ sent.body = made.body /\ sent.content_encoding = made.content_encoding
            /\ FirstLineSaysAll(made)
         \/ encoding \in Compressed /\ sent.content_encoding = <<encoding>>
  PROVE  Carried(Decoded(sent)) /\ Decoded(sent).body = Coded(<<>>)
<1>1. FirstLineSaysAll(sent)
  <2>1. CASE /\ sent.body = made.body /\ sent.content_encoding = made.content_encoding
             /\ FirstLineSaysAll(made)
    BY <2>1 DEF FirstLineSaysAll, FirstLine
  <2>2. CASE encoding \in Compressed /\ sent.content_encoding = <<encoding>>
    <3>1. <<encoding>> # <<>> /\ Head(<<encoding>>) = encoding
      OBVIOUS
    <3>2. FirstLine(sent) = encoding /\ encoding \notin {"", "identity"}
      BY <2>2, <3>1, AcceptIsCompressed DEF FirstLine
    <3>3. sent.body.codings = <<encoding>>
      BY <2>2, <3>2, CarriedIsTruthful, AppliedParts
    <3> QED  BY <3>2, <3>3 DEF FirstLineSaysAll
  <2> QED  BY <2>1, <2>2
<1>2. Decoded(sent).body = Coded(<<>>) /\ Decoded(sent).content_encoding = <<>>
  BY <1>1, DecodedBody, DecodedResponse
<1> QED  BY <1>2, AppliedParts DEF Carried

LEMMA InvIsTruthful ==
  ASSUME CompressionInv
  PROVE  HeadersTellTheTruth
<1>1. /\ FirstLineSaysAll(asked) \/ req.content_encoding # <<>> => Truthful(req)
      /\ req.length => req.body = asked.body
  <2>1. CASE Untouched
    <3>1. Carried(req)
      BY <2>1 DEF CompressionInv, RequestIs, Untouched, Carried
    <3> QED  BY <2>1, <3>1, CarriedIsTruthful DEF Untouched
  <2>2. CASE Undone
    <3>1. FirstLineSaysAll(asked) => Carried(req)
      BY <2>2, AppliedParts DEF Undone, Carried
    <3> QED  BY <2>2, <3>1, CarriedIsTruthful DEF Undone
  <2> QED  BY <2>1, <2>2 DEF CompressionInv, RequestIs
<1>2. CASE at \notin {"response", "wire", "done"}
  <2>1. res = Absent
    BY <1>2 DEF CompressionInv, ResponseIs
  <2> QED  BY <1>1, <1>2, <2>1 DEF HeadersTellTheTruth, HandlersCodingKept, VaryIsSet
<1>3. CASE at \in {"response", "wire", "done"}
  <2> DEFINE sent == Compress(encoding, made)
  <2>1. /\ IsResponse(made) /\ Carried(made) /\ IsResponse(sent) /\ Carried(sent)
        /\ \/ /\ sent.body = made.body /\ sent.content_encoding = made.content_encoding
              /\ sent.length = made.length
           \/ /\ encoding \in Compressed /\ ShouldCompress(made) /\ sent.length = FALSE
              /\ sent.content_encoding = <<encoding>>
        /\ sent.vary = TRUE \/ (~ShouldCompress(made) /\ sent = made)
        /\ at = "response" => res = made
        /\ at = "wire" => res = sent
        /\ at = "done" => \/ Decodes(sent, config.client) /\ res = Decoded(sent)
                          \/ ~Decodes(sent, config.client) /\ res = sent
        /\ config.client \subseteq Compressed
    BY <1>3, ResponseParts
  <2> HIDE DEF sent
  <2>2. Decodes(sent, config.client) =>
          /\ Decoded(sent).length = FALSE /\ Decoded(sent).content_encoding = <<>>
          /\ FirstLineSaysAll(made) => Carried(Decoded(sent))
    BY <2>1, DecodedResponse, DecodedFromServer DEF Decodes
  <2>3. FirstLineSaysAll(made) \/ res.content_encoding # <<>> => Truthful(res)
    <3>1. FirstLineSaysAll(made) \/ res.content_encoding # <<>> => Carried(res)
      BY <1>3, <2>1, <2>2
    <3> QED  BY <3>1, CarriedIsTruthful
  <2>4. at \in {"wire", "done"} /\ res.length => res.body = made.body
    BY <2>1, <2>2
  <2>5. HandlersCodingKept
    BY <2>1 DEF HandlersCodingKept, ShouldCompress
  <2>6. VaryIsSet
    <3> SUFFICES ASSUME at = "wire", ~res.vary, NEW other \in Compressed \cup {"identity"}
                 PROVE  Compress(other, made).content_encoding = res.content_encoding
      BY DEF VaryIsSet
    <3>1. ~ShouldCompress(made) /\ res = made
      BY <2>1
    <3>2. other \in Outcomes /\ other # Unknown
      BY AcceptIsCompressed DEF Outcomes
    <3>3. Compress(other, made) = made
      BY <2>1, <3>1, <3>2, CompressCases, AcceptIsCompressed
    <3> QED  BY <3>1, <3>3
  <2> QED  BY <1>1, <2>3, <2>4, <2>5, <2>6 DEF HeadersTellTheTruth
<1> QED  BY <1>2, <1>3

(* For all settings, headers and any number of Content-Encoding lines: no  *)
(* middleware declares a coded body plain or the reverse unless it undid   *)
(* the first of several codings, forgets an outdated Content-Length,       *)
(* touches a range or what the handler encoded itself, or leaves out Vary  *)
(* (Compression, Decompression, RequestDecompression).                     *)
THEOREM HeadersAlwaysTellTheTruth == Spec => []HeadersTellTheTruth
<1>1. Spec => []CompressionInv
  BY CompressionIsSound
<1>2. CompressionInv => HeadersTellTheTruth
  BY InvIsTruthful
<1> QED  BY <1>1, <1>2, PTL

LEMMA InvIsReadable ==
  ASSUME CompressionInv
  PROVE  BothSidesCanRead
<1>1. TransparentToClient
  <2> SUFFICES ASSUME at = "done", made.status = "ok", made.content_encoding = <<>>,
                      req.accept = ToHeaderValue(config.client)
               PROVE  res.status = "ok" /\ res.content_encoding = <<>> /\ res.body = made.body
    BY DEF TransparentToClient
  <2> DEFINE sent == Compress(encoding, made)
  <2>1. /\ Carried(made) /\ IsResponse(sent) /\ Carried(sent)
        /\ \/ sent.body = made.body /\ sent.content_encoding = made.content_encoding
           \/ encoding \in Compressed /\ sent.content_encoding = <<encoding>>
        /\ encoding # Unknown => sent.status = made.status
        /\ \/ Decodes(sent, config.client) /\ res = Decoded(sent)
           \/ ~Decodes(sent, config.client) /\ res = sent
        /\ config.client \subseteq Compressed
    BY ResponseParts
  <2> HIDE DEF sent
  <2>2. encoding \in config.client \cup {"identity"}
    BY DEF CompressionInv, RequestIs
  <2>3. encoding # Unknown
    BY <2>1, <2>2, AcceptIsCompressed
  <2>4. made.body = Coded(<<>>)
    BY <2>1, NoLines
  <2>5. CASE sent.body = made.body /\ sent.content_encoding = made.content_encoding
    <3>1. ~Decodes(sent, config.client)
      <4>1. FirstLine(sent) = ""
        BY <2>5 DEF FirstLine
      <4> QED  BY <2>1, <4>1, AcceptIsCompressed DEF Decodes
    <3> QED  BY <2>1, <2>3, <2>5, <3>1
  <2>6. CASE encoding \in Compressed /\ sent.content_encoding = <<encoding>>
    <3>1. <<encoding>> # <<>> /\ Head(<<encoding>>) = encoding
      OBVIOUS
    <3>2. FirstLine(sent) = encoding
      BY <2>6, <3>1 DEF FirstLine
    <3>3. Decodes(sent, config.client)
      BY <2>2, <2>6, <3>2, AcceptIsCompressed DEF Decodes
    <3> QED  BY <2>1, <2>3, <2>4, <2>6, <3>2, <3>3, DecodedResponse, DecodedFromServer
  <2> QED  BY <2>1, <2>5, <2>6
<1>2. HandlerReadsBody
  <2>1. at = "handler" /\ ~config.pass_through /\ FirstLineSaysAll(asked) =>
          req.body = Coded(<<>>)
    <3> SUFFICES ASSUME at = "handler", ~config.pass_through, FirstLineSaysAll(asked)
                 PROVE  req.body = Coded(<<>>)
      OBVIOUS
    <3>1. CASE Untouched
      <4>1. FirstLine(asked) \in {"", "identity"} /\ req.body = asked.body
        BY <3>1 DEF Untouched
      <4>2. Carried(asked)
        BY DEF CompressionInv, RequestIs
      <4> QED  BY <4>1, <4>2, FirstLineIs
    <3>2. CASE Undone
      BY <3>2 DEF Undone
    <3> QED  BY <3>1, <3>2 DEF CompressionInv, RequestIs
  <2>2. ASSUME made # Absent, made.status = "unsupported", NEW i \in DOMAIN made.accept
        PROVE  /\ made.accept[i].coding \in config.server \cup {"identity"}
               /\ made.accept[i].coding # FirstLine(asked)
    <3>1. at \in {"response", "wire", "done"}
      BY <2>2 DEF CompressionInv, ResponseIs
    <3>2. made.accept = Unsupported.accept /\ FirstLine(asked) \notin config.server \cup {"", "identity"}
      BY <2>2, <3>1 DEF CompressionInv, HandlerIs
    <3>3. made.accept = IF config.server = {} THEN <<[coding |-> "identity", q |-> NoQ]>>
                                              ELSE ToHeaderValue(config.server)
      BY <3>2 DEF Unsupported
    <3>4. made.accept[i].coding \in config.server \cup {"identity"}
      <4>1. CASE config.server = {}
        <5> DEFINE item == [coding |-> "identity", q |-> NoQ]
                   one == <<item>>
        <5>1. made.accept = one
          BY <3>3, <4>1
        <5>2. item.coding = "identity"
          OBVIOUS
        <5> HIDE DEF item
        <5>3. one[1] = item /\ DOMAIN one = {1}
          OBVIOUS
        <5> QED  BY <2>2, <5>1, <5>2, <5>3
      <4>2. CASE config.server # {}
        <5>1. config.server \in AcceptEncoding
          BY DEF CompressionInv, RequestIs, Settings
        <5>2. made.accept = ToHeaderValue(config.server)
          BY <3>3, <4>2
        <5>3. Written(made.accept, config.server)
          BY <5>2, ToHeaderValueIs
        <5>4. DOMAIN made.accept = 1..Len(made.accept)
          BY <5>3 DEF Written
        <5> QED  BY <2>2, <5>3, <5>4 DEF Written
      <4> QED  BY <4>1, <4>2
    <3> QED  BY <3>2, <3>4
  <2> QED  BY <2>1, <2>2 DEF HandlerReadsBody
<1> QED  BY <1>1, <1>2 DEF BothSidesCanRead

(* However the two sides are configured and however many lines there are:  *)
(* a client that leaves Accept-Encoding to Decompression gets the          *)
(* handler's plain body and never a 406, the handler gets a body that it   *)
(* can read when the first line says all about it, and a refusal names     *)
(* encodings that would have been taken (Compression, Decompression,       *)
(* RequestDecompression).                                                  *)
THEOREM BothSidesCanAlwaysRead == Spec => []BothSidesCanRead
<1>1. Spec => []CompressionInv
  BY CompressionIsSound
<1>2. CompressionInv => BothSidesCanRead
  BY InvIsReadable
<1> QED  BY <1>1, <1>2, PTL

-----------------------------------------------------------------------------
(* The choice is made once, from the header as it reached the server, and  *)
(* is kept.                                                                *)
ChoiceInv ==
  /\ config \in Settings
  /\ IsRequest(req)
  /\ req.accept \in Headers
  /\ at \notin {"client", "compression"} => encoding = FromHeaders(req.accept, config.server)

LEMMA ChoiceStarts ==
  ASSUME Init
  PROVE  ChoiceInv
<1>1. at = "client" /\ req = asked
  BY DEF Init
<1> QED  BY <1>1, InitSettings DEF ChoiceInv

LEMMA ChoiceIsKept ==
  ASSUME ChoiceInv, [Next]_vars
  PROVE  ChoiceInv'
<1>1. CASE DecompressionCall
  <2>1. /\ at = "client" /\ at' = "compression" /\ config' = config
        /\ req' = IF req.accept = Absent
                    THEN [req EXCEPT !.accept = ToHeaderValue(config.client)] ELSE req
    BY <1>1 DEF DecompressionCall
  <2> DEFINE h == ToHeaderValue(config.client)
  <2>2. h \in Headers
    BY DEF Headers, ChoiceInv, Settings
  <2>3. IsRequest(req') /\ req'.accept \in Headers
    <3>1. CASE req.accept = Absent
      <4> HIDE DEF h
      <4>1. req' = [req EXCEPT !.accept = h]
        BY <2>1, <3>1 DEF h
      <4>2. req' = [accept |-> h, content_encoding |-> req.content_encoding,
                    length |-> req.length, body |-> req.body]
        BY <4>1 DEF IsRequest, ChoiceInv
      <4> QED  BY <2>2, <4>2 DEF IsRequest
    <3>2. CASE req.accept # Absent
      BY <2>1, <3>2 DEF ChoiceInv
    <3> QED  BY <3>1, <3>2
  <2> QED  BY <2>1, <2>3 DEF ChoiceInv
<1>2. CASE CompressionCall
  BY <1>2 DEF CompressionCall, ChoiceInv
<1>3. CASE RequestDecompressionCall
  <2>1. /\ at = "request_decompression" /\ UNCHANGED <<config, encoding>>
        /\ req' = IF Decodes(req, config.server) THEN Decoded(req) ELSE req
    BY <1>3 DEF RequestDecompressionCall
  <2>2. IsRequest(Decoded(req)) /\ Decoded(req).accept = req.accept
    BY DecodedRequest DEF ChoiceInv
  <2>3. IsRequest(req') /\ req'.accept = req.accept
    BY <2>1, <2>2 DEF ChoiceInv
  <2> QED  BY <2>1, <2>3 DEF ChoiceInv
<1>4. CASE RefuseRequest \/ HandlerResponds \/ CompressionPoll \/ DecompressionPoll
           \/ Terminated \/ UNCHANGED vars
  <2>1. /\ UNCHANGED <<config, asked, req, encoding>>
        /\ at \notin {"client", "compression"} \/ at' = at
    BY <1>4 DEF RefuseRequest, HandlerResponds, CompressionPoll, DecompressionPoll,
                Terminated, vars
  <2> QED  BY <2>1 DEF ChoiceInv
<1> QED  BY <1>1, <1>2, <1>3, <1>4 DEF Next

(* For every Accept-Encoding header, well-formed or not, and all settings: *)
(* Compression uses the encoding that the header values most, answers 406  *)
(* exactly when nothing is acceptable, and never uses an encoding that the *)
(* client only excluded (Encoding::from_headers, Compression::call).       *)
THEOREM ChoiceIsAlwaysBest == Spec => []ChoiceIsBest
<1>1. ChoiceInv => ChoiceIsBest
  <2> SUFFICES ASSUME ChoiceInv, at \notin {"client", "compression"}
               PROVE  /\ Consistent(req.accept, config.server) =>
                           Best(req.accept, config.server, encoding)
                      /\ encoding # Unknown => Acceptable(req.accept, config.server, encoding)
    BY DEF ChoiceIsBest
  <2>1. /\ req.accept \in Headers /\ config.server \in AcceptEncoding
        /\ encoding = FromHeaders(req.accept, config.server)
    BY DEF ChoiceInv, Settings
  <2>2. Readable(req.accept) /\ config.server \in AcceptEncoding
    BY <2>1, HeadersAreReadable
  <2> QED  BY <2>1, <2>2, ChoiceIsTheBest, ChoiceIsAcceptable
<1>2. Init => ChoiceInv
  BY ChoiceStarts
<1>3. ChoiceInv /\ [Next]_vars => ChoiceInv'
  BY ChoiceIsKept
<1> QED  BY <1>1, <1>2, <1>3, PTL DEF Spec
=============================================================================
