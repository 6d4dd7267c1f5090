---------------------------- MODULE ServeDirProofs ---------------------------
(***************************************************************************)
(* The safety properties of ServeDir for every file system, configuration  *)
(* and request, and any number of changes of the files during the call.    *)
(***************************************************************************)
EXTENDS ServeDir, NaturalsInduction, WellFoundedInduction, SequenceTheorems, TLAPS

IsSeq(s) == Len(s) \in Nat /\ s = [i \in 1..Len(s) |-> s[i]]

(* A path has components, and these have names.                            *)
IsPath(t) ==
  IsSeq(t) /\ Len(t) > 0 /\ \A i \in 1..Len(t) : IsSeq(t[i]) /\ Len(t[i]) > 0

(* Everything that has a revision.                                         *)
Entities == {disk[p] : p \in Paths} \cup {file, meta, cache}

(* A revision stands for one content, and new ones have not been used.     *)
World ==
  /\ config \in Configs /\ req \in Requests
  /\ disk \in [Paths -> Files] /\ file \in Files /\ meta \in Files /\ cache \in Files
  /\ changes \in Nat /\ seen \in 0..changes
  /\ \A f \in Entities : f.rev < FirstRev + changes /\ (f # Absent => f.rev > 0)
  /\ \A f, g \in Entities : f.rev = g.rev => f.len = g.len

(* Nothing is answered before the end of the call.                         *)
Phases ==
  /\ pc \in {"idle", "is_dir", "probe", "metadata", "fallback", "body", "done"}
  /\ quiet \in BOOLEAN
  /\ pc \notin {"body", "done"} => reply = NoReply /\ body = NoBody
  /\ pc = "body" => body.state = "open"
  /\ body \in [state : {"none", "open", "ended", "error"}, left : Int, pos : Nat,
               got : Nat, revs : SUBSET Nat]

(* The range of the request, in the file that was found.                   *)
Asked == try_parse_range(req.range, meta.len)

(* The headers are those of the metadata that was read, and the conditions *)
(* were evaluated against it.                                              *)
Explained ==
  /\ Served => reply = Headers(meta, encoding, Asked) /\ check(req, meta) = "None"
  /\ reply.status = 304 => check(req, meta) = "NotModified"

(* How far the body was read.  An open file that was not written to is     *)
(* still the one whose metadata was read.                                  *)
Streaming ==
  /\ body.state = "none" => body = NoBody
  /\ body.state # "none" =>
       /\ Served /\ Asked.kind \in {"none", "ok"}
       /\ body.pos = Asked.first + body.got
       /\ Asked.kind = "none" => body.left = Unlimited
       /\ Asked.kind = "ok" => body.left \in Nat /\ body.left + body.got = Limit(Asked)
       /\ Untouched => file = meta /\ body.pos <= meta.len /\ body.revs \subseteq {meta.rev}
       /\ Untouched /\ body.state = "ended" => body.got = reply.length

(* In the opening loop the path is the target again before each turn, and  *)
(* an encoding that was given up had no file.                              *)
Looping ==
  /\ pc \in {"is_dir", "probe"} =>
       /\ req.method # "POST"
       /\ IsPath(target)
       /\ path = target
       /\ negotiated \subseteq Negotiated(req, config)
       /\ pc = "is_dir" => negotiated = Negotiated(req, config)
  /\ pc = "probe" /\ quiet =>
       \A x \in Accepted :
         x.encoding \in Compressed =>
           x \in negotiated \/ At(Variant(target, x.encoding)) = Absent

(* The path that was opened belongs to the encoding, and none is better.   *)
Settled ==
  /\ path = Variant(target, encoding)
  /\ encoding \in Compressed => \E x \in Accepted : x.encoding = encoding
  /\ quiet => NothingBetter
Chosen == pc = "metadata" \/ Served => Settled

(* Who is sent to the fallback, or is to be told 404.                      *)
Refused ==
  /\ quiet
  /\ pc = "fallback" \/ reply.status \in {404, FallbackStatus}
  /\ req.method # "POST" /\ target # NoPath /\ ~NulInName
  => NothingToServe

ServeDirInv ==
  World /\ Phases /\ Explained /\ Streaming /\ Looping /\ Chosen /\ Refused
-----------------------------------------------------------------------------
(* Sequences, of whatever elements.                                        *)
LEMMA SeqParts ==
  ASSUME NEW S, NEW s \in Seq(S)
  PROVE  IsSeq(s) /\ \A i \in 1..Len(s) : s[i] \in S
<1>1. Len(s) \in Nat /\ DOMAIN s = 1..Len(s) /\ s \in [1..Len(s) -> S]
  BY LenProperties
<1> QED  BY <1>1 DEF IsSeq

LEMMA SeqOfFunction ==
  ASSUME NEW n \in Nat, NEW s, s = [i \in 1..n |-> s[i]]
  PROVE  Len(s) = n /\ IsSeq(s)
<1> DEFINE S == {s[i] : i \in 1..n}
<1>1. s \in [1..n -> S]
  OBVIOUS
<1>2. s \in Seq(S)
  BY <1>1, IsASeq
<1>3. Len(s) = n
  BY <1>1, <1>2, LenProperties
<1> QED  BY <1>3 DEF IsSeq

LEMMA AppendParts ==
  ASSUME NEW s, IsSeq(s), NEW e
  PROVE  /\ IsSeq(Append(s, e)) /\ Len(Append(s, e)) = Len(s) + 1
         /\ \A i \in 1..Len(s) : Append(s, e)[i] = s[i]
         /\ Append(s, e)[Len(s) + 1] = e
<1> DEFINE S == {s[i] : i \in 1..Len(s)} \cup {e}
<1>1. s \in Seq(S)
  <2>1. s \in [1..Len(s) -> S]
    BY DEF IsSeq
  <2>2. Len(s) \in Nat
    BY DEF IsSeq
  <2> QED  BY <2>1, <2>2, IsASeq
<1>2. e \in S
  OBVIOUS
<1>3. /\ Append(s, e) \in Seq(S) /\ Len(Append(s, e)) = Len(s) + 1
      /\ \A i \in 1..Len(s) : Append(s, e)[i] = s[i]
      /\ Append(s, e)[Len(s) + 1] = e
  BY <1>1, <1>2, AppendProperties
<1>4. IsSeq(Append(s, e))
  BY <1>3, SeqParts
<1> QED  BY <1>3, <1>4

LEMMA FrontOfAppend ==
  ASSUME NEW s, IsSeq(s), NEW e
  PROVE  Front(Append(s, e)) = s
<1> DEFINE a == Append(s, e)
           S == {s[i] : i \in 1..Len(s)} \cup {e}
<1>1. Len(s) \in Nat /\ s \in Seq(S) /\ e \in S
  <2>1. s \in [1..Len(s) -> S]
    BY DEF IsSeq
  <2>2. Len(s) \in Nat
    BY DEF IsSeq
  <2> QED  BY <2>1, <2>2, IsASeq
<1>2. a \in Seq(S) /\ Len(a) = Len(s) + 1 /\ \A i \in 1..Len(s) : a[i] = s[i]
  BY <1>1, AppendProperties
<1> DEFINE f == SubSeq(a, 1, Len(s))
<1>3. f \in Seq(S) /\ Len(f) = Len(s) /\ \A i \in 1..Len(s) : f[i] = a[i]
  BY <1>1, <1>2, SubSeqProperties
<1>4. f = s
  BY <1>1, <1>2, <1>3, SeqEqual
<1>5. Front(a) = SubSeq(a, 1, Len(a) - 1) /\ Len(a) - 1 = Len(s)
  BY <1>1, <1>2 DEF Front
<1> QED  BY <1>4, <1>5

-----------------------------------------------------------------------------
(* Paths: what an extension adds is what is taken away again.              *)
LEMMA WithExtensionParts ==
  ASSUME NEW t, IsPath(t), NEW ext
  PROVE  /\ IsPath(WithExtension(t, ext))
         /\ WithoutExtension(WithExtension(t, ext)) = t
<1> DEFINE n == Len(t)
           last == Append(t[n], ext)
           u == WithExtension(t, ext)
<1>1. n \in Nat /\ n > 0 /\ t = [i \in 1..n |-> t[i]] /\ n \in 1..n
      /\ \A i \in 1..n : IsSeq(t[i]) /\ Len(t[i]) > 0
  BY DEF IsPath, IsSeq
<1>2. u = [t EXCEPT ![n] = last]
  BY <1>1 DEF WithExtension
<1>3. IsSeq(last) /\ Len(last) = Len(t[n]) + 1 /\ Front(last) = t[n]
  BY <1>1, AppendParts, FrontOfAppend
<1>4. /\ u = [i \in 1..n |-> u[i]] /\ u[n] = last
      /\ \A i \in 1..n : i # n => u[i] = t[i]
  <2> HIDE DEF last, u
  <2> QED  BY <1>1, <1>2
<1>5. Len(u) = n /\ IsSeq(u)
  <2> HIDE DEF u
  <2> QED  BY <1>1, <1>4, SeqOfFunction
<1>6. Len(t[n]) \in Nat /\ Len(t[n]) > 0
  BY <1>1 DEF IsSeq
<1>7. IsPath(u)
  <2> HIDE DEF u, last
  <2>1. \A i \in 1..n : IsSeq(u[i]) /\ Len(u[i]) > 0
    BY <1>1, <1>3, <1>4, <1>6
  <2> QED  BY <1>1, <1>5, <2>1 DEF IsPath
<1>8. HasExtension(u)
  <2> HIDE DEF u, last
  <2> QED  BY <1>3, <1>4, <1>5, <1>6 DEF HasExtension, Last
<1>9. WithoutExtension(u) = [u EXCEPT ![n] = Front(last)]
  <2> HIDE DEF u, last
  <2> QED  BY <1>4, <1>5, <1>8, <1>1 DEF WithoutExtension
<1>10. [u EXCEPT ![n] = t[n]] = t
  <2> HIDE DEF u, last
  <2> QED  BY <1>1, <1>4
<1> QED  BY <1>3, <1>7, <1>9, <1>10

LEMMA PushParts ==
  ASSUME NEW t, IsPath(t)
  PROVE  IsPath(PushIndexHtml(t))
<1> DEFINE c == <<"index", "html">>
           u == Append(t, c)
<1>1. IsSeq(c) /\ Len(c) > 0
  BY DEF IsSeq
<1>2. Len(t) \in Nat /\ Len(t) > 0 /\ IsSeq(t) /\ \A i \in 1..Len(t) : IsSeq(t[i]) /\ Len(t[i]) > 0
  BY DEF IsPath, IsSeq
<1> HIDE DEF c
<1>3. /\ IsSeq(u) /\ Len(u) = Len(t) + 1
      /\ \A i \in 1..Len(t) : u[i] = t[i]
      /\ u[Len(t) + 1] = c
  BY <1>2, AppendParts
<1>4. ASSUME NEW i \in 1..Len(u) PROVE IsSeq(u[i]) /\ Len(u[i]) > 0
  <2>1. i \in 1..Len(t) \/ i = Len(t) + 1
    BY <1>2, <1>3
  <2> QED  BY <2>1, <1>1, <1>2, <1>3
<1>5. IsPath(u)
  BY <1>2, <1>3, <1>4 DEF IsPath
<1> QED  BY <1>5 DEF PushIndexHtml, c
-----------------------------------------------------------------------------
(* The encoding to try next is a greatest one.                             *)
LEMMA LeastExists ==
  ASSUME NEW S, S \subseteq Nat, S # {}
  PROVE  \E n \in S : \A y \in S : n =< y
<1>1. PICK n \in S : \A y \in S : ~ (<<y, n>> \in OpToRel(<, Nat))
  BY WFMin, NatLessThanWellFounded
<1>2. ASSUME NEW y \in S
      PROVE  n =< y
  <2>1. ~ (y < n)
    BY <1>1 DEF OpToRel
  <2> QED  BY <2>1
<1> QED  BY <1>2

LEMMA PreferenceIsBounded ==
  ASSUME NEW e
  PROVE  Preference(e) \in 0..5
<1> DEFINE I == {i \in 1..Len(Encodings) : Encodings[i] = e}
<1>1. Len(Encodings) = 5
  BY DEF Encodings
<1>2. I \subseteq 1..5
  BY <1>1
<1>3. Preference(e) = IF I # {} THEN Min(I) ELSE 0
  BY DEF Preference, SelectInSeq
<1>4. ASSUME I # {} PROVE Min(I) \in I
  <2>1. \E n \in I : \A y \in I : n =< y
    BY <1>2, <1>4, LeastExists
  <2> HIDE DEF I
  <2> QED  BY <2>1 DEF Min
<1>5. CASE I = {}
  BY <1>3, <1>5
<1>6. CASE I # {}
  <2>1. PICK k \in I : Preference(e) = k
    BY <1>3, <1>4, <1>6
  <2>2. k \in 1..5
    BY <1>2
  <2> QED  BY <2>1, <2>2
<1> QED  BY <1>5, <1>6

LEMMA GreatestExists ==
  ASSUME NEW E, NEW S, S \subseteq [encoding : E, qvalue : 0..One], S # {}
  PROVE  \E m \in S : \A other \in S : ~Less(m, other)
<1> DEFINE Score(x) == 6 * x.qvalue + Preference(x.encoding)
           T == {6005 - Score(x) : x \in S}
<1>1. ASSUME NEW x \in S
      PROVE  x.qvalue \in 0..1000 /\ Preference(x.encoding) \in 0..5
  BY PreferenceIsBounded DEF One
<1>2. T \subseteq Nat /\ T # {}
  <2>1. ASSUME NEW x \in S PROVE 6005 - Score(x) \in Nat
    BY <1>1
  <2> QED  BY <2>1
<1>3. PICK t \in T : \A y \in T : t =< y
  <2> HIDE DEF T
  <2> QED  BY <1>2, LeastExists
<1>4. PICK m \in S : t = 6005 - Score(m)
  BY <1>3
<1>5. ASSUME NEW other \in S PROVE ~Less(m, other)
  <2>1. 6005 - Score(m) =< 6005 - Score(other)
    BY <1>3, <1>4
  <2> QED  BY <2>1, <1>1 DEF Less
<1> QED  BY <1>5

LEMMA PreferredParts ==
  ASSUME NEW E, NEW S, S \subseteq [encoding : E, qvalue : 0..One]
  PROVE  \/ PreferredEncoding(S) = Unknown /\ \A x \in S : ~(x.qvalue > 0)
         \/ \E m \in S :
              /\ PreferredEncoding(S) = m.encoding /\ m.qvalue > 0
              /\ \A x \in S : x.qvalue > 0 => ~Less(m, x)
<1> DEFINE A == {e \in S : e.qvalue > 0}
           m == CHOOSE e \in A : \A other \in A : ~Less(e, other)
<1>1. PreferredEncoding(S) = IF A = {} THEN Unknown ELSE m.encoding
  BY DEF PreferredEncoding
<1>2. CASE A = {}
  BY <1>1, <1>2
<1>3. CASE A # {}
  <2>1. A \subseteq [encoding : E, qvalue : 0..One]
    OBVIOUS
  <2>2. \E e \in A : \A other \in A : ~Less(e, other)
    <3> HIDE DEF A
    <3> QED  BY <1>3, <2>1, GreatestExists
  <2>3. m \in A /\ \A other \in A : ~Less(m, other)
    <3> HIDE DEF A
    <3> QED  BY <2>2
  <2>4. PreferredEncoding(S) = m.encoding
    BY <1>1, <1>3
  <2> HIDE DEF m
  <2> QED  BY <2>3, <2>4
<1> QED  BY <1>2, <1>3

-----------------------------------------------------------------------------
(* QValue::parse gives thousandths.                                        *)
ReadsDigits(f, a, d, k) ==
  f = [n \in 0..k |->
         IF n = 0
           THEN [value |-> a * 1000, factor |-> 100]
           ELSE [value  |-> f[n - 1].value + f[n - 1].factor * d[n],
                 factor |-> f[n - 1].factor \div 10]]

AreDigits(a, d, k) == a \in Nat /\ k \in 0..3 /\ \A n \in 1..k : d[n] \in 0..9

Decimal(a, d, k) ==
  1000 * a + (IF k >= 1 THEN 100 * d[1] ELSE 0) + (IF k >= 2 THEN 10 * d[2] ELSE 0)
           + (IF k >= 3 THEN d[3] ELSE 0)

LEMMA DigitsAdd ==
  ASSUME NEW a, NEW d, NEW k, NEW f, AreDigits(a, d, k), ReadsDigits(f, a, d, k)
  PROVE  f[k].value = Decimal(a, d, k)
<1>0. a \in Nat /\ k \in 0..3 /\ \A n \in 1..k : d[n] \in 0..9
  BY DEF AreDigits
<1>1. f[0].value = 1000 * a /\ f[0].factor = 100
  BY <1>0 DEF ReadsDigits
<1>2. ASSUME NEW n \in 1..k
      PROVE  /\ f[n].value = f[n - 1].value + f[n - 1].factor * d[n]
             /\ f[n].factor = f[n - 1].factor \div 10
  BY <1>0 DEF ReadsDigits
<1>3. k >= 1 => f[1].value = 1000 * a + 100 * d[1] /\ f[1].factor = 10
  BY <1>0, <1>1, <1>2
<1>4. k >= 2 => f[2].value = 1000 * a + 100 * d[1] + 10 * d[2] /\ f[2].factor = 1
  BY <1>0, <1>2, <1>3
<1>5. k >= 3 => f[3].value = 1000 * a + 100 * d[1] + 10 * d[2] + d[3]
  <2> SUFFICES ASSUME k >= 3 PROVE f[3].value = 1000 * a + 100 * d[1] + 10 * d[2] + d[3]
    OBVIOUS
  <2>1. f[2].value = 1000 * a + 100 * d[1] + 10 * d[2] /\ f[2].factor = 1
    BY <1>0, <1>4
  <2>2. f[3].value = f[2].value + f[2].factor * d[3] /\ d[3] \in 0..9
    BY <1>0, <1>2
  <2>3. f[2].factor * d[3] = d[3]
    BY <2>1, <2>2
  <2> QED  BY <2>1, <2>2, <2>3
<1>6. CASE k = 0
  BY <1>0, <1>1, <1>6 DEF Decimal
<1>7. CASE k = 1
  BY <1>0, <1>3, <1>7 DEF Decimal
<1>8. CASE k = 2
  BY <1>0, <1>4, <1>8 DEF Decimal
<1>9. CASE k = 3
  BY <1>0, <1>5, <1>9 DEF Decimal
<1> QED  BY <1>0, <1>6, <1>7, <1>8, <1>9

LEMMA AfterExists ==
  ASSUME NEW a \in Nat, NEW d, NEW k \in 0..3
  PROVE  \E f : ReadsDigits(f, a, d, k)
<1> DEFINE Step(x, n) == [value |-> x.value + x.factor * d[n], factor |-> x.factor \div 10]
           x0 == [value |-> a * 1000, factor |-> 100]
           x1 == Step(x0, 1)
           x2 == Step(x1, 2)
           x3 == Step(x2, 3)
           g == [n \in 0..k |-> IF n = 0 THEN x0 ELSE IF n = 1 THEN x1
                                ELSE IF n = 2 THEN x2 ELSE x3]
<1> HIDE DEF Step, x0, x1, x2, x3
<1>1. g = [n \in 0..k |-> IF n = 0 THEN x0 ELSE Step(g[n - 1], n)]
  <2> SUFFICES ASSUME NEW n \in 0..k
               PROVE  g[n] = IF n = 0 THEN x0 ELSE Step(g[n - 1], n)
    BY Zenon
  <2>0. n \in 0..3 /\ (n # 0 => n - 1 \in 0..k)
    OBVIOUS
  <2>1. CASE n = 0
    BY <2>1
  <2>2. CASE n = 1
    BY <2>0, <2>2 DEF x1
  <2>3. CASE n = 2
    BY <2>0, <2>3 DEF x2
  <2>4. CASE n = 3
    BY <2>0, <2>4 DEF x3
  <2> QED  BY <2>0, <2>1, <2>2, <2>3, <2>4
<1> HIDE DEF g
<1>2. ReadsDigits(g, a, d, k)
  BY <1>1 DEF Step, x0, ReadsDigits
<1> QED  BY <1>2

LEMMA ParseQIsBounded ==
  ASSUME NEW q \in {NoQ} \cup [lead : Nat, digits : Seq(0..9)], ParseQ(q) # BadQ
  PROVE  ParseQ(q) \in 0..One
<1>1. CASE q = NoQ
  BY <1>1 DEF ParseQ, One
<1>2. CASE q # NoQ
  <2> DEFINE k == Len(q.digits)
             d == q.digits
             a == q.lead
             f == CHOOSE f : ReadsDigits(f, a, d, k)
  <2>1. a \in Nat /\ k \in Nat /\ d \in Seq(0..9) /\ \A n \in 1..k : d[n] \in 0..9
    BY <1>2
  <2>2. ParseQ(q) = IF a \in {0, 1} /\ k <= 3 /\ f[k].value <= 1000
                      THEN f[k].value ELSE BadQ
    BY <1>2, Zenon DEF ParseQ, ReadsDigits
  <2> HIDE DEF k, d, a, f
  <2>3. k \in 0..3
    BY <2>1, <2>2
  <2>4. ReadsDigits(f, a, d, k)
    <3>1. \E g : ReadsDigits(g, a, d, k)
      BY <2>1, <2>3, AfterExists
    <3> QED  BY <3>1, Zenon DEF f
  <2>5. f[k].value = Decimal(a, d, k)
    <3>1. AreDigits(a, d, k)
      BY <2>1, <2>3 DEF AreDigits
    <3> QED  BY <2>4, <3>1, DigitsAdd, Zenon
  <2> DEFINE v == f[k].value
  <2>6. ParseQ(q) = v /\ v <= 1000
    BY <2>2
  <2>7. v \in Nat
    <3> DEFINE x == IF k >= 1 THEN 100 * d[1] ELSE 0
               y == IF k >= 2 THEN 10 * d[2] ELSE 0
               z == IF k >= 3 THEN d[3] ELSE 0
    <3>1. x \in Nat /\ y \in Nat /\ z \in Nat
      BY <2>1, <2>3
    <3>2. v = 1000 * a + x + y + z
      BY <2>5 DEF Decimal
    <3> HIDE DEF x, y, z
    <3> QED  BY <2>1, <3>1, <3>2
  <2> HIDE DEF v
  <2> QED  BY <2>6, <2>7 DEF One
<1> QED  BY <1>1, <1>2

LEMMA ExplicitParts ==
  ASSUME NEW h \in Seq(Element), NEW supported \in SUBSET Compressed
  PROVE  Explicit(h, supported) \subseteq
           [encoding : supported \cup {"identity"}, qvalue : 0..One]
<1> DEFINE P(i) == Parse(h[i].coding, supported)
           Q(i) == ParseQ(h[i].q)
           L == Listed(h, supported)
           E == supported \cup {"identity"}
<1>1. \A x \in Element : x.q \in {NoQ} \cup [lead : Nat, digits : Seq(0..9)]
  BY DEF Element
<1>2. ASSUME NEW i \in L
      PROVE  P(i) \in E /\ Q(i) \in 0..One
  <2>1. i \in DOMAIN h /\ P(i) # Unknown /\ Q(i) # BadQ
    BY DEF Listed
  <2>2. h[i] \in Element
    <3> HIDE DEF Element
    <3> QED  BY <2>1
  <2>3. Q(i) \in 0..One
    BY <1>1, <2>1, <2>2, ParseQIsBounded
  <2>4. P(i) \in E
    BY <2>1 DEF Parse, Compressed
  <2> QED  BY <2>3, <2>4
<1>3. Explicit(h, supported) = {[encoding |-> P(i), qvalue |-> Q(i)] : i \in L}
  BY DEF Explicit
<1> HIDE DEF P, Q, L, E
<1>4. Explicit(h, supported) \subseteq [encoding : E, qvalue : 0..One]
  BY <1>2, <1>3
<1> QED  BY <1>4 DEF E
-----------------------------------------------------------------------------
(* What build_and_validate_path keeps are components.  Induction on        *)
(* numbers takes a set for the property: the provers cannot instantiate an *)
(* operator.                                                               *)
LEMMA FromZero ==
  ASSUME NEW S, 0 \in S, \A n \in Nat : n \in S => n + 1 \in S
  PROVE  \A n \in Nat : n \in S
<1> DEFINE T == {n \in Nat : n \notin S}
<1> SUFFICES ASSUME T # {} PROVE FALSE
  OBVIOUS
<1>1. PICK m \in T : \A y \in T : m =< y
  <2>1. T \subseteq Nat
    OBVIOUS
  <2> HIDE DEF T
  <2> QED  BY <2>1, LeastExists
<1>2. m # 0 /\ m \in Nat /\ m \notin S
  OBVIOUS
<1>3. m - 1 \in Nat /\ (m - 1) + 1 = m /\ ~(m =< m - 1)
  BY <1>2
<1>4. m - 1 \in S
  BY <1>1, <1>3
<1> QED  BY <1>2, <1>3, <1>4

KeepsUpTo(f, c, k) ==
  f = [n \in 0..k |-> IF n = 0 THEN <<>>
                      ELSE IF c[n] = CurDir THEN f[n - 1]
                      ELSE Append(f[n - 1], c[n])]

LEMMA KeptExists ==
  ASSUME NEW C, NEW c \in Seq(C)
  PROVE  \A k \in Nat : k <= Len(c) =>
           \E f \in [0..k -> Seq(C)] : KeepsUpTo(f, c, k)
<1> DEFINE Step(s, n) == IF c[n] = CurDir THEN s ELSE Append(s, c[n])
           plain == <<>>
           Good(f, k) == /\ f \in [0..k -> Seq(C)] /\ f[0] = plain
                         /\ \A n \in 1..k : f[n] = Step(f[n - 1], n)
           S == {k \in Nat : k <= Len(c) => \E f : Good(f, k)}
<1>1. Len(c) \in Nat /\ plain \in Seq(C)
  OBVIOUS
<1>2. ASSUME NEW n \in 1..Len(c), NEW s \in Seq(C) PROVE Step(s, n) \in Seq(C)
  BY AppendProperties
<1> HIDE DEF Step, plain
<1>3. 0 \in S
  <2> DEFINE g == [n \in 0..0 |-> plain]
  <2>1. Good(g, 0)
    BY <1>1
  <2> HIDE DEF g, Good
  <2> QED  BY <2>1
<1>4. ASSUME NEW k \in Nat, k \in S
      PROVE  k + 1 \in S
  <2> SUFFICES ASSUME k + 1 <= Len(c) PROVE \E f : Good(f, k + 1)
    <3> HIDE DEF Good
    <3> QED  OBVIOUS
  <2>1. PICK f : Good(f, k)
    BY <1>1, <1>4
  <2> DEFINE e == Step(f[k], k + 1)
             g == [n \in 0..(k + 1) |-> IF n = k + 1 THEN e ELSE f[n]]
  <2>2. e \in Seq(C)
    BY <1>1, <1>2, <2>1
  <2> HIDE DEF e
  <2>3. /\ g \in [0..(k + 1) -> Seq(C)] /\ g[0] = plain /\ g[k + 1] = e
        /\ \A n \in 0..k : g[n] = f[n]
    BY <2>1, <2>2
  <2> HIDE DEF g
  <2>4. ASSUME NEW n \in 1..(k + 1)
        PROVE  g[n] = Step(g[n - 1], n)
    <3>1. CASE n = k + 1
      <4>1. n - 1 = k /\ g[n - 1] = f[k]
        BY <2>3, <3>1
      <4> QED  BY <2>3, <3>1, <4>1 DEF e
    <3>2. CASE n # k + 1
      <4>1. n \in 1..k /\ n \in 0..k /\ n - 1 \in 0..k
        BY <3>2
      <4>2. g[n] = f[n] /\ g[n - 1] = f[n - 1] /\ f[n] = Step(f[n - 1], n)
        BY <2>1, <2>3, <4>1
      <4> QED  BY <4>2
    <3> QED  BY <3>1, <3>2
  <2>5. Good(g, k + 1)
    BY <2>3, <2>4
  <2> HIDE DEF Good
  <2> QED  BY <2>5
<1>5. \A k \in Nat : k \in S
  <2> HIDE DEF S
  <2> QED  BY <1>3, <1>4, FromZero
<1>6. ASSUME NEW k \in Nat, k <= Len(c)
      PROVE  \E f \in [0..k -> Seq(C)] : KeepsUpTo(f, c, k)
  <2>1. PICK f : Good(f, k)
    BY <1>5, <1>6
  <2>2. f = [n \in 0..k |-> IF n = 0 THEN plain ELSE Step(f[n - 1], n)]
    <3>1. f = [n \in 0..k |-> f[n]]
      BY <2>1
    <3>2. \A n \in 0..k : f[n] = IF n = 0 THEN plain ELSE Step(f[n - 1], n)
      BY <2>1
    <3> QED  BY <3>1, <3>2
  <2>3. KeepsUpTo(f, c, k)
    BY <2>2 DEF KeepsUpTo, Step, plain
  <2> QED  BY <2>1, <2>3
<1> QED  BY <1>6

LEMMA NormalIsPath ==
  ASSUME NEW C, NEW c \in Seq(C)
  PROVE  Normal(c) \in Seq(C)
<1> DEFINE k == Len(c)
           f == CHOOSE f : KeepsUpTo(f, c, k)
           S == {n \in Nat : n <= k => f[n] \in Seq(C)}
<1>1. Normal(c) = f[k]
  BY Zenon DEF Normal, KeepsUpTo
<1>2. k \in Nat
  OBVIOUS
<1>3. KeepsUpTo(f, c, k)
  <2>1. \E g : KeepsUpTo(g, c, k)
    BY <1>2, KeptExists
  <2> HIDE DEF k
  <2> QED  BY <2>1, Zenon
<1> HIDE DEF f
<1>4. \A n \in 0..k : f[n] = IF n = 0 THEN <<>>
                             ELSE IF c[n] = CurDir THEN f[n - 1]
                             ELSE Append(f[n - 1], c[n])
  BY <1>3 DEF KeepsUpTo
<1>5. 0 \in S
  <2>1. f[0] = <<>>
    BY <1>2, <1>4
  <2>2. <<>> \in Seq(C)
    OBVIOUS
  <2> QED  BY <2>1, <2>2
<1>6. ASSUME NEW n \in Nat, n \in S
      PROVE  n + 1 \in S
  <2> SUFFICES ASSUME n + 1 <= k PROVE f[n + 1] \in Seq(C)
    OBVIOUS
  <2>1. n + 1 \in 0..k /\ n + 1 # 0 /\ (n + 1) - 1 = n /\ f[n] \in Seq(C) /\ c[n + 1] \in C
    BY <1>2, <1>6
  <2> DEFINE s == f[n]
             x == c[n + 1]
  <2>2. f[n + 1] = s \/ f[n + 1] = Append(s, x)
    BY <1>4, <2>1
  <2>3. s \in Seq(C) /\ x \in C
    BY <2>1
  <2> HIDE DEF s, x
  <2>4. Append(s, x) \in Seq(C)
    BY <2>3, AppendProperties
  <2> QED  BY <2>2, <2>3, <2>4
<1>7. k \in S
  <2> HIDE DEF S, k
  <2> QED  BY <1>2, <1>5, <1>6, FromZero
<1> QED  BY <1>1, <1>2, <1>7
-----------------------------------------------------------------------------
(* Ranges: what is sent starts in the file and ends with it at the latest. *)
LEMMA MinOfTwo ==
  ASSUME NEW a \in Int, NEW b \in Int
  PROVE  Min({a, b}) \in {a, b} /\ Min({a, b}) =< a /\ Min({a, b}) =< b
<1> DEFINE S == {a, b}
<1>1. \E x \in S : \A y \in S : x =< y
  OBVIOUS
<1>2. Min(S) \in S /\ \A y \in S : Min(S) =< y
  <2> HIDE DEF S
  <2> QED  BY <1>1 DEF Min
<1> QED  BY <1>2

LEMMA RangeParts ==
  ASSUME NEW r \in [kind : {"none", "bytes", "suffix", "multiple", "malformed"},
                    first : Nat, last : Nat],
         NEW size \in Nat, NEW v, v = try_parse_range(r, size)
  PROVE  /\ v.kind \in {"none", "ok", "unsatisfiable", "multiple"}
         /\ v.kind = "none" => v.first = 0
         /\ v.kind = "ok" => /\ v.first \in Nat /\ v.last \in Nat /\ v.first =< v.last
                             /\ v.first =< size
                             /\ size > 0 => v.last =< size - 1
                             /\ size = 0 => v.last = 0
<1> DEFINE end == IF size = 0 THEN 0 ELSE size - 1
           first == IF r.kind = "bytes" THEN r.first
                    ELSE IF r.first >= size THEN 0 ELSE size - r.first
           last == IF r.kind = "bytes" THEN Min({r.last, end}) ELSE end
           w == Validate(r, size)
<1>1. end \in Nat /\ r.last \in Nat /\ r.first \in Nat
  OBVIOUS
<1>2. Min({r.last, end}) \in {r.last, end} /\ Min({r.last, end}) =< end
  <2> DEFINE l == r.last
  <2>1. l \in Int /\ end \in Int
    BY <1>1
  <2> HIDE DEF end, l
  <2>2. Min({l, end}) \in {l, end} /\ Min({l, end}) =< end
    BY <2>1, MinOfTwo
  <2> QED  BY <2>2 DEF l
<1>3. last \in Nat /\ last =< end /\ first \in Nat
  <2> HIDE DEF end
  <2> QED  BY <1>1, <1>2
<1>4. w = [kind |-> IF first =< last THEN "ok" ELSE "unsatisfiable",
           first |-> first, last |-> last]
  BY DEF Validate
<1>5. /\ w.kind \in {"ok", "unsatisfiable"} /\ w.first = first /\ w.last = last
      /\ w.kind = "ok" => first =< last
  <2> HIDE DEF first, last
  <2> QED  BY <1>4
<1>6. CASE r.kind \in {"bytes", "suffix"}
  <2>1. v = w
    BY <1>6 DEF try_parse_range
  <2> HIDE DEF first, last, w
  <2> QED  BY <1>3, <1>5, <2>1
<1>7. CASE r.kind \notin {"bytes", "suffix"}
  BY <1>7 DEF try_parse_range
<1> QED  BY <1>6, <1>7
-----------------------------------------------------------------------------
(* The answer to a request for a file.                                     *)
LEMMA SettingsStay ==
  ASSUME UNCHANGED <<config, cache, req>>, NEW m, NEW e, meta' = m, encoding' = e
  PROVE  /\ check(req, meta)' = check(req, m)
         /\ Asked' = try_parse_range(req.range, m.len)
         /\ Headers(meta, encoding, Asked)' = Headers(m, e, try_parse_range(req.range, m.len))
<1>1. check(req, meta)' = check(req, m)
  BY DEF check, ETag, LastModified, Tag, IfMatchPasses, IfNoneMatchPasses, strong_eq, weak_eq
<1>2. Asked' = try_parse_range(req.range, m.len)
  BY DEF Asked, try_parse_range, Validate
<1>3. Headers(meta, encoding, Asked)' = Headers(m, e, try_parse_range(req.range, m.len))
  BY <1>2 DEF Headers, ETag, LastModified
<1> QED  BY <1>1, <1>2, <1>3

LEMMA CheckParts ==
  ASSUME NEW r, NEW m
  PROVE  check(r, m) \in {"PreconditionFailed", "NotModified", "None"}
  BY DEF check

LEMMA HeadersParts ==
  ASSUME NEW m, NEW e, NEW range,
         range.kind \in {"none", "ok", "unsatisfiable", "multiple"}
  PROVE  LET h == Headers(m, e, range) IN
         /\ h.status \in {200, 206, 416}
         /\ h.status = 206 <=> range.kind = "ok"
         /\ h.etag = ETag(m)
         /\ h.encoding = IF e \in Compressed THEN e ELSE "identity"
         /\ range.kind = "none" => h.length = m.len
         /\ range.kind = "ok" => h.length = IF m.len = 0 THEN 0 ELSE Limit(range)
  BY DEF Headers, Limit

LEMMA BodyParts ==
  ASSUME NEW method, NEW range, NEW b, b = BodyFor(method, range)
  PROVE  \/ b = NoBody
         \/ /\ range.kind \in {"none", "ok"} /\ method # "HEAD"
            /\ b.state = "open" /\ b.got = 0 /\ b.revs = {}
            /\ IF range.kind = "none" THEN b.left = Unlimited /\ b.pos = 0
               ELSE b.left = Limit(range) /\ b.pos = range.first
            /\ b = [state |-> "open", left |-> b.left, pos |-> b.pos, got |-> 0, revs |-> {}]
  BY DEF BodyFor, Reader, NoBody

LEMMA NoBodyParts ==
  /\ NoBody.state = "none" /\ NoBody.got = 0 /\ NoBody.revs = {}
  /\ NoBody \in [state : {"none", "open", "ended", "error"}, left : Int, pos : Nat,
                 got : Nat, revs : SUBSET Nat]
  BY DEF NoBody

LEMMA StatusParts ==
  ASSUME NEW code
  PROVE  Status(code).status = code
  BY DEF Status, NoReply

LEMMA AnswerParts ==
  ASSUME NEW m, NEW e, Answer(m, e)
  PROVE  LET range == try_parse_range(req.range, m.len)
             b     == BodyFor(req.method, range) IN
         \/ /\ check(req, m) = "PreconditionFailed"
            /\ reply'.status = 412 /\ body' = NoBody /\ pc' = "done"
         \/ /\ check(req, m) = "NotModified"
            /\ reply'.status = 304 /\ body' = NoBody /\ pc' = "done"
         \/ /\ check(req, m) = "None"
            /\ reply' = Headers(m, e, range) /\ body' = b
            /\ pc' = IF b.state = "open" THEN "body" ELSE "done"
<1> DEFINE range == try_parse_range(req.range, m.len)
           b == BodyFor(req.method, range)
           late == [Status(304) EXCEPT !.etag = ETag(m), !.modified = LastModified(m)]
<1>1. CASE check(req, m) = "PreconditionFailed"
  <2>1. Respond(Status(412), NoBody)
    BY <1>1 DEF Answer
  <2> QED  BY <1>1, <2>1, StatusParts, NoBodyParts DEF Respond
<1>2. CASE check(req, m) = "NotModified"
  <2>1. Respond(late, NoBody)
    BY <1>2 DEF Answer
  <2>2. late.status = 304
    BY DEF Status, NoReply
  <2> HIDE DEF late
  <2> QED  BY <1>2, <2>1, <2>2, NoBodyParts DEF Respond
<1>3. CASE check(req, m) = "None"
  <2>1. Respond(Headers(m, e, range), b)
    BY <1>3 DEF Answer
  <2> HIDE DEF range, b
  <2>2. reply' = Headers(m, e, range) /\ body' = b /\ pc' = IF b.state = "open" THEN "body" ELSE "done"
    BY <2>1 DEF Respond
  <2> QED  BY <1>3, <2>2 DEF range, b
<1> QED  BY <1>1, <1>2, <1>3, CheckParts
LEMMA AnswerExplains ==
  ASSUME World, World', quiet' \in BOOLEAN,
         NEW m \in Files, NEW e, Answer(m, e), meta' = m, encoding' = e,
         UNCHANGED <<config, cache, req>>,
         req.method = "HEAD" \/ file' = m
  PROVE  Phases' /\ Explained' /\ Streaming' /\ pc' \in {"body", "done"}
         /\ reply'.status \in {200, 206, 304, 412, 416}
<1> DEFINE range == try_parse_range(req.range, m.len)
           b == BodyFor(req.method, range)
<1>1. /\ check(req, meta)' = check(req, m)
      /\ Asked' = range
      /\ Headers(meta, encoding, Asked)' = Headers(m, e, range)
  BY SettingsStay
<1>2. m.len \in Nat /\ m.rev \in Nat
  BY DEF Files, Absent
<1>3. req.range \in [kind : {"none", "bytes", "suffix", "multiple", "malformed"},
                     first : Nat, last : Nat]
  BY ServeDirAssumption DEF World, Request
<1>4. /\ range.kind \in {"none", "ok", "unsatisfiable", "multiple"}
      /\ range.kind = "none" => range.first = 0
      /\ range.kind = "ok" =>
           /\ range.first \in Nat /\ range.last \in Nat /\ range.first =< range.last
           /\ range.first =< m.len
  BY <1>2, <1>3, RangeParts
<1> HIDE DEF range
<1>5. \/ /\ check(req, m) = "PreconditionFailed"
         /\ reply'.status = 412 /\ body' = NoBody /\ pc' = "done"
      \/ /\ check(req, m) = "NotModified"
         /\ reply'.status = 304 /\ body' = NoBody /\ pc' = "done"
      \/ /\ check(req, m) = "None"
         /\ reply' = Headers(m, e, range) /\ body' = b
         /\ pc' = IF b.state = "open" THEN "body" ELSE "done"
  BY AnswerParts DEF range
<1>6. CASE check(req, m) # "None"
  <2>1. body' = NoBody /\ pc' = "done" /\ reply'.status \in {304, 412}
    BY <1>5, <1>6
  <2>2. reply'.status = 304 => check(req, m) = "NotModified"
    BY <1>5, <1>6
  <2>3. Phases'
    BY <2>1, NoBodyParts DEF Phases
  <2>4. Explained'
    BY <1>1, <2>1, <2>2 DEF Explained, Served
  <2>5. Streaming'
    BY <2>1, NoBodyParts DEF Streaming
  <2> QED  BY <2>1, <2>3, <2>4, <2>5
<1>7. CASE check(req, m) = "None"
  <2>1. /\ reply' = Headers(m, e, range) /\ body' = b
        /\ pc' = IF b.state = "open" THEN "body" ELSE "done"
    BY <1>5, <1>7
  <2>2. reply'.status \in {200, 206, 416}
    BY <1>4, <2>1, HeadersParts
  <2>3. Explained'
    BY <1>1, <1>7, <2>1, <2>2 DEF Explained
  <2>4. \/ b = NoBody
        \/ /\ range.kind \in {"none", "ok"} /\ req.method # "HEAD"
           /\ b.state = "open" /\ b.got = 0 /\ b.revs = {}
           /\ IF range.kind = "none" THEN b.left = Unlimited /\ b.pos = 0
              ELSE b.left = Limit(range) /\ b.pos = range.first
           /\ b = [state |-> "open", left |-> b.left, pos |-> b.pos, got |-> 0, revs |-> {}]
    BY BodyParts
  <2> HIDE DEF b
  <2>5. CASE b = NoBody
    <3>1. body' = NoBody /\ pc' = "done"
      BY <2>1, <2>5, NoBodyParts
    <3> QED  BY <3>1, <2>2, <2>3, NoBodyParts DEF Phases, Streaming
  <2>6. CASE b # NoBody
    <3>1. b.left \in Int /\ b.pos \in Nat
      BY <1>4, <2>4, <2>6 DEF Limit, Unlimited
    <3>2. b \in [state : {"none", "open", "ended", "error"}, left : Int, pos : Nat,
                 got : Nat, revs : SUBSET Nat]
      BY <2>4, <2>6, <3>1
    <3>3. pc' = "body" /\ body'.state = "open"
      BY <2>1, <2>4, <2>6
    <3>4. Phases'
      BY <2>1, <3>2, <3>3 DEF Phases
    <3>5. file' = m
      BY <2>4, <2>6
    <3>6. range.kind = "ok" => b.left \in Nat /\ b.left + b.got = Limit(range)
      BY <1>4, <2>4, <2>6, <3>1 DEF Limit
    <3>7. b.pos = range.first + b.got /\ b.pos =< m.len
      BY <1>2, <1>4, <2>4, <2>6, <3>1
    <3>8. Streaming'
      BY <1>1, <2>1, <2>2, <2>4, <2>6, <3>3, <3>5, <3>6, <3>7 DEF Streaming, Served
    <3> QED  BY <2>2, <2>3, <3>3, <3>4, <3>8
  <2> QED  BY <2>5, <2>6
<1> QED  BY <1>6, <1>7, CheckParts
-----------------------------------------------------------------------------
(* Revisions.                                                              *)
LEMMA WorldGrows ==
  ASSUME World, UNCHANGED <<config, req>>,
         disk' \in [Paths -> Files], file' \in Files, meta' \in Files, cache' \in Files,
         NEW f \in Files, Entities' \subseteq Entities \cup {f},
         \/ f \in Entities /\ changes' = changes
         \/ (f = Absent \/ f.rev = FirstRev + changes) /\ changes' = changes + 1,
         seen' \in 0..changes'
  PROVE  World'
<1>1. FirstRev \in Nat /\ FirstRev > 0 /\ changes \in Nat
  BY ServeDirAssumption DEF World
<1>2. changes' \in Nat /\ changes =< changes'
  BY <1>1
<1>3. f.rev < FirstRev + changes' /\ (f # Absent => f.rev > 0)
  <2>1. CASE f \in Entities /\ changes' = changes
    BY <2>1 DEF World
  <2>2. CASE (f = Absent \/ f.rev = FirstRev + changes) /\ changes' = changes + 1
    <3>1. Absent.rev = 0
      BY DEF Absent
    <3> QED  BY <2>2, <3>1, <1>1
  <2> QED  BY <2>1, <2>2
<1>4. ASSUME NEW g \in Entities
      PROVE  /\ g \in Files /\ g.rev \in Nat /\ g.len \in Nat
             /\ g.rev < FirstRev + changes /\ (g # Absent => g.rev > 0)
             /\ f.rev = g.rev => f.len = g.len
  <2>1. g \in Files /\ g.rev < FirstRev + changes /\ (g # Absent => g.rev > 0)
    BY DEF World, Entities
  <2>2. g.rev \in Nat /\ g.len \in Nat
    BY <2>1 DEF Files, Absent
  <2>3. ASSUME f.rev = g.rev PROVE f.len = g.len
    <3>1. CASE f \in Entities
      BY <2>3, <3>1 DEF World
    <3>2. CASE f = Absent
      BY <2>1, <2>2, <2>3, <3>2 DEF Absent
    <3>3. CASE f.rev = FirstRev + changes
      BY <2>1, <2>2, <2>3, <3>3, <1>1
    <3> QED  BY <3>1, <3>2, <3>3
  <2> QED  BY <2>1, <2>2, <2>3
<1>5. \A g \in Entities' : g.rev < FirstRev + changes' /\ (g # Absent => g.rev > 0)
  BY <1>1, <1>2, <1>3, <1>4
<1>6. \A g, h \in Entities' : g.rev = h.rev => g.len = h.len
  <2>1. \A g, h \in Entities : g.rev = h.rev => g.len = h.len
    BY DEF World
  <2> QED  BY <2>1, <1>4
<1>7. config' \in Configs /\ req' \in Requests
  BY DEF World
<1> QED  BY <1>2, <1>5, <1>6, <1>7 DEF World

LEMMA WorldStays ==
  ASSUME World, UNCHANGED <<config, req, disk, file, cache, changes>>,
         meta' \in {meta, file}, seen' \in {seen, changes}
  PROVE  World'
<1>1. Entities' \subseteq Entities \cup {file} /\ file \in Entities
  BY DEF Entities
<1>2. seen' \in 0..changes'
  BY DEF World
<1>3. /\ disk' \in [Paths -> Files] /\ file' \in Files /\ meta' \in Files
      /\ cache' \in Files /\ file \in Files
  BY DEF World
<1> QED  BY <1>1, <1>2, <1>3, WorldGrows

(* A step that leaves the backend alone.                                   *)
LEMMA WorldRests ==
  ASSUME World, UNCHANGED <<config, cache, world, req, opened, seen>>
  PROVE  World'
  BY WorldStays DEF world, opened

LEMMA AtParts ==
  ASSUME World, NEW p
  PROVE  /\ At(p) \in Files
         /\ At(p).kind \in {"none", "file", "dir"}
         /\ At(p).kind = "none" => At(p) = Absent
         /\ At(p).kind # "none" => p \in Paths /\ At(p) = disk[p] /\ At(p) \in Entities
<1>1. Absent \in Files
  BY DEF Files
<1>2. CASE p \in Paths
  <2>1. At(p) = disk[p] /\ disk[p] \in Files /\ disk[p] \in Entities
    BY <1>2 DEF At, World, Entities
  <2>2. \A g \in Files : g.kind \in {"none", "file", "dir"} /\ (g.kind = "none" => g = Absent)
    BY DEF Files, Absent
  <2> QED  BY <1>2, <2>1, <2>2
<1>3. CASE p \notin Paths
  BY <1>1, <1>3 DEF At, Absent
<1> QED  BY <1>2, <1>3

-----------------------------------------------------------------------------
(* Steps that are not about a file that was found.                         *)
LEMMA StillPending ==
  ASSUME Phases, pc \notin {"body", "done"}, UNCHANGED <<reply, body>>,
         pc' \in {"is_dir", "probe", "metadata", "fallback"}, quiet' \in BOOLEAN
  PROVE  /\ Phases' /\ Explained' /\ Streaming'
         /\ ~Served' /\ reply'.status \notin {404, FallbackStatus}
<1>1. reply' = NoReply /\ body' = NoBody
  BY DEF Phases
<1>2. reply'.status = 0
  BY <1>1 DEF NoReply
<1> QED  BY <1>1, <1>2, NoBodyParts DEF Phases, Explained, Streaming, Served, FallbackStatus

LEMMA PlainReply ==
  ASSUME NEW code \in Nat, code \notin {200, 206, 304, 416},
         Respond(Status(code), NoBody), quiet' \in BOOLEAN
  PROVE  /\ Phases' /\ Explained' /\ Streaming'
         /\ ~Served' /\ pc' = "done" /\ reply'.status = code
<1>1. reply' = Status(code) /\ body' = NoBody /\ pc' = "done"
  BY NoBodyParts DEF Respond
<1>2. reply'.status = code
  BY <1>1, StatusParts
<1> QED  BY <1>1, <1>2, NoBodyParts DEF Phases, Explained, Streaming, Served

LEMMA MissingParts ==
  ASSUME Phases, pc \notin {"body", "done"}, Missing, quiet' \in BOOLEAN
  PROVE  /\ Phases' /\ Explained' /\ Streaming' /\ ~Served'
         /\ pc' \in {"fallback", "done"}
<1>1. CASE config.fallback
  BY <1>1, StillPending DEF Missing
<1>2. CASE ~config.fallback
  BY <1>2, PlainReply DEF Missing
<1> QED  BY <1>1, <1>2

LEMMA FailedParts ==
  ASSUME Phases, pc \notin {"body", "done"}, NEW err, Failed(err), quiet' \in BOOLEAN
  PROVE  /\ Phases' /\ Explained' /\ Streaming' /\ ~Served'
         /\ pc' \in {"fallback", "done"}
<1>1. CASE should_return_not_found(err)
  BY <1>1, MissingParts DEF Failed
<1>2. CASE ~should_return_not_found(err)
  BY <1>2, PlainReply DEF Failed
<1> QED  BY <1>1, <1>2
-----------------------------------------------------------------------------
(* What is known of the target does not depend on how far the call is.     *)
LEMMA SettledStays ==
  ASSUME Settled, UNCHANGED <<config, req, path, target, encoding>>,
         quiet' => quiet /\ disk' = disk
  PROVE  Settled'
<1>1. Accepted' = Accepted
  BY DEF Accepted
<1>2. path' = Variant(target, encoding)'
  BY DEF Settled, Variant
<1>3. (encoding \in Compressed => \E x \in Accepted : x.encoding = encoding)'
  BY <1>1 DEF Settled, Compressed
<1>4. ASSUME quiet' PROVE NothingBetter'
  <2>1. NothingBetter /\ disk' = disk
    BY <1>4 DEF Settled
  <2> QED  BY <1>1, <2>1 DEF NothingBetter, At
<1> QED  BY <1>2, <1>3, <1>4 DEF Settled

LEMMA NothingStays ==
  ASSUME NothingToServe, UNCHANGED <<config, req, target, disk>>
  PROVE  NothingToServe'
  BY DEF NothingToServe, At

LEMMA IsPathOfSeq ==
  ASSUME NEW t \in Seq(Component), t # <<>>
  PROVE  IsPath(t)
<1>1. IsSeq(t) /\ \A i \in 1..Len(t) : t[i] \in Component
  BY SeqParts
<1>2. ASSUME NEW S, NEW s \in Seq(S), s # <<>> PROVE IsSeq(s) /\ Len(s) > 0
  <2>1. Len(s) \in Nat /\ Len(s) # 0
    BY <1>2, EmptySeq, LenProperties
  <2> QED  BY <2>1, SeqParts
<1>3. \A c \in Component : IsSeq(c) /\ Len(c) > 0
  BY <1>2 DEF Component
<1>4. Len(t) > 0
  BY <1>2
<1> QED  BY <1>1, <1>3, <1>4 DEF IsPath

LEMMA TargetIsPath ==
  ASSUME World, build_and_validate_path(req) # NoPath
  PROVE  IsPath(build_and_validate_path(req))
<1>1. config.base \in Seq(Component) /\ config.base # <<>>
  <2>1. config.base \in Paths
    BY ServeDirAssumption DEF World, Config
  <2> QED  BY <2>1, ServeDirAssumption DEF NoPath
<1>2. Normal(req.path) \in Seq(Component)
  <2>1. req.path \in Seq(Component)
    BY ServeDirAssumption DEF World, Request
  <2> QED  BY <2>1, NormalIsPath
<1>3. build_and_validate_path(req) \in {config.base, config.base \o Normal(req.path)}
  BY DEF build_and_validate_path
<1>4. config.base \o Normal(req.path) \in Seq(Component)
  BY <1>1, <1>2, ConcatProperties
<1>5. build_and_validate_path(req) \in Seq(Component)
  BY <1>1, <1>3, <1>4
<1> QED  BY <1>5, IsPathOfSeq DEF NoPath

LEMMA NegotiatedParts ==
  ASSUME World
  PROVE  Negotiated(req, config) \subseteq
           [encoding : config.precompressed \cup {"identity"}, qvalue : 0..One]
<1>1. req.accept \in Seq(Element) /\ config.precompressed \in SUBSET Compressed
  BY ServeDirAssumption DEF World, Request, Config
<1> QED  BY <1>1, ExplicitParts DEF Negotiated

-----------------------------------------------------------------------------
(* The steps of the call.                                                  *)
LEMMA TryCallKeeps ==
  ASSUME ServeDirInv, TryCall
  PROVE  ServeDirInv'
<1> DEFINE t == build_and_validate_path(req)
<1>1. /\ pc = "idle" /\ target' = t /\ path' = t /\ negotiated' = Negotiated(req, config)
      /\ UNCHANGED <<config, cache, world, req, encoding, opened, quiet, seen>>
  BY DEF TryCall
<1>2. World /\ Phases /\ quiet' \in BOOLEAN /\ pc \notin {"body", "done"}
  BY <1>1 DEF ServeDirInv, Phases
<1>3. World'
  BY <1>1, <1>2, WorldRests
<1>4. /\ Phases' /\ Explained' /\ Streaming' /\ ~Served'
      /\ pc' \in {"is_dir", "probe", "fallback", "done"}
      /\ pc' \in {"is_dir", "probe"} => t # NoPath /\ req.method # "POST"
      /\ (pc' = "fallback" \/ reply'.status \in {404, FallbackStatus}) =>
           t = NoPath \/ req.method \notin {"GET", "HEAD"}
  <2>1. CASE req.method \notin {"GET", "HEAD"}
    <3>1. \/ pc' = "fallback" /\ UNCHANGED <<reply, body>>
          \/ Respond(Status(405), NoBody)
      BY <2>1 DEF TryCall
    <3> QED  BY <1>2, <2>1, <3>1, StillPending, PlainReply
  <2>2. CASE req.method \in {"GET", "HEAD"} /\ t = NoPath
    <3>1. Missing
      BY <2>2 DEF TryCall
    <3> QED  BY <1>2, <2>2, <3>1, MissingParts
  <2>3. CASE req.method \in {"GET", "HEAD"} /\ t # NoPath
    <3>1. pc' \in {"is_dir", "probe"} /\ UNCHANGED <<reply, body>>
      BY <2>3 DEF TryCall
    <3> QED  BY <1>2, <2>3, <3>1, StillPending
  <2> QED  BY <2>1, <2>2, <2>3
<1>5. Looping'
  <2>1. pc' \in {"is_dir", "probe"} => IsPath(t) /\ req'.method # "POST"
    BY <1>1, <1>2, <1>4, TargetIsPath
  <2>2. negotiated' = Negotiated(req, config)'
    BY <1>1
  <2>3. \A x \in Accepted' : x \in negotiated'
    BY <2>2 DEF Accepted
  <2> HIDE DEF t
  <2> QED  BY <1>1, <2>1, <2>2, <2>3 DEF Looping
<1>6. Chosen'
  BY <1>4 DEF Chosen
<1>7. Refused'
  <2>1. req.method \in {"GET", "HEAD", "POST"}
    BY <1>2, ServeDirAssumption DEF World, Request
  <2> HIDE DEF t
  <2> QED  BY <1>1, <1>4, <2>1 DEF Refused, NulInName
<1> QED  BY <1>3, <1>4, <1>5, <1>6, <1>7 DEF ServeDirInv
(* maybe_redirect_or_append_path leaves the loop a path to begin with.     *)
LEMMA RedirectOrAppendKeeps ==
  ASSUME ServeDirInv, RedirectOrAppend
  PROVE  ServeDirInv'
<1> DEFINE kind == is_dir(path)
<1>1. /\ pc = "is_dir"
      /\ UNCHANGED <<config, cache, world, req, negotiated, encoding, opened, quiet, seen>>
  BY DEF RedirectOrAppend
<1>2. /\ World /\ Phases /\ quiet' \in BOOLEAN /\ pc \notin {"body", "done"}
      /\ IsPath(target) /\ path = target /\ req.method # "POST"
      /\ negotiated = Negotiated(req, config)
  BY <1>1 DEF ServeDirInv, Phases, Looping
<1>3. World'
  BY <1>1, <1>2, WorldRests
<1>4. \/ /\ Missing /\ Stay
         /\ \/ req.uri = "slash" /\ kind # "dir"
            \/ kind = "dir" /\ ~config.append_index_html_on_directories
      \/ AppendSlash /\ Stay
      \/ Continue(path)
      \/ Continue(WithExtension(path, "html"))
      \/ Continue(PushIndexHtml(path))
  BY DEF RedirectOrAppend
<1>5. CASE /\ Missing /\ Stay
           /\ \/ req.uri = "slash" /\ kind # "dir"
              \/ kind = "dir" /\ ~config.append_index_html_on_directories
  <2>1. /\ Phases' /\ Explained' /\ Streaming' /\ ~Served'
        /\ pc' \in {"fallback", "done"}
    BY <1>2, <1>5, MissingParts
  <2>2. target' = target
    BY <1>5 DEF Stay
  <2>3. ASSUME ~NulInName PROVE NothingToServe
    <3>1. kind = At(target).kind
      BY <1>2, <2>3 DEF is_dir
    <3>2. At(target).kind \in {"none", "file", "dir"}
          /\ (At(target).kind = "none" => At(target) = Absent)
      BY <1>2, AtParts
    <3> QED  BY <1>5, <3>1, <3>2 DEF NothingToServe
  <2>4. Refused'
    <3>1. ~NulInName => NothingToServe'
      BY <1>1, <2>2, <2>3, NothingStays DEF world
    <3> QED  BY <1>1, <3>1 DEF Refused, NulInName
  <2>5. Looping' /\ Chosen'
    BY <2>1 DEF Looping, Chosen
  <2> QED  BY <1>3, <2>1, <2>4, <2>5 DEF ServeDirInv
<1>6. CASE AppendSlash /\ Stay
  <2>1. PICK code \in {307, 500} : Respond(Status(code), NoBody)
    BY <1>6 DEF AppendSlash
  <2>2. /\ Phases' /\ Explained' /\ Streaming' /\ ~Served'
        /\ pc' = "done" /\ reply'.status \in {307, 500}
    BY <1>2, <2>1, PlainReply
  <2>3. Looping' /\ Chosen' /\ Refused'
    BY <2>2 DEF Looping, Chosen, Refused, NulInName, FallbackStatus
  <2> QED  BY <1>3, <2>2, <2>3 DEF ServeDirInv
<1>7. ASSUME NEW p \in {path, WithExtension(path, "html"), PushIndexHtml(path)}, Continue(p)
      PROVE  ServeDirInv'
  <2>2. IsPath(p)
    BY <1>2, <1>7, WithExtensionParts, PushParts
  <2>3. path' = p /\ target' = p /\ pc' = "probe" /\ UNCHANGED <<reply, body>>
    BY <1>7 DEF Continue
  <2>4. /\ Phases' /\ Explained' /\ Streaming'
        /\ ~Served' /\ reply'.status \notin {404, FallbackStatus}
    BY <1>2, <2>3, StillPending
  <2>5. Looping'
    <3>1. negotiated' = Negotiated(req, config)'
      BY <1>1, <1>2
    <3>2. \A x \in Accepted' : x \in negotiated'
      BY <3>1 DEF Accepted
    <3> QED  BY <1>1, <1>2, <2>2, <2>3, <3>1, <3>2 DEF Looping
  <2>6. Chosen' /\ Refused'
    BY <2>3, <2>4 DEF Chosen, Refused, NulInName
  <2> QED  BY <1>3, <2>4, <2>5, <2>6 DEF ServeDirInv
<1> QED  BY <1>4, <1>5, <1>6, <1>7

(* A turn of the opening loop: what is tried, and why.                     *)
LEMMA TriedParts ==
  ASSUME ServeDirInv, pc = "probe",
         NEW tried, tried = preferred_encoding(path, negotiated)
  PROVE  /\ tried.path = Variant(target, tried.encoding)
         /\ tried.encoding \in Compressed =>
              \E x \in Accepted \cap negotiated : x.encoding = tried.encoding
         /\ \A x \in Accepted \cap negotiated :
              \E y \in Accepted : y.encoding = tried.encoding /\ ~Less(y, x)
<1>1. /\ World /\ path = target /\ negotiated \subseteq Negotiated(req, config)
  BY DEF ServeDirInv, Looping
<1> DEFINE E == config.precompressed \cup {"identity"}
           e == PreferredEncoding(negotiated)
<1>2. negotiated \subseteq [encoding : E, qvalue : 0..One]
  BY <1>1, NegotiatedParts
<1>3. tried.encoding = e /\ tried.path = Variant(target, e)
  <2> HIDE DEF e
  <2>1. tried = [encoding |-> e, path |-> Variant(path, e)]
    BY DEF preferred_encoding, e, Variant
  <2> QED  BY <1>1, <2>1
<1>4. \/ e = Unknown /\ \A x \in negotiated : ~(x.qvalue > 0)
      \/ \E m \in negotiated :
           /\ e = m.encoding /\ m.qvalue > 0
           /\ \A x \in negotiated : x.qvalue > 0 => ~Less(m, x)
  <2> HIDE DEF E
  <2> QED  BY <1>2, PreferredParts
<1> HIDE DEF e
<1>5. CASE e = Unknown /\ \A x \in negotiated : ~(x.qvalue > 0)
  <2>1. Accepted \cap negotiated = {}
    BY <1>5 DEF Accepted
  <2>2. e \notin Compressed
    BY <1>5 DEF Unknown, Compressed
  <2> QED  BY <1>3, <2>1, <2>2
<1>6. CASE \E m \in negotiated :
             /\ e = m.encoding /\ m.qvalue > 0
             /\ \A x \in negotiated : x.qvalue > 0 => ~Less(m, x)
  <2>1. PICK m \in negotiated :
             /\ e = m.encoding /\ m.qvalue > 0
             /\ \A x \in negotiated : x.qvalue > 0 => ~Less(m, x)
    BY <1>6
  <2>2. m \in Accepted
    BY <1>1, <2>1 DEF Accepted
  <2>3. \A x \in Accepted \cap negotiated : ~Less(m, x)
    BY <2>1 DEF Accepted
  <2> QED  BY <1>3, <2>1, <2>2, <2>3
<1> QED  BY <1>4, <1>5, <1>6

(* The loop stops at a file: no better variant of the target exists.       *)
LEMMA FoundIsSettled ==
  ASSUME ServeDirInv, Found
  PROVE  Settled'
<1> DEFINE tried == preferred_encoding(path, negotiated)
<1>1. /\ pc = "probe" /\ path' = tried.path /\ encoding' = tried.encoding
      /\ UNCHANGED <<config, disk, req, target, quiet>>
  BY DEF Found, world
<1> DEFINE e == tried.encoding
<1>2. /\ tried.path = Variant(target, e)
      /\ e \in Compressed => \E x \in Accepted \cap negotiated : x.encoding = e
      /\ \A x \in Accepted \cap negotiated :
           \E y \in Accepted : y.encoding = e /\ ~Less(y, x)
  BY <1>1, TriedParts
<1>3. Accepted' = Accepted
  BY <1>1 DEF Accepted
<1>4. path' = Variant(target, encoding)'
  BY <1>1, <1>2
<1>5. (encoding \in Compressed => \E x \in Accepted : x.encoding = encoding)'
  BY <1>1, <1>2, <1>3
<1>6. ASSUME quiet' PROVE NothingBetter'
  <2>1. \A x \in Accepted :
          x.encoding \in Compressed =>
            x \in negotiated \/ At(Variant(target, x.encoding)) = Absent
    BY <1>1, <1>6 DEF ServeDirInv, Looping
  <2>2. ASSUME NEW x \in Accepted, x.encoding \in Compressed,
               \A y \in Accepted : y.encoding = e => Less(y, x)
        PROVE  At(Variant(target, x.encoding)) = Absent
    <3>1. x \notin negotiated
      BY <1>2, <2>2
    <3> QED  BY <2>1, <2>2, <3>1
  <2> HIDE DEF tried
  <2> QED  BY <1>1, <1>3, <2>2 DEF NothingBetter, At
<1> QED  BY <1>4, <1>5, <1>6 DEF Settled
LEMMA FoundKeeps ==
  ASSUME ServeDirInv, Found
  PROVE  ServeDirInv'
<1> DEFINE tried == preferred_encoding(path, negotiated)
           found == At(tried.path)
           e == tried.encoding
<1>1. /\ pc = "probe" /\ encoding' = e /\ found.kind # "none"
      /\ UNCHANGED <<config, cache, world, req, target, negotiated, quiet, seen>>
      /\ \/ /\ file' = found /\ meta' = meta
            /\ pc' = "metadata" /\ UNCHANGED <<reply, body>>
         \/ /\ req.method # "GET" /\ meta' = found /\ UNCHANGED file
            /\ Answer(found, e)
  BY DEF Found
<1>2. /\ World /\ Phases /\ quiet' \in BOOLEAN /\ pc \notin {"body", "done"}
  BY <1>1 DEF ServeDirInv, Phases
<1>3. found \in Files /\ found \in Entities
  BY <1>1, <1>2, AtParts
<1> HIDE DEF found, e
<1>4. World'
  <2>1. disk' = disk /\ changes' = changes /\ seen' \in 0..changes' /\ cache' = cache
        /\ config' = config /\ req' = req
    BY <1>1, <1>2 DEF World, world
  <2>2. Entities' \subseteq Entities \cup {found}
    BY <1>1, <2>1 DEF Entities
  <2>3. disk' \in [Paths -> Files] /\ file' \in Files /\ meta' \in Files /\ cache' \in Files
    BY <1>1, <1>2, <1>3, <2>1 DEF World
  <2> QED  BY <1>2, <1>3, <2>1, <2>2, <2>3, WorldGrows
<1>5. Chosen'
  BY FoundIsSettled DEF Chosen
<1>6. CASE /\ file' = found /\ meta' = meta
           /\ pc' = "metadata" /\ UNCHANGED <<reply, body>>
  <2>1. /\ Phases' /\ Explained' /\ Streaming'
        /\ ~Served' /\ reply'.status \notin {404, FallbackStatus}
    BY <1>2, <1>6, StillPending
  <2>2. Looping' /\ Refused'
    BY <1>6, <2>1 DEF Looping, Refused, NulInName
  <2> QED  BY <1>4, <1>5, <2>1, <2>2 DEF ServeDirInv
<1>7. CASE /\ req.method # "GET" /\ meta' = found /\ UNCHANGED file
           /\ Answer(found, e)
  <2>1. req.method = "HEAD" \/ req.method = "POST"
    BY <1>2, <1>7, ServeDirAssumption DEF World, Request
  <2>2. req.method = "HEAD"
    BY <1>1, <2>1 DEF ServeDirInv, Looping
  <2>3. /\ Phases' /\ Explained' /\ Streaming' /\ pc' \in {"body", "done"}
        /\ reply'.status \in {200, 206, 304, 412, 416}
    BY <1>1, <1>2, <1>3, <1>4, <1>7, <2>2, AnswerExplains
  <2>4. Looping' /\ Refused'
    BY <2>3 DEF Looping, Refused, NulInName, FallbackStatus
  <2> QED  BY <1>4, <1>5, <2>3, <2>4 DEF ServeDirInv
<1> QED  BY <1>1, <1>6, <1>7

(* A missing variant is given up, and the path is the target again.        *)
LEMMA NotFoundKeeps ==
  ASSUME ServeDirInv, NotFound
  PROVE  ServeDirInv'
<1> DEFINE tried == preferred_encoding(path, negotiated)
           next == AfterMiss(tried, negotiated)
           e == tried.encoding
<1>1. /\ pc = "probe" /\ At(tried.path).kind = "none"
      /\ UNCHANGED <<config, cache, world, req, target, encoding, opened, quiet, seen>>
      /\ IF e \in Compressed
           THEN /\ path' = next.path /\ negotiated' = next.negotiated
                /\ UNCHANGED <<pc, reply, body>>
           ELSE Failed("NotFound") /\ UNCHANGED <<path, negotiated>>
  BY DEF NotFound
<1>2. /\ World /\ Phases /\ quiet' \in BOOLEAN /\ pc \notin {"body", "done"}
      /\ IsPath(target) /\ path = target /\ req.method # "POST"
      /\ negotiated \subseteq Negotiated(req, config)
  BY <1>1 DEF ServeDirInv, Phases, Looping
<1>3. World'
  BY <1>1, <1>2, WorldRests
<1>4. tried.path = Variant(target, e) /\ At(tried.path) = Absent
  BY <1>1, <1>2, TriedParts, AtParts
<1>5. CASE e \in Compressed
  <2>1. tried.path = WithExtension(target, Extension(e))
    BY <1>4, <1>5 DEF Variant
  <2>2. WithoutExtension(tried.path) = target
    <3> DEFINE ext == Extension(e)
               p == tried.path
    <3> HIDE DEF ext
    <3>1. p = WithExtension(target, ext)
      BY <2>1 DEF ext
    <3> HIDE DEF p
    <3> QED  BY <1>2, <3>1, WithExtensionParts DEF p
  <2>3. /\ next.path = target
        /\ next.negotiated = {x \in negotiated : x.encoding # e}
    <3>1. next = [path |-> WithoutExtension(tried.path), negotiated |-> Without(negotiated, e)]
      BY DEF AfterMiss
    <3>2. next.path = WithoutExtension(tried.path) /\ next.negotiated = Without(negotiated, e)
      <4> HIDE DEF tried, next
      <4> QED  BY <3>1
    <3> QED  BY <2>2, <3>2 DEF Without
  <2> HIDE DEF next, tried
  <2>4. path' = target /\ negotiated' = {x \in negotiated : x.encoding # e}
        /\ UNCHANGED <<pc, reply, body>>
    BY <1>1, <1>5, <2>3
  <2>5. /\ Phases' /\ Explained' /\ Streaming'
        /\ ~Served' /\ reply'.status \notin {404, FallbackStatus}
    BY <1>1, <1>2, <2>4, StillPending
  <2>6. Looping'
    <3>1. disk' = disk /\ config' = config /\ req' = req /\ target' = target /\ pc' = "probe"
          /\ quiet' = quiet
      BY <1>1, <2>4 DEF world
    <3>2. Accepted' = Accepted
      BY <3>1 DEF Accepted
    <3>3. negotiated' \subseteq Negotiated(req, config)'
      BY <1>2, <2>4, <3>1
    <3>4. ASSUME quiet', NEW x \in Accepted, x.encoding \in Compressed
          PROVE  x \in negotiated' \/ At(Variant(target, x.encoding)) = Absent
      <4>1. x \in negotiated \/ At(Variant(target, x.encoding)) = Absent
        BY <1>1, <3>1, <3>4 DEF ServeDirInv, Looping
      <4>2. x.encoding = e => At(Variant(target, x.encoding)) = Absent
        BY <1>4
      <4> QED  BY <2>4, <4>1, <4>2
    <3>5. \A x \in Accepted' :
            quiet' /\ x.encoding \in Compressed =>
              x \in negotiated' \/ At(Variant(target, x.encoding))' = Absent
      BY <3>1, <3>2, <3>4 DEF At
    <3> QED  BY <1>2, <2>4, <3>1, <3>3, <3>5 DEF Looping
  <2>7. Chosen' /\ Refused'
    BY <1>1, <2>4, <2>5 DEF Chosen, Refused, NulInName
  <2> QED  BY <1>3, <2>5, <2>6, <2>7 DEF ServeDirInv
<1>6. CASE e \notin Compressed
  <2>1. Failed("NotFound")
    BY <1>1, <1>6
  <2>2. /\ Phases' /\ Explained' /\ Streaming' /\ ~Served' /\ pc' \in {"fallback", "done"}
    BY <1>2, <2>1, FailedParts
  <2>3. NothingToServe
    BY <1>4, <1>6 DEF NothingToServe, Variant
  <2>4. Refused'
    <3>1. NothingToServe'
      BY <1>1, <2>3, NothingStays DEF world
    <3> QED  BY <3>1 DEF Refused, NulInName
  <2>5. Looping' /\ Chosen'
    BY <2>2 DEF Looping, Chosen
  <2> QED  BY <1>3, <2>2, <2>4, <2>5 DEF ServeDirInv
<1> QED  BY <1>5, <1>6
LEMMA InvalidFilenameKeeps ==
  ASSUME ServeDirInv, InvalidFilename
  PROVE  ServeDirInv'
<1>1. /\ pc = "probe" /\ NulInName /\ (Missing \/ Failed("InvalidInput"))
      /\ UNCHANGED <<config, cache, world, req, opening, opened, quiet, seen>>
  BY DEF InvalidFilename
<1>2. /\ World /\ Phases /\ quiet' \in BOOLEAN /\ pc \notin {"body", "done"}
  BY <1>1 DEF ServeDirInv, Phases
<1>3. World'
  BY <1>1, <1>2, WorldRests
<1>4. Phases' /\ Explained' /\ Streaming' /\ ~Served' /\ pc' \in {"fallback", "done"}
  BY <1>1, <1>2, MissingParts, FailedParts
<1>5. Looping' /\ Chosen' /\ Refused'
  BY <1>1, <1>4 DEF Looping, Chosen, Refused, NulInName
<1> QED  BY <1>3, <1>4, <1>5 DEF ServeDirInv

LEMMA BackendFailsKeeps ==
  ASSUME ServeDirInv, NEW err \in BackendErrors, BackendFails(err)
  PROVE  ServeDirInv'
<1>1. /\ pc \in {"is_dir", "probe", "metadata"} /\ Failed(err) /\ quiet' = FALSE
      /\ UNCHANGED <<config, cache, world, req, opening, opened, seen>>
  BY DEF BackendFails
<1>2. /\ World /\ Phases /\ quiet' \in BOOLEAN /\ pc \notin {"body", "done"}
  BY <1>1 DEF ServeDirInv
<1>3. World'
  BY <1>1, <1>2, WorldRests
<1>4. Phases' /\ Explained' /\ Streaming' /\ ~Served' /\ pc' \in {"fallback", "done"}
  BY <1>1, <1>2, FailedParts
<1>5. Looping' /\ Chosen' /\ Refused'
  BY <1>1, <1>4 DEF Looping, Chosen, Refused, NulInName
<1> QED  BY <1>3, <1>4, <1>5 DEF ServeDirInv

LEMMA FallbackRespondsKeeps ==
  ASSUME ServeDirInv, FallbackResponds
  PROVE  ServeDirInv'
<1>1. /\ pc = "fallback" /\ Respond(Status(FallbackStatus), NoBody)
      /\ UNCHANGED <<config, cache, world, req, opening, opened, quiet, seen>>
  BY DEF FallbackResponds
<1>2. /\ World /\ Phases /\ quiet' \in BOOLEAN
  BY <1>1 DEF ServeDirInv, Phases
<1>3. World'
  BY <1>1, <1>2, WorldRests
<1>4. Phases' /\ Explained' /\ Streaming' /\ ~Served' /\ pc' = "done"
  BY <1>1, <1>2, PlainReply DEF FallbackStatus
<1>5. Looping' /\ Chosen'
  BY <1>4 DEF Looping, Chosen
<1>6. Refused'
  <2>1. UNCHANGED <<config, req, target, disk, quiet>>
    BY <1>1 DEF opening, world
  <2>2. quiet /\ req.method # "POST" /\ target # NoPath /\ ~NulInName => NothingToServe
    BY <1>1 DEF ServeDirInv, Refused, NulInName
  <2> QED  BY <2>1, <2>2, NothingStays DEF Refused, NulInName
<1> QED  BY <1>3, <1>4, <1>5, <1>6 DEF ServeDirInv

(* The answer is about the file that is open.                              *)
LEMMA FileMetadataKeeps ==
  ASSUME ServeDirInv, FileMetadata
  PROVE  ServeDirInv'
<1>1. /\ pc = "metadata" /\ seen' = changes /\ meta' = file /\ Answer(file, encoding)
      /\ UNCHANGED <<config, cache, disk, changes, req, file, quiet>>
      /\ UNCHANGED <<path, target, encoding>>
  BY DEF FileMetadata, world, opening
<1>2. World /\ Phases /\ quiet' \in BOOLEAN /\ file \in Files
  BY <1>1 DEF ServeDirInv, Phases, World
<1>3. World'
  BY <1>1, <1>2, WorldStays
<1>4. /\ Phases' /\ Explained' /\ Streaming' /\ pc' \in {"body", "done"}
      /\ reply'.status \in {200, 206, 304, 412, 416}
  BY <1>1, <1>2, <1>3, AnswerExplains
<1>5. Chosen'
  <2>1. Settled
    BY <1>1 DEF ServeDirInv, Chosen
  <2> QED  BY <1>1, <2>1, SettledStays DEF Chosen
<1>6. Looping' /\ Refused'
  BY <1>4 DEF Looping, Refused, NulInName, FallbackStatus
<1> QED  BY <1>3, <1>4, <1>5, <1>6 DEF ServeDirInv

-----------------------------------------------------------------------------
(* Steps after the response: everything but the body stays as it is.       *)
LEMMA AnswerStays ==
  ASSUME ServeDirInv, pc = "body", pc' \in {"body", "done"},
         UNCHANGED <<config, cache, world, req, opening, opened, reply, quiet, seen>>
  PROVE  World' /\ Explained' /\ Looping' /\ Chosen' /\ Refused'
<1>1. World /\ Explained /\ Chosen /\ Refused
  BY DEF ServeDirInv
<1>2. World'
  BY <1>1, WorldRests
<1>3. UNCHANGED <<config, cache, req, disk, path, target, encoding, file, meta, reply, quiet>>
  BY DEF world, opening, opened
<1>4. Explained'
  <2>1. /\ check(req, meta)' = check(req, meta)
        /\ Asked' = try_parse_range(req.range, meta.len)
        /\ Headers(meta, encoding, Asked)' = Headers(meta, encoding, try_parse_range(req.range, meta.len))
    BY <1>3, SettingsStay
  <2> QED  BY <1>1, <1>3, <2>1 DEF Explained, Served, Asked
<1>5. Chosen'
  BY <1>1, <1>3, SettledStays DEF Chosen, Served
<1>6. Refused'
  BY <1>1, <1>3, NothingStays DEF Refused, NulInName
<1>7. Looping'
  BY DEF Looping
<1> QED  BY <1>2, <1>4, <1>5, <1>6, <1>7

LEMMA ReadFailsKeeps ==
  ASSUME ServeDirInv, ReadFails
  PROVE  ServeDirInv'
<1>1. /\ pc = "body" /\ body' = [body EXCEPT !.state = "error"] /\ pc' = "done"
      /\ UNCHANGED <<config, cache, world, req, opening, opened, reply, quiet, seen>>
  BY DEF ReadFails
<1>2. World' /\ Explained' /\ Looping' /\ Chosen' /\ Refused'
  BY <1>1, AnswerStays
<1>3. /\ body' \in [state : {"none", "open", "ended", "error"}, left : Int, pos : Nat,
                    got : Nat, revs : SUBSET Nat]
      /\ body'.state = "error" /\ body.state = "open"
      /\ body'.left = body.left /\ body'.pos = body.pos /\ body'.got = body.got
      /\ body'.revs = body.revs
  BY <1>1 DEF ServeDirInv, Phases
<1>4. Phases'
  BY <1>1, <1>3 DEF ServeDirInv, Phases
<1>5. Streaming'
  <2>1. UNCHANGED <<req, file, meta, reply, seen>>
    BY <1>1 DEF opened
  <2>2. Asked' = Asked
    BY <2>1 DEF Asked
  <2>3. Streaming
    BY DEF ServeDirInv
  <2> QED  BY <1>3, <2>1, <2>2, <2>3 DEF Streaming, Served, Untouched
<1> QED  BY <1>2, <1>4, <1>5 DEF ServeDirInv
(* A chunk takes no more than there is, than was asked for, and than fits. *)
LEMMA MaxOfTwo ==
  ASSUME NEW a \in Int, NEW b \in Int
  PROVE  Max({a, b}) \in {a, b} /\ a =< Max({a, b}) /\ b =< Max({a, b})
<1> DEFINE S == {a, b}
<1>1. \E x \in S : \A y \in S : x >= y
  OBVIOUS
<1>2. Max(S) \in S /\ \A y \in S : Max(S) >= y
  <2> HIDE DEF S
  <2> QED  BY <1>1 DEF Max
<1> QED  BY <1>2

LEMMA ChunkParts ==
  ASSUME NEW size \in Nat, NEW pos \in Nat, NEW left \in Int,
         left = Unlimited \/ left \in Nat,
         NEW most,
         most = Min({ChunkSize, Max({0, size - pos})} \cup
                    (IF left = Unlimited THEN {} ELSE {left}))
  PROVE  /\ most \in Nat
         /\ most # 0 => pos + most =< size
         /\ left # Unlimited => most =< left
         /\ most = 0 => pos >= size \/ left = 0
<1> DEFINE available == Max({0, size - pos})
           S == {ChunkSize, available} \cup (IF left = Unlimited THEN {} ELSE {left})
<1>1. available \in Nat /\ available \in {0, size - pos}
  <2> DEFINE d == size - pos
  <2>1. d \in Int /\ 0 \in Int
    OBVIOUS
  <2>2. available = Max({0, d})
    OBVIOUS
  <2> HIDE DEF d, available
  <2>3. available \in {0, d} /\ 0 =< available
    BY <2>1, <2>2, MaxOfTwo
  <2> QED  BY <2>1, <2>3 DEF d
<1> HIDE DEF available
<1>2. ChunkSize \in Nat /\ ChunkSize # 0
  BY ServeDirAssumption
<1>3. S \subseteq Nat /\ available \in S
  BY <1>1, <1>2
<1>4. left # Unlimited => left \in S
  OBVIOUS
<1>5. \A x \in S : x \in {ChunkSize, available} \/ (left # Unlimited /\ x = left)
  OBVIOUS
<1>6. most = Min(S)
  BY DEF available
<1> HIDE DEF S
<1>7. \E x \in S : \A y \in S : x =< y
  BY <1>3, LeastExists
<1>8. most \in S /\ \A y \in S : most =< y
  BY <1>6, <1>7 DEF Min
<1>9. most \in Nat /\ most =< available /\ (left # Unlimited => most =< left)
  BY <1>3, <1>4, <1>8
<1>10. most = 0 => available = 0 \/ left = 0
  BY <1>2, <1>5, <1>8
<1>11. size - pos =< available
  <2> DEFINE d == size - pos
  <2>1. d \in Int /\ available = Max({0, d})
    BY DEF available
  <2> HIDE DEF d
  <2>2. d =< available
    BY <2>1, MaxOfTwo
  <2> QED  BY <2>2 DEF d
<1> QED  BY <1>1, <1>9, <1>10, <1>11

LEMMA AskedParts ==
  ASSUME World
  PROVE  /\ meta.len \in Nat /\ meta.rev \in Nat
         /\ Asked.kind \in {"none", "ok", "unsatisfiable", "multiple"}
         /\ Asked.kind = "none" => Asked.first = 0
         /\ Asked.kind = "ok" =>
              /\ Asked.first \in Nat /\ Asked.last \in Nat /\ Asked.first =< Asked.last
              /\ meta.len > 0 => Asked.last =< meta.len - 1
              /\ meta.len = 0 => Asked.last = 0
<1>1. meta.len \in Nat /\ meta.rev \in Nat
  BY DEF World, Files, Absent
<1>2. req.range \in [kind : {"none", "bytes", "suffix", "multiple", "malformed"},
                     first : Nat, last : Nat]
  BY ServeDirAssumption DEF World, Request
<1> QED  BY <1>1, <1>2, RangeParts DEF Asked

(* What was announced is the end of what is read.                          *)
LEMMA EndIsAnnounced ==
  ASSUME ServeDirInv, body.state # "none", Untouched,
         body.pos >= meta.len \/ body.left = 0
  PROVE  body.got = reply.length
<1>1. /\ World /\ Explained /\ Served
      /\ Asked.kind \in {"none", "ok"} /\ body.pos = Asked.first + body.got
      /\ Asked.kind = "none" => body.left = Unlimited
      /\ Asked.kind = "ok" => body.left \in Nat /\ body.left + body.got = Limit(Asked)
      /\ body.pos =< meta.len /\ body.got \in Nat
  BY DEF ServeDirInv, Streaming, Phases
<1>2. reply = Headers(meta, encoding, Asked)
  BY <1>1 DEF Explained
<1>3. /\ Asked.kind = "none" => reply.length = meta.len
      /\ Asked.kind = "ok" => reply.length = IF meta.len = 0 THEN 0 ELSE Limit(Asked)
  BY <1>1, <1>2, HeadersParts
<1>4. CASE Asked.kind = "none"
  BY <1>1, <1>3, <1>4, AskedParts DEF Unlimited
<1>5. CASE Asked.kind = "ok"
  BY <1>1, <1>3, <1>5, AskedParts DEF Limit
<1> QED  BY <1>1, <1>4, <1>5

LEMMA ReadKeeps ==
  ASSUME ServeDirInv, Read
  PROVE  ServeDirInv'
<1> DEFINE most == Min({ChunkSize, Max({0, file.len - body.pos})} \cup
                       (IF body.left = Unlimited THEN {} ELSE {body.left}))
<1>1. /\ pc = "body" /\ file.kind = "file" /\ pc' \in {"body", "done"}
      /\ UNCHANGED <<config, cache, world, req, opening, opened, reply, quiet, seen>>
      /\ \/ most = 0 /\ body' = [body EXCEPT !.state = "ended"] /\ pc' = "done"
         \/ \E n \in 1..most :
              /\ body' = [body EXCEPT
                   !.left = IF @ = Unlimited THEN @ ELSE @ - n,
                   !.pos = @ + n, !.got = @ + n, !.revs = @ \cup {file.rev}]
              /\ UNCHANGED pc
  BY DEF Read
<1>2. World' /\ Explained' /\ Looping' /\ Chosen' /\ Refused'
  BY <1>1, AnswerStays
<1>3. /\ body \in [state : {"none", "open", "ended", "error"}, left : Int, pos : Nat,
                   got : Nat, revs : SUBSET Nat]
      /\ body.state = "open" /\ quiet \in BOOLEAN
  BY <1>1 DEF ServeDirInv, Phases
<1>4. file.len \in Nat /\ file.rev \in Nat
  BY DEF ServeDirInv, World, Files, Absent
<1>5. /\ Served /\ Asked.kind \in {"none", "ok"}
      /\ body.pos = Asked.first + body.got
      /\ Asked.kind = "none" => body.left = Unlimited
      /\ Asked.kind = "ok" => body.left \in Nat /\ body.left + body.got = Limit(Asked)
      /\ Untouched => file = meta /\ body.pos <= meta.len /\ body.revs \subseteq {meta.rev}
  BY <1>3 DEF ServeDirInv, Streaming
<1>6. /\ most \in Nat
      /\ most # 0 => body.pos + most =< file.len
      /\ body.left # Unlimited => most =< body.left
      /\ most = 0 => body.pos >= file.len \/ body.left = 0
  BY <1>3, <1>4, <1>5, ChunkParts
<1> HIDE DEF most
<1>7. UNCHANGED <<req, file, meta, reply, seen, quiet>>
  BY <1>1 DEF opened
<1>8. Asked' = Asked /\ Served' = Served /\ Untouched' = Untouched
  BY <1>7 DEF Asked, Served, Untouched
<1>9. CASE most = 0 /\ body' = [body EXCEPT !.state = "ended"] /\ pc' = "done"
  <2>1. /\ body' \in [state : {"none", "open", "ended", "error"}, left : Int, pos : Nat,
                      got : Nat, revs : SUBSET Nat]
        /\ body'.state = "ended"
        /\ body'.left = body.left /\ body'.pos = body.pos /\ body'.got = body.got
        /\ body'.revs = body.revs
    BY <1>3, <1>9
  <2>2. Phases'
    BY <1>3, <1>7, <1>9, <2>1 DEF Phases
  <2>3. Untouched => body.got = reply.length
    BY <1>3, <1>5, <1>6, <1>9, EndIsAnnounced
  <2>4. Streaming'
    BY <1>5, <1>7, <1>8, <2>1, <2>3 DEF Streaming
  <2> QED  BY <1>2, <2>2, <2>4 DEF ServeDirInv
<1>10. ASSUME NEW n \in 1..most,
              body' = [body EXCEPT
                   !.left = IF @ = Unlimited THEN @ ELSE @ - n,
                   !.pos = @ + n, !.got = @ + n, !.revs = @ \cup {file.rev}],
              UNCHANGED pc
       PROVE  ServeDirInv'
  <2>1. n \in Nat /\ n > 0 /\ n =< most
    BY <1>6
  <2>2. /\ body'.state = "open"
        /\ body'.left = IF body.left = Unlimited THEN body.left ELSE body.left - n
        /\ body'.pos = body.pos + n /\ body'.got = body.got + n
        /\ body'.revs = body.revs \cup {file.rev}
    BY <1>3, <1>10
  <2>3. body' \in [state : {"none", "open", "ended", "error"}, left : Int, pos : Nat,
                   got : Nat, revs : SUBSET Nat]
    <3> DEFINE l == IF body.left = Unlimited THEN body.left ELSE body.left - n
               r == body.revs \cup {file.rev}
               k == body.pos + n
               g == body.got + n
    <3>1. l \in Int /\ k \in Nat /\ g \in Nat /\ r \in SUBSET Nat
      BY <1>3, <1>4, <2>1
    <3>2. body' = [body EXCEPT !.left = l, !.pos = k, !.got = g, !.revs = r]
      BY <1>10
    <3> HIDE DEF l, r, k, g
    <3> QED  BY <1>3, <3>1, <3>2
  <2>4. Phases'
    BY <1>1, <1>3, <1>7, <1>10, <2>2, <2>3 DEF Phases
  <2>5. Streaming'
    <3>1. body.left \in Int /\ body.pos \in Nat /\ body.got \in Nat
      BY <1>3
    <3>2. ServeDirInv => World
      BY DEF ServeDirInv
    <3>3. body'.pos = Asked.first + body'.got
      <4>1. Asked.first \in Nat
        BY <1>5, <3>2, AskedParts
      <4> QED  BY <1>5, <2>1, <2>2, <3>1, <4>1
    <3>4. Asked.kind = "none" => body'.left = Unlimited
      BY <1>5, <2>2
    <3>5. Asked.kind = "ok" => body'.left \in Nat /\ body'.left + body'.got = Limit(Asked)
      <4>1. SUFFICES ASSUME Asked.kind = "ok"
                     PROVE  body'.left \in Nat /\ body'.left + body'.got = Limit(Asked)
        OBVIOUS
      <4>2. body.left \in Nat /\ body.left # Unlimited /\ n =< body.left
        BY <1>5, <1>6, <2>1, <4>1 DEF Unlimited
      <4>3. body'.left = body.left - n
        BY <2>2, <4>2
      <4>4. Limit(Asked) = body.left + body.got
        BY <1>5, <4>1
      <4> HIDE DEF Limit
      <4> QED  BY <2>1, <2>2, <3>1, <4>2, <4>3, <4>4
    <3>6. Untouched => /\ file = meta /\ body'.pos =< meta.len
                       /\ body'.revs \subseteq {meta.rev}
      BY <1>4, <1>5, <1>6, <2>1, <2>2, <3>1
    <3> QED  BY <1>5, <1>7, <1>8, <2>2, <3>3, <3>4, <3>5, <3>6 DEF Streaming
  <2> QED  BY <1>2, <2>4, <2>5 DEF ServeDirInv
<1> QED  BY <1>1, <1>9, <1>10
-----------------------------------------------------------------------------
(* The other actor: whatever it does has a new revision.                   *)
LEMMA ChangeKeeps ==
  ASSUME ServeDirInv, NEW p \in Paths, NEW f \in Files, Change(p, f),
         f = Absent \/ f.rev = FirstRev + changes,
         file' = file \/ (file' = f /\ f.rev = FirstRev + changes)
  PROVE  ServeDirInv'
<1>1. /\ pc \notin {"idle", "done"}
      /\ disk' = [disk EXCEPT ![p] = f] /\ changes' = changes + 1 /\ quiet' = FALSE
      /\ UNCHANGED <<config, cache, pc, req, meta, reply, body, seen>>
      /\ UNCHANGED <<path, target, negotiated, encoding>>
  BY DEF Change, opening
<1>2. /\ World /\ Phases /\ Explained /\ Streaming /\ Looping /\ Chosen
      /\ changes \in Nat /\ seen \in 0..changes /\ FirstRev \in Nat
  BY ServeDirAssumption DEF ServeDirInv, World
<1>3. World'
  <2>1. disk \in [Paths -> Files] /\ file \in Files /\ meta \in Files /\ cache \in Files
    BY <1>2 DEF World
  <2>2. disk' \in [Paths -> Files] /\ \A q \in Paths : disk'[q] \in {disk[q], f}
    BY <1>1, <2>1
  <2>3. Entities' \subseteq Entities \cup {f}
    BY <1>1, <2>2 DEF Entities
  <2>4. seen' \in 0..changes'
    BY <1>1, <1>2
  <2> QED  BY <1>1, <1>2, <2>1, <2>2, <2>3, <2>4, WorldGrows
<1>4. /\ check(req, meta)' = check(req, meta)
      /\ Asked' = Asked
      /\ Headers(meta, encoding, Asked)' = Headers(meta, encoding, Asked)
  BY <1>1, SettingsStay DEF Asked
<1>5. Explained'
  BY <1>1, <1>2, <1>4 DEF Explained, Served
<1>6. Phases'
  BY <1>1, <1>2 DEF Phases
<1>7. Streaming'
  <2>1. Untouched' => Untouched /\ file' = file
    BY <1>1, <1>2 DEF Untouched
  <2> QED  BY <1>1, <1>2, <1>4, <2>1 DEF Streaming, Served
<1>8. Looping'
  BY <1>1, <1>2 DEF Looping
<1>9. Chosen'
  BY <1>1, <1>2, SettledStays DEF Chosen, Served
<1>10. Refused'
  BY <1>1 DEF Refused, NulInName
<1> QED  BY <1>3, <1>5, <1>6, <1>7, <1>8, <1>9, <1>10 DEF ServeDirInv

LEMMA NewFileParts ==
  ASSUME World, NEW kind \in {"file", "dir"}, NEW n \in Nat
  PROVE  NewFile(kind, n) \in Files /\ NewFile(kind, n).rev = FirstRev + changes
<1>1. FirstRev + changes \in Nat
  BY ServeDirAssumption DEF World
<1> QED  BY <1>1 DEF NewFile, Files

LEMMA OtherActorKeeps ==
  ASSUME ServeDirInv, NEW p \in Paths, Replace(p) \/ WriteInPlace(p)
  PROVE  ServeDirInv'
<1>1. World /\ Lengths \subseteq Nat /\ 0 \in Nat
  BY ServeDirAssumption DEF ServeDirInv
<1>2. CASE Replace(p)
  <2>1. file' = file
    BY <1>2 DEF Replace
  <2>2. \/ \E n \in Lengths : Change(p, NewFile("file", n))
        \/ Change(p, NewFile("dir", 0)) \/ Change(p, Absent)
    BY <1>2 DEF Replace
  <2>3. ASSUME NEW n \in Lengths, Change(p, NewFile("file", n)) PROVE ServeDirInv'
    <3> DEFINE f == NewFile("file", n)
    <3>1. f \in Files /\ f.rev = FirstRev + changes
      BY <1>1, NewFileParts
    <3>2. Change(p, f)
      BY <2>3
    <3> HIDE DEF f
    <3> QED  BY <2>1, <3>1, <3>2, ChangeKeeps
  <2>4. ASSUME Change(p, NewFile("dir", 0)) PROVE ServeDirInv'
    <3> DEFINE f == NewFile("dir", 0)
    <3>1. f \in Files /\ f.rev = FirstRev + changes
      BY <1>1, NewFileParts
    <3>2. Change(p, f)
      BY <2>4
    <3> HIDE DEF f
    <3> QED  BY <2>1, <3>1, <3>2, ChangeKeeps
  <2>5. ASSUME Change(p, Absent) PROVE ServeDirInv'
    <3>1. Absent \in Files
      BY DEF Files
    <3> QED  BY <2>1, <2>5, <3>1, ChangeKeeps
  <2> QED  BY <2>2, <2>3, <2>4, <2>5
<1>3. CASE WriteInPlace(p)
  <2>1. PICK n \in Lengths :
          Change(p, NewFile("file", n)) /\ file' \in {file, NewFile("file", n)}
    BY <1>3 DEF WriteInPlace
  <2> DEFINE f == NewFile("file", n)
  <2>2. f \in Files /\ f.rev = FirstRev + changes
    BY <1>1, NewFileParts
  <2>3. Change(p, f) /\ (file' = file \/ file' = f)
    BY <2>1
  <2> HIDE DEF f
  <2> QED  BY <2>2, <2>3, ChangeKeeps
<1> QED  BY <1>2, <1>3

-----------------------------------------------------------------------------
LEMMA InitIsSound ==
  ASSUME Init
  PROVE  ServeDirInv
<1> DEFINE D == {disk[p] : p \in Paths} \cup {Absent}
<1>1. /\ config \in Configs /\ disk \in Trees /\ req \in Requests /\ changes = 0 /\ seen = 0
      /\ file = Absent /\ meta = Absent /\ pc = "idle" /\ quiet = TRUE
      /\ reply = NoReply /\ body = NoBody
      /\ cache \in IF Conditional(req) THEN Copies ELSE {Absent}
  BY DEF Init
<1>2. /\ disk \in [Paths -> Files] /\ FirstRev \in Nat /\ FirstRev > 1
      /\ \A p \in Paths : disk[p] # Absent => disk[p].rev \in 2..(FirstRev - 1)
      /\ \A p, q \in Paths : disk[p].rev = disk[q].rev => disk[p].len = disk[q].len
  BY <1>1, ServeDirAssumption
<1>3. Absent \in Files /\ Absent.rev = 0 /\ Absent.len = 0
  BY DEF Absent, Files
<1>4. ASSUME NEW g \in D
      PROVE  g \in Files /\ (g = Absent \/ g.rev \in 2..(FirstRev - 1))
  BY <1>2, <1>3
<1>5. \A g, h \in D : g.rev = h.rev => g.len = h.len
  <2>1. ASSUME NEW g \in D, NEW h \in D, g.rev = h.rev
        PROVE  g.len = h.len
    <3>1. CASE g = Absent \/ h = Absent
      BY <1>3, <1>4, <2>1, <3>1
    <3>2. CASE g # Absent /\ h # Absent
      BY <1>2, <2>1, <3>2
    <3> QED  BY <3>1, <3>2
  <2> QED  BY <2>1
<1>6. cache \in D \/ (cache \in Files /\ cache.rev = 1)
  <2>1. CASE ~Conditional(req)
    BY <1>1, <2>1
  <2>2. CASE Conditional(req)
    <3>1. cache \in Copies
      BY <1>1, <2>2
    <3>2. PICK p \in Paths : /\ disk[p].kind = "file"
                             /\ cache \in {disk[p], [disk[p] EXCEPT !.rev = 1]}
      BY <3>1 DEF Copies
    <3>3. disk[p] \in [kind : {"file", "dir"}, len : Nat, rev : Nat]
      BY <1>2, <3>2 DEF Files, Absent
    <3>4. CASE cache = disk[p]
      BY <3>4
    <3>5. CASE cache = [disk[p] EXCEPT !.rev = 1]
      <4> DEFINE f == disk[p]
      <4>1. f \in [kind : {"file", "dir"}, len : Nat, rev : Nat] /\ cache = [f EXCEPT !.rev = 1]
        BY <3>3, <3>5
      <4> HIDE DEF f
      <4>2. cache \in [kind : {"file", "dir"}, len : Nat, rev : Nat] /\ cache.rev = 1
        BY <4>1
      <4> QED  BY <4>2 DEF Files
    <3> QED  BY <3>2, <3>4, <3>5
  <2> QED  BY <2>1, <2>2
<1>7. Entities \subseteq D \cup {cache}
  BY <1>1 DEF Entities
<1> HIDE DEF D
<1>8. World
  <2>1. cache \in Files /\ (cache \in D \/ cache.rev = 1)
    BY <1>4, <1>6
  <2>2. ASSUME NEW g \in Entities
        PROVE  g.rev < FirstRev + changes /\ (g # Absent => g.rev > 0)
    BY <1>1, <1>2, <1>3, <1>4, <1>7, <2>1
  <2>3. ASSUME NEW g \in Entities, NEW h \in Entities, g.rev = h.rev
        PROVE  g.len = h.len
    <3>1. \A x \in D : x.rev # 1
      BY <1>2, <1>3, <1>4
    <3> QED  BY <1>5, <1>7, <2>1, <2>3, <3>1
  <2>4. changes \in Nat /\ seen \in 0..changes
    BY <1>1
  <2> QED  BY <1>1, <1>2, <1>3, <2>1, <2>2, <2>3, <2>4 DEF World
<1>9. Phases
  BY <1>1, NoBodyParts DEF Phases
<1>10. reply.status = 0 /\ ~Served
  BY <1>1 DEF NoReply, Served
<1>11. Explained /\ Streaming /\ Looping /\ Chosen /\ Refused
  BY <1>1, <1>10, NoBodyParts
     DEF Explained, Streaming, Looping, Chosen, Refused, NulInName, FallbackStatus
<1> QED  BY <1>8, <1>9, <1>11 DEF ServeDirInv
LEMMA StutterKeeps ==
  ASSUME ServeDirInv, UNCHANGED vars
  PROVE  ServeDirInv'
<1>1. UNCHANGED <<config, cache, world, pc, req, opening, opened, reply, body, quiet, seen>>
  BY DEF vars
<1>2. /\ UNCHANGED <<config, cache, disk, pc, req, path, target, negotiated, encoding>>
      /\ UNCHANGED <<file, meta, reply, body, quiet, seen>>
  BY <1>1 DEF world, opening, opened
<1>3. World /\ Phases /\ Explained /\ Streaming /\ Looping /\ Chosen /\ Refused
  BY DEF ServeDirInv
<1>4. World'
  BY <1>1, <1>3, WorldRests
<1>5. /\ check(req, meta)' = check(req, meta)
      /\ Asked' = Asked
      /\ Headers(meta, encoding, Asked)' = Headers(meta, encoding, Asked)
  BY <1>2, SettingsStay DEF Asked
<1>6. Explained'
  BY <1>2, <1>3, <1>5 DEF Explained, Served
<1>7. Phases'
  BY <1>2, <1>3 DEF Phases
<1>8. Streaming'
  BY <1>2, <1>3, <1>5 DEF Streaming, Served, Untouched
<1>9. Looping'
  BY <1>2, <1>3 DEF Looping, Accepted, At
<1>10. Chosen'
  BY <1>2, <1>3, SettledStays DEF Chosen, Served
<1>11. Refused'
  BY <1>2, <1>3, NothingStays DEF Refused, NulInName
<1> QED  BY <1>4, <1>6, <1>7, <1>8, <1>9, <1>10, <1>11 DEF ServeDirInv

(* Every step of a call, of the backend or of another actor keeps the      *)
(* invariant: revisions stand for one content, the answer is about the     *)
(* file that is open, and the loop's path and list stay in step.           *)
THEOREM ServeDirIsSound == Spec => []ServeDirInv
<1>1. Init => ServeDirInv
  BY InitIsSound
<1>2. ServeDirInv /\ [Next]_vars => ServeDirInv'
  <2> SUFFICES ASSUME ServeDirInv, [Next]_vars
               PROVE  ServeDirInv'
    OBVIOUS
  <2>1. CASE TryCall
    BY <2>1, TryCallKeeps
  <2>2. CASE RedirectOrAppend
    BY <2>2, RedirectOrAppendKeeps
  <2>3. CASE Found
    BY <2>3, FoundKeeps
  <2>4. CASE NotFound
    BY <2>4, NotFoundKeeps
  <2>5. CASE InvalidFilename
    BY <2>5, InvalidFilenameKeeps
  <2>6. CASE FileMetadata
    BY <2>6, FileMetadataKeeps
  <2>7. CASE FallbackResponds
    BY <2>7, FallbackRespondsKeeps
  <2>8. CASE Read
    BY <2>8, ReadKeeps
  <2>9. CASE ReadFails
    BY <2>9, ReadFailsKeeps
  <2>10. CASE \E err \in BackendErrors : BackendFails(err)
    BY <2>10, BackendFailsKeeps
  <2>11. CASE \E p \in Paths : Replace(p) \/ WriteInPlace(p)
    BY <2>11, OtherActorKeeps
  <2>12. CASE Over
    BY <2>12, StutterKeeps DEF Over
  <2>13. CASE UNCHANGED vars
    BY <2>13, StutterKeeps
  <2> QED
    BY <2>1, <2>2, <2>3, <2>4, <2>5, <2>6, <2>7, <2>8, <2>9, <2>10, <2>11, <2>12, <2>13
       DEF Next, Progress
<1> QED  BY <1>1, <1>2, PTL DEF Spec

(* What is served under a Content-Encoding is the file with that           *)
(* encoding's extension and is accepted by the client, whatever happens to *)
(* the files meanwhile; if nothing does, it is the best variant there is,  *)
(* and the fallback or 404 means that there is nothing to serve            *)
(* (open_file_with_fallback).                                              *)
THEOREM BestIsAlwaysFound == Spec => []BestIsFound
<1>1. ServeDirInv => BestIsFound
  <2> SUFFICES ASSUME ServeDirInv PROVE BestIsFound
    OBVIOUS
  <2>1. World /\ Explained /\ Chosen /\ Refused
    BY DEF ServeDirInv
  <2>2. VariantIsRight
    <3>1. SUFFICES ASSUME Served PROVE VariantIsRight
      BY DEF VariantIsRight
    <3>2. reply = Headers(meta, encoding, Asked) /\ Settled
      BY <2>1, <3>1 DEF Explained, Chosen
    <3>3. reply.encoding = IF encoding \in Compressed THEN encoding ELSE "identity"
      BY <2>1, <3>2, AskedParts, HeadersParts
    <3>4. path = Variant(target, encoding)
          /\ (encoding \in Compressed => \E x \in Accepted : x.encoding = encoding)
      BY <3>2 DEF Settled
    <3>5. "identity" \notin Compressed
      BY DEF Compressed
    <3>6. path = Variant(target, reply.encoding)
      BY <3>3, <3>4, <3>5 DEF Variant
    <3> QED  BY <3>3, <3>4, <3>6 DEF VariantIsRight
  <2>3. quiet /\ Served => NothingBetter
    BY <2>1 DEF Chosen, Settled
  <2> QED  BY <2>1, <2>2, <2>3 DEF BestIsFound, Refused, NulInName
<1> QED  BY <1>1, ServeDirIsSound, PTL

(* A body that ends has the announced length and is the one its ETag       *)
(* stands for, unless that very file was written to after its metadata was *)
(* read; a range response never sends more than announced (build_response, *)
(* AsyncReadBody).                                                         *)
THEOREM LengthIsAlwaysTrue == Spec => []LengthIsTrue
<1>1. ServeDirInv => LengthIsTrue
  <2> SUFFICES ASSUME ServeDirInv PROVE LengthIsTrue
    OBVIOUS
  <2>1. World /\ Explained /\ Streaming /\ body.got \in Nat
    BY DEF ServeDirInv, Phases
  <2>2. Served => /\ reply = Headers(meta, encoding, Asked)
                  /\ reply.etag = ETag(meta)
                  /\ reply.status = 206 => Asked.kind = "ok"
                  /\ Asked.kind = "ok" =>
                       reply.length = IF meta.len = 0 THEN 0 ELSE Limit(Asked)
    BY <2>1, AskedParts, HeadersParts DEF Explained
  <2>3. ASSUME body.state = "ended", Untouched
        PROVE  /\ body.got = reply.length
               /\ body.revs \subseteq {file.rev}
               /\ reply.etag = ETag(file)
    BY <2>1, <2>2, <2>3 DEF Streaming
  <2>4. ASSUME reply.status = 206, reply.length > 0
        PROVE  body.got <= reply.length
    <3>1. Served
      BY <2>4 DEF Served
    <3>2. Asked.kind = "ok" /\ reply.length = Limit(Asked) /\ Limit(Asked) > 0
      BY <2>2, <2>4, <3>1
    <3>3. Limit(Asked) \in Int
      BY <2>1, <3>2, AskedParts DEF Limit
    <3>4. CASE body.state = "none"
      <4>1. body.got = 0
        BY <2>1, <3>4, NoBodyParts DEF Streaming
      <4> QED  BY <3>2, <3>3, <4>1
    <3>5. CASE body.state # "none"
      <4>1. body.left \in Nat /\ body.left + body.got = Limit(Asked)
        BY <2>1, <3>2, <3>5 DEF Streaming
      <4> QED  BY <2>1, <3>2, <3>3, <4>1
    <3> QED  BY <3>4, <3>5
  <2> QED  BY <2>3, <2>4 DEF LengthIsTrue
<1> QED  BY <1>1, ServeDirIsSound, PTL

(* A client that revalidates with If-None-Match is told that its copy is   *)
(* current exactly when it is, and one that continues with If-Match gets   *)
(* bytes of its copy only (Preconditions::check).                          *)
THEOREM ConditionsAreAlwaysKept == Spec => []ConditionsAreKept
<1>1. ServeDirInv => ConditionsAreKept
  <2> SUFFICES ASSUME ServeDirInv PROVE ConditionsAreKept
    OBVIOUS
  <2>1. /\ World /\ Streaming
        /\ Served => check(req, meta) = "None"
        /\ reply.status = 304 => check(req, meta) = "NotModified"
    BY DEF ServeDirInv, Explained
  <2>2. meta.rev = cache.rev => meta.len = cache.len
    BY <2>1 DEF World, Entities
  <2>3. <<meta.len, meta.rev>> = <<cache.len, cache.rev>> <=> meta.rev = cache.rev
    BY <2>2
  <2>4. ASSUME config.mtimes, req.if_none_match \in {"cached", "weak"}
        PROVE  /\ reply.status = 304 => meta.rev = cache.rev
               /\ Served => meta.rev # cache.rev
    <3> DEFINE header == Tag(req.if_none_match, cache)
    <3>1. /\ ETag(meta) = <<meta.len, meta.rev>> /\ ETag(cache) = <<cache.len, cache.rev>>
          /\ ETag(meta) # NoTag
      BY <2>4 DEF ETag, NoTag
    <3>2. header.any = FALSE /\ header.tag = ETag(cache)
      BY <2>4 DEF Tag
    <3>3. IfNoneMatchPasses(header, ETag(meta)) <=> ETag(cache) # ETag(meta)
      BY <3>2 DEF IfNoneMatchPasses, weak_eq
    <3>4. /\ check(req, meta) = "NotModified" => ~IfNoneMatchPasses(header, ETag(meta))
          /\ check(req, meta) = "None" => IfNoneMatchPasses(header, ETag(meta))
      BY <2>4, <3>1 DEF check
    <3> QED  BY <2>1, <2>3, <3>1, <3>3, <3>4
  <2>5. ASSUME req.if_match = "cached", Served
        PROVE  meta.rev = cache.rev /\ (Untouched => body.revs \subseteq {cache.rev})
    <3> DEFINE header == Tag(req.if_match, cache)
    <3>1. header.any = FALSE /\ header.weak = FALSE /\ header.tag = ETag(cache)
      BY <2>5 DEF Tag
    <3>2. IfMatchPasses(header, ETag(meta)) => ETag(cache) = ETag(meta)
      BY <3>1 DEF IfMatchPasses, strong_eq
    <3>3. ETag(meta) # NoTag /\ IfMatchPasses(header, ETag(meta))
      BY <2>1, <2>5 DEF check
    <3>4. config.mtimes
      BY <3>3 DEF ETag
    <3>5. meta.rev = cache.rev
      BY <2>3, <3>2, <3>3, <3>4 DEF ETag
    <3>6. Untouched => body.revs \subseteq {meta.rev}
      BY <2>1, NoBodyParts DEF Streaming
    <3> QED  BY <3>5, <3>6
  <2> QED  BY <2>4, <2>5 DEF ConditionsAreKept
<1> QED  BY <1>1, ServeDirIsSound, PTL
=============================================================================
