----------------------- MODULE MiddlewareStackProofs ------------------------
(***************************************************************************)
(* MiddlewareStack for stacks of any depth and every request: panics and   *)
(* paths; then the history of an exchange, and what follows from it for    *)
(* marked headers, request ids, gates and body limits.                     *)
(***************************************************************************)
EXTENDS MiddlewareStack, SequenceTheorems, FiniteSetTheorems, WellFoundedInduction, TLAPS

IsSeq(s) == Len(s) \in Nat /\ s = [i \in 1..Len(s) |-> s[i]]

IsRequest(q) ==
  q = [headers |-> q.headers, id |-> q.id, extension |-> q.extension, uri |-> q.uri,
       chunks |-> q.chunks, wraps |-> q.wraps]
IsResult(r) ==
  r = [kind |-> r.kind, status |-> r.status, headers |-> r.headers, id |-> r.id,
       body |-> r.body]

IsMin(n, S) == n \in S /\ \A x \in S : n <= x
IsMax(n, S) == n \in S /\ \A x \in S : x <= n

(* How far the exchange is.                                                *)
Shape ==
  /\ IsSeq(layers) /\ IsSeq(calls) /\ Len(calls) \in 1..Bottom
  /\ phase \in {"call", "handle", "poll"}
  /\ phase = "call" => Len(calls) < Bottom
  /\ phase = "handle" => Len(calls) = Bottom
  /\ at \in Nat /\ at < Len(calls)
  /\ results = [i \in 1..Bottom |-> results[i]]
  /\ \A i \in 1..Bottom : IsResult(results[i])
  /\ \A i \in 1..Bottom : phase # "poll" \/ i <= at => results[i] = NoResult

Messages == \A i \in 1..Len(calls) : IsRequest(calls[i]) /\ calls[i].uri \in Uris

Normal ==
  \A i \in 1..Len(layers) :
    i < Len(calls) /\ layers[i].kind = "normalize_path" =>
      calls[i + 1].uri = Normalize(layers[i].mode, calls[i].uri)

Catchers(i) == {k \in i..Len(layers) : layers[k].kind = "catch_panic"}
Outer(i, m) == {k \in i..Len(layers) : layers[k].kind = "set_status" /\ k < m}

(* What layer i gives back, r, when the handler gave b: the verdict of     *)
(* PanicIsContained about the part of the stack from i on.                 *)
Fate(i, b, r) ==
  \/ b = Error /\ r = Error
  \/ b.kind = "response" /\ r.kind = "response"
  \/ /\ b \in {Panic("call"), Panic("poll")}
     /\ Catchers(i) = {} /\ r = b
  \/ /\ b \in {Panic("call"), Panic("poll")}
     /\ r.kind = "response"
     /\ \E m \in 1..Len(layers) :
          /\ IsMax(m, Catchers(i))
          /\ \/ Outer(i, m) = {} /\ r.status = 500
             \/ \E n \in 1..Len(layers) :
                  IsMin(n, Outer(i, m)) /\ r.status = layers[n].status

Fates ==
  phase = "poll" /\ Len(calls) = Bottom =>
    \A i \in (at + 1)..Bottom : Fate(i, results[Bottom], results[i])

StackInv == Shape /\ Messages /\ Normal /\ Fates

-----------------------------------------------------------------------------
(* Sequences and least and greatest elements.                              *)
LEMMA AppendIs ==
  ASSUME NEW s, IsSeq(s), NEW e
  PROVE  /\ IsSeq(Append(s, e)) /\ Len(Append(s, e)) = Len(s) + 1
         /\ \A i \in 1..Len(s) : Append(s, e)[i] = s[i]
         /\ Append(s, e)[Len(s) + 1] = e
<1> DEFINE S == {s[i] : i \in 1..Len(s)} \cup {e}
<1>1. s \in Seq(S)
  <2>1. s \in [1..Len(s) -> S] /\ Len(s) \in Nat
    BY DEF IsSeq
  <2> HIDE DEF S
  <2> QED  BY <2>1, SeqDef
<1>2. e \in S
  OBVIOUS
<1> HIDE DEF S
<1>3. /\ Append(s, e) \in Seq(S) /\ Len(Append(s, e)) = Len(s) + 1
      /\ \A i \in 1..Len(s) : Append(s, e)[i] = s[i]
      /\ Append(s, e)[Len(s) + 1] = e
  BY <1>1, <1>2, AppendProperties
<1>4. IsSeq(Append(s, e))
  BY <1>3, LenProperties DEF IsSeq
<1> QED  BY <1>3, <1>4

LEMMA LeastExists ==
  ASSUME NEW S, S \subseteq Nat, S # {}
  PROVE  \E n : IsMin(n, S)
<1>1. PICK n \in S : \A y \in S : ~ (<<y, n>> \in OpToRel(<, Nat))
  BY WFMin, NatLessThanWellFounded
<1>2. ASSUME NEW y \in S
      PROVE  n <= y
  <2>1. ~ (y < n)
    BY <1>1 DEF OpToRel
  <2> QED  BY <2>1
<1> QED  BY <1>2 DEF IsMin

LEMMA GreatestExists ==
  ASSUME NEW k \in Nat, NEW S, S \subseteq 0..k, S # {}
  PROVE  \E n : IsMax(n, S)
<1> DEFINE T == {k - x : x \in S}
<1>1. T \subseteq Nat /\ T # {}
  OBVIOUS
<1>2. PICK t : IsMin(t, T)
  BY <1>1, LeastExists
<1>3. PICK n \in S : t = k - n
  BY <1>2 DEF IsMin
<1>4. ASSUME NEW x \in S
      PROVE  x <= n
  <2>1. t <= k - x
    BY <1>2 DEF IsMin
  <2> QED  BY <1>3, <2>1
<1> QED  BY <1>4 DEF IsMax

LEMMA MinIs ==
  ASSUME NEW S, S \subseteq Nat, NEW n, IsMin(n, S)
  PROVE  Min(S) = n
<1>1. n \in S /\ \A y \in S : n =< y
  BY DEF IsMin
<1>2. Min(S) \in S /\ \A y \in S : Min(S) =< y
  BY <1>1 DEF Min
<1>3. n \in Nat /\ Min(S) \in Nat
  BY <1>1, <1>2
<1>4. n =< Min(S) /\ Min(S) =< n
  BY <1>1, <1>2
<1> QED  BY <1>3, <1>4

LEMMA MaxIs ==
  ASSUME NEW S, S \subseteq Nat, NEW n, IsMax(n, S)
  PROVE  Max(S) = n
<1>1. n \in S /\ \A y \in S : n >= y
  BY DEF IsMax
<1>2. Max(S) \in S /\ \A y \in S : Max(S) >= y
  BY <1>1 DEF Max
<1>3. n \in Nat /\ Max(S) \in Nat
  BY <1>1, <1>2
<1>4. n >= Max(S) /\ Max(S) >= n
  BY <1>1, <1>2
<1> QED  BY <1>3, <1>4

-----------------------------------------------------------------------------
(* Paths.  Bounds(p, a, b): between a and b lies what trimming keeps.      *)
Bounds(p, a, b) ==
  /\ a \in 1..Len(p) /\ b \in 1..Len(p) /\ a <= b
  /\ p[a] # "/" /\ p[b] # "/"
  /\ \A i \in 1..Len(p) : i < a \/ i > b => p[i] = "/"

LEMMA TrimKeeps ==
  ASSUME NEW p \in Seq(Characters), NEW a, NEW b, Bounds(p, a, b)
  PROVE  trim_matches(p) = SubSeq(p, a, b)
<1> DEFINE K == {i \in DOMAIN p : p[i] # "/"}
<1>1. Len(p) \in Nat /\ DOMAIN p = 1..Len(p)
  OBVIOUS
<1>2. IsMin(a, K) /\ IsMax(b, K) /\ K \subseteq Nat
  BY <1>1 DEF Bounds, IsMin, IsMax
<1>3. Min(K) = a /\ Max(K) = b
  <2> HIDE DEF K
  <2> QED  BY <1>2, MinIs, MaxIs
<1>4. K # {}
  BY <1>2 DEF IsMin
<1>5. trim_matches(p) = IF K = {} THEN <<>> ELSE SubSeq(p, Min(K), Max(K))
  BY DEF trim_matches
<1> HIDE DEF K
<1> QED  BY <1>3, <1>4, <1>5

LEMMA TrimEmpty ==
  ASSUME NEW p \in Seq(Characters), \A i \in 1..Len(p) : p[i] = "/"
  PROVE  trim_matches(p) = <<>>
  BY DEF trim_matches

LEMMA BoundsExist ==
  ASSUME NEW p \in Seq(Characters), NEW k \in 1..Len(p), p[k] # "/"
  PROVE  \E a, b : Bounds(p, a, b)
<1> DEFINE K == {i \in 1..Len(p) : p[i] # "/"}
<1>1. K \subseteq Nat /\ K \subseteq 0..Len(p) /\ K # {} /\ Len(p) \in Nat
  OBVIOUS
<1> HIDE DEF K
<1>2. PICK a : IsMin(a, K)
  BY <1>1, LeastExists
<1>3. PICK b : IsMax(b, K)
  BY <1>1, GreatestExists
<1>4. Bounds(p, a, b)
  BY <1>1, <1>2, <1>3 DEF Bounds, IsMin, IsMax, K
<1> QED  BY <1>4

\* A path without outer slashes.
Bare(t) == t \in Seq(Characters) /\ (t # <<>> => t[1] # "/" /\ t[Len(t)] # "/")

LEMMA TrimIsBare ==
  ASSUME NEW p \in Seq(Characters)
  PROVE  Bare(trim_matches(p))
<1>1. CASE \A i \in 1..Len(p) : p[i] = "/"
  <2>1. trim_matches(p) = <<>>
    BY <1>1, TrimEmpty
  <2>2. Bare(<<>>)
    BY DEF Bare
  <2> QED  BY <2>1, <2>2
<1>2. CASE \E k \in 1..Len(p) : p[k] # "/"
  <2>1. PICK a, b : Bounds(p, a, b)
    BY <1>2, BoundsExist
  <2>2. trim_matches(p) = SubSeq(p, a, b)
    BY <2>1, TrimKeeps
  <2>3. /\ a \in Nat /\ b \in Nat /\ 1 <= a /\ a <= b /\ b <= Len(p)
        /\ p[a] # "/" /\ p[b] # "/"
    BY <2>1 DEF Bounds
  <2>4. /\ SubSeq(p, a, b) \in Seq(Characters) /\ Len(SubSeq(p, a, b)) = b - a + 1
        /\ SubSeq(p, a, b)[1] = p[a] /\ SubSeq(p, a, b)[b - a + 1] = p[b]
    BY <2>3
  <2> QED  BY <2>2, <2>3, <2>4 DEF Bare
<1> QED  BY <1>1, <1>2

LEMMA SlashBefore ==
  ASSUME NEW t \in Seq(Characters)
  PROVE  /\ <<"/">> \o t \in Seq(Characters) /\ Len(<<"/">> \o t) = Len(t) + 1
         /\ (<<"/">> \o t)[1] = "/"
         /\ \A i \in 1..Len(t) : (<<"/">> \o t)[i + 1] = t[i]
<1> DEFINE s == <<"/">>
<1>1. s \in Seq(Characters) /\ Len(s) = 1 /\ s[1] = "/" /\ Len(t) \in Nat
  BY DEF Characters
<1> HIDE DEF s
<1>2. /\ s \o t \in Seq(Characters) /\ Len(s \o t) = Len(s) + Len(t)
      /\ \A i \in 1..(Len(s) + Len(t)) :
           (s \o t)[i] = IF i <= Len(s) THEN s[i] ELSE t[i - Len(s)]
  BY <1>1, ConcatProperties
<1>3. \A i \in 1..(1 + Len(t)) : (s \o t)[i] = IF i <= 1 THEN s[i] ELSE t[i - 1]
  BY <1>1, <1>2
<1>4. (s \o t)[1] = "/"
  BY <1>1, <1>3
<1>5. ASSUME NEW i \in 1..Len(t)
      PROVE  (s \o t)[i + 1] = t[i]
  <2>1. i + 1 \in 1..(1 + Len(t)) /\ ~ (i + 1 <= 1) /\ (i + 1) - 1 = i
    BY <1>1
  <2>2. (s \o t)[i + 1] = t[(i + 1) - 1]
    BY <1>3, <2>1
  <2> QED  BY <2>1, <2>2
<1> QED  BY <1>1, <1>2, <1>4, <1>5 DEF s

LEMMA SlashAfter ==
  ASSUME NEW t \in Seq(Characters)
  PROVE  /\ t \o <<"/">> \in Seq(Characters) /\ Len(t \o <<"/">>) = Len(t) + 1
         /\ (t \o <<"/">>)[Len(t) + 1] = "/"
         /\ \A i \in 1..Len(t) : (t \o <<"/">>)[i] = t[i]
<1> DEFINE s == <<"/">>
<1>1. s \in Seq(Characters) /\ Len(s) = 1 /\ s[1] = "/" /\ Len(t) \in Nat
  BY DEF Characters
<1> HIDE DEF s
<1>2. /\ t \o s \in Seq(Characters) /\ Len(t \o s) = Len(t) + Len(s)
      /\ \A i \in 1..(Len(t) + Len(s)) :
           (t \o s)[i] = IF i <= Len(t) THEN t[i] ELSE s[i - Len(t)]
  BY <1>1, ConcatProperties
<1>3. (t \o s)[Len(t) + 1] = "/" /\ \A i \in 1..Len(t) : (t \o s)[i] = t[i]
  BY <1>1, <1>2
<1> QED  BY <1>1, <1>2, <1>3 DEF s

(* Trimming a bare path with slashes around it gives it back.              *)
LEMMA TrimUndoes ==
  ASSUME NEW t, Bare(t)
  PROVE  /\ trim_matches(<<"/">> \o t) = t
         /\ trim_matches(<<"/">> \o t \o <<"/">>) = t
<1>1. t \in Seq(Characters) /\ Len(t) \in Nat
  BY DEF Bare
<1> DEFINE p == <<"/">> \o t
           q == p \o <<"/">>
           n == Len(t)
<1>2. /\ p \in Seq(Characters) /\ Len(p) = n + 1 /\ p[1] = "/"
      /\ \A i \in 1..n : p[i + 1] = t[i]
  BY <1>1, SlashBefore
<1> HIDE DEF p
<1>3. /\ q \in Seq(Characters) /\ Len(q) = n + 2 /\ q[n + 2] = "/"
      /\ \A i \in 1..(n + 1) : q[i] = p[i]
  BY <1>1, <1>2, SlashAfter
<1> HIDE DEF q
<1>4. CASE t = <<>>
  <2>1. n = 0
    BY <1>4
  <2>2. \A i \in 1..Len(p) : p[i] = "/"
    BY <1>2, <2>1
  <2>3. \A i \in 1..Len(q) : q[i] = "/"
    BY <1>2, <1>3, <2>1
  <2>4. trim_matches(p) = <<>> /\ trim_matches(q) = <<>>
    BY <1>2, <1>3, <2>2, <2>3, TrimEmpty
  <2> QED  BY <1>4, <2>4 DEF p, q
<1>5. CASE t # <<>>
  <2>1. n >= 1 /\ t[1] # "/" /\ t[n] # "/" /\ n \in Nat
    BY <1>1, <1>5 DEF Bare
  <2> HIDE DEF n
  <2>2. p[2] # "/" /\ p[n + 1] # "/"
    BY <1>2, <2>1
  <2>3. Bounds(p, 2, n + 1)
    BY <1>2, <2>1, <2>2 DEF Bounds
  <2>4. q[2] # "/" /\ q[n + 1] # "/" /\ q[1] = "/"
    BY <1>2, <1>3, <2>1, <2>2
  <2>5. Bounds(q, 2, n + 1)
    BY <1>3, <2>1, <2>4 DEF Bounds
  <2>6. /\ SubSeq(p, 2, n + 1) \in Seq(Characters) /\ Len(SubSeq(p, 2, n + 1)) = n
        /\ \A i \in 1..n : SubSeq(p, 2, n + 1)[i] = p[i + 1]
    BY <1>2, <2>1
  <2>7. /\ SubSeq(q, 2, n + 1) \in Seq(Characters) /\ Len(SubSeq(q, 2, n + 1)) = n
        /\ \A i \in 1..n : SubSeq(q, 2, n + 1)[i] = q[i + 1]
    BY <1>3, <2>1
  <2>8. SubSeq(p, 2, n + 1) = t
    BY <1>1, <1>2, <2>6, SeqEqual DEF n
  <2>9. SubSeq(q, 2, n + 1) = t
    <3>1. \A i \in 1..n : SubSeq(q, 2, n + 1)[i] = t[i]
      BY <1>2, <1>3, <2>1, <2>7
    <3> QED  BY <1>1, <2>7, <3>1, SeqEqual DEF n
  <2> QED  BY <1>2, <1>3, <2>3, <2>5, <2>8, <2>9, TrimKeeps DEF p, q
<1> QED  BY <1>4, <1>5

LEMMA TrimmedAlready ==
  ASSUME NEW p \in Seq(Characters), p # <<>>, p[1] = "/",
         ~ ends_with_slash(p), ~ starts_with_slashes(p)
  PROVE  p = <<"/">> \o trim_matches(p)
<1> DEFINE n == Len(p)
           t == trim_matches(p)
           q == <<"/">> \o t
<1>1. n \in Nat /\ n > 1 /\ p[n] # "/" /\ p[2] # "/"
  BY DEF ends_with_slash, starts_with_slashes
<1>2. Bounds(p, 2, n)
  BY <1>1 DEF Bounds
<1>3. t = SubSeq(p, 2, n)
  BY <1>2, TrimKeeps
<1> HIDE DEF n, t
<1>4. /\ t \in Seq(Characters) /\ Len(t) = n - 1
      /\ \A i \in 1..(n - 1) : t[i] = p[i + 1]
  BY <1>1, <1>3 DEF n
<1>5. /\ q \in Seq(Characters) /\ Len(q) = n /\ q[1] = "/"
      /\ \A i \in 1..(n - 1) : q[i + 1] = t[i]
  BY <1>1, <1>4, SlashBefore
<1> HIDE DEF q
<1>6. ASSUME NEW i \in 1..n
      PROVE  q[i] = p[i]
  <2>1. CASE i = 1
    BY <1>5, <2>1
  <2>2. CASE i # 1
    <3>1. i - 1 \in 1..(n - 1) /\ (i - 1) + 1 = i
      BY <1>1, <2>2
    <3>2. q[(i - 1) + 1] = t[i - 1] /\ t[i - 1] = p[(i - 1) + 1]
      BY <1>4, <1>5, <3>1
    <3> QED  BY <3>1, <3>2
  <2> QED  BY <2>1, <2>2
<1>7. q = p
  BY <1>5, <1>6, SeqEqual DEF n
<1> QED  BY <1>7 DEF q, t

LEMMA UriParts ==
  ASSUME NEW u \in Uris
  PROVE  /\ u = [form |-> u.form, path |-> u.path, query |-> u.query]
         /\ u.form \in {"origin", "absolute", "authority", "asterisk"}
         /\ u.path \in Seq(Characters)
         /\ u.form = "authority" => u.path = <<>>
         /\ u.form = "asterisk" => u.path = <<"*">>
         /\ u.form \in {"origin", "absolute"} => u.path # <<>> /\ u.path[1] = "/"
  BY DEF Uris

(* The trimmed path: a slash and what is between the outer slashes.        *)
LEMMA TrimModeIsRight ==
  ASSUME NEW u \in Uris, u.form \in {"origin", "absolute"}
  PROVE  /\ trim_trailing_slash(u) =
              [form |-> u.form, path |-> <<"/">> \o trim_matches(u.path), query |-> u.query]
         /\ trim_trailing_slash(trim_trailing_slash(u)) = trim_trailing_slash(u)
<1> DEFINE p == u.path
           t == trim_matches(p)
           n == <<"/">> \o t
           v == [form |-> u.form, path |-> n, query |-> u.query]
<1>1. p \in Seq(Characters) /\ p # <<>> /\ p[1] = "/"
      /\ u = [form |-> u.form, path |-> p, query |-> u.query]
      /\ u.form \notin {"asterisk", "authority"}
  BY UriParts
<1>2. Bare(t)
  BY <1>1, TrimIsBare
<1>3. trim_matches(n) = t
  BY <1>2, TrimUndoes
<1>4. from_parts(u, n) = v
  BY <1>1 DEF from_parts
<1>5. trim_trailing_slash(u) = v
  <2>1. CASE ~ ends_with_slash(p) /\ ~ starts_with_slashes(p)
    <3>1. p = n
      BY <1>1, <2>1, TrimmedAlready
    <3>2. trim_trailing_slash(u) = u
      BY <2>1 DEF trim_trailing_slash
    <3> QED  BY <1>1, <3>1, <3>2
  <2>2. CASE ends_with_slash(p) \/ starts_with_slashes(p)
    BY <1>4, <2>2 DEF trim_trailing_slash
  <2> QED  BY <2>1, <2>2
<1> HIDE DEF t
<1>6. from_parts(v, <<"/">> \o trim_matches(v.path)) = v
  <2>1. v.path = n /\ v.form = u.form /\ v.query = u.query
    OBVIOUS
  <2>2. <<"/">> \o trim_matches(v.path) = n
    BY <1>3, <2>1
  <2> HIDE DEF n
  <2>3. from_parts(v, n) = v
    BY <1>1, <2>1 DEF from_parts
  <2> QED  BY <2>2, <2>3
<1>7. trim_trailing_slash(v) = v
  BY <1>6 DEF trim_trailing_slash
<1> QED  BY <1>5, <1>7 DEF t

(* The path with a slash appended ends with one slash.                     *)
LEMMA AppendModeIsRight ==
  ASSUME NEW u \in Uris, u.form \in {"origin", "absolute"}
  PROVE  LET to == append_trailing_slash(u)
         IN /\ to = [form |-> u.form, path |-> to.path, query |-> u.query]
            /\ to.path \in Seq(Characters) /\ to.path # <<>> /\ to.path[1] = "/"
            /\ trim_matches(to.path) = trim_matches(u.path)
            /\ ends_with_slash(to.path) /\ ~ ends_with_slashes(to.path)
<1> DEFINE p == u.path
           t == trim_matches(p)
           to == append_trailing_slash(u)
           b == <<"/">> \o t
           n == b \o <<"/">>
<1>1. p \in Seq(Characters) /\ p # <<>> /\ p[1] = "/"
      /\ u = [form |-> u.form, path |-> p, query |-> u.query]
      /\ u.form \notin {"asterisk", "authority"}
  BY UriParts
<1>2. Bare(t)
  BY <1>1, TrimIsBare
<1>3. ASSUME NEW s
      PROVE  from_parts(u, s) = [form |-> u.form, path |-> s, query |-> u.query]
  BY <1>1 DEF from_parts
<1>4. CASE ends_with_slash(p) /\ ~ ends_with_slashes(p)
  <2>1. to = u
    BY <1>4 DEF append_trailing_slash
  <2> QED  BY <1>1, <1>4, <2>1
<1>5. CASE ~ (ends_with_slash(p) /\ ~ ends_with_slashes(p)) /\ t = <<>>
  <2> DEFINE s == <<"/">>
  <2>1. to = from_parts(u, s)
    BY <1>5 DEF append_trailing_slash
  <2>2. to = [form |-> u.form, path |-> s, query |-> u.query]
    BY <1>3, <2>1
  <2>3. s \in Seq(Characters) /\ Len(s) = 1 /\ s[1] = "/" /\ s # <<>>
    BY DEF Characters
  <2>4. trim_matches(s) = <<>>
    <3> HIDE DEF s
    <3>1. \A i \in 1..Len(s) : s[i] = "/"
      BY <2>3
    <3> QED  BY <2>3, <3>1, TrimEmpty
  <2>5. ends_with_slash(s) /\ ~ ends_with_slashes(s)
    BY <2>3 DEF ends_with_slash, ends_with_slashes
  <2> HIDE DEF s, to
  <2>6. to.path = s
    BY <2>2
  <2> HIDE DEF t
  <2> QED  BY <1>5, <2>2, <2>3, <2>4, <2>5, <2>6 DEF to, t
<1>6. CASE ~ (ends_with_slash(p) /\ ~ ends_with_slashes(p)) /\ t # <<>>
  <2>1. to = from_parts(u, n)
    BY <1>6 DEF append_trailing_slash
  <2>2. to = [form |-> u.form, path |-> n, query |-> u.query]
    BY <1>3, <2>1
  <2>3. trim_matches(n) = t
    BY <1>2, TrimUndoes
  <2>4. t \in Seq(Characters) /\ Len(t) \in Nat /\ Len(t) >= 1 /\ t[Len(t)] # "/"
    BY <1>2, <1>6 DEF Bare
  <2> HIDE DEF t
  <2>5. /\ b \in Seq(Characters) /\ Len(b) = Len(t) + 1 /\ b[1] = "/"
        /\ b[Len(t) + 1] = t[Len(t)]
    BY <2>4, SlashBefore
  <2> HIDE DEF b
  <2>6. /\ n \in Seq(Characters) /\ Len(n) = Len(t) + 2 /\ n[1] = "/"
        /\ n[Len(t) + 2] = "/" /\ n[Len(t) + 1] = b[Len(t) + 1]
    BY <2>4, <2>5, SlashAfter
  <2> HIDE DEF n, to
  <2>7. n # <<>> /\ ends_with_slash(n) /\ ~ ends_with_slashes(n)
    BY <2>4, <2>5, <2>6 DEF ends_with_slash, ends_with_slashes
  <2>8. to.path = n
    BY <2>2
  <2> QED  BY <2>2, <2>3, <2>6, <2>7, <2>8 DEF to, t
<1> QED  BY <1>4, <1>5, <1>6

(* A normalized URI is a URI.                                              *)
LEMMA NormalizeGivesUri ==
  ASSUME NEW u \in Uris, NEW mode
  PROVE  Normalize(mode, u) \in Uris
<1> DEFINE to == Normalize(mode, u)
<1>1. ASSUME NEW f \in {"origin", "absolute"}, NEW s \in Seq(Characters), s # <<>>, s[1] = "/"
      PROVE  [form |-> f, path |-> s, query |-> u.query] \in Uris
  BY <1>1 DEF Uris
<1>2. CASE u.form = "authority"
  BY <1>2, UriParts DEF Normalize, trim_trailing_slash, append_trailing_slash, from_parts,
                        ends_with_slash, starts_with_slashes
<1>3. CASE u.form \in {"origin", "absolute"}
  <2>1. CASE mode = "trim"
    <3> DEFINE t == trim_matches(u.path)
    <3>1. t \in Seq(Characters)
      BY UriParts, TrimIsBare DEF Bare
    <3>2. to = [form |-> u.form, path |-> <<"/">> \o t, query |-> u.query]
      BY <1>3, <2>1, TrimModeIsRight DEF Normalize
    <3> HIDE DEF t, to
    <3>3. /\ <<"/">> \o t \in Seq(Characters) /\ <<"/">> \o t # <<>>
          /\ (<<"/">> \o t)[1] = "/"
      BY <3>1, SlashBefore
    <3> QED  BY <1>1, <1>3, <3>2, <3>3 DEF to
  <2>2. CASE mode # "trim"
    <3>1. to = append_trailing_slash(u)
      BY <2>2 DEF Normalize
    <3> HIDE DEF to
    <3>2. /\ to = [form |-> u.form, path |-> to.path, query |-> u.query]
          /\ to.path \in Seq(Characters) /\ to.path # <<>> /\ to.path[1] = "/"
      BY <1>3, <3>1, AppendModeIsRight
    <3> QED  BY <1>1, <1>3, <3>2 DEF to
  <2> QED  BY <2>1, <2>2
<1>4. CASE u.form = "asterisk"
  <2> DEFINE p == u.path
  <2>1. p \in Seq(Characters) /\ Len(p) = 1 /\ p[1] = "*"
        /\ u = [form |-> u.form, path |-> u.path, query |-> u.query]
    <3>1. p = <<"*">> /\ p \in Seq(Characters)
      BY <1>4, UriParts
    <3>2. Len(p) = 1 /\ p[1] = "*"
      BY <3>1
    <3> QED  BY <3>1, <3>2, UriParts
  <2>2. ~ ends_with_slash(p) /\ ~ starts_with_slashes(p)
    BY <2>1 DEF ends_with_slash, starts_with_slashes
  <2>3. CASE mode = "trim"
    BY <2>2, <2>3 DEF Normalize, trim_trailing_slash
  <2>4. CASE mode # "trim"
    <3> DEFINE t == trim_matches(p)
               s == IF t = <<>> THEN <<"/">> ELSE <<"/">> \o t \o <<"/">>
    <3>1. t \in Seq(Characters)
      BY <2>1, TrimIsBare DEF Bare
    <3> HIDE DEF t
    <3>2. s \in Seq(Characters) /\ s # <<>> /\ s[1] = "/"
      <4>1. CASE t = <<>>
        BY <4>1 DEF Characters
      <4>2. CASE t # <<>>
        <5> DEFINE b == <<"/">> \o t
        <5>1. b \in Seq(Characters) /\ Len(b) = Len(t) + 1 /\ b[1] = "/" /\ Len(t) \in Nat
          BY <3>1, SlashBefore
        <5> HIDE DEF b
        <5>2. /\ b \o <<"/">> \in Seq(Characters) /\ Len(b \o <<"/">>) = Len(b) + 1
              /\ (b \o <<"/">>)[1] = "/"
          BY <5>1, SlashAfter
        <5>3. s = b \o <<"/">>
          BY <4>2 DEF b
        <5>4. Len(b \o <<"/">>) # 0
          BY <5>1, <5>2
        <5>5. b \o <<"/">> # <<>>
          BY <5>4
        <5> QED  BY <5>2, <5>3, <5>5
      <4> QED  BY <4>1, <4>2
    <3> HIDE DEF s
    <3>3. to = from_parts(u, s)
      BY <2>2, <2>4 DEF Normalize, append_trailing_slash, s, t
    <3>4. from_parts(u, s) = [form |-> "origin", path |-> s, query |-> u.query]
      BY <1>4, <2>1 DEF from_parts
    <3> HIDE DEF to
    <3> QED  BY <1>1, <3>2, <3>3, <3>4 DEF to
  <2> QED  BY <2>3, <2>4
<1> QED  BY <1>2, <1>3, <1>4, UriParts

(* What PathIsNormal says of one layer.                                    *)
LEMMA NormalizeIsRight ==
  ASSUME NEW from \in Uris, from.form # "asterisk", NEW mode,
         NEW to, to = Normalize(mode, from)
  PROVE  /\ to.query = from.query /\ to.form = from.form
         /\ Core(to.path) = Core(from.path)
         /\ Normalize(mode, to) = to
         /\ from.form = "authority" => to = from
         /\ from.form # "authority" /\ mode = "trim" => to.path = <<"/">> \o Core(from.path)
         /\ from.form # "authority" /\ mode = "append" =>
              ends_with_slash(to.path) /\ ~ ends_with_slashes(to.path)
<1>1. CASE from.form = "authority"
  <2>1. to = from
    BY <1>1, UriParts DEF Normalize, trim_trailing_slash, append_trailing_slash, from_parts,
                          ends_with_slash, starts_with_slashes
  <2> QED  BY <1>1, <2>1
<1>2. CASE from.form \in {"origin", "absolute"} /\ mode = "trim"
  <2> DEFINE t == trim_matches(from.path)
  <2>1. /\ to = [form |-> from.form, path |-> <<"/">> \o t, query |-> from.query]
        /\ trim_trailing_slash(to) = to
    BY <1>2, TrimModeIsRight DEF Normalize
  <2>2. trim_matches(<<"/">> \o t) = t
    BY UriParts, TrimIsBare, TrimUndoes
  <2> HIDE DEF t
  <2>3. to.path = <<"/">> \o t /\ to.form = from.form /\ to.query = from.query
    BY <2>1
  <2> QED  BY <1>2, <2>1, <2>2, <2>3 DEF Core, Normalize, t
<1>3. CASE from.form \in {"origin", "absolute"} /\ mode # "trim"
  <2>1. to = append_trailing_slash(from)
    BY <1>3 DEF Normalize
  <2>2. /\ to = [form |-> from.form, path |-> to.path, query |-> from.query]
        /\ trim_matches(to.path) = trim_matches(from.path)
        /\ ends_with_slash(to.path) /\ ~ ends_with_slashes(to.path)
    BY <1>3, <2>1, AppendModeIsRight
  <2>3. append_trailing_slash(to) = to
    BY <2>2 DEF append_trailing_slash
  <2>4. to.form = from.form /\ to.query = from.query
    BY <2>2
  <2> QED  BY <1>3, <2>2, <2>3, <2>4 DEF Core, Normalize
<1> QED  BY <1>1, <1>2, <1>3, UriParts

-----------------------------------------------------------------------------
LEMMA RecordIsResult ==
  ASSUME NEW k, NEW s, NEW h, NEW i, NEW b
  PROVE  IsResult([kind |-> k, status |-> s, headers |-> h, id |-> i, body |-> b])
  BY DEF IsResult

LEMMA NoResponseWith ==
  ASSUME NEW k, NEW s, NEW b
  PROVE  /\ [NoResponse EXCEPT !.kind = k, !.body = b] =
              [kind |-> k, status |-> 0, headers |-> NoHeaders, id |-> Absent, body |-> b]
         /\ [NoResponse EXCEPT !.kind = k, !.status = s, !.body = b] =
              [kind |-> k, status |-> s, headers |-> NoHeaders, id |-> Absent, body |-> b]
<1> DEFINE e == <<>>
           none == "none"
           R(x, y, z) == [kind |-> x, status |-> y, headers |-> NoHeaders, id |-> Absent,
                          body |-> z]
<1> HIDE DEF e, none
<1>1. NoResponse = R(none, 0, e)
  BY DEF NoResponse, e, none
<1>2. ASSUME NEW x, NEW y, NEW z
      PROVE  /\ [R(x, y, z) EXCEPT !.kind = k] = R(k, y, z)
             /\ [R(x, y, z) EXCEPT !.status = s] = R(x, s, z)
             /\ [R(x, y, z) EXCEPT !.body = b] = R(x, y, b)
  OBVIOUS
<1>3. ASSUME NEW r
      PROVE  /\ [r EXCEPT !.kind = k, !.body = b] = [[r EXCEPT !.kind = k] EXCEPT !.body = b]
             /\ [r EXCEPT !.kind = k, !.status = s, !.body = b] =
                  [[[r EXCEPT !.kind = k] EXCEPT !.status = s] EXCEPT !.body = b]
  OBVIOUS
<1> HIDE DEF R
<1>4. [NoResponse EXCEPT !.kind = k] = R(k, 0, e)
  BY <1>1, <1>2
<1>5. /\ [R(k, 0, e) EXCEPT !.body = b] = R(k, 0, b)
      /\ [R(k, 0, e) EXCEPT !.status = s] = R(k, s, e)
      /\ [R(k, s, e) EXCEPT !.body = b] = R(k, s, b)
  BY <1>2
<1>6. [NoResponse EXCEPT !.kind = k, !.body = b] = R(k, 0, b)
  BY <1>3, <1>4, <1>5
<1>7. [NoResponse EXCEPT !.kind = k, !.status = s, !.body = b] = R(k, s, b)
  BY <1>3, <1>4, <1>5
<1> QED  BY <1>6, <1>7 DEF R

LEMMA ResultShapes ==
  /\ IsResult(NoResult) /\ NoResult.kind = "none"
  /\ IsResult(Error) /\ Error.kind = "error"
  /\ \A w : IsResult(Panic(w)) /\ Panic(w).kind = "panic" /\ Panic(w).body[1] = w
<1>1. IsResult(NoResult) /\ NoResult.kind = "none"
  BY DEF IsResult, NoResult, NoResponse
<1>2. IsResult(Error) /\ Error.kind = "error"
  BY DEF IsResult, NoResponse, Error
<1>3. ASSUME NEW w
      PROVE  IsResult(Panic(w)) /\ Panic(w).kind = "panic" /\ Panic(w).body[1] = w
  <2>1. IsResult(Panic(w)) /\ Panic(w).kind = "panic" /\ Panic(w).body = <<w>>
    <3> DEFINE b == <<w>>
    <3> HIDE DEF b
    <3>1. Panic(w) = [NoResponse EXCEPT !.kind = "panic", !.body = b]
      BY DEF Panic, b
    <3>2. [NoResponse EXCEPT !.kind = "panic", !.body = b] =
            [kind |-> "panic", status |-> 0, headers |-> NoHeaders, id |-> Absent, body |-> b]
      BY NoResponseWith
    <3> QED  BY <3>1, <3>2, RecordIsResult DEF b
  <2> QED  BY <2>1
<1> QED  BY <1>1, <1>2, <1>3

(* A layer's call hands a request to the next layer.                       *)
LEMMA Forwarding ==
  ASSUME StackInv, phase = "call", NEW req, NEW k, Forward(req, k),
         IsRequest(req), req.uri \in Uris,
         Layer.kind = "normalize_path" => req.uri = Normalize(Layer.mode, Req.uri)
  PROVE  StackInv'
<1> DEFINE n == Len(calls)
<1>1. /\ calls' = Append(calls, req) /\ UNCHANGED <<layers, results, at>>
      /\ phase' = IF n = Len(layers) THEN "handle" ELSE "call"
  BY DEF Forward
<1>2. /\ Len(layers) \in Nat /\ IsSeq(calls) /\ n \in 1..Len(layers) /\ Bottom = Len(layers) + 1
      /\ at \in Nat /\ at < n
      /\ \A i \in 1..Bottom : results[i] = NoResult
  BY DEF StackInv, Shape, IsSeq, Bottom
<1>3. /\ IsSeq(calls') /\ Len(calls') = n + 1 /\ calls'[n + 1] = req
      /\ \A i \in 1..n : calls'[i] = calls[i]
  BY <1>1, <1>2, AppendIs
<1> HIDE DEF n
<1>4. Bottom' = Bottom /\ IsSeq(layers)' /\ NoResult' = NoResult
  BY <1>1 DEF StackInv, Shape, Bottom, IsSeq, NoResult
<1>5. Shape'
  <2>1. Len(calls') \in 1..Bottom /\ at' < Len(calls') /\ at' \in Nat
    BY <1>1, <1>2, <1>3
  <2>2. /\ phase' = "call" => Len(calls') < Bottom
        /\ phase' = "handle" => Len(calls') = Bottom
        /\ phase' \in {"call", "handle"}
    BY <1>1, <1>2, <1>3
  <2>3. /\ results' = [i \in 1..Bottom |-> results'[i]]
        /\ \A i \in 1..Bottom : IsResult(results'[i]) /\ results'[i] = NoResult
    BY <1>1, <1>2, ResultShapes DEF StackInv, Shape
  <2> QED  BY <1>3, <1>4, <2>1, <2>2, <2>3 DEF Shape, IsResult
<1>6. Messages'
  <2>1. ASSUME NEW i \in 1..(n + 1)
        PROVE  IsRequest(calls'[i]) /\ calls'[i].uri \in Uris
    <3>1. CASE i = n + 1
      BY <1>3, <3>1
    <3>2. CASE i # n + 1
      <4>1. i \in 1..n
        BY <1>2, <3>2
      <4> QED  BY <1>3, <4>1 DEF StackInv, Messages, n
    <3> QED  BY <3>1, <3>2
  <2> QED  BY <1>3, <2>1 DEF Messages, IsRequest
<1>7. Normal'
  <2> SUFFICES ASSUME NEW i \in 1..Len(layers), i < n + 1, layers[i].kind = "normalize_path"
               PROVE  calls'[i + 1].uri = Normalize(layers[i].mode, calls'[i].uri)
    BY <1>1, <1>3 DEF Normal
  <2>1. CASE i = n
    <3>1. calls'[i + 1] = req /\ calls'[i] = calls[n] /\ layers[i] = Layer /\ calls[n] = Req
      BY <1>2, <1>3, <2>1 DEF Layer, Req, n
    <3> QED  BY <3>1
  <2>2. CASE i # n
    <3>1. i < n /\ i \in 1..n /\ i + 1 \in 1..n
      BY <1>2, <2>2
    <3>2. calls'[i + 1] = calls[i + 1] /\ calls'[i] = calls[i]
      BY <1>3, <3>1
    <3> QED  BY <3>1, <3>2 DEF StackInv, Normal, n
  <2> QED  BY <2>1, <2>2
<1>8. Fates'
  BY <1>1 DEF Fates
<1> QED  BY <1>5, <1>6, <1>7, <1>8 DEF StackInv

\* The fate of a result depends on the stack only.
LEMMA FateKept ==
  ASSUME UNCHANGED layers
  PROVE  \A i, b, r : Fate(i, b, r)' <=> Fate(i, b, r)
<1> SUFFICES ASSUME NEW i, NEW b, NEW r
             PROVE  Fate(i, b, r)' <=> Fate(i, b, r)
  OBVIOUS
<1>1. Catchers(i)' = Catchers(i) /\ \A m : Outer(i, m)' = Outer(i, m)
  BY DEF Catchers, Outer
<1> QED  BY <1>1 DEF Fate

(* A layer or the handler answers.                                         *)
LEMMA Answering ==
  ASSUME StackInv, phase \in {"call", "handle"}, NEW res, Answer(res), IsResult(res),
         phase = "handle" => Fate(Bottom, res, res)
  PROVE  StackInv'
<1> DEFINE n == Len(calls)
<1>1. /\ UNCHANGED <<layers, calls>> /\ phase' = "poll"
      /\ results' = [results EXCEPT ![n] = res] /\ at' = n - 1
  BY DEF Answer
<1>2. /\ Len(layers) \in Nat /\ n \in 1..Bottom /\ Bottom \in Nat
      /\ results = [i \in 1..Bottom |-> results[i]]
      /\ \A i \in 1..Bottom : results[i] = NoResult
  <2>1. Shape /\ phase # "poll"
    BY DEF StackInv
  <2>2. Len(layers) \in Nat /\ Bottom = Len(layers) + 1
    BY <2>1 DEF Shape, IsSeq, Bottom
  <2>3. \A i \in 1..Bottom : results[i] = NoResult
    BY <2>1 DEF Shape
  <2> QED  BY <2>1, <2>2, <2>3 DEF Shape
<1>3. Bottom' = Bottom /\ Len(calls') = n /\ NoResult' = NoResult
  BY <1>1 DEF Bottom, NoResult
<1> HIDE DEF n
<1>4. /\ results' = [i \in 1..Bottom |-> results'[i]]
      /\ results'[n] = res
      /\ \A i \in 1..Bottom : i # n => results'[i] = NoResult
  BY <1>1, <1>2
<1>5. Shape'
  <2>1. \A i \in 1..Bottom : IsResult(results'[i])
    BY <1>4, ResultShapes
  <2>2. at' \in Nat /\ at' < n
    BY <1>1, <1>2
  <2>3. \A i \in 1..Bottom : i <= at' => results'[i] = NoResult
    BY <1>2, <1>4, <2>2
  <2>4. IsSeq(layers)' /\ IsSeq(calls)'
    BY <1>1 DEF StackInv, Shape, IsSeq
  <2> QED  BY <1>1, <1>2, <1>3, <1>4, <2>1, <2>2, <2>3, <2>4 DEF Shape, IsResult
<1>6. Messages' /\ Normal'
  BY <1>1 DEF StackInv, Messages, Normal, IsRequest
<1>7. Fates'
  <2> SUFFICES ASSUME n = Bottom, NEW i \in (at' + 1)..Bottom
               PROVE  Fate(i, results'[Bottom], results'[i])
    BY <1>1, <1>3, FateKept DEF Fates
  <2>1. i = Bottom
    BY <1>1, <1>2
  <2>2. phase = "handle"
    BY DEF StackInv, Shape, n
  <2> QED  BY <1>4, <2>1, <2>2
<1> QED  BY <1>5, <1>6, <1>7 DEF StackInv

(* The future of a layer hands a result back.                              *)
LEMMA Yielding ==
  ASSUME StackInv, phase = "poll", at > 0, NEW res, Yield(res), IsResult(res),
         Len(calls) = Bottom => Fate(at, results[Bottom], res)
  PROVE  StackInv'
<1>1. /\ UNCHANGED <<layers, calls, phase>>
      /\ results' = [results EXCEPT ![at] = res] /\ at' = at - 1
  BY DEF Yield
<1>2. /\ Len(layers) \in Nat /\ Len(calls) \in 1..Bottom /\ Bottom = Len(layers) + 1
      /\ results = [i \in 1..Bottom |-> results[i]]
      /\ at \in 1..Len(layers) /\ at < Len(calls)
      /\ \A i \in 1..Bottom : IsResult(results[i])
      /\ \A i \in 1..Bottom : i <= at => results[i] = NoResult
  <2>1. Shape
    BY DEF StackInv
  <2>2. Len(layers) \in Nat /\ Bottom = Len(layers) + 1
    BY <2>1 DEF Shape, IsSeq, Bottom
  <2>3. Len(calls) \in 1..Bottom /\ at \in Nat /\ at < Len(calls)
    BY <2>1 DEF Shape
  <2>4. at \in 1..Len(layers)
    BY <2>2, <2>3
  <2>5. \A i \in 1..Bottom : IsResult(results[i]) /\ (i <= at => results[i] = NoResult)
    BY <2>1 DEF Shape
  <2> QED  BY <2>1, <2>2, <2>3, <2>4, <2>5 DEF Shape
<1>3. Bottom' = Bottom /\ Len(calls') = Len(calls) /\ NoResult' = NoResult
  BY <1>1 DEF Bottom, NoResult
<1>4. /\ results' = [i \in 1..Bottom |-> results'[i]]
      /\ results'[at] = res
      /\ \A i \in 1..Bottom : i # at => results'[i] = results[i]
  <2>1. DOMAIN results = 1..Bottom /\ at \in 1..Bottom
    BY <1>2
  <2>2. results'[at] = res /\ \A i \in 1..Bottom : i # at => results'[i] = results[i]
    BY <1>1, <2>1
  <2>3. results' = [i \in 1..Bottom |-> results'[i]]
    BY <1>1, <2>1
  <2> QED  BY <2>2, <2>3
<1>5. Shape'
  <2>1. \A i \in 1..Bottom : IsResult(results'[i])
    BY <1>2, <1>4
  <2>2. at' \in Nat /\ at' < Len(calls')
    BY <1>1, <1>2
  <2>3. \A i \in 1..Bottom : i <= at' => results'[i] = NoResult
    BY <1>1, <1>2, <1>4
  <2>4. IsSeq(layers)' /\ IsSeq(calls)'
    BY <1>1 DEF StackInv, Shape, IsSeq
  <2> QED  BY <1>1, <1>2, <1>3, <1>4, <2>1, <2>2, <2>3, <2>4 DEF Shape, IsResult
<1>6. Messages' /\ Normal'
  BY <1>1 DEF StackInv, Messages, Normal, IsRequest
<1>7. Fates'
  <2> SUFFICES ASSUME Len(calls) = Bottom, NEW i \in (at' + 1)..Bottom
               PROVE  Fate(i, results'[Bottom], results'[i])
    BY <1>1, <1>3, FateKept DEF Fates
  <2>1. results'[Bottom] = results[Bottom]
    BY <1>2, <1>4
  <2>2. CASE i = at
    BY <1>4, <2>1, <2>2
  <2>3. CASE i # at
    <3>1. i \in (at + 1)..Bottom /\ i \in 1..Bottom
      BY <1>1, <1>2, <2>3
    <3>2. Fate(i, results[Bottom], results[i])
      BY <3>1 DEF StackInv, Fates
    <3> QED  BY <1>4, <2>1, <2>3, <3>1, <3>2
  <2> QED  BY <2>2, <2>3
<1> QED  BY <1>5, <1>6, <1>7 DEF StackInv

-----------------------------------------------------------------------------
(* What the layers make of a request: all but NormalizePath keep its URI.  *)
LEMMA RequestShapes ==
  ASSUME NEW q, IsRequest(q), NEW x
  PROVE  /\ IsRequest([q EXCEPT !.headers = x]) /\ [q EXCEPT !.headers = x].uri = q.uri
         /\ IsRequest([q EXCEPT !.id = x]) /\ [q EXCEPT !.id = x].uri = q.uri
         /\ IsRequest([q EXCEPT !.extension = x]) /\ [q EXCEPT !.extension = x].uri = q.uri
         /\ IsRequest([q EXCEPT !.wraps = x]) /\ [q EXCEPT !.wraps = x].uri = q.uri
         /\ IsRequest([q EXCEPT !.uri = x]) /\ [q EXCEPT !.uri = x].uri = x
  BY DEF IsRequest

LEMMA CallStep ==
  ASSUME StackInv,
         \/ CallSetRequestId \/ CallPropagateRequestId \/ CallPropagateHeader
         \/ CallSetRequestHeader \/ CallSensitiveRequest \/ CallAddAuthorization
         \/ CallAddExtension \/ CallNormalizePath \/ CallMapRequestBody \/ CallOther
  PROVE  StackInv'
<1>1. phase = "call"
  BY DEF Calling, CallSetRequestId, CallPropagateRequestId, CallPropagateHeader,
         CallSetRequestHeader, CallSensitiveRequest, CallAddAuthorization, CallAddExtension,
         CallNormalizePath, CallMapRequestBody, CallOther
<1>2. IsRequest(Req) /\ Req.uri \in Uris
  <2>1. Len(calls) \in 1..Len(calls)
    BY DEF StackInv, Shape
  <2> QED  BY <2>1 DEF StackInv, Messages, Req
<1>3. ASSUME NEW req, NEW k, Forward(req, k), IsRequest(req), req.uri = Req.uri,
             Layer.kind # "normalize_path"
      PROVE  StackInv'
  BY <1>1, <1>2, <1>3, Forwarding
<1>4. CASE CallSetRequestId
  <2>1. PICK made : Forward(SetRequestId(Layer, Req, made), <<>>)
    BY <1>4 DEF CallSetRequestId
  <2> DEFINE new == SetRequestId(Layer, Req, made)
             h == insert(Req.headers, Layer.header, Plain(made))
  <2>2. \/ new = Req
        \/ \E x : new = [Req EXCEPT !.id = x]
        \/ new = [Req EXCEPT !.id = made, !.headers = h]
    BY DEF SetRequestId
  <2>3. IsRequest(new) /\ new.uri = Req.uri
    <3> HIDE DEF new, h
    <3>1. CASE new = Req
      BY <1>2, <3>1
    <3>2. CASE \E x : new = [Req EXCEPT !.id = x]
      <4>1. PICK x : new = [Req EXCEPT !.id = x]
        BY <3>2
      <4> QED  BY <1>2, <4>1, RequestShapes
    <3>3. CASE new = [Req EXCEPT !.id = made, !.headers = h]
      <4> DEFINE r == [Req EXCEPT !.id = made]
      <4>1. IsRequest(r) /\ r.uri = Req.uri
        BY <1>2, RequestShapes
      <4>2. new = [r EXCEPT !.headers = h]
        BY <3>3
      <4> HIDE DEF r
      <4> QED  BY <4>1, <4>2, RequestShapes
    <3> QED  BY <2>2, <3>1, <3>2, <3>3
  <2>4. Layer.kind # "normalize_path"
    BY <1>4 DEF CallSetRequestId, Calling
  <2> QED  BY <1>3, <2>1, <2>3, <2>4
<1>5. CASE CallPropagateRequestId
  BY <1>2, <1>3, <1>5 DEF CallPropagateRequestId, Calling
<1>6. CASE CallPropagateHeader
  BY <1>2, <1>3, <1>6 DEF CallPropagateHeader, Calling
<1>7. CASE CallSetRequestHeader
  BY <1>2, <1>3, <1>7, RequestShapes DEF CallSetRequestHeader, Calling, SetRequestHeader
<1>8. CASE CallSensitiveRequest
  BY <1>2, <1>3, <1>8, RequestShapes
     DEF CallSensitiveRequest, Calling, SetSensitiveRequestHeaders
<1>9. CASE CallAddAuthorization
  BY <1>2, <1>3, <1>9, RequestShapes DEF CallAddAuthorization, Calling, AddAuthorization
<1>10. CASE CallAddExtension
  BY <1>2, <1>3, <1>10, RequestShapes DEF CallAddExtension, Calling, AddExtension
<1>11. CASE CallNormalizePath
  <2> DEFINE new == Normalize(Layer.mode, Req.uri)
             req == [Req EXCEPT !.uri = new]
  <2>1. Forward(req, <<>>)
    BY <1>11 DEF CallNormalizePath
  <2>2. new \in Uris
    BY <1>2, NormalizeGivesUri
  <2>3. IsRequest(req) /\ req.uri = new
    <3> HIDE DEF new
    <3> QED  BY <1>2, RequestShapes
  <2> HIDE DEF req
  <2> QED  BY <1>1, <2>1, <2>2, <2>3, Forwarding
<1>12. CASE CallMapRequestBody
  BY <1>2, <1>3, <1>12, RequestShapes DEF CallMapRequestBody, Calling, MapRequestBody
<1>13. CASE CallOther
  BY <1>2, <1>3, <1>13 DEF CallOther, Calling
<1> QED  BY <1>4, <1>5, <1>6, <1>7, <1>8, <1>9, <1>10, <1>11, <1>12, <1>13

LEMMA ResponseShapes ==
  ASSUME NEW r, IsResult(r), NEW x
  PROVE  /\ IsResult([r EXCEPT !.headers = x])
         /\ [r EXCEPT !.headers = x].kind = r.kind /\ [r EXCEPT !.headers = x].status = r.status
         /\ IsResult([r EXCEPT !.id = x])
         /\ [r EXCEPT !.id = x].kind = r.kind /\ [r EXCEPT !.id = x].status = r.status
         /\ IsResult([r EXCEPT !.body = x])
         /\ [r EXCEPT !.body = x].kind = r.kind /\ [r EXCEPT !.body = x].status = r.status
         /\ IsResult([r EXCEPT !.status = x])
         /\ [r EXCEPT !.status = x].kind = r.kind /\ [r EXCEPT !.status = x].status = x
  BY DEF IsResult

LEMMA TextShapes ==
  /\ \A s, b : IsResult(Response(s, b)) /\ Response(s, b).kind = "response"
               /\ Response(s, b).status = s
  /\ \A s, t : IsResult(TextResponse(s, t)) /\ TextResponse(s, t).kind = "response"
               /\ TextResponse(s, t).status = s
<1>1. ASSUME NEW s, NEW b
      PROVE  IsResult(Response(s, b)) /\ Response(s, b).kind = "response"
             /\ Response(s, b).status = s
  <2>1. Response(s, b) =
          [kind |-> "response", status |-> s, headers |-> NoHeaders, id |-> Absent, body |-> b]
    BY NoResponseWith DEF Response
  <2> QED  BY <2>1, RecordIsResult
<1>2. ASSUME NEW s, NEW t
      PROVE  IsResult(TextResponse(s, t)) /\ TextResponse(s, t).kind = "response"
             /\ TextResponse(s, t).status = s
  <2> DEFINE b == <<t>>
             r == Response(s, b)
             h == insert(r.headers, "content-type", Plain("text/plain"))
  <2>1. TextResponse(s, t) = [r EXCEPT !.headers = h]
    BY DEF TextResponse
  <2> HIDE DEF b
  <2>2. IsResult(r) /\ r.kind = "response" /\ r.status = s
    BY <1>1
  <2> HIDE DEF r, h
  <2>3. /\ IsResult([r EXCEPT !.headers = h])
        /\ [r EXCEPT !.headers = h].kind = r.kind /\ [r EXCEPT !.headers = h].status = r.status
    BY <2>2, ResponseShapes
  <2> QED  BY <2>1, <2>2, <2>3
<1> QED  BY <1>1, <1>2

(* The gates forward the request or answer it.                             *)
LEMMA GateStep ==
  ASSUME StackInv, CallValidate \/ CallLimit
  PROVE  StackInv'
<1>1. phase = "call" /\ Layer.kind # "normalize_path"
  BY DEF Calling, CallValidate, CallLimit
<1>2. IsRequest(Req) /\ Req.uri \in Uris
  <2>1. Len(calls) \in 1..Len(calls)
    BY DEF StackInv, Shape
  <2> QED  BY <2>1 DEF StackInv, Messages, Req
<1>3. \/ Forward(Req, <<>>)
      \/ Forward(RequestBodyLimit(Layer, Req), <<>>)
      \/ Answer(Refusal(Layer))
      \/ Answer(create_error_response)
  BY DEF CallValidate, CallLimit
<1>4. IsRequest(RequestBodyLimit(Layer, Req)) /\ RequestBodyLimit(Layer, Req).uri = Req.uri
  BY <1>2, RequestShapes DEF RequestBodyLimit
<1>5. IsResult(Refusal(Layer)) /\ IsResult(create_error_response)
  BY TextShapes, ResponseShapes DEF Refusal, create_error_response
<1>6. CASE Forward(Req, <<>>) \/ Forward(RequestBodyLimit(Layer, Req), <<>>)
  BY <1>1, <1>2, <1>4, <1>6, Forwarding
<1>7. CASE Answer(Refusal(Layer)) \/ Answer(create_error_response)
  BY <1>1, <1>5, <1>7, Answering
<1> QED  BY <1>3, <1>6, <1>7

(* The handler.                                                            *)
LEMMA HandlerStep ==
  ASSUME StackInv, ReadBody \/ Responds \/ Fails \/ Panics \/ RedirectResponds
  PROVE  StackInv'
<1>1. phase = "handle"
  BY DEF ReadBody, Responds, Fails, Panics, RedirectResponds, Handling
<1>2. ASSUME NEW res, Answer(res), IsResult(res), Fate(Bottom, res, res)
      PROVE  StackInv'
  BY <1>1, <1>2, Answering
<1>3. ASSUME NEW res, res.kind = "response"
      PROVE  Fate(Bottom, res, res)
  BY <1>3 DEF Fate
<1>4. CASE ReadBody
  <2>1. UNCHANGED <<layers, calls, results, phase, at>>
    BY <1>4 DEF ReadBody
  <2>2. Shape' /\ Messages' /\ Normal'
    BY <2>1 DEF StackInv, Shape, Messages, Normal, IsSeq, IsRequest, IsResult, Bottom,
                NoResult
  <2>3. Fates'
    BY <1>1, <2>1 DEF Fates
  <2> QED  BY <2>2, <2>3 DEF StackInv
<1>5. CASE Responds
  <2>1. PICK res \in Answers : Answer(res)
    BY <1>5 DEF Responds
  <2>2. IsResult(res) /\ res.kind = "response"
    BY StackAssumption DEF ResponseType, IsResult
  <2> QED  BY <1>2, <1>3, <2>1, <2>2
<1>6. CASE Fails
  <2>1. Fate(Bottom, Error, Error)
    BY DEF Fate
  <2> QED  BY <1>2, <1>6, <2>1, ResultShapes DEF Fails
<1>7. CASE Panics
  <2>1. PICK where \in {"call", "poll"} : Answer(Panic(where))
    BY <1>7 DEF Panics
  <2>2. Catchers(Bottom) = {}
    <3>1. Len(layers) \in Nat
      BY DEF StackInv, Shape, IsSeq
    <3>2. Bottom..Len(layers) = {}
      BY <3>1 DEF Bottom
    <3> QED  BY <3>2 DEF Catchers
  <2>3. Fate(Bottom, Panic(where), Panic(where))
    BY <2>2 DEF Fate
  <2> QED  BY <1>2, <2>1, <2>3, ResultShapes
<1>8. CASE RedirectResponds
  <2> DEFINE r == Response(307, <<>>)
             h == insert(r.headers, "location", Plain("/there"))
             res == [r EXCEPT !.headers = h]
  <2>1. Answer(res)
    BY <1>8 DEF RedirectResponds
  <2>2. IsResult(r) /\ r.kind = "response"
    BY TextShapes
  <2> HIDE DEF r, h
  <2>3. IsResult(res) /\ res.kind = "response"
    BY <2>2, ResponseShapes
  <2> HIDE DEF res
  <2> QED  BY <1>2, <1>3, <2>1, <2>3
<1> QED  BY <1>4, <1>5, <1>6, <1>7, <1>8

-----------------------------------------------------------------------------
(* The stack from layer i on, compared with the stack from i + 1 on.       *)
LEMMA OneMore ==
  ASSUME Len(layers) \in Nat, NEW i \in 1..Len(layers)
  PROVE  /\ Catchers(i) = IF layers[i].kind = "catch_panic" THEN Catchers(i + 1) \cup {i}
                          ELSE Catchers(i + 1)
         /\ \A m : Outer(i, m) = IF layers[i].kind = "set_status" /\ i < m
                                   THEN Outer(i + 1, m) \cup {i}
                                   ELSE Outer(i + 1, m)
<1>1. i..Len(layers) = ((i + 1)..Len(layers)) \cup {i}
  OBVIOUS
<1>2. i \notin (i + 1)..Len(layers)
  OBVIOUS
<1> HIDE DEF Catchers, Outer
<1>3. Catchers(i) = IF layers[i].kind = "catch_panic" THEN Catchers(i + 1) \cup {i}
                    ELSE Catchers(i + 1)
  BY <1>1, <1>2 DEF Catchers
<1>4. ASSUME NEW m
      PROVE  Outer(i, m) = IF layers[i].kind = "set_status" /\ i < m
                             THEN Outer(i + 1, m) \cup {i}
                             ELSE Outer(i + 1, m)
  BY <1>1, <1>2 DEF Outer
<1> QED  BY <1>3, <1>4

LEMMA InBounds ==
  ASSUME Len(layers) \in Nat, NEW i \in 1..Len(layers)
  PROVE  /\ Catchers(i + 1) \subseteq (i + 1)..Len(layers)
         /\ \A m : Outer(i + 1, m) \subseteq (i + 1)..Len(layers)
  BY DEF Catchers, Outer

Panicked(b) == b \in {Panic("call"), Panic("poll")}

(* What Fate says when the handler panicked and the panic was caught.      *)
Rescued(i, r) ==
  /\ r.kind = "response"
  /\ \E m \in 1..Len(layers) :
       /\ IsMax(m, Catchers(i))
       /\ \/ Outer(i, m) = {} /\ r.status = 500
          \/ \E n \in 1..Len(layers) :
               IsMin(n, Outer(i, m)) /\ r.status = layers[n].status

LEMMA FateCases ==
  ASSUME NEW i, NEW b, NEW r
  PROVE  Fate(i, b, r) <=>
           \/ b = Error /\ r = Error
           \/ b.kind = "response" /\ r.kind = "response"
           \/ Panicked(b) /\ Catchers(i) = {} /\ r = b
           \/ Panicked(b) /\ Rescued(i, r)
  BY DEF Fate, Rescued, Panicked

LEMMA PanicParts ==
  ASSUME NEW b, Panicked(b)
  PROVE  b.kind = "panic" /\ Caught(b)
  BY ResultShapes DEF Panicked, Caught

(* A layer that keeps the status of responses and passes the rest.         *)
LEMMA FatePasses ==
  ASSUME Len(layers) \in Nat, NEW i \in 1..Len(layers), NEW b, NEW x, NEW r,
         Fate(i + 1, b, x), layers[i].kind \notin {"catch_panic", "set_status"},
         IF x.kind = "response" THEN r.kind = "response" /\ r.status = x.status ELSE r = x
  PROVE  Fate(i, b, r)
<1>1. Catchers(i) = Catchers(i + 1) /\ \A m : Outer(i, m) = Outer(i + 1, m)
  BY OneMore
<1>2. CASE b = Error /\ x = Error
  BY <1>2, FateCases, ResultShapes
<1>3. CASE b.kind = "response" /\ x.kind = "response"
  BY <1>3, FateCases
<1>4. CASE Panicked(b) /\ Catchers(i + 1) = {} /\ x = b
  BY <1>1, <1>4, FateCases, PanicParts
<1>5. CASE Panicked(b) /\ Rescued(i + 1, x)
  <2>1. Rescued(i, r)
    BY <1>1, <1>5 DEF Rescued
  <2> QED  BY <1>5, <2>1, FateCases
<1> QED  BY <1>2, <1>3, <1>4, <1>5, FateCases

(* SetStatus: the outermost one has the last word.                         *)
LEMMA FateSetStatus ==
  ASSUME Len(layers) \in Nat, NEW i \in 1..Len(layers), NEW b, NEW x, NEW r,
         Fate(i + 1, b, x), layers[i].kind = "set_status",
         IF x.kind = "response" THEN r.kind = "response" /\ r.status = layers[i].status
         ELSE r = x
  PROVE  Fate(i, b, r)
<1>1. /\ Catchers(i) = Catchers(i + 1)
      /\ \A m : i < m => Outer(i, m) = Outer(i + 1, m) \cup {i}
  BY OneMore
<1>2. CASE b = Error /\ x = Error
  BY <1>2, FateCases, ResultShapes
<1>3. CASE b.kind = "response" /\ x.kind = "response"
  BY <1>3, FateCases
<1>4. CASE Panicked(b) /\ Catchers(i + 1) = {} /\ x = b
  BY <1>1, <1>4, FateCases, PanicParts
<1>5. CASE Panicked(b) /\ Rescued(i + 1, x)
  <2>1. PICK m \in 1..Len(layers) : IsMax(m, Catchers(i + 1))
    BY <1>5 DEF Rescued
  <2>2. i < m
    BY <2>1, InBounds DEF IsMax
  <2>3. IsMin(i, Outer(i, m))
    BY <1>1, <2>2, InBounds DEF IsMin
  <2>4. Rescued(i, r)
    BY <1>1, <1>5, <2>1, <2>3 DEF Rescued
  <2> QED  BY <1>5, <2>4, FateCases
<1> QED  BY <1>2, <1>3, <1>4, <1>5, FateCases

(* CatchPanic: the innermost one catches.                                  *)
LEMMA FateCatchPanic ==
  ASSUME Len(layers) \in Nat, NEW i \in 1..Len(layers), NEW b, NEW x, NEW r,
         Fate(i + 1, b, x), layers[i].kind = "catch_panic",
         r = IF Caught(x) THEN response_for_panic ELSE x
  PROVE  Fate(i, b, r)
<1>1. /\ Catchers(i) = Catchers(i + 1) \cup {i}
      /\ \A m : Outer(i, m) = Outer(i + 1, m)
  BY OneMore
<1>2. CASE b = Error /\ x = Error
  BY <1>2, FateCases, ResultShapes DEF Caught
<1>3. CASE b.kind = "response" /\ x.kind = "response"
  BY <1>3, FateCases DEF Caught
<1>4. CASE Panicked(b) /\ Catchers(i + 1) = {} /\ x = b
  <2>1. r = response_for_panic
    BY <1>4, PanicParts
  <2>2. r.kind = "response" /\ r.status = 500
    <3> DEFINE t == "Service panicked"
    <3>1. r = TextResponse(500, t)
      BY <2>1 DEF response_for_panic
    <3> HIDE DEF t
    <3>2. TextResponse(500, t).kind = "response" /\ TextResponse(500, t).status = 500
      BY TextShapes
    <3> QED  BY <3>1, <3>2
  <2>3. IsMax(i, Catchers(i))
    BY <1>1, <1>4 DEF IsMax
  <2>4. Outer(i, i) = {}
    BY DEF Outer
  <2>5. Rescued(i, r)
    BY <2>2, <2>3, <2>4 DEF Rescued
  <2> QED  BY <1>4, <2>5, FateCases
<1>5. CASE Panicked(b) /\ Rescued(i + 1, x)
  <2>1. r = x
    BY <1>5 DEF Rescued, Caught
  <2>2. PICK m \in 1..Len(layers) :
          /\ IsMax(m, Catchers(i + 1))
          /\ \/ Outer(i + 1, m) = {} /\ x.status = 500
             \/ \E n \in 1..Len(layers) :
                  IsMin(n, Outer(i + 1, m)) /\ x.status = layers[n].status
    BY <1>5 DEF Rescued
  <2>3. i < m
    BY <2>2, InBounds DEF IsMax
  <2>4. IsMax(m, Catchers(i))
    BY <1>1, <2>2, <2>3 DEF IsMax
  <2>5. Rescued(i, r)
    BY <1>1, <1>5, <2>1, <2>2, <2>4 DEF Rescued
  <2> QED  BY <1>5, <2>5, FateCases
<1> QED  BY <1>2, <1>3, <1>4, <1>5, FateCases

(* The layers' futures.                                                    *)
LEMMA PollStep ==
  ASSUME StackInv,
         \/ PollPropagateRequestId \/ PollPropagateHeader \/ PollSetResponseHeader
         \/ PollSensitiveResponse \/ PollMapResponseBody \/ PollSetStatus
         \/ PollCatchPanic \/ PollOther
  PROVE  StackInv'
<1>1. phase = "poll" /\ at > 0
  BY DEF PollPropagateRequestId, PollPropagateHeader, PollSetResponseHeader,
         PollSensitiveResponse, PollMapResponseBody, PollSetStatus, PollCatchPanic,
         PollOther, OnResponse, Polling
<1>2. /\ Len(layers) \in Nat /\ at \in 1..Len(layers) /\ Bottom = Len(layers) + 1
      /\ IsResult(Inner)
  <2>1. Len(layers) \in Nat /\ Bottom = Len(layers) + 1
    BY DEF StackInv, Shape, IsSeq, Bottom
  <2>2. Len(calls) \in 1..Bottom /\ at \in Nat /\ at < Len(calls)
    BY DEF StackInv, Shape
  <2>3. at \in 1..Len(layers) /\ at + 1 \in 1..Bottom
    BY <1>1, <2>1, <2>2
  <2>4. IsResult(Inner)
    BY <2>3 DEF StackInv, Shape, Inner
  <2> QED  BY <2>1, <2>3, <2>4
<1>3. Len(calls) = Bottom => Fate(at + 1, results[Bottom], Inner)
  <2>1. at + 1 \in (at + 1)..Bottom
    BY <1>2
  <2> QED  BY <1>1, <2>1 DEF StackInv, Fates, Inner
<1>4. ASSUME NEW res, Yield(res), IsResult(res),
             layers[at].kind \notin {"catch_panic", "set_status"},
             IF Inner.kind = "response"
               THEN res.kind = "response" /\ res.status = Inner.status ELSE res = Inner
      PROVE  StackInv'
  <2>1. Len(calls) = Bottom => Fate(at, results[Bottom], res)
    BY <1>2, <1>3, <1>4, FatePasses
  <2> QED  BY <1>1, <1>4, <2>1, Yielding
<1>5. ASSUME NEW kind, NEW res, OnResponse(kind, res), kind \notin {"catch_panic", "set_status"},
             IsResult(res), res.kind = Inner.kind, res.status = Inner.status
      PROVE  StackInv'
  <2>1. layers[at].kind = kind
    BY <1>5 DEF OnResponse, Polling
  <2>2. CASE Inner.kind = "response"
    <3>1. Yield(res)
      BY <1>5, <2>2 DEF OnResponse
    <3> QED  BY <1>4, <1>5, <2>1, <2>2, <3>1
  <2>3. CASE Inner.kind # "response"
    <3>1. Yield(Inner)
      BY <1>5, <2>3 DEF OnResponse
    <3> QED  BY <1>2, <1>4, <1>5, <2>1, <2>3, <3>1
  <2> QED  BY <2>2, <2>3
<1>6. ASSUME NEW h
      PROVE  LET res == [Inner EXCEPT !.headers = h]
             IN IsResult(res) /\ res.kind = Inner.kind /\ res.status = Inner.status
  BY <1>2, ResponseShapes
<1>7. CASE PollPropagateRequestId
  <2> DEFINE res == PropagateRequestIdPoll(layers[at], kept[at], Inner)
             i == get(Inner.headers, layers[at].header)
             j == kept[at][1].text
             h == insert(Inner.headers, layers[at].header, kept[at][1])
  <2>1. OnResponse("propagate_request_id", res)
    BY <1>7 DEF PollPropagateRequestId
  <2>2. \/ res = Inner
        \/ res = [Inner EXCEPT !.id = i]
        \/ res = [Inner EXCEPT !.id = j, !.headers = h]
    BY DEF PropagateRequestIdPoll
  <2> HIDE DEF res, i, j, h
  <2>3. IsResult(res) /\ res.kind = Inner.kind /\ res.status = Inner.status
    <3>1. CASE res = Inner
      BY <1>2, <3>1
    <3>2. CASE res = [Inner EXCEPT !.id = i]
      BY <1>2, <3>2, ResponseShapes
    <3>3. CASE res = [Inner EXCEPT !.id = j, !.headers = h]
      <4> DEFINE r == [Inner EXCEPT !.id = j]
      <4>1. IsResult(r) /\ r.kind = Inner.kind /\ r.status = Inner.status
        BY <1>2, ResponseShapes
      <4>2. res = [r EXCEPT !.headers = h]
        BY <3>3
      <4> HIDE DEF r
      <4>3. /\ IsResult([r EXCEPT !.headers = h])
            /\ [r EXCEPT !.headers = h].kind = r.kind
            /\ [r EXCEPT !.headers = h].status = r.status
        BY <4>1, ResponseShapes
      <4> QED  BY <4>1, <4>2, <4>3
    <3> QED  BY <2>2, <3>1, <3>2, <3>3
  <2> QED  BY <1>5, <2>1, <2>3
<1>8. CASE PollPropagateHeader
  <2> DEFINE res == PropagateHeaderPoll(layers[at], kept[at], Inner)
             h == insert(Inner.headers, layers[at].header, kept[at][1])
  <2>1. OnResponse("propagate_header", res)
    BY <1>8 DEF PollPropagateHeader
  <2>2. res = Inner \/ res = [Inner EXCEPT !.headers = h]
    BY DEF PropagateHeaderPoll
  <2> HIDE DEF res, h
  <2> QED  BY <1>2, <1>5, <1>6, <2>1, <2>2
<1>9. CASE PollSetResponseHeader
  <2> DEFINE h == ApplyAll(Inner.headers, layers[at].insertions)
             res == [Inner EXCEPT !.headers = h]
  <2>1. OnResponse("set_response_header", res)
    BY <1>9 DEF PollSetResponseHeader, SetResponseHeader
  <2> HIDE DEF h
  <2>2. IsResult(res) /\ res.kind = Inner.kind /\ res.status = Inner.status
    BY <1>6
  <2> HIDE DEF res
  <2> QED  BY <1>5, <2>1, <2>2
<1>10. CASE PollSensitiveResponse
  <2> DEFINE h == Marked(Inner.headers, layers[at].headers)
             res == [Inner EXCEPT !.headers = h]
  <2>1. OnResponse("sensitive_response", res)
    BY <1>10 DEF PollSensitiveResponse, SetSensitiveResponseHeaders
  <2> HIDE DEF h
  <2>2. IsResult(res) /\ res.kind = Inner.kind /\ res.status = Inner.status
    BY <1>6
  <2> HIDE DEF res
  <2> QED  BY <1>5, <2>1, <2>2
<1>11. CASE PollMapResponseBody
  <2> DEFINE x == Append(Inner.body, "mapped")
             res == [Inner EXCEPT !.body = x]
  <2>1. OnResponse("map_response_body", res)
    BY <1>11 DEF PollMapResponseBody, MapResponseBody
  <2> HIDE DEF x
  <2>2. IsResult(res) /\ res.kind = Inner.kind /\ res.status = Inner.status
    BY <1>2, ResponseShapes
  <2> HIDE DEF res
  <2> QED  BY <1>5, <2>1, <2>2
<1>12. CASE PollSetStatus
  <2> DEFINE s == layers[at].status
             res == IF Inner.kind = "response" THEN [Inner EXCEPT !.status = s] ELSE Inner
  <2>1. layers[at].kind = "set_status" /\ Yield(res)
    BY <1>12 DEF PollSetStatus, SetStatus, OnResponse, Polling
  <2> HIDE DEF s
  <2>2. /\ IsResult(res)
        /\ IF Inner.kind = "response" THEN res.kind = "response" /\ res.status = s
           ELSE res = Inner
    BY <1>2, ResponseShapes
  <2> HIDE DEF res
  <2>3. Len(calls) = Bottom => Fate(at, results[Bottom], res)
    BY <1>2, <1>3, <2>1, <2>2, FateSetStatus DEF s
  <2> QED  BY <1>1, <2>1, <2>2, <2>3, Yielding
<1>13. CASE PollCatchPanic
  <2> DEFINE res == IF Caught(Inner) THEN response_for_panic ELSE Inner
  <2>1. layers[at].kind = "catch_panic" /\ Yield(res)
    BY <1>13 DEF PollCatchPanic, Polling
  <2>2. IsResult(response_for_panic)
    <3>1. \A t : IsResult(TextResponse(500, t))
      BY TextShapes
    <3> QED  BY <3>1, Zenon DEF response_for_panic
  <2>3. IsResult(res)
    BY <1>2, <2>2
  <2>4. Len(calls) = Bottom => Fate(at, results[Bottom], res)
    BY <1>2, <1>3, <2>1, FateCatchPanic
  <2> HIDE DEF res
  <2> QED  BY <1>1, <2>1, <2>3, <2>4, Yielding
<1>14. CASE PollOther
  <2>1. Yield(Inner) /\ layers[at].kind \notin {"catch_panic", "set_status"}
    BY <1>14 DEF PollOther, Polling
  <2> QED  BY <1>2, <1>4, <2>1
<1> QED  BY <1>7, <1>8, <1>9, <1>10, <1>11, <1>12, <1>13, <1>14

LEMMA InitIsSound == Init => StackInv
<1> SUFFICES ASSUME Init PROVE StackInv
  OBVIOUS
<1>1. PICK x \in Exchanges :
        layers = x.layers /\ handler = x.handler /\ calls = <<x.request>>
  BY DEF Init
<1>2. IsSeq(layers) /\ Len(layers) \in Nat
  <2>1. layers \in Seq(LayerType)
    BY <1>1, StackAssumption
  <2> QED  BY <2>1, LenProperties DEF IsSeq
<1>3. Len(calls) = 1 /\ calls[1] = x.request /\ IsSeq(calls)
  BY <1>1 DEF IsSeq
<1>4. IsRequest(x.request) /\ x.request.uri \in Uris
  <2>1. x.request \in RequestType
    BY StackAssumption
  <2> QED  BY <2>1 DEF RequestType, IsRequest
<1>5. phase \in {"call", "handle"} /\ at = 0
      /\ (phase = "handle" <=> Len(layers) = 0)
  BY <1>2 DEF Init, IsSeq
<1>6. /\ results = [i \in 1..Bottom |-> results[i]]
      /\ \A i \in 1..Bottom : results[i] = NoResult
  BY DEF Init
<1>7. Bottom = Len(layers) + 1
  BY DEF Bottom
<1>8. Shape
  <2>1. \A i \in 1..Bottom : IsResult(results[i])
    BY <1>6, ResultShapes
  <2> QED  BY <1>2, <1>3, <1>5, <1>6, <1>7, <2>1 DEF Shape
<1>9. Messages /\ Normal
  BY <1>2, <1>3, <1>4 DEF Messages, Normal
<1>10. Fates
  BY <1>5 DEF Fates
<1> QED  BY <1>8, <1>9, <1>10 DEF StackInv

LEMMA StutterStep ==
  ASSUME StackInv, UNCHANGED vars
  PROVE  StackInv'
<1>1. UNCHANGED <<layers, calls, results, phase, at>>
  BY DEF vars
<1>2. Shape' /\ Messages' /\ Normal'
  BY <1>1 DEF StackInv, Shape, Messages, Normal, IsSeq, IsRequest, IsResult, Bottom, NoResult
<1>3. Fates'
  BY <1>1, FateKept DEF StackInv, Fates, Bottom
<1> QED  BY <1>2, <1>3 DEF StackInv

LEMMA StepIsSound == StackInv /\ [Next]_vars => StackInv'
<1> SUFFICES ASSUME StackInv, [Next]_vars PROVE StackInv'
  OBVIOUS
<1> QED  BY CallStep, GateStep, HandlerStep, PollStep, StutterStep DEF Next, Over

(* The inductive invariant: messages keep their shape, every layer's call  *)
(* is in order, and every result on its way out is what PanicIsContained   *)
(* says of the part of the stack it came through.                          *)
THEOREM StackIsSound == Spec => []StackInv
  BY InitIsSound, StepIsSound, PTL DEF Spec

(* Whatever the stack and the path, a NormalizePath layer passes on a      *)
(* normal path: append_trailing_slash and trim_trailing_slash are          *)
(* idempotent and touch the outer slashes only.                            *)
THEOREM PathIsAlwaysNormal == Spec => []PathIsNormal
<1>1. StackInv => PathIsNormal
  <2> SUFFICES ASSUME StackInv, NEW i \in Of("normalize_path"),
                      i < Len(calls), calls[i].uri.form # "asterisk"
               PROVE  LET mode == layers[i].mode
                          from == calls[i].uri
                          to   == calls[i + 1].uri
                      IN /\ to.query = from.query /\ to.form = from.form
                         /\ Core(to.path) = Core(from.path)
                         /\ Normalize(mode, to) = to
                         /\ from.form = "authority" => to = from
                         /\ from.form # "authority" /\ mode = "trim" =>
                              to.path = <<"/">> \o Core(from.path)
                         /\ from.form # "authority" /\ mode = "append" =>
                              ends_with_slash(to.path) /\ ~ ends_with_slashes(to.path)
    BY DEF PathIsNormal
  <2>1. /\ i \in 1..Len(layers) /\ layers[i].kind = "normalize_path"
        /\ Len(calls) \in Nat
    <3>1. DOMAIN layers = 1..Len(layers) /\ Len(calls) \in Nat
      BY DEF StackInv, Shape, IsSeq
    <3> QED  BY <3>1 DEF Of
  <2>2. calls[i].uri \in Uris
    BY <2>1 DEF StackInv, Messages
  <2>3. calls[i + 1].uri = Normalize(layers[i].mode, calls[i].uri)
    BY <2>1 DEF StackInv, Normal
  <2> DEFINE mode == layers[i].mode
             from == calls[i].uri
             to   == calls[i + 1].uri
  <2>4. from \in Uris /\ from.form # "asterisk" /\ to = Normalize(mode, from)
    BY <2>2, <2>3
  <2> HIDE DEF mode, from, to
  <2>5. /\ to.query = from.query /\ to.form = from.form
        /\ Core(to.path) = Core(from.path)
        /\ Normalize(mode, to) = to
        /\ from.form = "authority" => to = from
        /\ from.form # "authority" /\ mode = "trim" => to.path = <<"/">> \o Core(from.path)
        /\ from.form # "authority" /\ mode = "append" =>
             ends_with_slash(to.path) /\ ~ ends_with_slashes(to.path)
    BY <2>4, NormalizeIsRight
  <2> QED  BY <2>5 DEF mode, from, to
<1> QED  BY <1>1, StackIsSound, PTL

(* However deep the stack: the innermost CatchPanic turns a panic of the   *)
(* inner call or future into a response, which only a SetStatus further    *)
(* out changes; without one the panic goes on, and errors always do.       *)
THEOREM PanicIsAlwaysContained == Spec => []PanicIsContained
<1>1. StackInv => PanicIsContained
  <2> SUFFICES ASSUME StackInv, results[1].kind # "none", Len(calls) = Bottom
               PROVE  PanicIsContained
    BY DEF PanicIsContained
  <2> DEFINE b == results[Bottom]
             r == results[1]
             C == Of("catch_panic")
             O == {i \in Of("set_status") : C # {} /\ i < Max(C)}
  <2>1. Len(layers) \in Nat /\ Bottom = Len(layers) + 1 /\ DOMAIN layers = 1..Len(layers)
    BY DEF StackInv, Shape, IsSeq, Bottom
  <2>2. phase = "poll" /\ at = 0
    <3>1. 1 \in 1..Bottom /\ results[1] # NoResult
      BY <2>1, ResultShapes
    <3>2. phase = "poll" /\ ~ (1 <= at) /\ at \in Nat
      BY <3>1 DEF StackInv, Shape
    <3> QED  BY <3>2
  <2>3. Fate(1, b, r)
    <3>1. 1 \in (at + 1)..Bottom
      BY <2>1, <2>2
    <3> QED  BY <2>2, <3>1 DEF StackInv, Fates
  <2>4. C = Catchers(1) /\ C \subseteq Nat
    BY <2>1 DEF Of, Catchers
  <2> HIDE DEF b, r, C, O
  <2>5. CASE b = Error /\ r = Error
    BY <2>5, ResultShapes DEF PanicIsContained, b, r
  <2>6. CASE b.kind = "response" /\ r.kind = "response"
    BY <2>6 DEF PanicIsContained, b, r
  <2>7. CASE Panicked(b) /\ Catchers(1) = {} /\ r = b
    <3>1. b.kind = "panic" /\ r.kind = "panic"
      BY <2>7, PanicParts
    <3> QED  BY <2>4, <2>7, <3>1 DEF PanicIsContained, b, r, C
  <2>8. CASE Panicked(b) /\ Rescued(1, r)
    <3>1. b.kind = "panic" /\ r.kind = "response"
      BY <2>8, PanicParts DEF Rescued
    <3>2. PICK m \in 1..Len(layers) :
            /\ IsMax(m, Catchers(1))
            /\ \/ Outer(1, m) = {} /\ r.status = 500
               \/ \E n \in 1..Len(layers) :
                    IsMin(n, Outer(1, m)) /\ r.status = layers[n].status
      BY <2>8 DEF Rescued
    <3>3. Max(C) = m /\ C # {}
      BY <2>4, <3>2, MaxIs DEF IsMax
    <3>4. O = Outer(1, m)
      BY <2>1, <3>3 DEF O, Of, Outer
    <3>5. r.status = IF O = {} THEN 500 ELSE layers[Min(O)].status
      <4>1. CASE Outer(1, m) = {} /\ r.status = 500
        BY <3>4, <4>1
      <4>2. CASE \E n \in 1..Len(layers) :
                   IsMin(n, Outer(1, m)) /\ r.status = layers[n].status
        <5>1. PICK n \in 1..Len(layers) :
                IsMin(n, Outer(1, m)) /\ r.status = layers[n].status
          BY <4>2
        <5>2. O \subseteq Nat
          BY <3>4 DEF Outer
        <5>3. Min(O) = n /\ O # {}
          BY <3>4, <5>1, <5>2, MinIs DEF IsMin
        <5> QED  BY <5>1, <5>3
      <4> QED  BY <3>2, <4>1, <4>2
    <3> QED  BY <3>1, <3>3, <3>5 DEF PanicIsContained, b, r, C, O
  <2> QED  BY <2>3, <2>5, <2>6, <2>7, <2>8, FateCases
<1> QED  BY <1>1, StackIsSound, PTL

-----------------------------------------------------------------------------
(* Induction on numbers, with a set for the property: the provers cannot   *)
(* instantiate an operator.                                                *)
LEMMA FromZero ==
  ASSUME NEW S, 0 \in S, \A n \in Nat : n \in S => n + 1 \in S
  PROVE  \A n \in Nat : n \in S
<1> DEFINE T == {n \in Nat : n \notin S}
<1> SUFFICES ASSUME T # {} PROVE FALSE
  OBVIOUS
<1>1. T \subseteq Nat
  OBVIOUS
<1>2. PICK m : IsMin(m, T)
  BY <1>1, LeastExists
<1>3. m \in Nat /\ m \notin S /\ \A x \in T : m <= x
  BY <1>2 DEF IsMin
<1>4. m - 1 \in Nat /\ (m - 1) + 1 = m /\ ~ (m <= m - 1)
  BY <1>3
<1>5. m - 1 \in S
  BY <1>3, <1>4
<1> QED  BY <1>3, <1>4, <1>5

LEMMA UpTo ==
  ASSUME NEW a \in Int, NEW b \in Int, NEW S, a \in S,
         \A n \in a..(b - 1) : n \in S => n + 1 \in S
  PROVE  \A n \in a..b : n \in S
<1> DEFINE T == {n \in Nat : a + n <= b => a + n \in S}
<1>1. 0 \in T
  OBVIOUS
<1>2. ASSUME NEW n \in Nat, n \in T
      PROVE  n + 1 \in T
  <2> SUFFICES ASSUME a + (n + 1) <= b PROVE a + (n + 1) \in S
    OBVIOUS
  <2>1. a + n \in a..(b - 1) /\ (a + n) + 1 = a + (n + 1)
    OBVIOUS
  <2>2. a + n \in S
    BY <1>2, <2>1
  <2> QED  BY <2>1, <2>2
<1>3. \A n \in Nat : n \in T
  <2> HIDE DEF T
  <2> QED  BY <1>1, <1>2, FromZero
<1>4. ASSUME NEW n \in a..b
      PROVE  n \in S
  <2>1. n - a \in Nat /\ a + (n - a) = n
    OBVIOUS
  <2> QED  BY <1>3, <2>1
<1> QED  BY <1>4

LEMMA DownTo ==
  ASSUME NEW a \in Int, NEW b \in Int, NEW S, b \in S,
         \A n \in a..(b - 1) : n + 1 \in S => n \in S
  PROVE  \A n \in a..b : n \in S
<1> DEFINE T == {n \in Nat : b - n >= a => b - n \in S}
<1>1. 0 \in T
  OBVIOUS
<1>2. ASSUME NEW n \in Nat, n \in T
      PROVE  n + 1 \in T
  <2> SUFFICES ASSUME b - (n + 1) >= a PROVE b - (n + 1) \in S
    OBVIOUS
  <2>1. b - (n + 1) \in a..(b - 1) /\ (b - (n + 1)) + 1 = b - n
    OBVIOUS
  <2>2. b - n \in S
    BY <1>2, <2>1
  <2> QED  BY <2>1, <2>2
<1>3. \A n \in Nat : n \in T
  <2> HIDE DEF T
  <2> QED  BY <1>1, <1>2, FromZero
<1>4. ASSUME NEW n \in a..b
      PROVE  n \in S
  <2>1. b - n \in Nat /\ b - (b - n) = n
    OBVIOUS
  <2> QED  BY <1>3, <2>1
<1> QED  BY <1>4

(* The recursive functions of the model exist, and are what they say.      *)
LEMMA ApplyAllIs ==
  ASSUME NEW x, NEW ins, Len(ins) \in Nat
  PROVE  \E f : /\ f[0] = x /\ ApplyAll(x, ins) = f[Len(ins)]
                /\ \A n \in 1..Len(ins) : f[n] = ApplyOne(f[n - 1], ins[n])
<1> DEFINE Good(f, m) == f[0] = x /\ \A n \in 1..m : f[n] = ApplyOne(f[n - 1], ins[n])
           S == {m \in Nat : \E f : Good(f, m)}
<1>1. 0 \in S
  <2>1. Good([n \in {0} |-> x], 0)
    OBVIOUS
  <2> QED  BY <2>1
<1>2. ASSUME NEW m \in Nat, m \in S
      PROVE  m + 1 \in S
  <2>1. PICK f : Good(f, m)
    BY <1>2
  <2> DEFINE e == ApplyOne(f[m], ins[m + 1])
             g == [n \in 0..(m + 1) |-> IF n = m + 1 THEN e ELSE f[n]]
  <2> HIDE DEF e
  <2>2. g[0] = x /\ g[m + 1] = e /\ \A n \in 0..m : g[n] = f[n]
    BY <2>1
  <2>3. ASSUME NEW n \in 1..(m + 1)
        PROVE  g[n] = ApplyOne(g[n - 1], ins[n])
    <3> HIDE DEF g
    <3>1. CASE n = m + 1
      <4>1. n - 1 = m /\ g[n - 1] = f[m]
        BY <2>2, <3>1
      <4> QED  BY <2>2, <3>1, <4>1 DEF e
    <3>2. CASE n # m + 1
      <4>1. n \in 1..m /\ n \in 0..m /\ n - 1 \in 0..m
        BY <3>2
      <4>2. g[n] = f[n] /\ g[n - 1] = f[n - 1] /\ f[n] = ApplyOne(f[n - 1], ins[n])
        BY <2>1, <2>2, <4>1
      <4> QED  BY <4>2
    <3> QED  BY <3>1, <3>2
  <2>4. Good(g, m + 1)
    BY <2>2, <2>3
  <2> HIDE DEF g, Good
  <2>5. \E f2 : Good(f2, m + 1)
    BY <2>4
  <2> QED  BY <2>5
<1>3. Len(ins) \in S
  <2> HIDE DEF S
  <2> QED  BY <1>1, <1>2, FromZero
<1>4. PICK h : Good(h, Len(ins))
  BY <1>3
<1> DEFINE k == Len(ins)
           Rec(f) == [n \in 0..k |-> IF n = 0 THEN x ELSE ApplyOne(f[n - 1], ins[n])]
           w == [n \in 0..k |-> h[n]]
           f == CHOOSE f : f = Rec(f)
<1>5. w = Rec(w)
  <2>1. ASSUME NEW n \in 0..k
        PROVE  h[n] = IF n = 0 THEN x ELSE ApplyOne(w[n - 1], ins[n])
    <3>1. CASE n = 0
      BY <1>4, <3>1
    <3>2. CASE n # 0
      <4>1. n \in 1..k /\ n - 1 \in 0..k
        BY <3>2
      <4>2. w[n - 1] = h[n - 1]
        BY <4>1
      <4> QED  BY <1>4, <3>2, <4>1, <4>2
    <3> QED  BY <3>1, <3>2
  <2> QED  BY <2>1
<1>6. f = Rec(f)
  <2> HIDE DEF w
  <2> QED  BY <1>5, Zenon
<1>7. ApplyAll(x, ins) = f[k]
  BY Zenon DEF ApplyAll
<1> HIDE DEF f
<1>8. f[0] = x /\ \A n \in 1..k : f[n] = ApplyOne(f[n - 1], ins[n])
  <2>1. \A n \in 0..k : f[n] = IF n = 0 THEN x ELSE ApplyOne(f[n - 1], ins[n])
    BY <1>6
  <2> QED  BY <2>1
<1> QED  BY <1>7, <1>8

\* Recursion on naturals with a function for the step.
Iterates(f, k, A, a, step) ==
  f \in [0..k -> A] /\ f[0] = a /\ \A n \in 1..k : f[n] = step[<<f[n - 1], n>>]

LEMMA RecursionExists ==
  ASSUME NEW k \in Nat, NEW A, NEW a \in A, NEW step \in [A \X (1..k) -> A]
  PROVE  \E f : Iterates(f, k, A, a, step)
<1> DEFINE Good(f, m) ==
             f \in [0..k -> A] /\ f[0] = a /\ \A n \in 1..m : f[n] = step[<<f[n - 1], n>>]
           S == {m \in Nat : m <= k => \E f : Good(f, m)}
<1>1. 0 \in S
  <2> DEFINE g == [n \in 0..k |-> a]
  <2>1. Good(g, 0)
    OBVIOUS
  <2> HIDE DEF g, Good
  <2>2. \E f : Good(f, 0)
    BY <2>1
  <2> QED  BY <2>2
<1>2. ASSUME NEW m \in Nat, m \in S
      PROVE  m + 1 \in S
  <2> SUFFICES ASSUME m + 1 <= k PROVE \E f : Good(f, m + 1)
    OBVIOUS
  <2>1. PICK f : Good(f, m)
    BY <1>2
  <2> DEFINE e == step[<<f[m], m + 1>>]
             g == [f EXCEPT ![m + 1] = e]
  <2>2. e \in A
    BY <2>1
  <2> HIDE DEF e
  <2>3. g \in [0..k -> A] /\ g[0] = a /\ g[m + 1] = e /\ \A n \in 0..m : g[n] = f[n]
    BY <2>1, <2>2
  <2> HIDE DEF g
  <2>4. ASSUME NEW n \in 1..(m + 1)
        PROVE  g[n] = step[<<g[n - 1], n>>]
    <3>1. CASE n = m + 1
      <4>1. n - 1 = m /\ g[n - 1] = f[m]
        BY <2>3, <3>1
      <4> QED  BY <2>3, <3>1, <4>1 DEF e
    <3>2. CASE n # m + 1
      <4>1. n \in 1..m /\ n \in 0..m /\ n - 1 \in 0..m
        BY <3>2
      <4>2. g[n] = f[n] /\ g[n - 1] = f[n - 1] /\ f[n] = step[<<f[n - 1], n>>]
        BY <2>1, <2>3, <4>1
      <4> QED  BY <4>2
    <3> QED  BY <3>1, <3>2
  <2>5. Good(g, m + 1)
    BY <2>3, <2>4
  <2> HIDE DEF Good
  <2> QED  BY <2>5
<1>3. k \in S
  <2> HIDE DEF S
  <2> QED  BY <1>1, <1>2, FromZero
<1>4. PICK f : Good(f, k)
  BY <1>3
<1>5. Iterates(f, k, A, a, step)
  BY <1>4 DEF Iterates
<1> QED  BY <1>5

LEMMA SizeIs ==
  ASSUME NEW chunks \in Seq(Nat)
  PROVE  /\ Size(chunks, 0) = 0
         /\ \A n \in 1..Len(chunks) : Size(chunks, n) = Size(chunks, n - 1) + chunks[n]
         /\ \A n \in 0..Len(chunks) : Size(chunks, n) \in Nat
<1> DEFINE k == Len(chunks)
           Rec(f) == [n \in 0..k |-> IF n = 0 THEN 0 ELSE f[n - 1] + chunks[n]]
           f == CHOOSE f : f = Rec(f)
           step == [z \in Nat \X (1..k) |-> z[1] + chunks[z[2]]]
<1>1. k \in Nat /\ \A n \in 1..k : chunks[n] \in Nat
  OBVIOUS
<1> HIDE DEF k
<1>2. step \in [Nat \X (1..k) -> Nat]
  BY <1>1
<1>3. \A y \in Nat, n \in 1..k : step[<<y, n>>] = y + chunks[n]
  OBVIOUS
<1> HIDE DEF step
<1>4. PICK w : Iterates(w, k, Nat, 0, step)
  <2>1. 0 \in Nat
    OBVIOUS
  <2> QED  BY <1>1, <1>2, <2>1, RecursionExists, Zenon
<1>5. w = Rec(w)
  <2>1. ASSUME NEW n \in 0..k
        PROVE  w[n] = IF n = 0 THEN 0 ELSE w[n - 1] + chunks[n]
    <3>1. CASE n = 0
      BY <1>4, <3>1 DEF Iterates
    <3>2. CASE n # 0
      <4>1. n \in 1..k /\ n - 1 \in 0..k /\ w[n - 1] \in Nat
        BY <1>1, <1>4, <3>2 DEF Iterates
      <4> QED  BY <1>3, <1>4, <3>2, <4>1 DEF Iterates
    <3> QED  BY <3>1, <3>2
  <2>2. w \in [0..k -> Nat]
    BY <1>4 DEF Iterates
  <2> QED  BY <2>1, <2>2
<1>6. f = Rec(f)
  BY <1>5, Zenon
<1>7. \A n : Size(chunks, n) = f[n]
  BY Zenon DEF Size, k
<1> HIDE DEF f
<1>8. \A n \in 0..k : f[n] = IF n = 0 THEN 0 ELSE f[n - 1] + chunks[n]
  BY <1>6
<1> DEFINE S == {n \in 0..k : f[n] \in Nat}
<1>9. \A n \in 0..k : n \in S
  <2>1. 0 \in S
    BY <1>1, <1>8
  <2>2. ASSUME NEW n \in 0..(k - 1), n \in S
        PROVE  n + 1 \in S
    <3>1. n + 1 \in 0..k /\ n + 1 # 0 /\ (n + 1) - 1 = n /\ n + 1 \in 1..k
      BY <1>1
    <3>2. f[n + 1] = f[n] + chunks[n + 1]
      BY <1>8, <3>1
    <3> QED  BY <1>1, <2>2, <3>1, <3>2
  <2> HIDE DEF S
  <2>3. 0 \in Int /\ k \in Int
    BY <1>1
  <2> QED  BY <2>1, <2>2, <2>3, UpTo, Zenon
<1>10. f[0] = 0 /\ \A n \in 1..k : f[n] = f[n - 1] + chunks[n]
  BY <1>1, <1>8
<1> QED  BY <1>7, <1>9, <1>10 DEF k

(* The size after the first n wrappers.                                    *)
LEMMA ThroughIs ==
  ASSUME NEW wraps, Len(wraps) \in Nat, NEW bytes \in Nat
  PROVE  /\ Through(wraps, 0, bytes) = bytes
         /\ \A n \in 1..Len(wraps) :
              Through(wraps, n, bytes) =
                IF wraps[n].wrap = "doubled" THEN 2 * Through(wraps, n - 1, bytes)
                                             ELSE Through(wraps, n - 1, bytes)
         /\ \A n \in 0..Len(wraps) : Through(wraps, n, bytes) \in Nat
<1> DEFINE k == Len(wraps)
           Rec(f) == [n \in 0..k |-> IF n = 0 THEN bytes
                                     ELSE IF wraps[n].wrap = "doubled" THEN 2 * f[n - 1]
                                     ELSE f[n - 1]]
           f == CHOOSE f : f = Rec(f)
           step == [z \in Nat \X (1..k) |->
                      IF wraps[z[2]].wrap = "doubled" THEN 2 * z[1] ELSE z[1]]
<1>1. k \in Nat
  OBVIOUS
<1> HIDE DEF k
<1>2. step \in [Nat \X (1..k) -> Nat]
  BY <1>1
<1>3. \A y \in Nat, n \in 1..k :
        step[<<y, n>>] = IF wraps[n].wrap = "doubled" THEN 2 * y ELSE y
  OBVIOUS
<1> HIDE DEF step
<1>4. PICK w : Iterates(w, k, Nat, bytes, step)
  <2>1. 0 \in Nat /\ bytes \in Nat
    OBVIOUS
  <2> QED  BY <1>1, <1>2, <2>1, RecursionExists, Zenon
<1>5. w = Rec(w)
  <2>1. ASSUME NEW n \in 0..k
        PROVE  w[n] = IF n = 0 THEN bytes
                      ELSE IF wraps[n].wrap = "doubled" THEN 2 * w[n - 1] ELSE w[n - 1]
    <3>1. CASE n = 0
      BY <1>4, <3>1 DEF Iterates
    <3>2. CASE n # 0
      <4>1. n \in 1..k /\ n - 1 \in 0..k /\ w[n - 1] \in Nat
        BY <1>1, <1>4, <3>2 DEF Iterates
      <4> QED  BY <1>3, <1>4, <3>2, <4>1 DEF Iterates
    <3> QED  BY <3>1, <3>2
  <2>2. w \in [0..k -> Nat]
    BY <1>4 DEF Iterates
  <2> QED  BY <2>1, <2>2
<1>6. f = Rec(f)
  BY <1>5, Zenon
<1>7. \A n : Through(wraps, n, bytes) = f[n]
  BY Zenon DEF Through, k
<1> HIDE DEF f
<1>8. \A n \in 0..k : f[n] = IF n = 0 THEN bytes
                             ELSE IF wraps[n].wrap = "doubled" THEN 2 * f[n - 1] ELSE f[n - 1]
  BY <1>6
<1> DEFINE S == {n \in 0..k : f[n] \in Nat}
<1>9. \A n \in 0..k : n \in S
  <2>1. 0 \in S
    BY <1>1, <1>8
  <2>2. ASSUME NEW n \in 0..(k - 1), n \in S
        PROVE  n + 1 \in S
    <3>1. n + 1 \in 0..k /\ n + 1 # 0 /\ (n + 1) - 1 = n /\ n + 1 \in 1..k
      BY <1>1
    <3>2. f[n + 1] = 2 * f[n] \/ f[n + 1] = f[n]
      BY <1>8, <3>1
    <3> QED  BY <1>1, <2>2, <3>1, <3>2
  <2> HIDE DEF S
  <2>3. 0 \in Int /\ k \in Int
    BY <1>1
  <2> QED  BY <2>1, <2>2, <2>3, UpTo, Zenon
<1>10. /\ f[0] = bytes
       /\ \A n \in 1..k : f[n] = IF wraps[n].wrap = "doubled" THEN 2 * f[n - 1] ELSE f[n - 1]
  BY <1>1, <1>8
<1> QED  BY <1>7, <1>9, <1>10 DEF k

(* More bytes in, no fewer bytes out; nothing in, nothing out.             *)
LEMMA ThroughGrows ==
  ASSUME NEW wraps, Len(wraps) \in Nat, NEW x \in Nat, NEW y \in Nat, x <= y
  PROVE  /\ \A n \in 0..Len(wraps) : Through(wraps, n, x) <= Through(wraps, n, y)
         /\ \A n \in 0..Len(wraps) : Through(wraps, n, 0) = 0
<1> DEFINE k == Len(wraps)
           S == {n \in 0..k : /\ Through(wraps, n, x) <= Through(wraps, n, y)
                              /\ Through(wraps, n, 0) = 0}
<1>1. 0 \in S
  BY ThroughIs
<1>2. ASSUME NEW n \in 0..(k - 1), n \in S
      PROVE  n + 1 \in S
  <2>1. n + 1 \in 0..k /\ (n + 1) - 1 = n /\ n + 1 \in 1..k /\ n \in 0..k
    OBVIOUS
  <2>2. ASSUME NEW b \in Nat
        PROVE  /\ Through(wraps, n, b) \in Nat
               /\ Through(wraps, n + 1, b) =
                    IF wraps[n + 1].wrap = "doubled" THEN 2 * Through(wraps, n, b)
                                                     ELSE Through(wraps, n, b)
    <3>1. /\ Through(wraps, n, b) \in Nat
          /\ Through(wraps, n + 1, b) =
               IF wraps[n + 1].wrap = "doubled" THEN 2 * Through(wraps, (n + 1) - 1, b)
                                                ELSE Through(wraps, (n + 1) - 1, b)
      BY <2>1, ThroughIs, Zenon
    <3> QED  BY <2>1, <3>1
  <2>3. Through(wraps, n + 1, x) <= Through(wraps, n + 1, y)
    <3>1. /\ Through(wraps, n, x) <= Through(wraps, n, y)
          /\ Through(wraps, n, x) \in Nat /\ Through(wraps, n, y) \in Nat
      BY <1>2, <2>2
    <3> DEFINE p == Through(wraps, n, x)
               q == Through(wraps, n, y)
    <3>2. /\ Through(wraps, n + 1, x) = IF wraps[n + 1].wrap = "doubled" THEN 2 * p ELSE p
          /\ Through(wraps, n + 1, y) = IF wraps[n + 1].wrap = "doubled" THEN 2 * q ELSE q
      BY <2>2
    <3>3. p \in Nat /\ q \in Nat /\ p <= q
      BY <3>1
    <3> HIDE DEF p, q
    <3>4. 2 * p <= 2 * q
      BY <3>3
    <3> QED  BY <3>2, <3>3, <3>4
  <2>4. Through(wraps, n + 1, 0) = 0
    BY <1>2, <2>2
  <2> QED  BY <2>1, <2>3, <2>4
<1>3. \A n \in 0..k : n \in S
  <2>1. 0 \in Int /\ k \in Int
    OBVIOUS
  <2> HIDE DEF S, k
  <2> QED  BY <1>1, <1>2, <2>1, UpTo, Zenon
<1> QED  BY <1>3

LEMMA ThroughPlain ==
  ASSUME NEW wraps, Len(wraps) \in Nat, NEW x \in Nat,
         \A n \in 1..Len(wraps) : wraps[n].wrap # "doubled"
  PROVE  \A n \in 0..Len(wraps) : Through(wraps, n, x) = x
<1> DEFINE k == Len(wraps)
           S == {n \in 0..k : Through(wraps, n, x) = x}
<1>1. 0 \in S
  BY ThroughIs
<1>2. ASSUME NEW n \in 0..(k - 1), n \in S
      PROVE  n + 1 \in S
  <2>1. n + 1 \in 0..k /\ (n + 1) - 1 = n /\ n + 1 \in 1..k
    OBVIOUS
  <2>2. Through(wraps, n + 1, x) =
          IF wraps[n + 1].wrap = "doubled" THEN 2 * Through(wraps, (n + 1) - 1, x)
                                           ELSE Through(wraps, (n + 1) - 1, x)
    BY <2>1, ThroughIs, Zenon
  <2>3. Through(wraps, n + 1, x) = Through(wraps, (n + 1) - 1, x)
    BY <2>1, <2>2
  <2> QED  BY <1>2, <2>1, <2>3
<1>3. \A n \in 0..k : n \in S
  <2>1. 0 \in Int /\ k \in Int
    OBVIOUS
  <2> HIDE DEF S, k
  <2> QED  BY <1>1, <1>2, <2>1, UpTo, Zenon
<1> QED  BY <1>3

LEMMA SizeGrows ==
  ASSUME NEW chunks \in Seq(Nat)
  PROVE  \A n \in 0..Len(chunks) : Size(chunks, n) <= Size(chunks, Len(chunks))
<1> DEFINE k == Len(chunks)
           S == {n \in 0..k : Size(chunks, n) <= Size(chunks, k)}
<1>0. k \in Nat /\ \A n \in 1..k : chunks[n] \in Nat
  OBVIOUS
<1>1. k \in S
  BY <1>0, SizeIs
<1>2. ASSUME NEW n \in 0..(k - 1), n + 1 \in S
      PROVE  n \in S
  <2>1. n \in 0..k /\ (n + 1) - 1 = n /\ n + 1 \in 1..k
    BY <1>0
  <2>2. Size(chunks, n + 1) = Size(chunks, n) + chunks[n + 1]
    BY <2>1, SizeIs
  <2>3. /\ Size(chunks, n) \in Nat /\ Size(chunks, k) \in Nat /\ chunks[n + 1] \in Nat
        /\ Size(chunks, n + 1) <= Size(chunks, k)
    BY <1>0, <1>2, <2>1, SizeIs
  <2>4. Size(chunks, n) <= Size(chunks, k)
    BY <2>2, <2>3
  <2> QED  BY <2>1, <2>4
<1>3. \A n \in 0..k : n \in S
  <2>1. 0 \in Int /\ k \in Int
    BY <1>0
  <2> HIDE DEF S, k
  <2> QED  BY <1>1, <1>2, <2>1, DownTo, Zenon
<1> QED  BY <1>3

-----------------------------------------------------------------------------
(* Header maps.                                                            *)
IsValue(v) == v = [text |-> v.text, sensitive |-> v.sensitive] /\ v.text # Absent

IsHeaders(x) ==
  /\ x = [h \in Names |-> x[h]]
  /\ \A h \in Names : IsSeq(x[h]) /\ \A i \in 1..Len(x[h]) : IsValue(x[h][i])

\* b is what a layer that does not write a header makes of its values a.
Follows(a, b) ==
  /\ Len(b) = Len(a)
  /\ \A i \in 1..Len(a) : b[i].text = a[i].text /\ (a[i].sensitive => b[i].sensitive)

LEMMA EmptyIs ==
  ASSUME NEW s, IsSeq(s)
  PROVE  s = <<>> <=> Len(s) = 0
<1>1. ASSUME s = <<>>
      PROVE  Len(s) = 0
  BY <1>1
<1>2. ASSUME Len(s) = 0
      PROVE  s = <<>>
  <2>1. 1..Len(s) = {} /\ s = [i \in 1..Len(s) |-> s[i]]
    BY <1>2 DEF IsSeq
  <2>2. s \in [1..Len(s) -> {}] /\ Len(s) \in Nat
    BY <1>2, <2>1
  <2>3. s \in Seq({})
    BY <2>2, SeqDef
  <2> QED  BY <1>2, <2>3, EmptySeq
<1> QED  BY <1>1, <1>2

LEMMA FollowsItself ==
  ASSUME NEW a
  PROVE  Follows(a, a)
  BY DEF Follows

LEMMA FollowsOn ==
  ASSUME NEW a, NEW b, NEW c, Follows(a, b), Follows(b, c)
  PROVE  Follows(a, c)
  BY DEF Follows

LEMMA GetIs ==
  ASSUME NEW x, IsHeaders(x), NEW h \in Names
  PROVE  /\ get(x, h) = IF Len(x[h]) = 0 THEN Absent ELSE x[h][1].text
         /\ x[h] = <<>> <=> Len(x[h]) = 0
         /\ x[h] = <<>> <=> get(x, h) = Absent
         /\ IsSeq(x[h]) /\ Len(x[h]) \in Nat /\ DOMAIN x[h] = 1..Len(x[h])
<1>1. IsSeq(x[h]) /\ \A i \in 1..Len(x[h]) : IsValue(x[h][i])
  BY DEF IsHeaders
<1>2. x[h] = <<>> <=> Len(x[h]) = 0
  BY <1>1, EmptyIs
<1>3. Len(x[h]) \in Nat /\ DOMAIN x[h] = 1..Len(x[h])
  BY <1>1 DEF IsSeq
<1>4. Len(x[h]) # 0 => x[h][1].text # Absent
  <2>1. Len(x[h]) # 0 => 1 \in 1..Len(x[h])
    BY <1>3
  <2> QED  BY <1>1, <2>1, Zenon DEF IsValue
<1> QED  BY <1>1, <1>2, <1>3, <1>4 DEF get

LEMMA FollowsKeeps ==
  ASSUME NEW x, IsHeaders(x), NEW y, IsHeaders(y), NEW h \in Names, Follows(x[h], y[h])
  PROVE  /\ get(y, h) = get(x, h)
         /\ y[h] = <<>> <=> x[h] = <<>>
         /\ Hidden(x, h) => Hidden(y, h)
<1>1. Len(x[h]) \in Nat /\ Len(y[h]) = Len(x[h])
      /\ DOMAIN x[h] = 1..Len(x[h]) /\ DOMAIN y[h] = 1..Len(x[h])
  BY GetIs DEF Follows
<1>2. get(y, h) = get(x, h)
  <2>1. CASE Len(x[h]) = 0
    BY <1>1, <2>1, GetIs
  <2>2. CASE Len(x[h]) # 0
    <3>1. y[h][1].text = x[h][1].text
      BY <1>1, <2>2 DEF Follows
    <3> QED  BY <1>1, <2>2, <3>1, GetIs
  <2> QED  BY <2>1, <2>2
<1>3. y[h] = <<>> <=> x[h] = <<>>
  BY <1>1, GetIs
<1>4. Hidden(x, h) => Hidden(y, h)
  BY <1>1 DEF Hidden, Follows
<1> QED  BY <1>2, <1>3, <1>4

LEMMA InsertIs ==
  ASSUME NEW x, IsHeaders(x), NEW h \in Names, NEW v, IsValue(v), NEW y, y = insert(x, h, v)
  PROVE  /\ IsHeaders(y) /\ Len(y[h]) = 1 /\ y[h][1] = v /\ y[h] # <<>>
         /\ get(y, h) = v.text
         /\ \A g \in Names : g # h => y[g] = x[g]
<1> DEFINE s == <<v>>
<1>1. IsSeq(s) /\ Len(s) = 1 /\ s[1] = v
  BY DEF IsSeq
<1>2. y = [x EXCEPT ![h] = s]
  BY DEF insert
<1> HIDE DEF s
<1>3. DOMAIN x = Names
  BY DEF IsHeaders
<1>4. /\ y = [g \in Names |-> y[g]] /\ y[h] = s /\ \A g \in Names : g # h => y[g] = x[g]
  BY <1>2, <1>3
<1>5. IsHeaders(y)
  <2>1. ASSUME NEW g \in Names
        PROVE  IsSeq(y[g]) /\ \A i \in 1..Len(y[g]) : IsValue(y[g][i])
    <3>1. CASE g = h
      BY <1>1, <1>4, <3>1
    <3>2. CASE g # h
      BY <1>4, <3>2 DEF IsHeaders
    <3> QED  BY <3>1, <3>2
  <2> QED  BY <1>4, <2>1 DEF IsHeaders
<1>6. get(y, h) = v.text /\ y[h] # <<>>
  BY <1>1, <1>4, <1>5, GetIs
<1> QED  BY <1>1, <1>4, <1>5, <1>6

LEMMA AppendToIs ==
  ASSUME NEW x, IsHeaders(x), NEW h \in Names, NEW v, IsValue(v), NEW y, y = append(x, h, v)
  PROVE  /\ IsHeaders(y) /\ y[h] # <<>>
         /\ get(y, h) = IF x[h] = <<>> THEN v.text ELSE get(x, h)
         /\ \A g \in Names : g # h => y[g] = x[g]
<1> DEFINE s == Append(x[h], v)
           k == Len(x[h])
<1>0. IsSeq(x[h]) /\ k \in Nat
  BY GetIs
<1>1. IsSeq(s) /\ Len(s) = k + 1 /\ s[k + 1] = v /\ \A i \in 1..k : s[i] = x[h][i]
  BY <1>0, AppendIs
<1>2. y = [x EXCEPT ![h] = s]
  BY DEF append
<1> HIDE DEF s, k
<1>3. DOMAIN x = Names
  BY DEF IsHeaders
<1>4. /\ y = [g \in Names |-> y[g]] /\ y[h] = s /\ \A g \in Names : g # h => y[g] = x[g]
  BY <1>2, <1>3
<1>5. IsHeaders(y)
  <2>1. ASSUME NEW g \in Names
        PROVE  IsSeq(y[g]) /\ \A i \in 1..Len(y[g]) : IsValue(y[g][i])
    <3>1. CASE g = h
      <4>1. ASSUME NEW i \in 1..(k + 1)
            PROVE  IsValue(s[i])
        <5>1. CASE i = k + 1
          BY <1>1, <5>1
        <5>2. CASE i # k + 1
          <6>1. i \in 1..k
            BY <1>0, <5>2
          <6> QED  BY <1>1, <6>1 DEF IsHeaders, k
        <5> QED  BY <5>1, <5>2
      <4> QED  BY <1>1, <1>4, <3>1, <4>1
    <3>2. CASE g # h
      BY <1>4, <3>2 DEF IsHeaders
    <3> QED  BY <3>1, <3>2
  <2> QED  BY <1>4, <2>1 DEF IsHeaders
<1>6. y[h] # <<>> /\ get(y, h) = s[1].text
  BY <1>0, <1>1, <1>4, <1>5, GetIs
<1>7. s[1].text = IF x[h] = <<>> THEN v.text ELSE get(x, h)
  <2>1. /\ x[h] = <<>> <=> k = 0
        /\ get(x, h) = IF k = 0 THEN Absent ELSE x[h][1].text
    BY GetIs DEF k
  <2>2. CASE k = 0
    BY <1>1, <2>1, <2>2
  <2>3. CASE k # 0
    BY <1>0, <1>1, <2>1, <2>3
  <2> QED  BY <2>2, <2>3
<1> QED  BY <1>4, <1>5, <1>6, <1>7

Modes == {"override", "append", "if_not_present"}

LEMMA ApplyOneIs ==
  ASSUME NEW x, IsHeaders(x), NEW i, i.header \in Names, i.mode \in Modes,
         NEW y, y = ApplyOne(x, i)
  PROVE  /\ IsHeaders(y)
         /\ \A g \in Names : g # i.header \/ i.text = Absent => y[g] = x[g]
         /\ i.text # Absent =>
              get(y, i.header) = IF i.mode = "override" \/ get(x, i.header) = Absent
                                 THEN i.text ELSE get(x, i.header)
<1> DEFINE h == i.header
           v == Plain(i.text)
<1>1. i.text # Absent => IsValue(v) /\ v.text = i.text
  BY DEF Plain, IsValue
<1>2. h \in Names /\ (x[h] = <<>> <=> get(x, h) = Absent)
  BY GetIs
<1> HIDE DEF v
<1>3. CASE i.text = Absent \/ (i.mode = "if_not_present" /\ x[h] # <<>>)
  <2>1. y = x
    BY <1>3 DEF ApplyOne, InsertHeaderMode
  <2> QED  BY <1>2, <1>3, <2>1
<1>4. CASE i.text # Absent /\ i.mode = "append"
  <2>1. y = append(x, h, v)
    BY <1>4 DEF ApplyOne, InsertHeaderMode, v
  <2>2. /\ IsHeaders(y) /\ \A g \in Names : g # h => y[g] = x[g]
        /\ get(y, h) = IF x[h] = <<>> THEN v.text ELSE get(x, h)
    BY <1>1, <1>2, <1>4, <2>1, AppendToIs
  <2> QED  BY <1>1, <1>2, <1>4, <2>2
<1>5. CASE /\ i.text # Absent /\ i.mode # "append"
           /\ ~ (i.mode = "if_not_present" /\ x[h] # <<>>)
  <2>1. y = insert(x, h, v)
    BY <1>5 DEF ApplyOne, InsertHeaderMode, v
  <2>2. /\ IsHeaders(y) /\ \A g \in Names : g # h => y[g] = x[g]
        /\ get(y, h) = v.text
    BY <1>1, <1>2, <1>5, <2>1, InsertIs
  <2>3. i.mode = "override" \/ get(x, h) = Absent
    BY <1>2, <1>5 DEF Modes
  <2> QED  BY <1>1, <1>5, <2>2, <2>3
<1> QED  BY <1>3, <1>4, <1>5

IsInsertions(ins) ==
  Len(ins) \in Nat /\ DOMAIN ins = 1..Len(ins)
  /\ \A n \in 1..Len(ins) : ins[n].header \in Names /\ ins[n].mode \in Modes

(* What the first m insertions make of the first value of a header.        *)
FirstOf(ins, h, m, before, after) ==
  LET over == {n \in 1..m : n \in Overriding(ins, h)}
      any  == {n \in 1..m : n \in Writings(ins, h)}
  IN \/ \E n \in 1..m : IsMax(n, over) /\ after = ins[n].text
     \/ over = {} /\ before # Absent /\ after = before
     \/ over = {} /\ before = Absent /\ \E n \in 1..m : IsMin(n, any) /\ after = ins[n].text
     \/ any = {} /\ before = Absent /\ after = Absent

LEMMA FirstOfNext ==
  ASSUME NEW ins, IsInsertions(ins), NEW h \in Names, NEW m \in Nat, m + 1 <= Len(ins),
         NEW before, NEW now, NEW after, FirstOf(ins, h, m, before, now),
         IF m + 1 \in Writings(ins, h)
         THEN after = IF m + 1 \in Overriding(ins, h) \/ now = Absent
                      THEN ins[m + 1].text ELSE now
         ELSE after = now
  PROVE  FirstOf(ins, h, m + 1, before, after)
<1> DEFINE over(k) == {n \in 1..k : n \in Overriding(ins, h)}
           any(k)  == {n \in 1..k : n \in Writings(ins, h)}
           P == m + 1
<1>1. 1..P = (1..m) \cup {P} /\ P \notin 1..m /\ \A n \in 1..m : n < P /\ n <= P
  OBVIOUS
<1>2. \A n : n \in Overriding(ins, h) => n \in Writings(ins, h)
  BY DEF Overriding
<1>3. over(P) = IF P \in Overriding(ins, h) THEN over(m) \cup {P} ELSE over(m)
  BY <1>1
<1>4. any(P) = IF P \in Writings(ins, h) THEN any(m) \cup {P} ELSE any(m)
  BY <1>1
<1>5. \A n \in 1..m : n \in Writings(ins, h) => ins[n].text # Absent
  BY DEF Writings
<1>6. over(m) \subseteq 1..m /\ any(m) \subseteq 1..m /\ over(m) \subseteq any(m) /\ P \in Nat
  BY <1>2
<1>7. \/ \E n \in 1..m : IsMax(n, over(m)) /\ now = ins[n].text
      \/ over(m) = {} /\ before # Absent /\ now = before
      \/ over(m) = {} /\ before = Absent /\ \E n \in 1..m : IsMin(n, any(m)) /\ now = ins[n].text
      \/ any(m) = {} /\ before = Absent /\ now = Absent
  BY DEF FirstOf
<1> HIDE DEF over, any
<1> SUFFICES
      \/ \E n \in 1..P : IsMax(n, over(P)) /\ after = ins[n].text
      \/ over(P) = {} /\ before # Absent /\ after = before
      \/ over(P) = {} /\ before = Absent /\ \E n \in 1..P : IsMin(n, any(P)) /\ after = ins[n].text
      \/ any(P) = {} /\ before = Absent /\ after = Absent
  BY DEF FirstOf, over, any
<1> HIDE DEF P
<1>8. CASE P \in Overriding(ins, h)
  <2>1. IsMax(P, over(P))
    BY <1>1, <1>3, <1>6, <1>8 DEF IsMax
  <2>2. after = ins[P].text /\ P \in 1..P
    BY <1>1, <1>2, <1>8 DEF P
  <2> QED  BY <2>1, <2>2
<1>9. CASE P \notin Writings(ins, h)
  <2>1. after = now /\ over(P) = over(m) /\ any(P) = any(m) /\ \A n \in 1..m : n \in 1..P
    BY <1>1, <1>2, <1>3, <1>4, <1>9 DEF P
  <2> QED  BY <1>7, <2>1
<1>10. CASE P \in Writings(ins, h) /\ P \notin Overriding(ins, h)
  <2>1. over(P) = over(m) /\ any(P) = any(m) \cup {P} /\ \A n \in 1..m : n \in 1..P
    BY <1>1, <1>3, <1>4, <1>10
  <2>2. after = IF now = Absent THEN ins[P].text ELSE now
    BY <1>10 DEF P
  <2>3. CASE \E n \in 1..m : IsMax(n, over(m)) /\ now = ins[n].text
    <3>1. PICK n \in 1..m : IsMax(n, over(m)) /\ now = ins[n].text
      BY <2>3
    <3>2. now # Absent
      BY <1>5, <1>6, <3>1 DEF IsMax, any
    <3> QED  BY <2>1, <2>2, <3>1, <3>2
  <2>4. CASE over(m) = {} /\ before # Absent /\ now = before
    BY <2>1, <2>2, <2>4
  <2>5. CASE /\ over(m) = {} /\ before = Absent
             /\ \E n \in 1..m : IsMin(n, any(m)) /\ now = ins[n].text
    <3>1. PICK n \in 1..m : IsMin(n, any(m)) /\ now = ins[n].text
      BY <2>5
    <3>2. now # Absent
      BY <1>5, <3>1 DEF IsMin, any
    <3>3. IsMin(n, any(P))
      BY <1>1, <2>1, <3>1 DEF IsMin
    <3> QED  BY <2>1, <2>2, <2>5, <3>1, <3>2, <3>3
  <2>6. CASE any(m) = {} /\ before = Absent /\ now = Absent
    <3>1. over(P) = {} /\ any(P) = {P}
      BY <1>6, <2>1, <2>6
    <3>2. IsMin(P, any(P)) /\ P \in 1..P
      BY <1>1, <1>6, <3>1 DEF IsMin
    <3> QED  BY <2>2, <2>6, <3>1, <3>2
  <2> QED  BY <1>7, <2>3, <2>4, <2>5, <2>6
<1> QED  BY <1>2, <1>8, <1>9, <1>10

(* The insertions of a layer, one after the other.                         *)
LEMMA ApplyAllGives ==
  ASSUME NEW x, IsHeaders(x), NEW ins, IsInsertions(ins), NEW y, y = ApplyAll(x, ins)
  PROVE  /\ IsHeaders(y)
         /\ \A h \in Names :
              /\ (\A n \in 1..Len(ins) : ins[n].header # h) => y[h] = x[h]
              /\ FirstOf(ins, h, Len(ins), get(x, h), get(y, h))
<1> DEFINE k == Len(ins)
<1>1. k \in Nat
  BY DEF IsInsertions
<1>2. PICK f : /\ f[0] = x /\ y = f[k]
               /\ \A n \in 1..k : f[n] = ApplyOne(f[n - 1], ins[n])
  BY <1>1, ApplyAllIs
<1>3. ASSUME NEW n \in 0..(k - 1)
      PROVE  /\ f[n + 1] = ApplyOne(f[n], ins[n + 1]) /\ n + 1 \in 1..k
             /\ ins[n + 1].header \in Names /\ ins[n + 1].mode \in Modes
  <2>1. n + 1 \in 1..k /\ (n + 1) - 1 = n
    BY <1>1
  <2>2. f[n + 1] = ApplyOne(f[(n + 1) - 1], ins[n + 1])
    BY <1>2, <2>1
  <2> QED  BY <2>1, <2>2 DEF IsInsertions
<1> DEFINE S == {n \in 0..k : IsHeaders(f[n])}
<1>4. \A n \in 0..k : n \in S
  <2>1. 0 \in S
    BY <1>1, <1>2
  <2>2. ASSUME NEW n \in 0..(k - 1), n \in S
        PROVE  n + 1 \in S
    <3>1. n + 1 \in 0..k
      BY <1>1
    <3>2. IsHeaders(f[n + 1])
      BY <1>3, <2>2, ApplyOneIs
    <3> QED  BY <3>1, <3>2
  <2>3. 0 \in Int /\ k \in Int
    BY <1>1
  <2> HIDE DEF S, k
  <2> QED  BY <2>1, <2>2, <2>3, UpTo, Zenon
<1>5. ASSUME NEW h \in Names, \A n \in 1..k : ins[n].header # h
      PROVE  y[h] = x[h]
  <2> DEFINE T == {n \in 0..k : f[n][h] = x[h]}
  <2>1. 0 \in T
    BY <1>1, <1>2
  <2>2. ASSUME NEW n \in 0..(k - 1), n \in T
        PROVE  n + 1 \in T
    <3>1. n + 1 \in 0..k /\ n \in 0..k
      BY <1>1
    <3>2. IsHeaders(f[n]) /\ h # ins[n + 1].header
      BY <1>3, <1>4, <1>5, <3>1
    <3>3. f[n + 1][h] = f[n][h]
      BY <1>3, <3>2, ApplyOneIs
    <3> QED  BY <2>2, <3>1, <3>3
  <2>3. 0 \in Int /\ k \in Int /\ k \in 0..k
    BY <1>1
  <2>4. \A n \in 0..k : n \in T
    <3> HIDE DEF T, k
    <3> QED  BY <2>1, <2>2, <2>3, UpTo, Zenon
  <2> QED  BY <1>2, <2>3, <2>4
<1>6. ASSUME NEW h \in Names
      PROVE  FirstOf(ins, h, k, get(x, h), get(y, h))
  <2> DEFINE T == {n \in 0..k : FirstOf(ins, h, n, get(x, h), get(f[n], h))}
  <2>1. 0 \in T
    <3>1. FirstOf(ins, h, 0, get(x, h), get(x, h))
      BY DEF FirstOf
    <3> QED  BY <1>1, <1>2, <3>1
  <2>2. ASSUME NEW n \in 0..(k - 1), n \in T
        PROVE  n + 1 \in T
    <3>1. n + 1 \in 0..k /\ n \in 0..k /\ n \in Nat /\ n + 1 <= k /\ n + 1 \in 1..k
      BY <1>1
    <3>2. IsHeaders(f[n])
      BY <1>4, <3>1
    <3> DEFINE i == ins[n + 1]
    <3>3. /\ \A g \in Names : g # i.header \/ i.text = Absent => f[n + 1][g] = f[n][g]
          /\ i.text # Absent =>
               get(f[n + 1], i.header) =
                 IF i.mode = "override" \/ get(f[n], i.header) = Absent
                 THEN i.text ELSE get(f[n], i.header)
      BY <1>3, <3>2, ApplyOneIs
    <3>4. n + 1 \in DOMAIN ins
      BY <3>1 DEF IsInsertions
    <3>5. /\ n + 1 \in Writings(ins, h) <=> i.header = h /\ i.text # Absent
          /\ n + 1 \in Overriding(ins, h) <=>
               i.header = h /\ i.text # Absent /\ i.mode = "override"
      BY <3>4 DEF Writings, Overriding
    <3> HIDE DEF i
    <3>6. IF n + 1 \in Writings(ins, h)
          THEN get(f[n + 1], h) = IF n + 1 \in Overriding(ins, h) \/ get(f[n], h) = Absent
                                  THEN i.text ELSE get(f[n], h)
          ELSE get(f[n + 1], h) = get(f[n], h)
      BY <3>3, <3>5 DEF get
    <3>7. FirstOf(ins, h, n + 1, get(x, h), get(f[n + 1], h))
      BY <2>2, <3>1, <3>6, FirstOfNext DEF i
    <3> QED  BY <3>1, <3>7
  <2>3. 0 \in Int /\ k \in Int /\ k \in 0..k
    BY <1>1
  <2>4. \A n \in 0..k : n \in T
    <3> HIDE DEF T, k
    <3> QED  BY <2>1, <2>2, <2>3, UpTo, Zenon
  <2> QED  BY <1>2, <2>3, <2>4
<1>7. IsHeaders(y)
  <2>1. k \in 0..k
    BY <1>1
  <2> QED  BY <1>2, <1>4, <2>1
<1> QED  BY <1>5, <1>6, <1>7

LEMMA MarkedIs ==
  ASSUME NEW x, IsHeaders(x), NEW hs, NEW y, y = Marked(x, hs)
  PROVE  /\ IsHeaders(y)
         /\ \A h \in Names : Follows(x[h], y[h]) /\ (h \in hs => Hidden(y, h))
<1>1. \A h \in Names : IsSeq(x[h]) /\ \A i \in 1..Len(x[h]) : IsValue(x[h][i])
  BY DEF IsHeaders
<1>2. ASSUME NEW h \in Names
      PROVE  /\ IsSeq(y[h]) /\ Len(y[h]) = Len(x[h])
             /\ \A i \in 1..Len(x[h]) :
                  /\ IsValue(y[h][i]) /\ y[h][i].text = x[h][i].text
                  /\ y[h][i].sensitive = IF h \in hs THEN TRUE ELSE x[h][i].sensitive
  <2>1. CASE h \notin hs
    <3>1. y[h] = x[h]
      BY <2>1 DEF Marked
    <3> QED  BY <1>1, <2>1, <3>1
  <2>2. CASE h \in hs
    <3> DEFINE n == Len(x[h])
               yes == TRUE
               s == [i \in 1..n |-> [x[h][i] EXCEPT !.sensitive = yes]]
    <3>1. n \in Nat /\ DOMAIN x[h] = 1..n
      BY <1>1 DEF IsSeq
    <3>2. y[h] = s
      BY <2>2, <3>1 DEF Marked
    <3> HIDE DEF n
    <3>3. Len(s) = n /\ \A i \in 1..n : s[i] = [x[h][i] EXCEPT !.sensitive = yes]
      <4>1. s \in Seq({s[i] : i \in 1..n})
        <5> HIDE DEF yes
        <5>1. s \in [1..n -> {s[i] : i \in 1..n}]
          OBVIOUS
        <5> HIDE DEF s
        <5> QED  BY <3>1, <5>1, SeqDef
      <4>2. DOMAIN s = 1..n
        OBVIOUS
      <4> QED  BY <3>1, <4>1, <4>2, LenProperties
    <3>4. s = [i \in 1..n |-> s[i]]
      OBVIOUS
    <3> HIDE DEF s, yes
    <3>5. ASSUME NEW i \in 1..n
          PROVE  IsValue(s[i]) /\ s[i].text = x[h][i].text /\ s[i].sensitive = yes
      <4> DEFINE v == x[h][i]
      <4>1. IsValue(v) /\ s[i] = [v EXCEPT !.sensitive = yes]
        BY <1>1, <3>3 DEF n
      <4> HIDE DEF v
      <4>2. [v EXCEPT !.sensitive = yes] = [text |-> v.text, sensitive |-> yes]
        BY <4>1 DEF IsValue
      <4>3. s[i] = [text |-> v.text, sensitive |-> yes]
        BY <4>1, <4>2
      <4>4. s[i].text = v.text /\ s[i].sensitive = yes
        BY <4>3
      <4> QED  BY <4>1, <4>3, <4>4 DEF IsValue, v
    <3>6. IsSeq(s)
      BY <3>1, <3>3, <3>4 DEF IsSeq
    <3> QED  BY <2>2, <3>2, <3>3, <3>5, <3>6 DEF n, yes
  <2> QED  BY <2>1, <2>2
<1>3. y = [h \in Names |-> y[h]]
  BY DEF Marked
<1>4. IsHeaders(y)
  BY <1>2, <1>3 DEF IsHeaders
<1>5. ASSUME NEW h \in Names
      PROVE  Follows(x[h], y[h]) /\ (h \in hs => Hidden(y, h))
  <2>1. Follows(x[h], y[h])
    BY <1>2 DEF Follows
  <2>2. DOMAIN y[h] = 1..Len(x[h])
    BY <1>2 DEF IsSeq
  <2>3. h \in hs => Hidden(y, h)
    BY <1>2, <2>2 DEF Hidden
  <2> QED  BY <2>1, <2>3
<1> QED  BY <1>4, <1>5

-----------------------------------------------------------------------------
(* The history of the exchange.  Layer l was given q; it passed on n and   *)
(* its future keeps k.                                                     *)
Passed(l, q, n, k) ==
  \/ l.kind = "set_request_id" /\ \E made : n = SetRequestId(l, q, made)
  \/ l.kind = "propagate_request_id" /\ n = q /\ k = PropagateRequestIdCall(l, q)
  \/ l.kind = "propagate_header" /\ n = q /\ k = PropagateHeaderCall(l, q)
  \/ l.kind = "set_request_header" /\ n = SetRequestHeader(l, q)
  \/ l.kind = "sensitive_request" /\ n = SetSensitiveRequestHeaders(l, q)
  \/ l.kind = "add_authorization" /\ n = AddAuthorization(l, q)
  \/ l.kind = "add_extension" /\ n = AddExtension(l, q)
  \/ l.kind = "normalize_path" /\ n = [q EXCEPT !.uri = Normalize(l.mode, q.uri)]
  \/ l.kind = "map_request_body" /\ n = MapRequestBody(q)
  \/ /\ l.kind \in {"set_response_header", "sensitive_response", "catch_panic", "set_status",
                    "map_response_body"}
     /\ n = q
  \/ l.kind = "validate" /\ validate(l, q) /\ n = q
  \/ l.kind = "limit" /\ ~ TooLarge(l, q) /\ n = RequestBodyLimit(l, q)

(* The future of layer l, which keeps k, was given x and gave back r.      *)
Returned(l, k, x, r) ==
  \/ x.kind # "response" /\ l.kind # "catch_panic" /\ r = x
  \/ l.kind = "catch_panic" /\ r = IF Caught(x) THEN response_for_panic ELSE x
  \/ /\ x.kind = "response"
     /\ \/ l.kind = "propagate_request_id" /\ r = PropagateRequestIdPoll(l, k, x)
        \/ l.kind = "propagate_header" /\ r = PropagateHeaderPoll(l, k, x)
        \/ l.kind = "set_response_header" /\ r = SetResponseHeader(l, x)
        \/ l.kind = "sensitive_response" /\ r = SetSensitiveResponseHeaders(l, x)
        \/ l.kind = "map_response_body" /\ r = MapResponseBody(x)
        \/ l.kind = "set_status" /\ r = SetStatus(l, x)
        \/ /\ l.kind \in {"set_request_id", "set_request_header", "sensitive_request",
                          "add_authorization", "add_extension", "normalize_path",
                          "map_request_body", "validate", "limit"}
           /\ r = x

(* Layer l answered q itself.                                              *)
Refused(l, q, r) ==
  \/ l.kind = "validate" /\ ~ validate(l, q) /\ r = Refusal(l)
  \/ l.kind = "limit" /\ TooLarge(l, q) /\ r = create_error_response

History ==
  /\ layers \in Seq(LayerType) /\ calls[1] \in RequestType
  /\ IsSeq(kept) /\ Len(kept) = Len(calls) - 1
  /\ \A i \in 1..Len(kept) : Passed(layers[i], calls[i], calls[i + 1], kept[i])
  /\ phase = "poll" =>
       /\ \A i \in 1..Len(kept) :
            at < i => Returned(layers[i], kept[i], results[i + 1], results[i])
       /\ Len(calls) < Bottom =>
            Refused(layers[Len(calls)], calls[Len(calls)], results[Len(calls)])

IsWraps(ws) ==
  IsSeq(ws) /\ \A i \in 1..Len(ws) : ws[i].wrap \in {"limited", "doubled"} /\ ws[i].limit \in Nat

Contents ==
  /\ \A i \in 1..Len(calls) :
       /\ IsHeaders(calls[i].headers) /\ IsWraps(calls[i].wraps)
       /\ calls[i].chunks = calls[1].chunks
  /\ \A i \in 1..Bottom :
       IsHeaders(results[i].headers) /\ (Len(calls) < i => results[i].kind = "none")

Total == Size(calls[1].chunks, Len(calls[1].chunks))

(* What the handler has read and whether a read failed, against the body   *)
(* it was given.                                                           *)
Reading ==
  /\ taken \in 0..Len(calls[1].chunks)
  /\ phase = "call" => taken = 0 /\ fault = FALSE
  /\ Len(calls) = Bottom =>
       /\ \A k \in 1..Len(calls[Bottom].wraps) :
            calls[Bottom].wraps[k].wrap = "limited" =>
              Through(calls[Bottom].wraps, k - 1, Given) <= calls[Bottom].wraps[k].limit
       /\ fault => \E k \in 1..Len(calls[Bottom].wraps) :
            /\ calls[Bottom].wraps[k].wrap = "limited"
            /\ Through(calls[Bottom].wraps, k - 1, Total) > calls[Bottom].wraps[k].limit

ExchangeInv == StackInv /\ History /\ Contents /\ Reading

-----------------------------------------------------------------------------
(* What one layer does to a request.                                       *)
LEMMA LayerParts ==
  ASSUME NEW l \in LayerType
  PROVE  /\ l.kind \in {"set_request_id", "propagate_request_id", "propagate_header"} =>
              l.header \in Names
         /\ l.kind \in {"set_request_header", "set_response_header"} =>
              IsInsertions(l.insertions)
         /\ l.kind \in {"sensitive_request", "sensitive_response"} => l.headers \subseteq Names
         /\ l.kind = "add_authorization" => IsValue(l.value)
         /\ l.kind = "validate" => l.rule \in {"accept", "header", "basic", "bearer"}
         /\ l.kind = "validate" /\ l.rule = "header" => l.header \in Names
         /\ l.kind = "limit" => l.limit \in Nat
<1>1. ASSUME NEW ins \in Seq([mode : Modes, header : Names, text : STRING])
      PROVE  IsInsertions(ins)
  <2>1. Len(ins) \in Nat /\ DOMAIN ins = 1..Len(ins)
    BY LenProperties
  <2> DEFINE R == [mode : Modes, header : Names, text : STRING]
  <2>2. \A r \in R : r.header \in Names /\ r.mode \in Modes
    OBVIOUS
  <2>3. ins \in Seq(R)
    OBVIOUS
  <2> HIDE DEF R
  <2>4. \A n \in 1..Len(ins) : ins[n] \in R
    BY <2>3, ElementOfSeq
  <2> QED  BY <2>1, <2>2, <2>4 DEF IsInsertions
<1>2. ASSUME NEW v \in Values
      PROVE  IsValue(v)
  BY DEF Values, Texts, IsValue
<1>3. CASE l \in [kind : {"set_request_id", "propagate_request_id", "propagate_header"},
                  header : Names]
  BY <1>3
<1>4. CASE l \in [kind : {"set_request_header", "set_response_header"},
                  insertions : Seq([mode : {"override", "append", "if_not_present"},
                                    header : Names, text : STRING])]
  <2>1. /\ l.kind \in {"set_request_header", "set_response_header"}
        /\ l.insertions \in Seq([mode : Modes, header : Names, text : STRING])
    BY <1>4 DEF Modes
  <2> QED  BY <1>1, <2>1
<1>5. CASE l \in [kind : {"sensitive_request", "sensitive_response"}, headers : SUBSET Names]
  BY <1>5
<1>6. CASE l \in [kind : {"add_authorization"}, value : Values]
  BY <1>2, <1>6
<1>7. CASE \/ l \in [kind : {"add_extension"}, value : STRING]
           \/ l \in [kind : {"normalize_path"}, mode : {"trim", "append"}]
           \/ l \in [kind : {"set_status"}, status : Nat]
           \/ l \in [kind : {"catch_panic", "map_request_body", "map_response_body"}]
  BY <1>7
<1>8. CASE \/ l \in [kind : {"validate"}, rule : {"accept"}, type : STRING, subtype : STRING]
           \/ l \in [kind : {"validate"}, rule : {"header"}, header : Names, text : Texts]
           \/ l \in [kind : {"validate"}, rule : {"basic", "bearer"}, text : Texts]
  BY <1>8
<1>9. CASE l \in [kind : {"limit"}, limit : Nat]
  BY <1>9
<1> QED  BY <1>3, <1>4, <1>5, <1>6, <1>7, <1>8, <1>9 DEF LayerType

(* The writes of layer l when it passed on n.                              *)
WritesOf(l, n) ==
  CASE l.kind = "set_request_header" -> l.insertions
    [] l.kind = "add_authorization" ->
         <<Insertion("override", "authorization", l.value.text)>>
    [] l.kind = "set_request_id" ->
         <<Insertion("if_not_present", l.header, get(n.headers, l.header))>>
    [] OTHER -> <<>>

LEMMA OneWrite ==
  ASSUME NEW w, w.header \in Names, w.mode \in Modes, NEW ws, ws = <<w>>,
         NEW h \in Names, NEW before, NEW after,
         IF w.header = h /\ w.text # Absent
         THEN after = IF w.mode = "override" \/ before = Absent THEN w.text ELSE before
         ELSE after = before
  PROVE  FirstOf(ws, h, Len(ws), before, after)
<1>1. Len(ws) = 1 /\ DOMAIN ws = 1..1 /\ ws[1] = w
  OBVIOUS
<1>2. IsInsertions(ws)
  BY <1>1 DEF IsInsertions
<1>3. FirstOf(ws, h, 0, before, before)
  BY DEF FirstOf
<1>4. /\ 1 \in Writings(ws, h) <=> w.header = h /\ w.text # Absent
      /\ 1 \in Overriding(ws, h) <=> w.header = h /\ w.text # Absent /\ w.mode = "override"
  BY <1>1 DEF Writings, Overriding
<1>5. 0 \in Nat /\ 0 + 1 = 1 /\ 0 + 1 <= Len(ws)
  BY <1>1
<1>6. FirstOf(ws, h, 0 + 1, before, after)
  <2> DEFINE z == 0
  <2>1. z \in Nat /\ z + 1 = 1 /\ z + 1 <= Len(ws) /\ FirstOf(ws, h, z, before, before)
    BY <1>3, <1>5
  <2> HIDE DEF z
  <2>2. IF z + 1 \in Writings(ws, h)
        THEN after = IF z + 1 \in Overriding(ws, h) \/ before = Absent
                     THEN ws[z + 1].text ELSE before
        ELSE after = before
    BY <1>1, <1>4, <2>1
  <2>3. FirstOf(ws, h, z + 1, before, after)
    BY <1>2, <2>1, <2>2, FirstOfNext
  <2> QED  BY <2>3 DEF z
<1> QED  BY <1>1, <1>5, <1>6

LEMMA RequestWith ==
  ASSUME NEW q, IsRequest(q), NEW x
  PROVE  /\ [q EXCEPT !.headers = x] =
              [headers |-> x, id |-> q.id, extension |-> q.extension, uri |-> q.uri,
               chunks |-> q.chunks, wraps |-> q.wraps]
         /\ [q EXCEPT !.id = x] =
              [headers |-> q.headers, id |-> x, extension |-> q.extension, uri |-> q.uri,
               chunks |-> q.chunks, wraps |-> q.wraps]
         /\ [q EXCEPT !.extension = x] =
              [headers |-> q.headers, id |-> q.id, extension |-> x, uri |-> q.uri,
               chunks |-> q.chunks, wraps |-> q.wraps]
         /\ [q EXCEPT !.uri = x] =
              [headers |-> q.headers, id |-> q.id, extension |-> q.extension, uri |-> x,
               chunks |-> q.chunks, wraps |-> q.wraps]
         /\ [q EXCEPT !.wraps = x] =
              [headers |-> q.headers, id |-> q.id, extension |-> q.extension, uri |-> q.uri,
               chunks |-> q.chunks, wraps |-> x]
  BY DEF IsRequest

\* n is q with the headers x, the id i and the wrappers w.
Becomes(q, n, x, i, w) ==
  n.headers = x /\ n.id = i /\ n.wraps = w /\ n.chunks = q.chunks

LEMMA SetRequestIdIs ==
  ASSUME NEW q, IsRequest(q), NEW l, NEW made, NEW n, n = SetRequestId(l, q, made)
  PROVE  \/ /\ q.headers[l.header] # <<>>
            /\ Becomes(q, n, q.headers, IF q.id = Absent THEN get(q.headers, l.header) ELSE q.id,
                       q.wraps)
         \/ q.headers[l.header] = <<>> /\ made = Absent /\ n = q
         \/ /\ q.headers[l.header] = <<>> /\ made # Absent
            /\ Becomes(q, n, insert(q.headers, l.header, Plain(made)), made, q.wraps)
<1> DEFINE g == get(q.headers, l.header)
           x == insert(q.headers, l.header, Plain(made))
<1>1. CASE q.headers[l.header] # <<>>
  <2> HIDE DEF x
  <2>1. n = IF q.id = Absent THEN [q EXCEPT !.id = g] ELSE q
    BY <1>1 DEF SetRequestId
  <2> HIDE DEF g
  <2>2. CASE q.id = Absent
    BY <1>1, <2>1, <2>2, RequestWith DEF Becomes, g
  <2>3. CASE q.id # Absent
    BY <1>1, <2>1, <2>3 DEF Becomes
  <2> QED  BY <2>2, <2>3
<1>2. CASE q.headers[l.header] = <<>> /\ made = Absent
  BY <1>2 DEF SetRequestId
<1>3. CASE q.headers[l.header] = <<>> /\ made # Absent
  <2>1. n = [q EXCEPT !.id = made, !.headers = x]
    BY <1>3 DEF SetRequestId
  <2> HIDE DEF x
  <2> DEFINE r == [q EXCEPT !.id = made]
  <2>2. n = [r EXCEPT !.headers = x]
    BY <2>1
  <2>3. r = [headers |-> q.headers, id |-> made, extension |-> q.extension, uri |-> q.uri,
             chunks |-> q.chunks, wraps |-> q.wraps]
    BY RequestWith
  <2> HIDE DEF r
  <2>4. IsRequest(r) /\ r.id = made /\ r.chunks = q.chunks /\ r.wraps = q.wraps
    BY <2>3 DEF IsRequest
  <2>5. [r EXCEPT !.headers = x] =
          [headers |-> x, id |-> r.id, extension |-> r.extension, uri |-> r.uri,
           chunks |-> r.chunks, wraps |-> r.wraps]
    BY <2>4, RequestWith
  <2>6. Becomes(q, n, x, made, q.wraps)
    BY <2>2, <2>4, <2>5 DEF Becomes
  <2> QED  BY <1>3, <2>6 DEF x
<1> QED  BY <1>1, <1>2, <1>3

(* Each kind of layer, in one table.                                       *)
LEMMA PassedIs ==
  ASSUME NEW l, NEW q, IsRequest(q), NEW n, NEW k, Passed(l, q, n, k)
  PROVE  \/ l.kind = "set_request_id" /\ \E made : n = SetRequestId(l, q, made)
         \/ /\ l.kind = "set_request_header"
            /\ Becomes(q, n, ApplyAll(q.headers, l.insertions), q.id, q.wraps)
         \/ /\ l.kind = "sensitive_request"
            /\ Becomes(q, n, Marked(q.headers, l.headers), q.id, q.wraps)
         \/ /\ l.kind = "add_authorization"
            /\ Becomes(q, n, insert(q.headers, "authorization", l.value), q.id, q.wraps)
         \/ /\ l.kind = "map_request_body"
            /\ Becomes(q, n, q.headers, q.id,
                       Append(q.wraps, [wrap |-> "doubled", limit |-> 0]))
         \/ /\ l.kind = "limit" /\ ~ TooLarge(l, q)
            /\ Becomes(q, n, q.headers, q.id,
                       Append(q.wraps, [wrap |-> "limited", limit |-> BodyLimit(l, q)]))
         \/ /\ l.kind \notin {"set_request_id", "set_request_header", "sensitive_request",
                              "add_authorization", "map_request_body", "limit"}
            /\ l.kind = "validate" => validate(l, q)
            /\ Becomes(q, n, q.headers, q.id, q.wraps)
<1>1. CASE l.kind = "set_request_id"
  BY <1>1 DEF Passed
<1>2. CASE l.kind = "set_request_header"
  <2> DEFINE x == ApplyAll(q.headers, l.insertions)
  <2>1. n = [q EXCEPT !.headers = x]
    BY <1>2 DEF Passed, SetRequestHeader
  <2> HIDE DEF x
  <2>2. Becomes(q, n, x, q.id, q.wraps)
    BY <2>1, RequestWith DEF Becomes
  <2> QED  BY <1>2, <2>2 DEF x
<1>3. CASE l.kind = "sensitive_request"
  <2> DEFINE x == Marked(q.headers, l.headers)
  <2>1. n = [q EXCEPT !.headers = x]
    BY <1>3 DEF Passed, SetSensitiveRequestHeaders
  <2> HIDE DEF x
  <2>2. Becomes(q, n, x, q.id, q.wraps)
    BY <2>1, RequestWith DEF Becomes
  <2> QED  BY <1>3, <2>2 DEF x
<1>4. CASE l.kind = "add_authorization"
  <2> DEFINE x == insert(q.headers, "authorization", l.value)
  <2>1. n = [q EXCEPT !.headers = x]
    BY <1>4 DEF Passed, AddAuthorization
  <2> HIDE DEF x
  <2>2. Becomes(q, n, x, q.id, q.wraps)
    BY <2>1, RequestWith DEF Becomes
  <2> QED  BY <1>4, <2>2 DEF x
<1>5. CASE l.kind = "map_request_body"
  <2> DEFINE x == Append(q.wraps, [wrap |-> "doubled", limit |-> 0])
  <2>1. n = [q EXCEPT !.wraps = x]
    BY <1>5 DEF Passed, MapRequestBody
  <2> HIDE DEF x
  <2>2. Becomes(q, n, q.headers, q.id, x)
    BY <2>1, RequestWith DEF Becomes
  <2> QED  BY <1>5, <2>2 DEF x
<1>6. CASE l.kind = "limit"
  <2> DEFINE x == Append(q.wraps, [wrap |-> "limited", limit |-> BodyLimit(l, q)])
  <2>1. n = [q EXCEPT !.wraps = x] /\ ~ TooLarge(l, q)
    BY <1>6 DEF Passed, RequestBodyLimit
  <2> HIDE DEF x
  <2>2. Becomes(q, n, q.headers, q.id, x)
    BY <2>1, RequestWith DEF Becomes
  <2> QED  BY <1>6, <2>1, <2>2 DEF x
<1>7. CASE l.kind \notin {"set_request_id", "set_request_header", "sensitive_request",
                          "add_authorization", "map_request_body", "limit"}
  <2>1. \/ n = q /\ (l.kind = "validate" => validate(l, q))
        \/ l.kind = "add_extension" /\ n = [q EXCEPT !.extension = l.value]
        \/ l.kind = "normalize_path" /\ n = [q EXCEPT !.uri = Normalize(l.mode, q.uri)]
    BY <1>7 DEF Passed, AddExtension
  <2>2. Becomes(q, n, q.headers, q.id, q.wraps) /\ (l.kind = "validate" => validate(l, q))
    BY <2>1, RequestWith DEF Becomes
  <2> QED  BY <1>7, <2>2
<1> QED  BY <1>1, <1>2, <1>3, <1>4, <1>5, <1>6, <1>7

(* A layer and the headers of the request.                                 *)
LEMMA PassedHeaders ==
  ASSUME NEW l \in LayerType, NEW q, IsRequest(q), IsHeaders(q.headers), NEW n, NEW k,
         Passed(l, q, n, k), NEW ws, ws = WritesOf(l, n)
  PROVE  /\ IsHeaders(n.headers) /\ IsInsertions(ws)
         /\ \A h \in Names :
              /\ (\A j \in 1..Len(ws) : ws[j].header # h) => Follows(q.headers[h], n.headers[h])
              /\ FirstOf(ws, h, Len(ws), get(q.headers, h), get(n.headers, h))
         /\ l.kind = "sensitive_request" => \A h \in l.headers : Hidden(n.headers, h)
<1> DEFINE x == q.headers
           y == n.headers
           Goal == /\ IsHeaders(y) /\ IsInsertions(ws)
                   /\ \A h \in Names :
                        /\ (\A j \in 1..Len(ws) : ws[j].header # h) => Follows(x[h], y[h])
                        /\ FirstOf(ws, h, Len(ws), get(x, h), get(y, h))
                   /\ l.kind = "sensitive_request" => \A h \in l.headers : Hidden(y, h)
<1> SUFFICES Goal
  OBVIOUS
<1>1. ASSUME l.kind \notin {"set_request_id", "set_request_header", "add_authorization"},
             IsHeaders(y), \A h \in Names : Follows(x[h], y[h]),
             l.kind = "sensitive_request" => \A h \in l.headers : Hidden(y, h)
      PROVE  Goal
  <2>1. ws = <<>>
    BY <1>1 DEF WritesOf
  <2>2. Len(ws) = 0 /\ DOMAIN ws = 1..0
    BY <2>1
  <2>3. IsInsertions(ws)
    BY <2>2 DEF IsInsertions
  <2>4. ASSUME NEW h \in Names
        PROVE  FirstOf(ws, h, Len(ws), get(x, h), get(y, h))
    <3>1. get(y, h) = get(x, h)
      BY <1>1, FollowsKeeps
    <3>2. \A v : FirstOf(ws, h, 0, v, v)
      BY DEF FirstOf
    <3> QED  BY <2>2, <3>1, <3>2
  <2> QED  BY <1>1, <2>3, <2>4
<1>2. ASSUME NEW w, ws = <<w>>, w.header \in Names, w.mode \in Modes,
             l.kind # "sensitive_request",
             IsHeaders(y), \A h \in Names : h # w.header => y[h] = x[h],
             LET h == w.header
             IN IF w.text # Absent
                THEN get(y, h) = IF w.mode = "override" \/ get(x, h) = Absent
                                 THEN w.text ELSE get(x, h)
                ELSE get(y, h) = get(x, h)
      PROVE  Goal
  <2>1. Len(ws) = 1 /\ DOMAIN ws = 1..1 /\ ws[1] = w
    BY <1>2
  <2>2. IsInsertions(ws)
    BY <1>2, <2>1 DEF IsInsertions
  <2>3. ASSUME NEW h \in Names
        PROVE  /\ (\A j \in 1..Len(ws) : ws[j].header # h) => Follows(x[h], y[h])
               /\ FirstOf(ws, h, Len(ws), get(x, h), get(y, h))
    <3>1. CASE h = w.header
      <4>1. FirstOf(ws, h, Len(ws), get(x, h), get(y, h))
        BY <1>2, <3>1, OneWrite
      <4>2. 1 \in 1..Len(ws)
        BY <2>1
      <4> QED  BY <2>1, <3>1, <4>1, <4>2
    <3>2. CASE h # w.header
      <4>1. y[h] = x[h] /\ get(y, h) = get(x, h)
        BY <1>2, <3>2 DEF get
      <4>2. FirstOf(ws, h, Len(ws), get(x, h), get(y, h))
        BY <1>2, <3>2, <4>1, OneWrite
      <4> QED  BY <4>1, <4>2, FollowsItself
    <3> QED  BY <3>1, <3>2
  <2> QED  BY <1>2, <2>2, <2>3
<1>3. ASSUME y = x, l.kind \notin {"set_request_id", "set_request_header", "add_authorization",
                                   "sensitive_request"}
      PROVE  Goal
  <2>1. IsHeaders(y) /\ \A h \in Names : Follows(x[h], y[h])
    BY <1>3, FollowsItself
  <2> HIDE DEF Goal, x, y
  <2> QED  BY <1>1, <1>3, <2>1
<1>4. CASE l.kind = "set_request_id" /\ \E made : n = SetRequestId(l, q, made)
  <2> DEFINE h == l.header
             w == Insertion("if_not_present", h, get(y, h))
  <2>1. PICK made : n = SetRequestId(l, q, made)
    BY <1>4
  <2>2. ws = <<w>> /\ w.header = h /\ w.mode = "if_not_present" /\ w.text = get(y, h)
    BY <1>4 DEF WritesOf, Insertion
  <2>3. h \in Names /\ w.mode \in Modes
    BY <1>4, <2>2, LayerParts DEF Modes
  <2>4. x[h] = <<>> <=> get(x, h) = Absent
    BY <2>3, GetIs
  <2>5. \/ x[h] # <<>> /\ y = x
        \/ x[h] = <<>> /\ y = x
        \/ x[h] = <<>> /\ made # Absent /\ y = insert(x, h, Plain(made))
    BY <2>1, SetRequestIdIs DEF Becomes
  <2> HIDE DEF w, y, x
  <2>6. IsHeaders(y) /\ \A g \in Names : g # h => y[g] = x[g]
    <3>1. made # Absent => IsValue(Plain(made))
      BY DEF Plain, IsValue
    <3>2. IsHeaders(x)
      BY DEF x
    <3> QED  BY <2>3, <2>5, <3>1, <3>2, InsertIs
  <2>7. IF w.text # Absent
        THEN get(y, h) = IF w.mode = "override" \/ get(x, h) = Absent
                         THEN w.text ELSE get(x, h)
        ELSE get(y, h) = get(x, h)
    <3>1. CASE y = x
      BY <2>2, <3>1
    <3>2. CASE x[h] = <<>>
      BY <2>2, <2>4, <3>2
    <3> QED  BY <2>5, <3>1, <3>2
  <2> HIDE DEF Goal
  <2> QED  BY <1>2, <1>4, <2>2, <2>3, <2>6, <2>7
<1>5. CASE l.kind = "set_request_header" /\ y = ApplyAll(x, l.insertions)
  <2>1. ws = l.insertions /\ IsInsertions(ws)
    BY <1>5, LayerParts DEF WritesOf
  <2>2. /\ IsHeaders(y)
        /\ \A h \in Names :
             /\ (\A j \in 1..Len(ws) : ws[j].header # h) => y[h] = x[h]
             /\ FirstOf(ws, h, Len(ws), get(x, h), get(y, h))
    BY <1>5, <2>1, ApplyAllGives
  <2>3. \A h \in Names : y[h] = x[h] => Follows(x[h], y[h])
    BY FollowsItself
  <2> QED  BY <1>5, <2>1, <2>2, <2>3
<1>6. CASE l.kind = "sensitive_request" /\ y = Marked(x, l.headers)
  <2>1. /\ IsHeaders(y)
        /\ \A h \in Names : Follows(x[h], y[h]) /\ (h \in l.headers => Hidden(y, h))
    BY <1>6, MarkedIs
  <2>2. l.headers \subseteq Names
    BY <1>6, LayerParts
  <2> HIDE DEF Goal, x, y
  <2> QED  BY <1>1, <1>6, <2>1, <2>2
<1>7. CASE l.kind = "add_authorization" /\ y = insert(x, "authorization", l.value)
  <2> DEFINE h == "authorization"
             w == Insertion("override", h, l.value.text)
  <2>1. ws = <<w>> /\ w.header = h /\ w.mode = "override" /\ w.text = l.value.text
    BY <1>7 DEF WritesOf, Insertion
  <2>2. h \in Names /\ w.mode \in Modes /\ IsValue(l.value)
    BY <1>7, <2>1, LayerParts DEF Modes, Names
  <2>3. y = insert(x, h, l.value) /\ IsHeaders(x)
    BY <1>7
  <2> HIDE DEF w, h, x, y
  <2>4. /\ IsHeaders(y) /\ get(y, h) = l.value.text
        /\ \A g \in Names : g # h => y[g] = x[g]
    BY <2>2, <2>3, InsertIs
  <2> HIDE DEF Goal
  <2>5. w.text # Absent
    BY <2>1, <2>2 DEF IsValue
  <2>6. w.header \in Names /\ l.kind # "sensitive_request"
        /\ \A g \in Names : g # w.header => y[g] = x[g]
    BY <1>7, <2>1, <2>2, <2>4
  <2>7. get(y, w.header) = w.text
    BY <2>1, <2>4
  <2> QED  BY <1>2, <2>1, <2>2, <2>4, <2>5, <2>6, <2>7
<1> QED
  <2>1. \/ l.kind = "set_request_id" /\ \E made : n = SetRequestId(l, q, made)
        \/ l.kind = "set_request_header" /\ y = ApplyAll(x, l.insertions)
        \/ l.kind = "sensitive_request" /\ y = Marked(x, l.headers)
        \/ l.kind = "add_authorization" /\ y = insert(x, "authorization", l.value)
        \/ /\ l.kind \notin {"set_request_id", "set_request_header", "add_authorization",
                             "sensitive_request"}
           /\ y = x
    BY PassedIs DEF Becomes
  <2> HIDE DEF Goal, x, y
  <2> QED  BY <1>3, <1>4, <1>5, <1>6, <1>7, <2>1

LEMMA NumberIs ==
  ASSUME NEW text
  PROVE  AsNumber(text) \in Nat \/ AsNumber(text) = -1
  BY DEF AsNumber

LEMMA BodyLimitIs ==
  ASSUME NEW l, l.limit \in Nat, NEW q
  PROVE  /\ BodyLimit(l, q) \in Nat /\ BodyLimit(l, q) <= l.limit
         /\ ~ TooLarge(l, q) =>
              BodyLimit(l, q) = IF ContentLength(q.headers) = -1 THEN l.limit
                                ELSE ContentLength(q.headers)
<1> DEFINE c == ContentLength(q.headers)
<1>1. c \in Nat \/ c = -1
  BY NumberIs DEF ContentLength
<1>2. /\ BodyLimit(l, q) = IF c = -1 \/ c > l.limit THEN l.limit ELSE c
      /\ TooLarge(l, q) <=> c > l.limit
  BY DEF BodyLimit, TooLarge
<1> HIDE DEF c
<1>3. BodyLimit(l, q) \in Nat /\ BodyLimit(l, q) <= l.limit
  BY <1>1, <1>2
<1>4. ~ TooLarge(l, q) => BodyLimit(l, q) = IF c = -1 THEN l.limit ELSE c
  BY <1>2
<1> QED  BY <1>3, <1>4 DEF c

LEMMA OneWrapMore ==
  ASSUME NEW w, IsWraps(w), NEW e, e.wrap = "limited" \/ e.wrap = "doubled", e.limit \in Nat,
         NEW v, v = Append(w, e)
  PROVE  IsWraps(v)
<1>1. IsSeq(w) /\ Len(w) \in Nat
  BY DEF IsWraps, IsSeq
<1>2. /\ IsSeq(v) /\ Len(v) = Len(w) + 1
      /\ v[Len(w) + 1] = e /\ \A j \in 1..Len(w) : v[j] = w[j]
  BY <1>1, AppendIs
<1>3. ASSUME NEW i \in 1..Len(v)
      PROVE  v[i].wrap \in {"limited", "doubled"} /\ v[i].limit \in Nat
  <2>1. i \in 1..Len(w) \/ i = Len(w) + 1
    BY <1>1, <1>2
  <2> QED  BY <1>1, <1>2, <2>1 DEF IsWraps
<1> QED  BY <1>2, <1>3 DEF IsWraps

(* A layer and the body and id of the request.                             *)
LEMMA PassedBody ==
  ASSUME NEW l \in LayerType, NEW q, IsRequest(q), IsWraps(q.wraps), NEW n, NEW k,
         Passed(l, q, n, k)
  PROVE  /\ IsWraps(n.wraps) /\ n.chunks = q.chunks
         /\ l.kind # "set_request_id" => n.id = q.id
         /\ l.kind \notin {"limit", "map_request_body"} => n.wraps = q.wraps
         /\ l.kind \in {"limit", "map_request_body"} =>
              /\ Len(n.wraps) = Len(q.wraps) + 1
              /\ \A j \in 1..Len(q.wraps) : n.wraps[j] = q.wraps[j]
         /\ l.kind = "limit" =>
              /\ ~ TooLarge(l, q)
              /\ n.wraps[Len(n.wraps)].wrap = "limited"
              /\ n.wraps[Len(n.wraps)].limit = BodyLimit(l, q)
         /\ l.kind = "map_request_body" => n.wraps[Len(n.wraps)].wrap = "doubled"
<1> DEFINE w == q.wraps
<1>1. IsWraps(w)
  OBVIOUS
<1> HIDE DEF w
<1>3. CASE l.kind = "limit"
  <2> DEFINE e == [wrap |-> "limited", limit |-> BodyLimit(l, q)]
  <2>1. ~ TooLarge(l, q) /\ Becomes(q, n, q.headers, q.id, Append(w, e))
    BY <1>3, PassedIs DEF w
  <2>2. e.wrap = "limited" /\ e.limit = BodyLimit(l, q) /\ e.limit \in Nat
    BY <1>3, BodyLimitIs, LayerParts
  <2> HIDE DEF e
  <2>3. n.wraps = Append(w, e) /\ n.id = q.id /\ n.chunks = q.chunks
    BY <2>1 DEF Becomes
  <2>4. /\ IsWraps(n.wraps) /\ Len(n.wraps) = Len(w) + 1 /\ n.wraps[Len(n.wraps)] = e
        /\ \A j \in 1..Len(w) : n.wraps[j] = w[j]
    <3> DEFINE v == n.wraps
    <3>1. v = Append(w, e)
      BY <2>3
    <3> HIDE DEF v
    <3>2. /\ IsWraps(v) /\ Len(v) = Len(w) + 1 /\ v[Len(v)] = e
          /\ \A j \in 1..Len(w) : v[j] = w[j]
      <4>1. IsWraps(v)
        BY <1>1, <2>2, <3>1, OneWrapMore
      <4>2. IsSeq(w) /\ Len(w) \in Nat
        BY <1>1 DEF IsWraps, IsSeq
      <4> QED  BY <3>1, <4>1, <4>2, AppendIs
    <3> QED  BY <3>2 DEF v
  <2> QED  BY <1>3, <2>1, <2>2, <2>3, <2>4 DEF w
<1>4. CASE l.kind = "map_request_body"
  <2> DEFINE e == [wrap |-> "doubled", limit |-> 0]
  <2>1. Becomes(q, n, q.headers, q.id, Append(w, e))
    BY <1>4, PassedIs DEF w
  <2>2. e.wrap = "doubled" /\ e.limit \in Nat
    OBVIOUS
  <2> HIDE DEF e
  <2>3. n.wraps = Append(w, e) /\ n.id = q.id /\ n.chunks = q.chunks
    BY <2>1 DEF Becomes
  <2>4. /\ IsWraps(n.wraps) /\ Len(n.wraps) = Len(w) + 1 /\ n.wraps[Len(n.wraps)] = e
        /\ \A j \in 1..Len(w) : n.wraps[j] = w[j]
    <3> DEFINE v == n.wraps
    <3>1. v = Append(w, e)
      BY <2>3
    <3> HIDE DEF v
    <3>2. /\ IsWraps(v) /\ Len(v) = Len(w) + 1 /\ v[Len(v)] = e
          /\ \A j \in 1..Len(w) : v[j] = w[j]
      <4>1. IsWraps(v)
        BY <1>1, <2>2, <3>1, OneWrapMore
      <4>2. IsSeq(w) /\ Len(w) \in Nat
        BY <1>1 DEF IsWraps, IsSeq
      <4> QED  BY <3>1, <4>1, <4>2, AppendIs
    <3> QED  BY <3>2 DEF v
  <2> QED  BY <1>4, <2>1, <2>2, <2>3, <2>4 DEF w
<1>5. CASE l.kind = "set_request_id"
  <2>1. PICK made : n = SetRequestId(l, q, made)
    BY <1>5, PassedIs
  <2>2. n.wraps = q.wraps /\ n.chunks = q.chunks
    BY <2>1, SetRequestIdIs DEF Becomes
  <2> QED  BY <1>5, <2>2
<1>6. CASE l.kind \notin {"limit", "map_request_body", "set_request_id"}
  <2>1. n.wraps = q.wraps /\ n.chunks = q.chunks /\ n.id = q.id
    <3>1. \E x : Becomes(q, n, x, q.id, q.wraps)
      BY <1>6, PassedIs
    <3> QED  BY <3>1 DEF Becomes
  <2> QED  BY <1>6, <2>1
<1> QED  BY <1>3, <1>4, <1>5, <1>6

-----------------------------------------------------------------------------
(* What one layer does to a result.                                        *)
LEMMA NoHeadersIs == IsHeaders(NoHeaders)
<1> DEFINE e == <<>>
<1>1. IsSeq(e) /\ Len(e) = 0
  BY DEF IsSeq
<1>2. NoHeaders = [h \in Names |-> e]
  BY DEF NoHeaders
<1> HIDE DEF e
<1> QED  BY <1>1, <1>2 DEF IsHeaders

LEMMA ResultHeaders ==
  /\ NoResult.headers = NoHeaders /\ Error.headers = NoHeaders
  /\ \A w : Panic(w).headers = NoHeaders
  /\ \A s, b : Response(s, b).headers = NoHeaders
<1>1. NoResult.headers = NoHeaders
  BY DEF NoResult, NoResponse
<1>2. Error.headers = NoHeaders
  BY DEF NoResponse, Error
<1>3. ASSUME NEW w PROVE Panic(w).headers = NoHeaders
  <2> DEFINE b == <<w>>
  <2> HIDE DEF b
  <2>1. Panic(w) = [NoResponse EXCEPT !.kind = "panic", !.body = b]
    BY DEF Panic, b
  <2>2. [NoResponse EXCEPT !.kind = "panic", !.body = b] =
          [kind |-> "panic", status |-> 0, headers |-> NoHeaders, id |-> Absent, body |-> b]
    BY NoResponseWith
  <2> QED  BY <2>1, <2>2
<1>4. ASSUME NEW s, NEW b PROVE Response(s, b).headers = NoHeaders
  BY NoResponseWith DEF Response
<1> QED  BY <1>1, <1>2, <1>3, <1>4

LEMMA ResponseWith ==
  ASSUME NEW r, IsResult(r), NEW x
  PROVE  /\ [r EXCEPT !.headers = x].headers = x /\ [r EXCEPT !.headers = x].id = r.id
         /\ [r EXCEPT !.headers = x].kind = r.kind
         /\ [r EXCEPT !.id = x].headers = r.headers /\ [r EXCEPT !.id = x].id = x
         /\ [r EXCEPT !.id = x].kind = r.kind
         /\ [r EXCEPT !.body = x].headers = r.headers /\ [r EXCEPT !.body = x].id = r.id
         /\ [r EXCEPT !.body = x].kind = r.kind
         /\ [r EXCEPT !.status = x].headers = r.headers /\ [r EXCEPT !.status = x].id = r.id
         /\ [r EXCEPT !.status = x].kind = r.kind
  BY DEF IsResult

LEMMA OwnHeaders ==
  /\ \A s, t : IsHeaders(TextResponse(s, t).headers)
  /\ IsHeaders(response_for_panic.headers) /\ IsHeaders(create_error_response.headers)
  /\ \A l : IsHeaders(Refusal(l).headers)
<1>1. ASSUME NEW s, NEW b, NEW h \in Names, NEW v, v # Absent
      PROVE  IsHeaders([Response(s, b) EXCEPT
                          !.headers = insert(Response(s, b).headers, h, Plain(v))].headers)
  <2> DEFINE r == Response(s, b)
             x == insert(r.headers, h, Plain(v))
  <2>1. IsResult(r) /\ r.headers = NoHeaders
    BY TextShapes, ResultHeaders
  <2>2. IsValue(Plain(v))
    BY <1>1 DEF IsValue, Plain
  <2>3. IsHeaders(x)
    BY <2>1, <2>2, NoHeadersIs, InsertIs
  <2> HIDE DEF r, x
  <2>4. [r EXCEPT !.headers = x].headers = x
    BY <2>1, ResponseWith
  <2> QED  BY <2>3, <2>4 DEF r, x
<1>2. ASSUME NEW s, NEW t
      PROVE  IsHeaders(TextResponse(s, t).headers)
  <2> DEFINE h == "content-type"
             v == "text/plain"
             b == <<t>>
  <2>1. h \in Names /\ v # Absent
    BY DEF Names, Absent
  <2>2. TextResponse(s, t) = [Response(s, b) EXCEPT
                                !.headers = insert(Response(s, b).headers, h, Plain(v))]
    BY DEF TextResponse
  <2> HIDE DEF h, v, b
  <2> QED  BY <1>1, <2>1, <2>2
<1>3. ASSUME NEW l
      PROVE  IsHeaders(Refusal(l).headers)
  <2> DEFINE s == RefusalStatus[l.rule]
             b == <<>>
             h == "www-authenticate"
             v == "Basic"
  <2>1. h \in Names /\ v # Absent
    BY DEF Names, Absent
  <2>2. \/ Refusal(l) = Response(s, b)
        \/ Refusal(l) = [Response(s, b) EXCEPT
                           !.headers = insert(Response(s, b).headers, h, Plain(v))]
    BY DEF Refusal
  <2> HIDE DEF h, v, b, s
  <2>3. IsHeaders(Response(s, b).headers)
    BY NoHeadersIs, ResultHeaders
  <2> QED  BY <1>1, <2>1, <2>2, <2>3
<1>4. IsHeaders(response_for_panic.headers) /\ IsHeaders(create_error_response.headers)
  BY <1>2, Zenon DEF response_for_panic, create_error_response
<1> QED  BY <1>2, <1>3, <1>4

\* The values the future of a layer keeps.
IsKept(k) == k = <<>> \/ (k # <<>> /\ IsValue(k[1]))

LEMMA KeptIs ==
  ASSUME NEW l \in LayerType, NEW q, IsHeaders(q.headers), NEW n, NEW k, Passed(l, q, n, k),
         l.kind \in {"propagate_request_id", "propagate_header"}
  PROVE  /\ IsKept(k)
         /\ q.headers[l.header] = <<>> <=> k = <<>>
         /\ q.headers[l.header] # <<>> => k[1] = q.headers[l.header][1]
<1> DEFINE s == q.headers[l.header]
           one == <<s[1]>>
<1>1. l.header \in Names
  BY LayerParts
<1>2. k = IF s = <<>> THEN <<>> ELSE one
  BY DEF Passed, PropagateRequestIdCall, PropagateHeaderCall
<1>3. one # <<>> /\ one[1] = s[1]
  OBVIOUS
<1>4. s # <<>> => IsValue(s[1])
  <2>1. s # <<>> => 1 \in 1..Len(s)
    BY <1>1, GetIs
  <2> QED  BY <1>1, <2>1 DEF IsHeaders
<1> HIDE DEF one, s
<1>5. /\ s = <<>> <=> k = <<>>
      /\ s # <<>> => k[1] = s[1]
  BY <1>2, <1>3
<1> QED  BY <1>4, <1>5, Zenon DEF IsKept, s

(* A response that comes through a layer, and its headers.                 *)
WritesBack(l, h) ==
  \/ /\ l.kind = "set_response_header"
     /\ \E n \in 1..Len(l.insertions) : l.insertions[n].header = h
  \/ l.kind \in {"propagate_header", "propagate_request_id"} /\ l.header = h

Rewritten(l, k, x, r) ==
  /\ r.kind = "response"
  /\ \A h \in Names : ~ WritesBack(l, h) => Follows(x.headers[h], r.headers[h])
  /\ l.kind = "sensitive_response" => \A h \in l.headers : Hidden(r.headers, h)
  /\ l.kind # "propagate_request_id" => r.id = x.id
  /\ l.kind = "propagate_header" =>
       r.headers = IF k = <<>> THEN x.headers ELSE insert(x.headers, l.header, k[1])

LEMMA ReturnedIs ==
  ASSUME NEW l \in LayerType, NEW k, NEW x, IsResult(x), IsHeaders(x.headers), NEW r,
         l.kind \in {"propagate_request_id", "propagate_header"} => IsKept(k),
         Returned(l, k, x, r)
  PROVE  IsHeaders(r.headers) /\ (x.kind = "response" => Rewritten(l, k, x, r))
<1> SUFFICES /\ IsHeaders(r.headers)
             /\ x.kind = "response" =>
                  /\ r.kind = "response"
                  /\ \A h \in Names : ~ WritesBack(l, h) => Follows(x.headers[h], r.headers[h])
                  /\ l.kind = "sensitive_response" => \A h \in l.headers : Hidden(r.headers, h)
                  /\ l.kind # "propagate_request_id" => r.id = x.id
                  /\ l.kind = "propagate_header" =>
                       r.headers = IF k = <<>> THEN x.headers
                                   ELSE insert(x.headers, l.header, k[1])
  BY DEF Rewritten
<1>1. CASE x.kind # "response" /\ l.kind # "catch_panic"
  BY <1>1 DEF Returned
<1>2. CASE x.kind # "response" /\ l.kind = "catch_panic"
  <2>1. r = IF Caught(x) THEN response_for_panic ELSE x
    BY <1>2 DEF Returned
  <2>2. IsHeaders(r.headers)
    <3>1. CASE r = response_for_panic
      BY <3>1, OwnHeaders
    <3>2. CASE r = x
      BY <3>2
    <3> QED  BY <2>1, <3>1, <3>2
  <2> QED  BY <1>2, <2>2
<1>3. CASE x.kind = "response"
  <2>1. ASSUME r.headers = x.headers, r.kind = "response", r.id = x.id,
               l.kind \notin {"sensitive_response", "propagate_header"}
        PROVE  /\ IsHeaders(r.headers) /\ r.kind = "response"
               /\ \A h \in Names : ~ WritesBack(l, h) => Follows(x.headers[h], r.headers[h])
               /\ l.kind = "sensitive_response" => \A h \in l.headers : Hidden(r.headers, h)
               /\ l.kind # "propagate_request_id" => r.id = x.id
               /\ l.kind = "propagate_header" =>
                    r.headers = IF k = <<>> THEN x.headers
                                ELSE insert(x.headers, l.header, k[1])
    BY <2>1, FollowsItself
  <2>2. CASE l.kind = "propagate_request_id"
    <3> DEFINE g == get(x.headers, l.header)
               y == insert(x.headers, l.header, k[1])
               t == k[1].text
    <3>1. \/ r = x
          \/ r = [x EXCEPT !.id = g]
          \/ k # <<>> /\ r = [x EXCEPT !.id = t, !.headers = y]
      BY <1>3, <2>2 DEF Returned, PropagateRequestIdPoll
    <3>2. l.header \in Names /\ IsKept(k)
      BY <2>2, LayerParts
    <3>3. k # <<>> => IsHeaders(y) /\ \A h \in Names : h # l.header => y[h] = x.headers[h]
      BY <3>2, InsertIs DEF IsKept
    <3> HIDE DEF g, y, t
    <3>4. \/ r.headers = x.headers /\ r.kind = x.kind
          \/ k # <<>> /\ r.headers = y /\ r.kind = x.kind
      <4>1. CASE r = x
        BY <4>1
      <4>2. CASE r = [x EXCEPT !.id = g]
        BY <4>2, ResponseWith
      <4>3. CASE k # <<>> /\ r = [x EXCEPT !.id = t, !.headers = y]
        <5> DEFINE z == [x EXCEPT !.id = t]
        <5>1. IsResult(z) /\ z.kind = x.kind
          BY ResponseShapes
        <5>2. r = [z EXCEPT !.headers = y]
          BY <4>3
        <5> HIDE DEF z
        <5>3. r.headers = y /\ r.kind = z.kind
          BY <5>1, <5>2, ResponseWith
        <5> QED  BY <4>3, <5>1, <5>3
      <4> QED  BY <3>1, <4>1, <4>2, <4>3
    <3>5. \A h \in Names : ~ WritesBack(l, h) => h # l.header
      BY <2>2 DEF WritesBack
    <3> QED  BY <1>3, <2>2, <3>3, <3>4, <3>5, FollowsItself
  <2>3. CASE l.kind = "propagate_header"
    <3> DEFINE y == insert(x.headers, l.header, k[1])
    <3>1. r = IF k = <<>> THEN x ELSE [x EXCEPT !.headers = y]
      BY <1>3, <2>3 DEF Returned, PropagateHeaderPoll
    <3>2. l.header \in Names /\ IsKept(k)
      BY <2>3, LayerParts
    <3>3. k # <<>> => IsHeaders(y) /\ \A h \in Names : h # l.header => y[h] = x.headers[h]
      BY <3>2, InsertIs DEF IsKept
    <3> HIDE DEF y
    <3>4. r.kind = x.kind /\ r.id = x.id /\ r.headers = IF k = <<>> THEN x.headers ELSE y
      BY <3>1, ResponseWith
    <3>5. \A h \in Names : ~ WritesBack(l, h) => h # l.header
      BY <2>3 DEF WritesBack
    <3>6. IsHeaders(r.headers) /\ \A h \in Names : h # l.header => r.headers[h] = x.headers[h]
      BY <3>3, <3>4
    <3> QED  BY <1>3, <2>3, <3>4, <3>5, <3>6, FollowsItself DEF y
  <2>4. CASE l.kind = "set_response_header"
    <3> DEFINE y == ApplyAll(x.headers, l.insertions)
    <3>1. r = [x EXCEPT !.headers = y]
      BY <1>3, <2>4 DEF Returned, SetResponseHeader
    <3>2. IsInsertions(l.insertions)
      BY <2>4, LayerParts
    <3>3. /\ IsHeaders(y)
          /\ \A h \in Names :
               (\A n \in 1..Len(l.insertions) : l.insertions[n].header # h) => y[h] = x.headers[h]
      BY <3>2, ApplyAllGives
    <3> HIDE DEF y
    <3>4. r.headers = y /\ r.kind = x.kind /\ r.id = x.id
      BY <3>1, ResponseWith
    <3>5. \A h \in Names : ~ WritesBack(l, h) => y[h] = x.headers[h]
      BY <2>4, <3>3 DEF WritesBack
    <3> QED  BY <1>3, <2>4, <3>3, <3>4, <3>5, FollowsItself
  <2>5. CASE l.kind = "sensitive_response"
    <3> DEFINE y == Marked(x.headers, l.headers)
    <3>1. r = [x EXCEPT !.headers = y]
      BY <1>3, <2>5 DEF Returned, SetSensitiveResponseHeaders
    <3>2. l.headers \subseteq Names
      BY <2>5, LayerParts
    <3>3. /\ IsHeaders(y)
          /\ \A h \in Names : Follows(x.headers[h], y[h]) /\ (h \in l.headers => Hidden(y, h))
      BY MarkedIs
    <3> HIDE DEF y
    <3>4. r.headers = y /\ r.kind = x.kind /\ r.id = x.id
      BY <3>1, ResponseWith
    <3> QED  BY <1>3, <2>5, <3>2, <3>3, <3>4
  <2>6. CASE l.kind = "map_response_body"
    <3> DEFINE b == Append(x.body, "mapped")
    <3>1. r = [x EXCEPT !.body = b]
      BY <1>3, <2>6 DEF Returned, MapResponseBody
    <3> HIDE DEF b
    <3>2. r.headers = x.headers /\ r.kind = x.kind /\ r.id = x.id
      BY <3>1, ResponseWith
    <3> QED  BY <1>3, <2>1, <2>6, <3>2
  <2>7. CASE l.kind = "set_status"
    <3> DEFINE s == l.status
    <3>1. r = [x EXCEPT !.status = s]
      BY <1>3, <2>7 DEF Returned, SetStatus
    <3> HIDE DEF s
    <3>2. r.headers = x.headers /\ r.kind = x.kind /\ r.id = x.id
      BY <3>1, ResponseWith
    <3> QED  BY <1>3, <2>1, <2>7, <3>2
  <2>8. CASE l.kind \notin {"propagate_request_id", "propagate_header", "set_response_header",
                            "sensitive_response", "map_response_body", "set_status"}
    <3>1. r = x
      BY <1>3, <2>8 DEF Returned, Caught
    <3> QED  BY <1>3, <2>1, <2>8, <3>1
  <2> QED  BY <2>2, <2>3, <2>4, <2>5, <2>6, <2>7, <2>8
<1> QED  BY <1>1, <1>2, <1>3

-----------------------------------------------------------------------------
(* The history is kept by every step.                                      *)
LEMMA ExchangeFacts ==
  ASSUME ExchangeInv
  PROVE  /\ Len(layers) \in Nat /\ Bottom = Len(layers) + 1 /\ Bottom \in Nat
         /\ Len(calls) \in 1..Bottom /\ IsSeq(calls) /\ IsSeq(kept) /\ Len(kept) = Len(calls) - 1
         /\ at \in Nat /\ at < Len(calls)
         /\ \A i \in 1..Len(layers) : layers[i] \in LayerType
         /\ \A i \in 1..Len(calls) :
              /\ IsRequest(calls[i]) /\ IsHeaders(calls[i].headers) /\ IsWraps(calls[i].wraps)
              /\ calls[i].chunks = calls[1].chunks
         /\ calls[1].chunks \in Seq(Nat) /\ calls[1].wraps = <<>>
         /\ \A i \in 1..Bottom :
              /\ IsResult(results[i]) /\ IsHeaders(results[i].headers)
              /\ Len(calls) < i => results[i].kind = "none"
         /\ results = [i \in 1..Bottom |-> results[i]]
<1>1. Shape /\ Messages /\ History /\ Contents
  BY DEF ExchangeInv, StackInv
<1>2. Len(layers) \in Nat /\ Bottom = Len(layers) + 1 /\ Bottom \in Nat
  <2>1. Len(layers) \in Nat
    BY <1>1 DEF Shape, IsSeq
  <2> QED  BY <2>1 DEF Bottom
<1>3. \A i \in 1..Len(layers) : layers[i] \in LayerType
  BY <1>1, ElementOfSeq DEF History
<1>4. calls[1].chunks \in Seq(Nat) /\ calls[1].wraps = <<>>
  BY <1>1 DEF History, RequestType
<1>5. \A i \in 1..Len(calls) :
        /\ IsRequest(calls[i]) /\ IsHeaders(calls[i].headers) /\ IsWraps(calls[i].wraps)
        /\ calls[i].chunks = calls[1].chunks
  BY <1>1 DEF Messages, Contents
<1>6. \A i \in 1..Bottom :
        /\ IsResult(results[i]) /\ IsHeaders(results[i].headers)
        /\ Len(calls) < i => results[i].kind = "none"
  BY <1>1 DEF Shape, Contents
<1>7. /\ Len(calls) \in 1..Bottom /\ IsSeq(calls) /\ IsSeq(kept) /\ Len(kept) = Len(calls) - 1
      /\ at \in Nat /\ at < Len(calls)
      /\ results = [i \in 1..Bottom |-> results[i]]
  BY <1>1 DEF Shape, History
<1> QED  BY <1>2, <1>3, <1>4, <1>5, <1>6, <1>7

LEMMA ForwardKeeps ==
  ASSUME ExchangeInv, phase = "call", NEW req, NEW k, Forward(req, k),
         Passed(Layer, Req, req, k), StackInv'
  PROVE  ExchangeInv'
<1> DEFINE n == Len(calls)
<1>1. /\ calls' = Append(calls, req) /\ kept' = Append(kept, k)
      /\ UNCHANGED <<layers, results, at, taken, fault>>
      /\ phase' = "handle" \/ phase' = "call"
  BY DEF Forward
<1>2. /\ Len(layers) \in Nat /\ IsSeq(calls) /\ n \in 1..Len(layers) /\ Bottom = Len(layers) + 1
      /\ IsSeq(kept) /\ Len(kept) = n - 1
  <2>1. n < Bottom
    BY DEF ExchangeInv, StackInv, Shape
  <2> QED  BY <2>1, ExchangeFacts
<1>3. /\ IsSeq(calls') /\ Len(calls') = n + 1 /\ calls'[n + 1] = req
      /\ \A i \in 1..n : calls'[i] = calls[i]
  BY <1>1, <1>2, AppendIs
<1>4. /\ IsSeq(kept') /\ Len(kept') = n /\ kept'[n] = k
      /\ \A i \in 1..(n - 1) : kept'[i] = kept[i]
  <2>1. /\ IsSeq(kept') /\ Len(kept') = (n - 1) + 1 /\ kept'[(n - 1) + 1] = k
        /\ \A i \in 1..(n - 1) : kept'[i] = kept[i]
    BY <1>1, <1>2, AppendIs
  <2>2. (n - 1) + 1 = n
    BY <1>2
  <2> QED  BY <2>1, <2>2
<1>5. /\ Layer = layers[n] /\ Req = calls[n] /\ Layer \in LayerType
      /\ IsRequest(Req) /\ IsHeaders(Req.headers) /\ IsWraps(Req.wraps)
      /\ Req.chunks = calls[1].chunks
  BY <1>2, ExchangeFacts DEF Layer, Req
<1>6. IsHeaders(req.headers) /\ IsWraps(req.wraps) /\ req.chunks = calls[1].chunks
  <2>1. IsHeaders(req.headers)
    BY <1>5, PassedHeaders
  <2>2. IsWraps(req.wraps) /\ req.chunks = Req.chunks
    BY <1>5, PassedBody
  <2> QED  BY <1>5, <2>1, <2>2
<1>7. calls'[1] = calls[1] /\ Bottom' = Bottom
  BY <1>1, <1>2, <1>3 DEF Bottom
<1> HIDE DEF n
<1>8. History'
  <2>1. layers' \in Seq(LayerType) /\ calls'[1] \in RequestType
    BY <1>1, <1>7 DEF ExchangeInv, History
  <2>2. ASSUME NEW i \in 1..n
        PROVE  Passed(layers[i], calls'[i], calls'[i + 1], kept'[i])
    <3>1. CASE i = n
      BY <1>2, <1>3, <1>4, <1>5, <3>1
    <3>2. CASE i # n
      <4>1. i \in 1..(n - 1) /\ i + 1 \in 1..n
        BY <1>2, <3>2
      <4>2. Passed(layers[i], calls[i], calls[i + 1], kept[i])
        BY <1>2, <4>1 DEF ExchangeInv, History
      <4> QED  BY <1>3, <1>4, <4>1, <4>2
    <3> QED  BY <3>1, <3>2
  <2>3. Len(kept') = Len(calls') - 1
    BY <1>2, <1>3, <1>4
  <2>4. phase' # "poll"
    BY <1>1
  <2> QED  BY <1>1, <1>4, <2>1, <2>2, <2>3, <2>4 DEF History
<1>9. Contents'
  <2>1. ASSUME NEW i \in 1..(n + 1)
        PROVE  /\ IsHeaders(calls'[i].headers) /\ IsWraps(calls'[i].wraps)
               /\ calls'[i].chunks = calls'[1].chunks
    <3>1. CASE i = n + 1
      BY <1>3, <1>6, <1>7, <3>1
    <3>2. CASE i # n + 1
      <4>1. i \in 1..n
        BY <1>2, <3>2
      <4> QED  BY <1>3, <1>7, <4>1, ExchangeFacts DEF n
    <3> QED  BY <3>1, <3>2
  <2>2. \A i \in 1..Bottom :
          IsHeaders(results'[i].headers) /\ (Len(calls') < i => results'[i].kind = "none")
    BY <1>1, <1>2, <1>3, ExchangeFacts DEF n
  <2>3. \A i \in 1..Len(calls') :
          /\ IsHeaders(calls'[i].headers) /\ IsWraps(calls'[i].wraps)
          /\ calls'[i].chunks = calls'[1].chunks
    BY <1>3, <2>1
  <2>4. \A i \in 1..Bottom' :
          IsHeaders(results'[i].headers) /\ (Len(calls') < i => results'[i].kind = "none")
    BY <1>7, <2>2
  <2> QED  BY <2>3, <2>4 DEF Contents
<1>10. Reading'
  <2> DEFINE w == req.wraps
             c == calls[1].chunks
  <2>1. taken = 0 /\ fault = FALSE /\ taken' = 0 /\ fault' = FALSE
    BY <1>1 DEF ExchangeInv, Reading
  <2>2. Size(c, 0) = 0
    BY ExchangeFacts, SizeIs
  <2>3. Given' = 0
    BY <1>7, <2>1, <2>2 DEF Given
  <2>4. taken' \in 0..Len(calls'[1].chunks)
    BY <1>1, <1>7 DEF ExchangeInv, Reading
  <2>5. Len(w) \in Nat /\ \A j \in 1..Len(w) : w[j].limit \in Nat
    BY <1>6 DEF IsWraps, IsSeq
  <2> HIDE DEF w, c
  <2>6. \A j \in 1..Len(w) : Through(w, j - 1, 0) <= w[j].limit
    <3>1. \A j \in 0..Len(w) : Through(w, j, 0) = 0
      BY <2>5, ThroughGrows
    <3> QED  BY <2>5, <3>1
  <2>7. Len(calls') = Bottom => calls'[Bottom].wraps = w
    BY <1>3 DEF w
  <2> QED  BY <1>7, <2>1, <2>3, <2>4, <2>6, <2>7 DEF Reading
<1> QED  BY <1>8, <1>9, <1>10 DEF ExchangeInv

LEMMA AnswerKeeps ==
  ASSUME ExchangeInv, phase \in {"call", "handle"}, NEW res, Answer(res),
         IsHeaders(res.headers), phase = "call" => Refused(Layer, Req, res), StackInv'
  PROVE  ExchangeInv'
<1> DEFINE n == Len(calls)
<1>1. /\ UNCHANGED <<layers, calls, kept, taken, fault>> /\ phase' = "poll"
      /\ results' = [results EXCEPT ![n] = res] /\ at' = n - 1
  BY DEF Answer
<1>2. /\ n \in 1..Bottom /\ Bottom \in Nat /\ Len(kept) = n - 1
      /\ results = [i \in 1..Bottom |-> results[i]]
  BY ExchangeFacts
<1>3. Bottom' = Bottom /\ Len(calls') = n
  BY <1>1 DEF Bottom
<1>4. /\ results'[n] = res
      /\ \A i \in 1..Bottom : i # n => results'[i] = results[i]
  BY <1>1, <1>2
<1>5. History'
  <2>1. ASSUME n < Bottom
        PROVE  Refused(layers[n], calls[n], results'[n])
    <3>1. phase = "call"
      BY <2>1, <1>2 DEF ExchangeInv, StackInv, Shape
    <3> QED  BY <1>4, <3>1 DEF Layer, Req
  <2>2. \A i \in 1..Len(kept') : ~ (at' < i)
    BY <1>1, <1>2
  <2> QED  BY <1>1, <1>3, <2>1, <2>2 DEF ExchangeInv, History, IsSeq
<1>6. Contents'
  <2>1. \A i \in 1..Bottom :
          IsHeaders(results'[i].headers) /\ (Len(calls') < i => results'[i].kind = "none")
    BY <1>2, <1>3, <1>4, ExchangeFacts
  <2> QED  BY <1>1, <1>3, <2>1 DEF ExchangeInv, Contents
<1>7. Reading'
  BY <1>1, <1>3 DEF ExchangeInv, Reading, Given, Total
<1> QED  BY <1>5, <1>6, <1>7 DEF ExchangeInv

LEMMA YieldKeeps ==
  ASSUME ExchangeInv, phase = "poll", at > 0, NEW res, Yield(res),
         Returned(layers[at], kept[at], Inner, res), StackInv'
  PROVE  ExchangeInv'
<1>1. /\ UNCHANGED <<layers, calls, kept, taken, fault, phase>>
      /\ results' = [results EXCEPT ![at] = res] /\ at' = at - 1
  BY DEF Yield
<1>2. /\ Len(calls) \in 1..Bottom /\ Bottom \in Nat /\ Len(kept) = Len(calls) - 1
      /\ at \in 1..(Len(calls) - 1) /\ at \in 1..Bottom /\ at + 1 \in 1..Bottom
      /\ at \in 1..Len(layers)
      /\ results = [i \in 1..Bottom |-> results[i]]
  <2>1. /\ Len(calls) \in 1..Bottom /\ Bottom \in Nat /\ Len(kept) = Len(calls) - 1
        /\ at \in Nat /\ at < Len(calls) /\ Bottom = Len(layers) + 1 /\ Len(layers) \in Nat
        /\ results = [i \in 1..Bottom |-> results[i]]
    BY ExchangeFacts
  <2> QED  BY <2>1
<1>3. Bottom' = Bottom /\ Len(calls') = Len(calls)
  BY <1>1 DEF Bottom
<1>4. /\ results'[at] = res
      /\ \A i \in 1..Bottom : i # at => results'[i] = results[i]
  BY <1>1, <1>2
<1>5. IsHeaders(res.headers)
  <2> DEFINE l == layers[at]
  <2>1. l \in LayerType /\ IsResult(Inner) /\ IsHeaders(Inner.headers)
    BY <1>2, ExchangeFacts DEF Inner
  <2>2. Passed(l, calls[at], calls[at + 1], kept[at])
    BY <1>2 DEF ExchangeInv, History
  <2>3. IsHeaders(calls[at].headers)
    <3>1. at \in 1..Len(calls)
      BY <1>2
    <3> QED  BY <3>1, ExchangeFacts
  <2> HIDE DEF l
  <2>4. l.kind \in {"propagate_request_id", "propagate_header"} => IsKept(kept[at])
    BY <2>1, <2>2, <2>3, KeptIs
  <2> QED  BY <2>1, <2>4, ReturnedIs DEF l
<1>6. History'
  <2>1. ASSUME NEW i \in 1..Len(kept), at' < i
        PROVE  Returned(layers[i], kept[i], results'[i + 1], results'[i])
    <3>1. i \in 1..Bottom /\ i + 1 \in 1..Bottom /\ i + 1 # at /\ (i # at => at < i)
      BY <1>1, <1>2, <2>1
    <3>2. results'[i + 1] = results[i + 1]
      BY <1>4, <3>1
    <3>3. CASE i = at
      BY <1>4, <3>2, <3>3 DEF Inner
    <3>4. CASE i # at
      BY <1>4, <3>1, <3>2, <3>4 DEF ExchangeInv, History
    <3> QED  BY <3>3, <3>4
  <2>2. results'[Len(calls)] = results[Len(calls)]
    BY <1>2, <1>4
  <2> QED  BY <1>1, <1>3, <2>1, <2>2 DEF ExchangeInv, History, IsSeq
<1>7. Contents'
  <2>1. \A i \in 1..Bottom :
          IsHeaders(results'[i].headers) /\ (Len(calls') < i => results'[i].kind = "none")
    <3> SUFFICES ASSUME NEW i \in 1..Bottom
                 PROVE  /\ IsHeaders(results'[i].headers)
                        /\ Len(calls') < i => results'[i].kind = "none"
      OBVIOUS
    <3>1. CASE i = at
      BY <1>2, <1>3, <1>4, <1>5, <3>1
    <3>2. CASE i # at
      BY <1>3, <1>4, <3>2, ExchangeFacts
    <3> QED  BY <3>1, <3>2
  <2>2. \A i \in 1..Len(calls') :
          /\ IsHeaders(calls'[i].headers) /\ IsWraps(calls'[i].wraps)
          /\ calls'[i].chunks = calls'[1].chunks
    BY <1>1, ExchangeFacts
  <2>3. \A i \in 1..Bottom' :
          IsHeaders(results'[i].headers) /\ (Len(calls') < i => results'[i].kind = "none")
    BY <1>3, <2>1
  <2> QED  BY <2>2, <2>3 DEF Contents
<1>8. Reading'
  BY <1>1, <1>3 DEF ExchangeInv, Reading, Given, Total
<1> QED  BY <1>6, <1>7, <1>8 DEF ExchangeInv

(* The handler polls the body once.                                        *)
LEMMA ReadKeeps ==
  ASSUME ExchangeInv, ReadBody, StackInv'
  PROVE  ExchangeInv'
<1> DEFINE w == calls[Bottom].wraps
           c == calls[1].chunks
           t == taken + 1
<1>1. /\ phase = "handle" /\ ~ fault /\ taken < Len(Req.chunks)
      /\ UNCHANGED <<layers, calls, kept, results, phase, at>>
      /\ IF LengthLimitError(Req.wraps, Given, Req.chunks[t])
         THEN fault' = TRUE /\ taken' = taken
         ELSE taken' = t /\ fault' = fault
  BY DEF ReadBody, Handling
<1>2. Len(calls) = Bottom /\ Bottom \in 1..Bottom
  BY <1>1, ExchangeFacts DEF ExchangeInv, StackInv, Shape
<1>3. /\ Req = calls[Bottom] /\ Req.chunks = c /\ Req.wraps = w /\ IsWraps(w)
      /\ c \in Seq(Nat)
  BY <1>2, ExchangeFacts DEF Req
<1>4. History' /\ Contents'
  <2>1. Bottom' = Bottom
    BY <1>1 DEF Bottom
  <2> QED  BY <1>1, <2>1 DEF ExchangeInv, History, Contents, IsSeq, NoResult
<1>5. Len(c) \in Nat /\ taken \in 0..Len(c) /\ taken < Len(c)
  BY <1>1, <1>3, LenProperties DEF ExchangeInv, Reading
<1>6. t \in 1..Len(c) /\ t \in 0..Len(c) /\ taken \in 0..Len(c) /\ t - 1 = taken
  BY <1>5
<1>7. /\ Size(c, t) = Size(c, taken) + c[t] /\ Size(c, t) \in Nat /\ Size(c, taken) \in Nat
      /\ Size(c, t) <= Size(c, Len(c)) /\ Size(c, Len(c)) \in Nat
  <2>1. Size(c, t) = Size(c, t - 1) + c[t]
    BY <1>3, <1>6, SizeIs
  <2>2. Len(c) \in 0..Len(c)
    BY <1>5
  <2> QED  BY <1>3, <1>6, <2>1, <2>2, SizeIs, SizeGrows
<1>8. IsSeq(w) /\ Len(w) \in Nat /\ DOMAIN w = 1..Len(w)
  BY <1>3 DEF IsWraps, IsSeq
<1>9. LengthLimitError(w, Given, c[t]) <=>
        \E k \in 1..Len(w) : w[k].wrap = "limited" /\ Through(w, k - 1, Size(c, t)) > w[k].limit
  BY <1>7, <1>8 DEF LengthLimitError, Given
<1>10. calls'[1].chunks = c /\ calls'[Bottom'].wraps = w /\ Bottom' = Bottom
  BY <1>1 DEF Bottom
<1>11. /\ \A k \in 1..Len(w) :
            w[k].wrap = "limited" => Through(w, k - 1, Size(c, taken)) <= w[k].limit
  BY <1>2 DEF ExchangeInv, Reading, Given
<1>12. \A k \in 1..Len(w) : /\ Through(w, k - 1, Size(c, t)) \in Nat
                            /\ Through(w, k - 1, Size(c, Len(c))) \in Nat
                            /\ Through(w, k - 1, Size(c, t)) <= Through(w, k - 1, Size(c, Len(c)))
                            /\ w[k].limit \in Nat
  <2>1. \A k \in 1..Len(w) : k - 1 \in 0..Len(w)
    BY <1>8
  <2>2. \A k \in 1..Len(w) : w[k].limit \in Nat
    BY <1>3 DEF IsWraps
  <2> HIDE DEF w, c, t
  <2> QED  BY <1>7, <1>8, <2>1, <2>2, ThroughIs, ThroughGrows
<1>13. taken' \in 0..Len(c) /\ (taken' = t \/ taken' = taken)
  BY <1>1, <1>6
<1>14. ASSUME LengthLimitError(w, Given, c[t])
       PROVE  Reading'
  <2>1. fault' = TRUE /\ taken' = taken /\ Given' = Size(c, taken) /\ Total' = Size(c, Len(c))
    BY <1>1, <1>3, <1>10, <1>14 DEF Given, Total
  <2>2. \E k \in 1..Len(w) : /\ w[k].wrap = "limited"
                             /\ Through(w, k - 1, Size(c, Len(c))) > w[k].limit
    <3>1. PICK k \in 1..Len(w) :
            w[k].wrap = "limited" /\ Through(w, k - 1, Size(c, t)) > w[k].limit
      BY <1>9, <1>14
    <3>2. Through(w, k - 1, Size(c, Len(c))) > w[k].limit
      <4> HIDE DEF w, c, t
      <4> QED  BY <1>12, <3>1
    <3> QED  BY <3>1, <3>2
  <2>3. phase' # "call"
    BY <1>1
  <2> HIDE DEF w, c, t
  <2> QED  BY <1>10, <1>11, <1>13, <2>1, <2>2, <2>3 DEF Reading
<1>15. ASSUME ~ LengthLimitError(w, Given, c[t])
       PROVE  Reading'
  <2>1. fault' = FALSE /\ taken' = t /\ Given' = Size(c, t)
    <3>1. fault' = fault /\ taken' = t
      BY <1>1, <1>3, <1>15
    <3>2. fault = FALSE
      BY <1>1 DEF ExchangeInv, Reading
    <3> QED  BY <1>10, <3>1, <3>2 DEF Given
  <2>2. \A k \in 1..Len(w) :
          w[k].wrap = "limited" => Through(w, k - 1, Size(c, t)) <= w[k].limit
    <3>1. \A k \in 1..Len(w) :
            w[k].wrap = "limited" => ~ (Through(w, k - 1, Size(c, t)) > w[k].limit)
      BY <1>9, <1>15
    <3> HIDE DEF w, c, t
    <3> QED  BY <1>12, <3>1
  <2>3. phase' # "call"
    BY <1>1
  <2> HIDE DEF w, c, t
  <2> QED  BY <1>10, <1>13, <2>1, <2>2, <2>3 DEF Reading
<1> QED  BY <1>4, <1>14, <1>15 DEF ExchangeInv

LEMMA MapsAreHeaders ==
  ASSUME NEW x \in HeaderMaps
  PROVE  IsHeaders(x)
<1>1. x = [h \in Names |-> x[h]] /\ \A h \in Names : x[h] \in Seq(Values)
  BY DEF HeaderMaps
<1>2. ASSUME NEW s \in Seq(Values)
      PROVE  IsSeq(s) /\ \A i \in 1..Len(s) : IsValue(s[i])
  <2>1. IsSeq(s)
    BY LenProperties DEF IsSeq
  <2>2. \A i \in 1..Len(s) : s[i] \in Values
    BY ElementOfSeq
  <2>3. \A v \in Values : IsValue(v)
    BY DEF Values, Texts, IsValue
  <2> QED  BY <2>1, <2>2, <2>3
<1> QED  BY <1>1, <1>2 DEF IsHeaders

LEMMA CallKeeps ==
  ASSUME ExchangeInv, StackInv',
         \/ CallSetRequestId \/ CallPropagateRequestId \/ CallPropagateHeader
         \/ CallSetRequestHeader \/ CallSensitiveRequest \/ CallAddAuthorization
         \/ CallAddExtension \/ CallNormalizePath \/ CallMapRequestBody \/ CallOther
         \/ CallValidate \/ CallLimit
  PROVE  ExchangeInv'
<1>1. phase = "call"
  BY DEF Calling, CallSetRequestId, CallPropagateRequestId, CallPropagateHeader,
         CallSetRequestHeader, CallSensitiveRequest, CallAddAuthorization, CallAddExtension,
         CallNormalizePath, CallMapRequestBody, CallOther, CallValidate, CallLimit
<1>2. ASSUME NEW req, NEW k, Forward(req, k), Passed(Layer, Req, req, k)
      PROVE  ExchangeInv'
  BY <1>1, <1>2, ForwardKeeps
<1>3. ASSUME NEW res, Answer(res), Refused(Layer, Req, res), IsHeaders(res.headers)
      PROVE  ExchangeInv'
  BY <1>1, <1>3, AnswerKeeps
<1> DEFINE e == <<>>
<1>4. CASE CallSetRequestId
  <2>1. PICK made : Forward(SetRequestId(Layer, Req, made), e)
    BY <1>4 DEF CallSetRequestId
  <2> DEFINE new == SetRequestId(Layer, Req, made)
  <2>2. Layer.kind = "set_request_id" /\ Forward(new, e)
    BY <1>4, <2>1 DEF CallSetRequestId, Calling
  <2>3. \E m : new = SetRequestId(Layer, Req, m)
    OBVIOUS
  <2> HIDE DEF new, e
  <2>4. Passed(Layer, Req, new, e)
    BY <2>2, <2>3, Zenon DEF Passed
  <2> QED  BY <1>2, <2>2, <2>4
<1>5. CASE CallPropagateRequestId
  <2>1. Layer.kind = "propagate_request_id" /\ Forward(Req, PropagateRequestIdCall(Layer, Req))
    BY <1>5 DEF CallPropagateRequestId, Calling
  <2> QED  BY <1>2, <2>1, Zenon DEF Passed
<1>6. CASE CallPropagateHeader
  <2>1. Layer.kind = "propagate_header" /\ Forward(Req, PropagateHeaderCall(Layer, Req))
    BY <1>6 DEF CallPropagateHeader, Calling
  <2> QED  BY <1>2, <2>1, Zenon DEF Passed
<1>7. CASE CallSetRequestHeader
  <2>1. Layer.kind = "set_request_header" /\ Forward(SetRequestHeader(Layer, Req), e)
    BY <1>7 DEF CallSetRequestHeader, Calling
  <2> HIDE DEF e
  <2> QED  BY <1>2, <2>1, Zenon DEF Passed
<1>8. CASE CallSensitiveRequest
  <2>1. Layer.kind = "sensitive_request" /\ Forward(SetSensitiveRequestHeaders(Layer, Req), e)
    BY <1>8 DEF CallSensitiveRequest, Calling
  <2> HIDE DEF e
  <2> QED  BY <1>2, <2>1, Zenon DEF Passed
<1>9. CASE CallAddAuthorization
  <2>1. Layer.kind = "add_authorization" /\ Forward(AddAuthorization(Layer, Req), e)
    BY <1>9 DEF CallAddAuthorization, Calling
  <2> HIDE DEF e
  <2> QED  BY <1>2, <2>1, Zenon DEF Passed
<1>10. CASE CallAddExtension
  <2>1. Layer.kind = "add_extension" /\ Forward(AddExtension(Layer, Req), e)
    BY <1>10 DEF CallAddExtension, Calling
  <2> HIDE DEF e
  <2> QED  BY <1>2, <2>1, Zenon DEF Passed
<1>11. CASE CallNormalizePath
  <2> DEFINE new == [Req EXCEPT !.uri = Normalize(Layer.mode, Req.uri)]
  <2>1. Layer.kind = "normalize_path" /\ Forward(new, e)
    BY <1>11 DEF CallNormalizePath, Calling
  <2>2. Layer.kind = "normalize_path" => Passed(Layer, Req, new, e)
    BY DEF Passed
  <2> HIDE DEF e, new
  <2> QED  BY <1>2, <2>1, <2>2
<1>12. CASE CallMapRequestBody
  <2>1. Layer.kind = "map_request_body" /\ Forward(MapRequestBody(Req), e)
    BY <1>12 DEF CallMapRequestBody, Calling
  <2> HIDE DEF e
  <2> QED  BY <1>2, <2>1, Zenon DEF Passed
<1>13. CASE CallOther
  <2>1. /\ Layer.kind \in {"set_response_header", "sensitive_response", "catch_panic",
                           "set_status", "map_response_body"}
        /\ Forward(Req, e)
    BY <1>13 DEF CallOther, Calling
  <2> HIDE DEF e
  <2>2. Passed(Layer, Req, Req, e)
    BY <2>1, Zenon DEF Passed
  <2> QED  BY <1>2, <2>1, <2>2
<1>14. CASE CallValidate
  <2>1. /\ Layer.kind = "validate"
        /\ \/ validate(Layer, Req) /\ Forward(Req, e)
           \/ ~ validate(Layer, Req) /\ Answer(Refusal(Layer))
    BY <1>14 DEF CallValidate, Calling
  <2> HIDE DEF e
  <2>2. CASE validate(Layer, Req) /\ Forward(Req, e)
    BY <1>2, <2>1, <2>2, Zenon DEF Passed
  <2>3. CASE ~ validate(Layer, Req) /\ Answer(Refusal(Layer))
    BY <1>3, <2>1, <2>3, OwnHeaders, Zenon DEF Refused
  <2> QED  BY <2>1, <2>2, <2>3
<1>15. CASE CallLimit
  <2>1. /\ Layer.kind = "limit"
        /\ \/ ~ TooLarge(Layer, Req) /\ Forward(RequestBodyLimit(Layer, Req), e)
           \/ TooLarge(Layer, Req) /\ Answer(create_error_response)
    BY <1>15 DEF CallLimit, Calling
  <2> HIDE DEF e
  <2>2. CASE ~ TooLarge(Layer, Req) /\ Forward(RequestBodyLimit(Layer, Req), e)
    BY <1>2, <2>1, <2>2, Zenon DEF Passed
  <2>3. CASE TooLarge(Layer, Req) /\ Answer(create_error_response)
    BY <1>3, <2>1, <2>3, OwnHeaders, Zenon DEF Refused
  <2> QED  BY <2>1, <2>2, <2>3
<1> QED  BY <1>4, <1>5, <1>6, <1>7, <1>8, <1>9, <1>10, <1>11, <1>12, <1>13, <1>14, <1>15

LEMMA HandlerKeeps ==
  ASSUME ExchangeInv, StackInv', ReadBody \/ Responds \/ Fails \/ Panics \/ RedirectResponds
  PROVE  ExchangeInv'
<1>1. phase = "handle"
  BY DEF ReadBody, Responds, Fails, Panics, RedirectResponds, Handling
<1>2. ASSUME NEW res, Answer(res), IsHeaders(res.headers)
      PROVE  ExchangeInv'
  BY <1>1, <1>2, AnswerKeeps
<1>3. CASE Responds
  <2>1. PICK res \in Answers : Answer(res)
    BY <1>3 DEF Responds
  <2>2. res.headers \in HeaderMaps
    BY StackAssumption DEF ResponseType
  <2>3. IsHeaders(res.headers)
    BY <2>2, MapsAreHeaders
  <2> QED  BY <1>2, <2>1, <2>3
<1>4. CASE Fails
  BY <1>2, <1>4, ResultHeaders, NoHeadersIs DEF Fails
<1>5. CASE Panics
  <2>1. PICK where : Answer(Panic(where))
    BY <1>5 DEF Panics
  <2> QED  BY <1>2, <2>1, ResultHeaders, NoHeadersIs
<1>6. CASE RedirectResponds
  <2> DEFINE r == Response(307, <<>>)
             v == Plain("/there")
             h == "location"
             x == insert(r.headers, h, v)
             res == [r EXCEPT !.headers = x]
  <2>1. Answer(res)
    BY <1>6 DEF RedirectResponds
  <2>2. IsResult(r) /\ r.headers = NoHeaders
    BY TextShapes, ResultHeaders
  <2>3. h \in Names
    BY DEF Names
  <2>4. IsValue(v)
    BY DEF IsValue, Plain, Absent
  <2> HIDE DEF h, v, r
  <2>5. IsHeaders(x)
    BY <2>2, <2>3, <2>4, NoHeadersIs, InsertIs
  <2> HIDE DEF x
  <2>6. res.headers = x
    BY <2>2, ResponseWith
  <2> HIDE DEF res
  <2> QED  BY <1>2, <2>1, <2>5, <2>6
<1> QED  BY <1>3, <1>4, <1>5, <1>6, ReadKeeps

LEMMA PollKeeps ==
  ASSUME ExchangeInv, StackInv',
         \/ PollPropagateRequestId \/ PollPropagateHeader \/ PollSetResponseHeader
         \/ PollSensitiveResponse \/ PollMapResponseBody \/ PollSetStatus
         \/ PollCatchPanic \/ PollOther
  PROVE  ExchangeInv'
<1> DEFINE l == layers[at]
           k == kept[at]
           x == Inner
           Done == phase = "poll" /\ at > 0 /\ \E res : Yield(res) /\ Returned(l, k, x, res)
<1>1. ASSUME NEW kind, NEW res, OnResponse(kind, res), kind # "catch_panic",
             x.kind = "response" /\ l.kind = kind => Returned(l, k, x, res)
      PROVE  Done
  <2> DEFINE r == IF x.kind = "response" THEN res ELSE x
  <2>1. phase = "poll" /\ at > 0 /\ l.kind = kind /\ Yield(r)
    BY <1>1 DEF OnResponse, Polling
  <2>2. Returned(l, k, x, r)
    <3>1. CASE x.kind = "response"
      BY <1>1, <2>1, <3>1
    <3>2. CASE x.kind # "response"
      <4>1. r = x /\ l.kind # "catch_panic"
        BY <1>1, <2>1, <3>2
      <4> HIDE DEF r, l, k, x
      <4> QED  BY <3>2, <4>1, Zenon DEF Returned
    <3> QED  BY <3>1, <3>2
  <2> HIDE DEF r, l, k, x
  <2> QED  BY <2>1, <2>2
<1> SUFFICES Done
  BY YieldKeeps
<1> HIDE DEF l, k, x
<1>2. CASE PollPropagateRequestId
  <2>1. OnResponse("propagate_request_id", PropagateRequestIdPoll(l, k, x))
    BY <1>2 DEF PollPropagateRequestId, l, k, x
  <2>2. x.kind = "response" /\ l.kind = "propagate_request_id" =>
          Returned(l, k, x, PropagateRequestIdPoll(l, k, x))
    BY Zenon DEF Returned
  <2> HIDE DEF Done
  <2> QED  BY <1>1, <2>1, <2>2
<1>3. CASE PollPropagateHeader
  <2>1. OnResponse("propagate_header", PropagateHeaderPoll(l, k, x))
    BY <1>3 DEF PollPropagateHeader, l, k, x
  <2>2. x.kind = "response" /\ l.kind = "propagate_header" =>
          Returned(l, k, x, PropagateHeaderPoll(l, k, x))
    BY Zenon DEF Returned
  <2> HIDE DEF Done
  <2> QED  BY <1>1, <2>1, <2>2
<1>4. CASE PollSetResponseHeader
  <2>1. OnResponse("set_response_header", SetResponseHeader(l, x))
    BY <1>4 DEF PollSetResponseHeader, l, x
  <2>2. x.kind = "response" /\ l.kind = "set_response_header" =>
          Returned(l, k, x, SetResponseHeader(l, x))
    BY Zenon DEF Returned
  <2> HIDE DEF Done
  <2> QED  BY <1>1, <2>1, <2>2
<1>5. CASE PollSensitiveResponse
  <2>1. OnResponse("sensitive_response", SetSensitiveResponseHeaders(l, x))
    BY <1>5 DEF PollSensitiveResponse, l, x
  <2>2. x.kind = "response" /\ l.kind = "sensitive_response" =>
          Returned(l, k, x, SetSensitiveResponseHeaders(l, x))
    BY Zenon DEF Returned
  <2> HIDE DEF Done
  <2> QED  BY <1>1, <2>1, <2>2
<1>6. CASE PollMapResponseBody
  <2>1. OnResponse("map_response_body", MapResponseBody(x))
    BY <1>6 DEF PollMapResponseBody, x
  <2>2. x.kind = "response" /\ l.kind = "map_response_body" =>
          Returned(l, k, x, MapResponseBody(x))
    BY Zenon DEF Returned
  <2> HIDE DEF Done
  <2> QED  BY <1>1, <2>1, <2>2
<1>7. CASE PollSetStatus
  <2>1. OnResponse("set_status", SetStatus(l, x))
    BY <1>7 DEF PollSetStatus, l, x
  <2>2. x.kind = "response" /\ l.kind = "set_status" => Returned(l, k, x, SetStatus(l, x))
    BY Zenon DEF Returned
  <2> HIDE DEF Done
  <2> QED  BY <1>1, <2>1, <2>2
<1>8. CASE PollCatchPanic
  <2> DEFINE r == IF Caught(x) THEN response_for_panic ELSE x
  <2>1. phase = "poll" /\ at > 0 /\ l.kind = "catch_panic" /\ Yield(r)
    BY <1>8 DEF PollCatchPanic, Polling, l, x
  <2>2. Returned(l, k, x, r)
    BY <2>1 DEF Returned
  <2> HIDE DEF r
  <2> QED  BY <2>1, <2>2
<1>9. CASE PollOther
  <2>1. /\ phase = "poll" /\ at > 0 /\ Yield(x)
        /\ l.kind \in {"set_request_id", "set_request_header", "sensitive_request",
                       "add_authorization", "add_extension", "normalize_path",
                       "map_request_body", "validate", "limit"}
    BY <1>9 DEF PollOther, Polling, l, x
  <2>2. Returned(l, k, x, x)
    BY <2>1 DEF Returned
  <2> QED  BY <2>1, <2>2
<1> HIDE DEF Done
<1> QED  BY <1>2, <1>3, <1>4, <1>5, <1>6, <1>7, <1>8, <1>9

LEMMA ExchangeStarts == Init => ExchangeInv
<1> SUFFICES ASSUME Init PROVE ExchangeInv
  OBVIOUS
<1>1. StackInv
  BY InitIsSound
<1>2. PICK x \in Exchanges :
        layers = x.layers /\ handler = x.handler /\ calls = <<x.request>>
  BY DEF Init
<1>3. layers \in Seq(LayerType) /\ Len(layers) \in Nat
  BY <1>2, StackAssumption, LenProperties
<1>4. Len(calls) = 1 /\ calls[1] = x.request
  BY <1>2
<1>5. x.request \in RequestType
  BY StackAssumption
<1>6. /\ x.request.headers \in HeaderMaps /\ x.request.chunks \in Seq(Nat)
      /\ x.request.wraps = <<>>
  BY <1>5 DEF RequestType
<1>7. phase # "poll" /\ taken = 0 /\ fault = FALSE /\ kept = <<>>
  BY DEF Init
<1>8. History
  <2>1. IsSeq(kept) /\ Len(kept) = 0
    BY <1>7 DEF IsSeq
  <2> QED  BY <1>3, <1>4, <1>5, <1>7, <2>1 DEF History
<1>9. \A i \in 1..Bottom : results[i] = NoResult
  BY DEF Init
<1>10. IsWraps(calls[1].wraps) /\ Len(calls[1].wraps) = 0
  BY <1>4, <1>6 DEF IsWraps, IsSeq
<1>11. Contents
  <2>1. IsHeaders(calls[1].headers)
    BY <1>4, <1>6, MapsAreHeaders
  <2>2. \A i \in 1..Bottom : IsHeaders(results[i].headers) /\ results[i].kind = "none"
    BY <1>9, ResultShapes, ResultHeaders, NoHeadersIs
  <2>3. \A i \in 1..Len(calls) : i = 1
    BY <1>4
  <2> QED  BY <1>10, <2>1, <2>2, <2>3 DEF Contents
<1>12. Reading
  <2>1. Len(calls[1].chunks) \in Nat
    BY <1>4, <1>6, LenProperties
  <2>2. taken \in 0..Len(calls[1].chunks)
    BY <1>7, <2>1
  <2>3. ASSUME Len(calls) = Bottom
        PROVE  Len(calls[Bottom].wraps) = 0
    BY <1>4, <1>10, <2>3
  <2> QED  BY <1>7, <2>2, <2>3 DEF Reading
<1> QED  BY <1>1, <1>8, <1>11, <1>12 DEF ExchangeInv

LEMMA ExchangeStep == ExchangeInv /\ [Next]_vars => ExchangeInv'
<1> SUFFICES ASSUME ExchangeInv, [Next]_vars PROVE ExchangeInv'
  OBVIOUS
<1>1. StackInv'
  BY StepIsSound DEF ExchangeInv
<1>2. ASSUME UNCHANGED vars
      PROVE  ExchangeInv'
  BY <1>1, <1>2 DEF vars, ExchangeInv, History, Contents, Reading, Given, Total, Bottom, IsSeq, NoResult
<1> QED  BY <1>1, <1>2, CallKeeps, HandlerKeeps, PollKeeps DEF Next, Over

(* Every message between two layers is what the outer one's call made of   *)
(* the request it was given, every result what its future made of the      *)
(* result below, and the bytes read are within every limit they came       *)
(* through: the invariant from which the properties of the stack follow.   *)
THEOREM ExchangeIsSound == Spec => []ExchangeInv
  BY ExchangeStarts, ExchangeStep, PTL DEF Spec

-----------------------------------------------------------------------------
(* What one layer did to the request, in the terms of the properties.      *)
LEMMA RequestStep ==
  ASSUME ExchangeInv, NEW i \in 1..(Len(calls) - 1), NEW ws, ws = RequestWrites(i)
  PROVE  /\ IsInsertions(ws) /\ layers[i] \in LayerType /\ i \in 1..Len(layers)
         /\ \A h \in Names :
              /\ WritesRequest(i, h) <=> \E j \in 1..Len(ws) : ws[j].header = h
              /\ ~ WritesRequest(i, h) => Follows(calls[i].headers[h], calls[i + 1].headers[h])
              /\ FirstOf(ws, h, Len(ws), get(calls[i].headers, h), get(calls[i + 1].headers, h))
         /\ layers[i].kind = "sensitive_request" =>
              \A h \in layers[i].headers : Hidden(calls[i + 1].headers, h)
         /\ layers[i].kind # "set_request_id" => calls[i + 1].id = calls[i].id
         /\ Passed(layers[i], calls[i], calls[i + 1], kept[i])
<1> DEFINE l == layers[i]
           q == calls[i]
           n == calls[i + 1]
<1>1. /\ i \in 1..Len(layers) /\ i \in 1..Len(calls) /\ i + 1 \in 1..Len(calls) /\ i < Len(calls)
      /\ i \in 1..Len(kept)
  <2>1. Len(layers) \in Nat /\ Bottom = Len(layers) + 1 /\ Len(calls) \in 1..Bottom
        /\ Len(kept) = Len(calls) - 1
    BY ExchangeFacts
  <2> QED  BY <2>1
<1>2. /\ l \in LayerType /\ IsRequest(q) /\ IsHeaders(q.headers) /\ IsWraps(q.wraps)
  BY <1>1, ExchangeFacts
<1>3. Passed(l, q, n, kept[i])
  BY <1>1 DEF ExchangeInv, History
<1>4. ws = WritesOf(l, n)
  BY <1>1 DEF RequestWrites, WritesOf
<1> HIDE DEF l, q, n
<1>5. /\ IsInsertions(ws)
      /\ \A h \in Names :
           /\ (\A j \in 1..Len(ws) : ws[j].header # h) => Follows(q.headers[h], n.headers[h])
           /\ FirstOf(ws, h, Len(ws), get(q.headers, h), get(n.headers, h))
      /\ l.kind = "sensitive_request" => \A h \in l.headers : Hidden(n.headers, h)
  BY <1>2, <1>3, <1>4, PassedHeaders
<1>6. \A h \in Names : WritesRequest(i, h) <=> \E j \in 1..Len(ws) : ws[j].header = h
  <2>1. DOMAIN ws = 1..Len(ws)
    BY <1>5 DEF IsInsertions
  <2>2. ToSet(ws) = {ws[j] : j \in 1..Len(ws)}
    BY <2>1 DEF ToSet
  <2>3. \A h : WritesRequest(i, h) <=> \E w \in ToSet(ws) : w.header = h
    BY DEF WritesRequest
  <2> QED  BY <2>2, <2>3
<1>7. l.kind # "set_request_id" => n.id = q.id
  BY <1>2, <1>3, PassedBody
<1> QED  BY <1>1, <1>2, <1>3, <1>5, <1>6, <1>7 DEF l, q, n

(* Below layer a, as long as no layer writes the header.                   *)
LEMMA GoesIn ==
  ASSUME ExchangeInv, NEW a \in 1..Len(calls), NEW h \in Names
  PROVE  \A j \in a..Len(calls) :
           /\ (\A k \in a..(j - 1) : ~ WritesRequest(k, h)) =>
                Follows(calls[a].headers[h], calls[j].headers[h])
           /\ (\A k \in a..(j - 1) : layers[k].kind # "set_request_id") =>
                calls[j].id = calls[a].id
<1> DEFINE P(j) == /\ (\A k \in a..(j - 1) : ~ WritesRequest(k, h)) =>
                        Follows(calls[a].headers[h], calls[j].headers[h])
                   /\ (\A k \in a..(j - 1) : layers[k].kind # "set_request_id") =>
                        calls[j].id = calls[a].id
           m == Len(calls)
           S == {j \in a..m : P(j)}
<1>1. a \in Int /\ m \in Int /\ a \in a..m /\ a >= 1
  BY ExchangeFacts
<1>2. a \in S
  BY <1>1, FollowsItself
<1>3. ASSUME NEW j \in a..(m - 1), j \in S
      PROVE  j + 1 \in S
  <2>1. /\ j \in 1..(m - 1) /\ j + 1 \in a..m /\ (j + 1) - 1 = j /\ j \in a..j
        /\ \A k \in a..(j - 1) : k \in a..j
    BY <1>1
  <2>2. P(j)
    BY <1>3
  <2>3. /\ ~ WritesRequest(j, h) => Follows(calls[j].headers[h], calls[j + 1].headers[h])
        /\ layers[j].kind # "set_request_id" => calls[j + 1].id = calls[j].id
    BY <2>1, RequestStep
  <2>4. ASSUME \A k \in a..j : ~ WritesRequest(k, h)
        PROVE  Follows(calls[a].headers[h], calls[j + 1].headers[h])
    BY <2>1, <2>2, <2>3, <2>4, FollowsOn
  <2>5. ASSUME \A k \in a..j : layers[k].kind # "set_request_id"
        PROVE  calls[j + 1].id = calls[a].id
    BY <2>1, <2>2, <2>3, <2>5
  <2> HIDE DEF m
  <2> QED  BY <2>1, <2>4, <2>5
<1>4. \A j \in a..m : j \in S
  <2> HIDE DEF S, m
  <2> QED  BY <1>1, <1>2, <1>3, UpTo, Zenon
<1> QED  BY <1>4

(* What came back, and from where.                                         *)
LEMMA CameBack ==
  ASSUME ExchangeInv, NEW i \in 1..Bottom, results[i].kind # "none"
  PROVE  /\ phase = "poll" /\ at < i /\ i \in 1..Len(calls)
         /\ i < Len(calls) => /\ i \in 1..Len(kept) /\ i + 1 \in 1..Bottom /\ i \in 1..Len(layers)
                              /\ Returned(layers[i], kept[i], results[i + 1], results[i])
         /\ i = Len(calls) /\ i < Bottom =>
              /\ Refused(layers[i], calls[i], results[i])
              /\ layers[i].kind \in {"validate", "limit"}
<1>1. /\ Len(layers) \in Nat /\ Bottom = Len(layers) + 1 /\ Len(calls) \in 1..Bottom
      /\ Len(kept) = Len(calls) - 1 /\ at \in Nat
      /\ Len(calls) < i => results[i].kind = "none"
  BY ExchangeFacts
<1>2. phase = "poll" /\ ~ (i <= at)
  BY ResultShapes DEF ExchangeInv, StackInv, Shape
<1>3. at < i /\ i \in 1..Len(calls)
  BY <1>1, <1>2
<1>4. ASSUME i < Len(calls)
      PROVE  /\ i \in 1..Len(kept) /\ i + 1 \in 1..Bottom /\ i \in 1..Len(layers)
             /\ Returned(layers[i], kept[i], results[i + 1], results[i])
  <2>1. i \in 1..Len(kept) /\ i + 1 \in 1..Bottom /\ i \in 1..Len(layers)
    BY <1>1, <1>4
  <2> QED  BY <1>2, <1>3, <2>1 DEF ExchangeInv, History
<1>5. ASSUME i = Len(calls), i < Bottom
      PROVE  Refused(layers[i], calls[i], results[i])
  BY <1>2, <1>5 DEF ExchangeInv, History
<1>6. ASSUME i = Len(calls), i < Bottom
      PROVE  layers[i].kind \in {"validate", "limit"}
  BY <1>5, <1>6 DEF Refused
<1> QED  BY <1>2, <1>3, <1>4, <1>5, <1>6

LEMMA ResultStep ==
  ASSUME ExchangeInv, phase = "poll", NEW i \in 1..(Len(calls) - 1), at < i,
         results[i + 1].kind = "response", NEW h \in Names
  PROVE  /\ results[i].kind = "response"
         /\ ~ WritesResponse(i, h) => Follows(results[i + 1].headers[h], results[i].headers[h])
         /\ layers[i].kind = "sensitive_response" =>
              \A g \in layers[i].headers : Hidden(results[i].headers, g)
         /\ layers[i].kind # "propagate_request_id" => results[i].id = results[i + 1].id
         /\ layers[i].kind = "propagate_header" =>
              results[i].headers = IF kept[i] = <<>> THEN results[i + 1].headers
                                   ELSE insert(results[i + 1].headers, layers[i].header, kept[i][1])
<1> DEFINE l == layers[i]
           k == kept[i]
           x == results[i + 1]
           r == results[i]
<1>1. /\ i \in 1..Len(layers) /\ i + 1 \in 1..Bottom /\ i \in 1..Len(kept) /\ i \in 1..Len(calls)
  <2>1. Len(layers) \in Nat /\ Bottom = Len(layers) + 1 /\ Len(calls) \in 1..Bottom
        /\ Len(kept) = Len(calls) - 1
    BY ExchangeFacts
  <2> QED  BY <2>1
<1>2. /\ l \in LayerType /\ IsResult(x) /\ IsHeaders(x.headers) /\ IsHeaders(calls[i].headers)
  BY <1>1, ExchangeFacts
<1>3. Returned(l, k, x, r) /\ Passed(l, calls[i], calls[i + 1], k)
  BY <1>1 DEF ExchangeInv, History
<1>4. WritesBack(l, h) => WritesResponse(i, h)
  <2>1. CASE l.kind = "set_response_header"
    <3> DEFINE ws == l.insertions
    <3>1. IsInsertions(ws)
      BY <1>2, <2>1, LayerParts
    <3>2. DOMAIN ws = 1..Len(ws)
      BY <3>1 DEF IsInsertions
    <3>3. ToSet(ws) = {ws[j] : j \in 1..Len(ws)}
      BY <3>2 DEF ToSet
    <3>4. WritesBack(l, h) <=> \E j \in 1..Len(ws) : ws[j].header = h
      BY <2>1 DEF WritesBack
    <3>5. WritesResponse(i, h) <=> \E w \in ToSet(ws) : w.header = h
      BY <2>1 DEF WritesResponse
    <3> QED  BY <3>3, <3>4, <3>5
  <2>2. CASE l.kind # "set_response_header"
    BY <2>2 DEF WritesBack, WritesResponse
  <2> QED  BY <2>1, <2>2
<1>5. x.kind = "response"
  OBVIOUS
<1> HIDE DEF l, k, x, r
<1>6. l.kind \in {"propagate_request_id", "propagate_header"} => IsKept(k)
  BY <1>2, <1>3, KeptIs
<1>7. /\ r.kind = "response"
      /\ ~ WritesBack(l, h) => Follows(x.headers[h], r.headers[h])
      /\ l.kind = "sensitive_response" => \A g \in l.headers : Hidden(r.headers, g)
      /\ l.kind # "propagate_request_id" => r.id = x.id
      /\ l.kind = "propagate_header" =>
           r.headers = IF k = <<>> THEN x.headers ELSE insert(x.headers, l.header, k[1])
  <2>1. Rewritten(l, k, x, r)
    BY <1>2, <1>3, <1>5, <1>6, ReturnedIs
  <2> QED  BY <2>1, Zenon DEF Rewritten
<1> QED  BY <1>4, <1>7 DEF l, k, x, r

(* Above layer j, as long as no layer writes the header.                   *)
LEMMA GoesBack ==
  ASSUME ExchangeInv, NEW j \in 1..Bottom, results[j].kind = "response", NEW h \in Names
  PROVE  \A i \in 1..j : at < i =>
           /\ results[i].kind = "response"
           /\ (\A k \in i..(j - 1) : ~ WritesResponse(k, h)) =>
                Follows(results[j].headers[h], results[i].headers[h])
           /\ (\A k \in i..(j - 1) : layers[k].kind # "propagate_request_id") =>
                results[i].id = results[j].id
<1> DEFINE P(i) == at < i =>
                     /\ results[i].kind = "response"
                     /\ (\A k \in i..(j - 1) : ~ WritesResponse(k, h)) =>
                          Follows(results[j].headers[h], results[i].headers[h])
                     /\ (\A k \in i..(j - 1) : layers[k].kind # "propagate_request_id") =>
                          results[i].id = results[j].id
           S == {i \in 1..j : P(i)}
<1>1. 1 \in Int /\ j \in Int /\ j \in 1..j /\ phase = "poll" /\ j \in 1..Len(calls)
      /\ Len(calls) \in Nat /\ at \in Nat
  BY CameBack, ExchangeFacts
<1>2. j \in S
  BY <1>1, FollowsItself
<1>3. ASSUME NEW i \in 1..(j - 1), i + 1 \in S
      PROVE  i \in S
  <2>1. /\ i \in 1..(Len(calls) - 1) /\ i \in 1..j /\ i \in i..(j - 1)
        /\ \A k \in (i + 1)..(j - 1) : k \in i..(j - 1)
    BY <1>1
  <2>2. P(i + 1)
    BY <1>3
  <2> SUFFICES ASSUME at < i PROVE P(i)
    BY <2>1
  <2>3. at < i + 1
    BY <1>1
  <2>4. results[i + 1].kind = "response"
    BY <2>2, <2>3
  <2>5. /\ results[i].kind = "response"
        /\ ~ WritesResponse(i, h) => Follows(results[i + 1].headers[h], results[i].headers[h])
        /\ layers[i].kind # "propagate_request_id" => results[i].id = results[i + 1].id
    BY <1>1, <2>1, <2>4, ResultStep
  <2>6. ASSUME \A k \in i..(j - 1) : ~ WritesResponse(k, h)
        PROVE  Follows(results[j].headers[h], results[i].headers[h])
    BY <2>1, <2>2, <2>3, <2>5, <2>6, FollowsOn
  <2>7. ASSUME \A k \in i..(j - 1) : layers[k].kind # "propagate_request_id"
        PROVE  results[i].id = results[j].id
    BY <2>1, <2>2, <2>3, <2>5, <2>7
  <2> QED  BY <2>5, <2>6, <2>7
<1>4. \A i \in 1..j : i \in S
  <2> DEFINE one == 1
  <2>1. one \in Int /\ \A i \in one..(j - 1) : i + 1 \in S => i \in S
    BY <1>3
  <2>2. \A i \in one..j : i \in S
    <3> HIDE DEF S, one
    <3> QED  BY <1>1, <1>2, <2>1, DownTo, Zenon
  <2> QED  BY <2>2
<1> QED  BY <1>4

-----------------------------------------------------------------------------
LEMMA KindsAre ==
  ASSUME ExchangeInv, NEW kind, NEW i \in Of(kind)
  PROVE  i \in 1..Len(layers) /\ layers[i].kind = kind /\ layers[i] \in LayerType
         /\ i \in 1..Bottom /\ i < Bottom
<1>1. DOMAIN layers = 1..Len(layers)
  BY DEF ExchangeInv, StackInv, Shape, IsSeq
<1>2. i \in 1..Len(layers) /\ layers[i].kind = kind
  BY <1>1 DEF Of
<1> QED  BY <1>2, ExchangeFacts

LEMMA RequestSecrets ==
  ASSUME ExchangeInv, NEW s \in Of("sensitive_request"), NEW h \in layers[s].headers,
         NEW j \in (s + 1)..Len(calls), \A k \in (s + 1)..(j - 1) : ~ WritesRequest(k, h)
  PROVE  h \in Names /\ Hidden(calls[j].headers, h)
<1>1. /\ s \in 1..Len(layers) /\ layers[s].kind = "sensitive_request" /\ h \in Names
  BY KindsAre, LayerParts
<1>2. /\ s \in 1..(Len(calls) - 1) /\ s + 1 \in 1..Len(calls) /\ j \in 1..Len(calls)
  BY <1>1, ExchangeFacts
<1>3. Hidden(calls[s + 1].headers, h)
  BY <1>1, <1>2, RequestStep
<1>4. Follows(calls[s + 1].headers[h], calls[j].headers[h])
  <2> DEFINE a == s + 1
  <2>1. a \in 1..Len(calls) /\ j \in a..Len(calls) /\ \A k \in a..(j - 1) : ~ WritesRequest(k, h)
    BY <1>2
  <2> HIDE DEF a
  <2>2. Follows(calls[a].headers[h], calls[j].headers[h])
    BY <1>1, <2>1, GoesIn
  <2> QED  BY <2>2 DEF a
<1>5. IsHeaders(calls[s + 1].headers) /\ IsHeaders(calls[j].headers)
  BY <1>2, ExchangeFacts
<1> QED  BY <1>1, <1>3, <1>4, <1>5, FollowsKeeps

LEMMA ResultSecrets ==
  ASSUME ExchangeInv, NEW h \in Names, NEW j \in 1..Bottom, NEW i \in 1..j,
         results[i].kind = "response", results[j].kind = "response",
         \A k \in i..(j - 1) : ~ WritesResponse(k, h), Hidden(results[j].headers, h)
  PROVE  Hidden(results[i].headers, h)
<1>1. i \in 1..Bottom /\ Bottom \in Nat
  BY ExchangeFacts
<1>2. at < i
  BY <1>1, CameBack
<1>3. Follows(results[j].headers[h], results[i].headers[h])
  BY <1>2, GoesBack
<1>4. IsHeaders(results[i].headers) /\ IsHeaders(results[j].headers)
  BY <1>1, ExchangeFacts
<1> QED  BY <1>3, <1>4, FollowsKeeps

(* A layer that has its response from below.                               *)
LEMMA FromBelow ==
  ASSUME ExchangeInv, NEW p \in 1..Len(layers), results[p].kind = "response",
         layers[p].kind \notin {"validate", "limit", "catch_panic"}
  PROVE  /\ p \in 1..(Len(calls) - 1) /\ p \in 1..Bottom /\ p + 1 \in 1..Bottom
         /\ phase = "poll" /\ at < p /\ results[p + 1].kind = "response"
<1>1. p \in 1..Bottom /\ p < Bottom /\ Bottom \in Nat /\ Len(calls) \in Nat /\ p + 1 \in 1..Bottom
  BY ExchangeFacts
<1>2. /\ phase = "poll" /\ at < p /\ p \in 1..Len(calls)
      /\ p < Len(calls) => Returned(layers[p], kept[p], results[p + 1], results[p])
      /\ p = Len(calls) => layers[p].kind \in {"validate", "limit"}
  BY <1>1, CameBack
<1>3. p < Len(calls) /\ p \in 1..(Len(calls) - 1)
  BY <1>1, <1>2
<1>4. results[p + 1].kind = "response"
  BY <1>2, <1>3 DEF Returned
<1> QED  BY <1>1, <1>2, <1>3, <1>4

(* Once marked, a header that no layer writes again is marked for every    *)
(* layer below SetSensitiveRequestHeaders and above                        *)
(* SetSensitiveResponseHeaders, and a marked value that PropagateHeader    *)
(* copies to the response arrives marked, in every stack and for every     *)
(* message.                                                                *)
THEOREM SecretsAreAlwaysMarked == Spec => []SecretsStayMarked
<1>1. ASSUME ExchangeInv
      PROVE  SecretsStayMarked
  <2>1. ASSUME NEW s \in Of("sensitive_request"), NEW h \in layers[s].headers,
               NEW j \in (s + 1)..Len(calls),
               \A k \in (s + 1)..(j - 1) : ~ WritesRequest(k, h),
               NEW i \in 1..j, j \in Of("propagate_header"), layers[j].header = h,
               calls[j].headers[h] # <<>>,
               results[i].kind = "response", results[j].kind = "response",
               \A k \in i..(j - 1) : ~ WritesResponse(k, h)
        PROVE  Hidden(results[i].headers, h)
    <3>1. h \in Names /\ Hidden(calls[j].headers, h)
      BY <1>1, <2>1, RequestSecrets
    <3>2. /\ j \in 1..Len(layers) /\ layers[j].kind = "propagate_header"
          /\ layers[j] \in LayerType
      BY <1>1, <2>1, KindsAre
    <3>3. /\ j \in 1..(Len(calls) - 1) /\ j \in 1..Bottom /\ j + 1 \in 1..Bottom
          /\ phase = "poll" /\ at < j /\ results[j + 1].kind = "response"
      BY <1>1, <2>1, <3>2, FromBelow
    <3> DEFINE x == results[j + 1].headers
               q == calls[j]
               v == kept[j][1]
    <3>4. j \in 1..Len(calls)
      BY <3>3
    <3>5. IsHeaders(x) /\ IsHeaders(q.headers)
      BY <1>1, <3>3, <3>4, ExchangeFacts
    <3>6. Passed(layers[j], q, calls[j + 1], kept[j])
      BY <1>1, <3>3, RequestStep
    <3>7. kept[j] # <<>> /\ v = q.headers[h][1] /\ IsKept(kept[j])
      BY <2>1, <3>2, <3>5, <3>6, KeptIs
    <3>8. IsValue(v) /\ v.sensitive
      <4>1. 1 \in DOMAIN q.headers[h]
        BY <2>1, <3>1, <3>5, GetIs
      <4>2. v.sensitive
        BY <3>1, <3>7, <4>1 DEF Hidden
      <4> QED  BY <3>7, <4>2 DEF IsKept
    <3>9. results[j].headers = insert(x, h, v)
      BY <1>1, <2>1, <3>2, <3>1, <3>3, <3>7, ResultStep
    <3> HIDE DEF x, q, v
    <3>10. /\ IsHeaders(results[j].headers) /\ Len(results[j].headers[h]) = 1
           /\ results[j].headers[h][1] = v
      BY <3>1, <3>5, <3>8, <3>9, InsertIs
    <3>11. DOMAIN results[j].headers[h] = 1..1
      BY <3>1, <3>10, GetIs
    <3>12. Hidden(results[j].headers, h)
      BY <3>8, <3>10, <3>11 DEF Hidden
    <3> QED  BY <1>1, <2>1, <3>1, <3>3, <3>12, ResultSecrets
  <2>2. ASSUME NEW s \in Of("sensitive_response"), NEW h \in layers[s].headers,
               NEW i \in 1..s, results[i].kind = "response", results[s].kind = "response",
               \A k \in i..(s - 1) : ~ WritesResponse(k, h)
        PROVE  Hidden(results[i].headers, h)
    <3>1. /\ s \in 1..Len(layers) /\ layers[s].kind = "sensitive_response"
          /\ layers[s] \in LayerType
      BY <1>1, <2>2, KindsAre
    <3>2. h \in Names
      BY <2>2, <3>1, LayerParts
    <3>3. /\ s \in 1..(Len(calls) - 1) /\ s \in 1..Bottom
          /\ phase = "poll" /\ at < s /\ results[s + 1].kind = "response"
      BY <1>1, <2>2, <3>1, FromBelow
    <3>4. Hidden(results[s].headers, h)
      BY <1>1, <2>2, <3>1, <3>2, <3>3, ResultStep
    <3> QED  BY <1>1, <2>2, <3>2, <3>3, <3>4, ResultSecrets
  <2>3. ASSUME NEW s \in Of("sensitive_request"), NEW h \in layers[s].headers,
               NEW j \in (s + 1)..Len(calls),
               \A k \in (s + 1)..(j - 1) : ~ WritesRequest(k, h)
        PROVE  Hidden(calls[j].headers, h)
    BY <1>1, <2>3, RequestSecrets
  <2> QED  BY <2>1, <2>2, <2>3 DEF SecretsStayMarked
<1> QED  BY <1>1, ExchangeIsSound, PTL

-----------------------------------------------------------------------------
(* The request id.                                                         *)
LEMMA PropagateIs ==
  ASSUME NEW l, l.header \in Names, NEW k, IsKept(k), NEW x, IsResult(x), IsHeaders(x.headers),
         NEW r, r = PropagateRequestIdPoll(l, k, x), NEW h, h = l.header
  PROVE  /\ IsHeaders(r.headers)
         /\ get(x.headers, h) # Absent => get(r.headers, h) = get(x.headers, h) /\ r.id # Absent
         /\ get(x.headers, h) = Absent /\ k # <<>> =>
              get(r.headers, h) = k[1].text /\ r.id = k[1].text
<1> DEFINE g == get(x.headers, h)
           y == insert(x.headers, h, k[1])
           t == k[1].text
<1>1. x.headers[h] = <<>> <=> g = Absent
  BY GetIs
<1>2. \/ g # Absent /\ x.id = Absent /\ r = [x EXCEPT !.id = g]
      \/ g # Absent /\ x.id # Absent /\ r = x
      \/ g = Absent /\ k = <<>> /\ r = x
      \/ g = Absent /\ k # <<>> /\ r = [x EXCEPT !.id = t, !.headers = y]
  BY <1>1 DEF PropagateRequestIdPoll
<1>3. k # <<>> => IsHeaders(y) /\ get(y, h) = t
  BY InsertIs DEF IsKept
<1> HIDE DEF g, y, t
<1>4. CASE g # Absent /\ x.id = Absent /\ r = [x EXCEPT !.id = g]
  <2>1. r.headers = x.headers /\ r.id = g
    BY <1>4, ResponseWith
  <2> QED  BY <1>4, <2>1 DEF g
<1>5. CASE g # Absent /\ x.id # Absent /\ r = x
  BY <1>5 DEF g
<1>6. CASE g = Absent /\ k = <<>> /\ r = x
  BY <1>6 DEF g
<1>7. CASE g = Absent /\ k # <<>> /\ r = [x EXCEPT !.id = t, !.headers = y]
  <2> DEFINE z == [x EXCEPT !.id = t]
  <2>1. IsResult(z) /\ z.id = t
    BY ResponseShapes, ResponseWith
  <2>2. r = [z EXCEPT !.headers = y]
    BY <1>7
  <2> HIDE DEF z
  <2>3. r.headers = y /\ r.id = t
    BY <2>1, <2>2, ResponseWith
  <2> QED  BY <1>3, <1>7, <2>3 DEF g, t
<1> QED  BY <1>2, <1>4, <1>5, <1>6, <1>7

(* What a SetRequestId layer leaves in the request.                        *)
LEMMA IdIsSet ==
  ASSUME NEW l, l.header \in Names, NEW q, IsRequest(q), IsHeaders(q.headers), NEW made, NEW n,
         n = SetRequestId(l, q, made), NEW h, h = l.header
  PROVE  /\ get(q.headers, h) # Absent => get(n.headers, h) = get(q.headers, h)
         /\ get(n.headers, h) # Absent /\ (q.id = Absent \/ get(q.headers, h) = Absent) =>
              n.id = get(n.headers, h)
<1>1. q.headers[h] = <<>> <=> get(q.headers, h) = Absent
  BY GetIs
<1>2. CASE /\ q.headers[h] # <<>>
           /\ Becomes(q, n, q.headers, IF q.id = Absent THEN get(q.headers, h) ELSE q.id, q.wraps)
  BY <1>1, <1>2 DEF Becomes
<1>3. CASE q.headers[h] = <<>> /\ made = Absent /\ n = q
  BY <1>1, <1>3
<1>4. CASE /\ q.headers[h] = <<>> /\ made # Absent
           /\ Becomes(q, n, insert(q.headers, h, Plain(made)), made, q.wraps)
  <2> DEFINE v == Plain(made)
  <2>1. IsValue(v) /\ v.text = made
    BY <1>4 DEF Plain, IsValue
  <2> HIDE DEF v
  <2>2. n.headers = insert(q.headers, h, v) /\ n.id = made
    BY <1>4 DEF Becomes, v
  <2>3. get(n.headers, h) = made
    BY <2>1, <2>2, InsertIs
  <2> QED  BY <1>1, <1>4, <2>2, <2>3
<1> QED  BY <1>2, <1>3, <1>4, SetRequestIdIs

\* No other layer than s and p has to do with the header h or with ids.
Alone(s, p, h) ==
  /\ \A j \in DOMAIN layers \ {s, p} :
       /\ ~ WritesRequest(j, h) /\ ~ WritesResponse(j, h)
       /\ layers[j].kind \notin {"set_request_id", "propagate_request_id"}
  /\ calls[1].id = Absent \/ get(calls[1].headers, h) = Absent

LEMMA IdGoesIn ==
  ASSUME ExchangeInv, NEW s \in Of("set_request_id"), NEW p \in Of("propagate_request_id"),
         NEW h, h = layers[p].header, s < p, layers[s].header = h, Alone(s, p, h), p < Len(calls),
         NEW id, id = get(calls[p].headers, h)
  PROVE  /\ get(calls[1].headers, h) # Absent => id = get(calls[1].headers, h)
         /\ id # Absent => \A j \in p..Len(calls) :
              get(calls[j].headers, h) = id /\ calls[j].id = id
<1>1. /\ s \in 1..Len(layers) /\ layers[s].kind = "set_request_id"
      /\ p \in 1..Len(layers) /\ layers[p].kind = "propagate_request_id"
      /\ DOMAIN layers = 1..Len(layers) /\ h \in Names
  <2>1. DOMAIN layers = 1..Len(layers)
    BY DEF ExchangeInv, StackInv, Shape, IsSeq
  <2>2. h \in Names
    BY KindsAre, LayerParts
  <2> QED  BY <2>1, <2>2, KindsAre
<1>2. /\ Len(layers) \in Nat /\ Len(calls) \in Nat /\ Len(calls) <= Len(layers) + 1
      /\ s \in 1..(Len(calls) - 1) /\ s \in 1..Len(calls) /\ s + 1 \in 1..Len(calls)
      /\ 1 \in 1..Len(calls) /\ p \in (s + 1)..Len(calls)
  BY <1>1, ExchangeFacts
<1>3. ~ WritesRequest(p, h)
  <2>1. RequestWrites(p) = <<>>
    BY <1>1 DEF RequestWrites
  <2>2. ToSet(RequestWrites(p)) = {}
    BY <2>1 DEF ToSet
  <2> QED  BY <2>2 DEF WritesRequest
<1>4. \A j \in 1..Len(layers) : j # s =>
        ~ WritesRequest(j, h) /\ layers[j].kind # "set_request_id"
  BY <1>1, <1>3 DEF Alone
<1>5. Follows(calls[1].headers[h], calls[s].headers[h]) /\ calls[s].id = calls[1].id
  <2> DEFINE a == 1
  <2>1. a \in 1..Len(calls) /\ s \in a..Len(calls)
    BY <1>2
  <2>2. \A k \in a..(s - 1) : ~ WritesRequest(k, h) /\ layers[k].kind # "set_request_id"
    BY <1>1, <1>2, <1>4
  <2> HIDE DEF a
  <2>3. Follows(calls[a].headers[h], calls[s].headers[h]) /\ calls[s].id = calls[a].id
    BY <1>1, <2>1, <2>2, GoesIn
  <2> QED  BY <2>3 DEF a
<1>6. \A j \in (s + 1)..Len(calls) :
        Follows(calls[s + 1].headers[h], calls[j].headers[h]) /\ calls[j].id = calls[s + 1].id
  <2> DEFINE a == s + 1
  <2>1. a \in 1..Len(calls)
    BY <1>2
  <2>2. ASSUME NEW j \in a..Len(calls)
        PROVE  \A k \in a..(j - 1) : ~ WritesRequest(k, h) /\ layers[k].kind # "set_request_id"
    BY <1>1, <1>2, <1>4
  <2> HIDE DEF a
  <2>3. \A j \in a..Len(calls) :
          Follows(calls[a].headers[h], calls[j].headers[h]) /\ calls[j].id = calls[a].id
    BY <1>1, <2>1, <2>2, GoesIn
  <2> QED  BY <2>3 DEF a
<1>7. \A j \in 1..Len(calls) : IsHeaders(calls[j].headers) /\ IsRequest(calls[j])
  BY ExchangeFacts
<1>8. get(calls[s].headers, h) = get(calls[1].headers, h)
  BY <1>1, <1>2, <1>5, <1>7, FollowsKeeps
<1>9. \A j \in (s + 1)..Len(calls) : get(calls[j].headers, h) = get(calls[s + 1].headers, h)
  <2> SUFFICES ASSUME NEW j \in (s + 1)..Len(calls)
               PROVE  get(calls[j].headers, h) = get(calls[s + 1].headers, h)
    OBVIOUS
  <2>1. j \in 1..Len(calls)
    BY <1>2
  <2> QED  BY <1>1, <1>2, <1>6, <1>7, <2>1, FollowsKeeps
<1>10. /\ get(calls[s].headers, h) # Absent =>
            get(calls[s + 1].headers, h) = get(calls[s].headers, h)
       /\ get(calls[s + 1].headers, h) # Absent
          /\ (calls[s].id = Absent \/ get(calls[s].headers, h) = Absent) =>
            calls[s + 1].id = get(calls[s + 1].headers, h)
  <2>1. Passed(layers[s], calls[s], calls[s + 1], kept[s])
    BY <1>2, RequestStep
  <2>2. PICK made : calls[s + 1] = SetRequestId(layers[s], calls[s], made)
    BY <1>1, <1>2, <1>7, <2>1, PassedIs
  <2> QED  BY <1>1, <1>2, <1>7, <2>2, IdIsSet
<1>11. calls[s].id = Absent \/ get(calls[s].headers, h) = Absent
  BY <1>5, <1>8 DEF Alone
<1>12. id = get(calls[s + 1].headers, h)
  BY <1>2, <1>9
<1>13. \A j \in p..Len(calls) : j \in (s + 1)..Len(calls)
  BY <1>2
<1> QED  BY <1>6, <1>8, <1>9, <1>10, <1>11, <1>12, <1>13

LEMMA IdComesBack ==
  ASSUME ExchangeInv, NEW s \in Of("set_request_id"), NEW p \in Of("propagate_request_id"),
         NEW h, h = layers[p].header, s < p, Alone(s, p, h), p < Len(calls),
         NEW id, id = get(calls[p].headers, h), NEW own, own = get(results[p + 1].headers, h),
         NEW i \in 1..p, results[i].kind = "response", results[p].kind = "response"
  PROVE  /\ own = Absent /\ id # Absent => get(results[i].headers, h) = id /\ results[i].id = id
         /\ own # Absent => get(results[i].headers, h) = own /\ results[i].id # Absent
<1>1. /\ s \in 1..Len(layers) /\ layers[s].kind = "set_request_id"
      /\ p \in 1..Len(layers) /\ layers[p].kind = "propagate_request_id"
      /\ layers[p] \in LayerType
      /\ DOMAIN layers = 1..Len(layers) /\ h \in Names
  <2>1. DOMAIN layers = 1..Len(layers)
    BY DEF ExchangeInv, StackInv, Shape, IsSeq
  <2>2. h \in Names
    BY KindsAre, LayerParts
  <2> QED  BY <2>1, <2>2, KindsAre
<1>2. /\ p \in 1..(Len(calls) - 1) /\ p \in 1..Bottom /\ p + 1 \in 1..Bottom
      /\ phase = "poll" /\ at < p /\ results[p + 1].kind = "response"
  BY <1>1, FromBelow
<1> DEFINE l == layers[p]
           k == kept[p]
           x == results[p + 1]
           r == results[p]
<1>3. IsResult(x) /\ IsHeaders(x.headers)
  BY <1>2, ExchangeFacts
<1>4. p \in 1..Len(calls) /\ Len(calls) \in Nat /\ Bottom \in Nat /\ Len(layers) \in Nat
  BY <1>2, ExchangeFacts
<1>5. IsHeaders(calls[p].headers)
  BY <1>4, ExchangeFacts
<1>6. Passed(l, calls[p], calls[p + 1], k)
  BY <1>2, RequestStep
<1>7. /\ IsKept(k) /\ (calls[p].headers[h] = <<>> <=> k = <<>>)
      /\ calls[p].headers[h] # <<>> => k[1] = calls[p].headers[h][1]
  BY <1>1, <1>5, <1>6, KeptIs
<1>8. r = PropagateRequestIdPoll(l, k, x)
  <2>1. p < Len(calls)
    OBVIOUS
  <2>2. Returned(l, k, x, r)
    BY <1>2, <2>1, CameBack
  <2> QED  BY <1>1, <1>2, <2>2 DEF Returned
<1>9. id # Absent => k # <<>> /\ k[1].text = id
  BY <1>1, <1>5, <1>7, GetIs
<1>10. l.header = h
  OBVIOUS
<1>11. own = get(x.headers, h) /\ x.kind = "response"
  BY <1>2
<1>12. i \in 1..Bottom /\ p \in 1..Bottom
  BY <1>2, <1>4
<1>13. at < i
  BY <1>12, CameBack
<1>14. \A j \in i..(p - 1) : ~ WritesResponse(j, h) /\ layers[j].kind # "propagate_request_id"
  <2> SUFFICES ASSUME NEW j \in i..(p - 1)
               PROVE  ~ WritesResponse(j, h) /\ layers[j].kind # "propagate_request_id"
    OBVIOUS
  <2>1. j \in 1..Len(layers) /\ j # p
    BY <1>1, <1>4
  <2>2. CASE j = s
    BY <1>1, <2>2 DEF WritesResponse
  <2>3. CASE j # s
    BY <1>1, <2>1, <2>3 DEF Alone
  <2> QED  BY <2>2, <2>3
<1>15. Follows(r.headers[h], results[i].headers[h]) /\ results[i].id = r.id
  BY <1>1, <1>12, <1>13, <1>14, GoesBack
<1>16. IsHeaders(results[i].headers)
  BY <1>12, ExchangeFacts
<1> HIDE DEF l, k, x, r
<1>17. /\ IsHeaders(r.headers)
       /\ own # Absent => get(r.headers, h) = own /\ r.id # Absent
       /\ own = Absent /\ k # <<>> => get(r.headers, h) = k[1].text /\ r.id = k[1].text
  BY <1>1, <1>3, <1>7, <1>8, <1>10, <1>11, PropagateIs
<1>18. get(results[i].headers, h) = get(r.headers, h)
  BY <1>1, <1>15, <1>16, <1>17, FollowsKeeps
<1> QED  BY <1>9, <1>15, <1>17, <1>18

(* A SetRequestId layer around a PropagateRequestId layer, in any stack in *)
(* which no other layer touches the header or the ids: the caller's id or  *)
(* the new one reaches the handler, and comes back to the caller in the    *)
(* header and in the extension unless what answered set its own.           *)
THEOREM RequestIdIsAlwaysCarried == Spec => []RequestIdIsCarried
<1>1. ASSUME ExchangeInv
      PROVE  RequestIdIsCarried
  <2> SUFFICES ASSUME NEW s \in Of("set_request_id"), NEW p \in Of("propagate_request_id"),
                      NEW h, h = layers[p].header, s < p, layers[s].header = h,
                      Alone(s, p, h), p < Len(calls),
                      NEW id, id = get(calls[p].headers, h),
                      NEW own, own = get(results[p + 1].headers, h)
               PROVE  /\ get(calls[1].headers, h) # Absent => id = get(calls[1].headers, h)
                      /\ /\ Len(calls) = Bottom /\ id # Absent
                         => get(calls[Bottom].headers, h) = id /\ calls[Bottom].id = id
                      /\ \A i \in 1..p : results[i].kind = "response" /\ results[p].kind = "response" =>
                           /\ own = Absent /\ id # Absent =>
                                get(results[i].headers, h) = id /\ results[i].id = id
                           /\ own # Absent =>
                                get(results[i].headers, h) = own /\ results[i].id # Absent
    BY DEF RequestIdIsCarried, Alone
  <2>1. /\ get(calls[1].headers, h) # Absent => id = get(calls[1].headers, h)
        /\ id # Absent => \A j \in p..Len(calls) :
             get(calls[j].headers, h) = id /\ calls[j].id = id
    BY <1>1, IdGoesIn
  <2>2. Len(calls) \in p..Len(calls)
    BY <1>1, KindsAre, ExchangeFacts
  <2>3. ASSUME NEW i \in 1..p, results[i].kind = "response", results[p].kind = "response"
        PROVE  /\ own = Absent /\ id # Absent =>
                    get(results[i].headers, h) = id /\ results[i].id = id
               /\ own # Absent =>
                    get(results[i].headers, h) = own /\ results[i].id # Absent
    BY <1>1, <2>3, IdComesBack
  <2> QED  BY <2>1, <2>2, <2>3
<1> QED  BY <1>1, ExchangeIsSound, PTL

-----------------------------------------------------------------------------
(* The first value of a header at layer i, layer by layer.                 *)
Overriders(i, h) == {j \in 1..(i - 1) : Overriding(RequestWrites(j), h) # {}}
Writers(i, h)    == {j \in 1..(i - 1) : Writings(RequestWrites(j), h) # {}}

LastOverride(j, h, v) ==
  \E n : IsMax(n, Overriding(RequestWrites(j), h)) /\ v = RequestWrites(j)[n].text
FirstWrite(j, h, v) ==
  \E n : IsMin(n, Writings(RequestWrites(j), h)) /\ v = RequestWrites(j)[n].text

FirstIs(i, h, v) ==
  LET sent == get(calls[1].headers, h)
  IN \/ \E j : IsMax(j, Overriders(i, h)) /\ LastOverride(j, h, v)
     \/ Overriders(i, h) = {} /\ sent # Absent /\ v = sent
     \/ /\ Overriders(i, h) = {} /\ sent = Absent
        /\ \E j : IsMin(j, Writers(i, h)) /\ FirstWrite(j, h, v)
     \/ Writers(i, h) = {} /\ sent = Absent /\ v = Absent

LEMMA WholeLayer ==
  ASSUME NEW i, NEW ws, ws = RequestWrites(i), IsInsertions(ws), NEW h, NEW b, NEW a,
         FirstOf(ws, h, Len(ws), b, a)
  PROVE  \/ LastOverride(i, h, a) /\ Overriding(ws, h) # {}
         \/ Overriding(ws, h) = {} /\ b # Absent /\ a = b
         \/ Overriding(ws, h) = {} /\ b = Absent /\ FirstWrite(i, h, a) /\ Writings(ws, h) # {}
         \/ Writings(ws, h) = {} /\ b = Absent /\ a = Absent
<1> DEFINE over == {n \in 1..Len(ws) : n \in Overriding(ws, h)}
           any  == {n \in 1..Len(ws) : n \in Writings(ws, h)}
<1>1. DOMAIN ws = 1..Len(ws)
  BY DEF IsInsertions
<1>2. over = Overriding(ws, h) /\ any = Writings(ws, h)
  BY <1>1 DEF Overriding, Writings
<1>3. \/ \E n \in 1..Len(ws) : IsMax(n, over) /\ a = ws[n].text
      \/ over = {} /\ b # Absent /\ a = b
      \/ over = {} /\ b = Absent /\ \E n \in 1..Len(ws) : IsMin(n, any) /\ a = ws[n].text
      \/ any = {} /\ b = Absent /\ a = Absent
  BY DEF FirstOf
<1> HIDE DEF over, any
<1>4. CASE \E n \in 1..Len(ws) : IsMax(n, over) /\ a = ws[n].text
  BY <1>2, <1>4 DEF LastOverride, IsMax
<1>5. CASE over = {} /\ b = Absent /\ \E n \in 1..Len(ws) : IsMin(n, any) /\ a = ws[n].text
  BY <1>2, <1>5 DEF FirstWrite, IsMin
<1> QED  BY <1>2, <1>3, <1>4, <1>5

LEMMA WrittenIsThere ==
  ASSUME NEW j, NEW h, NEW v, LastOverride(j, h, v) \/ FirstWrite(j, h, v)
  PROVE  v # Absent
  BY DEF LastOverride, FirstWrite, IsMax, IsMin, Overriding, Writings

LEMMA FirstIsNext ==
  ASSUME NEW i \in Nat, i >= 1, NEW ws, ws = RequestWrites(i), IsInsertions(ws), NEW h,
         NEW b, NEW a, FirstOf(ws, h, Len(ws), b, a), FirstIs(i, h, b)
  PROVE  FirstIs(i + 1, h, a)
<1> DEFINE sent == get(calls[1].headers, h)
           O == Overriders(i, h)
           W == Writers(i, h)
           Op == Overriders(i + 1, h)
           Wp == Writers(i + 1, h)
           over == Overriding(ws, h)
           any == Writings(ws, h)
<1>1. \/ \E j : IsMax(j, O) /\ LastOverride(j, h, b)
      \/ O = {} /\ sent # Absent /\ b = sent
      \/ O = {} /\ sent = Absent /\ \E j : IsMin(j, W) /\ FirstWrite(j, h, b)
      \/ W = {} /\ sent = Absent /\ b = Absent
  BY DEF FirstIs
<1>2. \/ LastOverride(i, h, a) /\ over # {}
      \/ over = {} /\ b # Absent /\ a = b
      \/ over = {} /\ b = Absent /\ FirstWrite(i, h, a) /\ any # {}
      \/ any = {} /\ b = Absent /\ a = Absent
  BY WholeLayer
<1>3. /\ Op = IF over # {} THEN O \cup {i} ELSE O
      /\ Wp = IF any # {} THEN W \cup {i} ELSE W
  <2>1. 1..((i + 1) - 1) = (1..(i - 1)) \cup {i}
    OBVIOUS
  <2> QED  BY <2>1 DEF Overriders, Writers
<1>4. O \subseteq 1..(i - 1) /\ W \subseteq 1..(i - 1) /\ O \subseteq W /\ Wp \subseteq 1..i
      /\ over \subseteq any
  <2>1. \A x, y : Overriding(x, y) \subseteq Writings(x, y)
    BY DEF Overriding
  <2> QED  BY <2>1 DEF Overriders, Writers
<1> SUFFICES \/ \E j : IsMax(j, Op) /\ LastOverride(j, h, a)
             \/ Op = {} /\ sent # Absent /\ a = sent
             \/ Op = {} /\ sent = Absent /\ \E j : IsMin(j, Wp) /\ FirstWrite(j, h, a)
             \/ Wp = {} /\ sent = Absent /\ a = Absent
  BY DEF FirstIs
<1> HIDE DEF sent, O, W, Op, Wp, over, any
<1>5. \A j : LastOverride(j, h, b) \/ FirstWrite(j, h, b) => b # Absent
  BY WrittenIsThere
<1>6. CASE LastOverride(i, h, a) /\ over # {}
  <2>1. IsMax(i, Op)
    BY <1>3, <1>4, <1>6 DEF IsMax
  <2> QED  BY <1>6, <2>1
<1>7. CASE over = {} /\ b # Absent /\ a = b
  <2>1. CASE \E j : IsMin(j, W) /\ FirstWrite(j, h, b)
    <3>1. PICK j : IsMin(j, W) /\ FirstWrite(j, h, b)
      BY <2>1
    <3>2. IsMin(j, Wp)
      BY <1>3, <1>4, <3>1 DEF IsMin
    <3> QED  BY <1>1, <1>3, <1>7, <3>1, <3>2
  <2> QED  BY <1>1, <1>3, <1>7, <2>1
<1>8. CASE over = {} /\ b = Absent /\ FirstWrite(i, h, a) /\ any # {}
  <2>1. W = {} /\ O = {} /\ sent = Absent
    BY <1>1, <1>4, <1>5, <1>8
  <2>2. Wp = {i} /\ Op = {} /\ IsMin(i, Wp)
    BY <1>3, <1>8, <2>1 DEF IsMin
  <2> QED  BY <1>8, <2>1, <2>2
<1>9. CASE any = {} /\ b = Absent /\ a = Absent
  <2>1. W = {} /\ sent = Absent
    BY <1>1, <1>5, <1>9
  <2> QED  BY <1>3, <1>9, <2>1
<1> QED  BY <1>2, <1>6, <1>7, <1>8, <1>9

(* FirstValue, computed from the caller's request and the layers above, is *)
(* the first value in the request that layer i is given.                   *)
LEMMA FirstValueIs ==
  ASSUME ExchangeInv, NEW i \in 1..Len(calls), NEW h \in Names
  PROVE  FirstValue(i, h) = get(calls[i].headers, h)
<1> DEFINE m == Len(calls)
           S == {j \in 1..m : FirstIs(j, h, get(calls[j].headers, h))}
           one == 1
<1>1. m \in Nat /\ m >= 1 /\ one \in Int /\ m \in Int /\ one \in 1..m
  BY ExchangeFacts
<1>2. one \in S
  <2>1. 1..(1 - 1) = {}
    OBVIOUS
  <2>2. Overriders(1, h) = {} /\ Writers(1, h) = {}
    BY <2>1 DEF Overriders, Writers
  <2>3. FirstIs(1, h, get(calls[1].headers, h))
    BY <2>2 DEF FirstIs
  <2> QED  BY <1>1, <2>3
<1>3. ASSUME NEW j \in one..(m - 1), j \in S
      PROVE  j + 1 \in S
  <2>1. j \in 1..(m - 1) /\ j \in Nat /\ j >= 1 /\ j + 1 \in 1..m
    BY <1>1
  <2> DEFINE ws == RequestWrites(j)
  <2>2. /\ IsInsertions(ws)
        /\ FirstOf(ws, h, Len(ws), get(calls[j].headers, h), get(calls[j + 1].headers, h))
    BY <2>1, RequestStep
  <2>3. FirstIs(j, h, get(calls[j].headers, h))
    BY <1>3
  <2>4. FirstIs(j + 1, h, get(calls[j + 1].headers, h))
    BY <2>1, <2>2, <2>3, FirstIsNext
  <2> QED  BY <2>1, <2>4
<1>4. \A j \in one..m : j \in S
  <2> HIDE DEF S, m, one
  <2> QED  BY <1>1, <1>2, <1>3, UpTo, Zenon
<1>5. FirstIs(i, h, get(calls[i].headers, h))
  BY <1>4
<1> DEFINE v == get(calls[i].headers, h)
           sent == get(calls[1].headers, h)
           O == Overriders(i, h)
           W == Writers(i, h)
           Text(j, n) == RequestWrites(j)[n].text
<1>6. FirstValue(i, h) =
        IF O # {} THEN Text(Max(O), Max(Overriding(RequestWrites(Max(O)), h)))
        ELSE IF sent # Absent THEN sent
        ELSE IF W # {} THEN Text(Min(W), Min(Writings(RequestWrites(Min(W)), h)))
        ELSE Absent
  <2>1. calls[1].headers[h] # <<>> <=> sent # Absent
    BY <1>1, ExchangeFacts, GetIs
  <2> QED  BY <2>1 DEF FirstValue, Overriders, Writers
<1>7. O \subseteq Nat /\ W \subseteq Nat
  BY DEF Overriders, Writers
<1>8. \A j \in 1..(i - 1) : Overriding(RequestWrites(j), h) \subseteq Nat
                            /\ Writings(RequestWrites(j), h) \subseteq Nat
  <2> SUFFICES ASSUME NEW j \in 1..(i - 1)
               PROVE  Overriding(RequestWrites(j), h) \subseteq Nat
                      /\ Writings(RequestWrites(j), h) \subseteq Nat
    OBVIOUS
  <2>1. j \in 1..(m - 1)
    BY <1>1
  <2>2. IsInsertions(RequestWrites(j))
    BY <2>1, RequestStep
  <2>3. DOMAIN RequestWrites(j) \subseteq Nat
    BY <2>2 DEF IsInsertions
  <2> QED  BY <2>3 DEF Overriding, Writings
<1>9. O \subseteq 1..(i - 1) /\ W \subseteq 1..(i - 1) /\ O \subseteq W
  BY DEF Overriders, Writers, Overriding
<1>10. \/ \E j : IsMax(j, O) /\ LastOverride(j, h, v)
       \/ O = {} /\ sent # Absent /\ v = sent
       \/ O = {} /\ sent = Absent /\ \E j : IsMin(j, W) /\ FirstWrite(j, h, v)
       \/ W = {} /\ sent = Absent /\ v = Absent
  BY <1>5 DEF FirstIs
<1> HIDE DEF v, sent, O, W, m, S
<1>11. CASE \E j : IsMax(j, O) /\ LastOverride(j, h, v)
  <2>1. PICK j : IsMax(j, O) /\ LastOverride(j, h, v)
    BY <1>11
  <2>2. Max(O) = j /\ j \in O
    BY <1>7, <2>1, MaxIs DEF IsMax
  <2>3. PICK n : IsMax(n, Overriding(RequestWrites(j), h)) /\ v = RequestWrites(j)[n].text
    BY <2>1 DEF LastOverride
  <2>4. Max(Overriding(RequestWrites(j), h)) = n
    BY <1>8, <1>9, <2>2, <2>3, MaxIs
  <2> QED  BY <1>6, <2>2, <2>3, <2>4 DEF v
<1>12. CASE O = {} /\ sent = Absent /\ \E j : IsMin(j, W) /\ FirstWrite(j, h, v)
  <2>1. PICK j : IsMin(j, W) /\ FirstWrite(j, h, v)
    BY <1>12
  <2>2. Min(W) = j /\ j \in W
    BY <1>7, <2>1, MinIs DEF IsMin
  <2>3. PICK n : IsMin(n, Writings(RequestWrites(j), h)) /\ v = RequestWrites(j)[n].text
    BY <2>1 DEF FirstWrite
  <2>4. Min(Writings(RequestWrites(j), h)) = n
    BY <1>8, <1>9, <2>2, <2>3, MinIs
  <2> QED  BY <1>6, <1>12, <2>2, <2>3, <2>4 DEF v
<1>13. CASE O = {} /\ sent # Absent /\ v = sent
  BY <1>6, <1>13 DEF v
<1>14. CASE W = {} /\ sent = Absent /\ v = Absent
  <2>1. O = {}
    BY <1>9, <1>14
  <2> QED  BY <1>6, <1>14, <2>1 DEF v
<1> QED  BY <1>10, <1>11, <1>12, <1>13, <1>14

-----------------------------------------------------------------------------
(* The gates.                                                              *)
LEMMA RangesArePairs ==
  ASSUME NEW text, NEW range \in MediaRanges(text), NEW a, NEW b
  PROVE  range = <<a, b>> <=> range[1] = a /\ range[2] = b
<1>1. \E c, d : range = <<c, d>>
  BY DEF MediaRanges
<1>2. PICK c, d : range = <<c, d>>
  BY <1>1
<1> QED  BY <1>2

\* Some media range in the lines xs is the one that layer l produces.
Accepts(xs, l) ==
  \E n \in 1..Len(xs) : \E range \in MediaRanges(xs[n].text) :
    \/ range[2] \in {l.subtype, "*"} /\ range[1] = l.type
    \/ range = <<"*", "*">>

LEMMA AcceptIs ==
  ASSUME NEW xs, IsSeq(xs), NEW l
  PROVE  /\ (\E line \in ToSet(xs) : \E range \in MediaRanges(line.text) :
               \/ range = <<l.type, l.subtype>>
               \/ range = <<l.type, "*">>
               \/ range = <<"*", "*">>) <=> Accepts(xs, l)
         /\ (\E line \in ToSet(xs) : \E range \in MediaRanges(line.text) :
               \/ range[2] \in {l.subtype, "*"} /\ range[1] = l.type
               \/ range = <<"*", "*">>) <=> Accepts(xs, l)
<1>1. ToSet(xs) = {xs[n] : n \in 1..Len(xs)}
  BY DEF ToSet, IsSeq
<1> DEFINE Fits(range) == \/ range[2] \in {l.subtype, "*"} /\ range[1] = l.type
                          \/ range = <<"*", "*">>
           Matches(range) == \/ range = <<l.type, l.subtype>>
                             \/ range = <<l.type, "*">>
                             \/ range = <<"*", "*">>
<1>2. \A text : \A range \in MediaRanges(text) : Matches(range) <=> Fits(range)
  <2> SUFFICES ASSUME NEW text, NEW range \in MediaRanges(text)
               PROVE  Matches(range) <=> Fits(range)
    OBVIOUS
  <2> DEFINE star == "*"
             a == l.type
             b == l.subtype
  <2> HIDE DEF star, a, b
  <2>1. /\ range = <<a, b>> <=> range[1] = a /\ range[2] = b
        /\ range = <<a, star>> <=> range[1] = a /\ range[2] = star
    BY RangesArePairs
  <2> QED  BY <2>1 DEF star, a, b
<1>3. Accepts(xs, l) <=>
        \E n \in 1..Len(xs) : \E range \in MediaRanges(xs[n].text) : Fits(range)
  BY DEF Accepts
<1> HIDE DEF Fits, Matches
<1>4. (\E line \in ToSet(xs) : \E range \in MediaRanges(line.text) : Matches(range)) <=>
        Accepts(xs, l)
  BY <1>1, <1>2, <1>3
<1>5. (\E line \in ToSet(xs) : \E range \in MediaRanges(line.text) : Fits(range)) <=>
        Accepts(xs, l)
  BY <1>1, <1>3
<1> QED  BY <1>4, <1>5 DEF Fits, Matches

(* The lines of a header that no layer above wrote have the caller's text. *)
LEMMA LinesAre ==
  ASSUME ExchangeInv, NEW i \in 1..Len(calls), NEW h \in Names, NEW l
  PROVE  /\ IsSeq(Lines(i, h))
         /\ Lines(i, h) = <<>> <=> calls[i].headers[h] = <<>>
         /\ Accepts(Lines(i, h), l) <=> Accepts(calls[i].headers[h], l)
<1>1. 1 \in 1..Len(calls) /\ Len(calls) \in Nat
  BY ExchangeFacts
<1>2. /\ IsHeaders(calls[1].headers) /\ IsHeaders(calls[i].headers)
  BY <1>1, ExchangeFacts
<1>3. CASE \E j \in 1..(i - 1) : WritesRequest(j, h)
  BY <1>2, <1>3, GetIs DEF Lines
<1>4. CASE ~ \E j \in 1..(i - 1) : WritesRequest(j, h)
  <2> DEFINE one == 1
             x == calls[1].headers[h]
             y == calls[i].headers[h]
  <2>1. one \in 1..Len(calls) /\ i \in one..Len(calls)
        /\ \A k \in one..(i - 1) : ~ WritesRequest(k, h)
    BY <1>1, <1>4
  <2>2. Follows(calls[one].headers[h], y)
    <3> HIDE DEF one
    <3> QED  BY <2>1, GoesIn
  <2>3. Lines(i, h) = x /\ IsSeq(x)
    BY <1>2, <1>4, GetIs DEF Lines
  <2>4. x = <<>> <=> y = <<>>
    BY <1>2, <2>2, FollowsKeeps
  <2>5. Len(y) = Len(x) /\ \A n \in 1..Len(x) : y[n].text = x[n].text
    BY <2>2 DEF Follows
  <2> HIDE DEF x, y
  <2>6. Accepts(x, l) <=> Accepts(y, l)
    BY <2>5 DEF Accepts
  <2> QED  BY <2>3, <2>4, <2>6 DEF y
<1> QED  BY <1>3, <1>4

(* Violates says of the caller's request and the layers above what the     *)
(* gate decides about the request it is given.                             *)
LEMMA ViolatesIs ==
  ASSUME ExchangeInv, NEW i \in 1..Len(layers), i \in 1..Len(calls),
         NEW l, l = layers[i], NEW q, q = calls[i]
  PROVE  Violates(i) <=> \/ l.kind = "limit" /\ TooLarge(l, q)
                         \/ l.kind = "validate" /\ ~ validate(l, q)
<1>1. l \in LayerType /\ IsHeaders(q.headers)
  BY ExchangeFacts
<1>2. "content-length" \in Names /\ "authorization" \in Names /\ "accept" \in Names
  BY DEF Names
<1>3. \A h \in Names : FirstValue(i, h) = get(q.headers, h)
  BY FirstValueIs
<1>4. CASE l.kind = "limit"
  <2>1. TooLarge(l, q) <=> AsNumber(FirstValue(i, "content-length")) > l.limit
    BY <1>2, <1>3 DEF TooLarge, ContentLength
  <2> QED  BY <1>4, <2>1 DEF Violates
<1>5. CASE l.kind = "validate" /\ l.rule \in {"basic", "bearer"}
  <2>1. FirstValue(i, "authorization") = get(q.headers, "authorization")
    BY <1>2, <1>3
  <2> QED  BY <1>5, <2>1 DEF Violates, validate, Basic, Bearer
<1>6. CASE l.kind = "validate" /\ l.rule = "header"
  <2>1. FirstValue(i, l.header) = get(q.headers, l.header)
    BY <1>1, <1>3, <1>6, LayerParts
  <2> QED  BY <1>6, <2>1 DEF Violates, validate, RequiredHeaderValue
<1>7. CASE l.kind = "validate" /\ l.rule = "accept"
  <2> DEFINE h == "accept"
             xs == Lines(i, h)
             ys == q.headers[h]
  <2>1. IsSeq(xs) /\ (xs = <<>> <=> ys = <<>>) /\ (Accepts(xs, l) <=> Accepts(ys, l))
    BY <1>2, LinesAre
  <2>2. IsSeq(ys)
    BY <1>1, <1>2, GetIs
  <2> HIDE DEF xs, ys
  <2>3. validate(l, q) <=> ys = <<>> \/ Accepts(ys, l)
    <3>1. validate(l, q) <=> AcceptHeader(l, q)
      BY <1>7 DEF validate
    <3>2. AcceptHeader(l, q) <=>
            \/ ys = <<>>
            \/ \E line \in ToSet(ys) : \E range \in MediaRanges(line.text) :
                 \/ range = <<l.type, l.subtype>>
                 \/ range = <<l.type, "*">>
                 \/ range = <<"*", "*">>
      BY DEF AcceptHeader, ys
    <3> QED  BY <2>2, <3>1, <3>2, AcceptIs
  <2>4. Violates(i) <=> xs # <<>> /\ ~ Accepts(xs, l)
    <3>1. Violates(i) <=>
            /\ xs # <<>>
            /\ ~ \E line \in ToSet(xs) : \E range \in MediaRanges(line.text) :
                   \/ range[2] \in {l.subtype, "*"} /\ range[1] = l.type
                   \/ range = <<"*", "*">>
      BY <1>7 DEF Violates, xs
    <3> QED  BY <2>1, <3>1, AcceptIs
  <2> QED  BY <1>7, <2>1, <2>3, <2>4
<1>8. CASE l.kind \notin {"limit", "validate"}
  BY <1>8 DEF Violates
<1> QED  BY <1>1, <1>4, <1>5, <1>6, <1>7, <1>8, LayerParts

LEMMA RefusalIs ==
  ASSUME NEW l \in LayerType, l.kind = "validate"
  PROVE  Refusal(l).status \in {401, 403, 406}
<1>1. l.rule \in {"accept", "header", "basic", "bearer"}
  BY LayerParts
<1> DEFINE s == RefusalStatus[l.rule]
           r == Response(s, <<>>)
           x == insert(r.headers, "www-authenticate", Plain("Basic"))
<1>2. s \in {401, 403, 406}
  BY <1>1 DEF RefusalStatus
<1>3. IsResult(r) /\ r.status = s
  BY TextShapes
<1> DEFINE z == [r EXCEPT !.headers = x]
<1>4. Refusal(l) = r \/ Refusal(l) = z
  BY DEF Refusal
<1> HIDE DEF x, r, s
<1>5. z.status = r.status
  BY <1>3, ResponseShapes
<1> HIDE DEF z
<1> QED  BY <1>2, <1>3, <1>4, <1>5

(* In any stack, a request that satisfies every gate as the layers above   *)
(* rewrote it reaches the handler; any other is answered, with the status  *)
(* of a refusal, by the outermost gate that it violates.                   *)
THEOREM GatesAlwaysDecide == Spec => []GatesDecide
<1>1. ASSUME ExchangeInv
      PROVE  GatesDecide
  <2> DEFINE m == Len(calls)
             violated == {i \in DOMAIN layers : i <= m /\ Violates(i)}
  <2>1. /\ DOMAIN layers = 1..Len(layers) /\ Len(layers) \in Nat /\ Bottom = Len(layers) + 1
        /\ m \in 1..Bottom
    BY <1>1, ExchangeFacts DEF ExchangeInv, StackInv, Shape, IsSeq
  <2>2. ASSUME NEW i \in violated
        PROVE  i = m
    <3>1. i \in 1..Len(layers) /\ i \in 1..m /\ Violates(i)
      BY <2>1
    <3>2. ASSUME i # m
          PROVE  FALSE
      <4>1. i \in 1..(m - 1)
        BY <2>1, <3>1, <3>2
      <4>2. Passed(layers[i], calls[i], calls[i + 1], kept[i])
        BY <1>1, <4>1, RequestStep
      <4>3. \/ layers[i].kind = "limit" /\ TooLarge(layers[i], calls[i])
            \/ layers[i].kind = "validate" /\ ~ validate(layers[i], calls[i])
        BY <1>1, <3>1, ViolatesIs
      <4> QED  BY <4>2, <4>3 DEF Passed
    <3> QED  BY <3>2
  <2>3. ASSUME phase = "poll", m < Bottom
        PROVE  violated # {} /\ results[m].status \in {401, 403, 406, 413}
    <3>1. m \in 1..Len(layers) /\ m \in 1..m
      BY <2>1, <2>3
    <3>2. Refused(layers[m], calls[m], results[m])
      BY <1>1, <2>3 DEF ExchangeInv, History
    <3>3. Violates(m)
      <4>1. \/ layers[m].kind = "limit" /\ TooLarge(layers[m], calls[m])
            \/ layers[m].kind = "validate" /\ ~ validate(layers[m], calls[m])
        BY <3>2 DEF Refused
      <4> QED  BY <1>1, <3>1, <4>1, ViolatesIs
    <3>4. m \in violated
      BY <2>1, <3>1, <3>3
    <3>5. layers[m] \in LayerType
      BY <1>1, <3>1, ExchangeFacts
    <3>6. create_error_response.status = 413
      <4>1. \A s, t : TextResponse(s, t).status = s
        BY TextShapes
      <4> QED  BY <4>1, Zenon DEF create_error_response
    <3>7. results[m].status \in {401, 403, 406, 413}
      BY <3>2, <3>5, <3>6, RefusalIs DEF Refused
    <3> QED  BY <3>4, <3>7
  <2> QED  BY <2>2, <2>3 DEF GatesDecide
<1> QED  BY <1>1, ExchangeIsSound, PTL

-----------------------------------------------------------------------------
(* The wrappers around the body, and the layers that put them there.       *)
Wrapping(i) == layers[i].kind \in {"limit", "map_request_body"}

LEMMA WrapsIs ==
  ASSUME NEW n \in Nat
  PROVE  /\ Wraps(n) \in Nat /\ Wraps(0) = 0
         /\ Wraps(n + 1) = IF Wrapping(n + 1) THEN Wraps(n) + 1 ELSE Wraps(n)
<1> DEFINE S(i) == {j \in 1..i : Wrapping(j)}
<1>1. \A i : Wraps(i) = Cardinality(S(i))
  BY DEF Wraps, Wrapping
<1>2. S(0) = {}
  OBVIOUS
<1>3. S(n + 1) = IF Wrapping(n + 1) THEN S(n) \cup {n + 1} ELSE S(n)
  <2>1. 1..(n + 1) = (1..n) \cup {n + 1}
    OBVIOUS
  <2> QED  BY <2>1
<1>4. n + 1 \notin S(n)
  OBVIOUS
<1>5. IsFiniteSet(S(n))
  <2>1. IsFiniteSet(1..n)
    BY FS_Interval
  <2> QED  BY <2>1, FS_Subset
<1> HIDE DEF S
<1>6. Cardinality(S(n)) \in Nat
  BY <1>5, FS_CardinalityType
<1>7. Cardinality(S(n) \cup {n + 1}) = Cardinality(S(n)) + 1
  BY <1>4, <1>5, FS_AddElement
<1>8. Wraps(0) = 0
  BY <1>1, <1>2, FS_EmptySet
<1> QED  BY <1>1, <1>3, <1>6, <1>7, <1>8

(* The wrappers of the body that layer m is given are those of the layers  *)
(* above it, in order.                                                     *)
Wrapped(m) ==
  LET w == calls[m].wraps
  IN /\ Len(w) = Wraps(m - 1)
     /\ \A i \in 1..(m - 1) : layers[i].kind = "limit" =>
          /\ Wraps(i) \in 1..Len(w) /\ w[Wraps(i)].wrap = "limited"
          /\ w[Wraps(i)].limit = BodyLimit(layers[i], calls[i])
     /\ \A k \in 1..Len(w) : w[k].wrap = "limited" =>
          \E i \in 1..(m - 1) : layers[i].kind = "limit" /\ Wraps(i) = k
     /\ \A k \in 1..Len(w) : w[k].wrap = "doubled" =>
          \E i \in 1..(m - 1) : layers[i].kind = "map_request_body"

LEMMA WrappedNext ==
  ASSUME ExchangeInv, NEW m \in 1..(Len(calls) - 1), Wrapped(m)
  PROVE  Wrapped(m + 1)
<1> DEFINE l == layers[m]
           w == calls[m].wraps
           v == calls[m + 1].wraps
<1>1. /\ m \in Nat /\ m >= 1 /\ m \in 1..Len(calls) /\ m \in 1..Len(layers)
      /\ (m + 1) - 1 = m /\ m - 1 \in Nat /\ (m - 1) + 1 = m
  BY ExchangeFacts
<1>2. l \in LayerType /\ IsRequest(calls[m]) /\ IsWraps(w)
  BY <1>1, ExchangeFacts
<1>3. Passed(l, calls[m], calls[m + 1], kept[m])
  BY RequestStep
<1>4. /\ l.kind \notin {"limit", "map_request_body"} => v = w
      /\ l.kind \in {"limit", "map_request_body"} =>
           /\ Len(v) = Len(w) + 1
           /\ \A j \in 1..Len(w) : v[j] = w[j]
      /\ l.kind = "limit" =>
           /\ v[Len(v)].wrap = "limited"
           /\ v[Len(v)].limit = BodyLimit(l, calls[m])
      /\ l.kind = "map_request_body" => v[Len(v)].wrap = "doubled"
  <2> HIDE DEF l
  <2>1. l.kind \notin {"limit", "map_request_body"} => v = w
    BY <1>2, <1>3, PassedBody
  <2>2. l.kind \in {"limit", "map_request_body"} =>
          Len(v) = Len(w) + 1 /\ \A j \in 1..Len(w) : v[j] = w[j]
    BY <1>2, <1>3, PassedBody
  <2>3. l.kind = "limit" =>
          v[Len(v)].wrap = "limited" /\ v[Len(v)].limit = BodyLimit(l, calls[m])
    BY <1>2, <1>3, PassedBody
  <2>4. l.kind = "map_request_body" => v[Len(v)].wrap = "doubled"
    BY <1>2, <1>3, PassedBody
  <2> QED  BY <2>1, <2>2, <2>3, <2>4
<1>5. Wraps(m) = IF Wrapping(m) THEN Wraps(m - 1) + 1 ELSE Wraps(m - 1)
  BY <1>1, WrapsIs
<1>6. Len(w) = Wraps(m - 1) /\ Len(w) \in Nat
  BY <1>1, WrapsIs DEF Wrapped
<1>7. Wrapping(m) <=> l.kind \in {"limit", "map_request_body"}
  BY DEF Wrapping
<1>8. /\ \A i \in 1..(m - 1) : layers[i].kind = "limit" =>
           /\ Wraps(i) \in 1..Len(w) /\ w[Wraps(i)].wrap = "limited"
           /\ w[Wraps(i)].limit = BodyLimit(layers[i], calls[i])
      /\ \A k \in 1..Len(w) : w[k].wrap = "limited" =>
           \E i \in 1..(m - 1) : layers[i].kind = "limit" /\ Wraps(i) = k
      /\ \A k \in 1..Len(w) : w[k].wrap = "doubled" =>
           \E i \in 1..(m - 1) : layers[i].kind = "map_request_body"
  BY DEF Wrapped
<1>9. \A i \in 1..m : i \in 1..(m - 1) \/ i = m
  BY <1>1
<1>10. \A i \in 1..(m - 1) : i \in 1..m
  BY <1>1
<1> DEFINE Goal == /\ Len(v) = Wraps(m)
                   /\ \A i \in 1..m : layers[i].kind = "limit" =>
                        /\ Wraps(i) \in 1..Len(v) /\ v[Wraps(i)].wrap = "limited"
                        /\ v[Wraps(i)].limit = BodyLimit(layers[i], calls[i])
                   /\ \A k \in 1..Len(v) : v[k].wrap = "limited" =>
                        \E i \in 1..m : layers[i].kind = "limit" /\ Wraps(i) = k
                   /\ \A k \in 1..Len(v) : v[k].wrap = "doubled" =>
                        \E i \in 1..m : layers[i].kind = "map_request_body"
<1> SUFFICES Goal
  BY <1>1 DEF Wrapped
<1>11. CASE ~ Wrapping(m)
  <2>1. v = w /\ l.kind # "limit"
    BY <1>4, <1>7, <1>11
  <2>2. Len(v) = Wraps(m)
    BY <1>5, <1>6, <1>11, <2>1
  <2> QED  BY <1>8, <1>9, <1>10, <2>1, <2>2
<1>12. CASE Wrapping(m)
  <2>1. Len(v) = Len(w) + 1 /\ \A j \in 1..Len(w) : v[j] = w[j]
    BY <1>4, <1>7, <1>12
  <2>2. Len(v) = Wraps(m)
    BY <1>5, <1>6, <1>12, <2>1
  <2> HIDE DEF v, w
  <2>3. \A k \in 1..Len(v) : k \in 1..Len(w) \/ k = Len(v)
    BY <1>6, <2>1
  <2>4. \A k \in 1..Len(w) : k \in 1..Len(v)
    BY <1>6, <2>1
  <2>5. Len(v) \in 1..Len(v)
    BY <1>6, <2>1
  <2>6. ASSUME NEW i \in 1..m, layers[i].kind = "limit"
        PROVE  /\ Wraps(i) \in 1..Len(v) /\ v[Wraps(i)].wrap = "limited"
               /\ v[Wraps(i)].limit = BodyLimit(layers[i], calls[i])
    <3>1. CASE i = m
      BY <1>4, <2>2, <2>5, <2>6, <3>1
    <3>2. CASE i \in 1..(m - 1)
      BY <1>8, <2>1, <2>4, <2>6, <3>2
    <3> QED  BY <1>9, <3>1, <3>2
  <2>7. m \in 1..m
    BY <1>1
  <2>8. l.kind = "limit" \/ l.kind = "map_request_body"
    BY <1>7, <1>12
  <2>9. ASSUME NEW k \in 1..Len(v), v[k].wrap = "limited"
        PROVE  \E i \in 1..m : layers[i].kind = "limit" /\ Wraps(i) = k
    <3>1. CASE k = Len(v)
      BY <1>4, <2>2, <2>7, <2>8, <2>9, <3>1
    <3>2. CASE k \in 1..Len(w)
      BY <1>8, <1>10, <2>1, <2>9, <3>2
    <3> QED  BY <2>3, <3>1, <3>2
  <2>10. ASSUME NEW k \in 1..Len(v), v[k].wrap = "doubled"
         PROVE  \E i \in 1..m : layers[i].kind = "map_request_body"
    <3>1. CASE k = Len(v)
      BY <1>4, <2>7, <2>8, <2>10, <3>1
    <3>2. CASE k \in 1..Len(w)
      BY <1>8, <1>10, <2>1, <2>10, <3>2
    <3> QED  BY <2>3, <3>1, <3>2
  <2> QED  BY <2>2, <2>6, <2>9, <2>10
<1> QED  BY <1>11, <1>12

LEMMA WrappedIs ==
  ASSUME ExchangeInv
  PROVE  \A m \in 1..Len(calls) : Wrapped(m)
<1> DEFINE n == Len(calls)
           S == {m \in 1..n : Wrapped(m)}
           one == 1
<1>1. one \in Int /\ n \in Int /\ one \in 1..n
  BY ExchangeFacts
<1>2. one \in S
  <2>1. calls[1].wraps = <<>>
    BY ExchangeFacts
  <2>2. Len(calls[1].wraps) = 0
    BY <2>1
  <2>3. Wraps(1 - 1) = 0
    BY WrapsIs
  <2>4. Wrapped(1)
    BY <2>2, <2>3 DEF Wrapped
  <2> QED  BY <1>1, <2>4
<1>3. ASSUME NEW m \in one..(n - 1), m \in S
      PROVE  m + 1 \in S
  <2>1. m \in 1..(n - 1) /\ m + 1 \in 1..n
    BY <1>1
  <2> QED  BY <1>3, <2>1, WrappedNext
<1>4. \A m \in one..n : m \in S
  <2> HIDE DEF S, n, one
  <2> QED  BY <1>1, <1>2, <1>3, UpTo, Zenon
<1> QED  BY <1>4

LEMMA AllowedIs ==
  ASSUME ExchangeInv, NEW i \in 1..(Len(calls) - 1), layers[i].kind = "limit"
  PROVE  /\ Allowed(i) = BodyLimit(layers[i], calls[i]) /\ Allowed(i) \in Nat
         /\ ContentLength(calls[i].headers) # -1 =>
              Allowed(i) = ContentLength(calls[i].headers)
<1> DEFINE l == layers[i]
           q == calls[i]
           c == ContentLength(q.headers)
<1>1. i \in 1..Len(calls) /\ i \in 1..Len(layers)
  BY ExchangeFacts
<1>2. l \in LayerType /\ IsRequest(q) /\ IsWraps(q.wraps)
  BY <1>1, ExchangeFacts
<1>3. l.limit \in Nat
  BY <1>2, LayerParts
<1>4. Passed(l, q, calls[i + 1], kept[i])
  BY RequestStep
<1>5. ~ TooLarge(l, q)
  BY <1>2, <1>4, PassedBody
<1>6. "content-length" \in Names
  BY DEF Names
<1>7. AsNumber(FirstValue(i, "content-length")) = c
  BY <1>1, <1>6, FirstValueIs DEF ContentLength
<1>8. c \in Nat \/ c = -1
  BY NumberIs DEF ContentLength
<1>9. c # -1 => c <= l.limit
  BY <1>3, <1>5, <1>8 DEF TooLarge
<1>10. BodyLimit(l, q) \in Nat /\ BodyLimit(l, q) = IF c = -1 THEN l.limit ELSE c
  BY <1>3, <1>5, BodyLimitIs
<1>11. Allowed(i) = IF c = -1 THEN l.limit ELSE Min({c, l.limit})
  BY <1>7 DEF Allowed
<1> HIDE DEF c, l, q
<1>12. c # -1 => Min({c, l.limit}) = c
  <2> DEFINE T == {c, l.limit}
  <2>1. c # -1 => T \subseteq Nat /\ IsMin(c, T)
    BY <1>3, <1>8, <1>9 DEF IsMin
  <2> HIDE DEF T
  <2>2. c # -1 => Min(T) = c
    BY <2>1, MinIs
  <2> QED  BY <2>2 DEF T
<1> QED  BY <1>10, <1>11, <1>12 DEF c, l, q

(* In any stack the handler never gets more than a limit, or the           *)
(* Content-Length, allows at the place of the limit; a read fails only     *)
(* when the body is really too long; and a body as long as its             *)
(* Content-Length says is read to the end when it is not refused.          *)
THEOREM BodyIsAlwaysWithinLimit == Spec => []BodyWithinLimit
<1>1. ASSUME ExchangeInv
      PROVE  BodyWithinLimit
  <2> SUFFICES ASSUME Len(calls) = Bottom
               PROVE  /\ \A i \in Of("limit") : Measured(i, Given) <= Allowed(i)
                      /\ fault => \E i \in Of("limit") : Measured(i, Total) > Allowed(i)
                      /\ /\ ContentLength(calls[1].headers) = Total
                         /\ Of("map_request_body") = {}
                         /\ \A i \in DOMAIN layers : ~ WritesRequest(i, "content-length")
                         => ~ fault
    BY DEF BodyWithinLimit, Total
  <2> DEFINE w == calls[Bottom].wraps
             n == Bottom - 1
  <2>1. /\ Bottom \in 1..Len(calls) /\ Bottom \in Nat /\ n = Len(layers) /\ n = Len(calls) - 1
        /\ DOMAIN layers = 1..Len(layers) /\ Len(layers) \in Nat
    BY <1>1, ExchangeFacts DEF ExchangeInv, StackInv, Shape, IsSeq
  <2>2. /\ \A i \in 1..n : layers[i].kind = "limit" =>
             /\ Wraps(i) \in 1..Len(w) /\ w[Wraps(i)].wrap = "limited"
             /\ w[Wraps(i)].limit = BodyLimit(layers[i], calls[i])
        /\ \A k \in 1..Len(w) : w[k].wrap = "limited" =>
             \E i \in 1..n : layers[i].kind = "limit" /\ Wraps(i) = k
        /\ \A k \in 1..Len(w) : w[k].wrap = "doubled" =>
             \E i \in 1..n : layers[i].kind = "map_request_body"
    <3>1. Wrapped(Bottom)
      BY <1>1, <2>1, WrappedIs
    <3> QED  BY <3>1 DEF Wrapped
  <2>3. \A kind : \A i : i \in Of(kind) <=> i \in 1..n /\ layers[i].kind = kind
    BY <2>1 DEF Of
  <2>4. \A i, b : Measured(i, b) = Through(w, Wraps(i) - 1, b)
    BY DEF Measured
  <2>5. \A i \in 1..n : layers[i].kind = "limit" => w[Wraps(i)].limit = Allowed(i)
    BY <1>1, <2>1, <2>2, AllowedIs
  <2>6. /\ \A k \in 1..Len(w) : w[k].wrap = "limited" => Through(w, k - 1, Given) <= w[k].limit
        /\ fault => \E k \in 1..Len(w) :
             w[k].wrap = "limited" /\ Through(w, k - 1, Total) > w[k].limit
    BY <1>1 DEF ExchangeInv, Reading
  <2> HIDE DEF w, n
  <2>7. \A i \in Of("limit") : Measured(i, Given) <= Allowed(i)
    BY <2>2, <2>3, <2>4, <2>5, <2>6
  <2>8. ASSUME fault
        PROVE  \E i \in Of("limit") : Measured(i, Total) > Allowed(i)
    <3>1. PICK k \in 1..Len(w) : w[k].wrap = "limited" /\ Through(w, k - 1, Total) > w[k].limit
      BY <2>6, <2>8
    <3>2. PICK i \in 1..n : layers[i].kind = "limit" /\ Wraps(i) = k
      BY <2>2, <3>1
    <3> QED  BY <2>3, <2>4, <2>5, <3>1, <3>2
  <2>9. ASSUME ContentLength(calls[1].headers) = Total, Of("map_request_body") = {},
               \A i \in DOMAIN layers : ~ WritesRequest(i, "content-length"), fault
        PROVE  FALSE
    <3> DEFINE h == "content-length"
               one == 1
    <3>1. PICK i \in Of("limit") : Measured(i, Total) > Allowed(i)
      BY <2>8, <2>9
    <3>2. i \in 1..n /\ layers[i].kind = "limit" /\ Wraps(i) \in 1..Len(w)
      BY <2>2, <2>3, <3>1
    <3>3. i \in 1..(Len(calls) - 1) /\ i \in 1..Len(calls) /\ one \in 1..Len(calls)
          /\ i \in one..Len(calls) /\ \A k \in one..(i - 1) : k \in DOMAIN layers
      BY <2>1, <3>2
    <3>4. h \in Names /\ \A k \in one..(i - 1) : ~ WritesRequest(k, h)
      BY <2>9, <3>3 DEF Names
    <3>5. IsHeaders(calls[one].headers) /\ IsHeaders(calls[i].headers)
      BY <1>1, <3>3, ExchangeFacts
    <3> HIDE DEF h, one
    <3>6. Follows(calls[one].headers[h], calls[i].headers[h])
      BY <1>1, <3>3, <3>4, GoesIn
    <3>7. get(calls[i].headers, h) = get(calls[one].headers, h)
      BY <3>4, <3>5, <3>6, FollowsKeeps
    <3>8. ContentLength(calls[i].headers) = Total
      BY <2>9, <3>7 DEF ContentLength, h, one
    <3>9. Total \in Nat
      <4> DEFINE c == calls[1].chunks
      <4>1. c \in Seq(Nat)
        BY <1>1, ExchangeFacts
      <4>2. Len(c) \in 0..Len(c)
        BY <4>1, LenProperties
      <4> QED  BY <4>1, <4>2, SizeIs DEF Total
    <3>10. Allowed(i) = Total
      BY <1>1, <3>2, <3>3, <3>8, <3>9, AllowedIs
    <3>11. Len(w) \in Nat
      BY <1>1, <2>1, ExchangeFacts DEF IsWraps, IsSeq, w
    <3>12. \A k \in 1..Len(w) : w[k].wrap # "doubled"
      BY <2>2, <2>3, <2>9
    <3>13. Wraps(i) - 1 \in 0..Len(w)
      BY <3>2, <3>11
    <3>14. Through(w, Wraps(i) - 1, Total) = Total
      BY <3>9, <3>11, <3>12, <3>13, ThroughPlain
    <3> QED  BY <2>4, <3>1, <3>9, <3>10, <3>14
  <2> QED  BY <2>7, <2>8, <2>9
<1> QED  BY <1>1, ExchangeIsSound, PTL
=============================================================================
