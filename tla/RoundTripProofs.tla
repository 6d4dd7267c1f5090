-------------------------- MODULE RoundTripProofs ---------------------------
(***************************************************************************)
(* The delivery of a compressed response, for every response, every cut of *)
(* it into frames, every failure of the network and any number of empty    *)
(* frames: what the caller has got is a prefix of the response, a clean    *)
(* end comes behind all of it, and errors are real.                        *)
(*                                                                         *)
(* The text of the response is spread over the pipeline: what the caller   *)
(* has, what the decoder has ready, its chunk, the wire, what the encoder  *)
(* has ready, its chunk, and the frames it has not polled.  The invariant  *)
(* (Flow) says where in the text, or in the encoded text, each of them     *)
(* begins and ends, so that nothing lies between two of them.  The rest    *)
(* of Sound says which ends and errors may be where: a frame that ends a   *)
(* body stays behind all data.                                             *)
(*                                                                         *)
(* The second part is about the decoder alone, on a body somebody else     *)
(* made (ForeignBody): its verdict is right.  The invariant (ForeignInv)   *)
(* says how many frames were taken and how many bytes decoded, what the    *)
(* state of the codec tells of those bytes, and, once the decoder has      *)
(* finished, that the end is the one a definition of well formed bodies    *)
(* asks for.                                                               *)
(***************************************************************************)
EXTENDS ForeignBody, NaturalsInduction, WellFoundedInduction, SequenceTheorems, TLAPS

-----------------------------------------------------------------------------
(* s is what text holds after its first k bytes.                           *)
Segment(s, text, k) ==
  /\ k \in Nat /\ k + Len(s) <= Len(text)
  /\ \A i \in 1..Len(s) : s[i] = text[k + i]

Frame ==
  {f \in [kind : {"data", "trailers", "error", "none"}, bytes : Seq(Int)] :
     f.kind # "data" => f.bytes = <<>>}

(* The frames carry the bytes of text after `from` up to `to`, and the     *)
(* frames that end a body come after all of them; p[i] is where frame i    *)
(* ends.                                                                   *)
Places(p, frames, text, from, to) ==
  /\ p \in [0..Len(frames) -> Nat]
  /\ p[0] = from /\ p[Len(frames)] = to
  /\ \A i \in 1..Len(frames) :
       /\ p[i] = p[i - 1] + Len(frames[i].bytes)
       /\ Segment(frames[i].bytes, text, p[i - 1])
       /\ frames[i].kind \in {"trailers", "none"} => p[i - 1] = Len(text)

Chain(frames, text, from, to) == \E p : Places(p, frames, text, from, to)

\* No bytes are a segment anywhere in the text.
LEMMA SegmentEmpty ==
  ASSUME NEW text \in Seq(Int), NEW k \in Nat, k <= Len(text)
  PROVE  Segment(<<>>, text, k)
BY DEF Segment

\* The first byte of a segment, and the segment behind it.
LEMMA SegmentHead ==
  ASSUME NEW s \in Seq(Int), NEW text \in Seq(Int), NEW k, Segment(s, text, k),
         s # <<>>
  PROVE  /\ Head(s) = text[k + 1] /\ k + 1 <= Len(text)
         /\ Tail(s) \in Seq(Int) /\ Len(Tail(s)) = Len(s) - 1
         /\ Segment(Tail(s), text, k + 1)
<1>1. /\ Len(s) \in Nat /\ Len(s) > 0 /\ Head(s) = s[1] /\ Tail(s) \in Seq(Int)
      /\ Len(Tail(s)) = Len(s) - 1
      /\ \A i \in 1..Len(Tail(s)) : Tail(s)[i] = s[i + 1]
  BY HeadTailProperties, LenProperties
<1>2. k \in Nat /\ Len(text) \in Nat /\ k + Len(s) <= Len(text)
  BY DEF Segment
<1>3. s[1] = text[k + 1]
  BY <1>1 DEF Segment
<1>4. ASSUME NEW i \in 1..Len(Tail(s))
      PROVE  Tail(s)[i] = text[(k + 1) + i]
  <2>1. i + 1 \in 1..Len(s) /\ Tail(s)[i] = s[i + 1] /\ k + (i + 1) = (k + 1) + i
    BY <1>1, <1>2
  <2> QED  BY <2>1 DEF Segment
<1> QED  BY <1>1, <1>2, <1>3, <1>4 DEF Segment

\* A segment grows by the byte of the text that follows it.
LEMMA SegmentAppend ==
  ASSUME NEW s \in Seq(Int), NEW text \in Seq(Int), NEW k, Segment(s, text, k),
         NEW x \in Int, k + Len(s) < Len(text), x = text[k + Len(s) + 1]
  PROVE  /\ Segment(Append(s, x), text, k)
         /\ Append(s, x) \in Seq(Int) /\ Len(Append(s, x)) = Len(s) + 1
<1>1. /\ Len(s) \in Nat /\ Len(text) \in Nat /\ k \in Nat
  BY LenProperties DEF Segment
<1>2. /\ Append(s, x) \in Seq(Int) /\ Len(Append(s, x)) = Len(s) + 1
      /\ \A i \in 1..Len(s) : Append(s, x)[i] = s[i]
      /\ Append(s, x)[Len(s) + 1] = x
  BY AppendProperties
<1>3. ASSUME NEW i \in 1..(Len(s) + 1)
      PROVE  Append(s, x)[i] = text[k + i]
  <2>1. CASE i = Len(s) + 1
    <3>1. k + i = k + Len(s) + 1
      BY <1>1, <2>1
    <3> QED  BY <1>2, <2>1, <3>1
  <2>2. CASE i # Len(s) + 1
    <3>1. i \in 1..Len(s)
      BY <1>1, <2>2
    <3> QED  BY <1>2, <3>1 DEF Segment
  <2> QED  BY <2>1, <2>2
<1>4. k + (Len(s) + 1) <= Len(text)
  BY <1>1
<1> DEFINE t == Append(s, x)
<1> HIDE DEF t
<1>5. /\ t \in Seq(Int) /\ Len(t) = Len(s) + 1
      /\ \A i \in 1..(Len(s) + 1) : t[i] = text[k + i]
  BY <1>2, <1>3 DEF t
<1>6. Segment(t, text, k)
  BY <1>1, <1>4, <1>5 DEF Segment
<1> QED  BY <1>5, <1>6 DEF t

\* The first n bytes of a segment are a segment, and so are the others.
LEMMA SegmentSplit ==
  ASSUME NEW s \in Seq(Int), NEW text \in Seq(Int), NEW k, Segment(s, text, k),
         NEW n \in 1..Len(s)
  PROVE  /\ SubSeq(s, 1, n) \in Seq(Int) /\ Len(SubSeq(s, 1, n)) = n
         /\ SubSeq(s, n + 1, Len(s)) \in Seq(Int)
         /\ Len(SubSeq(s, n + 1, Len(s))) = Len(s) - n
         /\ Segment(SubSeq(s, 1, n), text, k)
         /\ Segment(SubSeq(s, n + 1, Len(s)), text, k + n)
<1> DEFINE u == SubSeq(s, 1, n)  v == SubSeq(s, n + 1, Len(s))
<1>1. /\ Len(s) \in Nat /\ Len(text) \in Nat /\ k \in Nat /\ n \in Nat
      /\ k + Len(s) <= Len(text) /\ n >= 1 /\ n <= Len(s)
  BY LenProperties DEF Segment
<1>2. u \in Seq(Int) /\ Len(u) = n /\ \A i \in 1..n : u[i] = s[i]
  <2>1. \A i \in 1..n : s[i] \in Int
    BY <1>1, ElementOfSeq
  <2> QED  BY <1>1, <2>1, SubSeqProperties
<1>3. /\ v \in Seq(Int) /\ Len(v) = Len(s) - n
      /\ \A i \in 1..(Len(s) - n) : v[i] = s[n + i]
  <2>1. \A i \in (n + 1)..Len(s) : s[i] \in Int
    BY <1>1, ElementOfSeq
  <2>2. /\ v \in Seq(Int)
        /\ Len(v) = IF n + 1 <= Len(s) THEN Len(s) - (n + 1) + 1 ELSE 0
        /\ \A i \in 1..(Len(s) - (n + 1) + 1) : v[i] = s[(n + 1) + i - 1]
    BY <1>1, <2>1, SubSeqProperties
  <2> HIDE DEF v
  <2>3. Len(v) = Len(s) - n /\ Len(s) - (n + 1) + 1 = Len(s) - n
    BY <1>1, <2>2
  <2>4. ASSUME NEW i \in 1..(Len(s) - n) PROVE v[i] = s[n + i]
    <3>1. (n + 1) + i - 1 = n + i /\ i \in 1..(Len(s) - (n + 1) + 1)
      BY <1>1, <2>3
    <3> QED  BY <2>2, <3>1
  <2> QED  BY <2>2, <2>3, <2>4
<1> HIDE DEF u, v
<1>4. Segment(u, text, k)
  <2>1. ASSUME NEW i \in 1..n PROVE u[i] = text[k + i]
    <3>1. i \in 1..Len(s)
      BY <1>1
    <3> QED  BY <1>2, <3>1 DEF Segment
  <2> QED  BY <1>1, <1>2, <2>1 DEF Segment
<1>5. Segment(v, text, k + n)
  <2>1. ASSUME NEW i \in 1..(Len(s) - n) PROVE v[i] = text[(k + n) + i]
    <3>1. n + i \in 1..Len(s) /\ k + (n + i) = (k + n) + i
      BY <1>1
    <3>2. s[n + i] = text[k + (n + i)]
      BY <3>1 DEF Segment
    <3> QED  BY <1>3, <3>1, <3>2
  <2>2. (k + n) + Len(v) <= Len(text) /\ k + n \in Nat
    BY <1>1, <1>3
  <2> QED  BY <1>3, <2>1, <2>2 DEF Segment
<1> QED  BY <1>2, <1>3, <1>4, <1>5 DEF u, v

(* An element of a sequence of frames, and its bytes.                      *)
LEMMA FrameAt ==
  ASSUME NEW frames \in Seq(Frame), NEW i \in 1..Len(frames)
  PROVE  /\ frames[i] \in Frame /\ frames[i].bytes \in Seq(Int)
         /\ Len(frames[i].bytes) \in Nat
         /\ frames[i].kind # "data" => frames[i].bytes = <<>>
<1>1. frames[i] \in Frame
  BY ElementOfSeq
<1> QED  BY <1>1 DEF Frame

\* No frames carry no bytes, wherever in the text they are.
LEMMA ChainEmpty ==
  ASSUME NEW text, NEW k \in Nat
  PROVE  Chain(<<>>, text, k, k)
<1> DEFINE p == [i \in 0..0 |-> k]
<1>1. Places(p, <<>>, text, k, k)
  BY DEF Places
<1> QED  BY <1>1 DEF Chain

\* The first frame of a chain, and the chain behind it.
LEMMA ChainHead ==
  ASSUME NEW frames \in Seq(Frame), NEW text \in Seq(Int), NEW from, NEW to,
         Chain(frames, text, from, to), frames # <<>>
  PROVE  /\ Head(frames) \in Frame /\ Tail(frames) \in Seq(Frame)
         /\ Segment(Head(frames).bytes, text, from)
         /\ Head(frames).kind \in {"trailers", "none"} => from = Len(text)
         /\ from + Len(Head(frames).bytes) \in Nat
         /\ Chain(Tail(frames), text, from + Len(Head(frames).bytes), to)
<1> DEFINE f == Head(frames)  rest == Tail(frames)  N == Len(frames)
<1>1. PICK p : Places(p, frames, text, from, to)
  BY DEF Chain
<1>2. /\ N \in Nat /\ N > 0 /\ f = frames[1] /\ rest \in Seq(Frame) /\ Len(rest) = N - 1
      /\ \A i \in 1..(N - 1) : rest[i] = frames[i + 1]
  BY HeadTailProperties, LenProperties
<1> HIDE DEF f, rest
<1>3. f \in Frame /\ f.bytes \in Seq(Int) /\ Len(f.bytes) \in Nat
  BY <1>2, FrameAt
<1>4. /\ p \in [0..N -> Nat] /\ p[0] = from /\ p[N] = to
      /\ \A i \in 1..N :
           /\ p[i] = p[i - 1] + Len(frames[i].bytes)
           /\ Segment(frames[i].bytes, text, p[i - 1])
           /\ frames[i].kind \in {"trailers", "none"} => p[i - 1] = Len(text)
  BY <1>1 DEF Places
<1> HIDE DEF N
<1>5. /\ p[1] = from + Len(f.bytes) /\ Segment(f.bytes, text, from)
      /\ f.kind \in {"trailers", "none"} => from = Len(text)
      /\ p[1] \in Nat
  <2>1. 1 \in 1..N /\ 1 - 1 = 0 /\ 1 \in 0..N
    BY <1>2
  <2> QED  BY <1>2, <1>4, <2>1
<1> DEFINE q == [i \in 0..(N - 1) |-> p[i + 1]]
<1>6. /\ q \in [0..(N - 1) -> Nat] /\ q[0] = p[1] /\ q[N - 1] = to
  <2>1. \A i \in 0..(N - 1) : i + 1 \in 0..N
    BY <1>2
  <2>2. 0 \in 0..(N - 1) /\ N - 1 \in 0..(N - 1) /\ (N - 1) + 1 = N /\ 0 + 1 = 1
    BY <1>2
  <2> QED  BY <1>4, <2>1, <2>2
<1>7. ASSUME NEW i \in 1..(N - 1)
      PROVE  /\ q[i] = q[i - 1] + Len(rest[i].bytes)
             /\ Segment(rest[i].bytes, text, q[i - 1])
             /\ rest[i].kind \in {"trailers", "none"} => q[i - 1] = Len(text)
  <2>1. /\ i + 1 \in 1..N /\ i \in 0..(N - 1) /\ i - 1 \in 0..(N - 1)
        /\ (i - 1) + 1 = i /\ (i + 1) - 1 = i
    BY <1>2
  <2>2. q[i] = p[i + 1] /\ q[i - 1] = p[i] /\ rest[i] = frames[i + 1]
    BY <1>2, <2>1
  <2> HIDE DEF q
  <2>3. /\ p[i + 1] = p[(i + 1) - 1] + Len(frames[i + 1].bytes)
        /\ Segment(frames[i + 1].bytes, text, p[(i + 1) - 1])
        /\ frames[i + 1].kind \in {"trailers", "none"} => p[(i + 1) - 1] = Len(text)
    BY <1>4, <2>1
  <2> QED  BY <2>1, <2>2, <2>3
<1> HIDE DEF q
<1>8. Places(q, rest, text, from + Len(f.bytes), to)
  BY <1>2, <1>5, <1>6, <1>7 DEF Places
<1> QED  BY <1>2, <1>3, <1>5, <1>8 DEF Chain, f, rest

\* A chain grows by a frame that carries on where it ends.
LEMMA ChainAppend ==
  ASSUME NEW frames \in Seq(Frame), NEW text \in Seq(Int), NEW from, NEW to,
         Chain(frames, text, from, to), NEW f \in Frame,
         Segment(f.bytes, text, to),
         f.kind \in {"trailers", "none"} => to = Len(text)
  PROVE  /\ Append(frames, f) \in Seq(Frame)
         /\ to + Len(f.bytes) \in Nat
         /\ Chain(Append(frames, f), text, from, to + Len(f.bytes))
<1> DEFINE all == Append(frames, f)  N == Len(frames)
<1>1. PICK p : Places(p, frames, text, from, to)
  BY DEF Chain
<1>2. /\ N \in Nat /\ all \in Seq(Frame) /\ Len(all) = N + 1
      /\ \A i \in 1..N : all[i] = frames[i]
      /\ all[N + 1] = f
  BY AppendProperties, LenProperties
<1> HIDE DEF all
<1>3. f.bytes \in Seq(Int) /\ Len(f.bytes) \in Nat
  BY DEF Frame
<1>4. /\ p \in [0..N -> Nat] /\ p[0] = from /\ p[N] = to
      /\ \A i \in 1..N :
           /\ p[i] = p[i - 1] + Len(frames[i].bytes)
           /\ Segment(frames[i].bytes, text, p[i - 1])
           /\ frames[i].kind \in {"trailers", "none"} => p[i - 1] = Len(text)
  BY <1>1 DEF Places
<1> HIDE DEF N
<1> DEFINE e == to + Len(f.bytes)
<1>5. to \in Nat /\ e \in Nat
  BY <1>2, <1>3, <1>4
<1> HIDE DEF e
<1> DEFINE q == [i \in 0..(N + 1) |-> IF i = N + 1 THEN e ELSE p[i]]
<1>6. /\ q \in [0..(N + 1) -> Nat] /\ q[0] = from /\ q[N + 1] = e
      /\ \A i \in 0..N : q[i] = p[i]
  <2>1. \A i \in 0..(N + 1) : i # N + 1 => i \in 0..N
    BY <1>2
  <2>2. 0 \in 0..(N + 1) /\ N + 1 \in 0..(N + 1) /\ 0 # N + 1
    BY <1>2
  <2>3. \A i \in 0..N : i \in 0..(N + 1) /\ i # N + 1
    BY <1>2
  <2> QED  BY <1>4, <1>5, <2>1, <2>2, <2>3
<1> HIDE DEF q
<1>7. ASSUME NEW i \in 1..(N + 1)
      PROVE  /\ q[i] = q[i - 1] + Len(all[i].bytes)
             /\ Segment(all[i].bytes, text, q[i - 1])
             /\ all[i].kind \in {"trailers", "none"} => q[i - 1] = Len(text)
  <2>1. CASE i = N + 1
    <3>1. i - 1 = N /\ N \in 0..N
      BY <1>2, <2>1
    <3>2. q[i] = e /\ q[i - 1] = to /\ all[i] = f
      BY <1>2, <1>4, <1>6, <2>1, <3>1
    <3> QED  BY <3>2 DEF e
  <2>2. CASE i # N + 1
    <3>1. i \in 1..N /\ i \in 0..N /\ i - 1 \in 0..N
      BY <1>2, <2>2
    <3>2. q[i] = p[i] /\ q[i - 1] = p[i - 1] /\ all[i] = frames[i]
      BY <1>2, <1>6, <3>1
    <3> QED  BY <1>4, <3>1, <3>2
  <2> QED  BY <2>1, <2>2
<1>8. Places(q, all, text, from, e)
  BY <1>2, <1>6, <1>7 DEF Places
<1> QED  BY <1>2, <1>5, <1>8 DEF Chain, all, e

-----------------------------------------------------------------------------
(* A set of numbers that is not empty has a least one.                     *)
LEMMA LeastExists ==
  ASSUME NEW S, S \subseteq Nat, S # {}
  PROVE  \E n \in S : \A y \in S : n =< y
<1>1. PICK n \in S : \A y \in S : ~ (<<y, n>> \in OpToRel(<, Nat))
  BY WFMin, NatLessThanWellFounded
<1>2. ASSUME NEW y \in S
      PROVE  n =< y
  <2>1. ~ (y < n)
    BY <1>1 DEF OpToRel
  <2> QED  BY <2>1
<1> QED  BY <1>2

(* Induction on numbers takes a set for the property: the provers cannot   *)
(* instantiate an operator.                                                *)
LEMMA FromZero ==
  ASSUME NEW S, 0 \in S, \A n \in Nat : n \in S => n + 1 \in S
  PROVE  \A n \in Nat : n \in S
<1> DEFINE T == {n \in Nat : n \notin S}
<1> SUFFICES ASSUME T # {} PROVE FALSE
  OBVIOUS
<1>1. PICK m \in T : \A y \in T : m =< y
  <2>1. T \subseteq Nat
    OBVIOUS
  <2> HIDE DEF T
  <2> QED  BY <2>1, LeastExists
<1>2. m # 0 /\ m \in Nat /\ m \notin S
  OBVIOUS
<1>3. m - 1 \in Nat /\ (m - 1) + 1 = m /\ ~(m =< m - 1)
  BY <1>2
<1>4. m - 1 \in S
  BY <1>1, <1>3
<1> QED  BY <1>2, <1>3, <1>4

(* A chain stays in its text, and does not run backwards.                  *)
LEMMA PlacesBounds ==
  ASSUME NEW frames \in Seq(Frame), NEW text \in Seq(Int), NEW from, NEW to, NEW p,
         Places(p, frames, text, from, to), from <= Len(text)
  PROVE  /\ from \in Nat /\ to \in Nat
         /\ \A i \in 0..Len(frames) : from <= p[i] /\ p[i] <= to /\ p[i] <= Len(text)
<1> DEFINE N == Len(frames)  M == Len(text)
<1>1. N \in Nat /\ M \in Nat
  BY LenProperties
<1>2. /\ p \in [0..N -> Nat] /\ p[0] = from /\ p[N] = to
      /\ \A i \in 1..N : /\ p[i] = p[i - 1] + Len(frames[i].bytes)
                         /\ Segment(frames[i].bytes, text, p[i - 1])
  BY DEF Places
<1>3. \A i \in 1..N : Len(frames[i].bytes) \in Nat
  BY FrameAt
<1>4. from <= M
  OBVIOUS
<1>5. \A i \in 1..N : p[i - 1] + Len(frames[i].bytes) <= M
  BY <1>2 DEF Segment
<1> HIDE DEF N, M
<1> DEFINE S == {n \in Nat : n <= N => /\ p[n] <= M
                                       /\ \A i \in 0..n : from <= p[i] /\ p[i] <= p[n]}
<1>6. 0 \in S
  <2>1. 0 \in 0..N
    BY <1>1
  <2>2. p[0] \in Nat
    BY <1>2, <2>1
  <2>3. \A i \in 0..0 : i = 0
    OBVIOUS
  <2> QED  BY <1>2, <1>4, <2>2, <2>3
<1>7. ASSUME NEW n \in Nat, n \in S PROVE n + 1 \in S
  <2> SUFFICES ASSUME n + 1 <= N
               PROVE  /\ p[n + 1] <= M
                      /\ \A i \in 0..(n + 1) : from <= p[i] /\ p[i] <= p[n + 1]
    OBVIOUS
  <2> DEFINE l == Len(frames[n + 1].bytes)
  <2>1. n + 1 \in 1..N /\ (n + 1) - 1 = n /\ n <= N /\ n \in 0..N /\ n + 1 \in 0..N
    BY <1>1
  <2>2. p[n + 1] = p[n] + l /\ l \in Nat /\ p[n] + l <= M
    BY <1>2, <1>3, <1>5, <2>1
  <2>3. \A i \in 0..n : from <= p[i] /\ p[i] <= p[n]
    BY <1>7, <2>1
  <2>4. \A i \in 0..N : p[i] \in Nat
    BY <1>2
  <2> HIDE DEF l
  <2>5. from \in Nat /\ p[n] \in Nat /\ from <= p[n]
    <3>1. 0 \in 0..N /\ n \in 0..n
      BY <1>1
    <3> QED  BY <1>2, <2>1, <2>3, <2>4, <3>1
  <2>6. ASSUME NEW i \in 0..(n + 1)
        PROVE  from <= p[i] /\ p[i] <= p[n + 1]
    <3>1. CASE i = n + 1
      BY <2>2, <2>5, <3>1
    <3>2. CASE i # n + 1
      <4>1. i \in 0..n /\ i \in 0..N
        BY <1>1, <2>1, <3>2
      <4> QED  BY <2>2, <2>3, <2>4, <2>5, <4>1
    <3> QED  BY <3>1, <3>2
  <2> QED  BY <2>2, <2>6
<1>8. \A n \in Nat : n \in S
  <2> HIDE DEF S
  <2> QED  BY <1>6, <1>7, FromZero
<1>9. N \in S /\ N <= N /\ N \in 0..N /\ 0 \in 0..N
  BY <1>1, <1>8
<1>10. p[N] <= M /\ \A i \in 0..N : from <= p[i] /\ p[i] <= p[N] /\ p[i] \in Nat
  BY <1>2, <1>9
<1>11. p[N] \in Nat /\ from \in Nat
  BY <1>2, <1>9, <1>10
<1>12. \A i \in 0..N : p[i] <= M
  BY <1>1, <1>10, <1>11
<1> QED  BY <1>2, <1>10, <1>11, <1>12 DEF N, M

\* Where a chain starts and ends are places of its text, in this order.
LEMMA ChainBounds ==
  ASSUME NEW frames \in Seq(Frame), NEW text \in Seq(Int), NEW from, NEW to,
         Chain(frames, text, from, to), from <= Len(text)
  PROVE  from \in Nat /\ to \in Nat /\ from <= to /\ to <= Len(text)
<1>1. PICK p : Places(p, frames, text, from, to)
  BY DEF Chain
<1>2. Len(frames) \in 0..Len(frames) /\ p[Len(frames)] = to
  BY <1>1, LenProperties DEF Places
<1> QED  BY <1>1, <1>2, PlacesBounds

(* What a frame ends a body with comes last: no byte is left for others.   *)
LEMMA ChainEnd ==
  ASSUME NEW frames \in Seq(Frame), NEW text \in Seq(Int), NEW from, NEW to,
         Chain(frames, text, from, to), from <= Len(text),
         NEW i \in 1..Len(frames), frames[i].kind = "none"
  PROVE  to = Len(text)
<1>1. PICK p : Places(p, frames, text, from, to)
  BY DEF Chain
<1>2. i - 1 \in 0..Len(frames)
  BY LenProperties
<1>3. p[i - 1] = Len(text)
  BY <1>1 DEF Places
<1>4. p[i - 1] <= to /\ to \in Nat
  BY <1>1, <1>2, PlacesBounds
<1>5. to <= Len(text) /\ Len(text) \in Nat
  BY ChainBounds, LenProperties
<1> QED  BY <1>3, <1>4, <1>5

-----------------------------------------------------------------------------
(* q[i] is what the first i frames carry.                                  *)
Glued(q, frames) ==
  /\ q \in [0..Len(frames) -> Seq(Int)]
  /\ q[0] = <<>>
  /\ \A i \in 1..Len(frames) : q[i] = q[i - 1] \o frames[i].bytes

(* The bytes of some frames can be joined: by induction on the number of   *)
(* frames joined.                                                          *)
LEMMA GluedExists ==
  ASSUME NEW frames \in Seq(Frame)
  PROVE  \E q : Glued(q, frames)
<1> DEFINE N == Len(frames)
           none == <<>>
           More(s, i) == s \o frames[i].bytes
           Good(f, k) == /\ f \in [0..k -> Seq(Int)] /\ f[0] = none
                         /\ \A i \in 1..k : f[i] = More(f[i - 1], i)
           S == {k \in Nat : k <= N => \E f : Good(f, k)}
<1>1. N \in Nat /\ none \in Seq(Int)
  BY LenProperties
<1>2. ASSUME NEW i \in 1..N, NEW s \in Seq(Int) PROVE More(s, i) \in Seq(Int)
  BY FrameAt, ConcatProperties
<1> HIDE DEF More, none, N
<1>3. 0 \in S
  <2> DEFINE g == [i \in 0..0 |-> none]
  <2>1. Good(g, 0)
    BY <1>1
  <2> HIDE DEF g, Good
  <2> QED  BY <2>1
<1>4. ASSUME NEW k \in Nat, k \in S
      PROVE  k + 1 \in S
  <2> SUFFICES ASSUME k + 1 <= N PROVE \E f : Good(f, k + 1)
    <3> HIDE DEF Good
    <3> QED  OBVIOUS
  <2>1. PICK f : Good(f, k)
    <3> HIDE DEF Good
    <3>1. k <= N
      BY <1>1
    <3> QED  BY <1>4, <3>1
  <2> DEFINE e == More(f[k], k + 1)
             g == [i \in 0..(k + 1) |-> IF i = k + 1 THEN e ELSE f[i]]
  <2>2. e \in Seq(Int)
    BY <1>1, <1>2, <2>1
  <2> HIDE DEF e
  <2>3. /\ g \in [0..(k + 1) -> Seq(Int)] /\ g[0] = none /\ g[k + 1] = e
        /\ \A i \in 0..k : g[i] = f[i]
    BY <2>1, <2>2
  <2> HIDE DEF g
  <2>4. ASSUME NEW i \in 1..(k + 1)
        PROVE  g[i] = More(g[i - 1], i)
    <3>1. CASE i = k + 1
      <4>1. i - 1 = k /\ g[i - 1] = f[k]
        BY <2>3, <3>1
      <4> QED  BY <2>3, <3>1, <4>1 DEF e
    <3>2. CASE i # k + 1
      <4>1. i \in 1..k /\ i \in 0..k /\ i - 1 \in 0..k
        BY <3>2
      <4>2. g[i] = f[i] /\ g[i - 1] = f[i - 1] /\ f[i] = More(f[i - 1], i)
        BY <2>1, <2>3, <4>1
      <4> QED  BY <4>2
    <3> QED  BY <3>1, <3>2
  <2>5. Good(g, k + 1)
    BY <2>3, <2>4
  <2> HIDE DEF Good
  <2> QED  BY <2>5
<1>5. \A k \in Nat : k \in S
  <2> HIDE DEF S
  <2> QED  BY <1>3, <1>4, FromZero
<1>6. PICK q : Good(q, N)
  <2> HIDE DEF Good
  <2> QED  BY <1>1, <1>5
<1> QED  BY <1>6 DEF Glued, N, More, none

(* The equation of the function in FlattenSeq.                             *)
Flattens(f, seqs) ==
  f = [i \in 1..Len(seqs) |-> IF i = 1 THEN seqs[i] ELSE f[i - 1] \o seqs[i]]

(* Payload, which flattens the bytes of the data frames, joins the bytes   *)
(* of all frames, since no other frame has any.                            *)
LEMMA PayloadIs ==
  ASSUME NEW frames \in Seq(Frame), NEW q, Glued(q, frames)
  PROVE  Client!Payload(frames) = q[Len(frames)]
<1> DEFINE N == Len(frames)
           seqs == [i \in DOMAIN frames |-> frames[i].bytes]
<1>1. N \in Nat /\ DOMAIN frames = 1..N
  BY LenProperties
<1>2. /\ seqs \in Seq(Seq(Int)) /\ Len(seqs) = N
      /\ \A i \in 1..N : seqs[i] = frames[i].bytes /\ seqs[i] \in Seq(Int)
  <2>1. \A i \in 1..N : frames[i].bytes \in Seq(Int)
    BY FrameAt
  <2>2. seqs \in [1..N -> Seq(Int)]
    BY <1>1, <2>1
  <2> HIDE DEF N
  <2>3. seqs \in Seq(Seq(Int)) /\ Len(seqs) = N
    BY <1>1, <2>2, IsASeq
  <2> QED  BY <1>1, <2>1, <2>3
<1>3. Client!Payload(frames) = Client!FlattenSeq(seqs)
  BY Zenon DEF Client!Payload
<1>4. /\ q \in [0..N -> Seq(Int)] /\ q[0] = <<>>
      /\ \A i \in 1..N : q[i] = q[i - 1] \o seqs[i]
  BY <1>2 DEF Glued
<1> HIDE DEF N, seqs
<1>5. CASE N = 0
  <2>1. seqs = <<>>
    BY <1>2, <1>5, EmptySeq
  <2>2. Client!FlattenSeq(seqs) = seqs
    BY <1>2, <1>5 DEF Client!FlattenSeq
  <2> QED  BY <1>3, <1>4, <1>5, <2>1, <2>2 DEF N
<1>6. CASE N # 0
  <2> DEFINE r == [i \in 1..N |-> q[i]]
             f == CHOOSE f : Flattens(f, seqs)
  <2>1. Flattens(r, seqs)
    <3>1. ASSUME NEW i \in 1..N
          PROVE  r[i] = IF i = 1 THEN seqs[i] ELSE r[i - 1] \o seqs[i]
      <4>1. CASE i = 1
        <5>1. q[1] = q[0] \o seqs[1]
          <6>1. 1 \in 1..N /\ 1 - 1 = 0
            BY <4>1
          <6> QED  BY <1>4, <6>1
        <5>2. <<>> \o seqs[1] = seqs[1]
          BY <1>2, <4>1, ConcatEmptySeq
        <5> QED  BY <1>4, <4>1, <5>1, <5>2
      <4>2. CASE i # 1
        <5>1. i - 1 \in 1..N
          BY <1>1, <4>2
        <5> QED  BY <1>4, <4>2, <5>1
      <4> QED  BY <4>1, <4>2
    <3> QED  BY <1>2, <3>1 DEF Flattens
  <2>2. Client!FlattenSeq(seqs) = f[N]
    BY <1>2, <1>6 DEF Client!FlattenSeq, Flattens
  <2> HIDE DEF f
  <2>3. Flattens(f, seqs)
    BY <2>1, Zenon DEF f
  <2>4. \A i \in 1..N : f[i] = IF i = 1 THEN seqs[i] ELSE f[i - 1] \o seqs[i]
    <3>1. f = [i \in 1..N |-> IF i = 1 THEN seqs[i] ELSE f[i - 1] \o seqs[i]]
      BY <1>2, <2>3 DEF Flattens
    <3> QED  BY <3>1, Zenon
  <2> DEFINE S == {n \in Nat : n + 1 <= N => f[n + 1] = q[n + 1]}
  <2>5. 0 \in S
    <3>1. 1 \in 1..N /\ r[1] = seqs[1]
      BY <1>1, <1>6, <2>1, <1>2 DEF Flattens
    <3>2. q[1] = seqs[1] /\ f[1] = seqs[1]
      BY <2>4, <3>1
    <3> QED  BY <3>2
  <2>6. ASSUME NEW n \in Nat, n \in S PROVE n + 1 \in S
    <3> SUFFICES ASSUME (n + 1) + 1 <= N PROVE f[(n + 1) + 1] = q[(n + 1) + 1]
      OBVIOUS
    <3>1. f[n + 1] = q[n + 1]
      BY <1>1, <2>6
    <3>2. (n + 1) + 1 \in 1..N /\ ((n + 1) + 1) - 1 = n + 1 /\ (n + 1) + 1 # 1
      BY <1>1
    <3>3. f[(n + 1) + 1] = f[n + 1] \o seqs[(n + 1) + 1]
      BY <2>4, <3>2
    <3>4. q[(n + 1) + 1] = q[n + 1] \o seqs[(n + 1) + 1]
      BY <1>4, <3>2
    <3> QED  BY <3>1, <3>3, <3>4
  <2>7. \A n \in Nat : n \in S
    <3> HIDE DEF S
    <3> QED  BY <2>5, <2>6, FromZero
  <2>8. f[N] = q[N]
    <3>1. N - 1 \in S /\ (N - 1) + 1 = N
      BY <1>1, <1>6, <2>7
    <3> QED  BY <1>1, <3>1
  <2> QED  BY <1>3, <2>2, <2>8 DEF N
<1> QED  BY <1>5, <1>6

\* The elements of two sequences, one behind the other.
LEMMA Concatenates ==
  ASSUME NEW s \in Seq(Int), NEW t \in Seq(Int)
  PROVE  /\ s \o t \in Seq(Int) /\ Len(s \o t) = Len(s) + Len(t)
         /\ \A i \in 1..Len(s) : (s \o t)[i] = s[i]
         /\ \A i \in 1..Len(t) : (s \o t)[Len(s) + i] = t[i]
<1>1. Len(s) \in Nat /\ Len(t) \in Nat
  BY LenProperties
<1> DEFINE u == s \o t  l == Len(s)  m == Len(t)
<1>2. /\ u \in Seq(Int) /\ Len(u) = l + m
      /\ \A i \in 1..(l + m) : u[i] = IF i <= l THEN s[i] ELSE t[i - l]
  BY ConcatProperties
<1>3. l \in Nat /\ m \in Nat
  BY <1>1
<1> HIDE DEF u, l, m
<1>4. \A i \in 1..l : u[i] = s[i]
  BY <1>2, <1>3
<1>5. ASSUME NEW i \in 1..m PROVE u[l + i] = t[i]
  <2>1. l + i \in 1..(l + m) /\ ~(l + i <= l) /\ (l + i) - l = i
    BY <1>3
  <2> QED  BY <1>2, <2>1
<1> QED  BY <1>2, <1>4, <1>5 DEF u, l, m

(* What a chain from the start of a text carries is the start of the text. *)
LEMMA ChainPayload ==
  ASSUME NEW frames \in Seq(Frame), NEW text \in Seq(Int), NEW a,
         Chain(frames, text, 0, a)
  PROVE  /\ Client!Payload(frames) \in Seq(Int) /\ Len(Client!Payload(frames)) = a
         /\ \A k \in 1..a : Client!Payload(frames)[k] = text[k]
<1> DEFINE N == Len(frames)
<1>1. PICK p : Places(p, frames, text, 0, a)
  BY DEF Chain
<1>2. PICK q : Glued(q, frames)
  BY GluedExists
<1>3. N \in Nat
  BY LenProperties
<1>4. /\ q \in [0..N -> Seq(Int)] /\ q[0] = <<>>
      /\ \A i \in 1..N : q[i] = q[i - 1] \o frames[i].bytes
  BY <1>2 DEF Glued
<1>5. /\ p \in [0..N -> Nat] /\ p[0] = 0 /\ p[N] = a
      /\ \A i \in 1..N : /\ p[i] = p[i - 1] + Len(frames[i].bytes)
                         /\ Segment(frames[i].bytes, text, p[i - 1])
  BY <1>1 DEF Places
<1>6. \A i \in 1..N : frames[i].bytes \in Seq(Int) /\ Len(frames[i].bytes) \in Nat
  BY FrameAt
<1> HIDE DEF N
<1> DEFINE S == {n \in Nat : n <= N => /\ Len(q[n]) = p[n]
                                       /\ \A k \in 1..p[n] : q[n][k] = text[k]}
<1>7. 0 \in S
  <2>1. Len(q[0]) = 0 /\ p[0] = 0
    BY <1>4, <1>5
  <2> QED  BY <2>1
<1>8. ASSUME NEW n \in Nat, n \in S PROVE n + 1 \in S
  <2> SUFFICES ASSUME n + 1 <= N
               PROVE  /\ Len(q[n + 1]) = p[n + 1]
                      /\ \A k \in 1..p[n + 1] : q[n + 1][k] = text[k]
    OBVIOUS
  <2> DEFINE s == q[n]  t == frames[n + 1].bytes  l == p[n]
  <2>1. n + 1 \in 1..N /\ (n + 1) - 1 = n /\ n <= N /\ n \in 0..N
    BY <1>3
  <2>2. /\ s \in Seq(Int) /\ t \in Seq(Int) /\ q[n + 1] = s \o t /\ l \in Nat
        /\ p[n + 1] = l + Len(t) /\ Segment(t, text, l)
    BY <1>4, <1>5, <1>6, <2>1
  <2>3. Len(s) = l /\ \A k \in 1..l : s[k] = text[k]
    BY <1>8, <2>1
  <2> HIDE DEF s, t, l
  <2>4. Len(t) \in Nat /\ \A i \in 1..Len(t) : t[i] = text[l + i]
    BY <2>2, LenProperties DEF Segment
  <2> DEFINE u == s \o t
  <2>5. /\ Len(u) = l + Len(t) /\ \A i \in 1..l : u[i] = s[i]
        /\ \A i \in 1..Len(t) : u[l + i] = t[i]
    BY <2>2, <2>3, Concatenates
  <2>6. q[n + 1] = u
    BY <2>2
  <2> HIDE DEF u
  <2>7. ASSUME NEW k \in 1..(l + Len(t)) PROVE u[k] = text[k]
    <3>1. CASE k <= l
      <4>1. k \in 1..l
        BY <2>2, <2>4, <3>1
      <4> QED  BY <2>3, <2>5, <4>1
    <3>2. CASE ~(k <= l)
      <4>1. k - l \in 1..Len(t) /\ l + (k - l) = k
        BY <2>2, <2>4, <3>2
      <4> QED  BY <2>4, <2>5, <4>1
    <3> QED  BY <3>1, <3>2
  <2> QED  BY <2>2, <2>5, <2>6, <2>7
<1>9. \A n \in Nat : n \in S
  <2> HIDE DEF S
  <2> QED  BY <1>7, <1>8, FromZero
<1>10. Len(q[N]) = p[N] /\ \A k \in 1..p[N] : q[N][k] = text[k]
  BY <1>3, <1>9
<1>11. q[N] \in Seq(Int)
  BY <1>3, <1>4
<1>12. Client!Payload(frames) = q[N]
  BY <1>2, PayloadIs DEF N
<1> QED  BY <1>5, <1>10, <1>11, <1>12

(* Nothing but the end comes after the end.                                *)
EndsLast(frames) ==
  \A i, j \in 1..Len(frames) :
    frames[i].kind \in {"trailers", "none"} /\ i <= j => frames[j].bytes = <<>>

(* Frames are a chain of what they carry.                                  *)
LEMMA OwnChain ==
  ASSUME NEW frames \in Seq(Frame), EndsLast(frames)
  PROVE  /\ Client!Payload(frames) \in Seq(Int)
         /\ Chain(frames, Client!Payload(frames), 0, Len(Client!Payload(frames)))
<1> DEFINE N == Len(frames)
<1>1. PICK q : Glued(q, frames)
  BY GluedExists
<1>2. N \in Nat
  BY LenProperties
<1>3. /\ q \in [0..N -> Seq(Int)] /\ q[0] = <<>>
      /\ \A i \in 1..N : q[i] = q[i - 1] \o frames[i].bytes
  BY <1>1 DEF Glued
<1>4. \A i \in 1..N : frames[i].bytes \in Seq(Int) /\ Len(frames[i].bytes) \in Nat
  BY FrameAt
<1>5. ASSUME NEW i, NEW j, i \in 1..N, j \in 1..N, frames[i].kind \in {"trailers", "none"}, i <= j
      PROVE frames[j].bytes = <<>>
  BY <1>5 DEF EndsLast
<1> HIDE DEF N
<1> DEFINE p == [i \in 0..N |-> Len(q[i])]
<1>6. p \in [0..N -> Nat] /\ \A i \in 0..N : p[i] = Len(q[i]) /\ q[i] \in Seq(Int)
  BY <1>3, LenProperties
<1> HIDE DEF p
<1>7. \A i \in 1..N : /\ i \in 0..N /\ i - 1 \in 0..N /\ p[i] = p[i - 1] + Len(frames[i].bytes)
  <2> SUFFICES ASSUME NEW i \in 1..N
               PROVE  i \in 0..N /\ i - 1 \in 0..N /\ p[i] = p[i - 1] + Len(frames[i].bytes)
    OBVIOUS
  <2>1. i \in 0..N /\ i - 1 \in 0..N
    BY <1>2
  <2>2. /\ q[i] = q[i - 1] \o frames[i].bytes /\ q[i - 1] \in Seq(Int)
        /\ frames[i].bytes \in Seq(Int)
    BY <1>3, <1>4, <2>1
  <2>3. Len(q[i]) = Len(q[i - 1]) + Len(frames[i].bytes)
    BY <2>2, Concatenates
  <2> QED  BY <1>6, <2>1, <2>3
<1> DEFINE S == {n \in Nat : n <= N =>
                   \A i \in 1..n : /\ Segment(frames[i].bytes, q[n], p[i - 1])
                                   /\ frames[i].kind \in {"trailers", "none"} =>
                                        p[i - 1] = p[n]}
<1>8. 0 \in S
  OBVIOUS
<1>9. ASSUME NEW n \in Nat, n \in S PROVE n + 1 \in S
  <2> SUFFICES ASSUME n + 1 <= N, NEW i \in 1..(n + 1)
               PROVE  /\ Segment(frames[i].bytes, q[n + 1], p[i - 1])
                      /\ frames[i].kind \in {"trailers", "none"} => p[i - 1] = p[n + 1]
    OBVIOUS
  <2> DEFINE s == q[n]  t == frames[n + 1].bytes  b == frames[i].bytes  k == p[i - 1]
  <2>1. /\ n + 1 \in 1..N /\ (n + 1) - 1 = n /\ n <= N /\ n \in 0..N /\ i \in 1..N
        /\ i - 1 \in 0..N /\ n + 1 \in 0..N
    BY <1>2
  <2>2. /\ s \in Seq(Int) /\ t \in Seq(Int) /\ q[n + 1] = s \o t /\ Len(t) \in Nat
        /\ b \in Seq(Int) /\ Len(b) \in Nat /\ k \in Nat /\ p[n] = Len(s)
        /\ Len(s) \in Nat /\ p[n + 1] = p[n] + Len(t)
    BY <1>3, <1>4, <1>6, <1>7, <2>1
  <2> DEFINE u == s \o t
  <2>3. /\ u \in Seq(Int) /\ Len(u) = Len(s) + Len(t) /\ \A j \in 1..Len(s) : u[j] = s[j]
        /\ \A j \in 1..Len(t) : u[Len(s) + j] = t[j]
    BY <2>2, Concatenates
  <2>4. q[n + 1] = u
    BY <2>2
  <2>5. frames[i].kind \in {"trailers", "none"} => t = <<>>
    <3>1. i <= n + 1
      OBVIOUS
    <3> QED  BY <1>5, <2>1, <3>1
  <2> DEFINE ends == frames[i].kind \in {"trailers", "none"}
  <2> HIDE DEF u
  <2>6. CASE i = n + 1
    <3>1. b = t /\ k = Len(s)
      BY <2>1, <2>2, <2>6
    <3> HIDE DEF s, t, b, k, ends
    <3>2. Segment(b, u, k)
      BY <2>2, <2>3, <3>1 DEF Segment
    <3>3. ends => Len(t) = 0
      BY <2>5 DEF ends
    <3>4. ends => k = p[n + 1]
      BY <2>2, <3>1, <3>3
    <3> QED  BY <2>4, <3>2, <3>4 DEF ends, b, k
  <2>7. CASE i # n + 1
    <3>1. i \in 1..n
      BY <2>7
    <3>2. Segment(b, s, k) /\ (ends => k = p[n])
      BY <1>9, <2>1, <3>1
    <3> HIDE DEF s, t, b, k, ends
    <3>3. k + Len(b) <= Len(s) /\ \A j \in 1..Len(b) : b[j] = s[k + j]
      BY <3>2 DEF Segment
    <3>4. ASSUME NEW j \in 1..Len(b) PROVE b[j] = u[k + j]
      <4>1. k + j \in 1..Len(s)
        BY <2>2, <3>3
      <4> QED  BY <2>3, <3>3, <4>1
    <3>5. k + Len(b) <= Len(u)
      BY <2>2, <2>3, <3>3
    <3>6. Segment(b, u, k)
      BY <2>2, <3>4, <3>5 DEF Segment
    <3>7. ends => Len(t) = 0
      BY <2>5 DEF ends
    <3>8. ends => k = p[n + 1]
      BY <2>2, <3>2, <3>7
    <3> QED  BY <2>4, <3>6, <3>8 DEF ends, b, k
  <2> QED  BY <2>6, <2>7
<1>10. \A n \in Nat : n \in S
  <2> HIDE DEF S
  <2> QED  BY <1>8, <1>9, FromZero
<1> DEFINE text == q[N]
<1>11. /\ text \in Seq(Int) /\ p[N] = Len(text) /\ p[0] = 0
       /\ \A i \in 1..N : /\ Segment(frames[i].bytes, text, p[i - 1])
                          /\ frames[i].kind \in {"trailers", "none"} => p[i - 1] = Len(text)
  <2>1. N \in 0..N /\ 0 \in 0..N /\ N \in S /\ N <= N
    BY <1>2, <1>10
  <2>2. p[N] = Len(text) /\ text \in Seq(Int) /\ p[0] = 0
    BY <1>3, <1>6, <2>1
  <2> QED  BY <2>1, <2>2
<1>12. Client!Payload(frames) = text
  BY <1>1, PayloadIs DEF N
<1> HIDE DEF text
<1>13. Places(p, frames, text, 0, Len(text))
  BY <1>6, <1>7, <1>11 DEF Places, N
<1> QED  BY <1>11, <1>12, <1>13 DEF Chain

-----------------------------------------------------------------------------
(* The fields of a WrapBody.                                               *)
Wrap ==
  [encodes : BOOLEAN, multiple_members : BOOLEAN, yielded_all_data : BOOLEAN,
   non_data_frame : Frame, read_some_data : BOOLEAN, chunk : Seq(Int),
   codec : {"open", "between", "done", "failed"}, held : Seq(Int),
   read_all_data : BOOLEAN, finished : BOOLEAN, inner_ended : BOOLEAN,
   past_end : BOOLEAN]

Typed ==
  /\ sent \in Seq(Frame) /\ app \in Seq(Frame) /\ wire \in Seq(Frame) /\ seen \in Seq(Frame)
  /\ encoder \in Wrap /\ decoder \in Wrap /\ network \in {"up", "failed"}

(* What a step makes of the fields the invariant speaks of.                *)
Becomes(v, y, nd, ch, co, he, ra, fi, v2) ==
  /\ v2 \in Wrap /\ v2.encodes = v.encodes
  /\ v2.yielded_all_data = y /\ v2.non_data_frame = nd /\ v2.chunk = ch
  /\ v2.codec = co /\ v2.held = he /\ v2.read_all_data = ra /\ v2.finished = fi

\* The frames that WrapBody makes are frames.
LEMMA FramesAre ==
  /\ Client!None \in Frame /\ Client!Trailers \in Frame /\ Client!Error \in Frame
  /\ \A f \in Frame : /\ f.kind = "none" <=> f = Client!None
                      /\ f.kind = "trailers" <=> f = Client!Trailers
                      /\ f.kind = "error" <=> f = Client!Error
  /\ \A b \in Seq(Int) : /\ Client!Data(b) \in Frame /\ Client!Data(b).kind = "data"
                         /\ Client!Data(b).bytes = b
  /\ Server!None = Client!None /\ Server!Trailers = Client!Trailers
  /\ Server!Error = Client!Error
  /\ \A b : Server!Data(b) = Client!Data(b)
<1>1. ASSUME NEW f \in Frame
      PROVE  /\ f.kind = "none" <=> f = Client!None
             /\ f.kind = "trailers" <=> f = Client!Trailers
             /\ f.kind = "error" <=> f = Client!Error
  BY DEF Frame, Client!None, Client!Trailers, Client!Error
<1>2. Client!None \in Frame /\ Client!Trailers \in Frame /\ Client!Error \in Frame
  BY DEF Frame, Client!None, Client!Trailers, Client!Error
<1>3. ASSUME NEW b \in Seq(Int)
      PROVE  /\ Client!Data(b) \in Frame /\ Client!Data(b).kind = "data"
             /\ Client!Data(b).bytes = b
  BY DEF Frame, Client!Data
<1>4. /\ Server!None = Client!None /\ Server!Trailers = Client!Trailers
      /\ Server!Error = Client!Error
      /\ \A b : Server!Data(b) = Client!Data(b)
  BY DEF Server!None, Client!None, Server!Trailers, Client!Trailers, Server!Error, Client!Error,
         Server!Data, Client!Data
<1> QED  BY <1>1, <1>2, <1>3, <1>4

(* What poll_next finds in the inner body, for the codec ...               *)
Takes(v, i, f) ==
  /\ i # <<>> /\ f = Head(i) /\ f \in Frame /\ Tail(i) \in Seq(Frame)
  /\ ~v.finished /\ ~v.read_all_data /\ v.chunk = <<>> /\ v.codec \in {"open", "between"}
  /\ ~v.yielded_all_data

(* ... and what becomes of the stack, of its queue and of its output.      *)
TakesData(v, i, o, v2, i2, o2, f) ==
  /\ f.kind = "data" /\ i2 = Tail(i) /\ o2 = o
  /\ Becomes(v, FALSE, v.non_data_frame, f.bytes, v.codec, v.held, FALSE, FALSE, v2)
TakesTrailers(v, i, o, v2, i2, o2, f) ==
  /\ f.kind = "trailers" /\ i2 = Tail(i) /\ o2 = o
  /\ Becomes(v, TRUE, f, <<>>, v.codec, v.held, FALSE, FALSE, v2)
TakesEnd(v, i, o, v2, i2, o2, f) ==
  /\ f.kind = "none" /\ i2 = i /\ o2 = o
  /\ Becomes(v, TRUE, v.non_data_frame, <<>>, v.codec, v.held, FALSE, FALSE, v2)
TakesError(v, i, o, v2, i2, o2, f) ==
  /\ f.kind = "error" /\ i2 = Tail(i) /\ o2 = Append(o, f)
  /\ Becomes(v, FALSE, v.non_data_frame, <<>>, v.codec, v.held, FALSE, TRUE, v2)

Reads(v, i, o, v2, i2, o2) ==
  \E f : /\ Takes(v, i, f)
         /\ \/ TakesData(v, i, o, v2, i2, o2, f)
            \/ TakesTrailers(v, i, o, v2, i2, o2, f)
            \/ TakesEnd(v, i, o, v2, i2, o2, f)
            \/ TakesError(v, i, o, v2, i2, o2, f)

\* BodyIntoStream::poll_frame of Compression takes the next frame as Reads says.
LEMMA ServerReads ==
  ASSUME Typed, Server!Read
  PROVE  Reads(encoder, app, wire, encoder', app', wire')
<1>1. PICK f \in Server!Frames :
        /\ Server!InnerYields(f) /\ encoder' = Server!PollNext(f)
        /\ IF f = Server!Error THEN Server!Return(Server!Error) ELSE UNCHANGED wire
  BY DEF Server!Read
<1>2. app # <<>> /\ f = Head(app)
  BY DEF Server!Frames
<1>3. f \in Frame /\ Tail(app) \in Seq(Frame)
  BY <1>2, HeadTailProperties DEF Typed
<1>4. Takes(encoder, app, f) /\ encoder \in Wrap
  BY <1>2, <1>3 DEF Typed, Takes, Server!Read, Server!WantsInput
<1>5. encoder.yielded_all_data = FALSE /\ encoder.read_all_data = FALSE /\ encoder.finished = FALSE
  BY <1>4 DEF Takes, Wrap
<1>6. CASE f.kind = "data"
  <2>1. f # Client!Error /\ f # Client!None
    BY <1>3, <1>6, FramesAre
  <2>2. app' = Tail(app) /\ wire' = wire
    BY <1>1, <2>1, FramesAre DEF Server!InnerYields
  <2>3. encoder' = [encoder EXCEPT !.chunk = f.bytes, !.read_some_data = TRUE]
    BY <1>1, <1>6 DEF Server!PollNext
  <2>4. Becomes(encoder, FALSE, encoder.non_data_frame, f.bytes, encoder.codec, encoder.held,
                FALSE, FALSE, encoder')
    BY <1>3, <1>4, <1>5, <2>3 DEF Wrap, Becomes, Frame
  <2> QED  BY <1>4, <1>6, <2>2, <2>4 DEF Reads, TakesData
<1>7. CASE f.kind = "trailers"
  <2>1. f # Client!Error /\ f # Client!None
    BY <1>3, <1>7, FramesAre
  <2>2. app' = Tail(app) /\ wire' = wire
    BY <1>1, <2>1, FramesAre DEF Server!InnerYields
  <2>3. encoder' = [encoder EXCEPT !.yielded_all_data = TRUE, !.non_data_frame = f]
    BY <1>1, <1>7 DEF Server!PollNext
  <2>4. Becomes(encoder, TRUE, f, encoder.chunk, encoder.codec, encoder.held,
                FALSE, FALSE, encoder')
    BY <1>3, <1>4, <1>5, <2>3 DEF Wrap, Becomes
  <2> QED  BY <1>4, <1>7, <2>2, <2>4 DEF Reads, TakesTrailers, Takes
<1>8. CASE f.kind = "none"
  <2>1. f # Client!Error /\ f = Client!None
    BY <1>3, <1>8, FramesAre
  <2>2. app' = app /\ wire' = wire
    BY <1>1, <2>1, FramesAre DEF Server!InnerYields
  <2>3. encoder' = [encoder EXCEPT !.yielded_all_data = TRUE, !.inner_ended = TRUE]
    BY <1>1, <1>8 DEF Server!PollNext
  <2>4. Becomes(encoder, TRUE, encoder.non_data_frame, encoder.chunk, encoder.codec,
                encoder.held, FALSE, FALSE, encoder')
    BY <1>4, <1>5, <2>3 DEF Wrap, Becomes
  <2> QED  BY <1>4, <1>8, <2>2, <2>4 DEF Reads, TakesEnd, Takes
<1>9. CASE f.kind = "error"
  <2>1. f = Client!Error /\ f # Client!None
    BY <1>3, <1>9, FramesAre
  <2>2. app' = Tail(app) /\ wire' = Append(wire, f)
    BY <1>1, <2>1, FramesAre DEF Server!InnerYields, Server!Return
  <2>3. encoder' = [encoder EXCEPT !.finished = TRUE]
    BY <1>1, <1>9 DEF Server!PollNext
  <2>4. Becomes(encoder, FALSE, encoder.non_data_frame, encoder.chunk, encoder.codec,
                encoder.held, FALSE, TRUE, encoder')
    BY <1>4, <1>5, <2>3 DEF Wrap, Becomes
  <2> QED  BY <1>4, <1>9, <2>2, <2>4 DEF Reads, TakesError, Takes
<1> QED  BY <1>3, <1>6, <1>7, <1>8, <1>9 DEF Frame

(* The other steps, in the same terms.                                     *)
Encodes(v, v2) ==
  /\ ~v.finished /\ v.chunk # <<>> /\ v.codec \in {"open", "between"}
  /\ Becomes(v, v.yielded_all_data, v.non_data_frame, Tail(v.chunk), v.codec,
             Append(v.held, -Head(v.chunk)), v.read_all_data, FALSE, v2)

Marks(v, v2) ==
  /\ ~v.finished /\ ~v.read_all_data /\ v.chunk = <<>> /\ v.yielded_all_data
  /\ v.codec \in {"open", "between"}
  /\ Becomes(v, TRUE, v.non_data_frame, v.chunk, "done", Append(v.held, 0), FALSE, FALSE, v2)

Decodes(v, v2) ==
  /\ ~v.finished /\ v.chunk # <<>> /\ v.codec \in {"open", "between"}
  /\ Head(v.chunk) < 0 =>
       Becomes(v, v.yielded_all_data, v.non_data_frame, Tail(v.chunk), "open",
               Append(v.held, -Head(v.chunk)), v.read_all_data, FALSE, v2)
  /\ Head(v.chunk) = 0 =>
       \E co \in {"between", "done"} :
         Becomes(v, v.yielded_all_data, v.non_data_frame, Tail(v.chunk), co,
                 v.held, v.read_all_data, FALSE, v2)

Closes(v, v2) ==
  /\ ~v.finished /\ ~v.read_all_data /\ v.chunk = <<>> /\ v.yielded_all_data
  /\ v.codec \in {"open", "between"}
  /\ v.codec = "between" =>
       Becomes(v, TRUE, v.non_data_frame, v.chunk, "done", v.held, FALSE, FALSE, v2)

Emits(v, o, v2, o2) ==
  /\ ~v.finished /\ ~v.read_all_data
  /\ \E n \in 1..Len(v.held) :
       /\ o2 = Append(o, Client!Data(SubSeq(v.held, 1, n)))
       /\ Becomes(v, v.yielded_all_data, v.non_data_frame, v.chunk, v.codec,
                  SubSeq(v.held, n + 1, Len(v.held)), FALSE, FALSE, v2)

Completes(v, v2) ==
  /\ ~v.finished /\ ~v.read_all_data /\ v.codec = "done" /\ v.held = <<>>
  /\ Becomes(v, v.yielded_all_data, v.non_data_frame, v.chunk, "done", <<>>, TRUE, FALSE, v2)

SetsAside(v, o, v2, o2) ==
  /\ ~v.finished /\ v.read_all_data /\ v.yielded_all_data
  /\ v.non_data_frame # Client!None
  /\ o2 = Append(o, v.non_data_frame)
  /\ Becomes(v, TRUE, Client!None, v.chunk, v.codec, v.held, TRUE, FALSE, v2)

Tailed(f) == IF f.kind = "data" /\ f.bytes # <<>> THEN Client!Error ELSE f

Polls(v, i, o, v2, i2, o2) ==
  /\ ~v.finished /\ v.read_all_data
  /\ v.yielded_all_data => v.non_data_frame = Client!None
  /\ \E f : /\ i # <<>> /\ f = Head(i) /\ f \in Frame /\ Tail(i) \in Seq(Frame)
            /\ i2 = IF f.kind = "none" THEN i ELSE Tail(i)
            /\ o2 = Append(o, Tailed(f))
            /\ Becomes(v, v.yielded_all_data \/ f.kind \in {"trailers", "none"},
                       v.non_data_frame, v.chunk, v.codec, v.held, v.read_all_data,
                       Tailed(f) \in {Client!Error, Client!None}, v2)

EncoderStep(v, i, o, v2, i2, o2) ==
  \/ Reads(v, i, o, v2, i2, o2)
  \/ Encodes(v, v2) /\ i2 = i /\ o2 = o
  \/ Marks(v, v2) /\ i2 = i /\ o2 = o
  \/ Emits(v, o, v2, o2) /\ i2 = i
  \/ Completes(v, v2) /\ i2 = i /\ o2 = o
  \/ SetsAside(v, o, v2, o2) /\ i2 = i
  \/ Polls(v, i, o, v2, i2, o2)

DecoderStep(v, i, o, v2, i2, o2) ==
  \/ Reads(v, i, o, v2, i2, o2)
  \/ Decodes(v, v2) /\ i2 = i /\ o2 = o
  \/ Closes(v, v2) /\ i2 = i /\ o2 = o
  \/ Emits(v, o, v2, o2) /\ i2 = i
  \/ Completes(v, v2) /\ i2 = i /\ o2 = o
  \/ SetsAside(v, o, v2, o2) /\ i2 = i
  \/ Polls(v, i, o, v2, i2, o2)

\* What a poll of the body behind its data makes of a WrapBody's fields.
LEMMA PollsFields ==
  ASSUME NEW v \in Wrap, NEW y \in BOOLEAN, NEW fi \in BOOLEAN, NEW en \in BOOLEAN,
         NEW pa \in BOOLEAN
  PROVE  Becomes(v, y, v.non_data_frame, v.chunk, v.codec, v.held, v.read_all_data, fi,
                 [v EXCEPT !.yielded_all_data = y, !.finished = fi,
                           !.inner_ended = en, !.past_end = pa])
<1> DEFINE v2 == [v EXCEPT !.yielded_all_data = y, !.finished = fi,
                           !.inner_ended = en, !.past_end = pa]
<1>1. v2 \in Wrap
  BY DEF Wrap
<1>2. /\ v2.encodes = v.encodes /\ v2.non_data_frame = v.non_data_frame /\ v2.chunk = v.chunk
      /\ v2.codec = v.codec /\ v2.held = v.held /\ v2.read_all_data = v.read_all_data
  BY DEF Wrap
<1>3. v2.yielded_all_data = y /\ v2.finished = fi
  BY DEF Wrap
<1> QED  BY <1>1, <1>2, <1>3 DEF Becomes

(* A step of Server!poll_frame (WrapBody::poll_frame of Compression) is    *)
(* one of the steps of EncoderStep.                                        *)
LEMMA ServerSteps ==
  ASSUME Typed, encoder.encodes, encoder.codec # "failed", Server!poll_frame
  PROVE  EncoderStep(encoder, app, wire, encoder', app', wire')
<1>1. encoder \in Wrap /\ encoder.finished \in BOOLEAN /\ encoder.read_all_data \in BOOLEAN
      /\ encoder.yielded_all_data \in BOOLEAN /\ encoder.held \in Seq(Int)
      /\ encoder.chunk \in Seq(Int)
  BY DEF Typed, Wrap
<1>2. CASE Server!Read
  BY <1>2, ServerReads DEF EncoderStep
<1>3. CASE Server!Consume
  <2>1. /\ ~encoder.finished /\ encoder.chunk # <<>> /\ encoder.codec \in {"open", "between"}
        /\ app' = app /\ wire' = wire
        /\ encoder' = [encoder EXCEPT !.chunk = Tail(@), !.held = Append(@, -Head(encoder.chunk))]
    BY <1>3 DEF Server!Consume, Server!Encode
  <2> DEFINE ch == Tail(encoder.chunk)  he == Append(encoder.held, -Head(encoder.chunk))
  <2>2. ch \in Seq(Int) /\ he \in Seq(Int)
    <3>1. Tail(encoder.chunk) \in Seq(Int) /\ Head(encoder.chunk) \in Int
      BY <1>1, <2>1, HeadTailProperties
    <3>2. -Head(encoder.chunk) \in Int
      BY <3>1
    <3> QED  BY <1>1, <3>1, <3>2, AppendProperties
  <2>3. encoder' = [encoder EXCEPT !.chunk = ch, !.held = he]
    BY <2>1
  <2> HIDE DEF ch, he
  <2>4. Becomes(encoder, encoder.yielded_all_data, encoder.non_data_frame, ch, encoder.codec, he,
                encoder.read_all_data, FALSE, encoder')
    BY <1>1, <2>1, <2>2, <2>3 DEF Wrap, Becomes
  <2> QED  BY <2>1, <2>4 DEF EncoderStep, Encodes, ch, he
<1>4. CASE Server!InputEnds
  <2> DEFINE he == Append(encoder.held, 0)  done == "done"
  <2>1. /\ ~encoder.finished /\ ~encoder.read_all_data /\ encoder.chunk = <<>>
        /\ encoder.codec \in {"open", "between"} /\ encoder.yielded_all_data
        /\ app' = app /\ wire' = wire
        /\ encoder' = [encoder EXCEPT !.codec = done, !.held = he]
    BY <1>4 DEF Server!InputEnds, Server!WantsInput, Server!EndMark
  <2>2. he \in Seq(Int)
    BY <1>1, AppendProperties
  <2> HIDE DEF he
  <2>3. Becomes(encoder, TRUE, encoder.non_data_frame, encoder.chunk, "done", he,
                FALSE, FALSE, encoder')
    BY <1>1, <2>1, <2>2 DEF Wrap, Becomes
  <2> QED  BY <2>1, <2>3 DEF EncoderStep, Marks, he
<1>5. CASE Server!Emit
  <2>1. PICK n \in 1..Len(encoder.held) :
          /\ wire' = Append(wire, Server!Data(SubSeq(encoder.held, 1, n)))
          /\ encoder' = [encoder EXCEPT !.held = SubSeq(@, n + 1, Len(@))]
    BY <1>5 DEF Server!Emit, Server!Return
  <2> DEFINE he == SubSeq(encoder.held, n + 1, Len(encoder.held))
  <2>2. /\ ~encoder.finished /\ ~encoder.read_all_data /\ app' = app
        /\ encoder' = [encoder EXCEPT !.held = he]
        /\ wire' = Append(wire, Client!Data(SubSeq(encoder.held, 1, n)))
    BY <1>5, <2>1, FramesAre DEF Server!Emit
  <2>3. he \in Seq(Int)
    <3>1. \A k \in (n + 1)..Len(encoder.held) : encoder.held[k] \in Int
      <4>1. Len(encoder.held) \in Nat
        BY <1>1, LenProperties
      <4> QED  BY <1>1, <4>1, ElementOfSeq
    <3>2. n + 1 \in Int /\ Len(encoder.held) \in Int
      BY <1>1, LenProperties
    <3> QED  BY <1>1, <3>1, <3>2, SubSeqProperties
  <2> HIDE DEF he
  <2>4. Becomes(encoder, encoder.yielded_all_data, encoder.non_data_frame, encoder.chunk,
                encoder.codec, he, FALSE, FALSE, encoder')
    BY <1>1, <2>2, <2>3 DEF Wrap, Becomes
  <2>5. Emits(encoder, wire, encoder', wire')
    BY <2>2, <2>4 DEF Emits, he
  <2> QED  BY <2>2, <2>5 DEF EncoderStep
<1>6. CASE Server!ReadAll
  <2> DEFINE yes == TRUE
  <2>1. /\ ~encoder.finished /\ ~encoder.read_all_data /\ encoder.codec = "done"
        /\ encoder.held = <<>> /\ app' = app /\ wire' = wire
        /\ encoder' = [encoder EXCEPT !.read_all_data = yes]
    BY <1>6 DEF Server!ReadAll
  <2>2. Becomes(encoder, encoder.yielded_all_data, encoder.non_data_frame, encoder.chunk,
                "done", <<>>, TRUE, FALSE, encoder')
    BY <1>1, <2>1 DEF Wrap, Becomes
  <2> QED  BY <2>1, <2>2 DEF EncoderStep, Completes
<1>7. ~Server!Fail
  BY DEF Server!Fail
<1>8. CASE Server!TailSetAside
  <2>1. /\ ~encoder.finished /\ encoder.read_all_data /\ encoder.yielded_all_data
        /\ encoder.non_data_frame # Client!None
        /\ wire' = Append(wire, encoder.non_data_frame)
        /\ encoder' = [encoder EXCEPT !.non_data_frame = Client!None]
        /\ app' = app
    BY <1>8, FramesAre
       DEF Server!TailSetAside, Server!PollsTail, Server!Ignores, Server!Return
  <2> DEFINE none == Client!None
  <2>2. none \in Frame
    BY FramesAre
  <2> HIDE DEF none
  <2>3. Becomes(encoder, TRUE, none, encoder.chunk, encoder.codec, encoder.held,
                TRUE, FALSE, encoder')
    <3>1. encoder' = [encoder EXCEPT !.non_data_frame = none]
      BY <2>1 DEF none
    <3> QED  BY <1>1, <2>1, <2>2, <3>1 DEF Wrap, Becomes
  <2> QED  BY <2>1, <2>3 DEF EncoderStep, SetsAside, none
<1>9. CASE Server!TailPolls
  <2>1. PICK f \in Server!Frames :
          /\ Server!InnerYields(f) /\ Server!Return(Server!TailFrame(f))
          /\ encoder' =
               [encoder EXCEPT
                  !.yielded_all_data = @ \/ f.kind \in {"trailers", "none"},
                  !.finished = Server!TailFrame(f) \in {Server!Error, Server!None},
                  !.inner_ended = @ \/ f = Server!None,
                  !.past_end = @ \/ encoder.inner_ended
                                 \/ (f = Server!None /\ ~encoder.yielded_all_data)]
    BY <1>9 DEF Server!TailPolls
  <2>2. app # <<>> /\ f = Head(app)
    BY <2>1 DEF Server!Frames
  <2>3. f \in Frame /\ Tail(app) \in Seq(Frame)
    BY <2>2, HeadTailProperties DEF Typed
  <2>4. /\ ~encoder.finished /\ encoder.read_all_data
        /\ encoder.yielded_all_data => encoder.non_data_frame = Client!None
    BY <1>9, FramesAre DEF Server!TailPolls, Server!PollsTail, Server!Ignores
  <2> DEFINE y == encoder.yielded_all_data \/ f.kind \in {"trailers", "none"}
             fi == Tailed(f) \in {Client!Error, Client!None}
             en == encoder.inner_ended \/ f = Client!None
             pa == encoder.past_end \/ encoder.inner_ended
                     \/ (f = Client!None /\ ~encoder.yielded_all_data)
  <2>5. Server!TailFrame(f) = Tailed(f)
    BY FramesAre DEF Server!TailFrame, Tailed
  <2>6. encoder' = [encoder EXCEPT !.yielded_all_data = y, !.finished = fi,
                                   !.inner_ended = en, !.past_end = pa]
    BY <2>1, <2>5, FramesAre
  <2>7. y \in BOOLEAN /\ fi \in BOOLEAN /\ en \in BOOLEAN /\ pa \in BOOLEAN
    BY <1>1 DEF Wrap
  <2> HIDE DEF y, fi, en, pa
  <2>8. Becomes(encoder, y, encoder.non_data_frame, encoder.chunk, encoder.codec, encoder.held,
                encoder.read_all_data, fi, encoder')
    BY <1>1, <2>6, <2>7, PollsFields
  <2>9. app' = IF f.kind = "none" THEN app ELSE Tail(app)
    BY <2>1, <2>3, FramesAre DEF Server!InnerYields
  <2>10. wire' = Append(wire, Tailed(f))
    BY <2>1, <2>5 DEF Server!Return
  <2>11. Polls(encoder, app, wire, encoder', app', wire')
    BY <2>2, <2>3, <2>4, <2>8, <2>9, <2>10, Zenon DEF Polls, y, fi
  <2> QED  BY <2>11 DEF EncoderStep
<1> QED  BY <1>2, <1>3, <1>4, <1>5, <1>6, <1>7, <1>8, <1>9 DEF Server!poll_frame

\* BodyIntoStream::poll_frame of Decompression takes the next frame as Reads says.
LEMMA ClientReads ==
  ASSUME Typed, Client!Read
  PROVE  Reads(decoder, wire, seen, decoder', wire', seen')
<1>1. PICK f \in Client!Frames :
        /\ Client!InnerYields(f) /\ decoder' = Client!PollNext(f)
        /\ IF f = Client!Error THEN Client!Return(Client!Error) ELSE UNCHANGED seen
  BY DEF Client!Read
<1>2. wire # <<>> /\ f = Head(wire)
  BY DEF Client!Frames
<1>3. f \in Frame /\ Tail(wire) \in Seq(Frame)
  BY <1>2, HeadTailProperties DEF Typed
<1>4. Takes(decoder, wire, f) /\ decoder \in Wrap
  BY <1>2, <1>3 DEF Typed, Takes, Client!Read, Client!WantsInput
<1>5. decoder.yielded_all_data = FALSE /\ decoder.read_all_data = FALSE /\ decoder.finished = FALSE
  BY <1>4 DEF Takes, Wrap
<1>6. CASE f.kind = "data"
  <2>1. f # Client!Error /\ f # Client!None
    BY <1>3, <1>6, FramesAre
  <2>2. wire' = Tail(wire) /\ seen' = seen
    BY <1>1, <2>1, FramesAre DEF Client!InnerYields
  <2>3. decoder' = [decoder EXCEPT !.chunk = f.bytes, !.read_some_data = TRUE]
    BY <1>1, <1>6 DEF Client!PollNext
  <2>4. Becomes(decoder, FALSE, decoder.non_data_frame, f.bytes, decoder.codec, decoder.held,
                FALSE, FALSE, decoder')
    BY <1>3, <1>4, <1>5, <2>3 DEF Wrap, Becomes, Frame
  <2> QED  BY <1>4, <1>6, <2>2, <2>4 DEF Reads, TakesData
<1>7. CASE f.kind = "trailers"
  <2>1. f # Client!Error /\ f # Client!None
    BY <1>3, <1>7, FramesAre
  <2>2. wire' = Tail(wire) /\ seen' = seen
    BY <1>1, <2>1, FramesAre DEF Client!InnerYields
  <2>3. decoder' = [decoder EXCEPT !.yielded_all_data = TRUE, !.non_data_frame = f]
    BY <1>1, <1>7 DEF Client!PollNext
  <2>4. Becomes(decoder, TRUE, f, decoder.chunk, decoder.codec, decoder.held,
                FALSE, FALSE, decoder')
    BY <1>3, <1>4, <1>5, <2>3 DEF Wrap, Becomes
  <2> QED  BY <1>4, <1>7, <2>2, <2>4 DEF Reads, TakesTrailers, Takes
<1>8. CASE f.kind = "none"
  <2>1. f # Client!Error /\ f = Client!None
    BY <1>3, <1>8, FramesAre
  <2>2. wire' = wire /\ seen' = seen
    BY <1>1, <2>1, FramesAre DEF Client!InnerYields
  <2>3. decoder' = [decoder EXCEPT !.yielded_all_data = TRUE, !.inner_ended = TRUE]
    BY <1>1, <1>8 DEF Client!PollNext
  <2>4. Becomes(decoder, TRUE, decoder.non_data_frame, decoder.chunk, decoder.codec,
                decoder.held, FALSE, FALSE, decoder')
    BY <1>4, <1>5, <2>3 DEF Wrap, Becomes
  <2> QED  BY <1>4, <1>8, <2>2, <2>4 DEF Reads, TakesEnd, Takes
<1>9. CASE f.kind = "error"
  <2>1. f = Client!Error /\ f # Client!None
    BY <1>3, <1>9, FramesAre
  <2>2. wire' = Tail(wire) /\ seen' = Append(seen, f)
    BY <1>1, <2>1, FramesAre DEF Client!InnerYields, Client!Return
  <2>3. decoder' = [decoder EXCEPT !.finished = TRUE]
    BY <1>1, <1>9 DEF Client!PollNext
  <2>4. Becomes(decoder, FALSE, decoder.non_data_frame, decoder.chunk, decoder.codec,
                decoder.held, FALSE, TRUE, decoder')
    BY <1>4, <1>5, <2>3 DEF Wrap, Becomes
  <2> QED  BY <1>4, <1>9, <2>2, <2>4 DEF Reads, TakesError, Takes
<1> QED  BY <1>3, <1>6, <1>7, <1>8, <1>9 DEF Frame

(* A step of Client!poll_frame (WrapBody::poll_frame of Decompression) is  *)
(* one of the steps of DecoderStep.                                        *)
LEMMA ClientSteps ==
  ASSUME Typed, ~decoder.encodes, decoder.codec # "failed", Client!poll_frame
  PROVE  DecoderStep(decoder, wire, seen, decoder', wire', seen')
<1>1. decoder \in Wrap /\ decoder.finished \in BOOLEAN /\ decoder.read_all_data \in BOOLEAN
      /\ decoder.yielded_all_data \in BOOLEAN /\ decoder.held \in Seq(Int)
      /\ decoder.chunk \in Seq(Int)
  BY DEF Typed, Wrap
<1>2. CASE Client!Read
  BY <1>2, ClientReads DEF DecoderStep
<1>3. CASE Client!Consume
  <2> DEFINE byte == Head(decoder.chunk)  ch == Tail(decoder.chunk)
             he == Append(decoder.held, -byte)
             co == IF decoder.multiple_members THEN "between" ELSE "done"
             opened == "open"
  <2>1. /\ ~decoder.finished /\ decoder.chunk # <<>> /\ decoder.codec \in {"open", "between"}
        /\ wire' = wire /\ seen' = seen /\ decoder' = Client!Decode
    BY <1>3 DEF Client!Consume
  <2>2. ch \in Seq(Int) /\ byte \in Int /\ -byte \in Int
    <3>1. ch \in Seq(Int) /\ byte \in Int
      BY <1>1, <2>1, HeadTailProperties
    <3> QED  BY <3>1
  <2>3. he \in Seq(Int)
    BY <1>1, <2>2, AppendProperties
  <2>4. co \in {"between", "done"}
    OBVIOUS
  <2>5. ASSUME byte < 0
        PROVE  Becomes(decoder, decoder.yielded_all_data, decoder.non_data_frame, ch, "open", he,
                       decoder.read_all_data, FALSE, decoder')
    <3>1. decoder' = [decoder EXCEPT !.chunk = ch, !.codec = opened, !.held = he]
      BY <2>1, <2>2, <2>5 DEF Client!Decode, Client!EndMark
    <3>2. opened = "open"
      OBVIOUS
    <3> HIDE DEF ch, he, opened
    <3> QED  BY <1>1, <2>1, <2>2, <2>3, <3>1, <3>2 DEF Wrap, Becomes
  <2>6. ASSUME byte = 0
        PROVE  Becomes(decoder, decoder.yielded_all_data, decoder.non_data_frame, ch, co,
                       decoder.held, decoder.read_all_data, FALSE, decoder')
    <3>1. decoder' = [decoder EXCEPT !.chunk = ch, !.codec = co]
      BY <2>1, <2>2, <2>6 DEF Client!Decode, Client!EndMark
    <3> HIDE DEF ch, co
    <3> QED  BY <1>1, <2>1, <2>2, <2>4, <3>1 DEF Wrap, Becomes
  <2>7. Decodes(decoder, decoder')
    BY <2>1, <2>4, <2>5, <2>6 DEF Decodes
  <2> QED  BY <2>1, <2>7 DEF DecoderStep
<1>4. CASE Client!InputEnds
  <2> DEFINE done == "done"
  <2>1. /\ ~decoder.finished /\ ~decoder.read_all_data /\ decoder.chunk = <<>>
        /\ decoder.codec \in {"open", "between"} /\ decoder.yielded_all_data
        /\ wire' = wire /\ seen' = seen
        /\ decoder.codec = "between" => decoder' = [decoder EXCEPT !.codec = done]
    BY <1>4 DEF Client!InputEnds, Client!WantsInput
  <2>2. ASSUME decoder.codec = "between"
        PROVE  Becomes(decoder, TRUE, decoder.non_data_frame, decoder.chunk, "done",
                       decoder.held, FALSE, FALSE, decoder')
    BY <1>1, <2>1, <2>2 DEF Wrap, Becomes
  <2> QED  BY <2>1, <2>2 DEF DecoderStep, Closes
<1>5. CASE Client!Emit
  <2>1. PICK n \in 1..Len(decoder.held) :
          /\ seen' = Append(seen, Client!Data(SubSeq(decoder.held, 1, n)))
          /\ decoder' = [decoder EXCEPT !.held = SubSeq(@, n + 1, Len(@))]
    BY <1>5 DEF Client!Emit, Client!Return
  <2> DEFINE he == SubSeq(decoder.held, n + 1, Len(decoder.held))
  <2>2. /\ ~decoder.finished /\ ~decoder.read_all_data /\ wire' = wire
        /\ decoder' = [decoder EXCEPT !.held = he]
        /\ seen' = Append(seen, Client!Data(SubSeq(decoder.held, 1, n)))
    BY <1>5, <2>1, FramesAre DEF Client!Emit
  <2>3. he \in Seq(Int)
    <3>1. \A k \in (n + 1)..Len(decoder.held) : decoder.held[k] \in Int
      <4>1. Len(decoder.held) \in Nat
        BY <1>1, LenProperties
      <4> QED  BY <1>1, <4>1, ElementOfSeq
    <3>2. n + 1 \in Int /\ Len(decoder.held) \in Int
      BY <1>1, LenProperties
    <3> QED  BY <1>1, <3>1, <3>2, SubSeqProperties
  <2> HIDE DEF he
  <2>4. Becomes(decoder, decoder.yielded_all_data, decoder.non_data_frame, decoder.chunk,
                decoder.codec, he, FALSE, FALSE, decoder')
    BY <1>1, <2>2, <2>3 DEF Wrap, Becomes
  <2>5. Emits(decoder, seen, decoder', seen')
    BY <2>2, <2>4 DEF Emits, he
  <2> QED  BY <2>2, <2>5 DEF DecoderStep
<1>6. CASE Client!ReadAll
  <2> DEFINE yes == TRUE
  <2>1. /\ ~decoder.finished /\ ~decoder.read_all_data /\ decoder.codec = "done"
        /\ decoder.held = <<>> /\ wire' = wire /\ seen' = seen
        /\ decoder' = [decoder EXCEPT !.read_all_data = yes]
    BY <1>6 DEF Client!ReadAll
  <2>2. Becomes(decoder, decoder.yielded_all_data, decoder.non_data_frame, decoder.chunk,
                "done", <<>>, TRUE, FALSE, decoder')
    BY <1>1, <2>1 DEF Wrap, Becomes
  <2> QED  BY <2>1, <2>2 DEF DecoderStep, Completes
<1>7. ~Client!Fail
  BY DEF Client!Fail
<1>8. CASE Client!TailSetAside
  <2>1. /\ ~decoder.finished /\ decoder.read_all_data /\ decoder.yielded_all_data
        /\ decoder.non_data_frame # Client!None
        /\ seen' = Append(seen, decoder.non_data_frame)
        /\ decoder' = [decoder EXCEPT !.non_data_frame = Client!None]
        /\ wire' = wire
    BY <1>8, FramesAre
       DEF Client!TailSetAside, Client!PollsTail, Client!Ignores, Client!Return
  <2> DEFINE none == Client!None
  <2>2. none \in Frame
    BY FramesAre
  <2> HIDE DEF none
  <2>3. Becomes(decoder, TRUE, none, decoder.chunk, decoder.codec, decoder.held,
                TRUE, FALSE, decoder')
    <3>1. decoder' = [decoder EXCEPT !.non_data_frame = none]
      BY <2>1 DEF none
    <3> QED  BY <1>1, <2>1, <2>2, <3>1 DEF Wrap, Becomes
  <2> QED  BY <2>1, <2>3 DEF DecoderStep, SetsAside, none
<1>9. CASE Client!TailPolls
  <2>1. PICK f \in Client!Frames :
          /\ Client!InnerYields(f) /\ Client!Return(Client!TailFrame(f))
          /\ decoder' =
               [decoder EXCEPT
                  !.yielded_all_data = @ \/ f.kind \in {"trailers", "none"},
                  !.finished = Client!TailFrame(f) \in {Client!Error, Client!None},
                  !.inner_ended = @ \/ f = Client!None,
                  !.past_end = @ \/ decoder.inner_ended
                                 \/ (f = Client!None /\ ~decoder.yielded_all_data)]
    BY <1>9 DEF Client!TailPolls
  <2>2. wire # <<>> /\ f = Head(wire)
    BY <2>1 DEF Client!Frames
  <2>3. f \in Frame /\ Tail(wire) \in Seq(Frame)
    BY <2>2, HeadTailProperties DEF Typed
  <2>4. /\ ~decoder.finished /\ decoder.read_all_data
        /\ decoder.yielded_all_data => decoder.non_data_frame = Client!None
    BY <1>9, FramesAre DEF Client!TailPolls, Client!PollsTail, Client!Ignores
  <2> DEFINE y == decoder.yielded_all_data \/ f.kind \in {"trailers", "none"}
             fi == Tailed(f) \in {Client!Error, Client!None}
             en == decoder.inner_ended \/ f = Client!None
             pa == decoder.past_end \/ decoder.inner_ended
                     \/ (f = Client!None /\ ~decoder.yielded_all_data)
  <2>5. Client!TailFrame(f) = Tailed(f)
    BY FramesAre DEF Client!TailFrame, Tailed
  <2>6. decoder' = [decoder EXCEPT !.yielded_all_data = y, !.finished = fi,
                                   !.inner_ended = en, !.past_end = pa]
    BY <2>1, <2>5, FramesAre
  <2>7. y \in BOOLEAN /\ fi \in BOOLEAN /\ en \in BOOLEAN /\ pa \in BOOLEAN
    BY <1>1 DEF Wrap
  <2> HIDE DEF y, fi, en, pa
  <2>8. Becomes(decoder, y, decoder.non_data_frame, decoder.chunk, decoder.codec, decoder.held,
                decoder.read_all_data, fi, decoder')
    BY <1>1, <2>6, <2>7, PollsFields
  <2>9. wire' = IF f.kind = "none" THEN wire ELSE Tail(wire)
    BY <2>1, <2>3, FramesAre DEF Client!InnerYields
  <2>10. seen' = Append(seen, Tailed(f))
    BY <2>1, <2>5 DEF Client!Return
  <2>11. Polls(decoder, wire, seen, decoder', wire', seen')
    BY <2>2, <2>3, <2>4, <2>8, <2>9, <2>10, Zenon DEF Polls, y, fi
  <2> QED  BY <2>11 DEF DecoderStep
<1> QED  BY <1>2, <1>3, <1>4, <1>5, <1>6, <1>7, <1>8, <1>9 DEF Client!poll_frame

-----------------------------------------------------------------------------
(* The encoded form of a text: every byte's encoding, then the end mark.   *)
Coded(text) ==
  [i \in 1..(Len(text) + 1) |-> IF i <= Len(text) THEN -text[i] ELSE 0]

IsText(text) == text \in Seq(Int) /\ \A i \in 1..Len(text) : text[i] > 0

(* The encoded text has one byte more than the text: each byte encoded,    *)
(* then the end mark.                                                      *)
LEMMA CodedIs ==
  ASSUME NEW text \in Seq(Int)
  PROVE  /\ Coded(text) \in Seq(Int) /\ Len(Coded(text)) = Len(text) + 1
         /\ Len(text) \in Nat
         /\ \A i \in 1..Len(text) : Coded(text)[i] = -text[i] /\ text[i] \in Int
         /\ Coded(text)[Len(text) + 1] = 0
<1> DEFINE N == Len(text)  c == Coded(text)
<1>1. N \in Nat /\ \A i \in 1..N : text[i] \in Int
  BY LenProperties, ElementOfSeq
<1>2. c = [i \in 1..(N + 1) |-> IF i <= N THEN -text[i] ELSE 0]
  BY DEF Coded
<1> HIDE DEF N, c
<1>3. c \in [1..(N + 1) -> Int]
  <2>1. \A i \in 1..(N + 1) : (IF i <= N THEN -text[i] ELSE 0) \in Int
    BY <1>1
  <2> QED  BY <1>2, <2>1
<1>4. c \in Seq(Int) /\ Len(c) = N + 1
  <2>1. N + 1 \in Nat
    BY <1>1
  <2> QED  BY <1>3, <2>1, IsASeq
<1>5. \A i \in 1..N : c[i] = -text[i]
  BY <1>1, <1>2
<1>6. c[N + 1] = 0
  BY <1>1, <1>2
<1> QED  BY <1>1, <1>4, <1>5, <1>6 DEF N, c

(* The decoder has passed on the first a bytes of the text and taken the   *)
(* first p of its encoded form: it holds the plain bytes up to b, and the  *)
(* encoded ones after c.                                                   *)
DecoderHolds(v, text, a, p) ==
  \E b, c \in Nat :
    /\ Segment(v.held, text, a) /\ b = a + Len(v.held)
    /\ c = IF v.codec = "open" THEN b ELSE b + 1
    /\ Segment(v.chunk, Coded(text), c) /\ p = c + Len(v.chunk)
    /\ v.codec # "open" => b = Len(text)

(* The encoder has passed on q bytes of the encoded form and taken h of    *)
(* the text, and has encoded the first g.                                  *)
EncoderHolds(v, text, q, h) ==
  \E g, r \in Nat :
    /\ Segment(v.held, Coded(text), q) /\ r = q + Len(v.held)
    /\ r = IF v.codec = "open" THEN g ELSE g + 1
    /\ Segment(v.chunk, text, g) /\ h = g + Len(v.chunk)
    /\ v.codec # "open" => g = Len(text)

(* What the decoder holds depends only on its chunk, its codec and its     *)
(* ready bytes.                                                            *)
LEMMA DecoderKeeps ==
  ASSUME NEW v, NEW v2, NEW text, NEW a, NEW p, DecoderHolds(v, text, a, p),
         v2.held = v.held, v2.chunk = v.chunk, v2.codec = "open" <=> v.codec = "open"
  PROVE  DecoderHolds(v2, text, a, p)
BY DEF DecoderHolds

\* So does what the encoder holds.
LEMMA EncoderKeeps ==
  ASSUME NEW v, NEW v2, NEW text, NEW q, NEW h, EncoderHolds(v, text, q, h),
         v2.held = v.held, v2.chunk = v.chunk, v2.codec = v.codec
  PROVE  EncoderHolds(v2, text, q, h)
BY DEF EncoderHolds

\* The decoder takes the next encoded bytes as its chunk.
LEMMA DecoderReads ==
  ASSUME NEW v, NEW v2, NEW text \in Seq(Int), NEW a, NEW p, DecoderHolds(v, text, a, p),
         v.chunk = <<>>, v2.held = v.held, v2.codec = v.codec, v2.chunk \in Seq(Int),
         Segment(v2.chunk, Coded(text), p)
  PROVE  DecoderHolds(v2, text, a, p + Len(v2.chunk))
<1>1. PICK b \in Nat, c \in Nat :
        /\ Segment(v.held, text, a) /\ b = a + Len(v.held)
        /\ c = IF v.codec = "open" THEN b ELSE b + 1
        /\ p = c + Len(v.chunk)
        /\ v.codec # "open" => b = Len(text)
  BY DEF DecoderHolds
<1>2. p = c
  <2>1. Len(v.chunk) = 0
    OBVIOUS
  <2> QED  BY <1>1, <2>1
<1> QED  BY <1>1, <1>2 DEF DecoderHolds

\* The encoder takes the next plain bytes as its chunk.
LEMMA EncoderReads ==
  ASSUME NEW v, NEW v2, NEW text \in Seq(Int), NEW q, NEW h, EncoderHolds(v, text, q, h),
         v.chunk = <<>>, v2.held = v.held, v2.codec = v.codec, v2.chunk \in Seq(Int),
         Segment(v2.chunk, text, h)
  PROVE  EncoderHolds(v2, text, q, h + Len(v2.chunk))
<1>1. PICK g \in Nat, r \in Nat :
        /\ Segment(v.held, Coded(text), q) /\ r = q + Len(v.held)
        /\ r = IF v.codec = "open" THEN g ELSE g + 1
        /\ h = g + Len(v.chunk)
        /\ v.codec # "open" => g = Len(text)
  BY DEF EncoderHolds
<1>2. h = g
  <2>1. Len(v.chunk) = 0
    OBVIOUS
  <2> QED  BY <1>1, <2>1
<1> QED  BY <1>1, <1>2 DEF EncoderHolds

\* What the decoder emits are the plain bytes that come next.
LEMMA DecoderEmits ==
  ASSUME NEW v, NEW v2, NEW text \in Seq(Int), NEW a, NEW p, DecoderHolds(v, text, a, p),
         v.held \in Seq(Int), NEW n \in 1..Len(v.held), v2.codec = v.codec,
         v2.chunk = v.chunk, v2.held = SubSeq(v.held, n + 1, Len(v.held))
  PROVE  /\ DecoderHolds(v2, text, a + n, p)
         /\ SubSeq(v.held, 1, n) \in Seq(Int) /\ Len(SubSeq(v.held, 1, n)) = n
         /\ Segment(SubSeq(v.held, 1, n), text, a)
<1> DEFINE s == v.held  l == Len(v.held)
<1>1. PICK b \in Nat, c \in Nat :
        /\ Segment(s, text, a) /\ b = a + l
        /\ c = IF v.codec = "open" THEN b ELSE b + 1
        /\ Segment(v.chunk, Coded(text), c) /\ p = c + Len(v.chunk)
        /\ v.codec # "open" => b = Len(text)
  BY DEF DecoderHolds
<1>2. /\ SubSeq(s, 1, n) \in Seq(Int) /\ Len(SubSeq(s, 1, n)) = n
      /\ Len(v2.held) = l - n
      /\ Segment(SubSeq(s, 1, n), text, a) /\ Segment(v2.held, text, a + n)
  <2>1. s \in Seq(Int) /\ n \in 1..Len(s) /\ v2.held = SubSeq(s, n + 1, Len(s)) /\ l = Len(s)
        /\ text \in Seq(Int) /\ Segment(s, text, a)
    BY <1>1, CodedIs
  <2> DEFINE t == text
  <2> HIDE DEF s, l, t
  <2>2. /\ SubSeq(s, 1, n) \in Seq(Int) /\ Len(SubSeq(s, 1, n)) = n
        /\ Len(SubSeq(s, n + 1, Len(s))) = Len(s) - n
        /\ Segment(SubSeq(s, 1, n), t, a) /\ Segment(SubSeq(s, n + 1, Len(s)), t, a + n)
    BY <2>1, SegmentSplit, Zenon DEF t
  <2> QED  BY <2>1, <2>2 DEF t
<1>3. l \in Nat /\ a \in Nat /\ n \in Nat
  BY <1>1, LenProperties DEF Segment
<1> DEFINE m == Len(v2.held)
<1> HIDE DEF l, m
<1>4. b = (a + n) + m
  <2>1. m = l - n /\ b = a + l
    BY <1>1, <1>2 DEF m
  <2> QED  BY <1>3, <2>1
<1> QED  BY <1>1, <1>2, <1>4 DEF DecoderHolds, m

\* What the encoder emits are the encoded bytes that come next.
LEMMA EncoderEmits ==
  ASSUME NEW v, NEW v2, NEW text \in Seq(Int), NEW q, NEW h, EncoderHolds(v, text, q, h),
         v.held \in Seq(Int), NEW n \in 1..Len(v.held), v2.codec = v.codec,
         v2.chunk = v.chunk, v2.held = SubSeq(v.held, n + 1, Len(v.held))
  PROVE  /\ EncoderHolds(v2, text, q + n, h)
         /\ SubSeq(v.held, 1, n) \in Seq(Int) /\ Len(SubSeq(v.held, 1, n)) = n
         /\ Segment(SubSeq(v.held, 1, n), Coded(text), q)
<1> DEFINE s == v.held  l == Len(v.held)
<1>1. PICK g \in Nat, r \in Nat :
        /\ Segment(s, Coded(text), q) /\ r = q + l
        /\ r = IF v.codec = "open" THEN g ELSE g + 1
        /\ Segment(v.chunk, text, g) /\ h = g + Len(v.chunk)
        /\ v.codec # "open" => g = Len(text)
  BY DEF EncoderHolds
<1>2. /\ SubSeq(s, 1, n) \in Seq(Int) /\ Len(SubSeq(s, 1, n)) = n
      /\ Len(v2.held) = l - n
      /\ Segment(SubSeq(s, 1, n), Coded(text), q) /\ Segment(v2.held, Coded(text), q + n)
  <2>1. s \in Seq(Int) /\ n \in 1..Len(s) /\ v2.held = SubSeq(s, n + 1, Len(s)) /\ l = Len(s)
        /\ Coded(text) \in Seq(Int) /\ Segment(s, Coded(text), q)
    BY <1>1, CodedIs
  <2> DEFINE t == Coded(text)
  <2> HIDE DEF s, l, t
  <2>2. /\ SubSeq(s, 1, n) \in Seq(Int) /\ Len(SubSeq(s, 1, n)) = n
        /\ Len(SubSeq(s, n + 1, Len(s))) = Len(s) - n
        /\ Segment(SubSeq(s, 1, n), t, q) /\ Segment(SubSeq(s, n + 1, Len(s)), t, q + n)
    BY <2>1, SegmentSplit, Zenon DEF t
  <2> QED  BY <2>1, <2>2 DEF t
<1>3. l \in Nat /\ q \in Nat /\ n \in Nat
  BY <1>1, LenProperties DEF Segment
<1> DEFINE m == Len(v2.held)
<1> HIDE DEF l, m
<1>4. r = (q + n) + m
  <2>1. m = l - n /\ r = q + l
    BY <1>1, <1>2 DEF m
  <2> QED  BY <1>3, <2>1
<1> QED  BY <1>1, <1>2, <1>4 DEF EncoderHolds, m

(* Decoding a byte moves a boundary inside the decoder; it never meets a   *)
(* byte that is not encoded, and meets the end mark after the last one.    *)
LEMMA DecoderDecodes ==
  ASSUME NEW v \in Wrap, NEW v2, NEW text, IsText(text), NEW a, NEW p,
         DecoderHolds(v, text, a, p), Decodes(v, v2)
  PROVE  /\ DecoderHolds(v2, text, a, p)
         /\ \E co, he :
              /\ co \in {"open", "between", "done"}
              /\ Becomes(v, v.yielded_all_data, v.non_data_frame, Tail(v.chunk), co, he,
                         v.read_all_data, FALSE, v2)
         /\ v.codec = "open"
<1> DEFINE N == Len(text)  s == v.held  t == v.chunk  code == Coded(text)
           Turns(co, he) ==
             /\ co \in {"open", "between", "done"}
             /\ Becomes(v, v.yielded_all_data, v.non_data_frame, Tail(v.chunk), co, he,
                        v.read_all_data, FALSE, v2)
<1>1. PICK b \in Nat, c \in Nat :
        /\ Segment(s, text, a) /\ b = a + Len(s)
        /\ c = IF v.codec = "open" THEN b ELSE b + 1
        /\ Segment(t, code, c) /\ p = c + Len(t)
        /\ v.codec # "open" => b = N
  BY DEF DecoderHolds
<1>2. /\ text \in Seq(Int) /\ N \in Nat /\ code \in Seq(Int) /\ Len(code) = N + 1
      /\ \A i \in 1..N : code[i] = -text[i] /\ text[i] \in Int /\ text[i] > 0
      /\ code[N + 1] = 0
  BY CodedIs DEF IsText
<1>3. s \in Seq(Int) /\ t \in Seq(Int) /\ t # <<>> /\ Len(t) \in Nat
  BY LenProperties DEF Wrap, Decodes
<1> DEFINE rest == Tail(t)  byte == Head(t)
<1>4. /\ byte = code[c + 1] /\ c + 1 <= N + 1 /\ rest \in Seq(Int) /\ Len(rest) = Len(t) - 1
      /\ Segment(rest, code, c + 1)
  <2>1. Segment(t, code, c)
    BY <1>1
  <2> HIDE DEF t, code
  <2> QED  BY <1>2, <1>3, <2>1, SegmentHead
<1>5. Segment(s, text, a) /\ a + Len(s) <= N /\ b <= N
  BY <1>1 DEF Segment
<1>6. v.codec = "open" /\ c = b
  <2>1. c + 1 <= N + 1 /\ N \in Nat
    BY <1>2, <1>4
  <2>2. v.codec # "open" => c = N + 1
    BY <1>1
  <2>3. v.codec = "open"
    BY <2>1, <2>2
  <2> QED  BY <1>1, <2>3
<1>7. p = (c + 1) + Len(rest) /\ b + 1 \in Nat
  <2> DEFINE m == Len(t)  m2 == Len(rest)
  <2>1. p = c + m /\ m2 = m - 1 /\ m \in Nat
    BY <1>1, <1>3, <1>4
  <2> HIDE DEF m, m2
  <2>2. p = (c + 1) + m2
    BY <2>1
  <2> QED  BY <2>2 DEF m2
<1>8. CASE b = N
  <2>1. byte = 0
    BY <1>2, <1>4, <1>6, <1>8
  <2>2. PICK co \in {"between", "done"} :
          Becomes(v, v.yielded_all_data, v.non_data_frame, rest, co, s,
                  v.read_all_data, FALSE, v2)
    BY <2>1 DEF Decodes
  <2>3. v2.held = s /\ v2.chunk = rest /\ v2.codec # "open"
    BY <2>2 DEF Becomes
  <2>4. DecoderHolds(v2, text, a, p)
    <3>1. /\ Segment(v2.held, text, a) /\ b = a + Len(v2.held) /\ b + 1 \in Nat
          /\ Segment(v2.chunk, code, b + 1) /\ p = (b + 1) + Len(v2.chunk)
      BY <1>1, <1>4, <1>5, <1>6, <1>7, <2>3
    <3> HIDE DEF s, t, rest, byte
    <3> QED  BY <1>8, <2>3, <3>1 DEF DecoderHolds
  <2>5. Turns(co, s)
    BY <2>2
  <2>6. \E co1, he : Turns(co1, he)
    <3> HIDE DEF Turns, s
    <3> QED  BY <2>5
  <2> QED  BY <1>6, <2>4, <2>6
<1>9. CASE b # N
  <2>1. b + 1 \in 1..N /\ b < N
    BY <1>2, <1>5, <1>9
  <2>2. byte = -text[b + 1] /\ text[b + 1] \in Int /\ text[b + 1] > 0
    BY <1>2, <1>4, <1>6, <2>1
  <2>3. byte < 0 /\ -byte = text[b + 1]
    <3> DEFINE x == text[b + 1]
    <3>1. byte = -x /\ x \in Int /\ x > 0
      BY <2>2
    <3> HIDE DEF x, byte
    <3>2. byte < 0 /\ -byte = x
      BY <3>1
    <3> QED  BY <3>2 DEF x
  <2>4. Becomes(v, v.yielded_all_data, v.non_data_frame, rest, "open", Append(s, -byte),
                v.read_all_data, FALSE, v2)
    BY <2>3 DEF Decodes
  <2>5. v2.held = Append(s, text[b + 1]) /\ v2.chunk = rest /\ v2.codec = "open"
    BY <2>3, <2>4 DEF Becomes
  <2>6. Segment(v2.held, text, a) /\ Len(v2.held) = Len(s) + 1
    <3>1. a + Len(s) < Len(text) /\ text[b + 1] = text[a + Len(s) + 1]
      BY <1>1, <2>1
    <3>2. text[b + 1] \in Int
      BY <2>2
    <3> HIDE DEF s, t, rest, byte
    <3> QED  BY <1>2, <1>3, <1>5, <2>5, <3>1, <3>2, SegmentAppend
  <2>7. DecoderHolds(v2, text, a, p)
    <3> DEFINE l == Len(s)  l2 == Len(v2.held)
    <3>1. b = a + l /\ l2 = l + 1 /\ l \in Nat /\ a \in Nat
      BY <1>1, <1>3, <2>6, LenProperties DEF Segment
    <3> HIDE DEF l, l2
    <3>2. b + 1 = a + l2
      BY <3>1
    <3>3. /\ Segment(v2.held, text, a) /\ b + 1 = a + Len(v2.held) /\ b + 1 \in Nat
          /\ Segment(v2.chunk, code, b + 1) /\ p = (b + 1) + Len(v2.chunk)
      BY <1>4, <1>6, <1>7, <2>5, <2>6, <3>2 DEF l2
    <3> HIDE DEF s, t, rest, byte
    <3> QED  BY <2>5, <3>3 DEF DecoderHolds
  <2>8. Turns("open", Append(s, -byte))
    BY <2>4
  <2>9. \E co1, he : Turns(co1, he)
    <3> HIDE DEF Turns, s, byte
    <3> QED  BY <2>8
  <2> QED  BY <1>6, <2>7, <2>9
<1> QED  BY <1>8, <1>9

\* The encoder encodes the next plain byte.
LEMMA EncoderEncodes ==
  ASSUME NEW v \in Wrap, NEW v2, NEW text, IsText(text), NEW q, NEW h,
         EncoderHolds(v, text, q, h), Encodes(v, v2), v.codec = "open"
  PROVE  EncoderHolds(v2, text, q, h)
<1> DEFINE N == Len(text)  s == v.held  t == v.chunk  code == Coded(text)
<1>1. PICK g \in Nat, r \in Nat :
        /\ Segment(s, code, q) /\ r = q + Len(s) /\ r = g
        /\ Segment(t, text, g) /\ h = g + Len(t)
  BY DEF EncoderHolds
<1>2. /\ text \in Seq(Int) /\ N \in Nat /\ code \in Seq(Int) /\ Len(code) = N + 1
      /\ \A i \in 1..N : code[i] = -text[i] /\ text[i] \in Int /\ text[i] > 0
  BY CodedIs DEF IsText
<1>3. s \in Seq(Int) /\ t \in Seq(Int) /\ t # <<>> /\ Len(t) \in Nat /\ Len(s) \in Nat
  BY LenProperties DEF Wrap, Encodes
<1> DEFINE rest == Tail(t)  byte == Head(t)
<1>4. /\ byte = text[g + 1] /\ g + 1 <= N /\ rest \in Seq(Int) /\ Len(rest) = Len(t) - 1
      /\ Segment(rest, text, g + 1)
  <2>1. Segment(t, text, g)
    BY <1>1
  <2> HIDE DEF t
  <2> QED  BY <1>2, <1>3, <2>1, SegmentHead
<1>5. g + 1 \in 1..N /\ -byte = code[g + 1] /\ -byte \in Int
  <2>1. g + 1 \in 1..N
    BY <1>2, <1>4
  <2>2. byte = text[g + 1] /\ text[g + 1] \in Int /\ code[g + 1] = -text[g + 1]
    BY <1>2, <1>4, <2>1
  <2> QED  BY <2>1, <2>2
<1>6. v2.held = Append(s, -byte) /\ v2.chunk = rest /\ v2.codec = "open"
  BY DEF Encodes, Becomes
<1>7. Segment(v2.held, code, q) /\ Len(v2.held) = Len(s) + 1
  <2>1. q + Len(s) < Len(code) /\ -byte = code[q + Len(s) + 1]
    <3>1. q + Len(s) = g
      BY <1>1
    <3>2. g < Len(code)
      BY <1>2, <1>4
    <3>3. -byte = code[g + 1]
      BY <1>5
    <3> HIDE DEF s, byte, code
    <3> QED  BY <3>1, <3>2, <3>3
  <2>2. Segment(s, code, q)
    BY <1>1
  <2> DEFINE x == -byte
  <2> HIDE DEF s, t, rest, x, code
  <2>3. Segment(Append(s, x), code, q) /\ Len(Append(s, x)) = Len(s) + 1
    BY <1>2, <1>3, <1>5, <2>1, <2>2, SegmentAppend DEF x
  <2> QED  BY <1>6, <2>3 DEF x
<1>8. h = (g + 1) + Len(rest) /\ g + 1 = q + Len(v2.held) /\ g + 1 \in Nat
  <2> DEFINE m == Len(t)  m2 == Len(rest)  l == Len(s)  l2 == Len(v2.held)
  <2>1. /\ h = g + m /\ m2 = m - 1 /\ m \in Nat /\ g = q + l /\ l2 = l + 1 /\ l \in Nat
        /\ q \in Nat
    BY <1>1, <1>3, <1>4, <1>7 DEF Segment
  <2> HIDE DEF m, m2, l, l2
  <2>2. h = (g + 1) + m2 /\ g + 1 = q + l2
    BY <2>1
  <2> QED  BY <2>2 DEF m2, l2
<1> HIDE DEF s, t, rest, byte
<1> QED  BY <1>4, <1>6, <1>7, <1>8 DEF EncoderHolds

\* The encoder writes the end mark behind the last byte of the text.
LEMMA EncoderMarks ==
  ASSUME NEW v \in Wrap, NEW v2, NEW text, IsText(text), NEW q, NEW h,
         EncoderHolds(v, text, q, h), Marks(v, v2), v.codec = "open", h = Len(text)
  PROVE  EncoderHolds(v2, text, q, h)
<1> DEFINE N == Len(text)  s == v.held  code == Coded(text)
<1>1. PICK g \in Nat, r \in Nat :
        /\ Segment(s, code, q) /\ r = q + Len(s) /\ r = g
        /\ Segment(v.chunk, text, g) /\ h = g + Len(v.chunk)
  BY DEF EncoderHolds
<1>2. /\ text \in Seq(Int) /\ N \in Nat /\ code \in Seq(Int) /\ Len(code) = N + 1
      /\ code[N + 1] = 0
  BY CodedIs DEF IsText
<1>3. s \in Seq(Int) /\ v.chunk = <<>> /\ Len(v.chunk) = 0 /\ Len(s) \in Nat
  BY LenProperties DEF Wrap, Marks
<1>4. g = N /\ h = N
  BY <1>1, <1>3
<1>5. v2.held = Append(s, 0) /\ v2.chunk = v.chunk /\ v2.codec = "done"
  BY DEF Marks, Becomes
<1>6. Segment(v2.held, code, q) /\ Len(v2.held) = Len(s) + 1
  <2>1. q + Len(s) < Len(code) /\ 0 = code[q + Len(s) + 1]
    BY <1>1, <1>2, <1>4
  <2>2. Segment(s, code, q)
    BY <1>1
  <2> DEFINE x == 0
  <2>3. x = code[q + Len(s) + 1] /\ x \in Int
    BY <2>1
  <2> HIDE DEF s, x, code
  <2>4. Segment(Append(s, x), code, q) /\ Len(Append(s, x)) = Len(s) + 1
    BY <1>2, <1>3, <2>1, <2>2, <2>3, SegmentAppend
  <2> QED  BY <1>5, <2>4 DEF x
<1>7. g + 1 = q + Len(v2.held) /\ g + 1 \in Nat
  <2> DEFINE l == Len(s)  l2 == Len(v2.held)
  <2>1. g = q + l /\ l2 = l + 1 /\ l \in Nat /\ q \in Nat
    BY <1>1, <1>3, <1>6 DEF Segment
  <2> HIDE DEF l, l2
  <2>2. g + 1 = q + l2
    BY <2>1
  <2> QED  BY <2>2 DEF l2
<1>8. Segment(v2.chunk, text, g) /\ h = g + Len(v2.chunk) /\ v2.codec # "open"
  BY <1>1, <1>5
<1> HIDE DEF s
<1> QED  BY <1>4, <1>6, <1>7, <1>8 DEF EncoderHolds

-----------------------------------------------------------------------------
(* Every byte is in its place: from the caller back to the response, what  *)
(* is delivered, held, under way and still to come are consecutive.        *)
Flow(text, s, d, wi, e, ap) ==
  \E a, p, q, h \in Nat :
    /\ Chain(s, text, 0, a) /\ DecoderHolds(d, text, a, p)
    /\ Chain(wi, Coded(text), p, q) /\ EncoderHolds(e, text, q, h)
    /\ Chain(ap, text, h, Len(text))

Has(s, kind) == \E i \in 1..Len(s) : s[i].kind = kind

(* The encoder ends its input where the response ends, and not before.     *)
EncoderIs(e, ap) ==
  /\ e.encodes /\ e.codec \in {"open", "done"}
  /\ e.yielded_all_data => Len(ap) = 1 /\ ap[1].kind = "none"
  /\ e.codec = "done" => e.yielded_all_data
  /\ e.read_all_data => e.codec = "done" /\ e.held = <<>>
  /\ e.non_data_frame \in {Client!None, Client!Trailers}
  /\ e.non_data_frame # Client!None => e.yielded_all_data

(* A response ends once, and trailers come right before that.              *)
Orderly(ap) ==
  \A i \in 1..Len(ap) :
    /\ ap[i].kind \in {"none", "error"} => i = Len(ap)
    /\ ap[i].kind = "trailers" => i + 1 = Len(ap) /\ ap[i + 1].kind = "none"

AppIs(se, ap, e) ==
  /\ Orderly(ap)
  /\ Len(ap) = 0 => e.finished /\ Has(se, "error")
  /\ Len(ap) > 0 => /\ ap[Len(ap)].kind \in {"none", "error"}
                    /\ Has(se, "error") <=> ap[Len(ap)].kind = "error"

Ended(v) == v.finished /\ v.read_all_data /\ v.non_data_frame = Client!None

Failed(se, net) == Has(se, "error") \/ net = "failed"

(* The last frame on the wire is the encoder's, or the network's.          *)
WireIs(se, net, wi, e) ==
  /\ \A i \in 1..Len(wi) :
       /\ wi[i].kind = "none" => i = Len(wi) /\ Ended(e)
       /\ wi[i].kind = "error" =>
            i = Len(wi) /\ Failed(se, net) /\ (e.finished \/ net = "failed")
  /\ net = "failed" => ~e.finished

DecoderIs(d) ==
  /\ ~d.encodes /\ d.codec \in {"open", "between", "done"}
  /\ d.yielded_all_data => d.codec # "open"
  /\ d.read_all_data => d.codec = "done" /\ d.held = <<>>
  /\ d.non_data_frame \in {Client!None, Client!Trailers}
  /\ d.non_data_frame # Client!None => d.yielded_all_data

SeenIs(se, net, s, d, wi, e) ==
  /\ Has(s, "error") => Failed(se, net)
  /\ Has(s, "none") => Ended(d) /\ Ended(e) /\ ~Has(wi, "trailers")

(* Trailers are somewhere on their way exactly if there are any.           *)
Ledger(se, s, d, wi, e, ap) ==
  Has(se, "trailers") <=>
    \/ Has(s, "trailers") \/ d.non_data_frame # Client!None
    \/ Has(wi, "trailers") \/ e.non_data_frame # Client!None
    \/ Has(ap, "trailers")

Kinds(se, net, s, d, wi, e, ap) ==
  /\ s \in Seq(Frame) /\ wi \in Seq(Frame) /\ ap \in Seq(Frame)
  /\ d \in Wrap /\ e \in Wrap /\ net \in {"up", "failed"}

Sound(se, net, text, s, d, wi, e, ap) ==
  /\ Kinds(se, net, s, d, wi, e, ap) /\ IsText(text)
  /\ Flow(text, s, d, wi, e, ap)
  /\ EncoderIs(e, ap) /\ AppIs(se, ap, e) /\ WireIs(se, net, wi, e)
  /\ DecoderIs(d) /\ SeenIs(se, net, s, d, wi, e) /\ Ledger(se, s, d, wi, e, ap)

\* What kinds of frames there are once a frame is added.
LEMMA HasAppend ==
  ASSUME NEW s \in Seq(Frame), NEW f \in Frame, NEW kind
  PROVE  Has(Append(s, f), kind) <=> Has(s, kind) \/ f.kind = kind
<1> DEFINE t == Append(s, f)  n == Len(s)
<1>1. /\ n \in Nat /\ Len(t) = n + 1 /\ t[n + 1] = f /\ \A i \in 1..n : t[i] = s[i]
  BY AppendProperties, LenProperties
<1> HIDE DEF t, n
<1>2. n + 1 \in 1..(n + 1) /\ \A i \in 1..(n + 1) : i \in 1..n \/ i = n + 1
  BY <1>1
<1>3. \A i \in 1..n : i \in 1..(n + 1)
  BY <1>1
<1>4. (\E i \in 1..(n + 1) : t[i].kind = kind)
      <=> (\E i \in 1..n : s[i].kind = kind) \/ f.kind = kind
  BY <1>1, <1>2, <1>3
<1> QED  BY <1>1, <1>4 DEF Has, t, n

\* What kinds of frames there are once the first is taken.
LEMMA HasTail ==
  ASSUME NEW s \in Seq(Frame), s # <<>>, NEW kind
  PROVE  Has(s, kind) <=> Head(s).kind = kind \/ Has(Tail(s), kind)
<1> DEFINE t == Tail(s)  n == Len(s)
<1>1. /\ n \in Nat /\ n > 0 /\ Len(t) = n - 1 /\ Head(s) = s[1]
      /\ \A i \in 1..(n - 1) : t[i] = s[i + 1]
  BY HeadTailProperties, LenProperties
<1> HIDE DEF t, n
<1>2. 1 \in 1..n /\ \A i \in 1..n : i = 1 \/ (i - 1 \in 1..(n - 1) /\ (i - 1) + 1 = i)
  BY <1>1
<1>3. \A i \in 1..(n - 1) : i + 1 \in 1..n
  BY <1>1
<1>4. (\E i \in 1..n : s[i].kind = kind) <=>
        Head(s).kind = kind \/ (\E i \in 1..(n - 1) : t[i].kind = kind)
  BY <1>1, <1>2, <1>3
<1> QED  BY <1>1, <1>4 DEF Has, t, n

(* While the encoder goes on, the wire has no end and neither has what the *)
(* caller got.                                                             *)
LEMMA WireIsOpen ==
  ASSUME NEW se, NEW net, NEW wi, NEW e, WireIs(se, net, wi, e), net = "up", ~e.finished
  PROVE  \A i \in 1..Len(wi) : wi[i].kind \notin {"none", "error"}
BY DEF WireIs, Ended

\* Nothing on the wire is an end while the encoder has not finished.
LEMMA WireKeeps ==
  ASSUME NEW se, NEW net, NEW wi, NEW e, NEW e2, WireIs(se, net, wi, e), net = "up", ~e.finished
  PROVE  WireIs(se, net, wi, e2)
BY WireIsOpen DEF WireIs

\* A frame that is put on the wire, with what it says of the response.
LEMMA WireAppend ==
  ASSUME NEW se, NEW net, NEW net2, NEW wi \in Seq(Frame), NEW e, NEW e2,
         WireIs(se, net, wi, e), net = "up", ~e.finished, NEW f \in Frame,
         f.kind = "none" => Ended(e2),
         f.kind = "error" => Failed(se, net2) /\ (e2.finished \/ net2 = "failed"),
         net2 = "failed" => ~e2.finished
  PROVE  WireIs(se, net2, Append(wi, f), e2)
<1> DEFINE t == Append(wi, f)  n == Len(wi)
<1>1. /\ n \in Nat /\ Len(t) = n + 1 /\ t[n + 1] = f /\ \A i \in 1..n : t[i] = wi[i]
  BY AppendProperties, LenProperties
<1>2. \A i \in 1..n : wi[i].kind \notin {"none", "error"}
  BY WireIsOpen
<1> HIDE DEF t, n
<1>3. ASSUME NEW i \in 1..(n + 1), t[i].kind \in {"none", "error"}
      PROVE  i = n + 1 /\ t[i] = f
  <2>1. i \notin 1..n
    BY <1>1, <1>2, <1>3
  <2> QED  BY <1>1, <2>1
<1>4. WireIs(se, net2, t, e2)
  BY <1>1, <1>3 DEF WireIs
<1> QED  BY <1>4 DEF t

\* The caller has not been told of an end while the encoder has not finished.
LEMMA SeenKeeps ==
  ASSUME NEW se, NEW net, NEW net2, NEW s, NEW d, NEW wi, NEW wi2, NEW e, NEW e2,
         SeenIs(se, net, s, d, wi, e), ~e.finished, net = "up"
  PROVE  SeenIs(se, net2, s, d, wi2, e2)
BY DEF SeenIs, Ended, Failed

(* The response behind its first frame.                                    *)
LEMMA AppTail ==
  ASSUME NEW se, NEW ap \in Seq(Frame), NEW e, NEW e2, AppIs(se, ap, e), ap # <<>>
  PROVE  /\ Head(ap).kind = "data" => AppIs(se, Tail(ap), e2)
         /\ Head(ap).kind = "trailers" =>
              AppIs(se, Tail(ap), e2) /\ Len(Tail(ap)) = 1 /\ Tail(ap)[1].kind = "none"
         /\ Head(ap).kind = "none" => AppIs(se, ap, e2) /\ Len(ap) = 1 /\ ap[1].kind = "none"
         /\ Head(ap).kind = "error" /\ e2.finished => AppIs(se, Tail(ap), e2)
         /\ Head(ap).kind = "error" => Has(se, "error")
<1> DEFINE t == Tail(ap)  n == Len(ap)
<1>1. /\ n \in Nat /\ n > 0 /\ t \in Seq(Frame) /\ Len(t) = n - 1 /\ Head(ap) = ap[1]
      /\ \A i \in 1..(n - 1) : t[i] = ap[i + 1]
  BY HeadTailProperties, LenProperties
<1>2. /\ \A i \in 1..n : /\ ap[i].kind \in {"none", "error"} => i = n
                         /\ ap[i].kind = "trailers" => i + 1 = n /\ ap[i + 1].kind = "none"
      /\ ap[n].kind \in {"none", "error"}
      /\ Has(se, "error") <=> ap[n].kind = "error"
  BY <1>1 DEF AppIs, Orderly
<1> HIDE DEF t, n
<1>3. Orderly(t)
  <2>1. ASSUME NEW i \in 1..(n - 1)
        PROVE  /\ t[i].kind \in {"none", "error"} => i = n - 1
               /\ t[i].kind = "trailers" => i + 1 = n - 1 /\ t[i + 1].kind = "none"
    <3>1. i + 1 \in 1..n /\ t[i] = ap[i + 1]
      BY <1>1
    <3>2. t[i].kind \in {"none", "error"} => i = n - 1
      BY <1>1, <1>2, <3>1
    <3>3. ASSUME t[i].kind = "trailers"
          PROVE  i + 1 = n - 1 /\ t[i + 1].kind = "none"
      <4>1. (i + 1) + 1 = n /\ ap[(i + 1) + 1].kind = "none"
        BY <1>2, <3>1, <3>3
      <4>2. i + 1 = n - 1 /\ i + 1 \in 1..(n - 1)
        BY <1>1, <4>1
      <4>3. t[i + 1] = ap[(i + 1) + 1]
        BY <1>1, <4>2
      <4> QED  BY <4>1, <4>2, <4>3
    <3> QED  BY <3>2, <3>3
  <2> QED  BY <1>1, <2>1 DEF Orderly
<1>4. 1 \in 1..n /\ n \in 1..n
  BY <1>1
<1>5. ASSUME n > 1 PROVE AppIs(se, t, e2)
  <2>1. n - 1 \in 1..(n - 1) /\ (n - 1) + 1 = n
    BY <1>1, <1>5
  <2>2. t[n - 1] = ap[n] /\ Len(t) # 0
    BY <1>1, <1>5, <2>1
  <2> QED  BY <1>1, <1>2, <1>3, <2>2 DEF AppIs
<1>6. ap[1].kind = "data" => n > 1
  BY <1>1, <1>2, <1>4
<1>7. ASSUME ap[1].kind = "trailers"
      PROVE  n > 1 /\ Len(t) = 1 /\ t[1].kind = "none"
  <2>1. 1 + 1 = n /\ ap[1 + 1].kind = "none"
    BY <1>2, <1>4, <1>7
  <2>2. n - 1 = 1 /\ 1 \in 1..(n - 1)
    BY <1>1, <2>1
  <2> QED  BY <1>1, <2>1, <2>2
<1>8. ASSUME ap[1].kind \in {"none", "error"} PROVE n = 1
  BY <1>2, <1>4, <1>8
<1>9. ASSUME ap[1].kind = "none" PROVE AppIs(se, ap, e2) /\ Len(ap) = 1
  <2>1. Orderly(ap) /\ n = 1
    BY <1>8, <1>9 DEF AppIs
  <2>2. Len(ap) = 1
    BY <2>1 DEF n
  <2> QED  BY <1>2, <2>1, <2>2 DEF AppIs
<1>10. ASSUME ap[1].kind = "error" PROVE Has(se, "error") /\ (e2.finished => AppIs(se, t, e2))
  <2>1. n = 1 /\ Len(t) = 0
    BY <1>1, <1>8, <1>10
  <2>2. Has(se, "error")
    BY <1>2, <1>10, <2>1
  <2> QED  BY <1>3, <2>1, <2>2 DEF AppIs
<1> QED  BY <1>1, <1>5, <1>6, <1>7, <1>9, <1>10 DEF t

-----------------------------------------------------------------------------
(* The steps of the encoder.                                               *)
LEMMA FlowKeepsEncoder ==
  ASSUME NEW text, NEW s, NEW d, NEW wi, NEW e, NEW e2, NEW ap, Flow(text, s, d, wi, e, ap),
         e2.held = e.held, e2.chunk = e.chunk, e2.codec = e.codec
  PROVE  Flow(text, s, d, wi, e2, ap)
<1>1. PICK a \in Nat, p \in Nat, q \in Nat, h \in Nat :
        /\ Chain(s, text, 0, a) /\ DecoderHolds(d, text, a, p)
        /\ Chain(wi, Coded(text), p, q) /\ EncoderHolds(e, text, q, h)
        /\ Chain(ap, text, h, Len(text))
  BY DEF Flow
<1>2. EncoderHolds(e2, text, q, h)
  BY <1>1, EncoderKeeps
<1> QED  BY <1>1, <1>2 DEF Flow

\* The wire ends within the encoded text.
LEMMA EncoderBound ==
  ASSUME NEW text \in Seq(Int), NEW e \in Wrap, NEW q, NEW h, EncoderHolds(e, text, q, h)
  PROVE  q \in Nat /\ q <= Len(Coded(text))
<1>1. Segment(e.held, Coded(text), q)
  BY DEF EncoderHolds
<1>2. e.held \in Seq(Int) /\ Len(e.held) \in Nat
  BY LenProperties DEF Wrap
<1>3. Coded(text) \in Seq(Int) /\ Len(Coded(text)) \in Nat
  BY CodedIs, LenProperties
<1>4. q \in Nat /\ q + Len(e.held) <= Len(Coded(text))
  BY <1>1 DEF Segment
<1> QED  BY <1>2, <1>3, <1>4

\* The encoder reads a frame of the response.
LEMMA SendReads ==
  ASSUME NEW se, NEW net, NEW text, NEW s, NEW d, NEW wi, NEW e, NEW ap,
         NEW wi2, NEW e2, NEW ap2,
         Sound(se, net, text, s, d, wi, e, ap), net = "up", Reads(e, ap, wi, e2, ap2, wi2)
  PROVE  Sound(se, net, text, s, d, wi2, e2, ap2)
<1>1. /\ Kinds(se, net, s, d, wi, e, ap) /\ IsText(text) /\ Flow(text, s, d, wi, e, ap)
      /\ EncoderIs(e, ap) /\ AppIs(se, ap, e) /\ WireIs(se, net, wi, e)
      /\ DecoderIs(d) /\ SeenIs(se, net, s, d, wi, e) /\ Ledger(se, s, d, wi, e, ap)
  BY DEF Sound
<1>2. PICK f : /\ Takes(e, ap, f)
               /\ \/ TakesData(e, ap, wi, e2, ap2, wi2, f)
                  \/ TakesTrailers(e, ap, wi, e2, ap2, wi2, f)
                  \/ TakesEnd(e, ap, wi, e2, ap2, wi2, f)
                  \/ TakesError(e, ap, wi, e2, ap2, wi2, f)
  BY DEF Reads
<1>3. /\ ap # <<>> /\ f = Head(ap) /\ f \in Frame /\ Tail(ap) \in Seq(Frame)
      /\ ~e.finished /\ ~e.read_all_data /\ e.chunk = <<>> /\ e.codec = "open"
      /\ ~e.yielded_all_data
  BY <1>1, <1>2 DEF Takes, EncoderIs
<1>4. /\ s \in Seq(Frame) /\ wi \in Seq(Frame) /\ ap \in Seq(Frame) /\ text \in Seq(Int)
      /\ e.non_data_frame = Client!None
  BY <1>1, <1>3 DEF Kinds, IsText, EncoderIs
<1>5. SeenIs(se, net, s, d, wi2, e2)
  BY <1>1, <1>3, SeenKeeps
<1>6. Has(ap, "trailers") <=> f.kind = "trailers" \/ Has(Tail(ap), "trailers")
  BY <1>3, <1>4, HasTail
<1>7. PICK a \in Nat, p \in Nat, q \in Nat, h \in Nat :
        /\ Chain(s, text, 0, a) /\ DecoderHolds(d, text, a, p)
        /\ Chain(wi, Coded(text), p, q) /\ EncoderHolds(e, text, q, h)
        /\ Chain(ap, text, h, Len(text))
  BY <1>1 DEF Flow
<1>8. /\ Segment(f.bytes, text, h) /\ h + Len(f.bytes) \in Nat
      /\ Chain(Tail(ap), text, h + Len(f.bytes), Len(text))
  BY <1>3, <1>4, <1>7, ChainHead
<1>9. CASE TakesData(e, ap, wi, e2, ap2, wi2, f)
  <2>1. /\ f.kind = "data" /\ ap2 = Tail(ap) /\ wi2 = wi /\ e2 \in Wrap /\ e2.encodes
        /\ ~e2.yielded_all_data /\ e2.non_data_frame = e.non_data_frame /\ e2.chunk = f.bytes
        /\ e2.codec = e.codec /\ e2.held = e.held /\ ~e2.read_all_data /\ ~e2.finished
    BY <1>1, <1>9 DEF TakesData, Becomes, EncoderIs
  <2>2. e2.chunk \in Seq(Int)
    BY <2>1 DEF Wrap
  <2>3. EncoderHolds(e2, text, q, h + Len(e2.chunk))
    BY <1>3, <1>4, <1>7, <1>8, <2>1, <2>2, EncoderReads
  <2>4. Flow(text, s, d, wi2, e2, ap2)
    BY <1>7, <1>8, <2>1, <2>3 DEF Flow
  <2>5. EncoderIs(e2, ap2)
    BY <1>1, <1>3, <1>4, <2>1 DEF EncoderIs
  <2>6. AppIs(se, ap2, e2)
    BY <1>1, <1>3, <1>4, <2>1, AppTail
  <2>7. WireIs(se, net, wi2, e2)
    BY <1>1, <1>3, <2>1, WireKeeps
  <2>8. Ledger(se, s, d, wi2, e2, ap2)
    BY <1>1, <1>6, <2>1 DEF Ledger
  <2>9. Kinds(se, net, s, d, wi2, e2, ap2)
    BY <1>1, <1>3, <2>1 DEF Kinds
  <2> QED  BY <1>1, <1>5, <2>4, <2>5, <2>6, <2>7, <2>8, <2>9 DEF Sound
<1>10. CASE TakesTrailers(e, ap, wi, e2, ap2, wi2, f)
  <2>1. /\ f.kind = "trailers" /\ ap2 = Tail(ap) /\ wi2 = wi /\ e2 \in Wrap /\ e2.encodes
        /\ e2.yielded_all_data /\ e2.non_data_frame = f /\ e2.chunk = e.chunk
        /\ e2.codec = e.codec /\ e2.held = e.held /\ ~e2.read_all_data /\ ~e2.finished
    BY <1>1, <1>3, <1>10 DEF TakesTrailers, Becomes, EncoderIs
  <2>2. f = Client!Trailers /\ f # Client!None /\ f.bytes = <<>>
    BY <1>3, <2>1, FramesAre DEF Frame
  <2>3. h + Len(f.bytes) = h
    BY <2>2
  <2>4. EncoderHolds(e2, text, q, h)
    BY <1>7, <2>1, EncoderKeeps
  <2>5. Flow(text, s, d, wi2, e2, ap2)
    BY <1>7, <1>8, <2>1, <2>3, <2>4 DEF Flow
  <2>6. AppIs(se, ap2, e2) /\ Len(ap2) = 1 /\ ap2[1].kind = "none"
    BY <1>1, <1>3, <1>4, <2>1, AppTail
  <2>7. EncoderIs(e2, ap2)
    BY <1>3, <2>1, <2>2, <2>6 DEF EncoderIs
  <2>8. WireIs(se, net, wi2, e2)
    BY <1>1, <1>3, <2>1, WireKeeps
  <2>9. Ledger(se, s, d, wi2, e2, ap2)
    BY <1>1, <1>6, <2>1, <2>2 DEF Ledger
  <2>10. Kinds(se, net, s, d, wi2, e2, ap2)
    BY <1>1, <1>3, <2>1 DEF Kinds
  <2> QED  BY <1>1, <1>5, <2>5, <2>6, <2>7, <2>8, <2>9, <2>10 DEF Sound
<1>11. CASE TakesEnd(e, ap, wi, e2, ap2, wi2, f)
  <2>1. /\ f.kind = "none" /\ ap2 = ap /\ wi2 = wi /\ e2 \in Wrap /\ e2.encodes
        /\ e2.yielded_all_data /\ e2.non_data_frame = e.non_data_frame /\ e2.chunk = e.chunk
        /\ e2.codec = e.codec /\ e2.held = e.held /\ ~e2.read_all_data /\ ~e2.finished
    BY <1>1, <1>3, <1>11 DEF TakesEnd, Becomes, EncoderIs
  <2>2. Flow(text, s, d, wi2, e2, ap2)
    BY <1>1, <2>1, FlowKeepsEncoder
  <2>3. AppIs(se, ap2, e2) /\ Len(ap2) = 1 /\ ap2[1].kind = "none"
    BY <1>1, <1>3, <1>4, <2>1, AppTail
  <2>4. EncoderIs(e2, ap2)
    BY <1>3, <1>4, <2>1, <2>3 DEF EncoderIs
  <2>5. WireIs(se, net, wi2, e2)
    BY <1>1, <1>3, <2>1, WireKeeps
  <2>6. Ledger(se, s, d, wi2, e2, ap2)
    BY <1>1, <2>1 DEF Ledger
  <2>7. Kinds(se, net, s, d, wi2, e2, ap2)
    BY <1>1, <1>3, <2>1 DEF Kinds
  <2> QED  BY <1>1, <1>5, <2>2, <2>3, <2>4, <2>5, <2>6, <2>7 DEF Sound
<1>12. CASE TakesError(e, ap, wi, e2, ap2, wi2, f)
  <2>1. /\ f.kind = "error" /\ ap2 = Tail(ap) /\ wi2 = Append(wi, f) /\ e2 \in Wrap /\ e2.encodes
        /\ ~e2.yielded_all_data /\ e2.non_data_frame = e.non_data_frame /\ e2.chunk = e.chunk
        /\ e2.codec = e.codec /\ e2.held = e.held /\ ~e2.read_all_data /\ e2.finished
    BY <1>1, <1>3, <1>12 DEF TakesError, Becomes, EncoderIs
  <2>2. f.bytes = <<>> /\ Len(f.bytes) = 0 /\ h + Len(f.bytes) = h /\ q + Len(f.bytes) = q
    <3>1. f.bytes = <<>>
      BY <1>3, <2>1 DEF Frame
    <3>2. Len(f.bytes) = 0
      BY <3>1
    <3> QED  BY <3>1, <3>2
  <2>3. EncoderHolds(e2, text, q, h)
    BY <1>7, <2>1, EncoderKeeps
  <2>4. Chain(wi2, Coded(text), p, q) /\ wi2 \in Seq(Frame)
    <3>1. Segment(f.bytes, Coded(text), q)
      <4>1. q <= Len(Coded(text)) /\ Coded(text) \in Seq(Int)
        BY <1>1, <1>4, <1>7, EncoderBound, CodedIs DEF Kinds
      <4> QED  BY <2>2, <4>1, SegmentEmpty
    <3>2. f.kind \notin {"trailers", "none"} /\ Coded(text) \in Seq(Int)
      BY <1>4, <2>1, CodedIs
    <3>3. /\ Append(wi, f) \in Seq(Frame)
          /\ Chain(Append(wi, f), Coded(text), p, q + Len(f.bytes))
      BY <1>3, <1>4, <1>7, <3>1, <3>2, ChainAppend
    <3> QED  BY <2>1, <2>2, <3>3
  <2>5. Flow(text, s, d, wi2, e2, ap2)
    BY <1>7, <1>8, <2>1, <2>2, <2>3, <2>4 DEF Flow
  <2>6. AppIs(se, ap2, e2) /\ Has(se, "error")
    BY <1>1, <1>3, <1>4, <2>1, AppTail
  <2>7. EncoderIs(e2, ap2)
    BY <1>3, <1>4, <2>1 DEF EncoderIs
  <2>8. WireIs(se, net, wi2, e2)
    BY <1>1, <1>3, <1>4, <2>1, <2>6, WireAppend DEF Failed
  <2>9. Ledger(se, s, d, wi2, e2, ap2)
    <3>1. Has(wi2, "trailers") <=> Has(wi, "trailers")
      BY <1>3, <1>4, <2>1, HasAppend
    <3> QED  BY <1>1, <1>6, <2>1, <3>1 DEF Ledger
  <2>10. Kinds(se, net, s, d, wi2, e2, ap2)
    BY <1>1, <1>3, <2>1, <2>4 DEF Kinds
  <2> QED  BY <1>1, <1>5, <2>5, <2>6, <2>7, <2>8, <2>9, <2>10 DEF Sound
<1> QED  BY <1>2, <1>9, <1>10, <1>11, <1>12

(* A step that leaves the response and the wire alone.                     *)
LEMMA SendQuietly ==
  ASSUME NEW se, NEW net, NEW text, NEW s, NEW d, NEW wi, NEW e, NEW ap, NEW e2,
         Sound(se, net, text, s, d, wi, e, ap), net = "up", ~e.finished, e2 \in Wrap,
         e2.non_data_frame = e.non_data_frame, EncoderIs(e2, ap),
         Flow(text, s, d, wi, e2, ap)
  PROVE  Sound(se, net, text, s, d, wi, e2, ap)
<1>1. AppIs(se, ap, e2)
  BY DEF Sound, AppIs
<1>2. WireIs(se, net, wi, e2)
  BY WireKeeps DEF Sound
<1>3. SeenIs(se, net, s, d, wi, e2)
  BY SeenKeeps DEF Sound
<1>4. Ledger(se, s, d, wi, e2, ap)
  BY DEF Sound, Ledger
<1> QED  BY <1>1, <1>2, <1>3, <1>4 DEF Sound, Kinds

\* The encoder encodes a byte.
LEMMA SendEncodes ==
  ASSUME NEW se, NEW net, NEW text, NEW s, NEW d, NEW wi, NEW e, NEW ap, NEW e2,
         Sound(se, net, text, s, d, wi, e, ap), net = "up", Encodes(e, e2)
  PROVE  Sound(se, net, text, s, d, wi, e2, ap)
<1>1. /\ e \in Wrap /\ IsText(text) /\ Flow(text, s, d, wi, e, ap) /\ EncoderIs(e, ap)
  BY DEF Sound, Kinds
<1>2. /\ ~e.finished /\ e.codec = "open" /\ e2 \in Wrap /\ e2.encodes
      /\ e2.yielded_all_data = e.yielded_all_data /\ e2.non_data_frame = e.non_data_frame
      /\ e2.codec = e.codec /\ e2.read_all_data = e.read_all_data
  BY <1>1 DEF Encodes, Becomes, EncoderIs
<1>3. Flow(text, s, d, wi, e2, ap)
  <2>1. PICK a \in Nat, p \in Nat, q \in Nat, h \in Nat :
          /\ Chain(s, text, 0, a) /\ DecoderHolds(d, text, a, p)
          /\ Chain(wi, Coded(text), p, q) /\ EncoderHolds(e, text, q, h)
          /\ Chain(ap, text, h, Len(text))
    BY <1>1 DEF Flow
  <2>2. EncoderHolds(e2, text, q, h)
    BY <1>1, <1>2, <2>1, EncoderEncodes
  <2> QED  BY <2>1, <2>2 DEF Flow
<1>4. EncoderIs(e2, ap)
  BY <1>1, <1>2 DEF EncoderIs
<1> QED  BY <1>2, <1>3, <1>4, SendQuietly

\* The encoder writes the end mark once the response has ended.
LEMMA SendMarks ==
  ASSUME NEW se, NEW net, NEW text, NEW s, NEW d, NEW wi, NEW e, NEW ap, NEW e2,
         Sound(se, net, text, s, d, wi, e, ap), net = "up", Marks(e, e2)
  PROVE  Sound(se, net, text, s, d, wi, e2, ap)
<1>1. /\ e \in Wrap /\ IsText(text) /\ Flow(text, s, d, wi, e, ap) /\ EncoderIs(e, ap)
      /\ ap \in Seq(Frame) /\ text \in Seq(Int)
  BY DEF Sound, Kinds, IsText
<1>2. /\ ~e.finished /\ e.codec = "open" /\ e.yielded_all_data /\ e2 \in Wrap /\ e2.encodes
      /\ e2.yielded_all_data /\ e2.non_data_frame = e.non_data_frame
      /\ e2.codec = "done" /\ ~e2.read_all_data
  BY <1>1 DEF Marks, Becomes, EncoderIs
<1>3. Flow(text, s, d, wi, e2, ap)
  <2>1. PICK a \in Nat, p \in Nat, q \in Nat, h \in Nat :
          /\ Chain(s, text, 0, a) /\ DecoderHolds(d, text, a, p)
          /\ Chain(wi, Coded(text), p, q) /\ EncoderHolds(e, text, q, h)
          /\ Chain(ap, text, h, Len(text))
    BY <1>1 DEF Flow
  <2>2. h = Len(text)
    <3>1. ap # <<>> /\ Head(ap).kind = "none"
      <4>1. Len(ap) = 1 /\ ap[1].kind = "none"
        BY <1>1, <1>2 DEF EncoderIs
      <4>2. ap # <<>>
        BY <4>1
      <4> QED  BY <1>1, <4>1, <4>2, HeadTailProperties
    <3> QED  BY <1>1, <2>1, <3>1, ChainHead
  <2>3. EncoderHolds(e2, text, q, h)
    BY <1>1, <1>2, <2>1, <2>2, EncoderMarks
  <2> QED  BY <2>1, <2>3 DEF Flow
<1>4. EncoderIs(e2, ap)
  BY <1>1, <1>2 DEF EncoderIs
<1> QED  BY <1>2, <1>3, <1>4, SendQuietly

\* The encoder completes.
LEMMA SendCompletes ==
  ASSUME NEW se, NEW net, NEW text, NEW s, NEW d, NEW wi, NEW e, NEW ap, NEW e2,
         Sound(se, net, text, s, d, wi, e, ap), net = "up", Completes(e, e2)
  PROVE  Sound(se, net, text, s, d, wi, e2, ap)
<1>1. /\ e \in Wrap /\ IsText(text) /\ Flow(text, s, d, wi, e, ap) /\ EncoderIs(e, ap)
  BY DEF Sound, Kinds
<1>2. /\ ~e.finished /\ e2 \in Wrap /\ e2.encodes
      /\ e2.yielded_all_data = e.yielded_all_data /\ e2.non_data_frame = e.non_data_frame
      /\ e2.codec = e.codec /\ e2.held = e.held /\ e2.chunk = e.chunk
      /\ e2.codec = "done" /\ e2.held = <<>>
  BY <1>1 DEF Completes, Becomes, EncoderIs
<1>3. Flow(text, s, d, wi, e2, ap)
  BY <1>1, <1>2, FlowKeepsEncoder
<1>4. EncoderIs(e2, ap)
  BY <1>1, <1>2 DEF EncoderIs
<1> QED  BY <1>2, <1>3, <1>4, SendQuietly

(* A step that puts a frame on the wire.                                   *)
LEMMA SendFrame ==
  ASSUME NEW se, NEW net, NEW text, NEW s, NEW d, NEW wi, NEW e, NEW ap, NEW e2, NEW f \in Frame,
         Sound(se, net, text, s, d, wi, e, ap), net = "up", ~e.finished, e2 \in Wrap,
         EncoderIs(e2, ap), Flow(text, s, d, Append(wi, f), e2, ap),
         f.kind # "error", f.kind = "none" => Ended(e2),
         (f.kind = "trailers" \/ e2.non_data_frame # Client!None) <=>
           e.non_data_frame # Client!None
  PROVE  Sound(se, net, text, s, d, Append(wi, f), e2, ap)
<1>1. AppIs(se, ap, e2)
  BY DEF Sound, AppIs
<1>2. wi \in Seq(Frame) /\ Append(wi, f) \in Seq(Frame)
  BY AppendProperties DEF Sound, Kinds
<1>3. WireIs(se, net, Append(wi, f), e2)
  <2>1. net # "failed" /\ WireIs(se, net, wi, e)
    BY DEF Sound
  <2> QED  BY <1>2, <2>1, WireAppend
<1>4. SeenIs(se, net, s, d, Append(wi, f), e2)
  BY SeenKeeps DEF Sound
<1>5. Has(Append(wi, f), "trailers") <=> Has(wi, "trailers") \/ f.kind = "trailers"
  BY <1>2, HasAppend
<1>6. Ledger(se, s, d, Append(wi, f), e2, ap)
  BY <1>5 DEF Sound, Ledger
<1> QED  BY <1>1, <1>2, <1>3, <1>4, <1>6 DEF Sound, Kinds

\* The encoder emits what it has ready.
LEMMA SendEmits ==
  ASSUME NEW se, NEW net, NEW text, NEW s, NEW d, NEW wi, NEW e, NEW ap, NEW wi2, NEW e2,
         Sound(se, net, text, s, d, wi, e, ap), net = "up", Emits(e, wi, e2, wi2)
  PROVE  Sound(se, net, text, s, d, wi2, e2, ap)
<1>1. /\ e \in Wrap /\ IsText(text) /\ Flow(text, s, d, wi, e, ap) /\ EncoderIs(e, ap)
      /\ wi \in Seq(Frame) /\ text \in Seq(Int) /\ e.held \in Seq(Int)
      /\ Coded(text) \in Seq(Int)
  BY CodedIs DEF Sound, Kinds, IsText, Wrap
<1>2. PICK n \in 1..Len(e.held) :
        /\ wi2 = Append(wi, Client!Data(SubSeq(e.held, 1, n)))
        /\ Becomes(e, e.yielded_all_data, e.non_data_frame, e.chunk, e.codec,
                   SubSeq(e.held, n + 1, Len(e.held)), FALSE, FALSE, e2)
  BY DEF Emits
<1>3. /\ ~e.finished /\ e2 \in Wrap /\ e2.encodes
      /\ e2.yielded_all_data = e.yielded_all_data /\ e2.non_data_frame = e.non_data_frame
      /\ e2.codec = e.codec /\ e2.chunk = e.chunk /\ ~e2.read_all_data
      /\ e2.held = SubSeq(e.held, n + 1, Len(e.held))
  BY <1>1, <1>2 DEF Emits, Becomes, EncoderIs
<1> DEFINE b == SubSeq(e.held, 1, n)  f == Client!Data(b)
<1>4. PICK a \in Nat, p \in Nat, q \in Nat, h \in Nat :
        /\ Chain(s, text, 0, a) /\ DecoderHolds(d, text, a, p)
        /\ Chain(wi, Coded(text), p, q) /\ EncoderHolds(e, text, q, h)
        /\ Chain(ap, text, h, Len(text))
  BY <1>1 DEF Flow
<1>5. /\ EncoderHolds(e2, text, q + n, h) /\ b \in Seq(Int) /\ Len(b) = n
      /\ Segment(b, Coded(text), q)
  BY <1>1, <1>3, <1>4, EncoderEmits
<1>6. f \in Frame /\ f.kind = "data" /\ f.bytes = b
  BY <1>5, FramesAre
<1> HIDE DEF b, f
<1>7. q + n \in Nat /\ Chain(Append(wi, f), Coded(text), p, q + n)
  <2>1. Segment(f.bytes, Coded(text), q) /\ Len(f.bytes) = n /\ f.kind \notin {"trailers", "none"}
    BY <1>5, <1>6
  <2> QED  BY <1>1, <1>4, <1>6, <2>1, ChainAppend
<1>8. Flow(text, s, d, Append(wi, f), e2, ap)
  BY <1>4, <1>5, <1>7 DEF Flow
<1>9. EncoderIs(e2, ap)
  BY <1>1, <1>3 DEF EncoderIs
<1>10. Sound(se, net, text, s, d, Append(wi, f), e2, ap)
  <2>1. f.kind # "error" /\ f.kind # "none" /\ f.kind # "trailers"
    BY <1>6
  <2> QED  BY <1>3, <1>6, <1>8, <1>9, <2>1, SendFrame
<1> QED  BY <1>2, <1>10 DEF b, f

\* The encoder passes on the frame it had set aside.
LEMMA SendSetsAside ==
  ASSUME NEW se, NEW net, NEW text, NEW s, NEW d, NEW wi, NEW e, NEW ap, NEW wi2, NEW e2,
         Sound(se, net, text, s, d, wi, e, ap), net = "up", SetsAside(e, wi, e2, wi2)
  PROVE  Sound(se, net, text, s, d, wi2, e2, ap)
<1>1. /\ e \in Wrap /\ IsText(text) /\ Flow(text, s, d, wi, e, ap) /\ EncoderIs(e, ap)
      /\ wi \in Seq(Frame) /\ text \in Seq(Int) /\ Len(text) \in Nat
      /\ Coded(text) \in Seq(Int) /\ Len(Coded(text)) = Len(text) + 1
  BY CodedIs DEF Sound, Kinds, IsText
<1> DEFINE f == e.non_data_frame
<1>2. /\ ~e.finished /\ e2 \in Wrap /\ e2.encodes /\ wi2 = Append(wi, f)
      /\ e2.yielded_all_data /\ e.yielded_all_data /\ e2.non_data_frame = Client!None
      /\ e2.codec = e.codec /\ e2.chunk = e.chunk /\ e2.held = e.held
      /\ e.read_all_data /\ e.codec = "done" /\ e.held = <<>>
      /\ f # Client!None
  BY <1>1 DEF SetsAside, Becomes, EncoderIs
<1>3. f \in Frame /\ f = Client!Trailers /\ f.kind = "trailers" /\ f.bytes = <<>>
  <2>1. f = Client!Trailers
    BY <1>1, <1>2 DEF EncoderIs
  <2>2. Client!Trailers \in Frame /\ Client!Trailers.kind = "trailers"
    BY FramesAre
  <2> HIDE DEF f
  <2>3. f.bytes = <<>>
    BY <2>1, <2>2 DEF Frame
  <2> QED  BY <2>1, <2>2, <2>3
<1>4. PICK a \in Nat, p \in Nat, q \in Nat, h \in Nat :
        /\ Chain(s, text, 0, a) /\ DecoderHolds(d, text, a, p)
        /\ Chain(wi, Coded(text), p, q) /\ EncoderHolds(e, text, q, h)
        /\ Chain(ap, text, h, Len(text))
  BY <1>1 DEF Flow
<1>5. q = Len(Coded(text))
  BY <1>1, <1>2, <1>4 DEF EncoderHolds
<1>6. EncoderHolds(e2, text, q, h)
  BY <1>2, <1>4, EncoderKeeps
<1> HIDE DEF f
<1>7. Chain(Append(wi, f), Coded(text), p, q)
  <2>1. Segment(f.bytes, Coded(text), q)
    BY <1>1, <1>3, <1>5, SegmentEmpty
  <2>2. Chain(Append(wi, f), Coded(text), p, q + Len(f.bytes))
    BY <1>1, <1>3, <1>4, <1>5, <2>1, ChainAppend
  <2>3. q + Len(f.bytes) = q
    BY <1>3
  <2> QED  BY <2>2, <2>3
<1>8. Flow(text, s, d, Append(wi, f), e2, ap)
  BY <1>4, <1>6, <1>7 DEF Flow
<1>9. EncoderIs(e2, ap)
  BY <1>1, <1>2 DEF EncoderIs
<1>10. Sound(se, net, text, s, d, Append(wi, f), e2, ap)
  <2>1. f.kind # "error" /\ f.kind # "none" /\ f.kind = "trailers" /\ e.non_data_frame # Client!None
    BY <1>2, <1>3 DEF f
  <2> QED  BY <1>2, <1>3, <1>8, <1>9, <2>1, SendFrame
<1> QED  BY <1>2, <1>10

\* The encoder polls the response again behind its data.
LEMMA SendPolls ==
  ASSUME NEW se, NEW net, NEW text, NEW s, NEW d, NEW wi, NEW e, NEW ap,
         NEW wi2, NEW e2, NEW ap2,
         Sound(se, net, text, s, d, wi, e, ap), net = "up", Polls(e, ap, wi, e2, ap2, wi2)
  PROVE  Sound(se, net, text, s, d, wi2, e2, ap2)
<1>1. /\ e \in Wrap /\ IsText(text) /\ Flow(text, s, d, wi, e, ap) /\ EncoderIs(e, ap)
      /\ wi \in Seq(Frame) /\ ap \in Seq(Frame) /\ text \in Seq(Int) /\ Len(text) \in Nat
      /\ Coded(text) \in Seq(Int) /\ Len(Coded(text)) = Len(text) + 1
  BY CodedIs DEF Sound, Kinds, IsText
<1>2. PICK f : /\ ap # <<>> /\ f = Head(ap) /\ f \in Frame
               /\ ap2 = IF f.kind = "none" THEN ap ELSE Tail(ap)
               /\ wi2 = Append(wi, Tailed(f))
               /\ Becomes(e, e.yielded_all_data \/ f.kind \in {"trailers", "none"},
                          e.non_data_frame, e.chunk, e.codec, e.held, e.read_all_data,
                          Tailed(f) \in {Client!Error, Client!None}, e2)
  BY DEF Polls
<1>3. /\ ~e.finished /\ e.read_all_data /\ e.codec = "done" /\ e.held = <<>>
      /\ e.yielded_all_data /\ e.non_data_frame = Client!None
  BY <1>1 DEF Polls, EncoderIs
<1>4. f.kind = "none" /\ f = Client!None
  <2>1. f.kind = "none"
    BY <1>1, <1>2, <1>3, HeadTailProperties DEF EncoderIs
  <2> QED  BY <1>2, <2>1, FramesAre
<1>5. Tailed(f) = f /\ ap2 = ap /\ f.bytes = <<>>
  <2>1. Tailed(f) = f
    BY <1>4 DEF Tailed
  <2> QED  BY <1>2, <1>4, <2>1 DEF Frame
<1>6. /\ wi2 = Append(wi, f) /\ e2 \in Wrap /\ e2.encodes /\ e2.yielded_all_data
      /\ e2.non_data_frame = Client!None /\ e2.chunk = e.chunk /\ e2.codec = e.codec
      /\ e2.held = e.held /\ e2.read_all_data /\ e2.finished
  BY <1>1, <1>2, <1>3, <1>4, <1>5 DEF Becomes, EncoderIs
<1>7. PICK a \in Nat, p \in Nat, q \in Nat, h \in Nat :
        /\ Chain(s, text, 0, a) /\ DecoderHolds(d, text, a, p)
        /\ Chain(wi, Coded(text), p, q) /\ EncoderHolds(e, text, q, h)
        /\ Chain(ap, text, h, Len(text))
  BY <1>1 DEF Flow
<1>8. q = Len(Coded(text))
  BY <1>1, <1>3, <1>7 DEF EncoderHolds
<1>9. EncoderHolds(e2, text, q, h)
  BY <1>6, <1>7, EncoderKeeps
<1>10. Chain(Append(wi, f), Coded(text), p, q)
  <2>1. Segment(f.bytes, Coded(text), q)
    BY <1>1, <1>5, <1>8, SegmentEmpty
  <2>2. Chain(Append(wi, f), Coded(text), p, q + Len(f.bytes))
    BY <1>1, <1>2, <1>7, <1>8, <2>1, ChainAppend
  <2>3. q + Len(f.bytes) = q
    BY <1>5
  <2> QED  BY <2>2, <2>3
<1>11. Flow(text, s, d, Append(wi, f), e2, ap)
  BY <1>7, <1>9, <1>10 DEF Flow
<1>12. EncoderIs(e2, ap)
  BY <1>1, <1>3, <1>6 DEF EncoderIs
<1>13. Sound(se, net, text, s, d, Append(wi, f), e2, ap)
  <2>1. /\ f.kind # "error" /\ f.kind # "trailers" /\ e.non_data_frame = Client!None
        /\ e2.non_data_frame = Client!None /\ Ended(e2)
    BY <1>3, <1>4, <1>6 DEF Ended
  <2> QED  BY <1>2, <1>3, <1>6, <1>11, <1>12, <2>1, SendFrame
<1> QED  BY <1>5, <1>6, <1>13

-----------------------------------------------------------------------------
(* The steps of the decoder.                                               *)
LEMMA FlowKeepsDecoder ==
  ASSUME NEW text, NEW s, NEW d, NEW d2, NEW wi, NEW e, NEW ap, Flow(text, s, d, wi, e, ap),
         d2.held = d.held, d2.chunk = d.chunk, d2.codec = "open" <=> d.codec = "open"
  PROVE  Flow(text, s, d2, wi, e, ap)
<1>1. PICK a \in Nat, p \in Nat, q \in Nat, h \in Nat :
        /\ Chain(s, text, 0, a) /\ DecoderHolds(d, text, a, p)
        /\ Chain(wi, Coded(text), p, q) /\ EncoderHolds(e, text, q, h)
        /\ Chain(ap, text, h, Len(text))
  BY DEF Flow
<1>2. DecoderHolds(d2, text, a, p)
  BY <1>1, DecoderKeeps
<1> QED  BY <1>1, <1>2 DEF Flow

\* The wire without its first frame.
LEMMA WireTail ==
  ASSUME NEW se, NEW net, NEW wi \in Seq(Frame), NEW e, WireIs(se, net, wi, e), wi # <<>>
  PROVE  /\ WireIs(se, net, Tail(wi), e)
         /\ Head(wi).kind = "error" => Failed(se, net)
         /\ Head(wi).kind = "none" => Ended(e) /\ ~Has(wi, "trailers")
<1> DEFINE t == Tail(wi)  n == Len(wi)
<1>1. /\ n \in Nat /\ n > 0 /\ Len(t) = n - 1 /\ Head(wi) = wi[1]
      /\ \A i \in 1..(n - 1) : t[i] = wi[i + 1]
  BY HeadTailProperties, LenProperties
<1>2. /\ \A i \in 1..n :
           /\ wi[i].kind = "none" => i = n /\ Ended(e)
           /\ wi[i].kind = "error" =>
                i = n /\ Failed(se, net) /\ (e.finished \/ net = "failed")
      /\ net = "failed" => ~e.finished
  BY DEF WireIs
<1> HIDE DEF t, n
<1>3. ASSUME NEW i \in 1..(n - 1)
      PROVE  /\ t[i].kind = "none" => i = n - 1 /\ Ended(e)
             /\ t[i].kind = "error" =>
                  i = n - 1 /\ Failed(se, net) /\ (e.finished \/ net = "failed")
  <2>1. i + 1 \in 1..n /\ t[i] = wi[i + 1] /\ (i + 1 = n => i = n - 1)
    BY <1>1
  <2> QED  BY <1>2, <2>1
<1>4. WireIs(se, net, t, e)
  BY <1>1, <1>2, <1>3 DEF WireIs
<1>5. 1 \in 1..n
  BY <1>1
<1>6. ASSUME wi[1].kind = "none" PROVE ~Has(wi, "trailers")
  <2>1. n = 1
    BY <1>2, <1>5, <1>6
  <2>2. \A i \in 1..n : i = 1
    BY <2>1
  <2> QED  BY <1>6, <2>2 DEF Has, n
<1> QED  BY <1>1, <1>2, <1>4, <1>5, <1>6 DEF t

(* A step that leaves the wire and the caller alone.                       *)
LEMMA ReceiveQuietly ==
  ASSUME NEW se, NEW net, NEW text, NEW s, NEW d, NEW wi, NEW e, NEW ap, NEW d2,
         Sound(se, net, text, s, d, wi, e, ap), ~d.finished, d2 \in Wrap,
         d2.non_data_frame = d.non_data_frame, DecoderIs(d2),
         Flow(text, s, d2, wi, e, ap)
  PROVE  Sound(se, net, text, s, d2, wi, e, ap)
<1>1. SeenIs(se, net, s, d2, wi, e)
  BY DEF Sound, SeenIs, Ended
<1>2. Ledger(se, s, d2, wi, e, ap)
  BY DEF Sound, Ledger
<1> QED  BY <1>1, <1>2 DEF Sound, Kinds

\* The decoder decodes a byte; the wire gives it none that does not decode.
LEMMA ReceiveDecodes ==
  ASSUME NEW se, NEW net, NEW text, NEW s, NEW d, NEW wi, NEW e, NEW ap, NEW d2,
         Sound(se, net, text, s, d, wi, e, ap), Decodes(d, d2)
  PROVE  Sound(se, net, text, s, d2, wi, e, ap)
<1>1. /\ d \in Wrap /\ IsText(text) /\ Flow(text, s, d, wi, e, ap) /\ DecoderIs(d)
  BY DEF Sound, Kinds
<1>2. PICK a \in Nat, p \in Nat, q \in Nat, h \in Nat :
        /\ Chain(s, text, 0, a) /\ DecoderHolds(d, text, a, p)
        /\ Chain(wi, Coded(text), p, q) /\ EncoderHolds(e, text, q, h)
        /\ Chain(ap, text, h, Len(text))
  BY <1>1 DEF Flow
<1>3. DecoderHolds(d2, text, a, p) /\ d.codec = "open"
  BY <1>1, <1>2, DecoderDecodes
<1>4. PICK co, he :
        /\ co \in {"open", "between", "done"}
        /\ Becomes(d, d.yielded_all_data, d.non_data_frame, Tail(d.chunk), co, he,
                   d.read_all_data, FALSE, d2)
  BY <1>1, <1>2, DecoderDecodes
<1>5. Flow(text, s, d2, wi, e, ap)
  BY <1>2, <1>3 DEF Flow
<1>6. /\ ~d.finished /\ d2 \in Wrap /\ d2.encodes = d.encodes
      /\ d2.yielded_all_data = d.yielded_all_data /\ d2.non_data_frame = d.non_data_frame
      /\ d2.codec \in {"open", "between", "done"} /\ d2.read_all_data = d.read_all_data
  BY <1>4 DEF Decodes, Becomes
<1>7. DecoderIs(d2)
  BY <1>1, <1>3, <1>6 DEF DecoderIs
<1> QED  BY <1>5, <1>6, <1>7, ReceiveQuietly

\* The decoder meets the end of its input.
LEMMA ReceiveCloses ==
  ASSUME NEW se, NEW net, NEW text, NEW s, NEW d, NEW wi, NEW e, NEW ap, NEW d2,
         Sound(se, net, text, s, d, wi, e, ap), Closes(d, d2)
  PROVE  Sound(se, net, text, s, d2, wi, e, ap)
<1>1. /\ d \in Wrap /\ Flow(text, s, d, wi, e, ap) /\ DecoderIs(d)
  BY DEF Sound, Kinds
<1>2. d.codec = "between" /\ ~d.finished /\ d.yielded_all_data
  BY <1>1 DEF Closes, DecoderIs
<1>3. /\ d2 \in Wrap /\ d2.encodes = d.encodes /\ d2.held = d.held /\ d2.chunk = d.chunk
      /\ d2.yielded_all_data /\ d2.non_data_frame = d.non_data_frame
      /\ d2.codec = "done" /\ ~d2.read_all_data
  BY <1>2 DEF Closes, Becomes
<1>4. Flow(text, s, d2, wi, e, ap)
  BY <1>1, <1>2, <1>3, FlowKeepsDecoder
<1>5. DecoderIs(d2)
  BY <1>1, <1>2, <1>3 DEF DecoderIs
<1> QED  BY <1>2, <1>3, <1>4, <1>5, ReceiveQuietly

\* The decoder completes.
LEMMA ReceiveCompletes ==
  ASSUME NEW se, NEW net, NEW text, NEW s, NEW d, NEW wi, NEW e, NEW ap, NEW d2,
         Sound(se, net, text, s, d, wi, e, ap), Completes(d, d2)
  PROVE  Sound(se, net, text, s, d2, wi, e, ap)
<1>1. /\ d \in Wrap /\ Flow(text, s, d, wi, e, ap) /\ DecoderIs(d)
  BY DEF Sound, Kinds
<1>2. /\ ~d.finished /\ d2 \in Wrap /\ d2.encodes = d.encodes
      /\ d2.yielded_all_data = d.yielded_all_data /\ d2.non_data_frame = d.non_data_frame
      /\ d2.codec = d.codec /\ d2.held = d.held /\ d2.chunk = d.chunk
      /\ d2.codec = "done" /\ d2.held = <<>>
  BY DEF Completes, Becomes
<1>3. Flow(text, s, d2, wi, e, ap)
  BY <1>1, <1>2, FlowKeepsDecoder
<1>4. DecoderIs(d2)
  BY <1>1, <1>2 DEF DecoderIs
<1> QED  BY <1>2, <1>3, <1>4, ReceiveQuietly

\* The decoder emits what it has ready.
LEMMA ReceiveEmits ==
  ASSUME NEW se, NEW net, NEW text, NEW s, NEW d, NEW wi, NEW e, NEW ap, NEW s2, NEW d2,
         Sound(se, net, text, s, d, wi, e, ap), Emits(d, s, d2, s2)
  PROVE  Sound(se, net, text, s2, d2, wi, e, ap)
<1>1. /\ d \in Wrap /\ IsText(text) /\ Flow(text, s, d, wi, e, ap) /\ DecoderIs(d)
      /\ s \in Seq(Frame) /\ text \in Seq(Int) /\ d.held \in Seq(Int)
  BY DEF Sound, Kinds, IsText, Wrap
<1>2. PICK n \in 1..Len(d.held) :
        /\ s2 = Append(s, Client!Data(SubSeq(d.held, 1, n)))
        /\ Becomes(d, d.yielded_all_data, d.non_data_frame, d.chunk, d.codec,
                   SubSeq(d.held, n + 1, Len(d.held)), FALSE, FALSE, d2)
  BY DEF Emits
<1>3. /\ ~d.finished /\ d2 \in Wrap /\ d2.encodes = d.encodes
      /\ d2.yielded_all_data = d.yielded_all_data /\ d2.non_data_frame = d.non_data_frame
      /\ d2.codec = d.codec /\ d2.chunk = d.chunk /\ ~d2.read_all_data
      /\ d2.held = SubSeq(d.held, n + 1, Len(d.held))
  BY <1>2 DEF Emits, Becomes
<1> DEFINE b == SubSeq(d.held, 1, n)  f == Client!Data(b)
<1>4. PICK a \in Nat, p \in Nat, q \in Nat, h \in Nat :
        /\ Chain(s, text, 0, a) /\ DecoderHolds(d, text, a, p)
        /\ Chain(wi, Coded(text), p, q) /\ EncoderHolds(e, text, q, h)
        /\ Chain(ap, text, h, Len(text))
  BY <1>1 DEF Flow
<1>5. /\ DecoderHolds(d2, text, a + n, p) /\ b \in Seq(Int) /\ Len(b) = n
      /\ Segment(b, text, a)
  BY <1>1, <1>3, <1>4, DecoderEmits
<1>6. f \in Frame /\ f.kind = "data" /\ f.bytes = b
  BY <1>5, FramesAre
<1> HIDE DEF b, f
<1>7. /\ a + n \in Nat /\ Chain(Append(s, f), text, 0, a + n) /\ Append(s, f) \in Seq(Frame)
  <2>1. Segment(f.bytes, text, a) /\ Len(f.bytes) = n /\ f.kind \notin {"trailers", "none"}
    BY <1>5, <1>6
  <2> QED  BY <1>1, <1>4, <1>6, <2>1, ChainAppend
<1>8. Flow(text, Append(s, f), d2, wi, e, ap)
  BY <1>4, <1>5, <1>7 DEF Flow
<1>9. DecoderIs(d2)
  BY <1>1, <1>3 DEF DecoderIs
<1>10. /\ Has(Append(s, f), "none") <=> Has(s, "none")
       /\ Has(Append(s, f), "error") <=> Has(s, "error")
       /\ Has(Append(s, f), "trailers") <=> Has(s, "trailers")
  BY <1>1, <1>6, HasAppend
<1>11. SeenIs(se, net, Append(s, f), d2, wi, e)
  BY <1>3, <1>10 DEF Sound, SeenIs, Ended
<1>12. Ledger(se, Append(s, f), d2, wi, e, ap)
  BY <1>3, <1>10 DEF Sound, Ledger
<1>13. Sound(se, net, text, Append(s, f), d2, wi, e, ap)
  BY <1>3, <1>7, <1>8, <1>9, <1>11, <1>12 DEF Sound, Kinds
<1> QED  BY <1>2, <1>13 DEF b, f

(* A decoder without input that has got all of the encoded form has met    *)
(* the end mark.                                                           *)
LEMMA DecoderAtEnd ==
  ASSUME NEW text \in Seq(Int), NEW d \in Wrap, NEW a, NEW p, DecoderHolds(d, text, a, p),
         p = Len(Coded(text)), d.chunk = <<>>
  PROVE  d.codec # "open"
<1> DEFINE N == Len(text)
<1>1. PICK b \in Nat, c \in Nat :
        /\ Segment(d.held, text, a) /\ b = a + Len(d.held)
        /\ c = IF d.codec = "open" THEN b ELSE b + 1
        /\ p = c + Len(d.chunk)
  BY DEF DecoderHolds
<1>2. N \in Nat /\ p = N + 1 /\ Len(d.chunk) = 0
  BY CodedIs
<1>3. b <= N
  BY <1>1 DEF Segment
<1>4. c = N + 1
  BY <1>1, <1>2
<1> QED  BY <1>1, <1>2, <1>3, <1>4

(* One that has passed on everything has passed on the whole text.         *)
LEMMA DecoderIsEmpty ==
  ASSUME NEW text \in Seq(Int), NEW d \in Wrap, NEW a, NEW p, DecoderHolds(d, text, a, p),
         d.codec = "done", d.held = <<>>
  PROVE  a = Len(text) /\ p = Len(Coded(text)) /\ a \in Nat
<1> DEFINE N == Len(text)  m == Len(d.chunk)
<1>1. PICK b \in Nat, c \in Nat :
        /\ Segment(d.held, text, a) /\ b = a + Len(d.held)
        /\ c = b + 1 /\ p = c + m /\ b = N
        /\ Segment(d.chunk, Coded(text), c)
  BY DEF DecoderHolds
<1>2. N \in Nat /\ Len(Coded(text)) = N + 1 /\ Len(d.held) = 0 /\ m \in Nat
  BY CodedIs, LenProperties DEF Wrap
<1>3. a = N
  <2>1. a \in Nat
    BY <1>1 DEF Segment
  <2> QED  BY <1>1, <1>2, <2>1
<1>4. c + m <= N + 1
  BY <1>1, <1>2 DEF Segment
<1> HIDE DEF m
<1>5. m = 0
  BY <1>1, <1>2, <1>4
<1> QED  BY <1>1, <1>2, <1>3, <1>5

\* The decoder reads a frame from the wire.
LEMMA ReceiveReads ==
  ASSUME NEW se, NEW net, NEW text, NEW s, NEW d, NEW wi, NEW e, NEW ap,
         NEW s2, NEW d2, NEW wi2,
         Sound(se, net, text, s, d, wi, e, ap), Reads(d, wi, s, d2, wi2, s2)
  PROVE  Sound(se, net, text, s2, d2, wi2, e, ap)
<1>1. /\ Kinds(se, net, s, d, wi, e, ap) /\ IsText(text) /\ Flow(text, s, d, wi, e, ap)
      /\ EncoderIs(e, ap) /\ AppIs(se, ap, e) /\ WireIs(se, net, wi, e)
      /\ DecoderIs(d) /\ SeenIs(se, net, s, d, wi, e) /\ Ledger(se, s, d, wi, e, ap)
  BY DEF Sound
<1>2. PICK f : /\ Takes(d, wi, f)
               /\ \/ TakesData(d, wi, s, d2, wi2, s2, f)
                  \/ TakesTrailers(d, wi, s, d2, wi2, s2, f)
                  \/ TakesEnd(d, wi, s, d2, wi2, s2, f)
                  \/ TakesError(d, wi, s, d2, wi2, s2, f)
  BY DEF Reads
<1>3. /\ wi # <<>> /\ f = Head(wi) /\ f \in Frame /\ Tail(wi) \in Seq(Frame)
      /\ ~d.finished /\ ~d.read_all_data /\ d.chunk = <<>> /\ ~d.yielded_all_data
  BY <1>1, <1>2 DEF Takes
<1>4. /\ s \in Seq(Frame) /\ wi \in Seq(Frame) /\ d \in Wrap /\ text \in Seq(Int)
      /\ d.non_data_frame = Client!None /\ Coded(text) \in Seq(Int)
  BY <1>1, <1>3, CodedIs DEF Kinds, IsText, DecoderIs
<1>5. /\ WireIs(se, net, Tail(wi), e) /\ (f.kind = "error" => Failed(se, net))
  BY <1>1, <1>3, <1>4, WireTail
<1>6. Has(wi, "trailers") <=> f.kind = "trailers" \/ Has(Tail(wi), "trailers")
  BY <1>3, <1>4, HasTail
<1>7. PICK a \in Nat, p \in Nat, q \in Nat, h \in Nat :
        /\ Chain(s, text, 0, a) /\ DecoderHolds(d, text, a, p)
        /\ Chain(wi, Coded(text), p, q) /\ EncoderHolds(e, text, q, h)
        /\ Chain(ap, text, h, Len(text))
  BY <1>1 DEF Flow
<1>8. /\ Segment(f.bytes, Coded(text), p) /\ p + Len(f.bytes) \in Nat
      /\ Chain(Tail(wi), Coded(text), p + Len(f.bytes), q)
      /\ f.kind \in {"trailers", "none"} => p = Len(Coded(text))
  BY <1>3, <1>4, <1>7, ChainHead
<1>9. f.kind \in {"trailers", "none"} => d.codec # "open"
  BY <1>3, <1>4, <1>7, <1>8, DecoderAtEnd
<1>10. f.kind # "data" => f.bytes = <<>> /\ p + Len(f.bytes) = p
  <2>1. f.kind # "data" => f.bytes = <<>>
    BY <1>3 DEF Frame
  <2>2. Len(<<>>) = 0 /\ p + 0 = p
    OBVIOUS
  <2> QED  BY <2>1, <2>2
<1>11. CASE TakesData(d, wi, s, d2, wi2, s2, f)
  <2>1. /\ f.kind = "data" /\ wi2 = Tail(wi) /\ s2 = s /\ d2 \in Wrap /\ d2.encodes = d.encodes
        /\ ~d2.yielded_all_data /\ d2.non_data_frame = d.non_data_frame /\ d2.chunk = f.bytes
        /\ d2.codec = d.codec /\ d2.held = d.held /\ ~d2.read_all_data /\ ~d2.finished
    BY <1>11 DEF TakesData, Becomes
  <2>2. d2.chunk \in Seq(Int)
    BY <2>1 DEF Wrap
  <2>3. DecoderHolds(d2, text, a, p + Len(d2.chunk))
    BY <1>3, <1>4, <1>7, <1>8, <2>1, <2>2, DecoderReads
  <2>4. Flow(text, s2, d2, wi2, e, ap)
    BY <1>7, <1>8, <2>1, <2>3 DEF Flow
  <2>5. DecoderIs(d2)
    BY <1>1, <1>3, <1>4, <2>1 DEF DecoderIs
  <2>6. SeenIs(se, net, s2, d2, wi2, e)
    BY <1>1, <1>3, <2>1 DEF SeenIs, Ended
  <2>7. Ledger(se, s2, d2, wi2, e, ap)
    BY <1>1, <1>6, <2>1 DEF Ledger
  <2>8. Kinds(se, net, s2, d2, wi2, e, ap)
    BY <1>1, <1>3, <2>1 DEF Kinds
  <2> QED  BY <1>1, <1>5, <2>1, <2>4, <2>5, <2>6, <2>7, <2>8 DEF Sound
<1>12. CASE TakesTrailers(d, wi, s, d2, wi2, s2, f)
  <2>1. /\ f.kind = "trailers" /\ wi2 = Tail(wi) /\ s2 = s /\ d2 \in Wrap
        /\ d2.encodes = d.encodes
        /\ d2.yielded_all_data /\ d2.non_data_frame = f /\ d2.chunk = d.chunk
        /\ d2.codec = d.codec /\ d2.held = d.held /\ ~d2.read_all_data /\ ~d2.finished
    BY <1>3, <1>12 DEF TakesTrailers, Becomes
  <2>2. f = Client!Trailers /\ f # Client!None
    BY <1>3, <2>1, FramesAre
  <2>3. DecoderHolds(d2, text, a, p)
    BY <1>7, <2>1, DecoderKeeps
  <2>4. Chain(wi2, Coded(text), p, q)
    BY <1>8, <1>10, <2>1
  <2>5. Flow(text, s2, d2, wi2, e, ap)
    BY <1>7, <2>1, <2>3, <2>4 DEF Flow
  <2>6. DecoderIs(d2)
    BY <1>1, <1>9, <2>1, <2>2 DEF DecoderIs
  <2>7. SeenIs(se, net, s2, d2, wi2, e)
    BY <1>1, <1>3, <2>1 DEF SeenIs, Ended
  <2>8. Ledger(se, s2, d2, wi2, e, ap)
    BY <1>1, <1>6, <2>1, <2>2 DEF Ledger
  <2>9. Kinds(se, net, s2, d2, wi2, e, ap)
    BY <1>1, <1>3, <2>1 DEF Kinds
  <2> QED  BY <1>1, <1>5, <2>1, <2>5, <2>6, <2>7, <2>8, <2>9 DEF Sound
<1>13. CASE TakesEnd(d, wi, s, d2, wi2, s2, f)
  <2>1. /\ f.kind = "none" /\ wi2 = wi /\ s2 = s /\ d2 \in Wrap /\ d2.encodes = d.encodes
        /\ d2.yielded_all_data /\ d2.non_data_frame = d.non_data_frame /\ d2.chunk = d.chunk
        /\ d2.codec = d.codec /\ d2.held = d.held /\ ~d2.read_all_data /\ ~d2.finished
    BY <1>3, <1>13 DEF TakesEnd, Becomes
  <2>2. Flow(text, s2, d2, wi2, e, ap)
    BY <1>1, <2>1, FlowKeepsDecoder
  <2>3. DecoderIs(d2)
    BY <1>1, <1>4, <1>9, <2>1 DEF DecoderIs
  <2>4. SeenIs(se, net, s2, d2, wi2, e)
    BY <1>1, <1>3, <2>1 DEF SeenIs, Ended
  <2>5. Ledger(se, s2, d2, wi2, e, ap)
    BY <1>1, <2>1 DEF Ledger
  <2>6. Kinds(se, net, s2, d2, wi2, e, ap)
    BY <1>1, <2>1 DEF Kinds
  <2> QED  BY <1>1, <2>1, <2>2, <2>3, <2>4, <2>5, <2>6 DEF Sound
<1>14. CASE TakesError(d, wi, s, d2, wi2, s2, f)
  <2>1. /\ f.kind = "error" /\ wi2 = Tail(wi) /\ s2 = Append(s, f) /\ d2 \in Wrap
        /\ d2.encodes = d.encodes
        /\ ~d2.yielded_all_data /\ d2.non_data_frame = d.non_data_frame /\ d2.chunk = d.chunk
        /\ d2.codec = d.codec /\ d2.held = d.held /\ ~d2.read_all_data /\ d2.finished
    BY <1>3, <1>14 DEF TakesError, Becomes
  <2>2. DecoderHolds(d2, text, a, p)
    BY <1>7, <2>1, DecoderKeeps
  <2>3. Chain(wi2, Coded(text), p, q)
    BY <1>8, <1>10, <2>1
  <2>4. Chain(s2, text, 0, a) /\ s2 \in Seq(Frame)
    <3>1. Segment(f.bytes, text, a)
      <4>1. f.bytes = <<>> /\ 0 <= Len(text)
        BY <1>4, <1>10, <2>1, LenProperties
      <4>2. a <= Len(text)
        BY <1>4, <1>7, <4>1, ChainBounds
      <4> QED  BY <1>4, <4>1, <4>2, SegmentEmpty
    <3>2. f.kind \notin {"trailers", "none"}
      BY <2>1
    <3>3. Append(s, f) \in Seq(Frame) /\ Chain(Append(s, f), text, 0, a + Len(f.bytes))
      BY <1>3, <1>4, <1>7, <3>1, <3>2, ChainAppend
    <3>4. a + Len(f.bytes) = a
      BY <1>10, <2>1
    <3> QED  BY <2>1, <3>3, <3>4
  <2>5. Flow(text, s2, d2, wi2, e, ap)
    BY <1>7, <2>2, <2>3, <2>4 DEF Flow
  <2>6. DecoderIs(d2)
    BY <1>1, <1>4, <2>1 DEF DecoderIs
  <2>7. /\ Has(s2, "none") <=> Has(s, "none")
        /\ Has(s2, "trailers") <=> Has(s, "trailers")
    BY <1>3, <1>4, <2>1, HasAppend
  <2>8. SeenIs(se, net, s2, d2, wi2, e)
    BY <1>1, <1>3, <1>5, <2>1, <2>7 DEF SeenIs, Ended
  <2>9. Ledger(se, s2, d2, wi2, e, ap)
    BY <1>1, <1>6, <2>1, <2>7 DEF Ledger
  <2>10. Kinds(se, net, s2, d2, wi2, e, ap)
    BY <1>1, <1>3, <2>1, <2>4 DEF Kinds
  <2> QED  BY <1>1, <1>5, <2>1, <2>5, <2>6, <2>8, <2>9, <2>10 DEF Sound
<1> QED  BY <1>2, <1>11, <1>12, <1>13, <1>14

(* The decoder passes on the frame it had set aside: the caller gets the   *)
(* end only behind the whole text.                                         *)
LEMMA ReceiveSetsAside ==
  ASSUME NEW se, NEW net, NEW text, NEW s, NEW d, NEW wi, NEW e, NEW ap, NEW s2, NEW d2,
         Sound(se, net, text, s, d, wi, e, ap), SetsAside(d, s, d2, s2)
  PROVE  Sound(se, net, text, s2, d2, wi, e, ap)
<1>1. /\ d \in Wrap /\ IsText(text) /\ Flow(text, s, d, wi, e, ap) /\ DecoderIs(d)
      /\ s \in Seq(Frame) /\ text \in Seq(Int)
  BY DEF Sound, Kinds, IsText
<1> DEFINE f == d.non_data_frame
<1>2. /\ ~d.finished /\ d2 \in Wrap /\ d2.encodes = d.encodes /\ s2 = Append(s, f)
      /\ d2.yielded_all_data /\ d.yielded_all_data /\ d2.non_data_frame = Client!None
      /\ d2.codec = d.codec /\ d2.chunk = d.chunk /\ d2.held = d.held
      /\ d.read_all_data /\ d.codec = "done" /\ d.held = <<>>
      /\ f # Client!None
  BY <1>1 DEF SetsAside, Becomes, DecoderIs
<1>3. f \in Frame /\ f = Client!Trailers /\ f.kind = "trailers" /\ f.bytes = <<>>
  <2>1. f = Client!Trailers
    BY <1>1, <1>2 DEF DecoderIs
  <2>2. Client!Trailers \in Frame /\ Client!Trailers.kind = "trailers"
    BY FramesAre
  <2> HIDE DEF f
  <2>3. f.bytes = <<>>
    BY <2>1, <2>2 DEF Frame
  <2> QED  BY <2>1, <2>2, <2>3
<1>4. PICK a \in Nat, p \in Nat, q \in Nat, h \in Nat :
        /\ Chain(s, text, 0, a) /\ DecoderHolds(d, text, a, p)
        /\ Chain(wi, Coded(text), p, q) /\ EncoderHolds(e, text, q, h)
        /\ Chain(ap, text, h, Len(text))
  BY <1>1 DEF Flow
<1>5. a = Len(text)
  BY <1>1, <1>2, <1>4, DecoderIsEmpty
<1>6. DecoderHolds(d2, text, a, p)
  BY <1>2, <1>4, DecoderKeeps
<1> HIDE DEF f
<1>7. Chain(s2, text, 0, a) /\ s2 \in Seq(Frame)
  <2>1. Segment(f.bytes, text, a)
    BY <1>1, <1>3, <1>5, SegmentEmpty
  <2>2. Append(s, f) \in Seq(Frame) /\ Chain(Append(s, f), text, 0, a + Len(f.bytes))
    BY <1>1, <1>3, <1>4, <1>5, <2>1, ChainAppend
  <2>3. a + Len(f.bytes) = a
    BY <1>3
  <2> QED  BY <1>2, <2>2, <2>3
<1>8. Flow(text, s2, d2, wi, e, ap)
  BY <1>4, <1>6, <1>7 DEF Flow
<1>9. DecoderIs(d2)
  BY <1>1, <1>2 DEF DecoderIs
<1>10. /\ Has(s2, "none") <=> Has(s, "none")
       /\ Has(s2, "error") <=> Has(s, "error")
       /\ Has(s2, "trailers")
  BY <1>1, <1>2, <1>3, HasAppend
<1>11. SeenIs(se, net, s2, d2, wi, e)
  BY <1>2, <1>10 DEF Sound, SeenIs, Ended
<1>12. Ledger(se, s2, d2, wi, e, ap)
  BY <1>2, <1>10 DEF Sound, Ledger, f
<1> QED  BY <1>2, <1>7, <1>8, <1>9, <1>11, <1>12 DEF Sound, Kinds

\* The decoder polls the wire again behind its data.
LEMMA ReceivePolls ==
  ASSUME NEW se, NEW net, NEW text, NEW s, NEW d, NEW wi, NEW e, NEW ap,
         NEW s2, NEW d2, NEW wi2,
         Sound(se, net, text, s, d, wi, e, ap), Polls(d, wi, s, d2, wi2, s2)
  PROVE  Sound(se, net, text, s2, d2, wi2, e, ap)
<1>1. /\ Kinds(se, net, s, d, wi, e, ap) /\ IsText(text) /\ Flow(text, s, d, wi, e, ap)
      /\ EncoderIs(e, ap) /\ AppIs(se, ap, e) /\ WireIs(se, net, wi, e)
      /\ DecoderIs(d) /\ SeenIs(se, net, s, d, wi, e) /\ Ledger(se, s, d, wi, e, ap)
  BY DEF Sound
<1>2. PICK f : /\ wi # <<>> /\ f = Head(wi) /\ f \in Frame /\ Tail(wi) \in Seq(Frame)
               /\ wi2 = IF f.kind = "none" THEN wi ELSE Tail(wi)
               /\ s2 = Append(s, Tailed(f))
               /\ Becomes(d, d.yielded_all_data \/ f.kind \in {"trailers", "none"},
                          d.non_data_frame, d.chunk, d.codec, d.held, d.read_all_data,
                          Tailed(f) \in {Client!Error, Client!None}, d2)
  BY DEF Polls
<1>3. /\ ~d.finished /\ d.read_all_data /\ d.codec = "done" /\ d.held = <<>>
      /\ d.non_data_frame = Client!None
  BY <1>1 DEF Polls, DecoderIs
<1>4. /\ s \in Seq(Frame) /\ wi \in Seq(Frame) /\ d \in Wrap /\ text \in Seq(Int)
      /\ Coded(text) \in Seq(Int) /\ Len(Coded(text)) \in Nat
  BY <1>1, CodedIs, LenProperties DEF Kinds, IsText
<1>5. PICK a \in Nat, p \in Nat, q \in Nat, h \in Nat :
        /\ Chain(s, text, 0, a) /\ DecoderHolds(d, text, a, p)
        /\ Chain(wi, Coded(text), p, q) /\ EncoderHolds(e, text, q, h)
        /\ Chain(ap, text, h, Len(text))
  BY <1>1 DEF Flow
<1>6. a = Len(text) /\ p = Len(Coded(text))
  BY <1>3, <1>4, <1>5, DecoderIsEmpty
<1>7. /\ Segment(f.bytes, Coded(text), p)
      /\ Chain(Tail(wi), Coded(text), p + Len(f.bytes), q)
  BY <1>2, <1>4, <1>5, ChainHead
<1>8. f.bytes = <<>> /\ p + Len(f.bytes) = p /\ a + Len(f.bytes) = a
  <2>1. f.bytes \in Seq(Int) /\ Len(f.bytes) \in Nat
    BY <1>2, LenProperties DEF Frame
  <2>2. p + Len(f.bytes) <= p
    BY <1>6, <1>7 DEF Segment
  <2>3. Len(f.bytes) = 0
    BY <2>1, <2>2
  <2> QED  BY <2>1, <2>3, EmptySeq
<1>9. Tailed(f) = f
  BY <1>8 DEF Tailed
<1>10. /\ s2 = Append(s, f) /\ d2 \in Wrap /\ d2.encodes = d.encodes
       /\ d2.non_data_frame = Client!None /\ d2.chunk = d.chunk /\ d2.codec = "done"
       /\ d2.held = <<>> /\ d2.read_all_data
       /\ f.kind \in {"error", "none"} => d2.finished
  <2>1. f.kind \in {"error", "none"} => f \in {Client!Error, Client!None}
    BY <1>2, FramesAre
  <2> QED  BY <1>2, <1>3, <1>9, <2>1 DEF Becomes
<1>11. DecoderHolds(d2, text, a, p)
  BY <1>3, <1>5, <1>10, DecoderKeeps
<1>12. Chain(s2, text, 0, a) /\ s2 \in Seq(Frame)
  <2>1. Segment(f.bytes, text, a)
    BY <1>4, <1>6, <1>8, SegmentEmpty
  <2>2. Append(s, f) \in Seq(Frame) /\ Chain(Append(s, f), text, 0, a + Len(f.bytes))
    BY <1>2, <1>4, <1>5, <1>6, <2>1, ChainAppend
  <2> QED  BY <1>8, <1>10, <2>2
<1>13. Chain(wi2, Coded(text), p, q) /\ wi2 \in Seq(Frame)
  BY <1>2, <1>4, <1>5, <1>7, <1>8
<1>14. Flow(text, s2, d2, wi2, e, ap)
  BY <1>5, <1>11, <1>12, <1>13 DEF Flow
<1>15. DecoderIs(d2)
  BY <1>1, <1>10 DEF DecoderIs
<1>16. /\ WireIs(se, net, Tail(wi), e) /\ (f.kind = "error" => Failed(se, net))
       /\ f.kind = "none" => Ended(e) /\ ~Has(wi, "trailers")
  BY <1>1, <1>2, <1>4, WireTail
<1>17. WireIs(se, net, wi2, e)
  BY <1>1, <1>2, <1>16
<1>18. /\ Has(s2, "none") <=> Has(s, "none") \/ f.kind = "none"
       /\ Has(s2, "error") <=> Has(s, "error") \/ f.kind = "error"
       /\ Has(s2, "trailers") <=> Has(s, "trailers") \/ f.kind = "trailers"
  BY <1>2, <1>4, <1>10, HasAppend
<1>19. ~Has(s, "none")
  BY <1>1, <1>3 DEF SeenIs, Ended
<1>20. SeenIs(se, net, s2, d2, wi2, e)
  <2>1. Has(s2, "error") => Failed(se, net)
    BY <1>1, <1>16, <1>18 DEF SeenIs
  <2>2. ASSUME Has(s2, "none") PROVE Ended(d2) /\ Ended(e) /\ ~Has(wi2, "trailers")
    <3>1. f.kind = "none"
      BY <1>18, <1>19, <2>2
    <3> QED  BY <1>2, <1>10, <1>16, <3>1 DEF Ended
  <2> QED  BY <2>1, <2>2 DEF SeenIs
<1>21. Has(wi, "trailers") <=> f.kind = "trailers" \/ Has(Tail(wi), "trailers")
  BY <1>2, <1>4, HasTail
<1>22. Ledger(se, s2, d2, wi2, e, ap)
  <2>1. CASE f.kind = "none"
    BY <1>1, <1>2, <1>3, <1>10, <1>18, <2>1 DEF Ledger
  <2>2. CASE f.kind # "none"
    <3>1. wi2 = Tail(wi)
      BY <1>2, <2>2
    <3> QED  BY <1>1, <1>3, <1>10, <1>18, <1>21, <3>1 DEF Ledger
  <2> QED  BY <2>1, <2>2
<1> QED  BY <1>1, <1>10, <1>12, <1>13, <1>14, <1>15, <1>17, <1>20, <1>22 DEF Sound, Kinds

-----------------------------------------------------------------------------
(* The network: a frame without bytes is put on the wire.                  *)
LEMMA NetworkSends ==
  ASSUME NEW se, NEW net, NEW net2 \in {"up", "failed"}, NEW text, NEW s, NEW d, NEW wi, NEW e,
         NEW ap, NEW f \in Frame,
         Sound(se, net, text, s, d, wi, e, ap), net = "up", ~e.finished, f.bytes = <<>>,
         f.kind \in {"data", "error"}, f.kind = "error" => net2 = "failed"
  PROVE  Sound(se, net2, text, s, d, Append(wi, f), e, ap)
<1>1. /\ e \in Wrap /\ Flow(text, s, d, wi, e, ap) /\ wi \in Seq(Frame)
      /\ text \in Seq(Int) /\ Coded(text) \in Seq(Int) /\ WireIs(se, net, wi, e)
  BY CodedIs DEF Sound, Kinds, IsText
<1>2. PICK a \in Nat, p \in Nat, q \in Nat, h \in Nat :
        /\ Chain(s, text, 0, a) /\ DecoderHolds(d, text, a, p)
        /\ Chain(wi, Coded(text), p, q) /\ EncoderHolds(e, text, q, h)
        /\ Chain(ap, text, h, Len(text))
  BY <1>1 DEF Flow
<1>3. Chain(Append(wi, f), Coded(text), p, q) /\ Append(wi, f) \in Seq(Frame)
  <2>1. q <= Len(Coded(text))
    BY <1>1, <1>2, EncoderBound
  <2>2. Segment(f.bytes, Coded(text), q)
    BY <1>1, <2>1, SegmentEmpty
  <2>3. f.kind \notin {"trailers", "none"}
    OBVIOUS
  <2>4. /\ Append(wi, f) \in Seq(Frame)
        /\ Chain(Append(wi, f), Coded(text), p, q + Len(f.bytes))
    BY <1>1, <1>2, <2>2, <2>3, ChainAppend
  <2>5. q + Len(f.bytes) = q
    OBVIOUS
  <2> QED  BY <2>4, <2>5
<1>4. Flow(text, s, d, Append(wi, f), e, ap)
  BY <1>2, <1>3 DEF Flow
<1>5. WireIs(se, net2, Append(wi, f), e)
  BY <1>1, WireAppend DEF Failed
<1>6. SeenIs(se, net2, s, d, Append(wi, f), e)
  BY SeenKeeps DEF Sound
<1>7. Has(Append(wi, f), "trailers") <=> Has(wi, "trailers")
  BY <1>1, HasAppend
<1>8. Ledger(se, s, d, Append(wi, f), e, ap)
  BY <1>7 DEF Sound, Ledger
<1> QED  BY <1>3, <1>4, <1>5, <1>6, <1>8 DEF Sound, Kinds

-----------------------------------------------------------------------------
TripInv ==
  /\ sent \in Seq(Frame)
  /\ Sound(sent, network, Text, seen, decoder, wire, encoder, app)

\* The two WrapBody records and the frames have their types.
LEMMA TripIsTyped ==
  ASSUME TripInv
  PROVE  /\ Typed /\ encoder.encodes /\ ~decoder.encodes
         /\ encoder.codec # "failed" /\ decoder.codec # "failed"
BY DEF TripInv, Sound, Kinds, Typed, EncoderIs, DecoderIs

\* Every step of the server keeps the invariant.
LEMMA SendsIsSound ==
  ASSUME TripInv, Sends
  PROVE  TripInv'
<1> DEFINE I(wi, e, ap) == Sound(sent, network, Text, seen, decoder, wi, e, ap)
<1>1. EncoderStep(encoder, app, wire, encoder', app', wire')
  BY TripIsTyped, ServerSteps DEF Sends
<1>2. I(wire, encoder, app) /\ network = "up"
  BY DEF TripInv, Sends
<1>3. I(wire', encoder', app')
  <2>1. CASE Reads(encoder, app, wire, encoder', app', wire')
    BY <1>2, <2>1, SendReads
  <2>2. CASE Encodes(encoder, encoder') /\ app' = app /\ wire' = wire
    BY <1>2, <2>2, SendEncodes
  <2>3. CASE Marks(encoder, encoder') /\ app' = app /\ wire' = wire
    BY <1>2, <2>3, SendMarks
  <2>4. CASE Emits(encoder, wire, encoder', wire') /\ app' = app
    BY <1>2, <2>4, SendEmits
  <2>5. CASE Completes(encoder, encoder') /\ app' = app /\ wire' = wire
    BY <1>2, <2>5, SendCompletes
  <2>6. CASE SetsAside(encoder, wire, encoder', wire') /\ app' = app
    BY <1>2, <2>6, SendSetsAside
  <2>7. CASE Polls(encoder, app, wire, encoder', app', wire')
    BY <1>2, <2>7, SendPolls
  <2> QED  BY <1>1, <2>1, <2>2, <2>3, <2>4, <2>5, <2>6, <2>7 DEF EncoderStep
<1>4. sent' = sent /\ decoder' = decoder /\ seen' = seen /\ network' = network
  BY DEF Sends
<1>5. Text' = Text
  BY <1>4 DEF Text, Client!Payload, Client!FlattenSeq
<1> QED  BY <1>3, <1>4, <1>5 DEF TripInv

\* Every step of the caller keeps the invariant.
LEMMA ReceivesIsSound ==
  ASSUME TripInv, Receives
  PROVE  TripInv'
<1> DEFINE I(s, d, wi) == Sound(sent, network, Text, s, d, wi, encoder, app)
<1>1. DecoderStep(decoder, wire, seen, decoder', wire', seen')
  BY TripIsTyped, ClientSteps DEF Receives
<1>2. I(seen, decoder, wire)
  BY DEF TripInv
<1>3. I(seen', decoder', wire')
  <2>1. CASE Reads(decoder, wire, seen, decoder', wire', seen')
    BY <1>2, <2>1, ReceiveReads
  <2>2. CASE Decodes(decoder, decoder') /\ wire' = wire /\ seen' = seen
    BY <1>2, <2>2, ReceiveDecodes
  <2>3. CASE Closes(decoder, decoder') /\ wire' = wire /\ seen' = seen
    BY <1>2, <2>3, ReceiveCloses
  <2>4. CASE Emits(decoder, seen, decoder', seen') /\ wire' = wire
    BY <1>2, <2>4, ReceiveEmits
  <2>5. CASE Completes(decoder, decoder') /\ wire' = wire /\ seen' = seen
    BY <1>2, <2>5, ReceiveCompletes
  <2>6. CASE SetsAside(decoder, seen, decoder', seen') /\ wire' = wire
    BY <1>2, <2>6, ReceiveSetsAside
  <2>7. CASE Polls(decoder, wire, seen, decoder', wire', seen')
    BY <1>2, <2>7, ReceivePolls
  <2> QED  BY <1>1, <2>1, <2>2, <2>3, <2>4, <2>5, <2>6, <2>7 DEF DecoderStep
<1>4. sent' = sent /\ encoder' = encoder /\ app' = app /\ network' = network
  BY DEF Receives
<1>5. Text' = Text
  BY <1>4 DEF Text, Client!Payload, Client!FlattenSeq
<1> QED  BY <1>3, <1>4, <1>5 DEF TripInv

\* A lost connection and an empty frame keep the invariant.
LEMMA NetworkIsSound ==
  ASSUME TripInv, NetworkFails \/ NetworkPads
  PROVE  TripInv'
<1> DEFINE none == <<>>
<1>1. /\ sent' = sent /\ app' = app /\ encoder' = encoder /\ decoder' = decoder
      /\ seen' = seen /\ network = "up" /\ ~encoder.finished
  BY DEF NetworkFails, NetworkPads
<1>2. Text' = Text
  BY <1>1 DEF Text, Client!Payload, Client!FlattenSeq
<1>3. Sound(sent, network, Text, seen, decoder, wire, encoder, app)
  BY DEF TripInv
<1>4. Sound(sent, network', Text, seen, decoder, wire', encoder, app)
  <2>1. CASE NetworkFails
    <3>1. wire' = Append(wire, Client!Error) /\ network' = "failed"
      BY <2>1 DEF NetworkFails
    <3>2. Client!Error \in Frame /\ Client!Error.kind = "error" /\ Client!Error.bytes = <<>>
      BY FramesAre DEF Frame
    <3> QED  BY <1>1, <1>3, <3>1, <3>2, NetworkSends
  <2>2. CASE NetworkPads
    <3>1. wire' = Append(wire, Client!Data(none)) /\ network' = "up"
      BY <1>1, <2>2 DEF NetworkPads
    <3>2. none \in Seq(Int)
      OBVIOUS
    <3>3. /\ Client!Data(none) \in Frame /\ Client!Data(none).kind = "data"
          /\ Client!Data(none).bytes = none
      BY <3>2, FramesAre
    <3> DEFINE f == Client!Data(none)
    <3>4. f \in Frame /\ f.kind = "data" /\ f.bytes = <<>>
      BY <3>3
    <3> HIDE DEF f
    <3>5. Sound(sent, network', Text, seen, decoder, Append(wire, f), encoder, app)
      BY <1>1, <1>3, <3>1, <3>4, NetworkSends
    <3> QED  BY <3>1, <3>5 DEF f
  <2> QED  BY <2>1, <2>2
<1> QED  BY <1>1, <1>2, <1>4 DEF TripInv

-----------------------------------------------------------------------------
\* Frames with bytes of some set carry bytes of that set.
LEMMA PayloadFrom ==
  ASSUME NEW frames \in Seq(Frame), NEW B,
         \A i \in 1..Len(frames) : \A k \in 1..Len(frames[i].bytes) : frames[i].bytes[k] \in B
  PROVE  \A k \in 1..Len(Client!Payload(frames)) : Client!Payload(frames)[k] \in B
<1> DEFINE N == Len(frames)
<1>1. PICK q : Glued(q, frames)
  BY GluedExists
<1>2. N \in Nat
  BY LenProperties
<1>3. /\ q \in [0..N -> Seq(Int)] /\ q[0] = <<>>
      /\ \A i \in 1..N : q[i] = q[i - 1] \o frames[i].bytes
  BY <1>1 DEF Glued
<1>4. \A i \in 1..N : frames[i].bytes \in Seq(Int) /\ Len(frames[i].bytes) \in Nat
  BY FrameAt
<1>5. \A i \in 1..N : \A k \in 1..Len(frames[i].bytes) : frames[i].bytes[k] \in B
  OBVIOUS
<1> HIDE DEF N
<1> DEFINE S == {n \in Nat : n <= N => \A k \in 1..Len(q[n]) : q[n][k] \in B}
<1>6. 0 \in S
  <2>1. Len(q[0]) = 0
    BY <1>3
  <2> QED  BY <2>1
<1>7. ASSUME NEW n \in Nat, n \in S PROVE n + 1 \in S
  <2> SUFFICES ASSUME n + 1 <= N PROVE \A k \in 1..Len(q[n + 1]) : q[n + 1][k] \in B
    OBVIOUS
  <2> DEFINE s == q[n]  t == frames[n + 1].bytes  u == s \o t  l == Len(s)  m == Len(t)
  <2>1. n + 1 \in 1..N /\ (n + 1) - 1 = n /\ n <= N /\ n \in 0..N
    BY <1>2
  <2>2. s \in Seq(Int) /\ t \in Seq(Int) /\ q[n + 1] = u /\ l \in Nat /\ m \in Nat
    BY <1>3, <1>4, <2>1, LenProperties
  <2>3. (\A k \in 1..l : s[k] \in B) /\ (\A k \in 1..m : t[k] \in B)
    BY <1>5, <1>7, <2>1
  <2>4. /\ Len(u) = l + m /\ \A i \in 1..l : u[i] = s[i]
        /\ \A i \in 1..m : u[l + i] = t[i]
    BY <2>2, Concatenates
  <2> HIDE DEF s, t, u, l, m
  <2>5. ASSUME NEW k \in 1..(l + m) PROVE u[k] \in B
    <3>1. CASE k <= l
      <4>1. k \in 1..l
        BY <2>2, <3>1
      <4> QED  BY <2>3, <2>4, <4>1
    <3>2. CASE ~(k <= l)
      <4>1. k - l \in 1..m /\ l + (k - l) = k
        BY <2>2, <3>2
      <4>2. u[k] = t[k - l]
        BY <2>4, <4>1
      <4> QED  BY <2>3, <4>1, <4>2
    <3> QED  BY <3>1, <3>2
  <2> QED  BY <2>2, <2>4, <2>5
<1>8. \A n \in Nat : n \in S
  <2> HIDE DEF S
  <2> QED  BY <1>6, <1>7, FromZero
<1>9. \A k \in 1..Len(q[N]) : q[N][k] \in B
  BY <1>2, <1>8
<1>10. Client!Payload(frames) = q[N]
  BY <1>1, PayloadIs DEF N
<1> QED  BY <1>9, <1>10

\* The ways in which a response ends.
LEMMA EndIs ==
  ASSUME NEW end \in Endings
  PROVE  /\ end \in Seq(Frame) /\ Len(end) \in {1, 2}
         /\ \A j \in 1..Len(end) : end[j].kind # "data"
         /\ end[Len(end)].kind \in {"none", "error"}
         /\ Len(end) = 2 => end[1].kind = "trailers" /\ end[2].kind = "none"
<1>1. /\ Client!None \in Frame /\ Client!Trailers \in Frame /\ Client!Error \in Frame
      /\ Client!None.kind = "none" /\ Client!Trailers.kind = "trailers"
      /\ Client!Error.kind = "error"
  BY FramesAre
<1> DEFINE n == Client!None  t == Client!Trailers  x == Client!Error
<1>2. n \in Frame /\ t \in Frame /\ x \in Frame /\ n.kind = "none" /\ t.kind = "trailers"
      /\ x.kind = "error"
  BY <1>1
<1>3. end \in {<<n>>, <<t, n>>, <<x>>}
  BY DEF Endings
<1> HIDE DEF n, t, x
<1>4. CASE end = <<n>>
  BY <1>2, <1>4
<1>5. CASE end = <<t, n>>
  <2>1. Len(end) = 2 /\ end[1] = t /\ end[2] = n /\ end \in Seq(Frame)
    BY <1>2, <1>5
  <2>2. \A j \in 1..2 : j = 1 \/ j = 2
    OBVIOUS
  <2> QED  BY <1>2, <2>1, <2>2
<1>6. CASE end = <<x>>
  BY <1>2, <1>6
<1> QED  BY <1>3, <1>4, <1>5, <1>6

(* The frames of an orderly body: some data frames, and an ending without  *)
(* bytes.                                                                  *)
Shape(body, data) ==
  /\ body \in Seq(Frame) /\ Orderly(body) /\ Len(body) > 0
  /\ body[Len(body)].kind \in {"none", "error"}
  /\ \A i \in 1..Len(body) :
       (\E j \in 1..Len(data) : body[i] = data[j]) \/ body[i].bytes = <<>>

\* Data frames and an ending are an orderly body.
LEMMA ShapeIs ==
  ASSUME NEW data \in Seq(Frame), \A i \in 1..Len(data) : data[i].kind = "data",
         NEW end \in Endings
  PROVE  Shape(data \o end, data)
<1> DEFINE body == data \o end
<1> DEFINE l == Len(data)  m == Len(end)
<1>1. l \in Nat /\ \A i \in 1..l : data[i].kind = "data"
  BY LenProperties
<1>2. /\ end \in Seq(Frame) /\ m \in {1, 2} /\ \A j \in 1..m : end[j].kind # "data"
      /\ end[m].kind \in {"none", "error"}
      /\ m = 2 => end[1].kind = "trailers" /\ end[2].kind = "none"
  BY EndIs
<1>3. /\ body \in Seq(Frame) /\ Len(body) = l + m
      /\ \A i \in 1..(l + m) : body[i] = IF i <= l THEN data[i] ELSE end[i - l]
  BY <1>1, <1>2, ConcatProperties
<1> HIDE DEF l, m, body
<1>4. \A j \in 1..m : end[j] \in Frame /\ end[j].bytes = <<>>
  <2>1. \A j \in 1..m : end[j] \in Frame
    BY <1>2, ElementOfSeq DEF m
  <2> QED  BY <1>2, <2>1 DEF Frame
<1>5. ASSUME NEW i \in 1..(l + m)
      PROVE  \/ i \in 1..l /\ body[i] = data[i]
             \/ i - l \in 1..m /\ ~(i <= l) /\ body[i] = end[i - l]
  <2>1. CASE i <= l
    BY <1>1, <1>3, <2>1
  <2>2. CASE ~(i <= l)
    BY <1>1, <1>2, <1>3, <2>2
  <2> QED  BY <2>1, <2>2
<1>6. l + m \in 1..(l + m) /\ (l + m) - l = m /\ m \in 1..m
  BY <1>1, <1>2
<1>7. body[l + m] = end[m]
  <2>1. ~(l + m <= l)
    BY <1>1, <1>2
  <2> QED  BY <1>3, <1>6, <2>1
<1>8. ASSUME NEW i \in 1..(l + m)
      PROVE  /\ body[i].kind \in {"none", "error"} => i = l + m
             /\ body[i].kind = "trailers" => i + 1 = l + m /\ body[i + 1].kind = "none"
  <2>1. CASE i \in 1..l /\ body[i] = data[i]
    BY <1>1, <2>1
  <2>2. CASE i - l \in 1..m /\ ~(i <= l) /\ body[i] = end[i - l]
    <3> DEFINE j == i - l
    <3>1. j \in 1..m /\ body[i] = end[j] /\ i = l + j
      BY <1>1, <2>2
    <3> HIDE DEF j
    <3>2. CASE j = m
      <4>1. end[j].kind \in {"none", "error"}
        BY <1>2, <3>2
      <4> QED  BY <3>1, <3>2, <4>1
    <3>3. CASE j # m
      <4>1. m = 2 /\ j = 1
        BY <1>2, <3>1, <3>3
      <4>2. body[i].kind = "trailers"
        BY <1>2, <3>1, <4>1
      <4>3. i + 1 = l + m /\ body[i + 1] = end[2]
        <5>1. i + 1 = l + m
          BY <1>1, <3>1, <4>1
        <5> QED  BY <1>7, <4>1, <5>1
      <4> QED  BY <1>2, <4>1, <4>2, <4>3
    <3> QED  BY <3>2, <3>3
  <2> QED  BY <1>5, <2>1, <2>2
<1>9. Orderly(body)
  BY <1>3, <1>8 DEF Orderly
<1>10. ASSUME NEW i \in 1..(l + m)
       PROVE  (\E j \in 1..l : body[i] = data[j]) \/ body[i].bytes = <<>>
  BY <1>4, <1>5
<1>11. Len(body) > 0
  BY <1>1, <1>2, <1>3
<1>12. Shape(body, data)
  BY <1>2, <1>3, <1>7, <1>9, <1>10, <1>11 DEF Shape, l
<1> QED  BY <1>12 DEF body

\* A response is data frames and an ending.
LEMMA BodyIs ==
  ASSUME NEW body \in Bodies
  PROVE  /\ body \in Seq(Frame) /\ Orderly(body) /\ Len(body) > 0
         /\ body[Len(body)].kind \in {"none", "error"}
         /\ \A i \in 1..Len(body) : \A k \in 1..Len(body[i].bytes) : body[i].bytes[k] > 0
<1>1. PICK data \in BoundedSeq(Contents, MaxFrames), end \in Endings : body = data \o end
  BY DEF Bodies
<1>2. ASSUME NEW b \in BoundedSeq(Bytes, MaxBytes)
      PROVE  b \in Seq(Int) /\ Len(b) \in Nat /\ \A k \in 1..Len(b) : b[k] > 0
  <2>1. PICK m \in 0..MaxBytes : b \in [1..m -> Bytes]
    BY DEF BoundedSeq, SeqOf
  <2>2. m \in Nat
    BY RoundTripAssumption DEF RoundTripAssumption
  <2>3. b \in Seq(Bytes) /\ Len(b) = m
    BY <2>1, <2>2, IsASeq
  <2>4. \A k \in 1..m : b[k] \in Nat /\ b[k] > 0
    <3>1. \A x \in Bytes : x \in Nat /\ x # 0
      BY RoundTripAssumption DEF RoundTripAssumption
    <3>2. \A x \in Bytes : x \in Nat /\ x > 0
      BY <3>1
    <3>3. \A k \in 1..m : b[k] \in Bytes
      BY <2>1
    <3> QED  BY <3>2, <3>3
  <2>5. b \in [1..m -> Int]
    BY <2>1, <2>4
  <2>6. b \in Seq(Int)
    BY <2>2, <2>5, IsASeq
  <2> QED  BY <2>2, <2>3, <2>4, <2>6
<1>3. ASSUME NEW f \in Contents
      PROVE  f \in Frame /\ f.kind = "data" /\ \A k \in 1..Len(f.bytes) : f.bytes[k] > 0
  <2>1. PICK b \in BoundedSeq(Bytes, MaxBytes) : f = Client!Data(b)
    BY DEF Contents
  <2> QED  BY <1>2, <2>1, FramesAre
<1>4. data \in Seq(Frame) /\ \A i \in 1..Len(data) : data[i] \in Contents
  <2>1. PICK k \in 0..MaxFrames : data \in [1..k -> Contents]
    BY DEF BoundedSeq, SeqOf
  <2>2. k \in Nat
    BY RoundTripAssumption DEF RoundTripAssumption
  <2>3. data \in [1..k -> Frame]
    BY <1>3, <2>1
  <2>4. data \in Seq(Frame) /\ Len(data) = k
    BY <2>2, <2>3, IsASeq
  <2> QED  BY <2>1, <2>2, <2>4
<1>5. \A i \in 1..Len(data) : data[i].kind = "data"
  BY <1>3, <1>4
<1>6. /\ body \in Seq(Frame) /\ Orderly(body) /\ Len(body) > 0
      /\ body[Len(body)].kind \in {"none", "error"}
      /\ \A i \in 1..Len(body) :
           (\E j \in 1..Len(data) : body[i] = data[j]) \/ body[i].bytes = <<>>
  <2>1. Shape(data \o end, data)
    BY <1>4, <1>5, ShapeIs
  <2> QED  BY <1>1, <2>1 DEF Shape
<1>7. ASSUME NEW i \in 1..Len(body)
      PROVE  \A k \in 1..Len(body[i].bytes) : body[i].bytes[k] > 0
  <2>1. CASE \E j \in 1..Len(data) : body[i] = data[j]
    BY <1>3, <1>4, <2>1
  <2>2. CASE body[i].bytes = <<>>
    <3>1. Len(body[i].bytes) = 0
      BY <2>2
    <3> QED  BY <3>1
  <2> QED  BY <1>6, <2>1, <2>2
<1> QED  BY <1>6, <1>7

\* In an orderly response no byte comes behind trailers or the end.
LEMMA OrderlyEndsLast ==
  ASSUME NEW body \in Seq(Frame), Orderly(body)
  PROVE  EndsLast(body)
<1>1. ASSUME NEW i \in 1..Len(body), NEW j \in 1..Len(body),
             body[i].kind \in {"trailers", "none"}, i <= j
      PROVE  body[j].bytes = <<>>
  <2>1. body[j].kind # "data"
    <3>1. Len(body) \in Nat
      BY LenProperties
    <3>2. CASE body[i].kind = "none"
      <4>1. i = Len(body)
        BY <3>2 DEF Orderly
      <4>2. j = i
        BY <1>1, <3>1, <4>1
      <4> QED  BY <3>2, <4>2
    <3>3. CASE body[i].kind = "trailers"
      <4>1. i + 1 = Len(body) /\ body[i + 1].kind = "none"
        BY <3>3 DEF Orderly
      <4>2. j = i \/ j = i + 1
        BY <1>1, <3>1, <4>1
      <4> QED  BY <3>3, <4>1, <4>2
    <3> QED  BY <1>1, <3>2, <3>3
  <2> QED  BY <2>1, FrameAt
<1> QED  BY <1>1 DEF EndsLast

\* WrapBody::new: a codec that has nothing and has read nothing.
LEMMA NewIs ==
  ASSUME NEW m \in BOOLEAN
  PROVE  /\ Server!New(TRUE, FALSE) \in Wrap /\ Client!New(FALSE, m) \in Wrap
         /\ Server!New(TRUE, FALSE).encodes /\ ~Client!New(FALSE, m).encodes
         /\ \A v \in {Server!New(TRUE, FALSE), Client!New(FALSE, m)} :
              /\ ~v.yielded_all_data /\ v.non_data_frame = Client!None /\ v.chunk = <<>>
              /\ v.codec = "open" /\ v.held = <<>> /\ ~v.read_all_data /\ ~v.finished
<1> DEFINE e == Server!New(TRUE, FALSE)  d == Client!New(FALSE, m)  none == Client!None
           empty == <<>>
<1>1. none \in Frame /\ Server!None = none /\ empty \in Seq(Int)
  BY FramesAre
<1>2. e = [encodes |-> TRUE, multiple_members |-> FALSE, yielded_all_data |-> FALSE,
           non_data_frame |-> none, read_some_data |-> FALSE, chunk |-> empty,
           codec |-> "open", held |-> empty, read_all_data |-> FALSE,
           finished |-> FALSE, inner_ended |-> FALSE, past_end |-> FALSE]
  BY <1>1 DEF Server!New
<1>3. d = [encodes |-> FALSE, multiple_members |-> m, yielded_all_data |-> FALSE,
           non_data_frame |-> none, read_some_data |-> FALSE, chunk |-> empty,
           codec |-> "open", held |-> empty, read_all_data |-> FALSE,
           finished |-> FALSE, inner_ended |-> FALSE, past_end |-> FALSE]
  BY DEF Client!New
<1> HIDE DEF e, d, none, empty
<1>4. e \in Wrap /\ d \in Wrap
  BY <1>1, <1>2, <1>3 DEF Wrap
<1>5. /\ e.encodes /\ ~e.yielded_all_data /\ e.non_data_frame = none /\ e.chunk = empty
      /\ e.codec = "open" /\ e.held = empty /\ ~e.read_all_data /\ ~e.finished
  BY <1>2
<1>6. /\ ~d.encodes /\ ~d.yielded_all_data /\ d.non_data_frame = none /\ d.chunk = empty
      /\ d.codec = "open" /\ d.held = empty /\ ~d.read_all_data /\ ~d.finished
  BY <1>3
<1> QED  BY <1>4, <1>5, <1>6 DEF e, d, none, empty

\* The invariant holds before the first poll.
LEMMA TripStarts ==
  ASSUME Init
  PROVE  TripInv
<1>1. PICK m \in BOOLEAN : decoder = Client!New(FALSE, m)
  BY DEF Init
<1>2. /\ sent \in Bodies /\ app = sent /\ encoder = Server!New(TRUE, FALSE)
      /\ wire = <<>> /\ seen = <<>> /\ network = "up"
  BY DEF Init
<1>3. /\ encoder \in Wrap /\ decoder \in Wrap /\ encoder.encodes /\ ~decoder.encodes
      /\ ~encoder.yielded_all_data /\ encoder.non_data_frame = Client!None
      /\ encoder.chunk = <<>> /\ encoder.codec = "open" /\ encoder.held = <<>>
      /\ ~encoder.read_all_data /\ ~encoder.finished
      /\ ~decoder.yielded_all_data /\ decoder.non_data_frame = Client!None
      /\ decoder.chunk = <<>> /\ decoder.codec = "open" /\ decoder.held = <<>>
      /\ ~decoder.read_all_data /\ ~decoder.finished
  BY <1>1, <1>2, NewIs
<1>4. /\ sent \in Seq(Frame) /\ Orderly(sent) /\ Len(sent) > 0
      /\ sent[Len(sent)].kind \in {"none", "error"}
      /\ \A i \in 1..Len(sent) : \A k \in 1..Len(sent[i].bytes) : sent[i].bytes[k] > 0
  BY <1>2, BodyIs
<1>5. Text \in Seq(Int) /\ Chain(sent, Text, 0, Len(Text)) /\ IsText(Text)
  <2>1. Text \in Seq(Int) /\ Chain(sent, Text, 0, Len(Text))
    BY <1>4, OrderlyEndsLast, OwnChain DEF Text
  <2>2. \A k \in 1..Len(Text) : Text[k] > 0
    <3> DEFINE B == {x \in Int : x > 0}
    <3>1. \A i \in 1..Len(sent) : \A k \in 1..Len(sent[i].bytes) : sent[i].bytes[k] \in B
      <4>1. \A i \in 1..Len(sent) : sent[i].bytes \in Seq(Int)
        BY <1>4, FrameAt
      <4> QED  BY <1>4, <4>1, ElementOfSeq
    <3>2. \A k \in 1..Len(Text) : Text[k] \in B
      <4> HIDE DEF B
      <4> QED  BY <1>4, <3>1, PayloadFrom DEF Text
    <3> QED  BY <3>2
  <2> QED  BY <2>1, <2>2 DEF IsText
<1> DEFINE text == Text
<1>6. Coded(text) \in Seq(Int) /\ Len(Coded(text)) \in Nat /\ Len(text) \in Nat
  BY <1>5, CodedIs, LenProperties
<1> HIDE DEF text
<1>7. Flow(text, seen, decoder, wire, encoder, app)
  <2> DEFINE none == <<>>
  <2>1. Len(none) = 0 /\ 0 + 0 = 0
    OBVIOUS
  <2>2. Segment(none, text, 0) /\ Segment(none, Coded(text), 0)
    BY <1>5, <1>6, SegmentEmpty DEF text
  <2>3. Chain(none, text, 0, 0) /\ Chain(none, Coded(text), 0, 0)
    BY ChainEmpty
  <2> HIDE DEF none
  <2>4. decoder.held = none /\ decoder.chunk = none /\ encoder.held = none /\ encoder.chunk = none
        /\ seen = none /\ wire = none
    BY <1>2, <1>3 DEF none
  <2>5. DecoderHolds(decoder, text, 0, 0)
    BY <1>3, <2>1, <2>2, <2>4 DEF DecoderHolds
  <2>6. EncoderHolds(encoder, text, 0, 0)
    BY <1>3, <2>1, <2>2, <2>4 DEF EncoderHolds
  <2>7. Chain(app, text, 0, Len(text))
    BY <1>2, <1>5 DEF text
  <2> QED  BY <2>3, <2>4, <2>5, <2>6, <2>7 DEF Flow
<1>8. EncoderIs(encoder, app)
  BY <1>3 DEF EncoderIs
<1>9. AppIs(sent, app, encoder)
  <2>1. Has(sent, "error") <=> sent[Len(sent)].kind = "error"
    <3>1. Len(sent) \in 1..Len(sent)
      BY <1>4, LenProperties
    <3>2. \A i \in 1..Len(sent) : sent[i].kind = "error" => i = Len(sent)
      BY <1>4 DEF Orderly
    <3> QED  BY <3>1, <3>2 DEF Has
  <2>2. Len(sent) # 0
    BY <1>4
  <2> QED  BY <1>2, <1>4, <2>1, <2>2 DEF AppIs
<1>10. ~Has(seen, "error") /\ ~Has(seen, "none") /\ ~Has(seen, "trailers") /\ ~Has(wire, "trailers")
  <2>1. Len(seen) = 0 /\ Len(wire) = 0
    BY <1>2
  <2> QED  BY <2>1 DEF Has
<1>11. WireIs(sent, network, wire, encoder)
  <2>1. Len(wire) = 0 /\ network # "failed"
    BY <1>2
  <2> QED  BY <2>1 DEF WireIs
<1>12. DecoderIs(decoder) /\ SeenIs(sent, network, seen, decoder, wire, encoder)
  BY <1>3, <1>10 DEF DecoderIs, SeenIs
<1>13. Ledger(sent, seen, decoder, wire, encoder, app)
  BY <1>2, <1>3, <1>10 DEF Ledger
<1>14. Kinds(sent, network, seen, decoder, wire, encoder, app)
  <2>1. seen \in Seq(Frame) /\ wire \in Seq(Frame) /\ network \in {"up", "failed"}
    BY <1>2
  <2> QED  BY <1>2, <1>3, <1>4, <2>1 DEF Kinds
<1> QED  BY <1>4, <1>5, <1>7, <1>8, <1>9, <1>11, <1>12, <1>13, <1>14 DEF TripInv, Sound, text

\* A frame is contained in frames exactly when its kind is among theirs.
LEMMA ContainsIs ==
  ASSUME NEW s \in Seq(Frame)
  PROVE  /\ Contains(s, Client!None) <=> Has(s, "none")
         /\ Contains(s, Client!Trailers) <=> Has(s, "trailers")
         /\ Contains(s, Client!Error) <=> Has(s, "error")
<1>1. ASSUME NEW i \in 1..Len(s)
      PROVE  /\ s[i] = Client!None <=> s[i].kind = "none"
             /\ s[i] = Client!Trailers <=> s[i].kind = "trailers"
             /\ s[i] = Client!Error <=> s[i].kind = "error"
  BY FrameAt, FramesAre
<1> QED  BY <1>1 DEF Contains, Has

\* The invariant implies what the caller is promised.
LEMMA SoundIsFaithful ==
  ASSUME TripInv
  PROVE  DeliveryIsFaithful
<1> DEFINE text == Text  got == Client!Payload(seen)
<1>1. /\ Kinds(sent, network, seen, decoder, wire, encoder, app) /\ IsText(text)
      /\ Flow(text, seen, decoder, wire, encoder, app)
      /\ EncoderIs(encoder, app) /\ AppIs(sent, app, encoder)
      /\ WireIs(sent, network, wire, encoder)
      /\ SeenIs(sent, network, seen, decoder, wire, encoder)
      /\ Ledger(sent, seen, decoder, wire, encoder, app)
      /\ sent \in Seq(Frame)
  BY DEF TripInv, Sound
<1>2. /\ seen \in Seq(Frame) /\ text \in Seq(Int) /\ Len(text) \in Nat /\ 0 <= Len(text)
      /\ network \in {"up", "failed"}
  BY <1>1, LenProperties DEF Kinds, IsText
<1>3. PICK a \in Nat : Chain(seen, text, 0, a)
  BY <1>1 DEF Flow
<1>4. a <= Len(text)
  BY <1>2, <1>3, ChainBounds
<1>5. got \in Seq(Int) /\ Len(got) = a /\ \A k \in 1..a : got[k] = text[k]
  BY <1>2, <1>3, ChainPayload
<1>6. text = Client!Payload(sent)
  BY DEF Text
<1> HIDE DEF text, got
<1>7. SubSeq(got, 1, a) = got
  BY <1>5, SubSeqFull
<1>8. got = SubSeq(text, 1, a)
  <2>1. /\ SubSeq(text, 1, a) \in Seq(Int) /\ Len(SubSeq(text, 1, a)) = a
        /\ \A i \in 1..a : SubSeq(text, 1, a)[i] = text[i]
    <3>1. \A i \in 1..a : text[i] \in Int
      BY <1>2, <1>4, ElementOfSeq
    <3> QED  BY <1>2, <1>4, <3>1, SubSeqProperties
  <2> QED  BY <1>5, <2>1, SeqEqual
<1>9. SeenIsPrefix
  BY <1>4, <1>5, <1>6, <1>7, <1>8 DEF SeenIsPrefix, IsPrefix, got
<1>10. CleanEndIsComplete
  <2> SUFFICES ASSUME Has(seen, "none")
               PROVE  /\ got = text
                      /\ Has(seen, "trailers") <=> Has(sent, "trailers")
                      /\ ~Has(sent, "error") /\ network = "up"
    BY <1>1, <1>2, <1>6, ContainsIs DEF CleanEndIsComplete, got
  <2>1. /\ Ended(decoder) /\ Ended(encoder) /\ ~Has(wire, "trailers")
    BY <1>1 DEF SeenIs
  <2>2. a = Len(text)
    BY <1>2, <1>3, ChainEnd DEF Has
  <2>3. got = text
    <3>1. SubSeq(text, 1, Len(text)) = text
      BY <1>2, SubSeqFull
    <3> QED  BY <1>8, <2>2, <3>1
  <2>4. Len(app) = 1 /\ app[1].kind = "none"
    BY <1>1, <2>1 DEF Ended, EncoderIs
  <2>5. ~Has(sent, "error")
    BY <1>1, <2>4 DEF AppIs
  <2>6. network = "up"
    BY <1>1, <1>2, <2>1 DEF WireIs, Ended
  <2>7. ~Has(app, "trailers")
    <3>1. \A i \in 1..1 : i = 1
      OBVIOUS
    <3> QED  BY <2>4, <3>1 DEF Has
  <2>8. Has(seen, "trailers") <=> Has(sent, "trailers")
    BY <1>1, <2>1, <2>7 DEF Ledger, Ended
  <2> QED  BY <2>3, <2>5, <2>6, <2>8
<1>11. ErrorsAreReal
  BY <1>1, <1>2, ContainsIs DEF ErrorsAreReal, SeenIs, Failed
<1> QED  BY <1>9, <1>10, <1>11 DEF DeliveryIsFaithful

\* The invariant is kept by every step.
LEMMA TripSteps ==
  ASSUME TripInv, [Next]_vars
  PROVE  TripInv'
<1>1. CASE Sends
  BY <1>1, SendsIsSound
<1>2. CASE Receives
  BY <1>2, ReceivesIsSound
<1>3. CASE NetworkFails \/ NetworkPads
  BY <1>3, NetworkIsSound
<1>4. CASE UNCHANGED vars
  <2>1. /\ sent' = sent /\ app' = app /\ encoder' = encoder /\ wire' = wire
        /\ decoder' = decoder /\ seen' = seen /\ network' = network
    BY <1>4 DEF vars
  <2>2. Text' = Text
    BY <2>1 DEF Text, Client!Payload, Client!FlattenSeq
  <2> QED  BY <2>1, <2>2 DEF TripInv
<1> QED  BY <1>1, <1>2, <1>3, <1>4 DEF Next, Terminated

-----------------------------------------------------------------------------
(* The same client with a body somebody else made.                         *)

\* m is the first of some positions, or 0 if there are none.
IsFirst(m, S) == IF S = {} THEN m = 0 ELSE m \in S /\ \A i \in S : m <= i

\* The least of some positions is the first.
LEMMA FirstIs ==
  ASSUME NEW S, S \subseteq Nat
  PROVE  IsFirst(IF S # {} THEN Min(S) ELSE 0, S)
<1>1. CASE S = {}
  BY <1>1 DEF IsFirst
<1>2. CASE S # {}
  <2>1. \E n \in S : \A y \in S : n =< y
    BY <1>2, LeastExists
  <2>2. /\ Min(S) \in S
        /\ \A y \in S : Min(S) =< y
    BY <2>1 DEF Min
  <2> QED  BY <1>2, <2>2 DEF IsFirst
<1> QED  BY <1>1, <1>2

\* Where the end marks are in a text, and which frames have one.
MarksIn(text)  == {i \in 1..Len(text) : text[i] = 0}
Marked(frames) == {i \in 1..Len(frames) : \E j \in 1..Len(frames[i].bytes) : frames[i].bytes[j] = 0}

\* MarkAt and MarkedFrame are the first of their kind.
LEMMA MarksAre ==
  /\ IsFirst(MarkAt, MarksIn(Text))
  /\ IsFirst(MarkedFrame, Marked(sent))
<1>1. MarkAt =
        IF MarksIn(Text) # {} THEN Min(MarksIn(Text)) ELSE 0
  BY DEF MarkAt, SelectInSeq, Client!EndMark, MarksIn
<1>2. MarkedFrame = IF Marked(sent) # {} THEN Min(Marked(sent)) ELSE 0
  BY DEF MarkedFrame, SelectInSeq, Contains, Client!EndMark, Marked
<1>3. MarksIn(Text) \subseteq Nat /\ Marked(sent) \subseteq Nat
  BY DEF MarksIn, Marked
<1>4. IsFirst(IF MarksIn(Text) # {} THEN Min(MarksIn(Text)) ELSE 0,
              MarksIn(Text))
  BY <1>3, FirstIs
<1>5. IsFirst(IF Marked(sent) # {} THEN Min(Marked(sent)) ELSE 0, Marked(sent))
  BY <1>3, FirstIs
<1> QED  BY <1>1, <1>2, <1>4, <1>5

-----------------------------------------------------------------------------
(* The equation of the function in Plain, and what it says.                *)
Strips(f, text) ==
  f = [i \in 0..Len(text) |->
         IF i = 0 THEN <<>>
         ELSE IF text[i] < 0 THEN Append(f[i - 1], -text[i]) ELSE f[i - 1]]

Stripped(g, text) ==
  /\ g \in [0..Len(text) -> Seq(Int)] /\ g[0] = <<>>
  /\ \A i \in 1..Len(text) :
       g[i] = IF text[i] < 0 THEN Append(g[i - 1], -text[i]) ELSE g[i - 1]

\* What the first bytes of a text decode to, by induction on their number.
LEMMA StrippedExists ==
  ASSUME NEW text \in Seq(Int)
  PROVE  \E g : Stripped(g, text)
<1> DEFINE N == Len(text)
           none == <<>>
           More(s, i) == IF text[i] < 0 THEN Append(s, -text[i]) ELSE s
           Good(f, k) == /\ f \in [0..k -> Seq(Int)] /\ f[0] = none
                         /\ \A i \in 1..k : f[i] = More(f[i - 1], i)
           S == {k \in Nat : k <= N => \E f : Good(f, k)}
<1>1. N \in Nat /\ none \in Seq(Int)
  BY LenProperties
<1>2. ASSUME NEW i \in 1..N, NEW s \in Seq(Int) PROVE More(s, i) \in Seq(Int)
  <2>1. text[i] \in Int /\ -text[i] \in Int
    <3>1. text[i] \in Int
      BY ElementOfSeq
    <3> QED  BY <3>1
  <2> QED  BY <2>1, AppendProperties
<1> HIDE DEF More, none, N
<1>3. 0 \in S
  <2> DEFINE g == [i \in 0..0 |-> none]
  <2>1. Good(g, 0)
    BY <1>1
  <2> HIDE DEF g, Good
  <2> QED  BY <2>1
<1>4. ASSUME NEW k \in Nat, k \in S
      PROVE  k + 1 \in S
  <2> SUFFICES ASSUME k + 1 <= N PROVE \E f : Good(f, k + 1)
    <3> HIDE DEF Good
    <3> QED  OBVIOUS
  <2>1. PICK f : Good(f, k)
    <3> HIDE DEF Good
    <3>1. k <= N
      BY <1>1
    <3> QED  BY <1>4, <3>1
  <2> DEFINE e == More(f[k], k + 1)
             g == [i \in 0..(k + 1) |-> IF i = k + 1 THEN e ELSE f[i]]
  <2>2. e \in Seq(Int)
    BY <1>1, <1>2, <2>1
  <2> HIDE DEF e
  <2>3. /\ g \in [0..(k + 1) -> Seq(Int)] /\ g[0] = none /\ g[k + 1] = e
        /\ \A i \in 0..k : g[i] = f[i]
    BY <2>1, <2>2
  <2> HIDE DEF g
  <2>4. ASSUME NEW i \in 1..(k + 1)
        PROVE  g[i] = More(g[i - 1], i)
    <3>1. CASE i = k + 1
      <4>1. i - 1 = k /\ g[i - 1] = f[k]
        BY <2>3, <3>1
      <4> QED  BY <2>3, <3>1, <4>1 DEF e
    <3>2. CASE i # k + 1
      <4>1. i \in 1..k /\ i \in 0..k /\ i - 1 \in 0..k
        BY <3>2
      <4>2. g[i] = f[i] /\ g[i - 1] = f[i - 1] /\ f[i] = More(f[i - 1], i)
        BY <2>1, <2>3, <4>1
      <4> QED  BY <4>2
    <3> QED  BY <3>1, <3>2
  <2>5. Good(g, k + 1)
    BY <2>3, <2>4
  <2> HIDE DEF Good
  <2> QED  BY <2>5
<1>5. \A k \in Nat : k \in S
  <2> HIDE DEF S
  <2> QED  BY <1>3, <1>4, FromZero
<1>6. PICK q : Good(q, N)
  <2> HIDE DEF Good
  <2> QED  BY <1>1, <1>5
<1> QED  BY <1>6 DEF Stripped, N, More, none

\* The function in Plain is that one.
LEMMA PlainIs ==
  ASSUME NEW text \in Seq(Int), NEW g, Stripped(g, text), NEW n \in 0..Len(text)
  PROVE  Plain(text, n) = g[n]
<1> DEFINE N == Len(text)
           f == CHOOSE f : Strips(f, text)
<1>1. N \in Nat
  BY LenProperties
<1>2. /\ g \in [0..N -> Seq(Int)] /\ g[0] = <<>>
      /\ \A i \in 1..N : g[i] = IF text[i] < 0 THEN Append(g[i - 1], -text[i]) ELSE g[i - 1]
  BY DEF Stripped
<1>3. Strips(g, text)
  <2>1. ASSUME NEW i \in 0..N
        PROVE  g[i] = IF i = 0 THEN <<>>
                      ELSE IF text[i] < 0 THEN Append(g[i - 1], -text[i]) ELSE g[i - 1]
    <3>1. CASE i = 0
      BY <1>2, <3>1
    <3>2. CASE i # 0
      <4>1. i \in 1..N
        BY <1>1, <3>2
      <4> QED  BY <1>2, <3>2, <4>1
    <3> QED  BY <3>1, <3>2
  <2> QED  BY <1>2, <2>1 DEF Strips
<1>4. Plain(text, n) = f[n]
  BY DEF Plain, Strips
<1> HIDE DEF f
<1>5. Strips(f, text)
  BY <1>3, Zenon DEF f
<1>6. \A i \in 0..N : f[i] = IF i = 0 THEN <<>>
                             ELSE IF text[i] < 0 THEN Append(f[i - 1], -text[i]) ELSE f[i - 1]
  <2>1. f = [i \in 0..N |-> IF i = 0 THEN <<>>
                            ELSE IF text[i] < 0 THEN Append(f[i - 1], -text[i]) ELSE f[i - 1]]
    BY <1>5 DEF Strips
  <2> QED  BY <2>1, Zenon
<1> DEFINE S == {k \in Nat : k <= N => f[k] = g[k]}
<1>7. 0 \in S
  <2>1. 0 \in 0..N
    BY <1>1
  <2>2. f[0] = <<>>
    BY <1>6, <2>1
  <2> QED  BY <1>2, <2>2
<1>8. ASSUME NEW k \in Nat, k \in S PROVE k + 1 \in S
  <2> SUFFICES ASSUME k + 1 <= N PROVE f[k + 1] = g[k + 1]
    OBVIOUS
  <2>1. f[k] = g[k]
    BY <1>1, <1>8
  <2> DEFINE j == k + 1
  <2>2. j \in 1..N /\ j \in 0..N /\ j - 1 = k /\ j # 0
    BY <1>1
  <2> HIDE DEF j
  <2>3. f[j] = IF text[j] < 0 THEN Append(f[k], -text[j]) ELSE f[k]
    BY <1>6, <2>2
  <2>4. g[j] = IF text[j] < 0 THEN Append(g[k], -text[j]) ELSE g[k]
    BY <1>2, <2>2
  <2> QED  BY <2>1, <2>3, <2>4 DEF j
<1>9. \A k \in Nat : k \in S
  <2> HIDE DEF S
  <2> QED  BY <1>7, <1>8, FromZero
<1>10. n \in Nat /\ n <= N
  BY <1>1
<1>11. n \in S
  BY <1>9, <1>10
<1> QED  BY <1>4, <1>10, <1>11

\* What frames carry once a frame is added.
LEMMA PayloadAppend ==
  ASSUME NEW s \in Seq(Frame), NEW f \in Frame
  PROVE  /\ Client!Payload(s) \in Seq(Int)
         /\ Client!Payload(Append(s, f)) = Client!Payload(s) \o f.bytes
<1> DEFINE t == Append(s, f)  n == Len(s)
<1>1. /\ n \in Nat /\ t \in Seq(Frame) /\ Len(t) = n + 1 /\ t[n + 1] = f
      /\ \A i \in 1..n : t[i] = s[i]
  BY AppendProperties, LenProperties
<1> HIDE DEF t
<1>2. PICK q : Glued(q, t)
  BY <1>1, GluedExists
<1>3. /\ q \in [0..(n + 1) -> Seq(Int)] /\ q[0] = <<>>
      /\ \A i \in 1..(n + 1) : q[i] = q[i - 1] \o t[i].bytes
  BY <1>1, <1>2 DEF Glued
<1> DEFINE r == [i \in 0..n |-> q[i]]
<1>4. Glued(r, s)
  <2>1. r \in [0..n -> Seq(Int)] /\ r[0] = <<>>
    BY <1>1, <1>3
  <2>2. ASSUME NEW i \in 1..n PROVE r[i] = r[i - 1] \o s[i].bytes
    <3>1. i \in 1..(n + 1) /\ i \in 0..n /\ i - 1 \in 0..n
      BY <1>1
    <3> QED  BY <1>1, <1>3, <3>1
  <2> QED  BY <2>1, <2>2 DEF Glued
<1>5. Client!Payload(s) = q[n] /\ Client!Payload(t) = q[n + 1]
  <2>1. Client!Payload(s) = r[n]
    BY <1>4, PayloadIs
  <2>2. Client!Payload(t) = q[n + 1]
    BY <1>1, <1>2, PayloadIs
  <2> QED  BY <1>1, <2>1, <2>2
<1>6. q[n + 1] = q[n] \o f.bytes /\ q[n] \in Seq(Int)
  <2>1. n + 1 \in 1..(n + 1) /\ (n + 1) - 1 = n /\ n \in 0..(n + 1)
    BY <1>1
  <2> QED  BY <1>1, <1>3, <2>1
<1> QED  BY <1>5, <1>6 DEF t

\* No frames carry no bytes.
LEMMA PayloadEmpty == Client!Payload(<<>>) = <<>>
<1> DEFINE none == <<>>  q == [i \in 0..0 |-> none]
<1>1. none \in Seq(Frame) /\ Len(none) = 0 /\ none \in Seq(Int)
  OBVIOUS
<1> HIDE DEF none
<1>2. q \in [0..0 -> Seq(Int)] /\ q[0] = none /\ 1..0 = {}
  BY <1>1
<1> HIDE DEF q
<1>3. Glued(q, none)
  BY <1>1, <1>2 DEF Glued, none
<1>4. Client!Payload(none) = q[0]
  BY <1>1, <1>3, PayloadIs
<1> QED  BY <1>2, <1>4 DEF none

\* Three texts, one behind the other.
LEMMA JoinAgain ==
  ASSUME NEW s \in Seq(Int), NEW t \in Seq(Int), NEW u \in Seq(Int)
  PROVE  (s \o t) \o u = s \o (t \o u)
BY ConcatAssociative

\* Output that grows by what is held, and what is held that grows by a byte.
LEMMA OutputGrows ==
  ASSUME NEW s \in Seq(Int), NEW h \in Seq(Int)
  PROVE  /\ s \o <<>> = s
         /\ \A x \in Int : Append(s \o h, x) = s \o Append(h, x)
         /\ \A n \in 1..Len(h) :
              (s \o SubSeq(h, 1, n)) \o SubSeq(h, n + 1, Len(h)) = s \o h
<1>1. s \o <<>> = s
  BY ConcatEmptySeq
<1>2. ASSUME NEW x \in Int PROVE Append(s \o h, x) = s \o Append(h, x)
  <2> DEFINE e == <<x>>
  <2>1. e \in Seq(Int) /\ s \o h \in Seq(Int)
    BY ConcatProperties
  <2>2. Append(s \o h, x) = (s \o h) \o e /\ Append(h, x) = h \o e
    BY <2>1, AppendIsConcat
  <2> HIDE DEF e
  <2>3. (s \o h) \o e = s \o (h \o e)
    BY <2>1, ConcatAssociative
  <2> QED  BY <2>2, <2>3
<1>3. ASSUME NEW n \in 1..Len(h)
      PROVE  (s \o SubSeq(h, 1, n)) \o SubSeq(h, n + 1, Len(h)) = s \o h
  <2> DEFINE l == Len(h)  a == SubSeq(h, 1, n)  b == SubSeq(h, n + 1, l)
  <2>1. l \in Nat /\ n \in 1..l
    BY LenProperties
  <2>2. a \in Seq(Int) /\ b \in Seq(Int)
    <3>1. \A k \in 1..n : h[k] \in Int
      BY <2>1, ElementOfSeq
    <3>2. \A k \in (n + 1)..l : h[k] \in Int
      BY <2>1, ElementOfSeq
    <3>3. n \in Int /\ n + 1 \in Int /\ l \in Int /\ 1 \in Int
      BY <2>1
    <3> HIDE DEF l
    <3> QED  BY <3>1, <3>2, <3>3, SubSeqProperties
  <2>3. a \o b = h
    <3>1. 1 \in 1..(l + 1) /\ n \in 0..l /\ l \in n..l
      BY <2>1
    <3>2. a \o b = SubSeq(h, 1, l)
      BY <2>1, <3>1, ConcatAdjacentSubSeq
    <3> QED  BY <3>2, SubSeqFull
  <2> HIDE DEF a, b
  <2>4. (s \o a) \o b = s \o (a \o b)
    <3>1. s \in Seq(Int) /\ a \in Seq(Int) /\ b \in Seq(Int)
      BY <2>2
    <3> QED  BY <3>1, JoinAgain
  <2>5. (s \o a) \o b = s \o h
    BY <2>3, <2>4
  <2> QED  BY <2>5 DEF a, b
<1> QED  BY <1>1, <1>2, <1>3

-----------------------------------------------------------------------------
(* What a step makes of a decoder: with the fields that RoundTrip has no   *)
(* use for.                                                                *)
Turns(v, y, nd, rs, ch, co, he, ra, fi, v2) ==
  /\ Becomes(v, y, nd, ch, co, he, ra, fi, v2)
  /\ v2.multiple_members = v.multiple_members /\ v2.read_some_data = rs

(* The steps of a decoder whose input may be anything.                     *)
MeetsData(v, i, o, v2, i2, o2, f) ==
  /\ f.kind = "data" /\ i2 = Tail(i) /\ o2 = o
  /\ Turns(v, FALSE, v.non_data_frame, TRUE, f.bytes, v.codec, v.held, FALSE, FALSE, v2)
MeetsTrailers(v, i, o, v2, i2, o2, f) ==
  /\ f.kind = "trailers" /\ i2 = Tail(i) /\ o2 = o
  /\ Turns(v, TRUE, f, v.read_some_data, v.chunk, v.codec, v.held, FALSE, FALSE, v2)
MeetsEnd(v, i, o, v2, i2, o2, f) ==
  /\ f.kind = "none" /\ i2 = i /\ o2 = o
  /\ Turns(v, TRUE, v.non_data_frame, v.read_some_data, v.chunk, v.codec, v.held,
           FALSE, FALSE, v2)
MeetsError(v, o, v2, o2, f) ==
  /\ f.kind = "error" /\ o2 = Append(o, f)
  /\ v2.finished /\ v2.multiple_members = v.multiple_members

Meets(v, i, o, v2, i2, o2) ==
  \E f : /\ Takes(v, i, f)
         /\ \/ MeetsData(v, i, o, v2, i2, o2, f)
            \/ MeetsTrailers(v, i, o, v2, i2, o2, f)
            \/ MeetsEnd(v, i, o, v2, i2, o2, f)
            \/ MeetsError(v, o, v2, o2, f)

Strip(v, v2) ==
  /\ v.chunk # <<>> /\ v.codec \in {"open", "between"}
  /\ Head(v.chunk) < 0 =>
       Turns(v, v.yielded_all_data, v.non_data_frame, v.read_some_data, Tail(v.chunk),
             "open", Append(v.held, -Head(v.chunk)), v.read_all_data, FALSE, v2)
  /\ Head(v.chunk) = 0 =>
       Turns(v, v.yielded_all_data, v.non_data_frame, v.read_some_data, Tail(v.chunk),
             IF v.multiple_members THEN "between" ELSE "done", v.held, v.read_all_data,
             FALSE, v2)
  /\ Head(v.chunk) > 0 =>
       Turns(v, v.yielded_all_data, v.non_data_frame, v.read_some_data, v.chunk,
             "failed", v.held, v.read_all_data, FALSE, v2)

Starves(v, v2) ==
  /\ v.chunk = <<>> /\ v.codec \in {"open", "between"} /\ ~v.read_all_data
  /\ v.yielded_all_data
  /\ Turns(v, TRUE, v.non_data_frame, v.read_some_data, v.chunk,
           IF v.codec = "between" THEN "done" ELSE "failed", v.held, FALSE, FALSE, v2)

Gives(v, o, v2, o2) ==
  /\ ~v.read_all_data
  /\ \E n \in 1..Len(v.held) :
       /\ o2 = Append(o, Client!Data(SubSeq(v.held, 1, n)))
       /\ Turns(v, v.yielded_all_data, v.non_data_frame, v.read_some_data, v.chunk, v.codec,
                SubSeq(v.held, n + 1, Len(v.held)), FALSE, FALSE, v2)

Closes2(v, v2) ==
  /\ v.codec = "done" /\ v.held = <<>>
  /\ Turns(v, v.yielded_all_data, v.non_data_frame, v.read_some_data, v.chunk, "done", <<>>,
           TRUE, FALSE, v2)

Excused(v) == v.codec = "failed" /\ ~v.read_some_data

Breaks(v, o, v2, o2) ==
  /\ v.codec = "failed" /\ ~Excused(v) /\ o2 = Append(o, Client!Error)
  /\ v2.finished /\ v2.multiple_members = v.multiple_members

Forwards(v, o, v2, o2) ==
  /\ v.read_all_data \/ Excused(v)
  /\ v.yielded_all_data /\ v.non_data_frame # Client!None
  /\ o2 = Append(o, v.non_data_frame)
  /\ Turns(v, TRUE, Client!None, v.read_some_data, v.chunk, v.codec, v.held,
           v.read_all_data, FALSE, v2)

Trails(v, i, o, v2, i2, o2) ==
  /\ v.read_all_data \/ Excused(v)
  /\ v.yielded_all_data => v.non_data_frame = Client!None
  /\ \E f : /\ i # <<>> /\ f = Head(i) /\ f \in Frame
            /\ i2 = IF f.kind = "none" THEN i ELSE Tail(i)
            /\ o2 = Append(o, Tailed(f))
            /\ Turns(v, v.yielded_all_data \/ f.kind \in {"trailers", "none"},
                     v.non_data_frame, v.read_some_data, v.chunk, v.codec, v.held,
                     v.read_all_data, Tailed(f) \in {Client!Error, Client!None}, v2)

ForeignStep(v, i, o, v2, i2, o2) ==
  /\ ~v.finished
  /\ \/ Meets(v, i, o, v2, i2, o2)
     \/ Strip(v, v2) /\ i2 = i /\ o2 = o
     \/ Starves(v, v2) /\ i2 = i /\ o2 = o
     \/ Gives(v, o, v2, o2) /\ i2 = i
     \/ Closes2(v, v2) /\ i2 = i /\ o2 = o
     \/ Breaks(v, o, v2, o2) /\ i2 = i
     \/ Forwards(v, o, v2, o2) /\ i2 = i
     \/ Trails(v, i, o, v2, i2, o2)

Poised == decoder \in Wrap /\ ~decoder.encodes /\ wire \in Seq(Frame) /\ seen \in Seq(Frame)

\* BodyIntoStream::poll_frame takes the next frame of any body as Meets says.
LEMMA ForeignReads ==
  ASSUME Poised, Client!Read
  PROVE  ForeignStep(decoder, wire, seen, decoder', wire', seen')
<1>1. PICK f \in Client!Frames :
        /\ Client!InnerYields(f) /\ decoder' = Client!PollNext(f)
        /\ IF f = Client!Error THEN Client!Return(Client!Error) ELSE UNCHANGED seen
  BY DEF Client!Read
<1>2. wire # <<>> /\ f = Head(wire)
  BY DEF Client!Frames
<1>3. f \in Frame /\ Tail(wire) \in Seq(Frame)
  BY <1>2, HeadTailProperties DEF Poised
<1>4. Takes(decoder, wire, f) /\ decoder \in Wrap
  BY <1>2, <1>3 DEF Poised, Takes, Client!Read, Client!WantsInput
<1>5. /\ decoder.yielded_all_data = FALSE /\ decoder.read_all_data = FALSE
      /\ decoder.finished = FALSE
  BY <1>4 DEF Takes, Wrap
<1>6. CASE f.kind = "data"
  <2>1. f # Client!Error /\ f # Client!None
    BY <1>3, <1>6, FramesAre
  <2>2. wire' = Tail(wire) /\ seen' = seen
    BY <1>1, <2>1 DEF Client!InnerYields
  <2>3. decoder' = [decoder EXCEPT !.chunk = f.bytes, !.read_some_data = TRUE]
    BY <1>1, <1>6 DEF Client!PollNext
  <2>4. Turns(decoder, FALSE, decoder.non_data_frame, TRUE, f.bytes, decoder.codec,
              decoder.held, FALSE, FALSE, decoder')
    BY <1>3, <1>4, <1>5, <2>3 DEF Wrap, Becomes, Turns, Frame
  <2>5. MeetsData(decoder, wire, seen, decoder', wire', seen', f)
    BY <1>6, <2>2, <2>4 DEF MeetsData
  <2> QED  BY <1>4, <1>5, <2>5 DEF Meets, ForeignStep
<1>7. CASE f.kind = "trailers"
  <2>1. f # Client!Error /\ f # Client!None
    BY <1>3, <1>7, FramesAre
  <2>2. wire' = Tail(wire) /\ seen' = seen
    BY <1>1, <2>1 DEF Client!InnerYields
  <2>3. decoder' = [decoder EXCEPT !.yielded_all_data = TRUE, !.non_data_frame = f]
    BY <1>1, <1>7 DEF Client!PollNext
  <2>4. Turns(decoder, TRUE, f, decoder.read_some_data, decoder.chunk, decoder.codec,
              decoder.held, FALSE, FALSE, decoder')
    BY <1>3, <1>4, <1>5, <2>3 DEF Wrap, Becomes, Turns
  <2>5. MeetsTrailers(decoder, wire, seen, decoder', wire', seen', f)
    BY <1>7, <2>2, <2>4 DEF MeetsTrailers
  <2> QED  BY <1>4, <1>5, <2>5 DEF Meets, ForeignStep
<1>8. CASE f.kind = "none"
  <2>1. f # Client!Error /\ f = Client!None
    BY <1>3, <1>8, FramesAre
  <2>2. wire' = wire /\ seen' = seen
    BY <1>1, <2>1 DEF Client!InnerYields
  <2>3. decoder' = [decoder EXCEPT !.yielded_all_data = TRUE, !.inner_ended = TRUE]
    BY <1>1, <1>8 DEF Client!PollNext
  <2>4. Turns(decoder, TRUE, decoder.non_data_frame, decoder.read_some_data, decoder.chunk,
              decoder.codec, decoder.held, FALSE, FALSE, decoder')
    BY <1>4, <1>5, <2>3 DEF Wrap, Becomes, Turns
  <2>5. MeetsEnd(decoder, wire, seen, decoder', wire', seen', f)
    BY <1>8, <2>2, <2>4 DEF MeetsEnd
  <2> QED  BY <1>4, <1>5, <2>5 DEF Meets, ForeignStep
<1>9. CASE f.kind = "error"
  <2>1. f = Client!Error /\ f # Client!None
    BY <1>3, <1>9, FramesAre
  <2>2. seen' = Append(seen, f)
    BY <1>1, <2>1 DEF Client!Return
  <2>3. decoder' = [decoder EXCEPT !.finished = TRUE]
    BY <1>1, <1>9 DEF Client!PollNext
  <2>4. decoder'.finished /\ decoder'.multiple_members = decoder.multiple_members
    BY <1>4, <2>3 DEF Wrap
  <2>5. MeetsError(decoder, seen, decoder', seen', f)
    BY <1>9, <2>2, <2>4 DEF MeetsError
  <2> QED  BY <1>4, <1>5, <2>5 DEF Meets, ForeignStep
<1> QED  BY <1>3, <1>6, <1>7, <1>8, <1>9 DEF Frame

(* A step of Client!poll_frame (WrapBody::poll_frame of Decompression) is *)
(* one of the steps of ForeignStep, whatever the body holds.               *)
LEMMA ForeignSteps ==
  ASSUME Poised, Client!poll_frame
  PROVE  ForeignStep(decoder, wire, seen, decoder', wire', seen')
<1>1. decoder \in Wrap /\ decoder.finished \in BOOLEAN /\ decoder.read_all_data \in BOOLEAN
      /\ decoder.yielded_all_data \in BOOLEAN /\ decoder.held \in Seq(Int)
      /\ decoder.chunk \in Seq(Int) /\ decoder.encodes = FALSE
  BY DEF Poised, Wrap
<1>2. CASE Client!Read
  BY <1>2, ForeignReads
<1>3. CASE Client!Consume
  <2> DEFINE byte == Head(decoder.chunk)  ch == Tail(decoder.chunk)
             he == Append(decoder.held, -byte)
             co == IF decoder.multiple_members THEN "between" ELSE "done"
             opened == "open"  failed == "failed"
  <2>1. /\ ~decoder.finished /\ decoder.chunk # <<>> /\ decoder.codec \in {"open", "between"}
        /\ wire' = wire /\ seen' = seen /\ decoder' = Client!Decode
    BY <1>1, <1>3 DEF Client!Consume
  <2>2. ch \in Seq(Int) /\ byte \in Int /\ -byte \in Int
    <3>1. ch \in Seq(Int) /\ byte \in Int
      BY <1>1, <2>1, HeadTailProperties
    <3> QED  BY <3>1
  <2>3. he \in Seq(Int)
    BY <1>1, <2>2, AppendProperties
  <2>4. co \in {"between", "done"}
    OBVIOUS
  <2>5. ASSUME byte < 0
        PROVE  Turns(decoder, decoder.yielded_all_data, decoder.non_data_frame,
                     decoder.read_some_data, ch, "open", he, decoder.read_all_data, FALSE,
                     decoder')
    <3>1. decoder' = [decoder EXCEPT !.chunk = ch, !.codec = opened, !.held = he]
      BY <2>1, <2>2, <2>5 DEF Client!Decode, Client!EndMark
    <3>2. opened = "open"
      OBVIOUS
    <3> HIDE DEF ch, he, opened
    <3> QED  BY <1>1, <2>1, <2>2, <2>3, <3>1, <3>2 DEF Wrap, Becomes, Turns
  <2>6. ASSUME byte = 0
        PROVE  Turns(decoder, decoder.yielded_all_data, decoder.non_data_frame,
                     decoder.read_some_data, ch, co, decoder.held, decoder.read_all_data,
                     FALSE, decoder')
    <3>1. decoder' = [decoder EXCEPT !.chunk = ch, !.codec = co]
      BY <2>1, <2>2, <2>6 DEF Client!Decode, Client!EndMark
    <3> HIDE DEF ch, co
    <3> QED  BY <1>1, <2>1, <2>2, <2>4, <3>1 DEF Wrap, Becomes, Turns
  <2>7. ASSUME byte > 0
        PROVE  Turns(decoder, decoder.yielded_all_data, decoder.non_data_frame,
                     decoder.read_some_data, decoder.chunk, "failed", decoder.held,
                     decoder.read_all_data, FALSE, decoder')
    <3>1. decoder' = [decoder EXCEPT !.codec = failed]
      BY <2>1, <2>2, <2>7 DEF Client!Decode, Client!EndMark
    <3>2. failed = "failed"
      OBVIOUS
    <3> HIDE DEF failed
    <3> QED  BY <1>1, <2>1, <3>1, <3>2 DEF Wrap, Becomes, Turns
  <2>8. Strip(decoder, decoder')
    BY <2>1, <2>5, <2>6, <2>7 DEF Strip
  <2> QED  BY <2>1, <2>8 DEF ForeignStep
<1>4. CASE Client!InputEnds
  <2> DEFINE done == "done"  failed == "failed"
             co == IF decoder.codec = "between" THEN done ELSE failed
  <2>1. /\ ~decoder.finished /\ ~decoder.read_all_data /\ decoder.chunk = <<>>
        /\ decoder.codec \in {"open", "between"} /\ decoder.yielded_all_data
        /\ wire' = wire /\ seen' = seen
    BY <1>4 DEF Client!InputEnds, Client!WantsInput
  <2>2. decoder' = [decoder EXCEPT !.codec = co]
    <3>1. CASE decoder.codec = "between"
      BY <1>1, <1>4, <3>1 DEF Client!InputEnds
    <3>2. CASE decoder.codec = "open"
      BY <1>1, <1>4, <3>2 DEF Client!InputEnds
    <3> QED  BY <2>1, <3>1, <3>2
  <2>3. co \in {"done", "failed"} /\ co = IF decoder.codec = "between" THEN "done" ELSE "failed"
    OBVIOUS
  <2> HIDE DEF co
  <2>4. Turns(decoder, TRUE, decoder.non_data_frame, decoder.read_some_data, decoder.chunk, co,
              decoder.held, FALSE, FALSE, decoder')
    BY <1>1, <2>1, <2>2, <2>3 DEF Wrap, Becomes, Turns
  <2>5. Starves(decoder, decoder')
    BY <2>1, <2>3, <2>4 DEF Starves
  <2> QED  BY <2>1, <2>5 DEF ForeignStep
<1>5. CASE Client!Emit
  <2>1. PICK n \in 1..Len(decoder.held) :
          /\ seen' = Append(seen, Client!Data(SubSeq(decoder.held, 1, n)))
          /\ decoder' = [decoder EXCEPT !.held = SubSeq(@, n + 1, Len(@))]
    BY <1>5 DEF Client!Emit, Client!Return
  <2> DEFINE he == SubSeq(decoder.held, n + 1, Len(decoder.held))
  <2>2. /\ ~decoder.finished /\ ~decoder.read_all_data /\ wire' = wire
        /\ decoder' = [decoder EXCEPT !.held = he]
        /\ seen' = Append(seen, Client!Data(SubSeq(decoder.held, 1, n)))
    BY <1>5, <2>1 DEF Client!Emit
  <2>3. he \in Seq(Int)
    <3>1. \A k \in (n + 1)..Len(decoder.held) : decoder.held[k] \in Int
      <4>1. Len(decoder.held) \in Nat
        BY <1>1, LenProperties
      <4> QED  BY <1>1, <4>1, ElementOfSeq
    <3>2. n + 1 \in Int /\ Len(decoder.held) \in Int
      BY <1>1, LenProperties
    <3> QED  BY <1>1, <3>1, <3>2, SubSeqProperties
  <2> HIDE DEF he
  <2>4. Turns(decoder, decoder.yielded_all_data, decoder.non_data_frame, decoder.read_some_data,
              decoder.chunk, decoder.codec, he, FALSE, FALSE, decoder')
    BY <1>1, <2>2, <2>3 DEF Wrap, Becomes, Turns
  <2>5. Gives(decoder, seen, decoder', seen')
    BY <2>2, <2>4 DEF Gives, he
  <2> QED  BY <2>2, <2>5 DEF ForeignStep
<1>6. CASE Client!ReadAll
  <2> DEFINE yes == TRUE
  <2>1. /\ ~decoder.finished /\ decoder.codec = "done"
        /\ decoder.held = <<>> /\ wire' = wire /\ seen' = seen
        /\ decoder' = [decoder EXCEPT !.read_all_data = yes]
    BY <1>6 DEF Client!ReadAll
  <2>2. Turns(decoder, decoder.yielded_all_data, decoder.non_data_frame, decoder.read_some_data,
              decoder.chunk, "done", <<>>, TRUE, FALSE, decoder')
    BY <1>1, <2>1 DEF Wrap, Becomes, Turns
  <2>3. Closes2(decoder, decoder')
    BY <2>1, <2>2 DEF Closes2
  <2> QED  BY <2>1, <2>3 DEF ForeignStep
<1>7. CASE Client!Fail
  <2>1. /\ ~decoder.finished /\ decoder.codec = "failed" /\ ~Excused(decoder) /\ wire' = wire
        /\ seen' = Append(seen, Client!Error)
        /\ decoder' = [decoder EXCEPT !.finished = TRUE]
    BY <1>7 DEF Client!Fail, Client!Ignores, Client!Return, Excused
  <2>2. decoder'.finished /\ decoder'.multiple_members = decoder.multiple_members
    BY <1>1, <2>1 DEF Wrap
  <2>3. Breaks(decoder, seen, decoder', seen')
    BY <2>1, <2>2 DEF Breaks
  <2> QED  BY <2>1, <2>3 DEF ForeignStep
<1>8. CASE Client!TailSetAside
  <2>1. /\ decoder.yielded_all_data
        /\ decoder.non_data_frame # Client!None
        /\ seen' = Append(seen, decoder.non_data_frame)
        /\ decoder' = [decoder EXCEPT !.non_data_frame = Client!None]
        /\ wire' = wire
    BY <1>8
       DEF Client!TailSetAside, Client!PollsTail, Client!Ignores, Client!Return, Excused
  <2>2. ~decoder.finished /\ (decoder.read_all_data \/ Excused(decoder))
    BY <1>8 DEF Client!TailSetAside, Client!PollsTail, Client!Ignores, Excused
  <2> DEFINE none == Client!None
  <2>3. none \in Frame
    BY FramesAre
  <2> HIDE DEF none
  <2>4. Turns(decoder, TRUE, none, decoder.read_some_data, decoder.chunk, decoder.codec,
              decoder.held, decoder.read_all_data, FALSE, decoder')
    <3>1. decoder' = [decoder EXCEPT !.non_data_frame = none]
      BY <2>1 DEF none
    <3>2. decoder.yielded_all_data
      BY <1>8 DEF Client!TailSetAside
    <3> QED  BY <1>1, <2>2, <2>3, <3>1, <3>2 DEF Wrap, Becomes, Turns
  <2>5. Forwards(decoder, seen, decoder', seen')
    BY <2>1, <2>2, <2>4 DEF Forwards, none
  <2> QED  BY <2>1, <2>2, <2>5 DEF ForeignStep
<1>9. CASE Client!TailPolls
  <2>1. PICK f \in Client!Frames :
          /\ Client!InnerYields(f) /\ Client!Return(Client!TailFrame(f))
          /\ decoder' =
               [decoder EXCEPT
                  !.yielded_all_data = @ \/ f.kind \in {"trailers", "none"},
                  !.finished = Client!TailFrame(f) \in {Client!Error, Client!None},
                  !.inner_ended = @ \/ f = Client!None,
                  !.past_end = @ \/ decoder.inner_ended
                                 \/ (f = Client!None /\ ~decoder.yielded_all_data)]
    BY <1>9 DEF Client!TailPolls
  <2>2. wire # <<>> /\ f = Head(wire)
    BY <2>1 DEF Client!Frames
  <2>3. f \in Frame
    BY <2>2, HeadTailProperties DEF Poised
  <2>4. /\ ~decoder.finished /\ (decoder.read_all_data \/ Excused(decoder))
        /\ decoder.yielded_all_data => decoder.non_data_frame = Client!None
    BY <1>9
       DEF Client!TailPolls, Client!PollsTail, Client!Ignores, Excused
  <2> DEFINE y == decoder.yielded_all_data \/ f.kind \in {"trailers", "none"}
             fi == Tailed(f) \in {Client!Error, Client!None}
             en == decoder.inner_ended \/ f = Client!None
             pa == decoder.past_end \/ decoder.inner_ended
                     \/ (f = Client!None /\ ~decoder.yielded_all_data)
  <2>5. Client!TailFrame(f) = Tailed(f)
    BY DEF Client!TailFrame, Tailed
  <2>6. decoder' = [decoder EXCEPT !.yielded_all_data = y, !.finished = fi,
                                   !.inner_ended = en, !.past_end = pa]
    BY <2>1, <2>5
  <2>7. y \in BOOLEAN /\ fi \in BOOLEAN /\ en \in BOOLEAN /\ pa \in BOOLEAN
    BY <1>1 DEF Wrap
  <2> HIDE DEF y, fi, en, pa
  <2>8. Becomes(decoder, y, decoder.non_data_frame, decoder.chunk, decoder.codec, decoder.held,
                decoder.read_all_data, fi, decoder')
    BY <1>1, <2>6, <2>7, PollsFields
  <2>9. /\ decoder'.multiple_members = decoder.multiple_members
        /\ decoder'.read_some_data = decoder.read_some_data
    BY <1>1, <2>6 DEF Wrap
  <2>10. wire' = IF f.kind = "none" THEN wire ELSE Tail(wire)
    BY <2>1, <2>3, FramesAre DEF Client!InnerYields
  <2>11. seen' = Append(seen, Tailed(f))
    BY <2>1, <2>5 DEF Client!Return
  <2>12. Turns(decoder, y, decoder.non_data_frame, decoder.read_some_data, decoder.chunk,
               decoder.codec, decoder.held, decoder.read_all_data, fi, decoder')
    BY <2>8, <2>9 DEF Turns
  <2>13. Trails(decoder, wire, seen, decoder', wire', seen')
    BY <2>2, <2>3, <2>4, <2>10, <2>11, <2>12, Zenon DEF Trails, y, fi
  <2> QED  BY <2>4, <2>13 DEF ForeignStep
<1> QED  BY <1>2, <1>3, <1>4, <1>5, <1>6, <1>7, <1>8, <1>9 DEF Client!poll_frame

-----------------------------------------------------------------------------
(* A body, what it carries, and where each of its frames ends in that.     *)
Layout(se, text, p) ==
  /\ se \in Seq(Frame) /\ Orderly(se) /\ Len(se) > 0
  /\ se[Len(se)].kind \in {"none", "error"}
  /\ text \in Seq(Int) /\ \A j \in 1..Len(text) : text[j] <= 1
  /\ Places(p, se, text, 0, Len(text))

\* k frames have been taken.
Rest(i, se, k) ==
  /\ k \in Nat /\ i \in Seq(Frame) /\ k + Len(i) = Len(se)
  /\ \A j \in 1..Len(i) : i[j] = se[k + j]

(* c bytes have been decoded; the chunk is what is left of the last frame  *)
(* with bytes that was taken.                                              *)
At(v, text, p, k, c) ==
  /\ Segment(v.chunk, text, c) /\ c + Len(v.chunk) = p[k]
  /\ \A j \in 0..k : p[j] <= c \/ p[j] = p[k]

\* What the state of the codec says of the bytes it has decoded.
CodecIs(v, text, p, k, c) ==
  /\ \A j \in 1..c : text[j] <= 0
  /\ ~v.multiple_members => \A j \in 1..c : text[j] = 0 => j = c /\ v.codec = "done"
  /\ v.codec = "open" => c = 0 \/ text[c] < 0
  /\ v.codec = "between" => v.multiple_members /\ c > 0 /\ text[c] = 0
  /\ v.codec = "done" => /\ c > 0 /\ text[c] = 0
                         /\ v.multiple_members => v.yielded_all_data /\ c = Len(text)
                         /\ ~v.multiple_members => \A j \in 0..k : p[j] < c \/ p[j] = p[k]
  /\ v.codec = "failed" => \/ c < p[k] /\ text[c + 1] > 0
                           \/ v.yielded_all_data /\ c = Len(text) /\ (c = 0 \/ text[c] < 0)
  /\ v.read_all_data => v.codec = "done" /\ v.held = <<>>

\* read_some_data says whether a data frame was taken.
DataIs(v, se, p, k) ==
  /\ v.read_some_data <=> \E j \in 1..k : se[j].kind = "data"
  /\ p[k] > 0 => v.read_some_data

(* Once the data has been taken only the end is left; trailers are         *)
(* somewhere on their way.                                                 *)
EndsAre(v, se, i, o, k) ==
  /\ v.yielded_all_data => k + 1 = Len(se) /\ se[k + 1].kind = "none"
  /\ v.non_data_frame \in {Client!None, Client!Trailers}
  /\ v.non_data_frame # Client!None => v.yielded_all_data
  /\ Has(se, "trailers") <=>
       Has(o, "trailers") \/ v.non_data_frame # Client!None \/ Has(i, "trailers")

\* What was decoded has been given out or is held.
OutputIs(v, o, g, c) == Client!Payload(o) \o v.held = g[c]

Decoding(v, i, o, se, text, p, g, k, c) ==
  /\ v \in Wrap /\ ~v.encodes /\ ~v.finished /\ o \in Seq(Frame)
  /\ Rest(i, se, k) /\ At(v, text, p, k, c) /\ CodecIs(v, text, p, k, c)
  /\ DataIs(v, se, p, k) /\ EndsAre(v, se, i, o, k) /\ OutputIs(v, o, g, c)

\* The next frame of a body, and the body behind it.
LEMMA RestHead ==
  ASSUME NEW se \in Seq(Frame), NEW i, NEW k, Rest(i, se, k), i # <<>>
  PROVE  /\ k \in 0..Len(se) /\ k + 1 \in 1..Len(se) /\ Head(i) = se[k + 1]
         /\ Head(i) \in Frame /\ Rest(Tail(i), se, k + 1)
         /\ \A kind : Has(i, kind) <=> Head(i).kind = kind \/ Has(Tail(i), kind)
<1> DEFINE n == Len(i)  t == Tail(i)  N == Len(se)
<1>1. /\ k \in Nat /\ i \in Seq(Frame) /\ k + n = N /\ N \in Nat
      /\ \A j \in 1..n : i[j] = se[k + j]
  BY LenProperties DEF Rest
<1>2. /\ n \in Nat /\ n > 0 /\ t \in Seq(Frame) /\ Len(t) = n - 1 /\ Head(i) = i[1]
      /\ \A j \in 1..(n - 1) : t[j] = i[j + 1]
      /\ Head(i) \in Frame
  BY <1>1, HeadTailProperties, LenProperties
<1>3. \A kind : Has(i, kind) <=> Head(i).kind = kind \/ Has(Tail(i), kind)
  BY <1>1, HasTail
<1> HIDE DEF n, t, N
<1>4. k \in 0..N /\ k + 1 \in 1..N
  BY <1>1, <1>2
<1>5. i[1] = se[k + 1]
  BY <1>1, <1>2
<1>6. ASSUME NEW j \in 1..(n - 1) PROVE t[j] = se[(k + 1) + j]
  <2>1. j + 1 \in 1..n /\ t[j] = i[j + 1] /\ k + (j + 1) = (k + 1) + j
    BY <1>1, <1>2
  <2>2. i[j + 1] = se[k + (j + 1)]
    BY <1>1, <2>1
  <2> QED  BY <2>1, <2>2
<1>7. (k + 1) + (n - 1) = N /\ k + 1 \in Nat
  BY <1>1, <1>2
<1>8. Rest(t, se, k + 1)
  BY <1>2, <1>6, <1>7 DEF Rest, N
<1> QED  BY <1>2, <1>3, <1>4, <1>5, <1>8 DEF N, t

\* Where the next frame is in the text, and that places do not run backwards.
LEMMA LayoutPlaces ==
  ASSUME NEW se, NEW text, NEW p, Layout(se, text, p)
  PROVE  /\ Len(se) \in Nat /\ Len(text) \in Nat /\ text \in Seq(Int) /\ se \in Seq(Frame)
         /\ p[0] = 0 /\ p[Len(se)] = Len(text)
         /\ \A j \in 0..Len(se) : p[j] \in Nat /\ p[j] <= Len(text)
         /\ \A j \in 1..Len(se) :
              /\ se[j].bytes \in Seq(Int) /\ Len(se[j].bytes) \in Nat
              /\ p[j] = p[j - 1] + Len(se[j].bytes)
              /\ Segment(se[j].bytes, text, p[j - 1])
              /\ se[j].kind # "data" => se[j].bytes = <<>> /\ p[j] = p[j - 1]
<1> DEFINE N == Len(se)  L == Len(text)
<1>1. /\ N \in Nat /\ L \in Nat /\ text \in Seq(Int) /\ se \in Seq(Frame)
      /\ Places(p, se, text, 0, L)
  BY LenProperties DEF Layout
<1>2. /\ p \in [0..N -> Nat] /\ p[0] = 0 /\ p[N] = L
      /\ \A j \in 1..N : /\ p[j] = p[j - 1] + Len(se[j].bytes)
                         /\ Segment(se[j].bytes, text, p[j - 1])
  BY <1>1 DEF Places
<1>3. \A j \in 0..N : p[j] \in Nat /\ p[j] <= L
  <2>1. 0 <= L
    BY <1>1
  <2> QED  BY <1>1, <1>2, <2>1, PlacesBounds
<1>4. ASSUME NEW j \in 1..N
      PROVE  /\ se[j].bytes \in Seq(Int) /\ Len(se[j].bytes) \in Nat
             /\ se[j].kind # "data" => se[j].bytes = <<>> /\ p[j] = p[j - 1]
  <2>1. /\ se[j].bytes \in Seq(Int) /\ Len(se[j].bytes) \in Nat
        /\ se[j].kind # "data" => se[j].bytes = <<>>
    BY <1>1, FrameAt
  <2>2. j - 1 \in 0..N
    BY <1>1
  <2>3. p[j - 1] \in Nat /\ p[j] = p[j - 1] + Len(se[j].bytes)
    BY <1>2, <1>3, <2>2
  <2>4. se[j].bytes = <<>> => Len(se[j].bytes) = 0
    OBVIOUS
  <2> HIDE DEF N
  <2> QED  BY <2>1, <2>3, <2>4
<1> QED  BY <1>1, <1>2, <1>3, <1>4

\* Places do not run backwards, by induction on their distance.
LEMMA PlacesAscend ==
  ASSUME NEW se, NEW text, NEW p, Layout(se, text, p), NEW a \in 0..Len(se), NEW b \in a..Len(se)
  PROVE  p[a] <= p[b]
<1> DEFINE N == Len(se)  S == {d \in Nat : a + d <= N => p[a] <= p[a + d]}
<1>1. /\ N \in Nat /\ a \in Nat /\ \A j \in 0..N : p[j] \in Nat
      /\ \A j \in 1..N : Len(se[j].bytes) \in Nat /\ p[j] = p[j - 1] + Len(se[j].bytes)
  BY LayoutPlaces
<1> HIDE DEF N
<1>2. 0 \in S
  <2>1. a + 0 = a /\ p[a] \in Nat
    BY <1>1 DEF N
  <2> QED  BY <2>1
<1>3. ASSUME NEW d \in Nat, d \in S PROVE d + 1 \in S
  <2> SUFFICES ASSUME a + (d + 1) <= N PROVE p[a] <= p[a + (d + 1)]
    OBVIOUS
  <2> DEFINE j == a + (d + 1)
  <2>1. j \in 1..N /\ j - 1 = a + d /\ a + d <= N /\ a + d \in 0..N /\ a \in 0..N
    BY <1>1 DEF N
  <2> HIDE DEF j
  <2>2. p[a] <= p[a + d]
    BY <1>3, <2>1
  <2>3. p[j] = p[a + d] + Len(se[j].bytes) /\ Len(se[j].bytes) \in Nat
    BY <1>1, <2>1
  <2>4. p[a] \in Nat /\ p[a + d] \in Nat
    BY <1>1, <2>1
  <2>5. p[a] <= p[j]
    BY <2>2, <2>3, <2>4
  <2> QED  BY <2>5 DEF j
<1>4. \A d \in Nat : d \in S
  <2> HIDE DEF S
  <2> QED  BY <1>2, <1>3, FromZero
<1>5. b - a \in Nat /\ a + (b - a) = b /\ b <= N
  BY <1>1 DEF N
<1>6. b - a \in S
  BY <1>4, <1>5
<1> QED  BY <1>5, <1>6

-----------------------------------------------------------------------------
\* The numbers of the invariant.
LEMMA DecodingNumbers ==
  ASSUME NEW v, NEW i, NEW o, NEW se, NEW text, NEW p, NEW g, NEW k, NEW c,
         Layout(se, text, p), Decoding(v, i, o, se, text, p, g, k, c)
  PROVE  /\ k \in 0..Len(se) /\ k \in Nat /\ c \in Nat /\ c <= Len(text) /\ Len(text) \in Nat
         /\ Len(se) \in Nat /\ p[k] \in Nat /\ p[k] <= Len(text) /\ Len(v.chunk) \in Nat
         /\ v.chunk \in Seq(Int) /\ v.held \in Seq(Int) /\ c + Len(v.chunk) = p[k]
         /\ Client!Payload(o) \in Seq(Int)
         /\ \A j \in 1..Len(text) : text[j] \in Int
<1>1. v \in Wrap /\ o \in Seq(Frame) /\ Rest(i, se, k) /\ At(v, text, p, k, c)
  BY DEF Decoding
<1>2. /\ v.chunk \in Seq(Int) /\ v.held \in Seq(Int) /\ Len(v.chunk) \in Nat
  BY <1>1, LenProperties DEF Wrap
<1>3. /\ Len(text) \in Nat /\ Len(se) \in Nat /\ text \in Seq(Int)
      /\ \A j \in 0..Len(se) : p[j] \in Nat /\ p[j] <= Len(text)
  BY LayoutPlaces
<1>4. k \in Nat /\ i \in Seq(Frame) /\ k + Len(i) = Len(se)
  BY <1>1 DEF Rest
<1>5. Len(i) \in Nat
  BY <1>4, LenProperties
<1>6. k \in 0..Len(se)
  BY <1>3, <1>4, <1>5
<1>7. c \in Nat /\ c + Len(v.chunk) <= Len(text) /\ c + Len(v.chunk) = p[k]
  BY <1>1 DEF At, Segment
<1>8. Client!Payload(o) \in Seq(Int)
  <2>1. PICK q : Glued(q, o)
    BY <1>1, GluedExists
  <2>2. Client!Payload(o) = q[Len(o)] /\ Len(o) \in Nat
    BY <1>1, <2>1, PayloadIs, LenProperties
  <2> QED  BY <2>1, <2>2 DEF Glued
<1>9. c <= Len(text)
  BY <1>2, <1>3, <1>7
<1> QED  BY <1>2, <1>3, <1>4, <1>6, <1>7, <1>8, <1>9, ElementOfSeq

\* The decoder takes a data frame.
LEMMA DecodingData ==
  ASSUME NEW v, NEW i, NEW o, NEW se, NEW text, NEW p, NEW g, NEW k, NEW c,
         NEW v2, NEW i2, NEW o2, NEW f,
         Layout(se, text, p), Decoding(v, i, o, se, text, p, g, k, c),
         Takes(v, i, f), MeetsData(v, i, o, v2, i2, o2, f)
  PROVE  Decoding(v2, i2, o2, se, text, p, g, k + 1, c)
<1>1. /\ k \in 0..Len(se) /\ k \in Nat /\ c \in Nat /\ Len(se) \in Nat /\ p[k] \in Nat
      /\ c + Len(v.chunk) = p[k] /\ Len(text) \in Nat
  BY DecodingNumbers
<1>2. /\ v \in Wrap /\ ~v.encodes /\ o \in Seq(Frame) /\ Rest(i, se, k)
      /\ At(v, text, p, k, c) /\ CodecIs(v, text, p, k, c)
      /\ DataIs(v, se, p, k) /\ EndsAre(v, se, i, o, k) /\ OutputIs(v, o, g, c)
  BY DEF Decoding
<1>3. /\ i # <<>> /\ f = Head(i) /\ v.chunk = <<>> /\ v.codec \in {"open", "between"}
      /\ ~v.yielded_all_data /\ ~v.read_all_data
  BY DEF Takes
<1>4. /\ f.kind = "data" /\ i2 = Tail(i) /\ o2 = o
      /\ v2 \in Wrap /\ ~v2.encodes /\ ~v2.finished /\ ~v2.yielded_all_data
      /\ v2.non_data_frame = v.non_data_frame /\ v2.read_some_data = TRUE
      /\ v2.chunk = f.bytes /\ v2.codec = v.codec /\ v2.held = v.held
      /\ v2.read_all_data = FALSE /\ v2.multiple_members = v.multiple_members
  BY <1>2 DEF MeetsData, Turns, Becomes
<1>5. /\ se \in Seq(Frame)
      /\ \A j \in 0..Len(se) : p[j] \in Nat
      /\ \A j \in 1..Len(se) :
           /\ se[j].bytes \in Seq(Int) /\ Len(se[j].bytes) \in Nat
           /\ p[j] = p[j - 1] + Len(se[j].bytes)
           /\ Segment(se[j].bytes, text, p[j - 1])
  BY LayoutPlaces
<1>6. /\ k + 1 \in 1..Len(se) /\ f = se[k + 1] /\ Rest(i2, se, k + 1)
      /\ \A kind : Has(i, kind) <=> f.kind = kind \/ Has(i2, kind)
  <2>1. /\ k + 1 \in 1..Len(se) /\ Head(i) = se[k + 1] /\ Rest(Tail(i), se, k + 1)
        /\ \A kind : Has(i, kind) <=> Head(i).kind = kind \/ Has(Tail(i), kind)
    BY <1>2, <1>3, <1>5, RestHead
  <2> QED  BY <1>3, <1>4, <2>1
<1>7. Len(v.chunk) = 0 /\ c = p[k]
  BY <1>1, <1>3
<1>8. p[k + 1] = p[k] + Len(f.bytes) /\ Segment(f.bytes, text, p[k]) /\ Len(f.bytes) \in Nat
  <2>1. (k + 1) - 1 = k
    BY <1>1
  <2> QED  BY <1>5, <1>6, <2>1
<1>9. At(v2, text, p, k + 1, c)
  <2>1. ASSUME NEW j \in 0..(k + 1) PROVE p[j] <= c \/ p[j] = p[k + 1]
    <3>1. CASE j = k + 1
      BY <3>1
    <3>2. CASE j # k + 1
      <4>1. j \in 0..k
        BY <1>1, <3>2
      <4>2. p[j] <= c \/ p[j] = p[k]
        BY <1>2, <4>1 DEF At
      <4> QED  BY <1>1, <1>7, <4>2
    <3> QED  BY <3>1, <3>2
  <2> QED  BY <1>4, <1>7, <1>8, <2>1 DEF At
<1>10. CodecIs(v2, text, p, k + 1, c)
  <2>1. v2.codec # "done" /\ v2.codec # "failed"
    BY <1>3, <1>4
  <2> QED  BY <1>2, <1>4, <2>1 DEF CodecIs
<1>11. DataIs(v2, se, p, k + 1)
  <2>1. k + 1 \in 1..(k + 1) /\ se[k + 1].kind = "data"
    BY <1>1, <1>4, <1>6
  <2> QED  BY <1>4, <2>1 DEF DataIs
<1>12. EndsAre(v2, se, i2, o2, k + 1)
  <2>1. Has(i, "trailers") <=> Has(i2, "trailers")
    BY <1>4, <1>6
  <2> QED  BY <1>2, <1>3, <1>4, <2>1 DEF EndsAre
<1>13. OutputIs(v2, o2, g, c)
  BY <1>2, <1>4 DEF OutputIs
<1> QED  BY <1>2, <1>4, <1>6, <1>9, <1>10, <1>11, <1>12, <1>13 DEF Decoding

\* What the invariant says of the codec rests on these fields.
Unmoved(v, v2) ==
  /\ v2.chunk = v.chunk /\ v2.codec = v.codec /\ v2.held = v.held
  /\ v2.multiple_members = v.multiple_members /\ v2.read_all_data = v.read_all_data
  /\ v.yielded_all_data => v2.yielded_all_data

\* The next frame has no bytes.
Hollow(se, k) == k \in Nat /\ k + 1 \in 1..Len(se) /\ se[k + 1].bytes = <<>>

\* A frame that is not data, or has no bytes, moves nothing.
LEMMA EmptyFrameStays ==
  ASSUME NEW v, NEW v2, NEW se, NEW text, NEW p, NEW k, NEW c, Layout(se, text, p),
         Hollow(se, k),
         At(v, text, p, k, c), CodecIs(v, text, p, k, c), Unmoved(v, v2)
  PROVE  At(v2, text, p, k + 1, c) /\ CodecIs(v2, text, p, k + 1, c) /\ p[k + 1] = p[k]
<1> k \in Nat /\ k + 1 \in 1..Len(se) /\ se[k + 1].bytes = <<>>
  BY DEF Hollow
<1>1. p[k + 1] = p[k]
  <2>1. Len(se[k + 1].bytes) = 0 /\ (k + 1) - 1 = k /\ k \in 0..Len(se)
    <3>1. Len(se) \in Nat
      BY LayoutPlaces
    <3> QED  BY <3>1
  <2> DEFINE j == k + 1
  <2>2. p[k] \in Nat /\ p[j] = p[j - 1] + Len(se[j].bytes)
    <3>1. j \in 1..Len(se)
      OBVIOUS
    <3> HIDE DEF j
    <3> QED  BY <2>1, <3>1, LayoutPlaces
  <2> QED  BY <2>1, <2>2
<1>2. \A j \in 0..(k + 1) : j \in 0..k \/ j = k + 1
  OBVIOUS
<1>3. At(v2, text, p, k + 1, c)
  BY <1>1, <1>2 DEF At, Unmoved
<1>4. CodecIs(v2, text, p, k + 1, c)
  <2>1. ~v.multiple_members /\ v.codec = "done" =>
          \A j \in 0..(k + 1) : p[j] < c \/ p[j] = p[k + 1]
    BY <1>1, <1>2 DEF CodecIs
  <2> QED  BY <1>1, <2>1 DEF CodecIs, Unmoved
<1> QED  BY <1>1, <1>3, <1>4

\* What follows the data of a body.
LEMMA OrderlyNext ==
  ASSUME NEW se, NEW text, NEW p, Layout(se, text, p), NEW k \in Nat, k + 1 \in 1..Len(se)
  PROVE  /\ se[k + 1].kind \in {"none", "error"} => k + 1 = Len(se)
         /\ se[k + 1].kind = "trailers" => (k + 1) + 1 = Len(se) /\ se[(k + 1) + 1].kind = "none"
         /\ se[k + 1].kind # "data" => se[k + 1].bytes = <<>>
         /\ k + 1 = Len(se) => p[k] = Len(text)
<1> DEFINE j == k + 1
<1>1. /\ j \in 1..Len(se) /\ j - 1 = k /\ Orderly(se) /\ se \in Seq(Frame)
      /\ Len(se) \in Nat /\ p[Len(se)] = Len(text) /\ se[Len(se)].kind \in {"none", "error"}
      /\ \A n \in 1..Len(se) : se[n].kind # "data" => se[n].bytes = <<>> /\ p[n] = p[n - 1]
  BY LayoutPlaces DEF Layout
<1> HIDE DEF j
<1>2. /\ se[j].kind \in {"none", "error"} => j = Len(se)
      /\ se[j].kind = "trailers" => j + 1 = Len(se) /\ se[j + 1].kind = "none"
      /\ se[j].kind # "data" => se[j].bytes = <<>> /\ p[j] = p[j - 1]
  BY <1>1 DEF Orderly
<1>3. j = Len(se) => p[k] = Len(text)
  BY <1>1, <1>2
<1> QED  BY <1>2, <1>3 DEF j

\* The decoder meets trailers, or the end of the body.
LEMMA DecodingTrailers ==
  ASSUME NEW v, NEW i, NEW o, NEW se, NEW text, NEW p, NEW g, NEW k, NEW c,
         NEW v2, NEW i2, NEW o2, NEW f,
         Layout(se, text, p), Decoding(v, i, o, se, text, p, g, k, c),
         Takes(v, i, f), MeetsTrailers(v, i, o, v2, i2, o2, f)
  PROVE  Decoding(v2, i2, o2, se, text, p, g, k + 1, c)
<1>1. k \in Nat /\ Len(se) \in Nat
  BY DecodingNumbers
<1>2. /\ v \in Wrap /\ ~v.encodes /\ o \in Seq(Frame) /\ Rest(i, se, k)
      /\ At(v, text, p, k, c) /\ CodecIs(v, text, p, k, c)
      /\ DataIs(v, se, p, k) /\ EndsAre(v, se, i, o, k) /\ OutputIs(v, o, g, c)
  BY DEF Decoding
<1>3. /\ i # <<>> /\ f = Head(i) /\ ~v.yielded_all_data /\ ~v.read_all_data
      /\ v.codec \in {"open", "between"}
  BY DEF Takes
<1>4. /\ f.kind = "trailers" /\ i2 = Tail(i) /\ o2 = o
      /\ v2 \in Wrap /\ ~v2.encodes /\ ~v2.finished /\ v2.yielded_all_data
      /\ v2.non_data_frame = f /\ v2.read_some_data = v.read_some_data
      /\ v2.chunk = v.chunk /\ v2.codec = v.codec /\ v2.held = v.held
      /\ v2.read_all_data = FALSE /\ v2.multiple_members = v.multiple_members
  BY <1>2 DEF MeetsTrailers, Turns, Becomes
<1>5. se \in Seq(Frame)
  BY DEF Layout
<1>6. /\ k + 1 \in 1..Len(se) /\ Head(i) = se[k + 1] /\ Rest(Tail(i), se, k + 1)
      /\ Head(i) \in Frame
      /\ \A kind : Has(i, kind) <=> Head(i).kind = kind \/ Has(Tail(i), kind)
  BY <1>2, <1>3, <1>5, RestHead
<1>7. /\ (k + 1) + 1 = Len(se) /\ se[(k + 1) + 1].kind = "none" /\ se[k + 1].bytes = <<>>
      /\ se[k + 1].kind = "trailers"
  BY <1>1, <1>3, <1>4, <1>6, OrderlyNext
<1>8. At(v2, text, p, k + 1, c) /\ CodecIs(v2, text, p, k + 1, c) /\ p[k + 1] = p[k]
  <2>1. v2.read_all_data = v.read_all_data
    BY <1>2, <1>3, <1>4 DEF Wrap
  <2>2. /\ Layout(se, text, p) /\ Hollow(se, k)
        /\ At(v, text, p, k, c) /\ CodecIs(v, text, p, k, c)
        /\ Unmoved(v, v2)
    BY <1>1, <1>2, <1>4, <1>6, <1>7, <2>1 DEF Unmoved, Hollow
  <2> QED  BY <2>2, EmptyFrameStays
<1>9. DataIs(v2, se, p, k + 1)
  <2>1. (\E j \in 1..(k + 1) : se[j].kind = "data") <=> (\E j \in 1..k : se[j].kind = "data")
    <3>1. \A j \in 1..(k + 1) : j \in 1..k \/ j = k + 1
      BY <1>1
    <3>2. \A j \in 1..k : j \in 1..(k + 1)
      BY <1>1
    <3> QED  BY <1>7, <3>1, <3>2
  <2> QED  BY <1>2, <1>4, <1>8, <2>1 DEF DataIs
<1>10. EndsAre(v2, se, i2, o2, k + 1)
  <2>1. f = Client!Trailers /\ f # Client!None
    BY <1>3, <1>4, <1>6, FramesAre
  <2>2. Has(i, "trailers")
    BY <1>3, <1>4, <1>6
  <2> QED  BY <1>2, <1>4, <1>7, <2>1, <2>2 DEF EndsAre
<1>11. OutputIs(v2, o2, g, c)
  BY <1>2, <1>4 DEF OutputIs
<1> QED  BY <1>2, <1>4, <1>6, <1>8, <1>9, <1>10, <1>11 DEF Decoding

\* The decoder meets the end of the body.
LEMMA DecodingEnd ==
  ASSUME NEW v, NEW i, NEW o, NEW se, NEW text, NEW p, NEW g, NEW k, NEW c,
         NEW v2, NEW i2, NEW o2, NEW f,
         Layout(se, text, p), Decoding(v, i, o, se, text, p, g, k, c),
         Takes(v, i, f), MeetsEnd(v, i, o, v2, i2, o2, f)
  PROVE  Decoding(v2, i2, o2, se, text, p, g, k, c)
<1>1. k \in Nat /\ Len(se) \in Nat
  BY DecodingNumbers
<1>2. /\ v \in Wrap /\ ~v.encodes /\ o \in Seq(Frame) /\ Rest(i, se, k)
      /\ At(v, text, p, k, c) /\ CodecIs(v, text, p, k, c)
      /\ DataIs(v, se, p, k) /\ EndsAre(v, se, i, o, k) /\ OutputIs(v, o, g, c)
  BY DEF Decoding
<1>3. /\ i # <<>> /\ f = Head(i) /\ ~v.yielded_all_data /\ ~v.read_all_data
      /\ v.codec \in {"open", "between"}
  BY DEF Takes
<1>4. /\ f.kind = "none" /\ i2 = i /\ o2 = o
      /\ v2 \in Wrap /\ ~v2.encodes /\ ~v2.finished /\ v2.yielded_all_data
      /\ v2.non_data_frame = v.non_data_frame /\ v2.read_some_data = v.read_some_data
      /\ v2.chunk = v.chunk /\ v2.codec = v.codec /\ v2.held = v.held
      /\ v2.read_all_data = FALSE /\ v2.multiple_members = v.multiple_members
  BY <1>2 DEF MeetsEnd, Turns, Becomes
<1>5. se \in Seq(Frame)
  BY DEF Layout
<1>6. k + 1 \in 1..Len(se) /\ Head(i) = se[k + 1]
  BY <1>2, <1>3, <1>5, RestHead
<1>7. k + 1 = Len(se) /\ se[k + 1].kind = "none"
  BY <1>1, <1>3, <1>4, <1>6, OrderlyNext
<1>8. At(v2, text, p, k, c) /\ DataIs(v2, se, p, k) /\ OutputIs(v2, o2, g, c)
  BY <1>2, <1>4 DEF At, DataIs, OutputIs
<1>9. CodecIs(v2, text, p, k, c)
  <2>1. v2.codec # "done" /\ v2.codec # "failed"
    BY <1>3, <1>4
  <2> QED  BY <1>2, <1>4, <2>1 DEF CodecIs
<1>10. EndsAre(v2, se, i2, o2, k)
  BY <1>2, <1>4, <1>7 DEF EndsAre
<1> QED  BY <1>2, <1>4, <1>8, <1>9, <1>10 DEF Decoding

\* The codec meets the end of its input.
LEMMA DecodingStarves ==
  ASSUME NEW v, NEW i, NEW o, NEW se, NEW text, NEW p, NEW g, NEW k, NEW c, NEW v2,
         Layout(se, text, p), Decoding(v, i, o, se, text, p, g, k, c), Starves(v, v2)
  PROVE  Decoding(v2, i, o, se, text, p, g, k, c)
<1>1. k \in Nat /\ Len(se) \in Nat /\ c \in Nat /\ Len(text) \in Nat /\ c + Len(v.chunk) = p[k]
      /\ p[k] \in Nat
  BY DecodingNumbers
<1>2. /\ v \in Wrap /\ ~v.encodes /\ o \in Seq(Frame) /\ Rest(i, se, k)
      /\ At(v, text, p, k, c) /\ CodecIs(v, text, p, k, c)
      /\ DataIs(v, se, p, k) /\ EndsAre(v, se, i, o, k) /\ OutputIs(v, o, g, c)
  BY DEF Decoding
<1> DEFINE co == IF v.codec = "between" THEN "done" ELSE "failed"
<1>3. /\ v.chunk = <<>> /\ v.codec \in {"open", "between"} /\ v.yielded_all_data
      /\ ~v.read_all_data
      /\ v2 \in Wrap /\ ~v2.encodes /\ ~v2.finished /\ v2.yielded_all_data
      /\ v2.non_data_frame = v.non_data_frame /\ v2.read_some_data = v.read_some_data
      /\ v2.chunk = v.chunk /\ v2.codec = co /\ v2.held = v.held
      /\ v2.read_all_data = FALSE /\ v2.multiple_members = v.multiple_members
  BY <1>2 DEF Starves, Turns, Becomes
<1>4. c = Len(text) /\ c = p[k]
  <2>1. k + 1 = Len(se)
    BY <1>2, <1>3 DEF EndsAre
  <2>2. k + 1 \in 1..Len(se)
    BY <1>1, <2>1
  <2>3. p[k] = Len(text)
    BY <1>1, <2>1, <2>2, OrderlyNext
  <2>4. Len(v.chunk) = 0
    BY <1>3
  <2> QED  BY <1>1, <2>3, <2>4
<1>5. CodecIs(v2, text, p, k, c)
  <2>1. CASE v.codec = "between"
    <3>1. v2.codec = "done" /\ v.multiple_members /\ c > 0 /\ text[c] = 0
      BY <1>2, <1>3, <2>1 DEF CodecIs
    <3> QED  BY <1>2, <1>3, <1>4, <3>1 DEF CodecIs
  <2>2. CASE v.codec = "open"
    <3>1. v2.codec = "failed" /\ (c = 0 \/ text[c] < 0)
      BY <1>2, <1>3, <2>2 DEF CodecIs
    <3>2. ~v.multiple_members => \A j \in 1..c : text[j] = 0 => j = c /\ v2.codec = "done"
      BY <1>2, <2>2 DEF CodecIs
    <3> QED  BY <1>2, <1>3, <1>4, <3>1, <3>2 DEF CodecIs
  <2> QED  BY <1>3, <2>1, <2>2
<1>6. /\ At(v2, text, p, k, c) /\ DataIs(v2, se, p, k) /\ OutputIs(v2, o, g, c)
      /\ EndsAre(v2, se, i, o, k)
  BY <1>2, <1>3 DEF At, DataIs, OutputIs, EndsAre
<1> QED  BY <1>2, <1>3, <1>5, <1>6 DEF Decoding

\* The codec consumes a byte, or refuses it.
LEMMA DecodingStrips ==
  ASSUME NEW v, NEW i, NEW o, NEW se, NEW text, NEW p, NEW g, NEW k, NEW c, NEW v2,
         Layout(se, text, p), Stripped(g, text),
         Decoding(v, i, o, se, text, p, g, k, c), Strip(v, v2)
  PROVE  \E d : Decoding(v2, i, o, se, text, p, g, k, d)
<1>1. /\ k \in Nat /\ Len(se) \in Nat /\ c \in Nat /\ Len(text) \in Nat
      /\ c + Len(v.chunk) = p[k] /\ p[k] \in Nat /\ v.chunk \in Seq(Int) /\ v.held \in Seq(Int)
      /\ k \in 0..Len(se) /\ Client!Payload(o) \in Seq(Int) /\ Len(v.chunk) \in Nat
  BY DecodingNumbers
<1>2. /\ v \in Wrap /\ ~v.encodes /\ o \in Seq(Frame) /\ Rest(i, se, k)
      /\ At(v, text, p, k, c) /\ CodecIs(v, text, p, k, c)
      /\ DataIs(v, se, p, k) /\ EndsAre(v, se, i, o, k) /\ OutputIs(v, o, g, c)
  BY DEF Decoding
<1>3. v.chunk # <<>> /\ v.codec \in {"open", "between"}
  BY DEF Strip
<1> DEFINE ch == v.chunk  x == Head(ch)  t == Tail(ch)  d == c + 1
<1>4. /\ text \in Seq(Int) /\ Segment(ch, text, c)
      /\ \A j \in 0..Len(se) : p[j] \in Nat
  BY <1>2, LayoutPlaces DEF At
<1>5. /\ x = text[d] /\ d <= Len(text) /\ t \in Seq(Int) /\ Len(t) = Len(ch) - 1
      /\ Segment(t, text, d)
  BY <1>1, <1>3, <1>4, SegmentHead
<1>6. d \in Nat /\ d \in 1..Len(text) /\ d - 1 = c /\ x \in Int /\ d > 0 /\ d + Len(t) = p[k]
  <2>1. d \in 1..Len(text) /\ d - 1 = c /\ d \in Nat /\ d > 0
    BY <1>1, <1>5
  <2>2. text[d] \in Int
    BY <1>4, <2>1, ElementOfSeq
  <2>3. d + Len(t) = p[k]
    <3> DEFINE l == Len(ch)  m == Len(t)  q == p[k]
    <3>1. m = l - 1 /\ c + l = q /\ l \in Nat /\ c \in Nat
      BY <1>1, <1>5
    <3> HIDE DEF l, m, q
    <3>2. (c + 1) + m = q
      BY <3>1
    <3> QED  BY <3>2 DEF m, q
  <2> QED  BY <1>5, <2>1, <2>2, <2>3
<1>7. g[d] = IF text[d] < 0 THEN Append(g[c], -text[d]) ELSE g[c]
  BY <1>6 DEF Stripped
<1>8. \A j \in 1..d : j \in 1..c \/ j = d
  BY <1>1
<1>9. ~v.read_all_data /\ \A j \in 1..c : text[j] <= 0
  BY <1>2, <1>3 DEF CodecIs
<1>10. ~v.multiple_members => \A j \in 1..c : text[j] # 0
  BY <1>2, <1>3 DEF CodecIs
<1>11. \A j \in 0..k : p[j] <= c \/ p[j] = p[k]
  BY <1>2 DEF At
<1>12. \A j \in 0..k : p[j] < d \/ p[j] = p[k]
  <2>1. ASSUME NEW j \in 0..k PROVE p[j] < d \/ p[j] = p[k]
    <3>1. p[j] \in Nat
      BY <1>1, <1>4
    <3>2. p[j] <= c \/ p[j] = p[k]
      BY <1>11
    <3> QED  BY <1>1, <3>1, <3>2
  <2> QED  BY <2>1
<1>13. \A j \in 0..k : p[j] <= d \/ p[j] = p[k]
  <2>1. ASSUME NEW j \in 0..k PROVE p[j] <= d \/ p[j] = p[k]
    <3>1. p[j] \in Nat
      BY <1>1, <1>4
    <3>2. p[j] < d \/ p[j] = p[k]
      BY <1>12
    <3> QED  BY <1>6, <3>1, <3>2
  <2> QED  BY <2>1
<1>14. Client!Payload(o) \o v.held = g[c]
  BY <1>2 DEF OutputIs
<1> HIDE DEF x, t, d, ch
<1>15. CASE x < 0
  <2> DEFINE he == Append(v.held, -x)
  <2>1. /\ v2 \in Wrap /\ ~v2.encodes /\ ~v2.finished /\ v2.yielded_all_data = v.yielded_all_data
        /\ v2.non_data_frame = v.non_data_frame /\ v2.read_some_data = v.read_some_data
        /\ v2.chunk = t /\ v2.codec = "open" /\ v2.held = he
        /\ v2.read_all_data = v.read_all_data /\ v2.multiple_members = v.multiple_members
    BY <1>2, <1>15 DEF Strip, Turns, Becomes, x, t, ch
  <2>2. At(v2, text, p, k, d)
    BY <1>5, <1>6, <1>13, <2>1 DEF At
  <2>3. CodecIs(v2, text, p, k, d)
    <3>1. \A j \in 1..d : text[j] <= 0
      BY <1>5, <1>6, <1>8, <1>9, <1>15
    <3>2. ~v.multiple_members => \A j \in 1..d : text[j] # 0
      BY <1>5, <1>6, <1>8, <1>10, <1>15
    <3> QED  BY <1>5, <1>6, <1>9, <1>15, <2>1, <3>1, <3>2 DEF CodecIs
  <2>4. OutputIs(v2, o, g, d)
    <3>1. g[d] = Append(g[c], -x)
      BY <1>5, <1>7, <1>15
    <3>2. -x \in Int
      BY <1>6
    <3>3. Append(Client!Payload(o) \o v.held, -x) = Client!Payload(o) \o Append(v.held, -x)
      BY <1>1, <3>2, OutputGrows
    <3> QED  BY <1>14, <2>1, <3>1, <3>3 DEF OutputIs
  <2>5. DataIs(v2, se, p, k) /\ EndsAre(v2, se, i, o, k)
    BY <1>2, <2>1 DEF DataIs, EndsAre
  <2> QED  BY <1>2, <2>1, <2>2, <2>3, <2>4, <2>5 DEF Decoding
<1>16. CASE x = 0
  <2> DEFINE co == IF v.multiple_members THEN "between" ELSE "done"
  <2>1. /\ v2 \in Wrap /\ ~v2.encodes /\ ~v2.finished /\ v2.yielded_all_data = v.yielded_all_data
        /\ v2.non_data_frame = v.non_data_frame /\ v2.read_some_data = v.read_some_data
        /\ v2.chunk = t /\ v2.codec = co /\ v2.held = v.held
        /\ v2.read_all_data = v.read_all_data /\ v2.multiple_members = v.multiple_members
    BY <1>2, <1>16 DEF Strip, Turns, Becomes, x, t, ch
  <2>2. At(v2, text, p, k, d)
    BY <1>5, <1>6, <1>13, <2>1 DEF At
  <2>3. CodecIs(v2, text, p, k, d)
    <3>1. \A j \in 1..d : text[j] <= 0
      <4>1. text[d] = 0
        BY <1>5, <1>16
      <4>2. text[d] <= 0
        BY <4>1
      <4>3. \A j \in 1..c : text[j] <= 0
        BY <1>9
      <4> QED  BY <1>8, <4>2, <4>3
    <3>2. ~v.multiple_members => \A j \in 1..d : text[j] = 0 => j = d
      BY <1>8, <1>10
    <3>3. CASE v.multiple_members
      BY <1>5, <1>6, <1>9, <1>16, <2>1, <3>1, <3>3 DEF CodecIs
    <3>4. CASE ~v.multiple_members
      BY <1>5, <1>6, <1>9, <1>12, <1>16, <2>1, <3>1, <3>2, <3>4 DEF CodecIs
    <3> QED  BY <3>3, <3>4
  <2>4. OutputIs(v2, o, g, d)
    <3>1. g[d] = g[c]
      BY <1>5, <1>7, <1>16
    <3> QED  BY <1>14, <2>1, <3>1 DEF OutputIs
  <2>5. DataIs(v2, se, p, k) /\ EndsAre(v2, se, i, o, k)
    BY <1>2, <2>1 DEF DataIs, EndsAre
  <2> QED  BY <1>2, <2>1, <2>2, <2>3, <2>4, <2>5 DEF Decoding
<1>17. CASE x > 0
  <2>1. /\ v2 \in Wrap /\ ~v2.encodes /\ ~v2.finished /\ v2.yielded_all_data = v.yielded_all_data
        /\ v2.non_data_frame = v.non_data_frame /\ v2.read_some_data = v.read_some_data
        /\ v2.chunk = v.chunk /\ v2.codec = "failed" /\ v2.held = v.held
        /\ v2.read_all_data = v.read_all_data /\ v2.multiple_members = v.multiple_members
    BY <1>2, <1>17 DEF Strip, Turns, Becomes, x, ch
  <2>2. c < p[k] /\ text[c + 1] > 0
    <3>1. Len(t) \in Nat
      BY <1>5, LenProperties
    <3>2. c < p[k]
      BY <1>1, <1>6, <3>1 DEF d
    <3> QED  BY <1>5, <1>17, <3>2 DEF d
  <2>3. CodecIs(v2, text, p, k, c)
    BY <1>9, <1>10, <2>1, <2>2 DEF CodecIs
  <2>4. /\ At(v2, text, p, k, c) /\ DataIs(v2, se, p, k) /\ OutputIs(v2, o, g, c)
        /\ EndsAre(v2, se, i, o, k)
    BY <1>2, <2>1 DEF At, DataIs, OutputIs, EndsAre
  <2> QED  BY <1>2, <2>1, <2>3, <2>4 DEF Decoding
<1> QED  BY <1>6, <1>15, <1>16, <1>17

\* What the caller is given: a frame, with its bytes.
LEMMA GivenFrame ==
  ASSUME NEW o \in Seq(Frame), NEW f \in Frame
  PROVE  /\ Append(o, f) \in Seq(Frame)
         /\ Has(Append(o, f), "trailers") <=> Has(o, "trailers") \/ f.kind = "trailers"
         /\ f.bytes = <<>> => Client!Payload(Append(o, f)) = Client!Payload(o)
<1>1. Append(o, f) \in Seq(Frame)
  BY AppendProperties
<1>2. Has(Append(o, f), "trailers") <=> Has(o, "trailers") \/ f.kind = "trailers"
  BY HasAppend
<1>3. ASSUME f.bytes = <<>> PROVE Client!Payload(Append(o, f)) = Client!Payload(o)
  <2> DEFINE s == Client!Payload(o)
  <2>1. s \in Seq(Int) /\ Client!Payload(Append(o, f)) = s \o f.bytes
    BY PayloadAppend
  <2> HIDE DEF s
  <2>2. s \o <<>> = s
    BY <2>1, ConcatEmptySeq
  <2> QED  BY <1>3, <2>1, <2>2 DEF s
<1> QED  BY <1>1, <1>2, <1>3

\* The decoder gives out some of what it holds.
LEMMA DecodingGives ==
  ASSUME NEW v, NEW i, NEW o, NEW se, NEW text, NEW p, NEW g, NEW k, NEW c, NEW v2, NEW o2,
         Layout(se, text, p), Decoding(v, i, o, se, text, p, g, k, c), Gives(v, o, v2, o2)
  PROVE  Decoding(v2, i, o2, se, text, p, g, k, c)
<1>1. v.held \in Seq(Int) /\ Client!Payload(o) \in Seq(Int)
  BY DecodingNumbers
<1>2. /\ v \in Wrap /\ ~v.encodes /\ o \in Seq(Frame) /\ Rest(i, se, k)
      /\ At(v, text, p, k, c) /\ CodecIs(v, text, p, k, c)
      /\ DataIs(v, se, p, k) /\ EndsAre(v, se, i, o, k) /\ OutputIs(v, o, g, c)
  BY DEF Decoding
<1>3. PICK n \in 1..Len(v.held) :
        /\ o2 = Append(o, Client!Data(SubSeq(v.held, 1, n)))
        /\ Turns(v, v.yielded_all_data, v.non_data_frame, v.read_some_data, v.chunk, v.codec,
                 SubSeq(v.held, n + 1, Len(v.held)), FALSE, FALSE, v2)
  BY DEF Gives
<1> DEFINE b == SubSeq(v.held, 1, n)  h == SubSeq(v.held, n + 1, Len(v.held))
           s == Client!Payload(o)  f == Client!Data(b)
<1>4. ~v.read_all_data
  BY DEF Gives
<1>5. /\ v2 \in Wrap /\ ~v2.encodes /\ ~v2.finished /\ v2.yielded_all_data = v.yielded_all_data
      /\ v2.non_data_frame = v.non_data_frame /\ v2.read_some_data = v.read_some_data
      /\ v2.chunk = v.chunk /\ v2.codec = v.codec /\ v2.held = h
      /\ v2.read_all_data = FALSE /\ v2.multiple_members = v.multiple_members
  BY <1>2, <1>3 DEF Turns, Becomes
<1>6. b \in Seq(Int)
  <2>1. Len(v.held) \in Nat
    BY <1>1, LenProperties
  <2>2. \A j \in 1..n : v.held[j] \in Int
    BY <1>1, <2>1, ElementOfSeq
  <2>3. 1 \in Int /\ n \in Int
    OBVIOUS
  <2> QED  BY <1>1, <2>2, <2>3, SubSeqProperties
<1>7. f \in Frame /\ f.kind = "data" /\ f.bytes = b
  BY <1>6, FramesAre
<1>8. (s \o b) \o h = s \o v.held
  BY <1>1, OutputGrows
<1> HIDE DEF b, h, f
<1>9. /\ o2 = Append(o, f) /\ o2 \in Seq(Frame)
      /\ Has(o2, "trailers") <=> Has(o, "trailers")
  <2>1. o2 = Append(o, f)
    BY <1>3 DEF f, b
  <2> QED  BY <1>2, <1>7, <2>1, GivenFrame
<1>10. Client!Payload(o2) = s \o b
  BY <1>2, <1>7, <1>9, PayloadAppend
<1> HIDE DEF s
<1>11. OutputIs(v2, o2, g, c)
  <2>1. Client!Payload(o) \o v.held = g[c]
    BY <1>2 DEF OutputIs
  <2> QED  BY <1>5, <1>8, <1>10, <2>1 DEF OutputIs, s
<1>12. /\ At(v2, text, p, k, c) /\ DataIs(v2, se, p, k)
       /\ EndsAre(v2, se, i, o2, k) /\ CodecIs(v2, text, p, k, c)
  BY <1>2, <1>4, <1>5, <1>9 DEF At, DataIs, EndsAre, CodecIs
<1> QED  BY <1>2, <1>5, <1>9, <1>11, <1>12 DEF Decoding

\* The codec has nothing more to give.
LEMMA DecodingCompletes ==
  ASSUME NEW v, NEW i, NEW o, NEW se, NEW text, NEW p, NEW g, NEW k, NEW c, NEW v2,
         Decoding(v, i, o, se, text, p, g, k, c), Closes2(v, v2)
  PROVE  Decoding(v2, i, o, se, text, p, g, k, c)
<1>1. /\ v \in Wrap /\ ~v.encodes /\ o \in Seq(Frame) /\ Rest(i, se, k)
      /\ At(v, text, p, k, c) /\ CodecIs(v, text, p, k, c)
      /\ DataIs(v, se, p, k) /\ EndsAre(v, se, i, o, k) /\ OutputIs(v, o, g, c)
  BY DEF Decoding
<1>2. /\ v.codec = "done" /\ v.held = <<>>
      /\ v2 \in Wrap /\ ~v2.encodes /\ ~v2.finished /\ v2.yielded_all_data = v.yielded_all_data
      /\ v2.non_data_frame = v.non_data_frame /\ v2.read_some_data = v.read_some_data
      /\ v2.chunk = v.chunk /\ v2.codec = "done" /\ v2.held = <<>>
      /\ v2.multiple_members = v.multiple_members
  BY <1>1 DEF Closes2, Turns, Becomes
<1>3. /\ At(v2, text, p, k, c) /\ DataIs(v2, se, p, k)
      /\ EndsAre(v2, se, i, o, k) /\ CodecIs(v2, text, p, k, c) /\ OutputIs(v2, o, g, c)
  BY <1>1, <1>2 DEF At, DataIs, EndsAre, CodecIs, OutputIs
<1> QED  BY <1>1, <1>2, <1>3 DEF Decoding

\* The trailers that were set aside are passed on.
LEMMA DecodingForwards ==
  ASSUME NEW v, NEW i, NEW o, NEW se, NEW text, NEW p, NEW g, NEW k, NEW c, NEW v2, NEW o2,
         Layout(se, text, p), Decoding(v, i, o, se, text, p, g, k, c), Forwards(v, o, v2, o2)
  PROVE  Decoding(v2, i, o2, se, text, p, g, k, c)
<1>1. /\ v \in Wrap /\ ~v.encodes /\ o \in Seq(Frame) /\ Rest(i, se, k)
      /\ At(v, text, p, k, c) /\ CodecIs(v, text, p, k, c)
      /\ DataIs(v, se, p, k) /\ EndsAre(v, se, i, o, k) /\ OutputIs(v, o, g, c)
  BY DEF Decoding
<1>2. /\ v.yielded_all_data /\ v.non_data_frame # Client!None
      /\ o2 = Append(o, v.non_data_frame)
      /\ v2 \in Wrap /\ ~v2.encodes /\ ~v2.finished /\ v2.yielded_all_data
      /\ v2.non_data_frame = Client!None /\ v2.read_some_data = v.read_some_data
      /\ v2.chunk = v.chunk /\ v2.codec = v.codec /\ v2.held = v.held
      /\ v2.read_all_data = v.read_all_data /\ v2.multiple_members = v.multiple_members
  BY <1>1 DEF Forwards, Turns, Becomes
<1>3. v.non_data_frame = Client!Trailers
  BY <1>1, <1>2 DEF EndsAre
<1> DEFINE f == Client!Trailers
<1>4. f \in Frame /\ f.kind = "trailers" /\ f.bytes = <<>> /\ o2 = Append(o, f)
  BY <1>2, <1>3, FramesAre DEF Frame
<1> HIDE DEF f
<1>5. o2 \in Seq(Frame) /\ Has(o2, "trailers") /\ Client!Payload(o2) = Client!Payload(o)
  BY <1>1, <1>4, GivenFrame
<1>6. EndsAre(v2, se, i, o2, k)
  <2>1. Has(se, "trailers")
    BY <1>1, <1>2 DEF EndsAre
  <2> QED  BY <1>1, <1>2, <1>5, <2>1 DEF EndsAre
<1>7. /\ At(v2, text, p, k, c) /\ DataIs(v2, se, p, k)
      /\ CodecIs(v2, text, p, k, c) /\ OutputIs(v2, o2, g, c)
  BY <1>1, <1>2, <1>5 DEF At, DataIs, CodecIs, OutputIs
<1> QED  BY <1>1, <1>2, <1>5, <1>6, <1>7 DEF Decoding

(* The body is polled behind its data: an empty frame or trailers come     *)
(* through.                                                                *)
LEMMA DecodingTrails ==
  ASSUME NEW v, NEW i, NEW o, NEW se, NEW text, NEW p, NEW g, NEW k, NEW c,
         NEW v2, NEW i2, NEW o2,
         Layout(se, text, p), Decoding(v, i, o, se, text, p, g, k, c),
         Trails(v, i, o, v2, i2, o2), ~v2.finished
  PROVE  Decoding(v2, i2, o2, se, text, p, g, k + 1, c)
<1>1. k \in Nat /\ Len(se) \in Nat /\ c \in Nat /\ p[k] \in Nat /\ c + Len(v.chunk) = p[k]
      /\ Len(v.chunk) \in Nat
  BY DecodingNumbers
<1>2. /\ v \in Wrap /\ ~v.encodes /\ o \in Seq(Frame) /\ Rest(i, se, k)
      /\ At(v, text, p, k, c) /\ CodecIs(v, text, p, k, c)
      /\ DataIs(v, se, p, k) /\ EndsAre(v, se, i, o, k) /\ OutputIs(v, o, g, c)
  BY DEF Decoding
<1>3. PICK f :
        /\ i # <<>> /\ f = Head(i) /\ f \in Frame
        /\ i2 = IF f.kind = "none" THEN i ELSE Tail(i)
        /\ o2 = Append(o, Tailed(f))
        /\ Turns(v, v.yielded_all_data \/ f.kind \in {"trailers", "none"},
                 v.non_data_frame, v.read_some_data, v.chunk, v.codec, v.held,
                 v.read_all_data, Tailed(f) \in {Client!Error, Client!None}, v2)
  BY DEF Trails
<1>4. /\ v2 \in Wrap /\ ~v2.encodes
      /\ v2.yielded_all_data <=> v.yielded_all_data \/ f.kind \in {"trailers", "none"}
      /\ v2.non_data_frame = v.non_data_frame /\ v2.read_some_data = v.read_some_data
      /\ v2.chunk = v.chunk /\ v2.codec = v.codec /\ v2.held = v.held
      /\ v2.read_all_data = v.read_all_data /\ v2.multiple_members = v.multiple_members
      /\ Tailed(f) \notin {Client!Error, Client!None}
  BY <1>2, <1>3 DEF Turns, Becomes
<1>5. Tailed(f) = f /\ f.bytes = <<>> /\ f.kind \in {"data", "trailers"}
  <2>1. f.kind = "data" => f.bytes = <<>>
    BY <1>4 DEF Tailed
  <2>2. Tailed(f) = f
    BY <2>1 DEF Tailed
  <2>3. f.kind \notin {"none", "error"}
    BY <1>3, <1>4, <2>2, FramesAre
  <2> QED  BY <1>3, <2>1, <2>2, <2>3 DEF Frame
<1>6. se \in Seq(Frame)
  BY DEF Layout
<1>7. /\ k + 1 \in 1..Len(se) /\ f = se[k + 1] /\ Rest(Tail(i), se, k + 1)
      /\ \A kind : Has(i, kind) <=> f.kind = kind \/ Has(Tail(i), kind)
  <2>1. /\ k + 1 \in 1..Len(se) /\ Head(i) = se[k + 1] /\ Rest(Tail(i), se, k + 1)
        /\ \A kind : Has(i, kind) <=> Head(i).kind = kind \/ Has(Tail(i), kind)
    BY <1>2, <1>3, <1>6, RestHead
  <2> QED  BY <1>3, <2>1
<1>8. i2 = Tail(i)
  BY <1>3, <1>5
<1>9. ~v.yielded_all_data
  BY <1>2, <1>5, <1>7 DEF EndsAre
<1>10. v.read_all_data
  <2>1. ASSUME Excused(v) PROVE FALSE
    <3>1. v.codec = "failed" /\ ~v.read_some_data
      BY <2>1 DEF Excused
    <3>2. ~(p[k] > 0)
      BY <1>2, <3>1 DEF DataIs
    <3>3. ~(c < p[k])
      BY <1>1, <3>2
    <3> QED  BY <1>2, <1>9, <3>1, <3>3 DEF CodecIs
  <2> QED  BY <2>1 DEF Trails
<1>11. v.codec = "done" /\ c > 0
  BY <1>2, <1>10 DEF CodecIs
<1>12. At(v2, text, p, k + 1, c) /\ CodecIs(v2, text, p, k + 1, c) /\ p[k + 1] = p[k]
  <2>1. /\ Layout(se, text, p) /\ Hollow(se, k)
        /\ At(v, text, p, k, c) /\ CodecIs(v, text, p, k, c)
        /\ Unmoved(v, v2)
    BY <1>1, <1>2, <1>4, <1>5, <1>7 DEF Unmoved, Hollow
  <2> QED  BY <2>1, EmptyFrameStays
<1>13. DataIs(v2, se, p, k + 1)
  <2>1. p[k] > 0
    BY <1>1, <1>11
  <2>2. v.read_some_data /\ \E j \in 1..k : se[j].kind = "data"
    BY <1>2, <2>1 DEF DataIs
  <2>3. \A j \in 1..k : j \in 1..(k + 1)
    BY <1>1
  <2>4. \E j \in 1..(k + 1) : se[j].kind = "data"
    BY <2>2, <2>3
  <2> QED  BY <1>4, <2>2, <2>4 DEF DataIs
<1>14. /\ o2 = Append(o, f) /\ o2 \in Seq(Frame) /\ Client!Payload(o2) = Client!Payload(o)
       /\ Has(o2, "trailers") <=> Has(o, "trailers") \/ f.kind = "trailers"
  <2>1. o2 = Append(o, f)
    BY <1>3, <1>5
  <2> QED  BY <1>2, <1>3, <1>5, <2>1, GivenFrame
<1>15. EndsAre(v2, se, i2, o2, k + 1)
  <2>1. v2.yielded_all_data => f.kind = "trailers"
    BY <1>4, <1>5, <1>9
  <2>2. f.kind = "trailers" => (k + 1) + 1 = Len(se) /\ se[(k + 1) + 1].kind = "none"
    BY <1>1, <1>7, OrderlyNext
  <2>3. v.non_data_frame = Client!None
    BY <1>2, <1>9 DEF EndsAre
  <2>4. Has(se, "trailers") <=> Has(o2, "trailers") \/ Has(i2, "trailers")
    <3>1. Has(se, "trailers") <=> Has(o, "trailers") \/ Has(i, "trailers")
      BY <1>2, <2>3 DEF EndsAre
    <3>2. Has(i, "trailers") <=> f.kind = "trailers" \/ Has(Tail(i), "trailers")
      BY <1>7
    <3> QED  BY <1>8, <1>14, <3>1, <3>2
  <2> QED  BY <1>4, <2>1, <2>2, <2>3, <2>4 DEF EndsAre
<1>16. OutputIs(v2, o2, g, c)
  BY <1>2, <1>4, <1>14 DEF OutputIs
<1> QED  BY <1>2, <1>4, <1>7, <1>8, <1>12, <1>13, <1>14, <1>15, <1>16 DEF Decoding

-----------------------------------------------------------------------------
(* Decodable and ContentIsRight for a body that carries text, whose first  *)
(* frame with an end mark is mf and whose first end mark is at ma.         *)
WellFormed(multi, se, text, mf, ma) ==
  /\ ~Has(se, "error")
  /\ \/ \A j \in 1..Len(se) : se[j].kind # "data"
     \/ multi /\ Len(text) > 0 /\ text[Len(text)] = 0 /\ \A j \in 1..Len(text) : text[j] # 1
     \/ /\ ~multi /\ mf # 0 /\ \A j \in 1..ma : text[j] # 1
        /\ \A j \in 1..Len(se) : se[j].kind = "data" /\ j > mf => se[j].bytes = <<>>

Judged(multi, se, text, g, mf, ma, o) ==
  /\ o \in Seq(Frame) /\ Len(o) > 0
  /\ o[Len(o)].kind = "none" <=> WellFormed(multi, se, text, mf, ma)
  /\ o[Len(o)].kind = "none" =>
       /\ Client!Payload(o) = g[IF multi THEN Len(text) ELSE ma]
       /\ Has(o, "trailers") <=> Has(se, "trailers")

\* Every byte of a body is in a frame.
LEMMA FrameOf ==
  ASSUME NEW se, NEW text, NEW p, Layout(se, text, p), NEW a \in 1..Len(text)
  PROVE  \E m \in 1..Len(se) : p[m - 1] < a /\ a <= p[m]
<1> DEFINE N == Len(se)  S == {n \in 0..N : a <= p[n]}
<1>1. /\ N \in Nat /\ p[0] = 0 /\ p[N] = Len(text) /\ Len(text) \in Nat
      /\ \A j \in 0..N : p[j] \in Nat
  BY LayoutPlaces
<1>2. S \subseteq Nat /\ N \in S
  BY <1>1
<1>3. PICK m \in S : \A y \in S : m =< y
  <2> HIDE DEF S
  <2> QED  BY <1>2, LeastExists
<1>4. m \in 0..N /\ a <= p[m] /\ m # 0
  BY <1>1, <1>3
<1>5. m \in 1..N /\ m - 1 \in 0..N /\ ~(m =< m - 1)
  BY <1>1, <1>4
<1>6. ~(a <= p[m - 1])
  BY <1>3, <1>5
<1>7. p[m - 1] \in Nat /\ p[m - 1] < a
  BY <1>1, <1>5, <1>6
<1> QED  BY <1>4, <1>5, <1>7

\* The first end mark is in the first frame that has one.
LEMMA MarkIsInMarkedFrame ==
  ASSUME NEW se, NEW text, NEW p, Layout(se, text, p), NEW mf, NEW ma,
         IsFirst(mf, Marked(se)), IsFirst(ma, MarksIn(text))
  PROVE  /\ ma = 0 => mf = 0
         /\ ma # 0 => /\ ma \in 1..Len(text) /\ mf \in 1..Len(se)
                      /\ p[mf - 1] < ma /\ ma <= p[mf]
<1> DEFINE N == Len(se)
<1>1. /\ N \in Nat /\ Len(text) \in Nat
      /\ \A j \in 0..N : p[j] \in Nat /\ p[j] <= Len(text)
      /\ \A j \in 1..N : /\ Len(se[j].bytes) \in Nat
                         /\ p[j] = p[j - 1] + Len(se[j].bytes)
                         /\ Segment(se[j].bytes, text, p[j - 1])
  BY LayoutPlaces
<1>2. ASSUME NEW n \in Marked(se)
      PROVE  /\ n \in 1..N
             /\ \E a \in MarksIn(text) : a <= p[n]
  <2>1. PICK j \in 1..Len(se[n].bytes) : se[n].bytes[j] = 0
    BY DEF Marked
  <2>2. n \in 1..N
    BY DEF Marked
  <2> DEFINE l == Len(se[n].bytes)  q == p[n - 1]  a == q + j
  <2>3. l \in Nat /\ q \in Nat /\ p[n] = q + l /\ q + l <= Len(text) /\ se[n].bytes[j] = text[a]
    <3>1. n - 1 \in 0..N /\ n \in 0..N
      BY <1>1, <2>2
    <3>2. Segment(se[n].bytes, text, q) /\ l \in Nat /\ p[n] = q + l /\ q \in Nat
      BY <1>1, <2>2, <3>1
    <3>3. q + l <= Len(text) /\ \A e \in 1..l : se[n].bytes[e] = text[q + e]
      BY <3>2 DEF Segment
    <3> QED  BY <2>1, <3>2, <3>3
  <2>4. j \in 1..l
    OBVIOUS
  <2> HIDE DEF l, q
  <2>5. a \in 1..Len(text) /\ a <= p[n]
    BY <1>1, <2>3, <2>4
  <2>6. text[a] = 0
    BY <2>1, <2>3
  <2> QED  BY <2>2, <2>5, <2>6 DEF MarksIn
<1>3. CASE MarksIn(text) = {}
  <2>1. Marked(se) = {}
    BY <1>2, <1>3
  <2> QED  BY <1>3, <2>1 DEF IsFirst
<1>4. CASE MarksIn(text) # {}
  <2>1. ma \in 1..Len(text) /\ text[ma] = 0 /\ \A a \in MarksIn(text) : ma <= a
    BY <1>4 DEF IsFirst, MarksIn
  <2>2. PICK m \in 1..N : p[m - 1] < ma /\ ma <= p[m]
    BY <2>1, FrameOf
  <2> DEFINE q == p[m - 1]  l == Len(se[m].bytes)
  <2>3. m \in Marked(se)
    <3>1. m - 1 \in 0..N
      BY <1>1
    <3>2. q \in Nat /\ l \in Nat /\ p[m] = q + l /\ Segment(se[m].bytes, text, q)
      BY <1>1, <3>1
    <3>3. \A e \in 1..l : se[m].bytes[e] = text[q + e]
      BY <3>2 DEF Segment
    <3> HIDE DEF q, l
    <3>4. ma - q \in 1..l /\ q + (ma - q) = ma
      BY <1>1, <2>1, <2>2, <3>2 DEF q
    <3>5. se[m].bytes[ma - q] = 0
      BY <2>1, <3>3, <3>4
    <3> QED  BY <3>4, <3>5 DEF Marked, l
  <2>4. mf \in Marked(se) /\ mf <= m
    BY <2>3 DEF IsFirst
  <2>5. mf \in 1..N
    BY <1>2, <2>4
  <2>6. p[mf - 1] < ma
    <3>1. mf - 1 \in 0..N /\ m - 1 \in (mf - 1)..N /\ m - 1 \in 0..N
      BY <1>1, <2>4, <2>5
    <3>2. p[mf - 1] <= p[m - 1]
      BY <3>1, PlacesAscend
    <3>3. p[mf - 1] \in Nat /\ p[m - 1] \in Nat
      BY <1>1, <3>1
    <3> QED  BY <1>1, <2>1, <2>2, <3>2, <3>3
  <2>7. ma <= p[mf]
    <3>1. PICK a \in MarksIn(text) : a <= p[mf]
      BY <1>2, <2>4
    <3>2. ma <= a /\ a \in Nat /\ p[mf] \in Nat
      BY <1>1, <2>1, <2>5 DEF MarksIn
    <3> QED  BY <2>1, <3>1, <3>2
  <2>8. ma # 0
    BY <2>1
  <2> QED  BY <2>1, <2>5, <2>6, <2>7, <2>8
<1> QED  BY <1>3, <1>4

\* A body with an error, or that the decoder cannot take, ends in an error.
LEMMA JudgedError ==
  ASSUME NEW multi, NEW se, NEW text, NEW g, NEW mf, NEW ma, NEW o \in Seq(Frame),
         ~WellFormed(multi, se, text, mf, ma)
  PROVE  Judged(multi, se, text, g, mf, ma, Append(o, Client!Error))
<1> DEFINE x == Client!Error  t == Append(o, x)
<1>1. x \in Frame /\ x.kind = "error"
  BY FramesAre
<1> HIDE DEF x
<1>2. t \in Seq(Frame) /\ Len(t) = Len(o) + 1 /\ t[Len(o) + 1] = x /\ Len(o) \in Nat
  BY <1>1, AppendProperties, LenProperties
<1> HIDE DEF t
<1>3. Len(t) > 0 /\ t[Len(t)].kind = "error"
  BY <1>1, <1>2
<1>4. Judged(multi, se, text, g, mf, ma, t)
  BY <1>2, <1>3 DEF Judged
<1> QED  BY <1>4 DEF t, x

\* An error of the body is passed on.
LEMMA ErrorIsJudged ==
  ASSUME NEW multi, NEW i, NEW o \in Seq(Frame), NEW se, NEW text, NEW p, NEW g, NEW k,
         NEW mf, NEW ma, NEW f,
         Layout(se, text, p), Rest(i, se, k), i # <<>>, f = Head(i), f.kind = "error"
  PROVE  Judged(multi, se, text, g, mf, ma, Append(o, f))
<1>1. se \in Seq(Frame)
  BY DEF Layout
<1>2. k + 1 \in 1..Len(se) /\ f = se[k + 1] /\ f \in Frame
  BY <1>1, RestHead
<1>3. f = Client!Error
  BY <1>2, FramesAre
<1>4. Has(se, "error")
  BY <1>2 DEF Has
<1>5. ~WellFormed(multi, se, text, mf, ma)
  BY <1>4 DEF WellFormed
<1> QED  BY <1>3, <1>5, JudgedError

\* What a codec that has failed has read is not well formed.
LEMMA FailureIsJudged ==
  ASSUME NEW v, NEW i, NEW o, NEW se, NEW text, NEW p, NEW g, NEW k, NEW c,
         NEW v2, NEW o2, NEW mf, NEW ma,
         Layout(se, text, p), Decoding(v, i, o, se, text, p, g, k, c),
         IsFirst(mf, Marked(se)), IsFirst(ma, MarksIn(text)), Breaks(v, o, v2, o2)
  PROVE  Judged(v.multiple_members, se, text, g, mf, ma, o2)
<1>1. /\ k \in Nat /\ k \in 0..Len(se) /\ Len(se) \in Nat /\ c \in Nat /\ c <= Len(text)
      /\ Len(text) \in Nat /\ p[k] \in Nat /\ p[k] <= Len(text)
      /\ \A j \in 1..Len(text) : text[j] \in Int
  BY DecodingNumbers
<1>2. /\ o \in Seq(Frame) /\ CodecIs(v, text, p, k, c) /\ DataIs(v, se, p, k)
  BY DEF Decoding
<1>3. v.codec = "failed" /\ v.read_some_data /\ o2 = Append(o, Client!Error)
  BY DEF Breaks, Excused
<1>4. PICK q \in 1..Len(se) : se[q].kind = "data"
  <2>1. \E q \in 1..k : se[q].kind = "data"
    BY <1>2, <1>3 DEF DataIs
  <2> QED  BY <1>1, <2>1
<1>5. \/ c < p[k] /\ text[c + 1] > 0
      \/ c = Len(text) /\ (c = 0 \/ text[c] < 0)
  BY <1>2, <1>3 DEF CodecIs
<1>6. CASE c < p[k] /\ text[c + 1] > 0
  <2>1. c + 1 \in 1..Len(text) /\ text[c + 1] = 1
    <3>1. c + 1 \in 1..Len(text)
      BY <1>1, <1>6
    <3>2. text[c + 1] <= 1 /\ text[c + 1] \in Int
      BY <1>1, <3>1 DEF Layout
    <3> QED  BY <1>6, <3>1, <3>2
  <2>2. ASSUME ~v.multiple_members, mf # 0 PROVE c + 1 \in 1..ma
    <3>1. ma \in 1..Len(text) /\ text[ma] = 0
      BY <2>2, MarkIsInMarkedFrame DEF IsFirst, MarksIn
    <3>2. \A j \in 1..c : text[j] # 0
      BY <1>2, <1>3, <2>2 DEF CodecIs
    <3> QED  BY <1>1, <3>1, <3>2
  <2>3. ~WellFormed(v.multiple_members, se, text, mf, ma)
    BY <1>4, <2>1, <2>2 DEF WellFormed
  <2> QED  BY <1>2, <1>3, <2>3, JudgedError
<1>7. CASE c = Len(text) /\ (c = 0 \/ text[c] < 0)
  <2>1. ~(Len(text) > 0 /\ text[Len(text)] = 0)
    BY <1>1, <1>7
  <2>2. ASSUME ~v.multiple_members, mf # 0 PROVE FALSE
    <3>1. ma \in 1..Len(text) /\ text[ma] = 0
      BY <2>2, MarkIsInMarkedFrame DEF IsFirst, MarksIn
    <3>2. \A j \in 1..c : text[j] # 0
      BY <1>2, <1>3, <2>2 DEF CodecIs
    <3> QED  BY <1>1, <1>7, <3>1, <3>2
  <2>3. ~WellFormed(v.multiple_members, se, text, mf, ma)
    BY <1>4, <2>1, <2>2 DEF WellFormed
  <2> QED  BY <1>2, <1>3, <2>3, JudgedError
<1> QED  BY <1>5, <1>6, <1>7

\* A decoder of one member that is done has read up to the first end mark.
LEMMA DoneAtMark ==
  ASSUME NEW v, NEW i, NEW o, NEW se, NEW text, NEW p, NEW g, NEW k, NEW c, NEW mf, NEW ma,
         Layout(se, text, p), Decoding(v, i, o, se, text, p, g, k, c),
         IsFirst(mf, Marked(se)), IsFirst(ma, MarksIn(text)),
         v.codec = "done", ~v.multiple_members
  PROVE  /\ ma \in Nat /\ c \in Nat /\ ma <= c /\ c <= ma
         /\ mf \in 1..k /\ c <= p[mf]
<1>1. /\ k \in Nat /\ k \in 0..Len(se) /\ Len(se) \in Nat /\ c \in Nat /\ c <= Len(text)
      /\ Len(text) \in Nat /\ p[k] \in Nat /\ Len(v.chunk) \in Nat /\ c + Len(v.chunk) = p[k]
  BY DecodingNumbers
<1>2. c > 0 /\ text[c] = 0 /\ \A j \in 1..c : text[j] = 0 => j = c
  BY DEF Decoding, CodecIs
<1>3. c \in MarksIn(text)
  BY <1>1, <1>2 DEF MarksIn
<1>4. ma \in 1..Len(text) /\ text[ma] = 0 /\ ma <= c
  BY <1>3 DEF IsFirst, MarksIn
<1>5. ma = c /\ ma # 0
  BY <1>1, <1>2, <1>4
<1>6. mf \in 1..Len(se) /\ p[mf - 1] < c /\ c <= p[mf]
  BY <1>5, MarkIsInMarkedFrame
<1>7. mf <= k
  <2> SUFFICES ASSUME ~(mf <= k) PROVE FALSE
    OBVIOUS
  <2>1. mf - 1 \in k..Len(se) /\ mf - 1 \in 0..Len(se)
    BY <1>1, <1>6
  <2>2. p[k] <= p[mf - 1]
    BY <1>1, <2>1, PlacesAscend
  <2>3. p[mf - 1] \in Nat
    BY <2>1, LayoutPlaces
  <2> HIDE DEF Layout
  <2>4. c <= p[k]
    BY <1>1
  <2> QED  BY <1>1, <1>6, <2>2, <2>3, <2>4
<1> QED  BY <1>1, <1>5, <1>6, <1>7

\* Bytes behind the end mark are an error.
LEMMA SurplusIsJudged ==
  ASSUME NEW v, NEW i, NEW o, NEW se, NEW text, NEW p, NEW g, NEW k, NEW c, NEW mf, NEW ma,
         NEW f, Layout(se, text, p), Decoding(v, i, o, se, text, p, g, k, c),
         IsFirst(mf, Marked(se)), IsFirst(ma, MarksIn(text)),
         v.read_all_data \/ Excused(v), i # <<>>, f = Head(i), f.kind = "data", f.bytes # <<>>
  PROVE  Judged(v.multiple_members, se, text, g, mf, ma, Append(o, Client!Error))
<1>1. /\ k \in Nat /\ k \in 0..Len(se) /\ Len(se) \in Nat /\ c \in Nat /\ p[k] \in Nat
      /\ Len(v.chunk) \in Nat /\ c + Len(v.chunk) = p[k]
  BY DecodingNumbers
<1>2. /\ o \in Seq(Frame) /\ CodecIs(v, text, p, k, c) /\ DataIs(v, se, p, k)
      /\ Rest(i, se, k) /\ EndsAre(v, se, i, o, k)
  BY DEF Decoding
<1>3. se \in Seq(Frame)
  BY DEF Layout
<1>4. k + 1 \in 1..Len(se) /\ f = se[k + 1]
  BY <1>2, <1>3, RestHead
<1>5. ~v.yielded_all_data
  BY <1>2, <1>4 DEF EndsAre
<1>6. v.read_all_data
  <2>1. ASSUME Excused(v) PROVE FALSE
    <3>1. v.codec = "failed" /\ ~v.read_some_data
      BY <2>1 DEF Excused
    <3>2. ~(p[k] > 0)
      BY <1>2, <3>1 DEF DataIs
    <3>3. ~(c < p[k])
      BY <1>1, <3>2
    <3> QED  BY <1>2, <1>5, <3>1, <3>3 DEF CodecIs
  <2> QED  BY <2>1
<1>7. v.codec = "done" /\ ~v.multiple_members
  BY <1>2, <1>5, <1>6 DEF CodecIs
<1>8. mf \in 1..k
  BY <1>7, DoneAtMark
<1>9. k + 1 > mf
  BY <1>1, <1>8
<1>10. ~WellFormed(v.multiple_members, se, text, mf, ma)
  BY <1>4, <1>7, <1>9 DEF WellFormed
<1> QED  BY <1>2, <1>10, JudgedError

\* Behind the frame of the end mark no frame has bytes, if none is left.
LEMMA NothingBehindMark ==
  ASSUME NEW v, NEW i, NEW o, NEW se, NEW text, NEW p, NEW g, NEW k, NEW c, NEW mf, NEW ma,
         Layout(se, text, p), Decoding(v, i, o, se, text, p, g, k, c),
         IsFirst(mf, Marked(se)), IsFirst(ma, MarksIn(text)),
         v.codec = "done", ~v.multiple_members, k + 1 = Len(se), se[Len(se)].kind # "data",
         NEW j \in 1..Len(se), se[j].kind = "data", j > mf
  PROVE  se[j].bytes = <<>>
<1>1. /\ k \in Nat /\ k \in 0..Len(se) /\ Len(se) \in Nat /\ c \in Nat /\ p[k] \in Nat
      /\ Len(text) \in Nat
  BY DecodingNumbers
<1>2. mf \in 1..k /\ c <= p[mf]
  BY DoneAtMark
<1>3. j \in 1..k
  <2>1. j # Len(se)
    OBVIOUS
  <2> QED  BY <1>1, <2>1
<1>4. p[k] = Len(text)
  <2>1. k + 1 \in 1..Len(se)
    BY <1>1
  <2> QED  BY <1>1, <2>1, OrderlyNext
<1>5. /\ \A a \in 0..Len(se) : p[a] \in Nat /\ p[a] <= Len(text)
      /\ \A a \in 1..Len(se) : /\ se[a].bytes \in Seq(Int) /\ Len(se[a].bytes) \in Nat
                               /\ p[a] = p[a - 1] + Len(se[a].bytes)
  BY LayoutPlaces
<1>6. mf \in 0..k /\ mf \in 0..Len(se) /\ j - 1 \in mf..Len(se) /\ j - 1 \in 0..Len(se)
      /\ j \in 0..Len(se)
  BY <1>1, <1>2, <1>3
<1>7. p[mf] = Len(text)
  <2>1. p[mf] < c \/ p[mf] = p[k]
    BY <1>6 DEF Decoding, CodecIs
  <2>2. p[mf] \in Nat
    BY <1>5, <1>6
  <2> QED  BY <1>1, <1>2, <1>4, <2>1, <2>2
<1>8. p[mf] <= p[j - 1]
  BY <1>6, PlacesAscend
<1> DEFINE a == p[j - 1]  b == p[j]  l == Len(se[j].bytes)
<1>9. a \in Nat /\ b \in Nat /\ b <= Len(text) /\ l \in Nat /\ b = a + l /\ Len(text) <= a
  BY <1>5, <1>6, <1>7, <1>8
<1> HIDE DEF a, b
<1>10. l = 0
  <2> HIDE DEF l
  <2> QED  BY <1>1, <1>9
<1> QED  BY <1>5, <1>10, EmptySeq

\* What a decoder of one member has read is well formed, if none is left.
LEMMA MarkedIsWellFormed ==
  ASSUME NEW v, NEW i, NEW o, NEW se, NEW text, NEW p, NEW g, NEW k, NEW c, NEW mf, NEW ma,
         Layout(se, text, p), Decoding(v, i, o, se, text, p, g, k, c),
         IsFirst(mf, Marked(se)), IsFirst(ma, MarksIn(text)),
         v.codec = "done", ~v.multiple_members, k + 1 = Len(se), se[Len(se)].kind = "none",
         ~Has(se, "error")
  PROVE  WellFormed(v.multiple_members, se, text, mf, ma) /\ ma = c
<1>1. ma = c /\ mf \in 1..k
  <2>1. ma \in Nat /\ c \in Nat /\ ma <= c /\ c <= ma
    BY DoneAtMark
  <2>2. mf \in 1..k
    BY DoneAtMark
  <2> QED  BY <2>1, <2>2
<1>2. \A j \in 1..Len(se) : se[j].kind = "data" /\ j > mf => se[j].bytes = <<>>
  BY NothingBehindMark
<1>3. \A j \in 1..c : text[j] <= 0
  BY DEF Decoding, CodecIs
<1>4. mf # 0 /\ \A j \in 1..ma : text[j] # 1
  BY <1>1, <1>3
<1>5. v.multiple_members = FALSE
  BY DEF Decoding, Wrap
<1> QED  BY <1>1, <1>2, <1>4, <1>5 DEF WellFormed

\* A clean end.
LEMMA EndIsJudged ==
  ASSUME NEW v, NEW i, NEW o, NEW se, NEW text, NEW p, NEW g, NEW k, NEW c, NEW mf, NEW ma,
         NEW f, Layout(se, text, p), Stripped(g, text),
         Decoding(v, i, o, se, text, p, g, k, c),
         IsFirst(mf, Marked(se)), IsFirst(ma, MarksIn(text)),
         v.read_all_data \/ Excused(v), v.yielded_all_data => v.non_data_frame = Client!None,
         i # <<>>, f = Head(i), f.kind = "none"
  PROVE  Judged(v.multiple_members, se, text, g, mf, ma, Append(o, f))
<1>1. /\ k \in Nat /\ k \in 0..Len(se) /\ Len(se) \in Nat /\ c \in Nat /\ p[k] \in Nat
      /\ Len(text) \in Nat /\ Len(v.chunk) \in Nat /\ c + Len(v.chunk) = p[k]
      /\ c <= Len(text) /\ Client!Payload(o) \in Seq(Int)
  BY DecodingNumbers
<1>2. /\ o \in Seq(Frame) /\ CodecIs(v, text, p, k, c) /\ DataIs(v, se, p, k)
      /\ Rest(i, se, k) /\ EndsAre(v, se, i, o, k) /\ OutputIs(v, o, g, c)
      /\ v.held \in Seq(Int)
  BY DEF Decoding, Wrap
<1>3. se \in Seq(Frame) /\ Orderly(se)
  BY DEF Layout
<1>4. k + 1 \in 1..Len(se) /\ f = se[k + 1] /\ f \in Frame
      /\ (Has(i, "trailers") <=> f.kind = "trailers" \/ Has(Tail(i), "trailers"))
  BY <1>2, <1>3, RestHead
<1>5. k + 1 = Len(se) /\ p[k] = Len(text) /\ f.bytes = <<>> /\ se[Len(se)].kind = "none"
  <2>1. k + 1 = Len(se)
    BY <1>1, <1>4, OrderlyNext
  <2>2. p[k] = Len(text)
    BY <1>1, <1>4, <2>1, OrderlyNext
  <2> QED  BY <1>4, <2>1, <2>2 DEF Frame
<1>6. ~Has(se, "error")
  <2>1. \A j \in 1..Len(se) : se[j].kind = "error" => j = Len(se)
    BY <1>3 DEF Orderly
  <2> QED  BY <1>5, <2>1 DEF Has
<1>7. ~Has(i, "trailers")
  <2>1. Len(i) = 1 /\ i \in Seq(Frame)
    <3>1. k + Len(i) = Len(se) /\ i \in Seq(Frame)
      BY <1>2 DEF Rest
    <3> DEFINE n == Len(i)
    <3>2. n \in Nat /\ k + n = k + 1
      BY <1>5, <3>1, LenProperties
    <3> HIDE DEF n
    <3>3. n = 1
      BY <1>1, <3>2
    <3> QED  BY <3>1, <3>3 DEF n
  <2>2. Len(Tail(i)) = 0
    BY <2>1, HeadTailProperties
  <2>3. ~Has(Tail(i), "trailers")
    <3> DEFINE rest == Tail(i)
    <3>1. Len(rest) = 0
      BY <2>2
    <3> HIDE DEF rest
    <3>2. ~Has(rest, "trailers")
      BY <3>1 DEF Has
    <3> QED  BY <3>2 DEF rest
  <2> QED  BY <1>4, <2>3
<1>8. Has(se, "trailers") <=> Has(o, "trailers")
  BY <1>2, <1>7 DEF EndsAre
<1> DEFINE t == Append(o, f)
<1>9. /\ t \in Seq(Frame)
      /\ Has(t, "trailers") <=> Has(o, "trailers")
      /\ Client!Payload(t) = Client!Payload(o)
  BY <1>2, <1>4, <1>5, GivenFrame
<1>10. Len(t) > 0 /\ t[Len(t)].kind = "none"
  <2>1. Len(t) = Len(o) + 1 /\ t[Len(o) + 1] = f /\ Len(o) \in Nat
    BY <1>2, <1>4, AppendProperties, LenProperties
  <2> QED  BY <2>1
<1>11. ASSUME v.read_all_data
       PROVE  /\ WellFormed(v.multiple_members, se, text, mf, ma)
              /\ Client!Payload(o) = g[IF v.multiple_members THEN Len(text) ELSE ma]
  <2>1. /\ v.codec = "done" /\ v.held = <<>> /\ c > 0 /\ text[c] = 0
        /\ \A j \in 1..c : text[j] <= 0
    BY <1>2, <1>11 DEF CodecIs
  <2>2. Client!Payload(o) = g[c]
    <3>1. Client!Payload(o) \o v.held = g[c]
      BY <1>2 DEF OutputIs
    <3>2. Client!Payload(o) \o <<>> = Client!Payload(o)
      BY <1>1, ConcatEmptySeq
    <3> QED  BY <2>1, <3>1, <3>2
  <2>3. \A j \in 1..c : text[j] # 1
    BY <2>1
  <2>4. CASE v.multiple_members
    <3>1. c = Len(text)
      BY <1>2, <2>1, <2>4 DEF CodecIs
    <3> QED  BY <1>6, <2>1, <2>2, <2>3, <2>4, <3>1 DEF WellFormed
  <2>5. CASE ~v.multiple_members
    <3>1. WellFormed(v.multiple_members, se, text, mf, ma) /\ ma = c
      BY <1>5, <1>6, <2>1, <2>5, MarkedIsWellFormed
    <3> QED  BY <2>2, <2>5, <3>1
  <2> QED  BY <2>4, <2>5
<1>12. ASSUME Excused(v)
       PROVE  /\ WellFormed(v.multiple_members, se, text, mf, ma)
              /\ Client!Payload(o) = g[IF v.multiple_members THEN Len(text) ELSE ma]
  <2>1. ~v.read_some_data
    BY <1>12 DEF Excused
  <2>2. \A j \in 1..k : se[j].kind # "data"
    BY <1>2, <2>1 DEF DataIs
  <2>3. \A j \in 1..Len(se) : se[j].kind # "data"
    <3>1. \A j \in 1..Len(se) : j \in 1..k \/ j = Len(se)
      BY <1>1, <1>5
    <3> QED  BY <1>5, <2>2, <3>1
  <2>4. Len(text) = 0 /\ c = 0
    <3>1. ~(p[k] > 0)
      BY <1>2, <2>1 DEF DataIs
    <3> QED  BY <1>1, <1>5, <3>1
  <2>5. ma = 0
    <3>1. MarksIn(text) = {}
      BY <2>4 DEF MarksIn
    <3> QED  BY <3>1 DEF IsFirst
  <2>6. Client!Payload(o) = g[0]
    <3>1. Client!Payload(o) \o v.held = <<>> /\ g[0] = <<>>
      BY <1>2, <2>4 DEF OutputIs, Stripped
    <3>2. Client!Payload(o) = <<>>
      BY <1>1, <1>2, <3>1, ConcatEqualIffEmpty
    <3> QED  BY <3>1, <3>2
  <2> QED  BY <1>6, <2>3, <2>4, <2>5, <2>6 DEF WellFormed
<1>13. /\ WellFormed(v.multiple_members, se, text, mf, ma)
       /\ Client!Payload(o) = g[IF v.multiple_members THEN Len(text) ELSE ma]
  BY <1>11, <1>12
<1> HIDE DEF t
<1>14. Judged(v.multiple_members, se, text, g, mf, ma, t)
  BY <1>8, <1>9, <1>10, <1>13 DEF Judged
<1> QED  BY <1>14 DEF t

\* What a decoder that has finished leaves behind.
Finished(v, se, text, g, o) ==
  /\ v.finished
  /\ \A mf, ma : IsFirst(mf, Marked(se)) /\ IsFirst(ma, MarksIn(text)) =>
                   Judged(v.multiple_members, se, text, g, mf, ma, o)

\* The last frame the caller is given is judged.
LEMMA TrailsAreJudged ==
  ASSUME NEW v, NEW i, NEW o, NEW se, NEW text, NEW p, NEW g, NEW k, NEW c,
         NEW v2, NEW i2, NEW o2, Layout(se, text, p), Stripped(g, text),
         Decoding(v, i, o, se, text, p, g, k, c), Trails(v, i, o, v2, i2, o2), v2.finished
  PROVE  Finished(v2, se, text, g, o2)
<1>1. PICK f :
        /\ i # <<>> /\ f = Head(i) /\ f \in Frame
        /\ o2 = Append(o, Tailed(f))
        /\ Turns(v, v.yielded_all_data \/ f.kind \in {"trailers", "none"},
                 v.non_data_frame, v.read_some_data, v.chunk, v.codec, v.held,
                 v.read_all_data, Tailed(f) \in {Client!Error, Client!None}, v2)
  BY DEF Trails
<1>2. /\ v.read_all_data \/ Excused(v)
      /\ v.yielded_all_data => v.non_data_frame = Client!None
  BY DEF Trails
<1>3. v2.multiple_members = v.multiple_members /\ Tailed(f) \in {Client!Error, Client!None}
  BY <1>1 DEF Turns, Becomes
<1>4. o \in Seq(Frame) /\ Rest(i, se, k)
  BY DEF Decoding
<1> SUFFICES ASSUME NEW mf, NEW ma, IsFirst(mf, Marked(se)), IsFirst(ma, MarksIn(text))
             PROVE  Judged(v.multiple_members, se, text, g, mf, ma, o2)
  BY <1>3 DEF Finished
<1>5. CASE f.kind = "data" /\ f.bytes # <<>>
  <2>1. o2 = Append(o, Client!Error)
    BY <1>1, <1>5 DEF Tailed
  <2> QED  BY <1>1, <1>2, <1>5, <2>1, SurplusIsJudged
<1>6. CASE ~(f.kind = "data" /\ f.bytes # <<>>)
  <2>1. Tailed(f) = f /\ o2 = Append(o, f)
    BY <1>1, <1>6 DEF Tailed
  <2>2. f.kind = "error" \/ f.kind = "none"
    BY <1>1, <1>3, <2>1, FramesAre
  <2>3. CASE f.kind = "error"
    BY <1>1, <1>4, <2>1, <2>3, ErrorIsJudged
  <2>4. CASE f.kind = "none"
    BY <1>1, <1>2, <2>1, <2>4, EndIsJudged
  <2> QED  BY <2>2, <2>3, <2>4
<1> QED  BY <1>5, <1>6

\* A step of the decoder.
LEMMA ForeignTurn ==
  ASSUME NEW v, NEW i, NEW o, NEW se, NEW text, NEW p, NEW g, NEW k, NEW c,
         NEW v2, NEW i2, NEW o2, Layout(se, text, p), Stripped(g, text),
         Decoding(v, i, o, se, text, p, g, k, c), ForeignStep(v, i, o, v2, i2, o2)
  PROVE  \/ Finished(v2, se, text, g, o2)
         \/ \E k2, c2 : Decoding(v2, i2, o2, se, text, p, g, k2, c2)
<1>1. o \in Seq(Frame) /\ Rest(i, se, k)
  BY DEF Decoding
<1>2. CASE Meets(v, i, o, v2, i2, o2)
  <2>1. PICK f : /\ Takes(v, i, f)
                 /\ \/ MeetsData(v, i, o, v2, i2, o2, f)
                    \/ MeetsTrailers(v, i, o, v2, i2, o2, f)
                    \/ MeetsEnd(v, i, o, v2, i2, o2, f)
                    \/ MeetsError(v, o, v2, o2, f)
    BY <1>2 DEF Meets
  <2>2. CASE MeetsData(v, i, o, v2, i2, o2, f)
    <3>1. Decoding(v2, i2, o2, se, text, p, g, k + 1, c)
      BY <2>1, <2>2, DecodingData
    <3> QED  BY <3>1
  <2>3. CASE MeetsTrailers(v, i, o, v2, i2, o2, f)
    <3>1. Decoding(v2, i2, o2, se, text, p, g, k + 1, c)
      BY <2>1, <2>3, DecodingTrailers
    <3> QED  BY <3>1
  <2>4. CASE MeetsEnd(v, i, o, v2, i2, o2, f)
    <3>1. Decoding(v2, i2, o2, se, text, p, g, k, c)
      BY <2>1, <2>4, DecodingEnd
    <3> QED  BY <3>1
  <2>5. CASE MeetsError(v, o, v2, o2, f)
    <3>1. i # <<>> /\ f = Head(i)
      BY <2>1 DEF Takes
    <3>2. /\ f.kind = "error" /\ o2 = Append(o, f) /\ v2.finished
          /\ v2.multiple_members = v.multiple_members
      BY <2>5 DEF MeetsError
    <3>3. ASSUME NEW mf, NEW ma
          PROVE  Judged(v.multiple_members, se, text, g, mf, ma, o2)
      BY <1>1, <3>1, <3>2, ErrorIsJudged
    <3> QED  BY <3>2, <3>3 DEF Finished
  <2> QED  BY <2>1, <2>2, <2>3, <2>4, <2>5
<1>3. CASE Strip(v, v2) /\ i2 = i /\ o2 = o
  <2>1. \E d : Decoding(v2, i, o, se, text, p, g, k, d)
    BY <1>3, DecodingStrips
  <2> QED  BY <1>3, <2>1
<1>4. CASE Starves(v, v2) /\ i2 = i /\ o2 = o
  <2>1. Decoding(v2, i, o, se, text, p, g, k, c)
    BY <1>4, DecodingStarves
  <2> QED  BY <1>4, <2>1
<1>5. CASE Gives(v, o, v2, o2) /\ i2 = i
  <2>1. Decoding(v2, i, o2, se, text, p, g, k, c)
    BY <1>5, DecodingGives
  <2> QED  BY <1>5, <2>1
<1>6. CASE Closes2(v, v2) /\ i2 = i /\ o2 = o
  <2>1. Decoding(v2, i, o, se, text, p, g, k, c)
    BY <1>6, DecodingCompletes
  <2> QED  BY <1>6, <2>1
<1>7. CASE Breaks(v, o, v2, o2) /\ i2 = i
  <2>1. v2.finished /\ v2.multiple_members = v.multiple_members
    BY <1>7 DEF Breaks
  <2>2. ASSUME NEW mf, NEW ma, IsFirst(mf, Marked(se)), IsFirst(ma, MarksIn(text))
        PROVE  Judged(v.multiple_members, se, text, g, mf, ma, o2)
    BY <1>7, <2>2, FailureIsJudged
  <2> QED  BY <2>1, <2>2 DEF Finished
<1>8. CASE Forwards(v, o, v2, o2) /\ i2 = i
  <2>1. Decoding(v2, i, o2, se, text, p, g, k, c)
    BY <1>8, DecodingForwards
  <2> QED  BY <1>8, <2>1
<1>9. CASE Trails(v, i, o, v2, i2, o2)
  <2>1. CASE v2.finished
    BY <1>9, <2>1, TrailsAreJudged
  <2>2. CASE ~v2.finished
    <3>1. Decoding(v2, i2, o2, se, text, p, g, k + 1, c)
      BY <1>9, <2>2, DecodingTrails
    <3> QED  BY <3>1
  <2> QED  BY <2>1, <2>2
<1> QED  BY <1>2, <1>3, <1>4, <1>5, <1>6, <1>7, <1>8, <1>9 DEF ForeignStep

-----------------------------------------------------------------------------
(* The layout of the body, and what the decoder has read of it or, once it *)
(* has finished, made of it.                                               *)
ForeignInv ==
  \E p, g :
    /\ Layout(sent, Text, p) /\ Stripped(g, Text)
    /\ \/ Finished(decoder, sent, Text, g, seen)
       \/ \E k, c : Decoding(decoder, wire, seen, sent, Text, p, g, k, c)

\* A body decodes in ForeignBody exactly when it is well formed.
LEMMA DecodableIs ==
  ASSUME sent \in Seq(Frame), Text \in Seq(Int)
  PROVE  Decodable <=>
           WellFormed(decoder.multiple_members, sent, Text, MarkedFrame, MarkAt)
<1> DEFINE text == Text  mf == MarkedFrame  ma == MarkAt
           N == Len(sent)  multi == decoder.multiple_members
<1>1. N \in Nat /\ DOMAIN sent = 1..N /\ Len(text) \in Nat
  BY LenProperties
<1>2. Contains(sent, Client!Error) <=> Has(sent, "error")
  <2>1. \A i \in 1..N : sent[i] = Client!Error <=> sent[i].kind = "error"
    BY FrameAt, FramesAre
  <2> QED  BY <2>1 DEF Contains, Has
<1>3. DataFrames = {} <=> \A j \in 1..N : sent[j].kind # "data"
  BY <1>1 DEF DataFrames
<1>4. (\A i \in DataFrames : i > mf => sent[i].bytes = <<>>) <=>
      \A j \in 1..N : sent[j].kind = "data" /\ j > mf => sent[j].bytes = <<>>
  BY <1>1 DEF DataFrames
<1>5. (text # <<>> /\ Last(text) = Client!EndMark /\ ~Contains(text, 1)) <=>
      (Len(text) > 0 /\ text[Len(text)] = 0 /\ \A j \in 1..Len(text) : text[j] # 1)
  <2> HIDE DEF text
  <2>1. text # <<>> <=> Len(text) > 0
    BY <1>1, EmptySeq DEF text
  <2> QED  BY <2>1 DEF Last, Client!EndMark, Contains
<1> HIDE DEF N
<1>6. Decodable <=>
        /\ ~Contains(sent, Client!Error)
        /\ \/ DataFrames = {}
           \/ /\ multi
              /\ text # <<>> /\ Last(text) = Client!EndMark
              /\ ~Contains(text, 1)
           \/ /\ ~multi
              /\ mf # 0
              /\ \A i \in 1..ma : text[i] # 1
              /\ \A i \in DataFrames : i > mf => sent[i].bytes = <<>>
  BY DEF Decodable
<1>7. WellFormed(multi, sent, text, mf, ma) <=>
        /\ ~Has(sent, "error")
        /\ \/ \A j \in 1..N : sent[j].kind # "data"
           \/ /\ multi
              /\ Len(text) > 0 /\ text[Len(text)] = 0
              /\ \A j \in 1..Len(text) : text[j] # 1
           \/ /\ ~multi
              /\ mf # 0
              /\ \A j \in 1..ma : text[j] # 1
              /\ \A j \in 1..N : sent[j].kind = "data" /\ j > mf => sent[j].bytes = <<>>
  BY DEF WellFormed, N
<1> HIDE DEF text, mf, ma, multi
<1> QED  BY <1>2, <1>3, <1>4, <1>5, <1>6, <1>7, Zenon DEF text, mf, ma, multi

\* The invariant implies the verdict.
LEMMA JudgedIsRight ==
  ASSUME ForeignInv
  PROVE  VerdictIsRight
<1> SUFFICES ASSUME decoder.finished
             PROVE  /\ Last(seen) = Client!None <=> Decodable
                    /\ Last(seen) = Client!None => ContentIsRight
  BY DEF VerdictIsRight
<1>1. PICK p, g :
        /\ Layout(sent, Text, p) /\ Stripped(g, Text)
        /\ \/ Finished(decoder, sent, Text, g, seen)
           \/ \E k, c : Decoding(decoder, wire, seen, sent, Text, p, g, k, c)
  BY DEF ForeignInv
<1>2. Finished(decoder, sent, Text, g, seen)
  BY <1>1 DEF Decoding
<1> DEFINE text == Text  mf == MarkedFrame  ma == MarkAt
           multi == decoder.multiple_members  n == IF multi THEN Len(text) ELSE ma
<1>3. text = Text
  OBVIOUS
<1>4. sent \in Seq(Frame) /\ text \in Seq(Int) /\ Len(text) \in Nat
  BY <1>1, <1>3, LenProperties DEF Layout
<1>5. IsFirst(mf, Marked(sent)) /\ IsFirst(ma, MarksIn(text))
  BY MarksAre
<1>6. Judged(multi, sent, text, g, mf, ma, seen)
  BY <1>2, <1>3, <1>5 DEF Finished
<1>7. Decodable <=> WellFormed(multi, sent, text, mf, ma)
  BY <1>4, DecodableIs
<1>8. n \in 0..Len(text)
  <2> HIDE DEF text, ma
  <2>1. ma \in 0..Len(text)
    BY <1>4, <1>5 DEF IsFirst, MarksIn
  <2> QED  BY <1>4, <2>1
<1>9. Plain(text, n) = g[n]
  <2>1. Stripped(g, text)
    BY <1>1, <1>3
  <2> HIDE DEF n, text
  <2> QED  BY <1>4, <1>8, <2>1, PlainIs
<1>10. ContentIsRight <=>
         /\ Client!Payload(seen) = Plain(text, n)
         /\ Contains(seen, Client!Trailers) <=> Contains(sent, Client!Trailers)
  BY DEF ContentIsRight
<1> HIDE DEF text, mf, ma, multi
<1>11. /\ seen \in Seq(Frame) /\ Len(seen) > 0
       /\ seen[Len(seen)].kind = "none" <=> WellFormed(multi, sent, text, mf, ma)
       /\ seen[Len(seen)].kind = "none" =>
            /\ Client!Payload(seen) = g[n]
            /\ Has(seen, "trailers") <=> Has(sent, "trailers")
  BY <1>6 DEF Judged
<1>12. Last(seen) = Client!None <=> seen[Len(seen)].kind = "none"
  <2>1. Len(seen) \in 1..Len(seen)
    BY <1>11, LenProperties
  <2>2. seen[Len(seen)] \in Frame
    BY <1>11, <2>1, FrameAt
  <2> QED  BY <2>2, FramesAre DEF Last
<1>13. /\ Contains(seen, Client!Trailers) <=> Has(seen, "trailers")
       /\ Contains(sent, Client!Trailers) <=> Has(sent, "trailers")
  <2>1. \A i \in 1..Len(seen) : seen[i] = Client!Trailers <=> seen[i].kind = "trailers"
    BY <1>11, FrameAt, FramesAre
  <2>2. \A i \in 1..Len(sent) : sent[i] = Client!Trailers <=> sent[i].kind = "trailers"
    BY <1>4, FrameAt, FramesAre
  <2> QED  BY <2>1, <2>2 DEF Contains, Has
<1> QED  BY <1>7, <1>9, <1>10, <1>11, <1>12, <1>13

\* A body somebody else made: no byte of it is above 1.
LEMMA ForeignBodyIs ==
  ASSUME NEW body \in ForeignBodies
  PROVE  /\ body \in Seq(Frame) /\ Orderly(body) /\ Len(body) > 0
         /\ body[Len(body)].kind \in {"none", "error"}
         /\ \A i \in 1..Len(body) : \A k \in 1..Len(body[i].bytes) :
              body[i].bytes[k] \in {-1, 0, 1}
<1> DEFINE B == {-1, 0, 1}
<1>1. PICK data \in BoundedSeq(Fragments, MaxFrames),
           end \in Endings : body = data \o end
  BY DEF ForeignBodies
<1>2. ASSUME NEW b \in BoundedSeq(Symbols, MaxFragment)
      PROVE  b \in Seq(Int) /\ Len(b) \in Nat /\ \A k \in 1..Len(b) : b[k] \in B
  <2>1. PICK m \in 0..MaxFragment : b \in [1..m -> B]
    BY DEF BoundedSeq, SeqOf, Symbols, Client!EndMark
  <2>2. m \in Nat /\ B \subseteq Int
    BY FragmentAssumption DEF FragmentAssumption
  <2>3. b \in Seq(B) /\ Len(b) = m
    <3> HIDE DEF B
    <3> QED  BY <2>1, <2>2, IsASeq
  <2>4. \A k \in 1..m : b[k] \in B
    BY <2>1
  <2>5. b \in [1..m -> Int]
    <3> HIDE DEF B
    <3> QED  BY <2>1, <2>2
  <2>6. b \in Seq(Int)
    BY <2>2, <2>5, IsASeq
  <2> QED  BY <2>2, <2>3, <2>4, <2>6
<1> HIDE DEF B
<1>3. ASSUME NEW f \in Fragments
      PROVE  f \in Frame /\ f.kind = "data" /\ \A k \in 1..Len(f.bytes) : f.bytes[k] \in B
  <2>1. PICK b \in BoundedSeq(Symbols, MaxFragment) : f = Client!Data(b)
    BY DEF Fragments
  <2> QED  BY <1>2, <2>1, FramesAre
<1>4. data \in Seq(Frame) /\ \A i \in 1..Len(data) : data[i] \in Fragments
  <2>1. PICK k \in 0..MaxFrames : data \in [1..k -> Fragments]
    BY DEF BoundedSeq, SeqOf
  <2>2. k \in Nat
    BY RoundTripAssumption DEF RoundTripAssumption
  <2>3. data \in [1..k -> Frame]
    BY <1>3, <2>1
  <2>4. data \in Seq(Frame) /\ Len(data) = k
    BY <2>2, <2>3, IsASeq
  <2> QED  BY <2>1, <2>2, <2>4
<1>5. \A i \in 1..Len(data) : data[i].kind = "data"
  BY <1>3, <1>4
<1>6. /\ body \in Seq(Frame) /\ Orderly(body) /\ Len(body) > 0
      /\ body[Len(body)].kind \in {"none", "error"}
      /\ \A i \in 1..Len(body) :
           (\E j \in 1..Len(data) : body[i] = data[j]) \/ body[i].bytes = <<>>
  <2>1. end \in Endings
    BY DEF Endings
  <2>2. Shape(data \o end, data)
    BY <1>4, <1>5, <2>1, ShapeIs
  <2> QED  BY <1>1, <2>2 DEF Shape
<1>7. ASSUME NEW i \in 1..Len(body)
      PROVE  \A k \in 1..Len(body[i].bytes) : body[i].bytes[k] \in B
  <2>1. CASE \E j \in 1..Len(data) : body[i] = data[j]
    BY <1>3, <1>4, <2>1
  <2>2. CASE body[i].bytes = <<>>
    <3>1. Len(body[i].bytes) = 0
      BY <2>2
    <3> QED  BY <3>1
  <2> QED  BY <1>6, <2>1, <2>2
<1> QED  BY <1>6, <1>7 DEF B

\* WrapBody::new, for a body somebody else made.
LEMMA ForeignNewIs ==
  ASSUME NEW m \in BOOLEAN
  PROVE  \E v : /\ v = Client!New(FALSE, m)
                /\ v \in Wrap /\ ~v.encodes /\ ~v.yielded_all_data
                /\ v.non_data_frame = Client!None /\ ~v.read_some_data /\ v.chunk = <<>>
                /\ v.codec = "open" /\ v.held = <<>> /\ ~v.read_all_data /\ ~v.finished
<1> DEFINE v == Client!New(FALSE, m)  none == Client!None  empty == <<>>
<1>1. none \in Frame /\ Client!None = none /\ empty \in Seq(Int)
  BY FramesAre
<1>2. v = [encodes |-> FALSE, multiple_members |-> m, yielded_all_data |-> FALSE,
           non_data_frame |-> none, read_some_data |-> FALSE, chunk |-> empty,
           codec |-> "open", held |-> empty, read_all_data |-> FALSE,
           finished |-> FALSE, inner_ended |-> FALSE, past_end |-> FALSE]
  BY <1>1 DEF Client!New
<1> HIDE DEF v, none, empty
<1>3. v \in Wrap
  BY <1>1, <1>2 DEF Wrap
<1>4. /\ ~v.encodes /\ ~v.yielded_all_data /\ v.non_data_frame = none
      /\ ~v.read_some_data /\ v.chunk = empty /\ v.codec = "open" /\ v.held = empty
      /\ ~v.read_all_data /\ ~v.finished
  BY <1>2
<1> QED  BY <1>3, <1>4, Zenon DEF v, none, empty

\* What a body of small bytes carries, and where its frames are in that.
LEMMA LayoutExists ==
  ASSUME NEW se \in Seq(Frame), Orderly(se), Len(se) > 0, se[Len(se)].kind \in {"none", "error"},
         \A i \in 1..Len(se) : \A k \in 1..Len(se[i].bytes) : se[i].bytes[k] \in {-1, 0, 1}
  PROVE  \E p : Layout(se, Client!Payload(se), p)
<1> DEFINE text == Client!Payload(se)  B == {-1, 0, 1}
<1>1. text \in Seq(Int) /\ Chain(se, text, 0, Len(text))
  BY OrderlyEndsLast, OwnChain
<1>2. \A k \in 1..Len(text) : text[k] \in B
  <2>1. \A i \in 1..Len(se) : \A k \in 1..Len(se[i].bytes) : se[i].bytes[k] \in B
    OBVIOUS
  <2> HIDE DEF B
  <2> QED  BY <2>1, PayloadFrom
<1>3. \A k \in 1..Len(text) : text[k] <= 1
  <2> HIDE DEF text
  <2> QED  BY <1>2
<1> HIDE DEF text
<1>4. PICK p : Places(p, se, text, 0, Len(text))
  BY <1>1 DEF Chain
<1>5. Layout(se, text, p)
  BY <1>1, <1>3, <1>4 DEF Layout
<1> QED  BY <1>5 DEF text

\* Before the first poll nothing is decoded.
LEMMA DecodingStarts ==
  ASSUME NEW v, NEW se, NEW text, NEW p, NEW g, Layout(se, text, p), Stripped(g, text),
         v \in Wrap, ~v.encodes, ~v.yielded_all_data, v.non_data_frame = Client!None,
         ~v.read_some_data, v.chunk = <<>>, v.codec = "open", v.held = <<>>,
         ~v.read_all_data, ~v.finished
  PROVE  Decoding(v, se, <<>>, se, text, p, g, 0, 0)
<1> DEFINE none == <<>>
<1>1. /\ Len(se) \in Nat /\ Len(text) \in Nat /\ text \in Seq(Int) /\ se \in Seq(Frame)
      /\ p[0] = 0
  BY LayoutPlaces
<1>2. none \in Seq(Frame) /\ Len(none) = 0 /\ none \in Seq(Int)
  OBVIOUS
<1>3. g[0] = none
  BY DEF Stripped
<1>4. Client!Payload(none) = none /\ none \o none = none
  BY PayloadEmpty
<1>5. v.chunk = none /\ v.held = none
  OBVIOUS
<1> HIDE DEF none
<1>6. Segment(none, text, 0)
  BY <1>1, <1>2 DEF Segment
<1>7. Rest(se, se, 0)
  BY <1>1 DEF Rest
<1>8. At(v, text, p, 0, 0)
  <2>1. \A j \in 0..0 : j = 0
    OBVIOUS
  <2> QED  BY <1>1, <1>2, <1>5, <1>6, <2>1 DEF At
<1>9. CodecIs(v, text, p, 0, 0)
  BY DEF CodecIs
<1>10. DataIs(v, se, p, 0)
  BY <1>1 DEF DataIs
<1>11. EndsAre(v, se, se, none, 0)
  <2>1. ~Has(none, "trailers")
    BY <1>2 DEF Has
  <2> QED  BY <2>1 DEF EndsAre
<1>12. OutputIs(v, none, g, 0)
  BY <1>3, <1>4, <1>5 DEF OutputIs
<1>13. Decoding(v, se, none, se, text, p, g, 0, 0)
  BY <1>2, <1>7, <1>8, <1>9, <1>10, <1>11, <1>12 DEF Decoding
<1> QED  BY <1>13 DEF none

\* The invariant holds before the first poll.
LEMMA ForeignStarts ==
  ASSUME ForeignInit
  PROVE  ForeignInv
<1>1. PICK m \in BOOLEAN : decoder = Client!New(FALSE, m)
  BY DEF ForeignInit
<1>2. sent \in ForeignBodies /\ wire = sent /\ seen = <<>>
  BY DEF ForeignInit
<1>3. /\ sent \in Seq(Frame) /\ Orderly(sent) /\ Len(sent) > 0
      /\ sent[Len(sent)].kind \in {"none", "error"}
      /\ \A i \in 1..Len(sent) : \A k \in 1..Len(sent[i].bytes) :
           sent[i].bytes[k] \in {-1, 0, 1}
  BY <1>2, ForeignBodyIs
<1>4. PICK p : Layout(sent, Text, p)
  BY <1>3, LayoutExists DEF Text
<1>5. PICK g : Stripped(g, Text)
  <2>1. Text \in Seq(Int)
    BY <1>4 DEF Layout
  <2> QED  BY <2>1, StrippedExists
<1>6. /\ decoder \in Wrap /\ ~decoder.encodes /\ ~decoder.yielded_all_data
      /\ decoder.non_data_frame = Client!None /\ ~decoder.read_some_data
      /\ decoder.chunk = <<>> /\ decoder.codec = "open" /\ decoder.held = <<>>
      /\ ~decoder.read_all_data /\ ~decoder.finished
  BY <1>1, ForeignNewIs
<1>7. Decoding(decoder, sent, <<>>, sent, Text, p, g, 0, 0)
  BY <1>4, <1>5, <1>6, DecodingStarts
<1>8. Decoding(decoder, wire, seen, sent, Text, p, g, 0, 0)
  BY <1>2, <1>7
<1> QED  BY <1>4, <1>5, <1>8 DEF ForeignInv

\* The invariant is kept by a poll.
LEMMA ForeignPolls ==
  ASSUME ForeignInv, Receives
  PROVE  ForeignInv'
<1>1. PICK p, g :
        /\ Layout(sent, Text, p) /\ Stripped(g, Text)
        /\ \/ Finished(decoder, sent, Text, g, seen)
           \/ \E k, c : Decoding(decoder, wire, seen, sent, Text, p, g, k, c)
  BY DEF ForeignInv
<1>2. Client!poll_frame /\ sent' = sent
  BY DEF Receives
<1>3. Text' = Text
  BY <1>2 DEF Text, Client!Payload, Client!FlattenSeq
<1>4. ~decoder.finished
  BY <1>2, Zenon
     DEF Client!poll_frame, Client!Read, Client!WantsInput, Client!Consume,
         Client!InputEnds, Client!Emit, Client!ReadAll, Client!Fail, Client!PollsTail,
         Client!TailSetAside, Client!TailPolls
<1>5. PICK k, c : Decoding(decoder, wire, seen, sent, Text, p, g, k, c)
  BY <1>1, <1>4 DEF Finished
<1>6. Poised
  BY <1>5 DEF Decoding, Rest, Poised
<1>7. ForeignStep(decoder, wire, seen, decoder', wire', seen')
  BY <1>2, <1>6, ForeignSteps
<1>8. \/ Finished(decoder', sent, Text, g, seen')
      \/ \E k2, c2 : Decoding(decoder', wire', seen', sent, Text, p, g, k2, c2)
  BY <1>1, <1>5, <1>7, ForeignTurn
<1>9. /\ Layout(sent', Text', p) /\ Stripped(g, Text')
      /\ \/ Finished(decoder', sent', Text', g, seen')
         \/ \E k2, c2 : Decoding(decoder', wire', seen', sent', Text', p, g, k2, c2)
  BY <1>1, <1>2, <1>3, <1>8
<1> QED  BY <1>9 DEF ForeignInv

\* Nobody but the caller takes part in it.
LEMMA ForeignAlone ==
  ASSUME ForeignInv, network = "none", [Next]_vars
  PROVE  ForeignInv' /\ network' = "none"
<1>1. CASE Receives
  <2>1. network' = network
    BY <1>1 DEF Receives
  <2> QED  BY <1>1, <2>1, ForeignPolls
<1>2. CASE UNCHANGED vars
  <2>1. /\ sent' = sent /\ wire' = wire /\ decoder' = decoder /\ seen' = seen
        /\ network' = network
    BY <1>2 DEF vars
  <2>2. Text' = Text
    BY <2>1 DEF Text, Client!Payload, Client!FlattenSeq
  <2> QED  BY <2>1, <2>2 DEF ForeignInv
<1>3. ~Sends /\ ~NetworkFails /\ ~NetworkPads
  BY DEF Sends, NetworkFails, NetworkPads
<1> QED  BY <1>1, <1>2, <1>3 DEF Next, Terminated

-----------------------------------------------------------------------------
(* A behaviour is one or the other to its end.                             *)
BodyInv ==
  \/ network # "none" /\ TripInv
  \/ network = "none" /\ ForeignInv

LEMMA TripIsNoForeign == TripInv => network # "none"
  BY DEF TripInv, Sound, Kinds

THEOREM BodiesAreSound == Spec => []BodyInv
<1>1. Init \/ ForeignInit => BodyInv
  <2>1. Init => TripInv
    BY TripStarts
  <2>2. ForeignInit => ForeignInv /\ network = "none"
    BY ForeignStarts DEF ForeignInit
  <2> QED  BY <2>1, <2>2, TripIsNoForeign DEF BodyInv
<1>2. BodyInv /\ [Next]_vars => BodyInv'
  <2> SUFFICES ASSUME BodyInv, [Next]_vars PROVE BodyInv'
    OBVIOUS
  <2>1. CASE network # "none" /\ TripInv
    <3>1. TripInv'
      BY <2>1, TripSteps
    <3>2. network' # "none"
      BY <3>1 DEF TripInv, Sound, Kinds
    <3> QED  BY <3>1, <3>2 DEF BodyInv
  <2>2. CASE network = "none" /\ ForeignInv
    BY <2>2, ForeignAlone DEF BodyInv
  <2> QED  BY <2>1, <2>2 DEF BodyInv
<1> QED  BY <1>1, <1>2, PTL DEF Spec

(* Compression and Decompression deliver what was sent, for all bytes and  *)
(* bounds: neither WrapBody::poll_frame nor BodyIntoStream::poll_frame     *)
(* drops, repeats or reorders a byte, ends a body that is not complete,    *)
(* passes over a failure or invents one.                                   *)
THEOREM DeliveryIsAlwaysFaithful == Spec => []DeliveryIsFaithful
<1>1. BodyInv => DeliveryIsFaithful
  BY SoundIsFaithful DEF BodyInv, DeliveryIsFaithful
<1> QED  BY <1>1, BodiesAreSound, PTL

(* The verdict of Decompression on any body is right, however many bytes   *)
(* and frames it has: WrapBody::poll_frame reports truncated and garbled   *)
(* bodies and errors, ends cleanly on all others, and a clean end has      *)
(* delivered the whole content and the trailers.                           *)
THEOREM VerdictIsAlwaysRight == Spec => []VerdictIsRight
<1>1. BodyInv => VerdictIsRight
  BY JudgedIsRight DEF BodyInv, VerdictIsRight
<1> QED  BY <1>1, BodiesAreSound, PTL
=============================================================================
