---------------------------- MODULE ForeignBody -----------------------------
(***************************************************************************)
(* Decompression of a body somebody else made: any frames at all, complete *)
(* or truncated, garbled or followed by more bytes.  The verdict of        *)
(* WrapBody::poll_frame is compared with a definition of the bodies that   *)
(* are well formed.  A behaviour is a round trip, or begins with such a    *)
(* body, and then no server and no network has a part in it.               *)
(***************************************************************************)
EXTENDS RoundTrip

CONSTANT MaxFragment   \* bound on the bytes of one frame of such a body
ASSUME FragmentAssumption == MaxFragment \in Nat

(* -1 is an encoded byte, 0 an end mark, 1 is neither.                     *)
Symbols   == {-1, Client!EndMark, 1}
Fragments == {Client!Data(b) : b \in BoundedSeq(Symbols, MaxFragment)}
ForeignBodies ==
  {data \o end : data \in BoundedSeq(Fragments, MaxFrames), end \in Endings}

(* The whole body is on the wire; there is no encoder at work.             *)
ForeignInit ==
  /\ sent \in ForeignBodies
  /\ wire = sent
  /\ \E multiple_members \in BOOLEAN :
       decoder = Client!New(FALSE, multiple_members)
  /\ seen = <<>>
  /\ app = <<>>
  /\ encoder = Server!New(TRUE, FALSE)
  /\ network = "none"
  /\ pads = 0

Spec == (Init \/ ForeignInit) /\ [][Next]_vars /\ Fairness

-----------------------------------------------------------------------------
DataFrames == {i \in DOMAIN sent : sent[i].kind = "data"}

\* What the body says, cuts between frames forgotten.
Text == Client!Payload(sent)

(* Position of the frame that holds the first end mark, 0 without one.     *)
MarkedFrame == SelectInSeq(sent, LAMBDA f : Contains(f.bytes, Client!EndMark))

(* Where the content ends for a decoder of one member: at the first end    *)
(* mark.  What the frame of the mark holds after it stays in StreamReader  *)
(* and nobody looks at it.                                                 *)
MarkAt == SelectInSeq(Text, LAMBDA b : b = Client!EndMark)

(* The bodies that decode: no data frame at all, or members that are each  *)
(* complete.  A decoder for one member also wants no byte in the frames    *)
(* after its end mark.                                                     *)
Decodable ==
  /\ ~Contains(sent, Client!Error)
  /\ \/ DataFrames = {}
     \/ /\ decoder.multiple_members
        /\ Text # <<>>
        /\ Last(Text) = Client!EndMark
        /\ ~Contains(Text, 1)
     \/ /\ ~decoder.multiple_members
        /\ MarkedFrame # 0
        /\ \A i \in 1..MarkAt : Text[i] # 1
        /\ \A i \in DataFrames : i > MarkedFrame => sent[i].bytes = <<>>

(* What the first n of some bytes decode to.                               *)
Plain(bytes, n) ==
  LET plain[i \in 0..Len(bytes)] ==
        IF i = 0 THEN <<>>
        ELSE IF bytes[i] < 0 THEN Append(plain[i - 1], -bytes[i]) ELSE plain[i - 1]
  IN plain[n]

\* What a clean end has delivered.
ContentIsRight ==
  /\ Client!Payload(seen) = Plain(Text, IF decoder.multiple_members THEN Len(Text) ELSE MarkAt)
  /\ Contains(seen, Client!Trailers) <=> Contains(sent, Client!Trailers)

(* Once it is polled to the end, the decompressed body has ended without   *)
(* an error exactly when the body it decodes was well formed: truncated    *)
(* and garbled bodies are reported however they are cut into frames, and   *)
(* an error of the body itself is never swallowed.  A clean end has        *)
(* delivered all bytes of the content and the trailers, empty data frames  *)
(* in front of them or not (WrapBody::poll_frame).                         *)
VerdictIsRight ==
  network = "none" /\ decoder.finished =>
    /\ Last(seen) = Client!None <=> Decodable
    /\ Last(seen) = Client!None => ContentIsRight
=============================================================================
