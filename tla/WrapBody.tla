------------------------------ MODULE WrapBody ------------------------------
(***************************************************************************)
(* WrapBody (compression_utils.rs): a body seen through an encoder or a    *)
(* decoder.  The stack is WrapBody > codec > StreamReader >                *)
(* StreamErrorIntoIoError > BodyIntoStream > inner body; every layer's     *)
(* fields are fields of the record w.  poll_frame is cut where a poll of   *)
(* the inner body may return Pending and where the codec may fill its      *)
(* output buffer; nothing else runs in between, since a body is polled     *)
(* through &mut.                                                           *)
(*                                                                         *)
(* Bytes are integers: n > 0 is a plain byte, -n its encoding and 0 the    *)
(* end mark an encoder writes when its input ends.  The codecs are those   *)
(* of async-compression: external, reduced to what they may consume, emit  *)
(* and report.                                                             *)
(***************************************************************************)
EXTENDS Integers, Sequences, SequencesExt

VARIABLES inner,   \* the frames the inner body has still to yield
          w,       \* the fields of the stack
          out      \* the frames poll_frame returned

Data(bytes) == [kind |-> "data", bytes |-> bytes]
Trailers    == [kind |-> "trailers", bytes |-> <<>>]
Error       == [kind |-> "error", bytes |-> <<>>]
None        == [kind |-> "none", bytes |-> <<>>]
EndMark     == 0

(* The frames at the head of the inner body's queue.                       *)
Frames == IF inner = <<>> THEN {} ELSE {Head(inner)}

(* WrapBody::new over BodyIntoStream::new and StreamErrorIntoIoError::new; *)
(* M::apply picks an encoder or a decoder, and only the zstd decoder goes  *)
(* on after an end mark.                                                   *)
New(encodes, multiple_members) ==
       [encodes          |-> encodes,
        multiple_members |-> multiple_members,
        yielded_all_data |-> FALSE,  \* BodyIntoStream
        non_data_frame   |-> None,   \* BodyIntoStream; None for Option::None
        read_some_data   |-> FALSE,  \* StreamErrorIntoIoError
        chunk            |-> <<>>,   \* StreamReader
        codec            |-> "open", \* open, between members, done or failed
        held             |-> <<>>,   \* what the codec has not written out yet
        read_all_data    |-> FALSE,  \* WrapBody
        finished         |-> FALSE,  \* poll_frame returned None or an error
        inner_ended      |-> FALSE,  \* the inner body returned None ...
        past_end         |-> FALSE]  \* ... and was polled again after that

Return(frame) == out' = Append(out, frame)

(* The bytes a sequence of frames carries, frame boundaries forgotten.     *)
Payload(frames) == FlattenSeq([i \in DOMAIN frames |-> frames[i].bytes])

-----------------------------------------------------------------------------
(* The inner body: a queue of frames, and None over and over at the end.   *)
(* A poll that finds the queue empty is Pending.                           *)
InnerYields(frame) ==
  inner' = IF frame = None THEN inner ELSE Tail(inner)

(* The codec asks StreamReader for input, and its chunk is used up.        *)
WantsInput ==
  /\ ~w.finished
  /\ ~w.read_all_data
  /\ w.chunk = <<>>
  /\ w.codec \in {"open", "between"}

\* Mutant: a frame other than data ends the stream without being kept.
PollNext_DropsTrailers(frame) ==
  CASE frame.kind = "data" ->
         [w EXCEPT !.chunk = frame.bytes, !.read_some_data = TRUE]
    [] frame.kind = "trailers" ->
         [w EXCEPT !.yielded_all_data = TRUE]
    [] frame.kind = "none" ->
         [w EXCEPT !.yielded_all_data = TRUE, !.inner_ended = TRUE]
    [] frame.kind = "error" ->
         [w EXCEPT !.finished = TRUE]

\* Mutant: the end of the body does not end the stream.
PollNext_NeverDone(frame) ==
  CASE frame.kind = "data" ->
         [w EXCEPT !.chunk = frame.bytes, !.read_some_data = TRUE]
    [] frame.kind = "trailers" ->
         [w EXCEPT !.yielded_all_data = TRUE, !.non_data_frame = frame]
    [] frame.kind = "none" ->
         [w EXCEPT !.inner_ended = TRUE]
    [] frame.kind = "error" ->
         [w EXCEPT !.finished = TRUE]

(* BodyIntoStream::poll_next under StreamErrorIntoIoError::poll_next: a    *)
(* data frame is the next chunk, the first other frame is set aside and    *)
(* ends the stream, as the end of the body does.                           *)
PollNext(frame) ==
  CASE frame.kind = "data" ->
         [w EXCEPT !.chunk = frame.bytes, !.read_some_data = TRUE]
    [] frame.kind = "trailers" ->
         [w EXCEPT !.yielded_all_data = TRUE, !.non_data_frame = frame]
    [] frame.kind = "none" ->
         [w EXCEPT !.yielded_all_data = TRUE, !.inner_ended = TRUE]
    [] frame.kind = "error" ->
         [w EXCEPT !.finished = TRUE]

(* An error of the inner body passes through the codec as a sentinel and   *)
(* is what poll_frame returns.                                             *)
Read ==
  /\ WantsInput
  /\ ~w.yielded_all_data
  /\ \E frame \in Frames :
       /\ InnerYields(frame)
       /\ w' = PollNext(frame)
       /\ IF frame = Error THEN Return(Error) ELSE UNCHANGED out

-----------------------------------------------------------------------------
(* The codec consumes one byte of its chunk.                               *)
Encode == [w EXCEPT !.chunk = Tail(@), !.held = Append(@, -Head(w.chunk))]

Decode ==
  LET byte == Head(w.chunk) IN
  CASE byte < 0 ->
         [w EXCEPT !.chunk = Tail(@), !.codec = "open", !.held = Append(@, -byte)]
    [] byte = EndMark ->
         [w EXCEPT !.chunk = Tail(@),
                   !.codec = IF w.multiple_members THEN "between" ELSE "done"]
    [] byte > 0 ->
         [w EXCEPT !.codec = "failed"]

Consume ==
  /\ ~w.finished
  /\ w.chunk # <<>>
  /\ w.codec \in {"open", "between"}
  /\ w' = IF w.encodes THEN Encode ELSE Decode
  /\ UNCHANGED <<inner, out>>

(* The codec sees the end of its input: an encoder writes the end mark, a  *)
(* decoder is content between two members only.                            *)
InputEnds ==
  /\ WantsInput
  /\ w.yielded_all_data
  /\ w' = CASE w.encodes ->
                 [w EXCEPT !.codec = "done", !.held = Append(@, EndMark)]
            [] ~w.encodes /\ w.codec = "between" -> [w EXCEPT !.codec = "done"]
            [] ~w.encodes /\ w.codec = "open" -> [w EXCEPT !.codec = "failed"]
  /\ UNCHANGED <<inner, out>>

-----------------------------------------------------------------------------
(* poll_read_buf returns Ok(n), n > 0: a data frame.                       *)
Emit ==
  /\ ~w.finished
  /\ ~w.read_all_data
  /\ \E n \in 1 .. Len(w.held) :
       /\ Return(Data(SubSeq(w.held, 1, n)))
       /\ w' = [w EXCEPT !.held = SubSeq(@, n + 1, Len(@))]
  /\ UNCHANGED inner

(* poll_read_buf returns Ok(0).                                            *)
ReadAll ==
  /\ ~w.finished
  /\ ~w.read_all_data
  /\ w.codec = "done"
  /\ w.held = <<>>
  /\ w' = [w EXCEPT !.read_all_data = TRUE]
  /\ UNCHANGED <<inner, out>>

\* Mutant: a codec error is never reported once the input has ended.
Ignores_AtEnd == w.codec = "failed" /\ w.yielded_all_data

(* poll_read_buf fails, with an error of the codec's own.  It is ignored   *)
(* when the inner body had no data frame at all: there was nothing to      *)
(* decode.                                                                 *)
Ignores == w.codec = "failed" /\ ~w.read_some_data

Fail ==
  /\ ~w.finished
  /\ w.codec = "failed"
  /\ ~Ignores
  /\ Return(Error)
  /\ w' = [w EXCEPT !.finished = TRUE]
  /\ UNCHANGED inner

-----------------------------------------------------------------------------
(* "poll any remaining frames, such as trailers".                          *)
PollsTail == ~w.finished /\ (w.read_all_data \/ Ignores)

(* BodyIntoStream::poll_frame: the frame poll_next set aside ...           *)
TailSetAside ==
  /\ PollsTail
  /\ w.yielded_all_data
  /\ w.non_data_frame # None
  /\ Return(w.non_data_frame)
  /\ w' = [w EXCEPT !.non_data_frame = None]
  /\ UNCHANGED inner

\* Mutant: no data frame may follow the content, not even an empty one.
TailFrame_Strict(frame) == IF frame.kind = "data" THEN Error ELSE frame

(* What poll_frame makes of a frame that follows the content.              *)
TailFrame(frame) ==
  IF frame.kind = "data" /\ frame.bytes # <<>> THEN Error ELSE frame

(* ... or else the next frame of the inner body.  When poll_next meets the *)
(* end of the inner body here, or met it before, the inner body is polled  *)
(* once more.                                                              *)
TailPolls ==
  /\ PollsTail
  /\ w.yielded_all_data => w.non_data_frame = None
  /\ \E frame \in Frames :
       /\ InnerYields(frame)
       /\ Return(TailFrame(frame))
       /\ w' = [w EXCEPT
                  !.yielded_all_data = @ \/ frame.kind \in {"trailers", "none"},
                  !.finished = TailFrame(frame) \in {Error, None},
                  !.inner_ended = @ \/ frame = None,
                  !.past_end = @ \/ w.inner_ended
                                 \/ (frame = None /\ ~w.yielded_all_data)]

poll_frame ==
  \/ Read \/ Consume \/ InputEnds \/ Emit \/ ReadAll
  \/ Fail \/ TailSetAside \/ TailPolls
=============================================================================
