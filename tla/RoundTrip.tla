----------------------------- MODULE RoundTrip ------------------------------
(***************************************************************************)
(* A response compressed by Compression, carried by a network and          *)
(* decompressed by Decompression: two WrapBody stacks joined by a wire.    *)
(* The network may cut the transfer short and may deliver empty data       *)
(* frames; frames are re-chunked already by what each codec emits.         *)
(***************************************************************************)
EXTENDS Integers, Sequences, SequencesExt

CONSTANTS Bytes,       \* the plain bytes, positive numbers
          MaxFrames,   \* bound on the data frames of the response
          MaxBytes,    \* bound on the bytes of one frame
          MaxPads      \* bound on the empty frames the network delivers

ASSUME RoundTripAssumption ==
  /\ Bytes \subseteq Nat \ {0}
  /\ {MaxFrames, MaxBytes, MaxPads} \subseteq Nat

VARIABLES sent,     \* the frames of the response body, as it was made
          app,      \* those the encoder has not polled yet
          encoder,  \* the WrapBody of Compression
          wire,     \* frames under way
          decoder,  \* the WrapBody of Decompression
          seen,     \* the frames the caller got
          network,  \* "up", "failed", or "none": see ForeignBody
          pads      \* empty frames delivered so far
vars == <<sent, app, encoder, wire, decoder, seen, network, pads>>

Server == INSTANCE WrapBody WITH inner <- app, w <- encoder, out <- wire
Client == INSTANCE WrapBody WITH inner <- wire, w <- decoder, out <- seen

(* Response bodies: data frames, empty ones included, then an end, with or *)
(* without trailers, or an error.                                          *)
Contents == {Client!Data(b) : b \in BoundedSeq(Bytes, MaxBytes)}
Endings ==
  {<<Client!None>>, <<Client!Trailers, Client!None>>, <<Client!Error>>}
Bodies ==
  {data \o end : data \in BoundedSeq(Contents, MaxFrames), end \in Endings}

Init ==
  /\ sent \in Bodies
  /\ app = sent
  /\ encoder = Server!New(TRUE, FALSE)
  /\ wire = <<>>
  /\ \E multiple_members \in BOOLEAN :
       decoder = Client!New(FALSE, multiple_members)
  /\ seen = <<>>
  /\ network = "up"
  /\ pads = 0

(* The server polls the compressed body and sends what it gets.            *)
Sends ==
  /\ network = "up"
  /\ Server!poll_frame
  /\ UNCHANGED <<sent, decoder, seen, network, pads>>

(* The caller polls the decompressed body.                                 *)
Receives ==
  /\ Client!poll_frame
  /\ UNCHANGED <<sent, app, encoder, network, pads>>

(* The connection is lost before the last frame: the client's body fails.  *)
NetworkFails ==
  /\ network = "up"
  /\ ~encoder.finished
  /\ network' = "failed"
  /\ wire' = Append(wire, Client!Error)
  /\ UNCHANGED <<sent, app, encoder, decoder, seen, pads>>

NetworkPads ==
  /\ network = "up"
  /\ ~encoder.finished
  /\ pads < MaxPads
  /\ pads' = pads + 1
  /\ wire' = Append(wire, Client!Data(<<>>))
  /\ UNCHANGED <<sent, app, encoder, decoder, seen, network>>

Terminated == decoder.finished /\ UNCHANGED vars

Next == Sends \/ Receives \/ NetworkFails \/ NetworkPads \/ Terminated

(* Server and caller keep polling their bodies.                            *)
Fairness == WF_vars(Sends) /\ WF_vars(Receives)

-----------------------------------------------------------------------------
\* The caller has got no byte the response did not contain at that place.
SeenIsPrefix == IsPrefix(Client!Payload(seen), Client!Payload(sent))

\* A body that ended without an error is the whole response.
CleanEndIsComplete ==
  Contains(seen, Client!None) =>
    /\ Client!Payload(seen) = Client!Payload(sent)
    /\ Contains(seen, Client!Trailers) <=> Contains(sent, Client!Trailers)
    /\ ~Contains(sent, Client!Error)
    /\ network = "up"

\* An error that the caller got is one of the response or the network.
ErrorsAreReal ==
  Contains(seen, Client!Error) =>
    Contains(sent, Client!Error) \/ network = "failed"

(* WrapBody drops, repeats and reorders nothing: at every moment the       *)
(* caller has a prefix of the response, and at a clean end every byte, the *)
(* trailers if there were any, and no failure was passed over.  Nor does   *)
(* it invent an error: empty bodies, empty data frames and trailers pass   *)
(* both codecs (WrapBody::poll_frame and BodyIntoStream::poll_frame).      *)
DeliveryIsFaithful ==
  network # "none" => SeenIsPrefix /\ CleanEndIsComplete /\ ErrorsAreReal

(* Every body that is polled to the end does end.                          *)
Ends == <>decoder.finished
=============================================================================
