------------------------------ MODULE Classify ------------------------------
(***************************************************************************)
(* The response classifiers of classify/: ServerErrorsAsFailures,          *)
(* StatusInRangeAsFailures and GrpcErrorsAsFailures.  A response is the    *)
(* status code and the value of its grpc-status header, and trailers are   *)
(* the value of theirs: GrpcMissing, NotGrpcCode (not an i32), or a code.  *)
(***************************************************************************)
EXTENDS Naturals

GrpcMissing == "missing"
NotGrpcCode == "not-a-code"
\* Stand for GrpcCode::Ok, another code of GrpcCode, and an i32 outside it.
KnownCodes  == {"0", "5"}
GrpcValues  == KnownCodes \cup {"17", GrpcMissing, NotGrpcCode}
NoTrailers  == "no-trailers"

\* kind picks the classifier, failing is the range of StatusInRangeAsFailures,
\* success the codes GrpcErrorsAsFailures takes for a success.
ClassifierType ==
  [kind : {"server_errors", "range", "grpc"}, failing : SUBSET (100..999),
   success : SUBSET KnownCodes]

classify_grpc_metadata(value, success) ==
  IF value = GrpcMissing THEN "GrpcStatusHeaderMissing"
  ELSE IF value = NotGrpcCode THEN "HeaderNotGrpcCode"
  ELSE IF value \in KnownCodes /\ value \in success THEN "Success"
  ELSE "NonSuccess"

IsFailure(c, res) ==
  CASE c.kind = "server_errors" -> res.status \in 500..599
    [] c.kind = "range"         -> res.status \in c.failing
    [] c.kind = "grpc"          ->
         classify_grpc_metadata(res.grpc, c.success) = "NonSuccess"

\* Only GrpcErrorsAsFailures ever needs the end of the stream.
RequiresEos(c, res) ==
  /\ c.kind = "grpc"
  /\ classify_grpc_metadata(res.grpc, c.success) = "GrpcStatusHeaderMissing"

\* ClassifiedResponse: Ready(Ok), Ready(Err) or RequiresEos.
classify_response(c, res) ==
  IF IsFailure(c, res) THEN "Err" ELSE IF RequiresEos(c, res) THEN "RequiresEos" ELSE "Ok"

\* ClassifyEos::classify_eos returned Err.
classify_eos(c, trailers) ==
  /\ trailers # NoTrailers
  /\ classify_grpc_metadata(trailers, c.success) = "NonSuccess"
=============================================================================
