------------------------- MODULE MCObservedService -------------------------
(* Small instances of ObservedService.                                     *)
EXTENDS ObservedService

MCClassifier(kind, failing, success) ==
  [kind |-> kind, failing |-> failing, success |-> success]
\* All three classifiers, gRPC with and without an extra success code.
MCClassifiers ==
  {MCClassifier("server_errors", {}, {}), MCClassifier("range", 400..599, {}),
   MCClassifier("grpc", {}, {"0"}), MCClassifier("grpc", {}, {"0", "5"})}
MCHttpClassifier == {MCClassifier("server_errors", {}, {})}

MCResponses ==
  {[status |-> s, grpc |-> g] : s \in {200, 404, 500}, g \in GrpcValues}
MCPlainResponse == {[status |-> 200, grpc |-> GrpcMissing]}

MCLoad(requests, classifiers, responses, n, k) ==
  [requests |-> requests, classifiers |-> classifiers, responses |-> responses,
   polls |-> n, handles |-> k]

\* Every response and frame sequence of one request; several requests that
\* share the counter with the emitter.
MCLoads ==
  [frames  |-> MCLoad({CHOOSE r \in Requests : TRUE}, MCClassifiers, MCResponses, 3, 1),
   counter |-> MCLoad(Requests, MCHttpClassifier, MCPlainResponse, 0, 2)]
MCPlainLoads ==
  [plain |-> MCLoad(Requests, MCHttpClassifier, MCPlainResponse, 1, 1)]
=============================================================================
