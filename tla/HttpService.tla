---------------------------- MODULE HttpService ----------------------------
(***************************************************************************)
(* The two sides the observing middleware sit between: an inner service    *)
(* with its response future and response body, and the caller who polls or *)
(* drops them.  None of it is in the repository: it is what the code       *)
(* assumes of tower::Service and http_body::Body.  Each action is one      *)
(* request's step; the middleware's parts of the step are conjoined to it  *)
(* in ObservedService.                                                     *)
(***************************************************************************)
EXTENDS Classify

CONSTANTS
  Requests,   \* the requests
  Loads       \* what may be asked of the service, by name

(* A load: the requests that are made, the classifiers the Trace layer may *)
(* be built with, the responses the inner service may give, and bounds on  *)
(* the frames a caller polls from one body and on the clones of the layer  *)
(* and the service.                                                        *)
ASSUME LoadsAssumption ==
  \A n \in DOMAIN Loads : LET l == Loads[n] IN
    /\ l.requests \subseteq Requests
    /\ l.classifiers \subseteq ClassifierType
    /\ l.responses \subseteq [status : 100..999, grpc : GrpcValues]
    /\ l.polls \in Nat /\ l.handles \in Nat \ {0}

VARIABLES
  load,      \* the name of the load, fixed
  stage,     \* "idle", "future", "failed" (resolved to Err), "body", "gone"
  response,  \* the response the future resolved to
  stream,    \* how far the body is: "none", "failed", "open", "trailed",
             \* "ended", "errored"
  at_end,    \* Body::is_end_stream
  trailers,  \* the trailers the body gave, or NoTrailers
  polls

svars == <<load, stage, response, stream, at_end, trailers, polls>>

NoResponse == [status |-> 0, grpc |-> GrpcMissing]
FrameKinds == {"data", "trailers", "err", "none"}

ServiceInit ==
  /\ load \in DOMAIN Loads
  /\ stage = [r \in Requests |-> "idle"]
  /\ response = [r \in Requests |-> NoResponse]
  /\ stream = [r \in Requests |-> "none"]
  /\ at_end = [r \in Requests |-> FALSE]
  /\ trailers = [r \in Requests |-> NoTrailers]
  /\ polls = [r \in Requests |-> 0]

ServiceCall(r) ==
  /\ stage[r] = "idle" /\ r \in Loads[load].requests
  /\ stage' = [stage EXCEPT ![r] = "future"]
  /\ UNCHANGED <<load, response, stream, at_end, trailers, polls>>

\* The body may know from the start that it is empty.
ServiceResponds(r, res, e) ==
  /\ stage[r] = "future" /\ res \in Loads[load].responses
  /\ stage' = [stage EXCEPT ![r] = "body"]
  /\ response' = [response EXCEPT ![r] = res]
  /\ stream' = [stream EXCEPT ![r] = "open"]
  /\ at_end' = [at_end EXCEPT ![r] = e]
  /\ UNCHANGED <<load, trailers, polls>>

ServiceFails(r) ==
  /\ stage[r] = "future"
  /\ stage' = [stage EXCEPT ![r] = "failed"]
  /\ stream' = [stream EXCEPT ![r] = "failed"]
  /\ UNCHANGED <<load, response, at_end, trailers, polls>>

\* What poll_frame may return: is_end_stream is a promise that only None
\* follows; trailers come last; a body that failed may fail again.
CanYield(r, k) ==
  \/ k = "none"
  \/ k = "err" /\ stream[r] \in {"open", "errored"} /\ ~ at_end[r]
  \/ k \in {"data", "trailers"} /\ stream[r] = "open" /\ ~ at_end[r]

Terminal == [data |-> "open", trailers |-> "trailed", err |-> "errored",
             none |-> "ended"]

\* One Ready poll of the body: its kind, the trailers if any, and what
\* is_end_stream answers from then on.
ServiceFrame(r, k, t, e) ==
  /\ stage[r] = "body" /\ polls[r] < Loads[load].polls
  /\ CanYield(r, k)
  /\ (k = "trailers") = (t # NoTrailers)
  /\ at_end[r] \/ k \in {"err", "none"} => e = at_end[r]
  /\ stream' = [stream EXCEPT ![r] = IF @ \in {"open", "trailed"} THEN Terminal[k] ELSE @]
  /\ trailers' = [trailers EXCEPT ![r] = IF k = "trailers" THEN t ELSE @]
  /\ at_end' = [at_end EXCEPT ![r] = e]
  /\ polls' = [polls EXCEPT ![r] = @ + 1]
  /\ UNCHANGED <<load, stage, response>>

\* The caller drops the future, pending or resolved to an error.
FutureDropped(r) ==
  /\ stage[r] \in {"future", "failed"}
  /\ stage' = [stage EXCEPT ![r] = "gone"]
  /\ UNCHANGED <<load, response, stream, at_end, trailers, polls>>

BodyDropped(r) ==
  /\ stage[r] = "body"
  /\ stage' = [stage EXCEPT ![r] = "gone"]
  /\ UNCHANGED <<load, response, stream, at_end, trailers, polls>>

ServiceTypeOK ==
  /\ load \in DOMAIN Loads
  /\ stage \in [Requests -> {"idle", "future", "failed", "body", "gone"}]
  /\ response \in [Requests -> Loads[load].responses \cup {NoResponse}]
  /\ stream \in [Requests ->
       {"none", "failed", "open", "trailed", "ended", "errored"}]
  /\ at_end \in [Requests -> BOOLEAN]
  /\ trailers \in [Requests -> GrpcValues \cup {NoTrailers}]
  /\ polls \in [Requests -> 0..Loads[load].polls]
=============================================================================
