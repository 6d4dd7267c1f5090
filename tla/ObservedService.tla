-------------------------- MODULE ObservedService --------------------------
(***************************************************************************)
(* InFlightRequests around Trace around OnEarlyDrop around a service: the  *)
(* order the documentation of on_early_drop asks for.  Every step of a     *)
(* request is one call that passes through all three, innermost first, so  *)
(* the composed action is the conjunction of the components' parts; the    *)
(* requests and the emitter task interleave.                               *)
(***************************************************************************)
EXTENDS Trace, OnEarlyDrop, InFlightRequests

vars == <<svars, tvars, early, ivars>>

Init ==
  /\ ServiceInit
  /\ TraceInit(Loads[load].classifiers)
  /\ EarlyInit
  /\ InFlightInit

Call(r) ==
  /\ ServiceCall(r)
  /\ TraceCall(r)
  /\ EarlyCall(r)
  /\ increment(r)

Responds_GuardLost(r, res, e) ==  \* Mutant: the guard ends with the future
  /\ ServiceResponds(r, res, e)
  /\ TraceResponds(r, res)
  /\ EarlyResponds(r, e)
  /\ GuardDropped(r)
Responds(r, res, e) ==
  /\ ServiceResponds(r, res, e)
  /\ TraceResponds(r, res)
  /\ EarlyResponds(r, e)
  /\ UNCHANGED ivars

Fails(r) ==
  /\ ServiceFails(r)
  /\ TraceFails(r)
  /\ EarlyFails(r)
  /\ UNCHANGED ivars

Frame(r, k, t, e) ==
  /\ ServiceFrame(r, k, t, e)
  /\ TraceFrame(r, k, t, e)
  /\ EarlyFrame(r, k, e)
  /\ UNCHANGED ivars

DropFuture(r) ==
  /\ FutureDropped(r)
  /\ EarlyFutureDropped(r)
  /\ GuardDropped(r)
  /\ UNCHANGED tvars

DropBody(r) ==
  /\ BodyDropped(r)
  /\ EarlyBodyDropped(r)
  /\ GuardDropped(r)
  /\ UNCHANGED tvars

\* The steps of the counter that are not part of a request's call.
Release(r)   == ReleaseArc(r) /\ UNCHANGED <<svars, tvars, early>>
Handles      == (CloneHandle \/ DropHandle) /\ UNCHANGED <<svars, tvars, early>>
EmitterTask  == run_emitter /\ UNCHANGED <<svars, tvars, early>>

Over ==
  /\ emitter = "done"
  /\ UNCHANGED vars

Next ==
  \/ \E r \in Requests :
       \/ Call(r)
       \/ \E res \in Loads[load].responses, e \in BOOLEAN : Responds(r, res, e)
       \/ Fails(r)
       \/ \E k \in FrameKinds, t \in GrpcValues \cup {NoTrailers}, e \in BOOLEAN :
            Frame(r, k, t, e)
       \/ DropFuture(r)
       \/ DropBody(r)
       \/ Release(r)
  \/ Handles
  \/ EmitterTask
  \/ Over

\* The emitter task and a thread in the middle of a drop keep running; the
\* caller, the inner service and the owner of the handles owe nothing.
Fairness ==
  /\ WF_vars(EmitterTask)
  /\ \A r \in Requests : WF_vars(Release(r))

Spec == Init /\ [][Next]_vars /\ Fairness

-----------------------------------------------------------------------------
Called(r, c) == \E i \in DOMAIN trace[r].log : trace[r].log[i] = c

\* Nothing runs after on_eos.
EosIsLast ==
  \A r \in Requests : \A i, j \in DOMAIN trace[r].log :
    trace[r].log[i] = "on_eos" => j <= i

\* The body ended in a way that classify_eos (or a body error) calls a failure.
FailsAtEnd(r) ==
  \/ stream[r] = "errored"
  \/ classify_eos(classifier, trailers[r])

\* on_failure runs for the requests whose future failed, whose response the
\* classifier rejects, or whose end it rejects after asking for it.
FailureIsExact ==
  \A r \in Requests :
    /\ Called(r, "on_failure") <=>
         \/ stream[r] = "failed"
         \/ response[r] # NoResponse /\ IsFailure(classifier, response[r])
         \/ /\ response[r] # NoResponse /\ RequiresEos(classifier, response[r])
            /\ FailsAtEnd(r)
    /\ \A i, j \in DOMAIN trace[r].log :
         trace[r].log[i] = "on_failure" /\ trace[r].log[j] = "on_failure" => i = j

(* Trace calls on_failure at most once, and exactly for the requests that  *)
(* failed, whichever of the four places noticed; and on_eos at most once,  *)
(* with nothing after it, although three places of poll_frame call it and  *)
(* a body may be polled after its end.                                     *)
CallbacksAreExact == EosIsLast /\ FailureIsExact

\* The body's consumer has seen that no frame is left.
Finished(r) == at_end[r] \/ stream[r] \in {"ended", "errored"}

\* A drop is reported exactly when it cut something short: the future
\* before it resolved, or the body before its end or its error was seen;
\* once, and with the status of the response whose body was dropped.
EarlyDropIsExact ==
  \A r \in Requests : stage[r] = "gone" =>
    early[r].log =
      IF stream[r] = "none" THEN <<[kind |-> "future", status |-> 0]>>
      ELSE IF stream[r] # "failed" /\ ~ Finished(r)
      THEN <<[kind |-> "body", status |-> response[r].status]>>
      ELSE <<>>

\* A stream that Trace reported as ended with its last frame is never also
\* reported as dropped, unless its trailers did not say that they were the
\* end.  Bodies that are empty from the start and never polled leave no
\* report.
OneClosingReport ==
  \A r \in Requests : stage[r] = "gone" =>
    /\ Called(r, "on_eos") /\ early[r].log # <<>> => stream[r] = "trailed"
    /\ \/ Called(r, "on_eos")
       \/ early[r].log # <<>>
       \/ stream[r] \in {"failed", "errored"}
       \/ at_end[r] /\ polls[r] = 0

(* Every request that is gone left one closing report: Trace saw the end   *)
(* of its stream, OnEarlyDrop saw it cut short, or it failed; and what     *)
(* OnEarlyDrop reports was really cut short, whichever of the last frame,  *)
(* None and an error the caller saw before it let go.                      *)
EndIsReported == EarlyDropIsExact /\ OneClosingReport

\* The body has given its last frame, or an error.
Consumed(r) == stream[r] \in {"ended", "errored"}

Alive      == {r \in Requests : stage[r] \in {"future", "failed", "body"}}
InProgress == {r \in Alive : ~ Consumed(r)}

(* The counter misses no request whose future or body still has something  *)
(* to give, while the guard is handed from one to the other, and counts    *)
(* none whose future and body are gone, at every moment the emitter or     *)
(* anybody else may read it (IncrementGuard).                              *)
CountIsBounded ==
  /\ Cardinality(InProgress) <= count
  /\ count <= Cardinality(Alive)

(* The emitter stops only when no handle can start a request and none is   *)
(* in flight: it never misses one.                                         *)
EmitterStopsLast ==
  emitter = "done" =>
    /\ handles = 0
    /\ \A r \in Requests : stage[r] \in {"idle", "gone"}

(* Once the handles and all requests are gone the emitter does stop.       *)
EmitterStops ==
  (handles = 0 /\ \A r \in Requests : stage[r] \in {"idle", "gone"})
    ~> emitter = "done"

(* "The processing of a request [...] is considered complete when the      *)
(* response body is consumed, dropped, or an error happens"                *)
(* (metrics/in_flight_requests.rs).                                        *)
ConsumedIsComplete == count = Cardinality(InProgress)

(* "The on_failure callback is called when [...] Body::poll_frame returns  *)
(* an error" (trace/mod.rs).                                               *)
BodyErrorsAreFailures ==
  \A r \in Requests : stream[r] = "errored" => Called(r, "on_failure")
=============================================================================
