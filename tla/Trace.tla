------------------------------- MODULE Trace -------------------------------
(***************************************************************************)
(* The Trace middleware (trace/): which of its callbacks run, and in which *)
(* order, for each request.  The callbacks sit in Options that the future  *)
(* hands to the body and that the body takes when it calls them; a field   *)
(* of the record `trace[r]` says whether the Option is still Some.         *)
(***************************************************************************)
EXTENDS HttpService, Sequences

VARIABLES
  classifier,  \* the layer's classifier
  trace        \* per request: the Options and the callbacks called so far

tvars == <<classifier, trace>>

Callbacks == {"on_request", "on_response", "on_body_chunk", "on_eos", "on_failure"}

Untraced == [on_eos |-> FALSE, on_failure |-> FALSE, classify_eos |-> FALSE,
             log |-> <<>>]

Emit(t, event) == [t EXCEPT !.log = Append(@, event)]

\* if let Some((classify_eos, on_failure)) = classify_eos.take().zip(on_failure.take())
TakeFailure_NotTaken(t, failed) ==  \* Mutant: the Options are not consumed
  IF t.classify_eos /\ t.on_failure /\ failed THEN Emit(t, "on_failure") ELSE t
TakeFailure(t, failed) ==
  LET taken == [t EXCEPT !.classify_eos = FALSE, !.on_failure = FALSE]
  IN  IF t.classify_eos /\ t.on_failure /\ failed
      THEN Emit(taken, "on_failure") ELSE taken

\* if let Some((on_eos, _)) = on_eos.take()
TakeEos_NotTaken(t) == IF t.on_eos THEN Emit(t, "on_eos") ELSE t  \* Mutant
TakeEos(t) ==
  IF t.on_eos THEN Emit([t EXCEPT !.on_eos = FALSE], "on_eos") ELSE t

\* The stream is over: classify it, then report its end.
EndOfStream(c, t, trl) == TakeEos(TakeFailure(t, classify_eos(c, trl)))

\* Mutant: is_end_stream is not asked after a frame.
poll_frame_NoEndStream(c, t, k, trl, e) ==
  CASE k = "data"     -> Emit(t, "on_body_chunk")
    [] k = "trailers" -> EndOfStream(c, t, trl)
    [] k = "err"      -> TakeFailure(t, TRUE)
    [] k = "none"     -> EndOfStream(c, t, NoTrailers)

\* ResponseBody::poll_frame after the inner body's frame k.
poll_frame(c, t, k, trl, e) ==
  LET seen == IF k = "data" THEN Emit(t, "on_body_chunk")
              ELSE EndOfStream(c, t, trl)
  IN  CASE k \in {"data", "trailers"} ->
             IF e THEN EndOfStream(c, seen, NoTrailers) ELSE seen
        [] k = "err"  -> TakeFailure(t, TRUE)
        [] k = "none" -> EndOfStream(c, t, NoTrailers)

TraceInit(classifiers) ==
  /\ classifier \in classifiers
  /\ trace = [r \in Requests |-> Untraced]

\* Trace::call
TraceCall(r) ==
  /\ trace' = [trace EXCEPT ![r] =
       [on_eos |-> TRUE, on_failure |-> TRUE, classify_eos |-> FALSE,
        log |-> <<"on_request">>]]
  /\ UNCHANGED classifier

\* ResponseFuture::poll, Ok(res)
TraceResponds(r, res) ==
  LET class == classify_response(classifier, res)
      t     == Emit(trace[r], "on_response")
  IN
  /\ trace' = [trace EXCEPT ![r] =
       [(IF class = "Err" THEN Emit(t, "on_failure") ELSE t)
          EXCEPT !.classify_eos = (class = "RequiresEos")]]
  /\ UNCHANGED classifier

\* ResponseFuture::poll, Err(err)
TraceFails(r) ==
  /\ trace' = [trace EXCEPT ![r] =
       Emit([@ EXCEPT !.on_eos = FALSE, !.on_failure = FALSE], "on_failure")]
  /\ UNCHANGED classifier

TraceFrame(r, k, t, e) ==
  /\ trace' = [trace EXCEPT ![r] = poll_frame(classifier, @, k, t, e)]
  /\ UNCHANGED classifier

TraceTypeOK ==
  /\ classifier \in ClassifierType
  /\ trace \in [Requests -> [on_eos : BOOLEAN, on_failure : BOOLEAN,
                             classify_eos : BOOLEAN, log : Seq(Callbacks)]]
=============================================================================
