---------------------------- MODULE OnEarlyDrop ----------------------------
(***************************************************************************)
(* The OnEarlyDrop middleware (on_early_drop/) with EarlyDropsAsFailures   *)
(* in both slots: a guard in the response future and one in the response   *)
(* body, each of which reports when it is dropped unless it was completed. *)
(***************************************************************************)
EXTENDS HttpService, Sequences

VARIABLE early  \* per request: the armed guards and the drops reported

NoGuards == [future_guard |-> FALSE, body_guard |-> FALSE, log |-> <<>>]

EarlyInit == early = [r \in Requests |-> NoGuards]

\* OnEarlyDropService::call
EarlyCall(r) ==
  early' = [early EXCEPT ![r] = [NoGuards EXCEPT !.future_guard = TRUE]]

\* OnEarlyDropFuture::poll, Ok: the future's guard is completed; the body's
\* guard is armed unless the body is already at its end.
EarlyResponds_AlwaysArmed(r, e) ==  \* Mutant: is_end_stream is not asked
  early' = [early EXCEPT ![r].future_guard = FALSE, ![r].body_guard = TRUE]
EarlyResponds(r, e) ==
  early' = [early EXCEPT ![r].future_guard = FALSE, ![r].body_guard = ~ e]

\* OnEarlyDropFuture::poll, Err: completed as well.
EarlyFails(r) == early' = [early EXCEPT ![r].future_guard = FALSE]

\* OnEarlyDropBody::poll_frame
Completes(k, e) == k \in {"none", "err"} \/ e
EarlyFrame(r, k, e) ==
  early' = [early EXCEPT ![r].body_guard = @ /\ ~ Completes(k, e)]

\* Drop for OnEarlyDropGuard: on_drop runs if the callback is still there.
EarlyFutureDropped(r) ==
  early' = [early EXCEPT
    ![r].future_guard = FALSE,
    ![r].log = IF early[r].future_guard
               THEN Append(@, [kind |-> "future", status |-> 0]) ELSE @]
EarlyBodyDropped(r) ==
  early' = [early EXCEPT
    ![r].body_guard = FALSE,
    ![r].log = IF early[r].body_guard
               THEN Append(@, [kind |-> "body", status |-> response[r].status])
               ELSE @]

EarlyTypeOK ==
  early \in [Requests ->
    [future_guard : BOOLEAN, body_guard : BOOLEAN,
     log : Seq([kind : {"future", "body"}, status : 0..999])]]
=============================================================================
