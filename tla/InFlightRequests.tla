-------------------------- MODULE InFlightRequests --------------------------
(***************************************************************************)
(* The in-flight request counter (metrics/in_flight_requests.rs): one      *)
(* atomic count behind an Arc, shared by the service's handles, a guard in *)
(* each response future or body, and the emitter task, which stops when it *)
(* finds itself the Arc's only owner.  Dropping a guard is two steps on    *)
(* its thread, the decrement and then the Arc; the emitter runs on another.*)
(***************************************************************************)
EXTENDS HttpService, Integers, FiniteSets

VARIABLES
  handles,  \* the layers and services that share the counter
  count,    \* AtomicUsize
  strong,   \* Arc::strong_count
  guard,    \* per request: "none", "held", "released" (decremented, Arc held)
  emitter,  \* run_emitter: "check", "tick", "emit", "done"
  emitted   \* the last count given to `emit`, -1 before the first

ivars == <<handles, count, strong, guard, emitter, emitted>>

\* pair(): the layer has one clone of the counter, run_emitter the other.
InFlightInit ==
  /\ handles = 1
  /\ count = 0
  /\ strong = 2
  /\ guard = [r \in Requests |-> "none"]
  /\ emitter = "check"
  /\ emitted = -1

\* InFlightRequestsCounter::increment, in InFlightRequests::call
increment(r) ==
  /\ handles > 0
  /\ count' = count + 1
  /\ strong' = strong + 1
  /\ guard' = [guard EXCEPT ![r] = "held"]
  /\ UNCHANGED <<handles, emitter, emitted>>

GuardDropped_Forgotten(r) ==  \* Mutant: no decrement
  /\ guard[r] = "held"
  /\ guard' = [guard EXCEPT ![r] = "released"]
  /\ UNCHANGED <<handles, count, strong, emitter, emitted>>
\* Drop for IncrementGuard; the guard moves from the future to the body when
\* the future resolves to Ok, and stays in the future when it fails.
GuardDropped(r) ==
  /\ guard[r] = "held"
  /\ count' = count - 1
  /\ guard' = [guard EXCEPT ![r] = "released"]
  /\ UNCHANGED <<handles, strong, emitter, emitted>>

\* ... and then its field, the Arc.
ReleaseArc(r) ==
  /\ guard[r] = "released"
  /\ strong' = strong - 1
  /\ guard' = [guard EXCEPT ![r] = "none"]
  /\ UNCHANGED <<handles, count, emitter, emitted>>

\* Layer::layer and Clone share the counter.
CloneHandle ==
  /\ handles \in 1..(Loads[load].handles - 1)
  /\ handles' = handles + 1
  /\ strong' = strong + 1
  /\ UNCHANGED <<count, guard, emitter, emitted>>

\* A layer or service is dropped; calls in progress go on.
DropHandle ==
  /\ handles > 0
  /\ handles' = handles - 1
  /\ strong' = strong - 1
  /\ UNCHANGED <<count, guard, emitter, emitted>>

\* Arc::try_unwrap(self.count)
try_unwrap_Idle == count = 0  \* Mutant: stops when nothing is in flight
try_unwrap_Unowned == strong = 0  \* Mutant: forgets its own clone
try_unwrap == strong = 1

EmitterCheck ==
  /\ emitter = "check"
  /\ emitter' = IF try_unwrap THEN "done" ELSE "tick"
  /\ strong' = IF try_unwrap THEN 0 ELSE strong
  /\ UNCHANGED <<handles, count, guard, emitted>>

\* interval.tick().await
EmitterTick ==
  /\ emitter = "tick"
  /\ emitter' = "emit"
  /\ UNCHANGED <<handles, count, strong, guard, emitted>>

\* emit(self.get()).await
EmitterEmit ==
  /\ emitter = "emit"
  /\ emitted' = count
  /\ emitter' = "check"
  /\ UNCHANGED <<handles, count, strong, guard>>

run_emitter == EmitterCheck \/ EmitterTick \/ EmitterEmit

\* The count and the Arc's owners are what the guards, the handles and the
\* emitter make them; usize wraps around below 0.
InFlightTypeOK ==
  /\ handles \in 0..Loads[load].handles
  /\ count \in Nat
  /\ strong \in Nat
  /\ guard \in [Requests -> {"none", "held", "released"}]
  /\ emitter \in {"check", "tick", "emit", "done"}
  /\ emitted \in Nat \cup {-1}
=============================================================================
