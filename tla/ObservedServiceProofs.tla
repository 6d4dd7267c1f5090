----------------------- MODULE ObservedServiceProofs -----------------------
(***************************************************************************)
(* Proofs about ObservedService, for every set of requests, finite or not, *)
(* every classifier, every load and any interleaving of the requests, the  *)
(* handles and the emitter task: what the in-flight counter counts and     *)
(* when its emitter stops, which callbacks of Trace run, and what          *)
(* OnEarlyDrop reports.                                                    *)
(***************************************************************************)
EXTENDS ObservedService, FiniteSetTheorems, TLAPS

-----------------------------------------------------------------------------
(* The counter.  Its two numbers are related to the requests through the   *)
(* guards: the count to the guards that are held, and the Arc's owners to  *)
(* the guards that still have their field, of which there may be more.     *)

Stages == {"idle", "future", "failed", "body", "gone"}
InFlight == {r \in Requests : stage[r] \in {"future", "failed", "body"}}
Owners   == {r \in Requests : guard[r] # "none"}
OwnClone == IF emitter = "done" THEN 0 ELSE 1

\* Which requests have a guard, and in which state.
GuardsFollow ==
  /\ stage \in [Requests -> Stages]
  /\ guard \in [Requests -> {"none", "held", "released"}]
  /\ \A r \in Requests :
       /\ guard[r] = "held" <=> r \in InFlight
       /\ guard[r] = "released" => stage[r] = "gone"

\* What the two atomics hold.
Counted ==
  /\ IsFiniteSet(InFlight) /\ count = Cardinality(InFlight)
  /\ IsFiniteSet(Owners) /\ strong = handles + Cardinality(Owners) + OwnClone

\* The emitter has let go of the last reference.
StoppedLast == emitter = "done" => handles = 0 /\ Owners = {}

CounterInv ==
  /\ load \in DOMAIN Loads
  /\ handles \in Nat
  /\ emitter \in {"check", "tick", "emit", "done"}
  /\ GuardsFollow /\ Counted /\ StoppedLast

\* One set gains or loses one element, and its cardinality follows.
LEMMA CardinalityAdd ==
  ASSUME NEW S, NEW T, NEW x, IsFiniteSet(S), x \notin S, T = S \cup {x}
  PROVE  IsFiniteSet(T) /\ Cardinality(T) = Cardinality(S) + 1
  BY FS_AddElement

LEMMA CardinalityRemove ==
  ASSUME NEW S, NEW T, NEW x, IsFiniteSet(S), x \in S, T = S \ {x}
  PROVE  IsFiniteSet(T) /\ Cardinality(T) = Cardinality(S) - 1
  BY FS_RemoveElement

LEMMA CounterFirst == Init => CounterInv
<1> SUFFICES ASSUME Init PROVE CounterInv
  OBVIOUS
<1> USE DEF Init, ServiceInit, InFlightInit
<1>1. InFlight = {} /\ Owners = {}
  BY DEF InFlight, Owners
<1>2. IsFiniteSet({}) /\ Cardinality({}) = 0
  BY FS_EmptySet
<1>3. Counted
  BY <1>1, <1>2 DEF Counted, OwnClone
<1>4. GuardsFollow
  BY DEF GuardsFollow, InFlight, Stages
<1> QED
  BY <1>3, <1>4 DEF CounterInv, StoppedLast

\* A call takes a guard: one more in flight and one more owner.
LEMMA CounterCall ==
  ASSUME CounterInv, NEW r \in Requests, Call(r)
  PROVE  CounterInv'
<1> USE DEF CounterInv, GuardsFollow
<1>1. /\ stage[r] = "idle" /\ guard[r] = "none" /\ handles > 0
      /\ stage' = [stage EXCEPT ![r] = "future"] /\ guard' = [guard EXCEPT ![r] = "held"]
      /\ count' = count + 1 /\ strong' = strong + 1
      /\ UNCHANGED <<load, handles, emitter>>
  BY DEF Call, ServiceCall, increment, InFlight
<1>2. InFlight' = InFlight \cup {r} /\ r \notin InFlight
  BY <1>1 DEF InFlight
<1>3. Owners' = Owners \cup {r} /\ r \notin Owners
  BY <1>1 DEF Owners
<1>4. emitter # "done"
  BY <1>1 DEF StoppedLast
<1>5. Counted'
  <2>1. IsFiniteSet(InFlight') /\ Cardinality(InFlight') = Cardinality(InFlight) + 1
    BY <1>2, CardinalityAdd DEF Counted
  <2>2. IsFiniteSet(Owners') /\ Cardinality(Owners') = Cardinality(Owners) + 1
    BY <1>3, CardinalityAdd DEF Counted
  <2>3. Cardinality(Owners) \in Nat
    BY FS_CardinalityType DEF Counted
  <2> QED
    BY <1>1, <1>4, <2>1, <2>2, <2>3 DEF Counted, OwnClone
<1>6. GuardsFollow'
  BY <1>1, <1>2 DEF Stages
<1> QED
  BY <1>1, <1>4, <1>5, <1>6 DEF StoppedLast

\* The request goes on with its guard: nothing is counted.
LEMMA CounterStays ==
  ASSUME CounterInv, NEW r \in Requests, UNCHANGED ivars,
         load' = load, r \in InFlight, \E s \in {"future", "failed", "body"} : stage' = [stage EXCEPT ![r] = s]
  PROVE  CounterInv'
<1> USE DEF CounterInv, GuardsFollow
<1>1. PICK s \in {"future", "failed", "body"} : stage' = [stage EXCEPT ![r] = s]
  OBVIOUS
<1>2. InFlight' = InFlight
  BY <1>1 DEF InFlight
<1>3. UNCHANGED <<guard, Owners, handles, count, strong, emitter>>
  BY DEF ivars, Owners
<1>4. GuardsFollow'
  BY <1>1, <1>2, <1>3 DEF Stages, InFlight
<1> QED
  BY <1>2, <1>3, <1>4 DEF Counted, OwnClone, StoppedLast

\* A future or body is dropped: the count goes down, the owners stay.
LEMMA CounterDrop ==
  ASSUME CounterInv, NEW r \in Requests, load' = load,
         stage' = [stage EXCEPT ![r] = "gone"],
         GuardDropped(r)
  PROVE  CounterInv'
<1> USE DEF CounterInv, GuardsFollow
<1>1. /\ guard[r] = "held" /\ guard' = [guard EXCEPT ![r] = "released"]
      /\ count' = count - 1 /\ UNCHANGED <<strong, handles, emitter>>
  BY DEF GuardDropped
<1>2. InFlight' = InFlight \ {r} /\ r \in InFlight
  BY <1>1 DEF InFlight
<1>3. Owners' = Owners
  BY <1>1 DEF Owners
<1>4. Counted'
  BY <1>1, <1>2, <1>3, CardinalityRemove DEF Counted, OwnClone
<1>5. GuardsFollow'
  BY <1>1, <1>2 DEF Stages
<1> QED
  BY <1>1, <1>3, <1>4, <1>5 DEF StoppedLast

\* ... and then the guard's field, on its own thread.
LEMMA CounterRelease ==
  ASSUME CounterInv, NEW r \in Requests, Release(r)
  PROVE  CounterInv'
<1> USE DEF CounterInv, GuardsFollow
<1>1. /\ guard[r] = "released" /\ guard' = [guard EXCEPT ![r] = "none"]
      /\ strong' = strong - 1 /\ UNCHANGED <<load, stage, handles, count, emitter>>
  BY DEF Release, ReleaseArc, svars
<1>2. InFlight' = InFlight
  BY <1>1 DEF InFlight
<1>3. Owners' = Owners \ {r} /\ r \in Owners
  BY <1>1 DEF Owners
<1>4. Counted'
  <2>1. IsFiniteSet(Owners') /\ Cardinality(Owners') = Cardinality(Owners) - 1
    BY <1>3, CardinalityRemove DEF Counted
  <2>2. Cardinality(Owners) \in Nat
    BY FS_CardinalityType DEF Counted
  <2> QED
    BY <1>1, <1>2, <2>1, <2>2 DEF Counted, OwnClone
<1>5. GuardsFollow'
  BY <1>1, <1>2
<1> QED
  BY <1>1, <1>3, <1>4, <1>5 DEF StoppedLast

\* Handles come and go while there is one.
LEMMA CounterHandles ==
  ASSUME CounterInv, Handles
  PROVE  CounterInv'
<1> USE DEF CounterInv, GuardsFollow
<1>1. UNCHANGED <<load, stage, guard, count, emitter>>
  BY DEF Handles, CloneHandle, DropHandle, svars
<1>2. UNCHANGED <<InFlight, Owners, OwnClone>>
  BY <1>1 DEF InFlight, Owners, OwnClone
<1>3. Cardinality(Owners) \in Nat
  BY FS_CardinalityType DEF Counted
<1>4. Loads[load].handles \in Nat
  BY LoadsAssumption
<1>5. /\ handles > 0 /\ handles' \in Nat
      /\ strong' = handles' + Cardinality(Owners) + OwnClone
  BY <1>3, <1>4 DEF Handles, CloneHandle, DropHandle, Counted, OwnClone
<1>6. Counted'
  BY <1>1, <1>2, <1>5 DEF Counted
<1> QED
  BY <1>1, <1>2, <1>5, <1>6 DEF StoppedLast

(* The emitter stops when it owns the only reference: then there is no     *)
(* handle and no guard, because each of them owns one.                     *)
LEMMA CounterEmitter ==
  ASSUME CounterInv, EmitterTask
  PROVE  CounterInv'
<1> USE DEF CounterInv, GuardsFollow
<1>1. UNCHANGED <<load, stage, guard, handles, count>>
  BY DEF EmitterTask, run_emitter, EmitterCheck, EmitterTick, EmitterEmit, svars
<1>2. UNCHANGED <<InFlight, Owners>>
  BY <1>1 DEF InFlight, Owners
<1>3. CASE EmitterCheck /\ strong = 1
  <2>1. Cardinality(Owners) \in Nat
    BY FS_CardinalityType DEF Counted
  <2>2. handles = 0 /\ Cardinality(Owners) = 0
    BY <1>3, <2>1 DEF Counted, OwnClone, EmitterCheck
  <2>3. Owners = {}
    BY <2>2, FS_EmptySet DEF Counted
  <2> QED
    BY <1>1, <1>2, <1>3, <2>2, <2>3 DEF Counted, StoppedLast, OwnClone, EmitterCheck, try_unwrap
<1>4. CASE ~ (EmitterCheck /\ strong = 1)
  <2>1. /\ emitter # "done" /\ emitter' # "done" /\ strong' = strong
        /\ emitter' \in {"check", "tick", "emit"}
    BY <1>4 DEF EmitterTask, run_emitter, EmitterCheck, EmitterTick, EmitterEmit, try_unwrap
  <2> QED
    BY <1>1, <1>2, <2>1 DEF Counted, StoppedLast, OwnClone
<1> QED
  BY <1>3, <1>4

LEMMA CounterPreserved == CounterInv /\ [Next]_vars => CounterInv'
<1> SUFFICES ASSUME CounterInv, [Next]_vars PROVE CounterInv'
  OBVIOUS
<1>1. ASSUME NEW r \in Requests, Call(r) PROVE CounterInv'
  BY <1>1, CounterCall
<1>2. ASSUME NEW r \in Requests, NEW res, NEW e, Responds(r, res, e) PROVE CounterInv'
  <2>1. r \in InFlight /\ stage' = [stage EXCEPT ![r] = "body"] /\ UNCHANGED ivars /\ load' = load
    BY <1>2 DEF Responds, ServiceResponds, InFlight
  <2> QED
    BY <2>1, CounterStays
<1>3. ASSUME NEW r \in Requests, Fails(r) PROVE CounterInv'
  <2>1. r \in InFlight /\ stage' = [stage EXCEPT ![r] = "failed"] /\ UNCHANGED ivars /\ load' = load
    BY <1>3 DEF Fails, ServiceFails, InFlight
  <2> QED
    BY <2>1, CounterStays
<1>4. ASSUME NEW r \in Requests, NEW k, NEW t, NEW e, Frame(r, k, t, e) PROVE CounterInv'
  <2>1. UNCHANGED <<load, stage>> /\ UNCHANGED ivars
    BY <1>4 DEF Frame, ServiceFrame
  <2> QED
    BY <2>1 DEF CounterInv, GuardsFollow, Counted, StoppedLast, InFlight, Owners,
                OwnClone, ivars
<1>5. ASSUME NEW r \in Requests, DropFuture(r) \/ DropBody(r) PROVE CounterInv'
  <2>1. stage' = [stage EXCEPT ![r] = "gone"] /\ GuardDropped(r) /\ load' = load
    BY <1>5 DEF DropFuture, DropBody, FutureDropped, BodyDropped
  <2> QED
    BY <2>1, CounterDrop
<1>6. ASSUME NEW r \in Requests, Release(r) PROVE CounterInv'
  BY <1>6, CounterRelease
<1>7. CASE Handles
  BY <1>7, CounterHandles
<1>8. CASE EmitterTask
  BY <1>8, CounterEmitter
<1>9. CASE UNCHANGED vars
  BY <1>9 DEF CounterInv, GuardsFollow, Counted, StoppedLast, InFlight, Owners,
              OwnClone, vars, svars, ivars
<1> QED
  BY <1>1, <1>2, <1>3, <1>4, <1>5, <1>6, <1>7, <1>8, <1>9 DEF Next, Over

THEOREM CounterIsSound == Spec => []CounterInv
  BY CounterFirst, CounterPreserved, PTL DEF Spec

(* At every moment the counter covers the requests whose future or body    *)
(* still has something to give, and counts none that is gone, whatever the *)
(* emitter, the handles and the other requests do between its decrement    *)
(* and the release of the Arc.                                             *)
THEOREM CounterMissesNone == Spec => []CountIsBounded
<1>1. CounterInv => CountIsBounded
  <2> SUFFICES ASSUME CounterInv PROVE CountIsBounded
    OBVIOUS
  <2>1. IsFiniteSet(Alive) /\ count = Cardinality(Alive)
    BY DEF CounterInv, Counted, InFlight, Alive
  <2>2. InProgress \subseteq Alive
    BY DEF InProgress
  <2>3. Cardinality(InProgress) <= Cardinality(Alive) /\ Cardinality(Alive) \in Nat
    BY <2>1, <2>2, FS_Subset, FS_CardinalityType
  <2> QED  BY <2>1, <2>3 DEF CountIsBounded
<1> QED
  BY <1>1, CounterIsSound, PTL

(* When the emitter has stopped, no handle can start a request and no      *)
(* request is in flight.                                                   *)
THEOREM EmitterMissesNone == Spec => []EmitterStopsLast
<1>1. CounterInv => EmitterStopsLast
  BY DEF CounterInv, GuardsFollow, StoppedLast, InFlight, Owners, Stages, EmitterStopsLast
<1> QED
  BY <1>1, CounterIsSound, PTL
-----------------------------------------------------------------------------
(* Trace.  What its options and its log say about each other, whatever the *)
(* request: `Good` is kept by every callback, and `Has` is all that the    *)
(* properties need to know of a log besides.                               *)

TraceRecord == [on_eos : BOOLEAN, on_failure : BOOLEAN, classify_eos : BOOLEAN,
                log : Seq(Callbacks)]

Has(log, c) == \E i \in DOMAIN log : log[i] = c
EosLast(log) == \A i, j \in DOMAIN log : log[i] = "on_eos" => j <= i
OneFailure(log) ==
  \A i, j \in DOMAIN log : log[i] = "on_failure" /\ log[j] = "on_failure" => i = j

(* An Option that is still Some has not been called; classify_eos is only  *)
(* kept by a body that can still fail and can still end.                   *)
Good(t) ==
  /\ t \in TraceRecord
  /\ EosLast(t.log) /\ OneFailure(t.log)
  /\ t.on_eos => ~ Has(t.log, "on_eos")
  /\ t.classify_eos => t.on_failure /\ t.on_eos /\ ~ Has(t.log, "on_failure")

\* A callback is logged behind the others.
LEMMA LogAppend ==
  ASSUME NEW log \in Seq(Callbacks), NEW c \in Callbacks
  PROVE  /\ Append(log, c) \in Seq(Callbacks)
         /\ \A x : Has(Append(log, c), x) <=> Has(log, x) \/ x = c
         /\ EosLast(log) /\ ~ Has(log, "on_eos") => EosLast(Append(log, c))
         /\ OneFailure(log) /\ (c = "on_failure" => ~ Has(log, "on_failure"))
              => OneFailure(Append(log, c))
<1> DEFINE new == Append(log, c)
<1>1. /\ new \in Seq(Callbacks) /\ DOMAIN new = 1..(Len(log) + 1) /\ DOMAIN log = 1..Len(log)
      /\ Len(log) \in Nat /\ new[Len(log) + 1] = c
      /\ \A i \in 1..Len(log) : new[i] = log[i]
  OBVIOUS
<1> HIDE DEF new
<1>2. \A x : Has(new, x) <=> Has(log, x) \/ x = c
  BY <1>1 DEF Has
<1>3. EosLast(log) /\ ~ Has(log, "on_eos") => EosLast(new)
  BY <1>1 DEF Has, EosLast
<1>4. OneFailure(log) /\ (c = "on_failure" => ~ Has(log, "on_failure")) => OneFailure(new)
  BY <1>1 DEF Has, OneFailure
<1> QED
  BY <1>1, <1>2, <1>3, <1>4 DEF new

\* The fields of a request's trace.
LEMMA RecordFields ==
  ASSUME NEW t \in TraceRecord
  PROVE  /\ t.on_eos \in BOOLEAN /\ t.on_failure \in BOOLEAN /\ t.classify_eos \in BOOLEAN
         /\ t.log \in Seq(Callbacks)
  BY DEF TraceRecord

\* Emit only touches the log.
LEMMA EmitFields ==
  ASSUME NEW t \in TraceRecord, NEW c \in Callbacks
  PROVE  /\ Emit(t, c) \in TraceRecord
         /\ Emit(t, c).log = Append(t.log, c)
         /\ Emit(t, c).on_eos = t.on_eos /\ Emit(t, c).on_failure = t.on_failure
         /\ Emit(t, c).classify_eos = t.classify_eos
<1>1. t.log \in Seq(Callbacks) /\ Append(t.log, c) \in Seq(Callbacks)
  BY RecordFields, LogAppend
<1>2. Emit(t, c) = [t EXCEPT !.log = Append(t.log, c)]
  BY DEF Emit
<1> QED
  BY <1>1, <1>2 DEF TraceRecord

(* classify_eos.take().zip(on_failure.take()): on_failure is called once,  *)
(* and only by a body that was kept for it.                                *)
LEMMA TakeFailureGood ==
  ASSUME NEW t, Good(t), NEW f \in BOOLEAN
  PROVE  LET u == TakeFailure(t, f) IN
         /\ Good(u) /\ ~ u.classify_eos /\ u.on_eos = t.on_eos
         /\ Has(u.log, "on_eos") <=> Has(t.log, "on_eos")
         /\ Has(u.log, "on_failure") <=> Has(t.log, "on_failure") \/ (t.classify_eos /\ f)
<1> DEFINE taken == [t EXCEPT !.classify_eos = FALSE, !.on_failure = FALSE]
           u == TakeFailure(t, f)
<1>1. /\ taken \in TraceRecord /\ taken.log = t.log /\ taken.on_eos = t.on_eos
      /\ taken.classify_eos = FALSE /\ taken.on_failure = FALSE
  BY DEF Good, TraceRecord
<1>2. t.on_eos \in BOOLEAN /\ t.on_failure \in BOOLEAN /\ t.classify_eos \in BOOLEAN
      /\ t.log \in Seq(Callbacks)
  BY RecordFields DEF Good
<1>3. u = IF t.classify_eos /\ f THEN Emit(taken, "on_failure") ELSE taken
  BY <1>2 DEF TakeFailure, Good
<1> HIDE DEF taken, u
<1>4. CASE t.classify_eos /\ f
  <2>1. u = Emit(taken, "on_failure")
    BY <1>3, <1>4
  <2>2. /\ u \in TraceRecord /\ u.log = Append(t.log, "on_failure") /\ u.on_eos = t.on_eos
        /\ u.classify_eos = FALSE
    BY <1>1, <2>1, EmitFields DEF Callbacks
  <2>3. ~ Has(t.log, "on_failure") /\ ~ Has(t.log, "on_eos") /\ EosLast(t.log) /\ OneFailure(t.log)
    BY <1>4 DEF Good
  <2>4. "on_failure" \in Callbacks
    BY DEF Callbacks
  <2>5. /\ Has(u.log, "on_failure") /\ ~ Has(u.log, "on_eos")
        /\ EosLast(u.log) /\ OneFailure(u.log)
    BY <1>2, <2>2, <2>3, <2>4, LogAppend
  <2> QED
    BY <1>4, <2>2, <2>3, <2>5 DEF Good, u
<1>5. CASE ~ (t.classify_eos /\ f)
  BY <1>1, <1>2, <1>3, <1>5 DEF Good, u
<1> QED
  BY <1>4, <1>5

\* on_eos.take(): on_eos is called once, and last.
LEMMA TakeEosGood ==
  ASSUME NEW t, Good(t), ~ t.classify_eos
  PROVE  LET u == TakeEos(t) IN
         /\ Good(u) /\ ~ u.classify_eos /\ ~ u.on_eos
         /\ Has(u.log, "on_eos") <=> t.on_eos \/ Has(t.log, "on_eos")
         /\ Has(u.log, "on_failure") <=> Has(t.log, "on_failure")
<1> DEFINE taken == [t EXCEPT !.on_eos = FALSE]
           u == TakeEos(t)
<1>1. /\ taken \in TraceRecord /\ taken.log = t.log /\ taken.on_eos = FALSE
      /\ taken.classify_eos = t.classify_eos
  BY DEF Good, TraceRecord
<1>2. t.on_eos \in BOOLEAN /\ t.classify_eos \in BOOLEAN /\ t.log \in Seq(Callbacks)
  BY RecordFields DEF Good
<1>3. u = IF t.on_eos THEN Emit(taken, "on_eos") ELSE t
  BY DEF TakeEos
<1> HIDE DEF taken, u
<1>4. CASE t.on_eos
  <2>1. /\ u \in TraceRecord /\ u.log = Append(t.log, "on_eos") /\ u.on_eos = FALSE
        /\ u.classify_eos = t.classify_eos
    BY <1>1, <1>3, <1>4, EmitFields DEF Callbacks
  <2>2. ~ Has(t.log, "on_eos") /\ EosLast(t.log) /\ OneFailure(t.log)
    BY <1>4 DEF Good
  <2>3. "on_eos" \in Callbacks
    BY DEF Callbacks
  <2>4. /\ Has(u.log, "on_eos") /\ (Has(u.log, "on_failure") <=> Has(t.log, "on_failure"))
        /\ EosLast(u.log) /\ OneFailure(u.log)
    BY <1>2, <2>1, <2>2, <2>3, LogAppend
  <2> QED
    BY <1>4, <2>1, <2>4 DEF Good, u
<1>5. CASE ~ t.on_eos
  BY <1>2, <1>3, <1>5 DEF Good, u
<1> QED
  BY <1>4, <1>5

(* The stream is over: whatever was kept for its end has been called.      *)
LEMMA EndOfStreamGood ==
  ASSUME NEW c, NEW t, Good(t), NEW trl
  PROVE  LET u == EndOfStream(c, t, trl) IN
         /\ Good(u) /\ ~ u.classify_eos /\ ~ u.on_eos
         /\ Has(u.log, "on_eos") <=> t.on_eos \/ Has(t.log, "on_eos")
         /\ Has(u.log, "on_failure") <=>
              Has(t.log, "on_failure") \/ (t.classify_eos /\ classify_eos(c, trl))
<1> DEFINE f == classify_eos(c, trl)
           v == TakeFailure(t, f)
           u == EndOfStream(c, t, trl)
<1>1. f \in BOOLEAN
  BY DEF classify_eos
<1>2. u = TakeEos(v)
  BY DEF EndOfStream
<1> HIDE DEF f, u, v
<1>3. /\ Good(v) /\ ~ v.classify_eos /\ v.on_eos = t.on_eos
      /\ Has(v.log, "on_eos") <=> Has(t.log, "on_eos")
      /\ Has(v.log, "on_failure") <=> Has(t.log, "on_failure") \/ (t.classify_eos /\ f)
  BY <1>1, TakeFailureGood DEF v
<1>4. /\ Good(u) /\ ~ u.classify_eos /\ ~ u.on_eos
      /\ Has(u.log, "on_eos") <=> v.on_eos \/ Has(v.log, "on_eos")
      /\ Has(u.log, "on_failure") <=> Has(v.log, "on_failure")
  BY <1>2, <1>3, TakeEosGood
<1> QED
  BY <1>3, <1>4 DEF f, u

\* A data frame is only logged, and only before the end was reported.
LEMMA ChunkGood ==
  ASSUME NEW t, Good(t), t.on_eos
  PROVE  LET u == Emit(t, "on_body_chunk") IN
         /\ Good(u) /\ u.classify_eos = t.classify_eos /\ u.on_eos = t.on_eos
         /\ Has(u.log, "on_eos") <=> Has(t.log, "on_eos")
         /\ Has(u.log, "on_failure") <=> Has(t.log, "on_failure")
<1> DEFINE u == Emit(t, "on_body_chunk")
<1>1. "on_body_chunk" \in Callbacks /\ t \in TraceRecord
  BY DEF Callbacks, Good
<1>2. /\ u \in TraceRecord /\ u.log = Append(t.log, "on_body_chunk") /\ u.on_eos = t.on_eos
      /\ u.on_failure = t.on_failure /\ u.classify_eos = t.classify_eos
  BY <1>1, EmitFields
<1> HIDE DEF u
<1>3. t.log \in Seq(Callbacks)
  BY <1>1, RecordFields
<1>4. /\ EosLast(u.log) /\ OneFailure(u.log)
      /\ Has(u.log, "on_eos") <=> Has(t.log, "on_eos")
      /\ Has(u.log, "on_failure") <=> Has(t.log, "on_failure")
  BY <1>1, <1>2, <1>3, LogAppend DEF Good
<1> QED
  BY <1>2, <1>4 DEF Good, u

\* The body gave its last frame, None, or a frame after which it is at its end.
Closes(k, e) == k \in {"trailers", "none"} \/ (k = "data" /\ e)

(* ResponseBody::poll_frame in one lemma: what a frame of kind k does to   *)
(* the options and to the callbacks called.                                *)
LEMMA PollFrameGood ==
  ASSUME NEW c, NEW t, Good(t), NEW k \in FrameKinds, NEW trl, NEW e \in BOOLEAN,
         k = "data" => t.on_eos
  PROVE  LET u == poll_frame(c, t, k, trl, e) IN
         /\ Good(u)
         /\ u.on_eos <=> t.on_eos /\ ~ Closes(k, e)
         /\ u.classify_eos <=> t.classify_eos /\ ~ Closes(k, e) /\ k # "err"
         /\ Has(u.log, "on_eos") <=> Has(t.log, "on_eos") \/ (t.on_eos /\ Closes(k, e))
         /\ Has(u.log, "on_failure") <=>
              \/ Has(t.log, "on_failure")
              \/ t.classify_eos /\ k = "err"
              \/ t.classify_eos /\ k = "trailers" /\ classify_eos(c, trl)
<1> DEFINE u == poll_frame(c, t, k, trl, e)
<1>1. t.on_eos \in BOOLEAN /\ t.classify_eos \in BOOLEAN
  BY RecordFields DEF Good
<1>2. ~ classify_eos(c, NoTrailers)
  BY DEF classify_eos
<1>3. CASE k = "data" /\ ~ e
  <2>1. u = Emit(t, "on_body_chunk")
    BY <1>3 DEF poll_frame
  <2> QED
    BY <1>1, <1>3, <2>1, ChunkGood DEF Closes
<1>4. CASE k = "data" /\ e
  <2> DEFINE v == Emit(t, "on_body_chunk")
  <2>1. u = EndOfStream(c, v, NoTrailers)
    BY <1>4 DEF poll_frame
  <2>2. /\ Good(v) /\ v.classify_eos = t.classify_eos /\ v.on_eos = t.on_eos
        /\ Has(v.log, "on_eos") <=> Has(t.log, "on_eos")
        /\ Has(v.log, "on_failure") <=> Has(t.log, "on_failure")
    BY <1>4, ChunkGood
  <2> HIDE DEF u, v
  <2>3. /\ Good(u) /\ ~ u.classify_eos /\ ~ u.on_eos
        /\ Has(u.log, "on_eos") <=> v.on_eos \/ Has(v.log, "on_eos")
        /\ Has(u.log, "on_failure") <=> Has(v.log, "on_failure")
    BY <1>2, <2>1, <2>2, EndOfStreamGood
  <2> QED
    BY <1>1, <1>4, <2>2, <2>3 DEF Closes, u
<1>5. CASE k = "trailers"
  <2> DEFINE v == EndOfStream(c, t, trl)
             w == EndOfStream(c, v, NoTrailers)
  <2>1. u = IF e THEN w ELSE v
    BY <1>5 DEF poll_frame
  <2>2. /\ Good(v) /\ ~ v.classify_eos /\ ~ v.on_eos
        /\ Has(v.log, "on_eos") <=> t.on_eos \/ Has(t.log, "on_eos")
        /\ Has(v.log, "on_failure") <=>
             Has(t.log, "on_failure") \/ (t.classify_eos /\ classify_eos(c, trl))
    BY EndOfStreamGood
  <2> HIDE DEF u, v
  <2>3. /\ Good(w) /\ ~ w.classify_eos /\ ~ w.on_eos
        /\ Has(w.log, "on_eos") <=> v.on_eos \/ Has(v.log, "on_eos")
        /\ Has(w.log, "on_failure") <=> Has(v.log, "on_failure")
    BY <1>2, <2>2, EndOfStreamGood
  <2> HIDE DEF w
  <2>4. /\ Good(u) /\ ~ u.classify_eos /\ ~ u.on_eos
        /\ Has(u.log, "on_eos") <=> t.on_eos \/ Has(t.log, "on_eos")
        /\ Has(u.log, "on_failure") <=>
             Has(t.log, "on_failure") \/ (t.classify_eos /\ classify_eos(c, trl))
    BY <2>1, <2>2, <2>3
  <2> QED
    BY <1>1, <1>5, <2>4 DEF Closes, u
<1>6. CASE k = "err"
  <2>1. u = TakeFailure(t, TRUE)
    BY <1>6 DEF poll_frame
  <2> QED
    BY <1>1, <1>6, <2>1, TakeFailureGood DEF Closes
<1>7. CASE k = "none"
  <2>1. u = EndOfStream(c, t, NoTrailers)
    BY <1>7 DEF poll_frame
  <2> QED
    BY <1>1, <1>2, <1>7, <2>1, EndOfStreamGood DEF Closes
<1> QED
  BY <1>3, <1>4, <1>5, <1>6, <1>7 DEF FrameKinds
-----------------------------------------------------------------------------
(* A request.  Before its response there is nothing to report but a failed *)
(* future; afterwards the options of its trace say how far the body is.    *)

Unanswered(r) == stream[r] \in {"none", "failed"}

BeforeResponse(r) ==
  Unanswered(r) =>
    /\ stage[r] # "body" /\ (stage[r] = "failed" => stream[r] = "failed")
    /\ response[r] = NoResponse /\ trailers[r] = NoTrailers /\ ~ at_end[r]
    /\ polls[r] = 0
    /\ ~ Has(trace[r].log, "on_eos")
    /\ Has(trace[r].log, "on_failure") <=> stream[r] = "failed"
    /\ stage[r] \in {"idle", "future"} => stream[r] = "none"
    /\ stage[r] = "future" =>
         trace[r].on_eos /\ trace[r].on_failure /\ ~ trace[r].classify_eos

(* on_eos is pending exactly until an end was seen, and classify_eos only  *)
(* while the body is open.                                                 *)
AfterResponse(r) ==
  ~ Unanswered(r) =>
    /\ stage[r] \in {"body", "gone"} /\ response[r] # NoResponse
    /\ trace[r].on_eos <=> ~ Has(trace[r].log, "on_eos")
    /\ stream[r] = "open" /\ ~ at_end[r] => trace[r].on_eos
    /\ stream[r] \in {"trailed", "ended"} \/ (at_end[r] /\ polls[r] > 0)
         => ~ trace[r].on_eos
    /\ stream[r] = "open" => trailers[r] = NoTrailers
    /\ trace[r].classify_eos => stream[r] = "open"

\* on_failure has been called for what the classifier has rejected so far.
Judged(r) ==
  ~ Unanswered(r) =>
    IF RequiresEos(classifier, response[r])
    THEN /\ Has(trace[r].log, "on_failure") <=> FailsAtEnd(r)
         /\ stream[r] = "open" /\ ~ at_end[r] => trace[r].classify_eos
    ELSE /\ Has(trace[r].log, "on_failure") <=> IsFailure(classifier, response[r])
         /\ ~ trace[r].classify_eos

\* A guard of OnEarlyDrop is armed while what it guards is unfinished.
Armed(r) ==
  /\ early[r].future_guard <=> stage[r] = "future"
  /\ early[r].body_guard <=> stage[r] = "body" /\ ~ Finished(r)
  /\ stage[r] # "gone" => early[r].log = <<>>

\* What was reported when the request went, see EarlyDropIsExact.
Reported(r) ==
  stage[r] = "gone" =>
    early[r].log =
      IF stream[r] = "none" THEN <<[kind |-> "future", status |-> 0]>>
      ELSE IF stream[r] # "failed" /\ ~ Finished(r)
      THEN <<[kind |-> "body", status |-> response[r].status]>>
      ELSE <<>>

Types == ServiceTypeOK /\ TraceTypeOK /\ EarlyTypeOK

Sound(r) ==
  /\ Good(trace[r]) /\ BeforeResponse(r) /\ AfterResponse(r) /\ Judged(r)
  /\ Armed(r) /\ Reported(r)

RequestInv == Types /\ \A r \in Requests : Sound(r)

LEMMA TypesFirst == Init => Types
<1> SUFFICES ASSUME Init PROVE Types
  OBVIOUS
<1> USE DEF Init
<1>1. load \in DOMAIN Loads /\ Loads[load].classifiers \subseteq ClassifierType /\ Loads[load].polls \in Nat
  BY LoadsAssumption DEF ServiceInit
<1>2. ServiceTypeOK
  BY <1>1 DEF ServiceInit, ServiceTypeOK
<1>3. TraceTypeOK
  BY <1>1 DEF TraceInit, TraceTypeOK, Untraced
<1>4. EarlyTypeOK
  BY DEF EarlyInit, EarlyTypeOK, NoGuards
<1> QED
  BY <1>2, <1>3, <1>4 DEF Types

\* The service's variables keep their types.
LEMMA ServiceTypes ==
  ASSUME ServiceTypeOK, NEW r \in Requests,
         \/ ServiceCall(r) \/ ServiceFails(r) \/ FutureDropped(r) \/ BodyDropped(r)
         \/ \E res \in Loads[load].responses, e \in BOOLEAN : ServiceResponds(r, res, e)
         \/ \E k \in FrameKinds, t \in GrpcValues \cup {NoTrailers}, e \in BOOLEAN :
              ServiceFrame(r, k, t, e)
  PROVE  ServiceTypeOK'
<1>1. CASE ServiceCall(r) \/ ServiceFails(r) \/ FutureDropped(r) \/ BodyDropped(r)
  BY <1>1 DEF ServiceTypeOK, ServiceCall, ServiceFails, FutureDropped, BodyDropped
<1>2. ASSUME NEW res \in Loads[load].responses, NEW e \in BOOLEAN, ServiceResponds(r, res, e)
      PROVE  ServiceTypeOK'
  BY <1>2 DEF ServiceTypeOK, ServiceResponds
<1>3. ASSUME NEW k \in FrameKinds, NEW t \in GrpcValues \cup {NoTrailers}, NEW e \in BOOLEAN,
             ServiceFrame(r, k, t, e)
      PROVE  ServiceTypeOK'
  <2>1. Loads[load].polls \in Nat
    BY LoadsAssumption DEF ServiceTypeOK
  <2>2. Terminal[k] \in {"open", "trailed", "errored", "ended"}
    BY DEF Terminal, FrameKinds
  <2> QED
    BY <1>3, <2>1, <2>2 DEF ServiceTypeOK, ServiceFrame
<1> QED
  BY <1>1, <1>2, <1>3

\* The early drops keep their type when one request's record is replaced.
DropLogs    == Seq([kind : {"future", "body"}, status : 0..999])
EarlyRecord == [future_guard : BOOLEAN, body_guard : BOOLEAN, log : DropLogs]

LEMMA EarlyType == EarlyTypeOK <=> early \in [Requests -> EarlyRecord]
  BY DEF EarlyTypeOK, EarlyRecord, DropLogs

(* A step replaces one request's record. *)
LEMMA EarlyReplaced ==
  ASSUME EarlyTypeOK, NEW r \in Requests, NEW g \in EarlyRecord,
         early' = [early EXCEPT ![r] = g]
  PROVE  EarlyTypeOK' /\ early'[r] = g /\ \A q \in Requests \ {r} : early'[q] = early[q]
<1>1. early \in [Requests -> EarlyRecord]
  BY EarlyType
<1>2. early' \in [Requests -> EarlyRecord]
  BY <1>1
<1> QED
  BY <1>1, <1>2 DEF EarlyTypeOK, EarlyRecord, DropLogs

\* A request that no step touches stays sound.
LEMMA Untouched ==
  ASSUME NEW q \in Requests, Sound(q), classifier' = classifier,
         stage'[q] = stage[q], response'[q] = response[q], stream'[q] = stream[q],
         at_end'[q] = at_end[q], trailers'[q] = trailers[q], polls'[q] = polls[q],
         trace'[q] = trace[q], early'[q] = early[q]
  PROVE  Sound(q)'
  BY DEF Sound, BeforeResponse, AfterResponse, Judged, Armed, Reported, Unanswered,
         FailsAtEnd, Finished

\* Nothing of another request changes.
OthersStay(r) ==
  /\ classifier' = classifier
  /\ \A q \in Requests \ {r} :
       /\ stage'[q] = stage[q] /\ response'[q] = response[q] /\ stream'[q] = stream[q]
       /\ at_end'[q] = at_end[q] /\ trailers'[q] = trailers[q] /\ polls'[q] = polls[q]
       /\ trace'[q] = trace[q] /\ early'[q] = early[q]

LEMMA OneSuffices ==
  ASSUME RequestInv, NEW r \in Requests, OthersStay(r), Types', Sound(r)'
  PROVE  RequestInv'
<1>1. \A q \in Requests \ {r} : Sound(q)'
  BY Untouched DEF OthersStay, RequestInv
<1> QED
  BY <1>1 DEF RequestInv

\* Trace::call starts a fresh record, OnEarlyDrop arms the future's guard.
LEMMA CallSound ==
  ASSUME RequestInv, NEW r \in Requests, Call(r)
  PROVE  RequestInv'
<1> USE DEF RequestInv, Types
<1> DEFINE t == [on_eos |-> TRUE, on_failure |-> TRUE, classify_eos |-> FALSE,
                 log |-> <<"on_request">>]
           g == [NoGuards EXCEPT !.future_guard = TRUE]
<1>1. ServiceTypeOK'
  BY ServiceTypes DEF Call
<1>2. /\ stage[r] = "idle" /\ stage' = [stage EXCEPT ![r] = "future"]
      /\ UNCHANGED <<response, stream, at_end, trailers, polls, classifier>>
      /\ trace' = [trace EXCEPT ![r] = t]
  BY DEF Call, ServiceCall, TraceCall
<1>3. early' = [early EXCEPT ![r] = g]
  BY DEF Call, EarlyCall
<1>4. t \in TraceRecord
  BY DEF TraceRecord, Callbacks
<1>5. TraceTypeOK' /\ trace'[r] = t
  BY <1>2, <1>4 DEF TraceTypeOK, TraceRecord
<1>6. EarlyTypeOK' /\ early'[r] = g
  <2>1. <<>> \in DropLogs
    BY DEF DropLogs
  <2>2. g \in EarlyRecord
    BY <2>1 DEF EarlyRecord, NoGuards
  <2> QED
    BY <1>3, <2>2, EarlyReplaced
<1>7. OthersStay(r)
  BY <1>2, <1>3 DEF OthersStay, ServiceTypeOK, TraceTypeOK, EarlyTypeOK
<1>8. /\ Good(t) /\ ~ Has(t.log, "on_eos") /\ ~ Has(t.log, "on_failure")
      /\ t.on_eos /\ t.on_failure /\ ~ t.classify_eos
  BY <1>4 DEF Good, Has, EosLast, OneFailure
<1>9. /\ stage'[r] = "future" /\ Sound(r) /\ stream'[r] = stream[r] /\ response'[r] = response[r]
      /\ trailers'[r] = trailers[r] /\ at_end'[r] = at_end[r] /\ polls'[r] = polls[r]
      /\ stream[r] = "none"
  BY <1>2 DEF ServiceTypeOK, Sound, BeforeResponse, AfterResponse, Unanswered
<1>10. g.future_guard /\ ~ g.body_guard /\ g.log = <<>>
  BY DEF NoGuards
<1> HIDE DEF t, g
<1>11. BeforeResponse(r)' /\ AfterResponse(r)' /\ Judged(r)'
  BY <1>5, <1>8, <1>9 DEF Sound, BeforeResponse, AfterResponse, Judged, Unanswered
<1>12. Armed(r)' /\ Reported(r)'
  BY <1>6, <1>9, <1>10 DEF Armed, Reported
<1>13. Sound(r)'
  BY <1>5, <1>8, <1>11, <1>12 DEF Sound
<1> QED
  BY <1>1, <1>5, <1>6, <1>7, <1>13, OneSuffices

\* The future failed: both guards are done and on_failure has run.
LEMMA FailsSound ==
  ASSUME RequestInv, NEW r \in Requests, Fails(r)
  PROVE  RequestInv'
<1> USE DEF RequestInv, Types
<1> DEFINE s == [trace[r] EXCEPT !.on_eos = FALSE, !.on_failure = FALSE]
           t == Emit(s, "on_failure")
<1>1. ServiceTypeOK'
  BY ServiceTypes DEF Fails
<1>2. /\ stage[r] = "future" /\ stage' = [stage EXCEPT ![r] = "failed"]
      /\ stream' = [stream EXCEPT ![r] = "failed"]
      /\ UNCHANGED <<response, at_end, trailers, polls, classifier>>
      /\ trace' = [trace EXCEPT ![r] = t]
  BY DEF Fails, ServiceFails, TraceFails
<1>3. early' = [early EXCEPT ![r].future_guard = FALSE]
  BY DEF Fails, EarlyFails
<1>4. Sound(r) /\ stream[r] = "none"
  BY <1>2 DEF Sound, BeforeResponse, AfterResponse, Unanswered
<1>5. /\ s \in TraceRecord /\ s.log = trace[r].log /\ s.on_eos = FALSE
      /\ s.classify_eos = trace[r].classify_eos
  BY <1>4 DEF Sound, Good, TraceRecord
<1>6. "on_failure" \in Callbacks
  BY DEF Callbacks
<1> HIDE DEF s
<1>7. /\ t \in TraceRecord /\ t.log = Append(s.log, "on_failure") /\ t.on_eos = FALSE
      /\ t.classify_eos = s.classify_eos
  BY <1>5, <1>6, EmitFields
<1> HIDE DEF t
<1>8. /\ EosLast(t.log) /\ OneFailure(t.log) /\ ~ Has(t.log, "on_eos") /\ Has(t.log, "on_failure")
  <2>1. /\ ~ Has(s.log, "on_eos") /\ ~ Has(s.log, "on_failure") /\ EosLast(s.log) /\ OneFailure(s.log)
    BY <1>4, <1>5 DEF Sound, Good, BeforeResponse, Unanswered
  <2>2. s.log \in Seq(Callbacks)
    BY <1>5, RecordFields
  <2> QED
    BY <1>6, <1>7, <2>1, <2>2, LogAppend
<1>9. ~ trace[r].classify_eos
  BY <1>2, <1>4 DEF Sound, BeforeResponse, Unanswered
<1>10. Good(t)
  BY <1>5, <1>7, <1>8, <1>9 DEF Good
<1>11. TraceTypeOK' /\ trace'[r] = t
  BY <1>2, <1>7 DEF TraceTypeOK, TraceRecord
<1>12. /\ EarlyTypeOK' /\ early'[r].future_guard = FALSE
       /\ early'[r].body_guard = early[r].body_guard /\ early'[r].log = early[r].log
  <2> DEFINE g == [early[r] EXCEPT !.future_guard = FALSE]
  <2>1. early[r] \in EarlyRecord
    BY EarlyType
  <2>2. /\ g \in EarlyRecord /\ g.future_guard = FALSE
        /\ g.body_guard = early[r].body_guard /\ g.log = early[r].log
    BY <2>1 DEF EarlyRecord
  <2>3. early' = [early EXCEPT ![r] = g]
    BY <1>3
  <2> QED
    BY <2>2, <2>3, EarlyReplaced
<1>13. OthersStay(r)
  BY <1>2, <1>3 DEF OthersStay, ServiceTypeOK, TraceTypeOK, EarlyTypeOK
<1>14. /\ stage'[r] = "failed" /\ stream'[r] = "failed" /\ response'[r] = response[r]
       /\ trailers'[r] = trailers[r] /\ at_end'[r] = at_end[r] /\ polls'[r] = polls[r]
  BY <1>2 DEF ServiceTypeOK
<1>15. BeforeResponse(r)' /\ AfterResponse(r)' /\ Judged(r)'
  BY <1>4, <1>8, <1>11, <1>14 DEF Sound, BeforeResponse, AfterResponse, Judged, Unanswered
<1>16. Armed(r)' /\ Reported(r)'
  BY <1>2, <1>4, <1>12, <1>14 DEF Sound, Armed, Reported
<1>17. Sound(r)'
  BY <1>10, <1>11, <1>15, <1>16 DEF Sound
<1> QED
  BY <1>1, <1>11, <1>12, <1>13, <1>17, OneSuffices

\* A response that is judged by its end has not failed yet.
LEMMA EosIsNoFailure ==
  ASSUME NEW c, NEW res, RequiresEos(c, res)
  PROVE  ~ IsFailure(c, res)
  BY DEF RequiresEos, IsFailure

(* The response is classified: on_failure runs now, or classify_eos is     *)
(* kept, or neither.  The body's guard is armed unless the body is empty.  *)
LEMMA RespondsSound ==
  ASSUME RequestInv, NEW r \in Requests, NEW res \in Loads[load].responses,
         NEW e \in BOOLEAN, Responds(r, res, e)
  PROVE  RequestInv'
<1> USE DEF RequestInv, Types
<1> DEFINE class == classify_response(classifier, res)
           s == Emit(trace[r], "on_response")
           u == IF class = "Err" THEN Emit(s, "on_failure") ELSE s
           t == [u EXCEPT !.classify_eos = (class = "RequiresEos")]
           g == [early[r] EXCEPT !.future_guard = FALSE, !.body_guard = ~ e]
<1>1. ServiceTypeOK'
  BY ServiceTypes DEF Responds
<1>2. /\ stage[r] = "future" /\ stage' = [stage EXCEPT ![r] = "body"]
      /\ response' = [response EXCEPT ![r] = res]
      /\ stream' = [stream EXCEPT ![r] = "open"] /\ at_end' = [at_end EXCEPT ![r] = e]
      /\ UNCHANGED <<trailers, polls, classifier>>
      /\ trace' = [trace EXCEPT ![r] = t]
  BY DEF Responds, ServiceResponds, TraceResponds
<1>3. early' = [early EXCEPT ![r] = g]
  BY DEF Responds, EarlyResponds
<1>4. Sound(r) /\ stream[r] = "none"
  BY <1>2 DEF Sound, BeforeResponse, AfterResponse, Unanswered
<1>5. /\ Good(trace[r]) /\ ~ Has(trace[r].log, "on_eos") /\ ~ Has(trace[r].log, "on_failure")
      /\ trace[r].on_eos /\ trace[r].on_failure /\ ~ trace[r].classify_eos
  BY <1>2, <1>4 DEF Sound, BeforeResponse, Unanswered
<1>6. "on_response" \in Callbacks /\ "on_failure" \in Callbacks
  BY DEF Callbacks
<1>7. /\ trace[r] \in TraceRecord /\ trace[r].log \in Seq(Callbacks)
      /\ EosLast(trace[r].log) /\ OneFailure(trace[r].log)
  BY <1>5, RecordFields DEF Good
<1>8. /\ s \in TraceRecord /\ s.log = Append(trace[r].log, "on_response")
      /\ s.on_eos = trace[r].on_eos /\ s.on_failure = trace[r].on_failure
  BY <1>6, <1>7, EmitFields
<1> HIDE DEF class, s
<1>9. /\ s.log \in Seq(Callbacks) /\ EosLast(s.log) /\ OneFailure(s.log)
      /\ ~ Has(s.log, "on_eos") /\ ~ Has(s.log, "on_failure")
  BY <1>5, <1>6, <1>7, <1>8, LogAppend
<1>10. /\ u \in TraceRecord /\ u.on_eos = s.on_eos /\ u.on_failure = s.on_failure
       /\ u.log = IF class = "Err" THEN Append(s.log, "on_failure") ELSE s.log
  BY <1>6, <1>8, EmitFields
<1> HIDE DEF u
<1>11. /\ EosLast(u.log) /\ OneFailure(u.log) /\ ~ Has(u.log, "on_eos")
       /\ Has(u.log, "on_failure") <=> class = "Err"
  BY <1>6, <1>9, <1>10, LogAppend
<1>12. /\ t \in TraceRecord /\ t.on_eos = u.on_eos /\ t.on_failure = u.on_failure
       /\ t.log = u.log /\ t.classify_eos = (class = "RequiresEos")
  BY <1>10 DEF TraceRecord
<1> HIDE DEF t
<1>13. Good(t) /\ t.on_eos
  BY <1>5, <1>8, <1>10, <1>11, <1>12 DEF Good
<1>14. TraceTypeOK' /\ trace'[r] = t
  BY <1>2, <1>12 DEF TraceTypeOK, TraceRecord
<1>15. /\ g \in EarlyRecord /\ g.future_guard = FALSE /\ g.body_guard = ~ e
       /\ g.log = early[r].log
  <2>1. early[r] \in EarlyRecord
    BY EarlyType
  <2> QED
    BY <2>1 DEF EarlyRecord
<1>16. EarlyTypeOK' /\ early'[r] = g
  BY <1>3, <1>15, EarlyReplaced
<1> HIDE DEF g
<1>17. OthersStay(r)
  BY <1>2, <1>3 DEF OthersStay, ServiceTypeOK, TraceTypeOK, EarlyTypeOK
<1>18. /\ stage'[r] = "body" /\ stream'[r] = "open" /\ response'[r] = res
       /\ trailers'[r] = trailers[r] /\ at_end'[r] = e /\ polls'[r] = polls[r]
  BY <1>2 DEF ServiceTypeOK
<1>19. res # NoResponse
  <2>1. res.status \in 100..999
    BY LoadsAssumption DEF ServiceTypeOK
  <2> QED
    BY <2>1 DEF NoResponse
<1>20. trailers[r] = NoTrailers /\ ~ classify_eos(classifier, trailers[r])
  BY <1>4 DEF Sound, BeforeResponse, Unanswered, classify_eos
<1>21. polls[r] = 0
  BY <1>4 DEF Sound, BeforeResponse, Unanswered
<1>22. BeforeResponse(r)'
  BY <1>18 DEF BeforeResponse, Unanswered
<1>23. AfterResponse(r)'
  BY <1>11, <1>12, <1>13, <1>14, <1>18, <1>19, <1>20, <1>21
  DEF AfterResponse, Unanswered
<1>24. Judged(r)'
  <2>1. FailsAtEnd(r)' <=> FALSE
    BY <1>2, <1>18, <1>20 DEF FailsAtEnd
  <2>2. classifier' = classifier
    BY <1>2
  <2>3. class = IF IsFailure(classifier, res) THEN "Err"
                ELSE IF RequiresEos(classifier, res) THEN "RequiresEos" ELSE "Ok"
    BY DEF class, classify_response
  <2>4. /\ class = "Err" <=> IsFailure(classifier, res)
        /\ class = "RequiresEos" <=> RequiresEos(classifier, res)
    BY <2>3, EosIsNoFailure
  <2> QED
    BY <1>11, <1>12, <1>14, <1>18, <2>1, <2>2, <2>4 DEF Judged, Unanswered
<1>25. Armed(r)' /\ Reported(r)'
  BY <1>2, <1>4, <1>15, <1>16, <1>18 DEF Sound, Armed, Reported, Finished
<1>26. Sound(r)'
  BY <1>13, <1>14, <1>22, <1>23, <1>24, <1>25 DEF Sound
<1> QED
  BY <1>1, <1>14, <1>16, <1>17, <1>26, OneSuffices

(* One frame: on_eos and the guard of OnEarlyDrop agree on whether the     *)
(* body has come to its end, except after trailers that did not say so.    *)
LEMMA FrameSound ==
  ASSUME RequestInv, NEW r \in Requests, NEW k \in FrameKinds,
         NEW trl \in GrpcValues \cup {NoTrailers}, NEW e \in BOOLEAN, Frame(r, k, trl, e)
  PROVE  RequestInv'
<1> USE DEF RequestInv, Types
<1> DEFINE t == trace[r]
           u == poll_frame(classifier, trace[r], k, trl, e)
           g == [early[r] EXCEPT !.body_guard = early[r].body_guard /\ ~ Completes(k, e)]
<1>1. ServiceTypeOK'
  BY ServiceTypes DEF Frame
<1>2. /\ stage[r] = "body" /\ CanYield(r, k)
      /\ (k = "trailers") = (trl # NoTrailers)
      /\ at_end[r] \/ k \in {"err", "none"} => e = at_end[r]
      /\ stream' = [stream EXCEPT ![r] = IF stream[r] \in {"open", "trailed"} THEN Terminal[k] ELSE stream[r]]
      /\ trailers' = [trailers EXCEPT ![r] = IF k = "trailers" THEN trl ELSE trailers[r]]
      /\ at_end' = [at_end EXCEPT ![r] = e]
      /\ polls' = [polls EXCEPT ![r] = polls[r] + 1]
      /\ UNCHANGED <<stage, response, classifier>>
      /\ trace' = [trace EXCEPT ![r] = u]
  BY DEF Frame, ServiceFrame, TraceFrame
<1>3. early' = [early EXCEPT ![r] = g]
  BY DEF Frame, EarlyFrame
<1>4. /\ Sound(r) /\ stream[r] \in {"open", "trailed", "ended", "errored"}
      /\ polls[r] \in Nat /\ at_end[r] \in BOOLEAN
  BY <1>2 DEF Sound, BeforeResponse, Unanswered, ServiceTypeOK
<1>5. /\ stage'[r] = "body" /\ response'[r] = response[r] /\ at_end'[r] = e
      /\ polls'[r] > 0 /\ trailers'[r] = IF k = "trailers" THEN trl ELSE trailers[r]
      /\ stream'[r] = IF stream[r] \in {"open", "trailed"} THEN Terminal[k] ELSE stream[r]
      /\ trace'[r] = u
  BY <1>2, <1>4 DEF ServiceTypeOK, TraceTypeOK
<1>6. /\ k = "data" => Terminal[k] = "open"
      /\ k = "trailers" => Terminal[k] = "trailed"
      /\ k = "err" => Terminal[k] = "errored"
      /\ k = "none" => Terminal[k] = "ended"
  BY DEF Terminal
<1>7. /\ k = "err" => stream[r] \in {"open", "errored"} /\ ~ at_end[r]
      /\ k \in {"data", "trailers"} => stream[r] = "open" /\ ~ at_end[r]
  BY <1>2 DEF CanYield
<1>8. k \in {"data", "trailers"} => t.on_eos
  BY <1>4, <1>7 DEF Sound, AfterResponse, Unanswered
<1>9. /\ Good(u)
      /\ u.on_eos <=> t.on_eos /\ ~ Closes(k, e)
      /\ u.classify_eos <=> t.classify_eos /\ ~ Closes(k, e) /\ k # "err"
      /\ Has(u.log, "on_eos") <=> Has(t.log, "on_eos") \/ (t.on_eos /\ Closes(k, e))
      /\ Has(u.log, "on_failure") <=>
           \/ Has(t.log, "on_failure")
           \/ t.classify_eos /\ k = "err"
           \/ t.classify_eos /\ k = "trailers" /\ classify_eos(classifier, trl)
  <2>1. Good(t)
    BY <1>4 DEF Sound
  <2> QED
    BY <1>8, <2>1, PollFrameGood
<1>10. TraceTypeOK'
  BY <1>2, <1>9 DEF TraceTypeOK, TraceRecord, Good
<1>11. /\ g \in EarlyRecord /\ g.future_guard = early[r].future_guard /\ g.log = early[r].log
       /\ g.body_guard = (early[r].body_guard /\ ~ Completes(k, e))
  <2>1. early[r] \in EarlyRecord
    BY EarlyType
  <2> QED
    BY <2>1 DEF EarlyRecord
<1>12. EarlyTypeOK' /\ early'[r] = g
  BY <1>3, <1>11, EarlyReplaced
<1>13. OthersStay(r)
  BY <1>2, <1>3 DEF OthersStay, ServiceTypeOK, TraceTypeOK, EarlyTypeOK
<1> HIDE DEF u, g
<1>14. ~ Unanswered(r) /\ ~ Unanswered(r)'
  BY <1>4, <1>5, <1>6 DEF Unanswered, FrameKinds
<1>15. BeforeResponse(r)'
  BY <1>14 DEF BeforeResponse
<1>16. AfterResponse(r)'
  <2>1. /\ response[r] # NoResponse /\ (t.on_eos <=> ~ Has(t.log, "on_eos"))
        /\ stream[r] = "open" /\ ~ at_end[r] => t.on_eos
        /\ stream[r] \in {"trailed", "ended"} => ~ t.on_eos
        /\ stream[r] = "open" => trailers[r] = NoTrailers
        /\ t.classify_eos => stream[r] = "open"
    BY <1>4, <1>14 DEF Sound, AfterResponse
  <2>2. u.on_eos <=> ~ Has(u.log, "on_eos")
    BY <1>9, <2>1
  <2>3. stream'[r] = "open" /\ ~ at_end'[r] => u.on_eos
    BY <1>4, <1>5, <1>6, <1>7, <1>8, <1>9 DEF FrameKinds, Closes
  <2>4. stream'[r] \in {"trailed", "ended"} => ~ u.on_eos
    BY <1>4, <1>5, <1>6, <1>9, <2>1 DEF FrameKinds, Closes
  <2>5. at_end'[r] => ~ u.on_eos
    BY <1>2, <1>4, <1>5, <1>7, <1>9 DEF FrameKinds, Closes
  <2>6. stream'[r] = "open" => trailers'[r] = NoTrailers
    BY <1>4, <1>5, <1>6, <1>7, <2>1 DEF FrameKinds
  <2>7. u.classify_eos => stream'[r] = "open"
    BY <1>4, <1>5, <1>6, <1>9, <2>1 DEF FrameKinds, Closes
  <2> QED
    BY <1>5, <1>14, <2>1, <2>2, <2>3, <2>4, <2>5, <2>6, <2>7 DEF AfterResponse
<1>17. Judged(r)'
  <2>1. CASE RequiresEos(classifier, response[r])
    <3>1. /\ Has(t.log, "on_failure") <=> FailsAtEnd(r)
          /\ stream[r] = "open" /\ ~ at_end[r] => t.classify_eos
          /\ stream[r] = "open" => trailers[r] = NoTrailers
          /\ t.classify_eos => stream[r] = "open"
      BY <1>4, <1>14, <2>1 DEF Sound, Judged, AfterResponse
    <3>2. FailsAtEnd(r)' <=> stream'[r] = "errored" \/ classify_eos(classifier, trailers'[r])
      BY <1>2 DEF FailsAtEnd
    <3>3. ~ classify_eos(classifier, NoTrailers)
      BY DEF classify_eos
    <3>4. Has(u.log, "on_failure") <=> FailsAtEnd(r)'
      BY <1>4, <1>5, <1>6, <1>7, <1>9, <3>1, <3>2, <3>3 DEF FrameKinds, FailsAtEnd
    <3>5. stream'[r] = "open" /\ ~ at_end'[r] => u.classify_eos
      BY <1>4, <1>5, <1>6, <1>7, <1>9, <3>1 DEF FrameKinds, Closes
    <3> QED
      BY <1>2, <1>5, <2>1, <3>4, <3>5 DEF Judged
  <2>2. CASE ~ RequiresEos(classifier, response[r])
    <3>1. /\ Has(t.log, "on_failure") <=> IsFailure(classifier, response[r])
          /\ ~ t.classify_eos
      BY <1>4, <1>14, <2>2 DEF Sound, Judged
    <3>2. /\ Has(u.log, "on_failure") <=> IsFailure(classifier, response[r])
          /\ ~ u.classify_eos
      BY <1>9, <3>1
    <3> QED
      BY <1>2, <1>5, <2>2, <3>2 DEF Judged
  <2> QED
    BY <2>1, <2>2
<1>18. Armed(r)' /\ Reported(r)'
  <2>1. /\ early[r].body_guard <=> ~ Finished(r)
        /\ ~ early[r].future_guard /\ early[r].log = <<>>
    BY <1>2, <1>4 DEF Sound, Armed
  <2>2. Finished(r)' <=> Finished(r) \/ Completes(k, e)
    BY <1>2, <1>4, <1>5, <1>6, <1>7 DEF Finished, Completes, FrameKinds
  <2> QED
    BY <1>5, <1>11, <1>12, <2>1, <2>2 DEF Armed, Reported
<1>19. Sound(r)'
  BY <1>5, <1>9, <1>15, <1>16, <1>17, <1>18 DEF Sound
<1> QED
  BY <1>1, <1>10, <1>12, <1>13, <1>19, OneSuffices

\* A log of no drop, and of one.
LEMMA ShortLogs ==
  ASSUME NEW d \in [kind : {"future", "body"}, status : 0..999]
  PROVE  <<>> \in DropLogs /\ <<d>> \in DropLogs
<1> DEFINE D == [kind : {"future", "body"}, status : 0..999]
<1>1. d \in D
  OBVIOUS
<1> HIDE DEF D
<1>2. <<>> \in Seq(D) /\ <<d>> \in Seq(D)
  BY <1>1
<1> QED
  BY <1>2 DEF D, DropLogs

\* The future or the body is dropped: a guard that is still armed reports it.
LEMMA DropSound ==
  ASSUME RequestInv, NEW r \in Requests, DropFuture(r) \/ DropBody(r)
  PROVE  RequestInv'
<1> USE DEF RequestInv, Types
<1>1. ServiceTypeOK'
  BY ServiceTypes DEF DropFuture, DropBody
<1>2. /\ stage' = [stage EXCEPT ![r] = "gone"]
      /\ UNCHANGED <<response, stream, at_end, trailers, polls, classifier, trace>>
  BY DEF DropFuture, DropBody, FutureDropped, BodyDropped, tvars
<1>3. stage'[r] = "gone" /\ Sound(r) /\ TraceTypeOK'
  BY <1>2 DEF ServiceTypeOK, TraceTypeOK
<1>4. UNCHANGED <<response[r], stream[r], at_end[r], trailers[r], polls[r], trace[r]>>
  BY <1>2
<1>5. stage[r] \in {"future", "failed", "body"}
  BY DEF DropFuture, DropBody, FutureDropped, BodyDropped
<1>6. Good(trace[r])' /\ BeforeResponse(r)' /\ AfterResponse(r)' /\ Judged(r)'
  BY <1>2, <1>3, <1>4, <1>5 DEF Sound, BeforeResponse, AfterResponse, Judged, Unanswered, FailsAtEnd
<1>7. /\ early[r] \in EarlyRecord /\ early[r].log = <<>>
      /\ Finished(r)' = Finished(r)
  BY <1>2, <1>3, <1>5, EarlyType DEF Sound, Armed, Finished
<1>8. CASE DropFuture(r)
  <2> DEFINE l == IF early[r].future_guard
                  THEN Append(early[r].log, [kind |-> "future", status |-> 0]) ELSE early[r].log
             g == [early[r] EXCEPT !.future_guard = FALSE, !.log = l]
  <2>1. early' = [early EXCEPT ![r] = g]
    BY <1>8 DEF DropFuture, EarlyFutureDropped
  <2>2. l = IF early[r].future_guard THEN <<[kind |-> "future", status |-> 0]>> ELSE <<>>
    BY <1>7
  <2>3. l \in DropLogs
    <3>1. [kind |-> "future", status |-> 0] \in [kind : {"future", "body"}, status : 0..999]
      OBVIOUS
    <3> QED
      BY <2>2, <3>1, ShortLogs
  <2> HIDE DEF l
  <2>4. /\ g \in EarlyRecord /\ g.future_guard = FALSE /\ g.body_guard = early[r].body_guard
        /\ g.log = l
    BY <1>7, <2>3 DEF EarlyRecord
  <2> HIDE DEF g
  <2>5. EarlyTypeOK' /\ early'[r] = g /\ \A q \in Requests \ {r} : early'[q] = early[q]
    BY <2>1, <2>4, EarlyReplaced
  <2>6. OthersStay(r)
    BY <1>2, <2>5 DEF OthersStay, ServiceTypeOK
  <2>7. stage[r] \in {"future", "failed"}
    BY <1>8 DEF DropFuture, FutureDropped
  <2>8. /\ early[r].future_guard <=> stream[r] = "none"
        /\ stream[r] \in {"none", "failed"} /\ ~ early[r].body_guard
    BY <1>3, <2>7 DEF Sound, Armed, BeforeResponse, AfterResponse, Unanswered
  <2>9. Armed(r)' /\ Reported(r)'
    BY <1>3, <1>4, <1>7, <2>2, <2>4, <2>5, <2>8 DEF Armed, Reported
  <2>10. Sound(r)'
    BY <1>6, <2>9 DEF Sound
  <2> QED
    BY <1>1, <1>3, <2>5, <2>6, <2>10, OneSuffices
<1>9. CASE DropBody(r)
  <2> DEFINE d == [kind |-> "body", status |-> response[r].status]
             l == IF early[r].body_guard THEN Append(early[r].log, d) ELSE early[r].log
             g == [early[r] EXCEPT !.body_guard = FALSE, !.log = l]
  <2>1. early' = [early EXCEPT ![r] = g]
    BY <1>9 DEF DropBody, EarlyBodyDropped
  <2>2. l = IF early[r].body_guard THEN <<d>> ELSE <<>>
    BY <1>7
  <2>3. l \in DropLogs
    <3>1. response[r].status \in 0..999
      BY LoadsAssumption DEF ServiceTypeOK, NoResponse
    <3>2. d \in [kind : {"future", "body"}, status : 0..999]
      BY <3>1
    <3> HIDE DEF d
    <3>3. <<>> \in DropLogs /\ <<d>> \in DropLogs
      BY <3>2, ShortLogs
    <3> QED
      BY <2>2, <3>3
  <2> HIDE DEF l
  <2>4. /\ g \in EarlyRecord /\ g.future_guard = early[r].future_guard /\ g.body_guard = FALSE
        /\ g.log = l
    BY <1>7, <2>3 DEF EarlyRecord
  <2> HIDE DEF g
  <2>5. EarlyTypeOK' /\ early'[r] = g /\ \A q \in Requests \ {r} : early'[q] = early[q]
    BY <2>1, <2>4, EarlyReplaced
  <2>6. OthersStay(r)
    BY <1>2, <2>5 DEF OthersStay, ServiceTypeOK
  <2>7. stage[r] = "body"
    BY <1>9 DEF DropBody, BodyDropped
  <2>8. /\ early[r].body_guard <=> ~ Finished(r)
        /\ stream[r] \notin {"none", "failed"} /\ ~ early[r].future_guard
    BY <1>3, <2>7 DEF Sound, Armed, BeforeResponse, Unanswered
  <2>9. Armed(r)' /\ Reported(r)'
    BY <1>3, <1>4, <1>7, <2>2, <2>4, <2>5, <2>8 DEF Armed, Reported
  <2>10. Sound(r)'
    BY <1>6, <2>9 DEF Sound
  <2> QED
    BY <1>1, <1>3, <2>5, <2>6, <2>10, OneSuffices
<1> QED
  BY <1>8, <1>9

LEMMA RequestsFirst == Init => RequestInv
<1> SUFFICES ASSUME Init, NEW r \in Requests PROVE Sound(r)
  BY TypesFirst DEF RequestInv
<1>1. /\ stage[r] = "idle" /\ stream[r] = "none" /\ response[r] = NoResponse
      /\ trailers[r] = NoTrailers /\ at_end[r] = FALSE /\ polls[r] = 0
  BY DEF Init, ServiceInit
<1>2. trace[r] = Untraced /\ early[r] = NoGuards
  BY DEF Init, TraceInit, EarlyInit
<1>3. Good(Untraced) /\ \A c : ~ Has(Untraced.log, c)
  BY DEF Untraced, Good, TraceRecord, Has, EosLast, OneFailure
<1>4. BeforeResponse(r) /\ AfterResponse(r) /\ Judged(r)
  BY <1>1, <1>2, <1>3 DEF BeforeResponse, AfterResponse, Judged, Unanswered
<1>5. Armed(r) /\ Reported(r)
  BY <1>1, <1>2 DEF Armed, Reported, NoGuards
<1> QED
  BY <1>2, <1>3, <1>4, <1>5 DEF Sound

LEMMA RequestsPreserved == RequestInv /\ [Next]_vars => RequestInv'
<1> SUFFICES ASSUME RequestInv, [Next]_vars PROVE RequestInv'
  OBVIOUS
<1>1. ASSUME UNCHANGED <<svars, tvars, early>> PROVE RequestInv'
  <2>1. Types'
    BY <1>1 DEF RequestInv, Types, ServiceTypeOK, TraceTypeOK, EarlyTypeOK, svars, tvars
  <2>2. \A r \in Requests : Sound(r)'
    BY <1>1, Untouched DEF RequestInv, svars, tvars
  <2> QED
    BY <2>1, <2>2 DEF RequestInv
<1>2. CASE UNCHANGED vars \/ Over
  BY <1>1, <1>2 DEF vars, Over
<1>3. CASE Handles \/ EmitterTask \/ \E r \in Requests : Release(r)
  BY <1>1, <1>3 DEF Handles, EmitterTask, Release
<1>4. ASSUME NEW r \in Requests, Call(r) \/ Fails(r) \/ DropFuture(r) \/ DropBody(r)
      PROVE  RequestInv'
  BY <1>4, CallSound, FailsSound, DropSound
<1>5. ASSUME NEW r \in Requests, NEW res \in Loads[load].responses, NEW e \in BOOLEAN,
             Responds(r, res, e)
      PROVE  RequestInv'
  BY <1>5, RespondsSound
<1>6. ASSUME NEW r \in Requests, NEW k \in FrameKinds,
             NEW t \in GrpcValues \cup {NoTrailers}, NEW e \in BOOLEAN, Frame(r, k, t, e)
      PROVE  RequestInv'
  BY <1>6, FrameSound
<1> QED
  BY <1>2, <1>3, <1>4, <1>5, <1>6 DEF Next

THEOREM RequestsAreSound == Spec => []RequestInv
  BY RequestsFirst, RequestsPreserved, PTL DEF Spec

(* For every classifier, response and sequence of frames: on_failure runs  *)
(* at most once and exactly for the requests that failed, and on_eos at    *)
(* most once, with nothing after it.                                       *)
THEOREM TraceIsExact == Spec => []CallbacksAreExact
<1>1. RequestInv => CallbacksAreExact
  <2> SUFFICES ASSUME RequestInv, NEW r \in Requests
               PROVE  /\ EosLast(trace[r].log) /\ OneFailure(trace[r].log)
                      /\ Has(trace[r].log, "on_failure") <=>
                           \/ stream[r] = "failed"
                           \/ response[r] # NoResponse /\ IsFailure(classifier, response[r])
                           \/ /\ response[r] # NoResponse /\ RequiresEos(classifier, response[r])
                              /\ FailsAtEnd(r)
    BY DEF CallbacksAreExact, EosIsLast, FailureIsExact, EosLast, OneFailure, Has, Called
  <2>1. Sound(r) /\ EosLast(trace[r].log) /\ OneFailure(trace[r].log)
    BY DEF RequestInv, Sound, Good
  <2>2. CASE Unanswered(r)
    BY <2>1, <2>2 DEF Sound, BeforeResponse, Unanswered
  <2>3. CASE ~ Unanswered(r)
    <3>1. response[r] # NoResponse /\ stream[r] # "failed"
      BY <2>1, <2>3 DEF Sound, AfterResponse, Unanswered
    <3> QED
      BY <2>1, <2>3, <3>1, EosIsNoFailure DEF Sound, Judged
  <2> QED
    BY <2>2, <2>3
<1> QED
  BY <1>1, RequestsAreSound, PTL

(* Every request that is gone left one closing report, and what            *)
(* OnEarlyDrop reports was cut short.                                      *)
THEOREM EveryEndIsReported == Spec => []EndIsReported
<1>1. RequestInv => EndIsReported
  <2> SUFFICES ASSUME RequestInv PROVE EarlyDropIsExact /\ OneClosingReport
    BY DEF EndIsReported
  <2>1. EarlyDropIsExact
    BY DEF RequestInv, Sound, Reported, EarlyDropIsExact
  <2>2. ASSUME NEW r \in Requests, stage[r] = "gone"
        PROVE  /\ Called(r, "on_eos") /\ early[r].log # <<>> => stream[r] = "trailed"
               /\ \/ Called(r, "on_eos")
                  \/ early[r].log # <<>>
                  \/ stream[r] \in {"failed", "errored"}
                  \/ at_end[r] /\ polls[r] = 0
    <3>1. /\ Sound(r) /\ polls[r] \in Nat
          /\ stream[r] \in {"none", "failed", "open", "trailed", "ended", "errored"}
      BY DEF RequestInv, Types, ServiceTypeOK
    <3>2. Called(r, "on_eos") <=> Has(trace[r].log, "on_eos")
      BY DEF Called, Has
    <3>3. \A d : <<d>> # <<>>
      OBVIOUS
    <3>4. CASE Unanswered(r)
      BY <2>2, <3>1, <3>2, <3>3, <3>4 DEF Sound, BeforeResponse, Reported, Unanswered
    <3>5. CASE ~ Unanswered(r)
      <4>1. early[r].log # <<>> <=> ~ Finished(r)
        BY <2>2, <3>1, <3>3, <3>5 DEF Sound, Reported, Unanswered
      <4>2. /\ Has(trace[r].log, "on_eos") => Finished(r) \/ stream[r] = "trailed"
            /\ stream[r] = "ended" \/ (at_end[r] /\ polls[r] > 0) => Has(trace[r].log, "on_eos")
        BY <3>1, <3>5 DEF Sound, AfterResponse, Unanswered, Finished
      <4> QED
        BY <3>1, <3>2, <4>1, <4>2 DEF Finished
    <3> QED
      BY <3>4, <3>5
  <2> QED
    BY <2>1, <2>2 DEF OneClosingReport
<1> QED
  BY <1>1, RequestsAreSound, PTL
=============================================================================
