----------------------------- MODULE Readiness -----------------------------
(***************************************************************************)
(* poll_ready and call through a stack of middleware.  Callers share a     *)
(* service that admits a limited number of requests at a time: poll_ready  *)
(* reserves a permit, call uses it, and calling a service that holds none  *)
(* panics (tower's ConcurrencyLimit, external).  Almost every middleware   *)
(* forwards call to the inner service at once and needs no model.  These   *)
(* do not:                                                                 *)
(*                                                                         *)
(*   gate    answers some requests in call and leaves the inner service as *)
(*           it is (ValidateRequestHeader, RequestBodyLimit)               *)
(*   auth    AsyncRequireAuthorization: moves the ready service into its   *)
(*           future, which calls it when the request is authorized         *)
(*   serve   ServeDir: moves the ready fallback into its future, which     *)
(*           calls it when there is no file                                *)
(*   follow  FollowRedirect: moves the ready service into its future,      *)
(*           calls it, and calls clones of it for the following requests   *)
(***************************************************************************)
EXTENDS Integers, Sequences, FiniteSets

CONSTANTS
  Callers,   \* tasks that make requests, one at a time
  Keepers,   \* those that keep their service between requests; the others
             \* clone it for each request and drop it after call
  Stacks,    \* the stacks of middleware, outermost first
  MaxPermits,\* bound on the number of permits
  MaxHops    \* redirections the policy of FollowRedirect permits

Kinds == {"gate", "auth", "serve", "follow"}

ASSUME CallersAssumption == Keepers \subseteq Callers
ASSUME StacksAssumption ==
  /\ Stacks \subseteq Seq(Kinds)
  /\ \A s \in Stacks : \A i, j \in 1..Len(s) :  \* one FollowRedirect at most
       s[i] = "follow" /\ s[j] = "follow" => i = j
ASSUME PermitsAssumption == MaxPermits \in Nat \ {0} /\ MaxHops \in Nat

VARIABLES
  stack,     \* the middleware around the limited service
  permits,   \* how many requests it admits
  pc,        \* what each caller is doing
  at,        \* the layer whose future a call is suspended in
  held,      \* where the permits are that were reserved for a caller
  queue,     \* callers waiting for a permit, first come first served
  redirect,  \* whether the answer is a redirection that the policy follows
  hops       \* redirections followed in this call

vars == <<stack, permits, pc, at, held, queue, redirect, hops>>

(* A permit is with a clone of the limited service, and the clone is in    *)
(* some place: the caller's own service (0), the service field of layer    *)
(* i's future (i), the Oneshot of FollowRedirect's future (-1), or it is   *)
(* in use by the response future of the limited service.                   *)
Own     == 0
Oneshot == -1
Bottom  == Len(stack) + 1
Places  == {Oneshot, Own} \cup 1..Bottom

States == {"idle", "waiting", "ready", "authorizing", "serving", "running",
           "answered", "hopping", "hop_waiting", "hop_ready", "panicked"}

Init ==
  /\ stack \in Stacks
  /\ permits \in 1..MaxPermits
  /\ pc = [c \in Callers |-> "idle"]
  /\ at = [c \in Callers |-> 0]
  /\ held = [c \in Callers |-> {}]
  /\ queue = <<>>
  /\ redirect = [c \in Callers |-> FALSE]
  /\ hops = [c \in Callers |-> 0]

-----------------------------------------------------------------------------
Used == Cardinality({x \in Callers \X Places : x[2] \in held[x[1]]})

Kind(i) == IF i = Bottom THEN "limited" ELSE stack[i]

\* The layer of FollowRedirect, 0 if there is none.
FollowAt ==
  IF \E i \in 1..Len(stack) : stack[i] = "follow"
  THEN CHOOSE i \in 1..Len(stack) : stack[i] = "follow"
  ELSE 0

\* Layers whose call can reach the call of the layer below: a gate that
\* admits the request, FollowRedirect, and ServeDir when it passes methods
\* other than GET and HEAD to the fallback (call_fallback_on_method_not_allowed).
Forwards(i) == Kind(i) \in {"gate", "follow", "serve"}

\* Where a call that enters at layer i can come to rest.
Rests(i) == {j \in i..Bottom : \A k \in i..(j - 1) : Forwards(k)}

\* The place of the service whose call reached layer j: FollowRedirect moves
\* it into its future (mem::replace) before it calls it.
Holder(place, i, j) ==
  IF FollowAt \in i..(j - 1) THEN FollowAt ELSE place

\* A service is moved with the permit it holds, and a clone without one is
\* left in its place.
Moved(places, from, to) ==
  IF from \in places THEN (places \ {from}) \cup {to} ELSE places

\* Mutant: the future gets the clone, the ready service stays behind.
MoveIntoFuture_Clone(places, from, j) == places

\* AsyncRequireAuthorization::call and ServeDir::try_call: the ready service
\* is moved into the future of layer j.
MoveIntoFuture(places, from, j) == Moved(places, from, j)

Set(f, c, v) == [f EXCEPT ![c] = v]

\* A gate answers in call, with any response its validator makes; so does
\* ServeDir for a method it does not serve (405).
Refused(c, j, places) ==
  /\ \/ Kind(j) = "gate" /\ \E r \in BOOLEAN : redirect' = Set(redirect, c, r)
     \/ Kind(j) = "serve" /\ redirect' = Set(redirect, c, FALSE)
  /\ pc' = Set(pc, c, "answered") /\ at' = Set(at, c, j)
  /\ held' = Set(held, c, places)

\* The future of layer j has the service and has not called it yet.
Suspended(c, j, places) ==
  /\ \/ Kind(j) = "auth" /\ pc' = Set(pc, c, "authorizing")
     \/ Kind(j) = "serve" /\ pc' = Set(pc, c, "serving")
  /\ at' = Set(at, c, j)
  /\ held' = Set(held, c, places)
  /\ UNCHANGED redirect

\* The limited service is called: it gives the permit to the response future.
Entered(c, place, places) ==
  /\ pc' = Set(pc, c, IF place \in places THEN "running" ELSE "panicked")
  /\ at' = Set(at, c, Bottom)
  /\ held' = Set(held, c, Moved(places, place, Bottom))
  /\ UNCHANGED redirect

(* The service at `place` is called for caller c, entering at layer i; the *)
(* places in `dropped` cease to exist when call returns.                   *)
Descend(c, i, place, dropped) ==
  \E j \in Rests(i) :
    LET holder == Holder(place, i, j)
        places == Moved(held[c], place, holder)
    IN \/ Refused(c, j, places \ dropped)
       \/ Suspended(c, j, MoveIntoFuture(places, holder, j) \ dropped)
       \/ j = Bottom /\ Entered(c, holder, places)

-----------------------------------------------------------------------------
\* The caller polls poll_ready, which every layer forwards to the limited
\* service: it holds a permit already, or waits for one.
PollReady(c) ==
  /\ pc[c] = "idle"
  /\ IF Own \in held[c]
     THEN pc' = Set(pc, c, "ready") /\ UNCHANGED queue
     ELSE pc' = Set(pc, c, "waiting") /\ queue' = Append(queue, c)
  /\ UNCHANGED <<stack, permits, at, held, redirect, hops>>

\* The first in the queue is given a permit.
Acquire(c) ==
  /\ queue # <<>> /\ c = Head(queue)
  /\ Used < permits
  /\ queue' = Tail(queue)
  /\ \/ /\ pc[c] = "waiting"
        /\ pc' = Set(pc, c, "ready")
        /\ held' = Set(held, c, held[c] \cup {Own})
     \/ /\ pc[c] = "hop_waiting"
        /\ pc' = Set(pc, c, "hop_ready")
        /\ held' = Set(held, c, held[c] \cup {Oneshot})
  /\ UNCHANGED <<stack, permits, at, redirect, hops>>

Call(c) ==
  /\ pc[c] = "ready"
  /\ Descend(c, 1, Own, IF c \in Keepers THEN {} ELSE {Own})
  /\ hops' = Set(hops, c, 0)
  /\ UNCHANGED <<stack, permits, queue>>

\* AsyncRequireAuthorization's future: the request is authorized, and the
\* service that was moved into the future is called.
Authorized(c) ==
  /\ pc[c] = "authorizing"
  /\ Descend(c, at[c] + 1, at[c], {})
  /\ UNCHANGED <<stack, permits, queue, hops>>

\* The authorizer answers itself, with any response.
Rejected(c) ==
  /\ pc[c] = "authorizing"
  /\ pc' = Set(pc, c, "answered")
  /\ \E r \in BOOLEAN : redirect' = Set(redirect, c, r)
  /\ UNCHANGED <<stack, permits, at, held, queue, hops>>

\* ServeDir's future has a file, a redirection or an error to answer with.
Served(c) ==
  /\ pc[c] = "serving"
  /\ pc' = Set(pc, c, "answered")
  /\ \E r \in BOOLEAN : redirect' = Set(redirect, c, r)
  /\ UNCHANGED <<stack, permits, at, held, queue, hops>>

\* There is no file: the fallback is taken out of the future, called, and
\* dropped.
Fallback(c) ==
  /\ pc[c] = "serving"
  /\ Descend(c, at[c] + 1, at[c], {at[c]})
  /\ UNCHANGED <<stack, permits, queue, hops>>

\* The limited service responds or fails; its future is still there.
Responds(c) ==
  /\ pc[c] = "running"
  /\ pc' = Set(pc, c, "answered")
  /\ \E r \in BOOLEAN : redirect' = Set(redirect, c, r)
  /\ UNCHANGED <<stack, permits, at, held, queue, hops>>

\* A redirection reaches FollowRedirect and the policy follows it.
Follows(c) ==
  /\ pc[c] = "answered" /\ redirect[c]
  /\ 0 < FollowAt /\ FollowAt < at[c]
  /\ hops[c] < MaxHops

\* Mutant: the answered future lives until the next one has answered.
Redirected_KeepsFuture(c) ==
  /\ Follows(c)
  /\ pc' = Set(pc, c, "hopping")
  /\ hops' = Set(hops, c, hops[c] + 1)
  /\ UNCHANGED <<stack, permits, at, held, queue, redirect>>

\* FollowRedirect::poll replaces the inner future, which drops it and all
\* that it holds, by a Oneshot of a clone, and wakes itself.
Redirected(c) ==
  /\ Follows(c)
  /\ pc' = Set(pc, c, "hopping")
  /\ held' = Set(held, c, held[c] \cap {Own, FollowAt})
  /\ hops' = Set(hops, c, hops[c] + 1)
  /\ UNCHANGED <<stack, permits, at, queue, redirect>>

\* Mutant: the new Oneshot is never polled.
HopPollReady_Unpolled(c) ==
  /\ pc[c] = "hopping"
  /\ pc' = Set(pc, c, "hop_waiting")
  /\ UNCHANGED <<stack, permits, at, held, queue, redirect, hops>>

\* The next poll of the Oneshot polls the clone's readiness.
HopPollReady(c) ==
  /\ pc[c] = "hopping"
  /\ pc' = Set(pc, c, "hop_waiting")
  /\ queue' = Append(queue, c)
  /\ UNCHANGED <<stack, permits, at, held, redirect, hops>>

\* The Oneshot calls its service and drops it.
HopCall(c) ==
  /\ pc[c] = "hop_ready"
  /\ Descend(c, FollowAt + 1, Oneshot, {Oneshot})
  /\ UNCHANGED <<stack, permits, queue, hops>>

\* The caller has the answer and drops the future.
Finish(c) ==
  /\ pc[c] = "answered" /\ ~ Follows(c)
  /\ pc' = Set(pc, c, "idle")
  /\ held' = Set(held, c, held[c] \cap {Own})
  /\ UNCHANGED <<stack, permits, at, queue, redirect, hops>>

InFlight(c) ==
  pc[c] \in {"authorizing", "serving", "running", "answered", "hopping",
             "hop_waiting", "hop_ready"}

\* The caller drops the future before it resolves.
Cancel(c) ==
  /\ InFlight(c)
  /\ pc' = Set(pc, c, "idle")
  /\ held' = Set(held, c, held[c] \cap {Own})
  /\ queue' = SelectSeq(queue, LAMBDA d : d # c)
  /\ UNCHANGED <<stack, permits, at, redirect, hops>>

Step(c) ==
  \/ Acquire(c) \/ Call(c)
  \/ Authorized(c) \/ Rejected(c) \/ Served(c) \/ Fallback(c)
  \/ Responds(c) \/ Redirected(c) \/ HopPollReady(c) \/ HopCall(c) \/ Finish(c)

Next == \E c \in Callers : PollReady(c) \/ Step(c) \/ Cancel(c)

(* A task that can go on does: the semaphore serves its queue, a caller    *)
(* that was told the service is ready calls it, and the authorizer, the    *)
(* files and the limited service answer.  Nobody owes a request.           *)
Fairness == \A c \in Callers : WF_vars(Step(c))

Spec == Init /\ [][Next]_vars /\ Fairness

-----------------------------------------------------------------------------
TypeOK ==
  /\ stack \in Stacks
  /\ permits \in 1..MaxPermits
  /\ pc \in [Callers -> States]
  /\ at \in [Callers -> 0..Bottom]
  /\ held \in [Callers -> SUBSET Places]
  /\ queue \in Seq(Callers)
  /\ redirect \in [Callers -> BOOLEAN]
  /\ hops \in [Callers -> 0..MaxHops]

(* Whatever the stack, the limited service is only called through a clone  *)
(* that was made ready: the one that poll_ready made ready is moved along, *)
(* never left behind in exchange for a fresh clone.                        *)
OnlyReadyIsCalled == \A c \in Callers : pc[c] # "panicked"

\* The outermost layers up to a gate, with nothing outside it that moves
\* the service into its future.
ExposedGate ==
  \E i \in 1..Len(stack) :
    /\ stack[i] \in {"gate", "serve"}
    /\ \A k \in 1..(i - 1) : stack[k] \in {"gate", "serve"}

\* A gate that FollowRedirect reaches in call, with nothing in between that
\* moves the service into its future.
GateBelow ==
  /\ 0 < FollowAt
  /\ \E j \in (FollowAt + 1)..Len(stack) :
       /\ stack[j] = "gate"
       /\ \A k \in (FollowAt + 1)..(j - 1) : stack[k] \in {"gate", "serve"}

\* What the first request of a chain may have left: a gate answered it with
\* a redirection, and the permit of the service that FollowRedirect had made
\* ready is in its future's service field, which is only cloned from then on.
Leftover(c) ==
  IF InFlight(c) /\ hops[c] > 0 /\ GateBelow THEN {FollowAt} ELSE {}

(* A permit serves one request: no caller holds two, and none waits for    *)
(* one with another in hand, whether it waits in poll_ready or inside      *)
(* FollowRedirect for the next request of a chain.  The exception is a     *)
(* redirection that was answered by a gate in call: its unused permit      *)
(* stays with the future to the end of the chain, but at no other place    *)
(* and for no other reason.  A caller without a request holds none, unless *)
(* it keeps its service and a gate refused its last request in call: that  *)
(* permit stays reserved until the next request.                           *)
PermitsServeRequests ==
  \A c \in Callers :
    /\ Cardinality(held[c] \ Leftover(c)) <= 1
    /\ pc[c] \in {"waiting", "hopping", "hop_waiting"} => held[c] \subseteq Leftover(c)
    /\ pc[c] = "idle" /\ held[c] # {} => c \in Keepers /\ held[c] = {Own} /\ ExposedGate

\* All permits are with services that nobody will call: those of callers who
\* have no request, and the leftovers of callers who wait for another one.
Stranded ==
  permits = Cardinality({c \in Callers :
              \/ pc[c] = "idle" /\ Own \in held[c]
              \/ pc[c] = "hop_waiting" /\ Leftover(c) # {} /\ held[c] = Leftover(c)})

(* Every request is answered and every wait ends, unless permits left with *)
(* idle services, or by gates that answer with redirections, have used up  *)
(* the limit: then nobody comes on before a caller gives up.               *)
CallsEnd == \A c \in Callers : pc[c] # "idle" ~> (pc[c] = "idle" \/ Stranded)
=============================================================================
