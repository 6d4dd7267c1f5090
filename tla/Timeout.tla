------------------------------ MODULE Timeout ------------------------------
(***************************************************************************)
(* The three timers of timeout/, stacked as the documentation suggests:    *)
(* ResponseBodyDeadline around ResponseBodyTimeout around Timeout around a *)
(* service.  One task polls the future, then the body.  A tokio Sleep is   *)
(* the number of ticks it has left; it wakes the task when it reaches 0    *)
(* only if it was polled (`armed`), and so does the inner future or body.  *)
(* Time is relative, so it is not bounded.                                 *)
(***************************************************************************)
EXTENDS Naturals

CONSTANTS
  CallTimeout,  \* Timeout: from call to response
  IdleTimeout,  \* TimeoutBody: from the request for a frame to the frame
  Deadline      \* DeadlineBody: from the response to the last frame

ASSUME TimeoutAssumption ==
  CallTimeout \in Nat /\ IdleTimeout \in Nat /\ Deadline \in Nat

VARIABLES
  phase,     \* "future", "body", "failed" (the service failed), "dropped"
  inner,     \* what the inner future or body has ready: "nothing", ...
  call,      \* ResponseFuture::sleep, ticks left
  idle,      \* TimeoutBody::sleep, ticks left, or NoSleep
  deadline,  \* DeadlineBody::sleep, ticks left
  armed,     \* who holds the task's waker
  woken,     \* the waker was called since the last poll
  waiting,   \* the last poll was Pending
  waited,    \* history: ticks since this frame was first asked for, capped
  age,       \* history: ticks since the call or the response, capped
  last       \* history: what the last Ready poll returned, and when

timeoutVars ==
  <<phase, inner, call, idle, deadline, armed, woken, waiting, waited, age, last>>

NoSleep == IdleTimeout + 1
Sleeps  == {"call", "idle", "deadline"}
\* A body gives frames, then its end or an error.
Items   == {"frame", "end", "error"}
TimedOut == {"idle_timeout", "deadline_timeout"}
Answers == Items \cup TimedOut
             \cup {"none", "response", "timeout_response", "failed"}
AgeCap  == CallTimeout + Deadline

Countdown(n) == IF n = 0 THEN 0 ELSE n - 1

\* Timeout::call starts the sleep at once; the future has not been polled.
TimeoutInit ==
  /\ phase = "future"
  /\ inner = "nothing"
  /\ call = CallTimeout
  /\ idle = NoSleep
  /\ deadline = Deadline
  /\ armed = {}
  /\ woken = TRUE
  /\ waiting = FALSE
  /\ waited = 0
  /\ age = 0
  /\ last = [what |-> "none", waited |-> 0, age |-> 0]

Live == phase \in {"future", "body"}

\* The sleeps that exist, and of those the ones with no time left.
Running == {s \in Sleeps : \/ s = "call" /\ phase = "future"
                           \/ s = "idle" /\ phase = "body" /\ idle # NoSleep
                           \/ s = "deadline" /\ phase = "body"}
Left(s) == CASE s = "call" -> call [] s = "idle" -> idle [] s = "deadline" -> deadline

\* The clock advances; a sleep that was polled wakes the task as it elapses.
Tick ==
  LET due == {s \in Running \cap armed : Left(s) = 1}
  IN
  /\ Live
  /\ call' = IF phase = "future" THEN Countdown(call) ELSE call
  /\ idle' = IF "idle" \in Running THEN Countdown(idle) ELSE idle
  /\ deadline' = IF phase = "body" THEN Countdown(deadline) ELSE deadline
  /\ waited' = IF waiting /\ waited < IdleTimeout THEN waited + 1 ELSE waited
  /\ age' = IF age < AgeCap THEN age + 1 ELSE age
  /\ woken' = (woken \/ due # {})
  /\ armed' = armed \ due
  /\ UNCHANGED <<phase, inner, waiting, last>>

\* The inner future or body becomes ready and wakes the task if it was polled.
InnerReady(item) ==
  /\ Live /\ inner = "nothing"
  /\ item \in (IF phase = "future" THEN {"response", "failed"} ELSE Items)
  /\ inner' = item
  /\ woken' = (woken \/ "inner" \in armed)
  /\ armed' = armed \ {"inner"}
  /\ UNCHANGED <<phase, call, idle, deadline, waiting, waited, age, last>>

-----------------------------------------------------------------------------
\* The poll in progress returns Ready(what).
Returns(what) == last' = [what |-> what, waited |-> waited, age |-> age]

(* ResponseFuture::poll of Timeout, and the two body layers' futures that  *)
(* wrap the body of the response it resolves to.                           *)

\* TimeoutBody::new (no sleep yet) in DeadlineBody::new (sleep starts).
BodyStarts ==
  /\ phase' = "body"
  /\ idle' = NoSleep
  /\ deadline' = Deadline
  /\ armed' = {}
  /\ woken' = TRUE
  /\ waiting' = FALSE
  /\ waited' = 0
  /\ age' = 0
  /\ UNCHANGED call

\* sleep elapsed: an empty response with the configured status.
CallTimedOut ==
  /\ phase = "future" /\ call = 0
  /\ BodyStarts
  /\ inner' = "end"
  /\ Returns("timeout_response")

CallResponds ==
  /\ phase = "future" /\ call > 0 /\ inner = "response"
  /\ BodyStarts
  /\ inner' = "nothing"
  /\ Returns("response")

CallFails ==
  /\ phase = "future" /\ call > 0 /\ inner = "failed"
  /\ phase' = "failed"
  /\ Returns("failed")
  /\ waiting' = FALSE
  /\ UNCHANGED <<inner, call, idle, deadline, armed, woken, waited, age>>

\* Both the sleep and the inner future were polled.
FuturePending_SleepUnpolled ==  \* Mutant: the inner future is polled first
  /\ phase = "future" /\ call > 0 /\ inner = "nothing"
  /\ armed' = {"inner"}
  /\ woken' = FALSE
  /\ waiting' = TRUE
  /\ UNCHANGED <<phase, inner, call, idle, deadline, waited, age, last>>
FuturePending ==
  /\ phase = "future" /\ call > 0 /\ inner = "nothing"
  /\ armed' = {"call", "inner"}
  /\ woken' = FALSE
  /\ waiting' = TRUE
  /\ UNCHANGED <<phase, inner, call, idle, deadline, waited, age, last>>

PollFuture == CallTimedOut \/ CallResponds \/ CallFails \/ FuturePending

-----------------------------------------------------------------------------
(* DeadlineBody::poll_frame around TimeoutBody::poll_frame.                *)

\* TimeoutBody starts its sleep on the first poll for a frame.
IdleLeft == IF idle = NoSleep THEN IdleTimeout ELSE idle

\* Return a Ready result; `sleep` is what the idle sleep becomes.
Yields_Restart(result, sleep) ==  \* Mutant: the deadline restarts with a frame
  /\ Returns(result)
  /\ idle' = sleep
  /\ deadline' = IF result \in TimedOut THEN deadline ELSE Deadline
  /\ armed' = {}
  /\ woken' = TRUE
  /\ waiting' = FALSE
  /\ waited' = IF result \in TimedOut THEN waited ELSE 0
  /\ UNCHANGED <<phase, call, age>>
Yields(result, sleep) ==
  /\ Returns(result)
  /\ idle' = sleep
  /\ armed' = {}
  /\ woken' = TRUE
  /\ waiting' = FALSE
  /\ waited' = IF result \in TimedOut THEN waited ELSE 0
  /\ UNCHANGED <<phase, call, deadline, age>>

DeadlineElapsed ==
  /\ phase = "body" /\ deadline = 0
  /\ Yields("deadline_timeout", idle)
  /\ UNCHANGED inner

IdleElapsed_Reset ==  \* Mutant: the sleep is replaced after a timeout too
  /\ phase = "body" /\ deadline > 0 /\ IdleLeft = 0
  /\ Yields("idle_timeout", NoSleep)
  /\ UNCHANGED inner
IdleElapsed ==
  /\ phase = "body" /\ deadline > 0 /\ IdleLeft = 0
  /\ Yields("idle_timeout", IdleLeft)
  /\ UNCHANGED inner

\* this.sleep.set(None): the next frame has the whole time again.
FrameYielded_Kept ==  \* Mutant: the sleep goes on
  /\ phase = "body" /\ deadline > 0 /\ IdleLeft > 0 /\ inner # "nothing"
  /\ Yields(inner, IdleLeft)
  /\ inner' = IF inner = "frame" THEN "nothing" ELSE "end"
FrameYielded ==
  /\ phase = "body" /\ deadline > 0 /\ IdleLeft > 0 /\ inner # "nothing"
  /\ Yields(inner, NoSleep)
  /\ inner' = IF inner = "frame" THEN "nothing" ELSE "end"

BodyPending ==
  /\ phase = "body" /\ deadline > 0 /\ IdleLeft > 0 /\ inner = "nothing"
  /\ idle' = IdleLeft
  /\ armed' = {"deadline", "idle", "inner"}
  /\ woken' = FALSE
  /\ waiting' = TRUE
  /\ UNCHANGED <<phase, inner, call, deadline, waited, age, last>>

PollBody == DeadlineElapsed \/ IdleElapsed \/ FrameYielded \/ BodyPending

\* The task may be polled without a wake-up; it is polled after one.
Poll == PollFuture \/ PollBody

Drop ==
  /\ Live
  /\ phase' = "dropped"
  /\ waiting' = FALSE
  /\ UNCHANGED <<inner, call, idle, deadline, armed, woken, waited, age, last>>

Over == ~ Live /\ UNCHANGED timeoutVars

TimeoutNext ==
  \/ Tick
  \/ \E item \in Items \cup {"response", "failed"} : InnerReady(item)
  \/ Poll
  \/ Drop
  \/ Over

\* Time passes, and the executor polls a task that is waiting and was woken.
TimeoutFairness == WF_timeoutVars(Tick) /\ WF_timeoutVars(Poll /\ waiting /\ woken)

TimeoutSpec == TimeoutInit /\ [][TimeoutNext]_timeoutVars /\ TimeoutFairness

-----------------------------------------------------------------------------
TimeoutTypeOK ==
  /\ phase \in {"future", "body", "failed", "dropped"}
  /\ inner \in {"nothing", "response", "failed"} \cup Items
  /\ call \in 0..CallTimeout
  /\ idle \in 0..NoSleep
  /\ deadline \in 0..Deadline
  /\ armed \subseteq Sleeps \cup {"inner"}
  /\ woken \in BOOLEAN
  /\ waiting \in BOOLEAN
  /\ waited \in 0..IdleTimeout
  /\ age \in 0..AgeCap
  /\ last \in [what : Answers, waited : 0..IdleTimeout, age : 0..AgeCap]

(* The idle timeout is never early: TimeoutBody fails only after the caller*)
(* has waited IdleTimeout for the frame it is waiting for, however long    *)
(* the frames before it took and however late the caller polls; nor is     *)
(* the deadline, nor the response Timeout gives in the service's place.    *)
NeverEarly ==
  /\ last.what = "idle_timeout" => last.waited = IdleTimeout
  /\ last.what = "deadline_timeout" => last.age >= Deadline
  /\ last.what = "timeout_response" => last.age >= CallTimeout

\* What has been delivered was in time.
InTime ==
  /\ last.what \in {"response", "failed"} => last.age < CallTimeout
  /\ last.what \in Items => last.age < Deadline /\ last.waited < IdleTimeout

(* Nothing is delivered late: a response only while the call's time lasts, *)
(* a frame only before the deadline and within the idle time.  Once a body *)
(* has timed out it yields nothing but timeouts: a frame that is ready     *)
(* after all is not delivered behind the error.                            *)
NeverLate ==
  [][/\ InTime'
     /\ last.what \in TimedOut => last'.what \in TimedOut]_timeoutVars

(* A caller that waits is answered, even if the service or its body never  *)
(* makes progress: every Pending poll left a sleep armed.                  *)
WaitEnds == waiting ~> ~ waiting
=============================================================================
