-------------------------- MODULE ReadinessProofs ---------------------------
(***************************************************************************)
(* The safety properties of Readiness for any number of callers and        *)
(* permits and for every stack, and, in the second part, those of the      *)
(* timers of Timeout for all durations.                                    *)
(***************************************************************************)
EXTENDS Readiness, Timeout, FiniteSetTheorems, TLAPS

(* The part of TypeOK that the proof needs: all but the queue, and of the  *)
(* number of redirections only that it is one.                             *)
Shape ==
  /\ stack \in Stacks
  /\ pc \in [Callers -> States]
  /\ at \in [Callers -> 0..Bottom]
  /\ held \in [Callers -> SUBSET Places]
  /\ redirect \in [Callers -> BOOLEAN]
  /\ hops \in [Callers -> Nat]

\* A permit may stay with the caller's own service.
MayKeep(c) == c \in Keepers /\ ExposedGate

\* The permits of a caller that are there for the request it makes.
Rest(c) == held[c] \ Leftover(c)

(* Where the permit of caller c is, in every state of its request.         *)
Accounted(c) ==
  /\ pc[c] # "panicked"
  /\ pc[c] = "idle" => held[c] = {} \/ (held[c] = {Own} /\ MayKeep(c))
  /\ pc[c] \in {"waiting", "hopping", "hop_waiting"} => Rest(c) = {}
  /\ pc[c] = "ready" => held[c] = {Own}
  /\ pc[c] \in {"authorizing", "serving"} =>
       Rest(c) = {at[c]} /\ at[c] \in 1..Len(stack) /\ at[c] # FollowAt
  /\ pc[c] = "running" => Rest(c) = {Bottom} /\ at[c] = Bottom
  /\ pc[c] = "hop_ready" => Rest(c) = {Oneshot}
  /\ pc[c] = "answered" =>
       /\ \E p \in Places : Rest(c) \subseteq {p}
       /\ Own \in held[c] => MayKeep(c) /\ ~ (0 < FollowAt /\ FollowAt < at[c])
       /\ redirect[c] /\ 0 < FollowAt /\ FollowAt \in Rest(c) => GateBelow

(* A chain of redirections is that of FollowRedirect, and what goes on in  *)
(* it goes on below FollowRedirect.                                        *)
BelowFollow(c) ==
  InFlight(c) /\ hops[c] > 0 =>
    /\ 0 < FollowAt
    /\ pc[c] \in {"authorizing", "serving", "running", "answered"} => FollowAt < at[c]

AllAccounted == \A c \in Callers : Accounted(c) /\ BelowFollow(c)

IInv == Shape /\ AllAccounted

\* Nothing of another caller changes.
OthersStay(c) ==
  \A d \in Callers \ {c} :
    /\ pc'[d] = pc[d] /\ at'[d] = at[d] /\ held'[d] = held[d]
    /\ redirect'[d] = redirect[d] /\ hops'[d] = hops[d]

-----------------------------------------------------------------------------
(* The stack has a length, and FollowAt is the place of its only           *)
(* FollowRedirect layer or 0.                                              *)
LEMMA StackFacts ==
  ASSUME stack \in Stacks
  PROVE  /\ stack \in Seq(Kinds) /\ Len(stack) \in Nat /\ Bottom \in Nat
         /\ Bottom = Len(stack) + 1
         /\ FollowAt \in 0..Len(stack)
         /\ FollowAt # 0 => stack[FollowAt] = "follow"
         /\ \A i \in 1..Len(stack) : stack[i] = "follow" => FollowAt = i
<1>1. stack \in Seq(Kinds) /\ Len(stack) \in Nat /\ Bottom \in Nat
  BY StacksAssumption DEF Bottom
<1>2. CASE \E i \in 1..Len(stack) : stack[i] = "follow"
  <2>1. FollowAt = CHOOSE i \in 1..Len(stack) : stack[i] = "follow"
    BY <1>2 DEF FollowAt
  <2>2. FollowAt \in 1..Len(stack) /\ stack[FollowAt] = "follow"
    BY <1>2, <2>1
  <2> QED BY <1>1, <2>2, StacksAssumption DEF Bottom
<1>3. CASE ~ \E i \in 1..Len(stack) : stack[i] = "follow"
  <2>1. FollowAt = 0
    BY <1>3 DEF FollowAt
  <2> QED BY <1>1, <1>3, <2>1 DEF Bottom
<1> QED BY <1>2, <1>3

(* What depends on the stack alone stays with the stack.                   *)
LEMMA StackStays ==
  ASSUME stack' = stack
  PROVE  /\ Bottom' = Bottom /\ Places' = Places /\ FollowAt' = FollowAt
         /\ GateBelow' = GateBelow /\ ExposedGate' = ExposedGate
         /\ \A c \in Callers : MayKeep(c)' = MayKeep(c)
<1>1. FollowAt' = FollowAt
  BY DEF FollowAt
<1> QED BY <1>1 DEF Bottom, Places, GateBelow, ExposedGate, MayKeep

(* A leftover is in the field of FollowRedirect's future.                  *)
LEMMA LeftoverPlace ==
  ASSUME NEW c \in Callers
  PROVE  Leftover(c) \subseteq {FollowAt} /\ (Leftover(c) # {} => 0 < FollowAt)
BY DEF Leftover, GateBelow

(* A caller whose permit is accounted for keeps it so while others step.   *)
LEMMA OthersAccounted ==
  ASSUME NEW c \in Callers, NEW d \in Callers \ {c}, Accounted(d), BelowFollow(d),
         OthersStay(c), stack' = stack
  PROVE  Accounted(d)' /\ BelowFollow(d)'
<1>1. /\ pc'[d] = pc[d] /\ at'[d] = at[d] /\ held'[d] = held[d]
      /\ redirect'[d] = redirect[d] /\ hops'[d] = hops[d]
  BY DEF OthersStay
<1>2. /\ Bottom' = Bottom /\ Places' = Places /\ (MayKeep(d))' = MayKeep(d)
      /\ FollowAt' = FollowAt /\ GateBelow' = GateBelow
  BY StackStays
<1>3. InFlight(d)' = InFlight(d)
  BY <1>1 DEF InFlight
<1>4. Rest(d)' = Rest(d)
  BY <1>1, <1>2, <1>3 DEF Rest, Leftover
<1>5. Accounted(d)'
  BY <1>1, <1>2, <1>4 DEF Accounted
<1> QED BY <1>1, <1>2, <1>3, <1>5 DEF BelowFollow

(* Whatever layer a call comes to rest in, the permit of the service that  *)
(* was called is accounted for afterwards, and a leftover of the chain is  *)
(* still the only other one.                                               *)
LEMMA DescendAccounted ==
  ASSUME Shape, NEW c \in Callers, NEW i \in 1..Bottom, NEW place \in Places,
         NEW dropped \in SUBSET {place}, NEW left \in SUBSET {FollowAt},
         held[c] = {place} \cup left, place \notin left, place < i,
         place = Own => i = 1 /\ (dropped = {} => c \in Keepers),
         0 < FollowAt => place # FollowAt,
         Descend(c, i, place, dropped), stack' = stack,
         hops' \in [Callers -> Nat], \A d \in Callers \ {c} : hops'[d] = hops[d],
         hops'[c] > 0 => 0 < FollowAt /\ FollowAt < i,
         left # {} => hops'[c] > 0 /\ GateBelow
  PROVE  Shape' /\ Accounted(c)' /\ BelowFollow(c)' /\ OthersStay(c)
<1>1. /\ stack \in Seq(Kinds) /\ Len(stack) \in Nat /\ Bottom \in Nat
      /\ Bottom = Len(stack) + 1
      /\ FollowAt \in 0..Len(stack)
      /\ FollowAt # 0 => stack[FollowAt] = "follow"
      /\ \A k \in 1..Len(stack) : stack[k] = "follow" => FollowAt = k
  BY StackFacts DEF Shape
<1>2. /\ Bottom' = Bottom /\ Places' = Places /\ MayKeep(c)' = MayKeep(c)
      /\ FollowAt' = FollowAt /\ GateBelow' = GateBelow
  BY StackStays
<1>3. PICK j \in Rests(i) :
        LET holder == Holder(place, i, j)
            places == Moved(held[c], place, holder)
        IN \/ Refused(c, j, places \ dropped)
           \/ Suspended(c, j, MoveIntoFuture(places, holder, j) \ dropped)
           \/ j = Bottom /\ Entered(c, holder, places)
  BY DEF Descend
<1> DEFINE holder == Holder(place, i, j)
           places == Moved(held[c], place, holder)
<1>4. /\ j \in i..Bottom /\ j \in 1..Bottom /\ j # place
      /\ \A k \in i..(j - 1) : Forwards(k)
  BY <1>1 DEF Rests, Places, Own, Oneshot
<1>5. holder \in Places /\ (holder = Own => place = Own) /\ holder < j
  BY <1>1, <1>4 DEF Holder, Places, Own, Oneshot, Bottom
<1>6. left # {} => holder = place /\ left = {FollowAt} /\ 0 < FollowAt /\ FollowAt < i
  BY <1>1, <1>4 DEF Holder
<1>7. places = {holder} \cup left /\ holder \notin left
  BY <1>6 DEF Moved
<1>8. j \in Places /\ Bottom \in Places /\ left \subseteq Places
  BY <1>1, <1>4, <1>6 DEF Places
<1>9. ASSUME NEW own \in SUBSET Places, held'[c] = own \cup left,
             own \subseteq {holder} \/ own \subseteq {j}, InFlight(c)', at'[c] = j
      PROVE  Rest(c)' = own /\ BelowFollow(c)'
  <2>1. Leftover(c)' = IF hops'[c] > 0 /\ GateBelow THEN {FollowAt} ELSE {}
    BY <1>9, <1>2 DEF Leftover
  <2>2. ASSUME hops'[c] > 0 PROVE FollowAt \notin own
    <3>1. FollowAt < i /\ 0 < FollowAt /\ place # FollowAt /\ FollowAt # j
      BY <2>2, <1>1, <1>4
    <3>2. holder = place
      BY <3>1, <1>1, <1>4 DEF Holder
    <3> QED BY <3>1, <3>2, <1>9
  <2>3. own \cap left = {}
    BY <1>9, <1>6, <2>2
  <2>4. left \subseteq Leftover(c)'
    BY <2>1
  <2>5. own \cap Leftover(c)' = {}
    BY <2>1, <2>2
  <2>6. BelowFollow(c)'
    BY <1>9, <1>1, <1>2, <1>4 DEF BelowFollow
  <2> QED BY <1>9, <2>4, <2>5, <2>6 DEF Rest
<1>10. CASE Refused(c, j, places \ dropped)
  <2>1. /\ pc' = [pc EXCEPT ![c] = "answered"] /\ at' = [at EXCEPT ![c] = j]
        /\ \/ Kind(j) = "gate" /\ \E r \in BOOLEAN : redirect' = [redirect EXCEPT ![c] = r]
           \/ Kind(j) = "serve" /\ redirect' = [redirect EXCEPT ![c] = FALSE]
        /\ held' = [held EXCEPT ![c] = places \ dropped]
    BY <1>10 DEF Refused, Set
  <2> DEFINE own == {holder} \ dropped
  <2>2. places \ dropped = own \cup left
    BY <1>7
  <2>3. /\ pc'[c] = "answered" /\ at'[c] = j /\ held'[c] = own \cup left
        /\ redirect'[c] => Kind(j) = "gate"
    BY <2>1, <2>2 DEF Shape
  <2>4. own \in SUBSET Places /\ own \subseteq {holder} /\ InFlight(c)'
    BY <1>5, <2>3 DEF InFlight
  <2>5. Rest(c)' = own /\ BelowFollow(c)'
    BY <2>3, <2>4, <1>9
  <2>6. Shape'
    <3>1. held' \in [Callers -> SUBSET Places]
      BY <2>1, <2>2, <2>4, <1>8 DEF Shape
    <3>2. redirect' \in [Callers -> BOOLEAN]
      BY <2>1 DEF Shape
    <3>3. pc' \in [Callers -> States] /\ at' \in [Callers -> 0..Bottom]
      BY <2>1, <1>4 DEF Shape, States
    <3> HIDE DEF places
    <3> QED BY <3>1, <3>2, <3>3, <1>2 DEF Shape
  <2>7. OthersStay(c)
    BY <2>1 DEF Shape, OthersStay
  <2>8. j \in 1..Len(stack) /\ stack[j] \in {"gate", "serve"}
    BY <2>1, <1>1, <1>4 DEF Kind
  <2>9. ASSUME NEW k \in i..(j - 1), k # FollowAt PROVE stack[k] \in {"gate", "serve"}
    <3>1. Forwards(k) /\ k \in 1..Len(stack) /\ k # Bottom
      BY <2>8, <1>1, <1>4
    <3>2. stack[k] \in {"gate", "follow", "serve"} /\ stack[k] # "follow"
      BY <2>9, <3>1, <1>1 DEF Forwards, Kind
    <3> QED BY <3>2
  <2>10. ASSUME Own \in held'[c] PROVE MayKeep(c) /\ ~ (0 < FollowAt /\ FollowAt < j)
    <3>1. holder = Own /\ place = Own /\ i = 1 /\ dropped = {} /\ c \in Keepers
      BY <2>3, <2>10, <1>5, <1>6 DEF Own
    <3>2. FollowAt \notin 1..(j - 1)
      BY <3>1, <1>1 DEF Holder, Own
    <3>3. \A k \in 1..(j - 1) : stack[k] \in {"gate", "serve"}
      BY <2>9, <3>1, <3>2
    <3>4. MayKeep(c)
      BY <2>8, <3>1, <3>3 DEF MayKeep, ExposedGate
    <3> QED BY <3>2, <3>4, <1>1, <1>4
  <2>11. ASSUME redirect'[c], 0 < FollowAt, FollowAt \in own PROVE GateBelow
    <3>1. FollowAt = holder /\ FollowAt \in i..(j - 1)
      BY <2>11 DEF Holder
    <3>2. j \in (FollowAt + 1)..Len(stack) /\ stack[j] = "gate"
      BY <2>3, <2>8, <2>11, <3>1, <1>1 DEF Kind
    <3>3. \A k \in (FollowAt + 1)..(j - 1) : stack[k] \in {"gate", "serve"}
      BY <2>9, <3>1, <1>1, <1>4
    <3> QED BY <2>11, <3>2, <3>3 DEF GateBelow
  <2>12. Accounted(c)'
    BY <2>3, <2>4, <2>5, <2>10, <2>11, <1>2, <1>5 DEF Accounted
  <2> QED BY <2>5, <2>6, <2>7, <2>12
<1>11. CASE Suspended(c, j, MoveIntoFuture(places, holder, j) \ dropped)
  <2>1. MoveIntoFuture(places, holder, j) \ dropped = {j} \cup left
    BY <1>4, <1>7 DEF MoveIntoFuture, Moved
  <2>2. /\ at' = [at EXCEPT ![c] = j] /\ held' = [held EXCEPT ![c] = {j} \cup left]
        /\ redirect' = redirect
        /\ \/ Kind(j) = "auth" /\ pc' = [pc EXCEPT ![c] = "authorizing"]
           \/ Kind(j) = "serve" /\ pc' = [pc EXCEPT ![c] = "serving"]
    BY <2>1, <1>11 DEF Suspended, Set
  <2>3. j \in 1..Len(stack) /\ j # FollowAt
    BY <2>2, <1>1, <1>4 DEF Kind
  <2>4. /\ pc'[c] \in {"authorizing", "serving"} /\ at'[c] = j
        /\ held'[c] = {j} \cup left
    BY <2>2 DEF Shape
  <2>5. InFlight(c)'
    BY <2>4 DEF InFlight
  <2>6. Rest(c)' = {j} /\ BelowFollow(c)'
    <3>1. {j} \in SUBSET Places /\ {j} \subseteq {j}
      BY <1>8
    <3> HIDE DEF holder, places
    <3> QED BY <2>4, <2>5, <3>1, <1>9
  <2>7. Shape'
    BY <2>2, <1>2, <1>4, <1>8 DEF Shape, States
  <2>8. OthersStay(c)
    BY <2>2 DEF Shape, OthersStay
  <2>9. Accounted(c)'
    BY <2>3, <2>4, <2>6, <1>2 DEF Accounted
  <2> QED BY <2>6, <2>7, <2>8, <2>9
<1>12. CASE j = Bottom /\ Entered(c, holder, places)
  <2>1. Moved(places, holder, Bottom) = {Bottom} \cup left /\ holder \in places
    BY <1>7 DEF Moved
  <2>2. /\ pc' = [pc EXCEPT ![c] = "running"] /\ at' = [at EXCEPT ![c] = Bottom]
        /\ held' = [held EXCEPT ![c] = {Bottom} \cup left] /\ redirect' = redirect
    BY <2>1, <1>12 DEF Entered, Set
  <2>3. pc'[c] = "running" /\ at'[c] = Bottom /\ held'[c] = {Bottom} \cup left
    BY <2>2 DEF Shape
  <2>4. InFlight(c)'
    BY <2>3 DEF InFlight
  <2>5. Rest(c)' = {Bottom} /\ BelowFollow(c)'
    <3>1. {Bottom} \in SUBSET Places /\ {Bottom} \subseteq {j} /\ at'[c] = j
      BY <2>3, <1>8, <1>12
    <3> HIDE DEF holder, places
    <3> QED BY <2>3, <2>4, <3>1, <1>9
  <2>6. Shape'
    BY <2>2, <1>2, <1>4, <1>8, <1>12 DEF Shape, States
  <2>7. OthersStay(c)
    BY <2>2 DEF Shape, OthersStay
  <2>8. Accounted(c)'
    BY <2>3, <2>5, <1>2 DEF Accounted
  <2> QED BY <2>5, <2>6, <2>7, <2>8
<1> QED BY <1>3, <1>10, <1>11, <1>12
-----------------------------------------------------------------------------
(* A step of caller c that leaves the stack alone, has the right types and *)
(* accounts for c preserves the invariant.                                 *)
LEMMA StepAccounted ==
  ASSUME IInv, NEW c \in Callers, Shape', Accounted(c)', BelowFollow(c)', OthersStay(c),
         stack' = stack
  PROVE  IInv'
<1>1. ASSUME NEW d \in Callers PROVE Accounted(d)' /\ BelowFollow(d)'
  <2>1. CASE d = c
    BY <2>1
  <2>2. CASE d # c
    BY <2>2, OthersAccounted DEF IInv, AllAccounted
  <2> QED BY <2>1, <2>2
<1> QED BY <1>1 DEF IInv, AllAccounted

(* poll_ready, by the caller and by the Oneshot, and the permit it waits   *)
(* for.                                                                    *)
LEMMA ReadyPreserves ==
  ASSUME IInv, NEW c \in Callers, PollReady(c) \/ Acquire(c) \/ HopPollReady(c)
  PROVE  IInv'
<1> USE DEF Set
<1>1. Shape /\ Accounted(c) /\ BelowFollow(c) /\ stack' = stack /\ hops' = hops
  BY DEF IInv, AllAccounted, PollReady, Acquire, HopPollReady
<1>2. /\ Bottom' = Bottom /\ Places' = Places /\ MayKeep(c)' = MayKeep(c)
      /\ FollowAt' = FollowAt /\ GateBelow' = GateBelow
  BY <1>1, StackStays
<1>3. Own \in Places /\ Oneshot \in Places
  BY DEF Places
<1>4. FollowAt \in 0..Len(stack) /\ Len(stack) \in Nat
  BY <1>1, StackFacts DEF Shape
<1>5. CASE PollReady(c)
  <2>1. Shape' /\ OthersStay(c)
    BY <1>1, <1>2, <1>5 DEF PollReady, Shape, States, OthersStay
  <2>2. /\ held'[c] = held[c] /\ pc[c] = "idle"
        /\ \/ pc'[c] = "ready" /\ Own \in held[c]
           \/ pc'[c] = "waiting" /\ Own \notin held[c]
    BY <1>1, <1>5 DEF PollReady, Shape
  <2>3. Accounted(c)'
    BY <1>1, <2>2 DEF Accounted, Rest
  <2>4. BelowFollow(c)'
    BY <2>2 DEF BelowFollow, InFlight
  <2> QED BY <1>1, <2>1, <2>3, <2>4, StepAccounted
<1>6. CASE Acquire(c)
  <2>1. /\ at' = at /\ redirect' = redirect
        /\ \/ /\ pc[c] = "waiting" /\ pc' = [pc EXCEPT ![c] = "ready"]
              /\ held' = [held EXCEPT ![c] = held[c] \cup {Own}]
           \/ /\ pc[c] = "hop_waiting" /\ pc' = [pc EXCEPT ![c] = "hop_ready"]
              /\ held' = [held EXCEPT ![c] = held[c] \cup {Oneshot}]
    BY <1>6 DEF Acquire
  <2>2. Shape'
    BY <1>1, <1>2, <1>3, <2>1 DEF Shape, States
  <2>3. OthersStay(c)
    BY <1>1, <2>1 DEF Shape, OthersStay
  <2>4. \/ pc[c] = "waiting" /\ pc'[c] = "ready" /\ held'[c] = held[c] \cup {Own}
        \/ pc[c] = "hop_waiting" /\ pc'[c] = "hop_ready" /\ held'[c] = held[c] \cup {Oneshot}
    BY <1>1, <2>1 DEF Shape
  <2>5. CASE pc[c] = "waiting"
    <3>1. Leftover(c) = {}
      BY <2>5 DEF Leftover, InFlight
    <3>2. held'[c] = {Own} /\ pc'[c] = "ready"
      BY <1>1, <2>4, <2>5, <3>1 DEF Accounted, Rest
    <3>3. Accounted(c)' /\ BelowFollow(c)'
      BY <3>2 DEF Accounted, BelowFollow, InFlight
    <3> QED BY <1>1, <2>2, <2>3, <3>3, StepAccounted
  <2>6. CASE pc[c] = "hop_waiting"
    <3>1. pc'[c] = "hop_ready" /\ held'[c] = held[c] \cup {Oneshot}
      BY <2>4, <2>6
    <3>2. Leftover(c)' = Leftover(c)
      BY <1>1, <1>2, <2>6, <3>1 DEF Leftover, InFlight
    <3>3. Oneshot \notin Leftover(c)
      BY <1>4, LeftoverPlace DEF Oneshot
    <3>4. Rest(c)' = {Oneshot}
      BY <1>1, <2>6, <3>1, <3>2, <3>3 DEF Accounted, Rest
    <3>5. Accounted(c)'
      BY <3>1, <3>4 DEF Accounted
    <3>6. BelowFollow(c)'
      BY <1>1, <1>2, <2>6, <3>1 DEF BelowFollow, InFlight
    <3> QED BY <1>1, <2>2, <2>3, <3>5, <3>6, StepAccounted
  <2> QED BY <2>1, <2>5, <2>6
<1>7. CASE HopPollReady(c)
  <2>1. Shape' /\ OthersStay(c)
    BY <1>1, <1>2, <1>7 DEF HopPollReady, Shape, States, OthersStay
  <2>2. /\ pc[c] = "hopping" /\ pc'[c] = "hop_waiting"
        /\ held'[c] = held[c] /\ at'[c] = at[c]
    BY <1>1, <1>7 DEF HopPollReady, Shape
  <2>3. Rest(c)' = Rest(c)
    BY <1>1, <1>2, <2>2 DEF Rest, Leftover, InFlight
  <2>4. Accounted(c)'
    BY <1>1, <2>2, <2>3 DEF Accounted
  <2>5. BelowFollow(c)'
    BY <1>1, <1>2, <2>2 DEF BelowFollow, InFlight
  <2> QED BY <1>1, <2>1, <2>4, <2>5, StepAccounted
<1> QED BY <1>5, <1>6, <1>7

(* A caller that calls a service has its permit there, and at most a       *)
(* leftover besides.                                                       *)
LEMMA HeldForCall ==
  ASSUME NEW c \in Callers, NEW place, Rest(c) = {place}
  PROVE  \E left \in SUBSET {FollowAt} :
           /\ held[c] = {place} \cup left /\ place \notin left
           /\ left # {} => hops[c] > 0 /\ GateBelow
<1> DEFINE left == held[c] \cap Leftover(c)
<1>1. left \in SUBSET {FollowAt} /\ held[c] = {place} \cup left /\ place \notin left
  BY LeftoverPlace DEF Rest
<1>2. left # {} => hops[c] > 0 /\ GateBelow
  BY DEF Leftover
<1> QED BY <1>1, <1>2

(* The steps that call a service: the caller's own, the one in the future  *)
(* of a layer, and the one in the Oneshot.                                 *)
LEMMA CallPreserves ==
  ASSUME IInv, NEW c \in Callers,
         Call(c) \/ Authorized(c) \/ Fallback(c) \/ HopCall(c)
  PROVE  IInv'
<1>1. Shape /\ Accounted(c) /\ BelowFollow(c) /\ stack' = stack
  BY DEF IInv, AllAccounted, Call, Authorized, Fallback, HopCall
<1>2. Len(stack) \in Nat /\ Bottom = Len(stack) + 1 /\ FollowAt \in 0..Len(stack)
  BY <1>1, StackFacts DEF Shape
<1>3. CASE Call(c)
  <2>1. held[c] = {Own} \cup {} /\ Own \in Places /\ 1 \in 1..Bottom /\ Own < 1
    BY <1>1, <1>2, <1>3 DEF Call, Accounted, Places, Own
  <2>2. Descend(c, 1, Own, IF c \in Keepers THEN {} ELSE {Own})
    BY <1>3 DEF Call
  <2>3. /\ hops' \in [Callers -> Nat] /\ hops'[c] = 0
        /\ \A d \in Callers \ {c} : hops'[d] = hops[d]
    BY <1>1, <1>3 DEF Call, Set, Shape
  <2>4. 0 < FollowAt => Own # FollowAt
    BY DEF Own
  <2>5. Shape' /\ Accounted(c)' /\ BelowFollow(c)' /\ OthersStay(c)
    <3>1. ({} \in SUBSET {FollowAt}) /\ Own \notin {} /\ ~ (hops'[c] > 0)
      BY <2>3
    <3> QED BY <1>1, <2>1, <2>2, <2>3, <2>4, <3>1, DescendAccounted
  <2> QED BY <1>1, <2>5, StepAccounted
<1>4. ASSUME NEW place \in Places, NEW i \in 1..Bottom, NEW dropped \in SUBSET {place},
             Rest(c) = {place}, place < i, place # Own, place # FollowAt,
             Descend(c, i, place, dropped), hops' = hops,
             hops[c] > 0 => 0 < FollowAt /\ FollowAt < i
      PROVE  IInv'
  <2>1. PICK left \in SUBSET {FollowAt} :
          /\ held[c] = {place} \cup left /\ place \notin left
          /\ left # {} => hops[c] > 0 /\ GateBelow
    BY <1>4, HeldForCall
  <2>2. hops' \in [Callers -> Nat] /\ \A d \in Callers \ {c} : hops'[d] = hops[d]
    BY <1>1, <1>4 DEF Shape
  <2>3. Shape' /\ Accounted(c)' /\ BelowFollow(c)' /\ OthersStay(c)
    BY <1>1, <1>4, <2>1, <2>2, DescendAccounted
  <2> QED BY <1>1, <2>3, StepAccounted
<1>5. CASE Authorized(c) \/ Fallback(c)
  <2>1. /\ Rest(c) = {at[c]} /\ at[c] \in Places /\ at[c] # Own /\ at[c] # FollowAt
        /\ at[c] \in 1..Len(stack) /\ at[c] + 1 \in 1..Bottom /\ at[c] < at[c] + 1
    BY <1>1, <1>2, <1>5 DEF Authorized, Fallback, Accounted, Places, Own
  <2>2. hops[c] > 0 => 0 < FollowAt /\ FollowAt < at[c] + 1
    BY <1>1, <1>2, <1>5, <2>1 DEF Authorized, Fallback, BelowFollow, InFlight
  <2>3. hops' = hops
    BY <1>5 DEF Authorized, Fallback
  <2>4. CASE Authorized(c)
    <3>1. Descend(c, at[c] + 1, at[c], {}) /\ {} \in SUBSET {at[c]}
      BY <2>4 DEF Authorized
    <3> QED BY <2>1, <2>2, <2>3, <3>1, <1>4
  <2>5. CASE Fallback(c)
    <3>1. Descend(c, at[c] + 1, at[c], {at[c]})
      BY <2>5 DEF Fallback
    <3> QED BY <2>1, <2>2, <2>3, <3>1, <1>4
  <2> QED BY <1>5, <2>4, <2>5
<1>6. CASE HopCall(c)
  <2>1. /\ Rest(c) = {Oneshot} /\ Oneshot \in Places /\ Oneshot # Own
        /\ Oneshot # FollowAt /\ FollowAt + 1 \in 1..Bottom /\ Oneshot < FollowAt + 1
    BY <1>1, <1>2, <1>6 DEF HopCall, Accounted, Places, Own, Oneshot
  <2>2. hops[c] > 0 => 0 < FollowAt /\ FollowAt < FollowAt + 1
    BY <1>1, <1>2, <1>6 DEF HopCall, BelowFollow, InFlight
  <2>3. Descend(c, FollowAt + 1, Oneshot, {Oneshot}) /\ hops' = hops
    BY <1>6 DEF HopCall
  <2> QED BY <2>1, <2>2, <2>3, <1>4
<1> QED BY <1>3, <1>5, <1>6

(* The steps that answer: an authorizer, a file, the limited service.      *)
LEMMA AnswerPreserves ==
  ASSUME IInv, NEW c \in Callers, Rejected(c) \/ Served(c) \/ Responds(c)
  PROVE  IInv'
<1>1. Shape /\ Accounted(c) /\ BelowFollow(c) /\ stack' = stack
  BY DEF IInv, AllAccounted, Rejected, Served, Responds
<1>2. Len(stack) \in Nat /\ Bottom = Len(stack) + 1 /\ FollowAt \in 0..Len(stack)
  BY <1>1, StackFacts DEF Shape
<1>3. /\ pc' = [pc EXCEPT ![c] = "answered"] /\ at' = at /\ held' = held /\ hops' = hops
      /\ \E r \in BOOLEAN : redirect' = [redirect EXCEPT ![c] = r]
      /\ pc[c] \in {"authorizing", "serving", "running"}
  BY DEF Rejected, Served, Responds, Set
<1>4. Rest(c) = {at[c]} /\ at[c] \in 1..Bottom /\ at[c] # FollowAt
  BY <1>1, <1>2, <1>3 DEF Accounted
<1>5. /\ Bottom' = Bottom /\ Places' = Places /\ MayKeep(c)' = MayKeep(c)
      /\ FollowAt' = FollowAt /\ GateBelow' = GateBelow
  BY <1>1, StackStays
<1>6. Shape' /\ OthersStay(c)
  BY <1>1, <1>3, <1>5 DEF Shape, States, OthersStay
<1>7. pc'[c] = "answered" /\ held'[c] = held[c] /\ at'[c] = at[c] /\ hops'[c] = hops[c]
  BY <1>1, <1>3 DEF Shape
<1>8. Rest(c)' = Rest(c)
  BY <1>3, <1>5, <1>7 DEF Rest, Leftover, InFlight
<1>9. Own \notin held[c]
  BY <1>4, LeftoverPlace DEF Rest, Own
<1>10. at[c] \in Places
  BY <1>4 DEF Places
<1>11. Accounted(c)'
  BY <1>4, <1>5, <1>7, <1>8, <1>9, <1>10 DEF Accounted
<1>12. BelowFollow(c)'
  BY <1>1, <1>3, <1>5, <1>7 DEF BelowFollow, InFlight
<1> QED BY <1>1, <1>6, <1>11, <1>12, StepAccounted

(* The steps that drop a future: the next hop, the end, a cancellation.    *)
LEMMA DropPreserves ==
  ASSUME IInv, NEW c \in Callers, Redirected(c) \/ Finish(c) \/ Cancel(c)
  PROVE  IInv'
<1>1. Shape /\ Accounted(c) /\ BelowFollow(c) /\ stack' = stack
  BY DEF IInv, AllAccounted, Redirected, Finish, Cancel
<1>2. Len(stack) \in Nat /\ Bottom = Len(stack) + 1 /\ FollowAt \in 0..Len(stack)
  BY <1>1, StackFacts DEF Shape
<1>3. /\ Bottom' = Bottom /\ Places' = Places /\ MayKeep(c)' = MayKeep(c)
      /\ FollowAt' = FollowAt /\ GateBelow' = GateBelow
  BY <1>1, StackStays
<1>4. CASE Redirected(c)
  <2>1. /\ pc' = [pc EXCEPT ![c] = "hopping"]
        /\ held' = [held EXCEPT ![c] = held[c] \cap {Own, FollowAt}]
        /\ hops' = [hops EXCEPT ![c] = hops[c] + 1]
        /\ at' = at /\ redirect' = redirect
        /\ pc[c] = "answered" /\ redirect[c] /\ 0 < FollowAt /\ FollowAt < at[c]
    BY <1>4 DEF Redirected, Follows, Set
  <2>2. Own \notin held[c]
    BY <1>1, <2>1 DEF Accounted
  <2>3. FollowAt \in held[c] => GateBelow
    BY <1>1, <2>1 DEF Accounted, Rest, Leftover
  <2>4. Shape' /\ OthersStay(c)
    BY <1>1, <1>3, <2>1 DEF Shape, States, OthersStay
  <2>5. pc'[c] = "hopping" /\ held'[c] = held[c] \cap {FollowAt} /\ hops'[c] > 0
    BY <1>1, <2>1, <2>2 DEF Shape
  <2>6. Rest(c)' = {}
    BY <1>3, <2>3, <2>5 DEF Rest, Leftover, InFlight
  <2>7. Accounted(c)'
    BY <2>5, <2>6 DEF Accounted
  <2>8. BelowFollow(c)'
    BY <1>3, <2>1, <2>5 DEF BelowFollow
  <2> QED BY <1>1, <2>4, <2>7, <2>8, StepAccounted
<1>5. CASE Finish(c) \/ Cancel(c)
  <2>1. /\ pc' = [pc EXCEPT ![c] = "idle"]
        /\ held' = [held EXCEPT ![c] = held[c] \cap {Own}]
        /\ at' = at /\ redirect' = redirect /\ hops' = hops
        /\ InFlight(c)
    BY <1>5 DEF Finish, Cancel, InFlight, Set
  <2>2. Own \in held[c] => MayKeep(c)
    <3>1. Own \notin Leftover(c)
      BY LeftoverPlace DEF Own
    <3> QED BY <1>1, <1>2, <2>1, <3>1 DEF Accounted, InFlight, Rest, Own, Oneshot
  <2>3. Shape' /\ OthersStay(c)
    BY <1>1, <1>3, <2>1 DEF Shape, States, OthersStay
  <2>4. pc'[c] = "idle" /\ held'[c] = held[c] \cap {Own}
    BY <1>1, <2>1 DEF Shape
  <2>5. held'[c] = {} \/ (held'[c] = {Own} /\ MayKeep(c))
    BY <2>2, <2>4
  <2>6. Accounted(c)' /\ BelowFollow(c)'
    BY <2>4, <2>5, <1>3 DEF Accounted, BelowFollow, InFlight, Own
  <2> QED BY <1>1, <2>3, <2>6, StepAccounted
<1> QED BY <1>4, <1>5

(* Every step preserves the invariant.                                     *)
LEMMA NextPreserves == IInv /\ [Next]_vars => IInv'
<1> SUFFICES ASSUME IInv, [Next]_vars PROVE IInv'
  OBVIOUS
<1>1. CASE UNCHANGED vars
  <2>1. stack' = stack /\ pc' = pc /\ at' = at /\ held' = held
        /\ redirect' = redirect /\ hops' = hops
    BY <1>1 DEF vars
  <2>2. Shape'
    BY <2>1, StackStays DEF IInv, Shape
  <2>3. ASSUME NEW c \in Callers PROVE Accounted(c)' /\ BelowFollow(c)'
    <3>1. Accounted(c) /\ BelowFollow(c)
      BY DEF IInv, AllAccounted
    <3>2. /\ Bottom' = Bottom /\ Places' = Places /\ MayKeep(c)' = MayKeep(c)
          /\ FollowAt' = FollowAt /\ GateBelow' = GateBelow
      BY <2>1, StackStays
    <3>3. Rest(c)' = Rest(c)
      BY <2>1, <3>2 DEF Rest, Leftover, InFlight
    <3> QED BY <2>1, <3>1, <3>2, <3>3 DEF Accounted, BelowFollow, InFlight
  <2> QED BY <2>2, <2>3 DEF IInv, AllAccounted
<1>2. CASE Next
  <2>1. PICK c \in Callers : PollReady(c) \/ Step(c) \/ Cancel(c)
    BY <1>2 DEF Next
  <2> QED BY <2>1, ReadyPreserves, CallPreserves, AnswerPreserves, DropPreserves DEF Step
<1> QED BY <1>1, <1>2

(* It holds at the beginning, when every caller is idle.                   *)
LEMMA InitAccounted == Init => IInv
<1> SUFFICES ASSUME Init PROVE IInv
  OBVIOUS
<1>1. Len(stack) \in Nat /\ Bottom = Len(stack) + 1
  BY StackFacts DEF Init
<1>2. Shape
  BY <1>1 DEF Init, Shape, States, Places
<1>3. AllAccounted
  BY DEF Init, AllAccounted, Accounted, BelowFollow, InFlight
<1> QED BY <1>2, <1>3 DEF IInv

(* Every permit that is reserved is where Accounted says.                  *)
LEMMA AlwaysAccounted == Spec => []IInv
BY InitAccounted, NextPreserves, PTL DEF Spec

(* For every stack and any number of callers and permits: the limited      *)
(* service is never called through a clone that was not made ready.        *)
THEOREM ReadyBeforeCall == Spec => []OnlyReadyIsCalled
<1>1. IInv => OnlyReadyIsCalled
  BY DEF IInv, AllAccounted, Accounted, OnlyReadyIsCalled
<1> QED BY <1>1, AlwaysAccounted, PTL

(* For every stack and any number of callers and permits: nobody has two   *)
(* permits for its request or waits with one in hand, except for the one   *)
(* that stays in FollowRedirect's future when a gate below it answers with *)
(* a redirection; and an idle caller holds one only if it kept a service   *)
(* whose gate refused its last request.                                    *)
THEOREM PermitsAccounted == Spec => []PermitsServeRequests
<1>1. ASSUME IInv, NEW c \in Callers
      PROVE  /\ Cardinality(held[c] \ Leftover(c)) <= 1
             /\ pc[c] \in {"waiting", "hopping", "hop_waiting"} =>
                  held[c] \subseteq Leftover(c)
             /\ pc[c] = "idle" /\ held[c] # {} =>
                  c \in Keepers /\ held[c] = {Own} /\ ExposedGate
  <2>1. Shape /\ Accounted(c)
    BY <1>1 DEF IInv, AllAccounted
  <2>2. Rest(c) = {} \/ \E p \in Places \cup {at[c]} : Rest(c) = {p}
    <3>1. pc[c] \in States
      BY <2>1 DEF Shape
    <3>2. Own \in Places /\ Oneshot \in Places
      BY DEF Places
    <3>3. Bottom \in Places
      BY <2>1, StackFacts DEF Places, Shape
    <3>4. pc[c] \in {"idle", "ready"} => Rest(c) = held[c]
      BY DEF Rest, Leftover, InFlight
    <3> QED BY <2>1, <3>1, <3>2, <3>3, <3>4 DEF Accounted, States
  <2>3. Cardinality(Rest(c)) <= 1
    <3>1. CASE Rest(c) = {}
      BY <3>1, FS_EmptySet
    <3>2. CASE \E p \in Places \cup {at[c]} : Rest(c) = {p}
      <4>1. PICK p : Rest(c) = {p}
        BY <3>2
      <4>2. Cardinality({p}) = 1
        BY FS_Singleton
      <4> QED BY <4>1, <4>2
    <3> QED BY <2>2, <3>1, <3>2
  <2> QED BY <2>1, <2>3 DEF Accounted, MayKeep, Rest
<1>2. IInv => PermitsServeRequests
  BY <1>1 DEF PermitsServeRequests
<1> QED BY <1>2, AlwaysAccounted, PTL
-----------------------------------------------------------------------------
(***************************************************************************)
(* The timers: Timeout, for every choice of the three timeouts, zero       *)
(* included, and any number of ticks, frames and late polls.  No timeout   *)
(* is early, and nothing is delivered late or behind a timeout.            *)
(*                                                                         *)
(* A sleep only knows how much time it has left; what the properties speak *)
(* of is how long the caller has waited.  The invariant says that the two  *)
(* agree for as long as a poll can still look at the sleep.  The idle      *)
(* sleep need not agree with the wait once the deadline has elapsed: a     *)
(* poll then leaves it running though nobody waits for a frame any more.   *)
(***************************************************************************)
\* A sleep of `all` ticks with `left` to go was started `since` ticks ago.
Agrees(left, since, all) ==
  /\ left > 0 => left + since = all
  /\ left = 0 => since >= all

\* The sleep of Timeout runs since the call, the deadline's since the response.
CallClock     == phase = "future" => Agrees(call, age, CallTimeout)
DeadlineClock == phase = "body" => Agrees(deadline, age, Deadline)

(* The idle sleep exists once a frame was asked for and was not given, and *)
(* has run since then; it outlives the wait only if it has elapsed.        *)
IdleClock ==
  phase = "body" /\ deadline > 0 =>
    /\ idle = NoSleep => waited = 0 /\ ~ waiting
    /\ idle # NoSleep => idle + waited = IdleTimeout
    /\ waiting \/ idle \in {0, NoSleep}

\* What made the last poll time out still does.
StillOut ==
  /\ last.what \in TimedOut => phase # "future"
  /\ last.what = "deadline_timeout" /\ phase = "body" => deadline = 0
  /\ last.what = "idle_timeout" /\ phase = "body" => deadline = 0 \/ idle = 0

\* A body has frames, not responses.
BodyItems == phase = "body" => inner \in Items \cup {"nothing"}

Clocks == CallClock /\ DeadlineClock /\ IdleClock /\ StillOut /\ BodyItems

TimeoutInv == TimeoutTypeOK /\ Clocks /\ NeverEarly /\ InTime
-----------------------------------------------------------------------------
\* Constant definitions that every step needs.
USE TimeoutAssumption DEF NoSleep, AgeCap, TimedOut, Items, Answers

\* TypeOK in three parts: the clocks, the control state, the last result.
Times ==
  /\ call \in 0..CallTimeout /\ idle \in 0..NoSleep /\ deadline \in 0..Deadline
  /\ waited \in 0..IdleTimeout /\ age \in 0..AgeCap
Control ==
  /\ phase \in {"future", "body", "failed", "dropped"}
  /\ inner \in {"nothing", "response", "failed"} \cup Items
  /\ armed \subseteq Sleeps \cup {"inner"}
  /\ woken \in BOOLEAN
  /\ waiting \in BOOLEAN
Results == [what : Answers, waited : 0..IdleTimeout, age : 0..AgeCap]

LEMMA TypeParts == TimeoutTypeOK <=> Times /\ Control /\ last \in Results
  BY DEF TimeoutTypeOK, Times, Control, Results

\* What a poll returns is an answer with the times it was given at.
LEMMA ReturnsResult ==
  ASSUME TimeoutTypeOK, NEW what \in Answers, Returns(what)
  PROVE  last' \in Results
<1>1. waited \in 0..IdleTimeout /\ age \in 0..AgeCap
  BY DEF TimeoutTypeOK
<1>2. [what |-> what, waited |-> waited, age |-> age] \in Results
  BY <1>1 DEF Results
<1> QED
  BY <1>2 DEF Returns

\* Every variable keeps its range, whatever the timeouts are.
LEMMA TypePreserved ==
  ASSUME TimeoutTypeOK, [TimeoutNext]_timeoutVars
  PROVE  TimeoutTypeOK'
<1> Times /\ Control /\ last \in Results
  BY TypeParts
<1> SUFFICES Times' /\ Control' /\ last' \in Results
  BY TypeParts DEF TimeoutTypeOK, Times, Control, Results
<1>1. CASE Tick
  <2>1. Times'
    BY <1>1 DEF Tick, Countdown, Times
  <2>2. Control' /\ last' = last
    BY <1>1 DEF Tick, Control
  <2> QED
    BY <2>1, <2>2
<1>2. ASSUME NEW item \in Items \cup {"response", "failed"}, InnerReady(item)
      PROVE  Times' /\ Control' /\ last' \in Results
  BY <1>2 DEF InnerReady, Times, Control
<1>3. CASE PollFuture
  <2>1. CASE CallTimedOut
    <3>1. Times'
      BY <2>1 DEF CallTimedOut, BodyStarts, Times
    <3>2. Control'
      BY <2>1 DEF CallTimedOut, BodyStarts, Control
    <3>3. last' \in Results
      BY <2>1, ReturnsResult DEF CallTimedOut, BodyStarts
    <3> QED
      BY <3>1, <3>2, <3>3
  <2>2. CASE CallResponds
    <3>1. Times'
      BY <2>2 DEF CallResponds, BodyStarts, Times
    <3>2. Control'
      BY <2>2 DEF CallResponds, BodyStarts, Control
    <3>3. last' \in Results
      BY <2>2, ReturnsResult DEF CallResponds, BodyStarts
    <3> QED
      BY <3>1, <3>2, <3>3
  <2>3. CASE CallFails
    <3>1. Times'
      BY <2>3 DEF CallFails, Times
    <3>2. Control'
      BY <2>3 DEF CallFails, Control
    <3>3. last' \in Results
      BY <2>3, ReturnsResult DEF CallFails
    <3> QED
      BY <3>1, <3>2, <3>3
  <2>4. CASE FuturePending
    <3>1. Times'
      BY <2>4 DEF FuturePending, Times
    <3>2. Control'
      BY <2>4 DEF FuturePending, Control, Sleeps
    <3>3. last' = last
      BY <2>4 DEF FuturePending
    <3> QED
      BY <3>1, <3>2, <3>3
  <2> QED
    BY <1>3, <2>1, <2>2, <2>3, <2>4 DEF PollFuture
<1>4. CASE PollBody
  <2>1. CASE DeadlineElapsed
    <3>1. Times'
      BY <2>1 DEF DeadlineElapsed, Yields, Times
    <3>2. Control'
      BY <2>1 DEF DeadlineElapsed, Yields, Control
    <3>3. last' \in Results
      BY <2>1, ReturnsResult DEF DeadlineElapsed, Yields
    <3> QED
      BY <3>1, <3>2, <3>3
  <2>2. CASE IdleElapsed
    <3>1. Times'
      BY <2>2 DEF IdleElapsed, Yields, IdleLeft, Times
    <3>2. Control'
      BY <2>2 DEF IdleElapsed, Yields, IdleLeft, Control
    <3>3. last' \in Results
      BY <2>2, ReturnsResult DEF IdleElapsed, Yields, IdleLeft
    <3> QED
      BY <3>1, <3>2, <3>3
  <2>3. CASE FrameYielded
    <3>1. Times'
      BY <2>3 DEF FrameYielded, Yields, Times
    <3>2. Control'
      BY <2>3 DEF FrameYielded, Yields, Control
    <3>3. last' \in Results
      <4>1. inner \in Answers
        BY <2>3 DEF FrameYielded, Control
      <4> QED
        BY <2>3, <4>1, ReturnsResult DEF FrameYielded, Yields
    <3> QED
      BY <3>1, <3>2, <3>3
  <2>4. CASE BodyPending
    <3>1. Times'
      BY <2>4 DEF BodyPending, IdleLeft, Times
    <3>2. Control'
      BY <2>4 DEF BodyPending, IdleLeft, Control, Sleeps
    <3>3. last' = last
      BY <2>4 DEF BodyPending
    <3> QED
      BY <3>1, <3>2, <3>3
  <2> QED
    BY <1>4, <2>1, <2>2, <2>3, <2>4 DEF PollBody
<1>5. CASE Drop
  BY <1>5 DEF Drop, Times, Control
<1>6. CASE UNCHANGED timeoutVars
  BY <1>6 DEF timeoutVars, Times, Control
<1> QED
  BY <1>1, <1>2, <1>3, <1>4, <1>5, <1>6 DEF TimeoutNext, Poll, Over

(* Time passes: every sleep that a poll can still look at counts down as   *)
(* the time that it stands for goes by.                                    *)
LEMMA TickKeepsClocks ==
  ASSUME TimeoutTypeOK, Clocks, Tick
  PROVE  Clocks'
<1> USE DEF TimeoutTypeOK
<1>1. CallClock'
  BY DEF Tick, Clocks, CallClock, Agrees, Countdown
<1>2. DeadlineClock'
  BY DEF Tick, Clocks, DeadlineClock, Agrees, Countdown
<1>3. IdleClock'
  BY DEF Tick, Clocks, IdleClock, Countdown, Running, Sleeps
<1>4. StillOut'
  BY DEF Tick, Clocks, StillOut, Countdown, Running, Sleeps
<1>5. BodyItems'
  BY DEF Tick, Clocks, BodyItems
<1> QED
  BY <1>1, <1>2, <1>3, <1>4, <1>5 DEF Clocks

\* The response is in time and has its body; or the call has timed out.
LEMMA FutureKeepsInv ==
  ASSUME TimeoutInv, PollFuture
  PROVE  (Clocks /\ NeverEarly /\ InTime)'
<1> USE DEF TimeoutInv, TimeoutTypeOK, Clocks, NeverEarly, InTime, CallClock,
            DeadlineClock,
            IdleClock, StillOut, BodyItems, Agrees, Returns
<1>1. CASE CallTimedOut
  BY <1>1 DEF CallTimedOut, BodyStarts
<1>2. CASE CallResponds
  BY <1>2 DEF CallResponds, BodyStarts
<1>3. CASE CallFails
  BY <1>3 DEF CallFails
<1>4. CASE FuturePending
  BY <1>4 DEF FuturePending
<1> QED
  BY <1>1, <1>2, <1>3, <1>4 DEF PollFuture

\* A poll of the body gives what is in time and fails only when time is up.
LEMMA BodyKeepsInv ==
  ASSUME TimeoutInv, PollBody
  PROVE  (Clocks /\ NeverEarly /\ InTime)'
<1> USE DEF TimeoutInv, TimeoutTypeOK, Clocks, NeverEarly, InTime, CallClock,
            DeadlineClock,
            IdleClock, StillOut, BodyItems, Agrees, Yields, Returns, IdleLeft
<1>1. CASE DeadlineElapsed
  BY <1>1 DEF DeadlineElapsed
<1>2. CASE IdleElapsed
  BY <1>2 DEF IdleElapsed
<1>3. CASE FrameYielded
  <2>1. /\ inner \in Items /\ last' = [what |-> inner, waited |-> waited, age |-> age]
        /\ idle' = NoSleep /\ waited' = 0 /\ waiting' = FALSE /\ deadline > 0
        /\ phase = "body" /\ UNCHANGED <<phase, deadline, age>>
    BY <1>3 DEF FrameYielded
  <2>2. waited < IdleTimeout /\ age < Deadline
    BY <1>3 DEF FrameYielded
  <2>3. NeverEarly' /\ InTime'
    BY <2>1, <2>2
  <2>4. Clocks'
    BY <1>3, <2>1 DEF FrameYielded
  <2> QED
    BY <2>3, <2>4
<1>4. CASE BodyPending
  BY <1>4 DEF BodyPending
<1> QED
  BY <1>1, <1>2, <1>3, <1>4 DEF PollBody

LEMMA TimeoutInvPreserved ==
  ASSUME TimeoutInv, [TimeoutNext]_timeoutVars
  PROVE  TimeoutInv'
<1> SUFFICES (Clocks /\ NeverEarly /\ InTime)'
  BY TypePreserved DEF TimeoutInv
<1>1. CASE Tick
  <2>1. last' = last
    BY <1>1 DEF Tick
  <2> QED
    BY <1>1, <2>1, TickKeepsClocks DEF TimeoutInv, NeverEarly, InTime
<1>2. ASSUME NEW item \in Items \cup {"response", "failed"}, InnerReady(item)
      PROVE  (Clocks /\ NeverEarly /\ InTime)'
  BY <1>2 DEF InnerReady, TimeoutInv, Clocks, CallClock, DeadlineClock, IdleClock,
              StillOut, BodyItems, Agrees, NeverEarly, InTime
<1>3. CASE PollFuture
  BY <1>3, FutureKeepsInv
<1>4. CASE PollBody
  BY <1>4, BodyKeepsInv
<1>5. CASE Drop
  BY <1>5 DEF Drop, TimeoutInv, Clocks, CallClock, DeadlineClock, IdleClock,
              StillOut, BodyItems, NeverEarly, InTime
<1>6. CASE UNCHANGED timeoutVars
  BY <1>6 DEF timeoutVars, TimeoutInv, Clocks, CallClock, DeadlineClock, IdleClock,
              StillOut, BodyItems, Agrees, NeverEarly, InTime
<1> QED
  BY <1>1, <1>2, <1>3, <1>4, <1>5, <1>6 DEF TimeoutNext, Poll, Over

\* The call's sleep starts with the call, and nothing has been returned.
LEMMA TimeoutInvHoldsFirst ==
  ASSUME TimeoutInit
  PROVE  TimeoutInv
<1>1. Times
  BY DEF TimeoutInit, Times
<1>2. Control
  BY DEF TimeoutInit, Control
<1>3. last \in Results
  BY DEF TimeoutInit, Results
<1>4. Clocks /\ NeverEarly /\ InTime
  BY DEF TimeoutInit, Clocks, CallClock, DeadlineClock, IdleClock, StillOut, BodyItems,
         Agrees, NeverEarly, InTime
<1> QED
  BY <1>1, <1>2, <1>3, <1>4, TypeParts DEF TimeoutInv

THEOREM Timing == TimeoutSpec => []TimeoutInv
<1>1. TimeoutInit => TimeoutInv
  BY TimeoutInvHoldsFirst
<1>2. TimeoutInv /\ [TimeoutNext]_timeoutVars => TimeoutInv'
  BY TimeoutInvPreserved
<1> QED
  BY <1>1, <1>2, PTL DEF TimeoutSpec

-----------------------------------------------------------------------------
(* No timeout is early: for all timeouts, an idle timeout is returned only *)
(* after the caller waited IdleTimeout for this frame, a deadline only     *)
(* Deadline after the response, and the response of Timeout only           *)
(* CallTimeout after the call.                                             *)
THEOREM TimeoutsAreNeverEarly == TimeoutSpec => []NeverEarly
<1>1. TimeoutInv => NeverEarly
  BY DEF TimeoutInv
<1> QED
  BY <1>1, Timing, PTL

\* Once a body has timed out, a step returns another timeout or nothing.
LEMMA TimeoutIsFinal ==
  ASSUME TimeoutInv, [TimeoutNext]_timeoutVars, last.what \in TimedOut
  PROVE  last'.what \in TimedOut
<1> USE DEF TimeoutInv
<1>1. CASE PollFuture
  BY <1>1 DEF PollFuture, CallTimedOut, CallResponds, CallFails,
              FuturePending,
              Clocks, StillOut
<1>2. CASE PollBody
  <2>1. phase = "body" /\ (deadline = 0 \/ IdleLeft = 0)
    BY <1>2 DEF PollBody, DeadlineElapsed, IdleElapsed,
                FrameYielded, BodyPending,
                Clocks, StillOut, IdleLeft
  <2>2. DeadlineElapsed \/ IdleElapsed
    BY <1>2, <2>1 DEF PollBody, FrameYielded, BodyPending
  <2> QED
    BY <2>2 DEF DeadlineElapsed, IdleElapsed, Yields, Returns
<1>3. CASE ~ Poll
  <2>1. last' = last
    BY <1>3 DEF TimeoutNext, Tick, InnerReady, Drop, Over,
                timeoutVars
  <2> QED
    BY <2>1
<1> QED
  BY <1>1, <1>2, <1>3 DEF Poll

(* Nothing is late: whatever a step delivers is delivered in time, and a   *)
(* frame is never delivered behind a timeout.                              *)
THEOREM NothingIsLate == TimeoutSpec => NeverLate
<1>1. TimeoutInv /\ [TimeoutNext]_timeoutVars =>
        [/\ InTime'
         /\ last.what \in TimedOut => last'.what \in TimedOut]_timeoutVars
  BY TimeoutInvPreserved, TimeoutIsFinal DEF TimeoutInv
<1> QED
  BY <1>1, Timing, PTL DEF TimeoutSpec, NeverLate
=============================================================================
