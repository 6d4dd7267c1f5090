# A TLA+ development of tower-http

tower-http is a library of HTTP middleware for `tower::Service`.  Each middleware
is a `Service` that wraps another one: `call` builds a response future, the
future is polled until it resolves to a response, and the response body is then
polled frame by frame.  The state of a middleware lives in three places: the
service (configuration, shared counters), the response future, and the response
body; a caller may drop the future or the body at any moment.

This directory models the middleware whose state machines are easy to get wrong,
checks them with TLC on small instances, and proves the safety properties it checks
with TLAPS for every value of the constants.
`PROJECT.json` lists the runs, the source lines every definition stands for, the
hazards the properties are aimed at, and a mutant of the code for every property.
Paths below are relative to `src/tower-http/src/`.

Contents: 1 inventory; 2 modules and the code they model; 3 runs; 4 proofs;
5 what the code does that a reader may not expect; 6 what is not modelled;
7 plan.

## 1. Inventory

| Component | State it keeps | Operations | Hard because | What makes it correct |
|---|---|---|---|---|
| `follow_redirect` and its policies | method, uri, headers, extensions, `BodyRepr`, the call's clone of the policy | `call`, `ResponseFuture::poll`, `Policy::{redirect, on_request, clone_body}` | every request depends on every earlier hop; a future that wakes itself | credentials stay in the first origin, the limit holds, method, body and headers are rewritten in step, every call resolves |
| `trace`, `classify` | Options of callbacks handed from future to body | `call`, `poll`, `poll_frame` | three places end a stream; bodies are polled after their end | each callback once, in order, exactly when due |
| `on_early_drop` | a guard in the future, one in the body | `call`, `poll`, `poll_frame`, `Drop` | what counts as finished at the moment of a drop | a report exactly when something was cut short |
| `metrics::in_flight_requests` | atomic count behind an `Arc`, guards, emitter task | `call`, `Drop`, `run_emitter` | several threads; ownership decides when the emitter stops | misses no request in progress, counts none that is gone; the emitter stops last, and does stop |
| `timeout` | `Sleep`s in the future and in two bodies | `call`, `poll`, `poll_frame` | timers race the inner future; wake-ups | never early, never late, final, never stuck |
| `compression`, `decompression` bodies | flags and buffers in `WrapBody` and the readers below it | `poll_frame` | errors, trailers and the end pass through a codec | complete or an error, never silently short |
| `compression`, `decompression` services | the encoding chosen at `call` | `call`, `poll`, predicates | two sides with separate settings | headers say what was done to the body |
| `content_encoding` | none | `from_headers`, `encodings` | weights, wildcard, repetition | the best acceptable encoding |
| `services::fs` | one path being resolved, one file being read | `try_call`, `open_file`, `build_response`, `poll_frame` | the files change between any two awaits | variant, length, ETag and bytes belong together |
| `cors` | two joined futures, collected headers | `call`, `poll` | caches; an asynchronous origin check | a page reads exactly what the settings allow |
| `csrf` | none | `verify` | clients tell different things about themselves | the handler sees exactly the legitimate writes |
| `limit` | none (the count is in `http_body_util::Limited`) | `call`, `poll` | boundary of `Content-Length`, limits inside limits | one line for both checks |
| `auth`, `validate_request` | two-stage future | `call`, `poll` | readiness of a moved inner service; layers above rewrite what is checked | the handler is called exactly when every gate is satisfied |
| `request_id`, `propagate_header` | the value kept by the future | `call`, `poll` | header and extension, request and response, whoever answers | one id everywhere |
| `set_header`, `sensitive_headers`, `add_extension`, `set_status`, `map_*_body` | none | one rewrite of a request or response | their order in a stack | marks and values survive until somebody writes anew |
| `normalize_path` | none | `call` | paths of slashes, forms of a URI | a normal form, nothing else changed |
| `catch_panic` | `Kind::{Future, Panicked}` | `call`, `poll` | two moments to panic | a panic stops at the innermost layer |
| `services::redirect` | none | `call` | | |
| readiness of all of them | the ready inner service, moved or cloned | `poll_ready`, `call` | a clone is not ready; a reserved permit is held by somebody | only what is ready is called; a permit is held for a request, and where it is not, it is known why |

Components interact by wrapping: an outer one calls the inner one's `call`,
`poll_ready`, `call`, `poll` and `poll_frame`.  Five kinds of interaction are
composed here: several middleware that observe the same request
(`ObservedService`, `Timeout`), any middleware around any other
(`MiddlewareStack`), many callers of one stack (`Readiness`), middleware on the
two sides of a connection (`RoundTrip`, `CompressionStack`), and middleware
together with the world around them (`ServeDir` with somebody who changes the
files, `CrossOrigin` with browsers and a shared cache).

The hard behaviours are: lost wake-ups in hand-written futures; frames, trailers
and errors that arrive in an unusual order; drops between any two steps; a
counter shared by threads; permits shared by callers; timers against late
answers; files changed between two awaits; layers in an order nobody tried; and
long chains of legal steps (redirects, missing variants).

## 2. Modules

An action is a step between two points where another actor may run: a poll, a
callback, a drop, one awaited backend call.  Everything a handler does in one
poll is one action.

### Redirects: `RedirectPolicy`, `FollowRedirect`, `RedirectChain`, `FollowRedirectProofs`

`RedirectPolicy` has the policies as operators from the state of the policy and
an `Attempt` to an action and a new state: `Limited`, `SameOrigin`,
`FilterCredentials`, `And`, `Or`, `CloneBodyFn`, and `on_request`, which filters
headers and extensions.  Two compositions are used, `Standard` and
`And<Or<Limited, Err>, SameOrigin>` ("guarded").

`FollowRedirect` is one call.  Its variables are the fields of `ResponseFuture`
(`method`, `uri`, `headers`, `extensions`, `body`, `policy`), the inner future
(`inner`), whether the task's waker was called (`woken`), and the history `sent`
of the requests given to the inner service.  `Call` is `FollowRedirect::call`;
one poll is one of `PollPending`, `InnerError`, `NotRedirect`, `NoBody`,
`NoLocation`, `PolicyStops` and `Follow`, by the branch it takes.  Header values
do not matter to the code that decides, so a header map is the set of its names;
a URI is its scheme, host, port and path; a body is `data` or `zero` (exactly
empty).

`RedirectChain` is what a caller may rely on, without futures, policies or
wakers: a chain of requests that carries a set of headers and extensions and has
a number of hops left.  It starts once, each hop spends one unit and carries no
more than the one before, without the secrets once the origin has changed, and
it ends once.  `FollowRedirect` implements it under the mapping `Carried`,
`HopsLeft`, `Stage` (`IsRedirectChain == Chain!Spec`).

### Readiness: `Readiness`, `ReadinessProofs`

Callers share a service that admits `permits` requests at a time, as tower's
`ConcurrencyLimit` does (external): `poll_ready` reserves a permit in one clone
of the service, `call` uses it, and calling a clone without one panics.  Between
the callers and that service is a stack of the layers that do more than forward
`call`: `gate` (`ValidateRequestHeader` and `RequestBodyLimit`, which may answer
in `call` and leave the reserved permit where it is), `auth`
(`AsyncRequireAuthorization`), `serve` (`ServeDir` with a fallback) and `follow`
(`FollowRedirect`), which move the ready service into their futures.  `held[c]`
says where the permits reserved for caller c are: with the caller's own service,
in the future of a layer, in the `Oneshot` of the next hop, or in use.  A gate answers
with any response its validator makes, so also with a redirection; under `FollowRedirect`
the permit it did not use is then in the `service` field of the future, which is only
cloned from there on, and stays there until the future is dropped (`Leftover`).  `Descend`
is a `call` that travels down the stack to the layer it comes to rest in; the
other actions are what the futures do when they are polled, and `Cancel` drops a
future at any point.  A caller either keeps its service for the next request
(`Keepers`, a keep-alive connection) or clones it for each request.

### A stack of middleware: `HeaderServices`, `RequestGates`, `NormalizePath`, `MiddlewareStack`, `MiddlewareStackProofs`

`HeaderServices` (`set_header`, `request_id`, `propagate_header`,
`sensitive_headers`, `add_authorization`, `add_extension`), `RequestGates`
(`validate_request`, `require_authorization`, `limit`, `map_request_body`,
`map_response_body`) and `NormalizePath` have each middleware as a layer, a
record with its settings, and operators for what its `call` makes of a request
and its future of a response.  A header value is its text and the flag
`sensitive`; a request body is the sizes of its chunks and the wrappers around
it; a path is a sequence of characters.

`MiddlewareStack` sends one request down a stack and the result up again.
`calls[i]` is the request given to layer i and `results[i]` what it gave back:
the two histories are what a logging layer at that place would see.  The
handler reads the body chunk by chunk as far as it likes, responds, fails, or
panics in `call` or in its future; `services::Redirect` is the other handler.

### Observers: `HttpService`, `Classify`, `Trace`, `OnEarlyDrop`, `InFlightRequests`, `ObservedService`, `ObservedServiceProofs`

`HttpService` is the environment: the life of a request (`idle`, `future`,
`body`, `gone`), the frames its body yields and what `is_end_stream` says.  The
three middleware keep their own variables and define one action for each event;
`ObservedService` conjoins them, so that all three see the same event.  `Trace`
records the order of the callbacks, `OnEarlyDrop` the reports.  A drop of an
`IncrementGuard` takes two steps, the decrement and the release of the `Arc`,
because other threads and the emitter may run in between.  What a behaviour may
contain (requests, classifiers, responses, polls, handles) is one of the `Loads`,
chosen at the start and never changed.  `Classify` has
`classify_response` and `classify_eos` of the three classifiers.

### Timers: `Timeout`, `ReadinessProofs`

`ResponseBodyDeadline` around `ResponseBodyTimeout` around `Timeout` around a
service.  A `Sleep` is the number of ticks it has left, so that time itself is
not bounded; it wakes the task only if it was polled (`armed`).  One poll is one
of `CallTimedOut`, `CallResponds`, `CallFails`, `FuturePending` for the future
and `DeadlineElapsed`, `IdleElapsed`, `FrameYielded`, `BodyPending` for the body.

### Coded bodies: `WrapBody`, `RoundTrip`, `ForeignBody`, `RoundTripProofs`

`WrapBody` is `poll_frame` of `compression_utils.rs` with the flags of
`WrapBody`, `StreamErrorIntoIoError` and `BodyIntoStream`, cut where a poll of
the inner body may be `Pending` and where the codec's buffer may fill.  Codecs
(async-compression) are external and reduced to what they consume, emit and
report: a plain byte n is encoded as -n, and 0 is the end mark.  `RoundTrip`
instantiates it twice, as encoder and decoder joined by a network that may fail
or deliver empty frames.  `ForeignBody` adds the behaviours in which the body on the
wire was made by somebody else (`ForeignInit`): cut anywhere, truncated, garbled, with
bytes after the end.  It is then all on the wire, the network is `none`, and only the
client takes steps.

### Negotiation and headers: `ContentEncoding`, `Negotiation`, `CompressionStack`, `CompressionStackProofs`

`ContentEncoding` is `Encoding::from_headers` over headers already split into
elements (parsing of the weights included); `Negotiation` defines the best
encoding in another way than the code, as a reference.  `CompressionStack` is
`Decompression` on the client, `Compression` and `RequestDecompression` on the server,
and a handler: the headers that describe a body, and the codings really applied to it.  A message may have
any number of `Content-Encoding` lines.  `asked` is the request as the client made it and
`made` the response as the handler made it, kept to be compared with what arrives.  What
the three may be asked is one of the `Loads`, chosen at the start and never changed.

### Files: `ServeDir`, `ServeDirProofs`

One call of `ServeDir` or `ServeFile`.  `disk` is the file system, `file` the
open file, `linked` whether the path still leads to it.  The steps are
`TryCall`, `RedirectOrAppend`, `Found` and `NotFound` (the loop of
`open_file_with_fallback` and `file_metadata_with_fallback`), `FileMetadata`,
`InvalidFilename`, `BackendFails`, `FallbackResponds`, `Read`, `ReadFails`;
between them `Replace` and `WriteInPlace` change the files.  A file's revision is
unique to its content and is its modification time in half seconds, so that two
revisions may share a second, which is all that `Last-Modified` tells.  The
negotiated encodings are a set: `preferred_encoding` takes a greatest one, and of
two with the same weight the one that `Less` prefers, so their order in the `Vec`
plays no role.

### Pages: `Cors`, `Csrf`, `CrossOrigin`, `CrossOriginProofs`

`Cors` and `Csrf` are the decisions, as operators over settings and a request.
`CrossOrigin` is the response future of `Cors` (`AllowPending`, `InnerPending`,
`Responds`, `PreflightResponds`, `InnerFails`, `Disconnect`) around `Csrf` around
a handler, called by clients: browsers with and without `Sec-Fetch-Site` (which
send a preflight where the fetch standard asks for one and then decide what the
page may read), users, and programs.  A shared cache may keep one response and
replay it where `Vary` permits.  The client and the cache are external.

## 3. Runs

Every property has a mutant of the code that violates it (see `PROJECT.json`).

| Run | Checks | Bounds | States |
|---|---|---|---|
| `follow_redirect` | `TypeOK`, `WithinLimit`, `CredentialsStayHome`, `FilteringIsCumulative`, `PayloadAgrees`, `RequestUriIsEffective`, `OutcomeExplained`, `IsRedirectChain`, `Resolves` | limit at most 2, six URIs, ten configurations | 351,794 |
| `readiness` | `OnlyReadyIsCalled`, `PermitsServeRequests`, `CallsEnd` | two callers, two permits, two hops, every stack of at most three layers | 515,230 |
| `middleware_stack` | `RequestIdIsCarried`, `SecretsStayMarked`, `GatesDecide`, `PanicIsContained`, `BodyWithinLimit`, `PathIsNormal` | stacks of at most three layers | 367,736 |
| `observed` | `CallbacksAreExact`, `EndIsReported`, `CountIsBounded`, `EmitterStopsLast`, `EmitterStops` | one request with three polls of the body, or three requests with two handles | 399,744 |
| `observed_body_error` | `BodyErrorsAreFailures`, violated | the same | |
| `in_flight_consumed` | `ConsumedIsComplete`, violated | the same | |
| `timeout_stack` | `NeverEarly`, `NeverLate`, `WaitEnds` | timeouts 2, 2 and 5; time unbounded | 4,089 |
| `coded_bodies` | `DeliveryIsFaithful`, `VerdictIsRight`, `Ends` | three data frames of at most one byte and one pad, or three of at most two bytes from elsewhere | 412,346 |
| `compression_stack` | `ChoiceIsBest`, `HeadersTellTheTruth`, `BothSidesCanRead` | three elements, six names, seven weights; two `Content-Encoding` lines on a request, three on a response | 1,077,210 |
| `coded_twice` | `DecodedIsPlain`, violated | two lines on a request | |
| `serve_dir` | `BestIsFound`, `LengthIsTrue`, `ConditionsAreKept`, `Answered` | three trees, four configurations, one change | 155,816 |
| `cross_origin` | `AccessIsExact`, `HandlerIsProtected`, `NeverRepolled`, `FetchEnds` | five origins, ten settings, two fetches | 187,480 |

**follow_redirect.**  Two hops are what it takes to leave an origin and come
back, to spend the last unit of a limit after another one, and to mix two kinds
of redirection.  The URIs are two spellings of one origin, another port, another
scheme, a scheme `eq_origin` does not compare, and a relative URI.  301 stands
for 302 and 307 for 308: `DropsPayload` is the only place that looks at them.

**readiness.**  Two callers that compete for one permit show every way to hold
one and wait for another; with two permits both are inside at once.  One of them
keeps its service between requests and the other does not.  Three layers are
enough for a layer that moves the service above and below another one.  Two hops let a
gate answer with a redirection after another one did, and a request go through after a
gate has redirected it.

**middleware_stack** does not multiply everything with everything: each family
of layers (ids, secrets, gates, panics, limits, paths) is combined with those it
can disturb, in every order, with the requests that matter to it
(`MCMiddlewareStack`), in stacks of two for limits and paths and of three for the
others.  Limits are 0 to 3 and bodies up to three bytes, in chunks, with a
`Content-Length` that is absent, true, wrong, malformed or repeated; paths have up
to five characters, enough for two slashes at both ends of a name.

**observed.**  The load `frames` gives every classifier every response, every
sequence of frames and every kind of end, with polls after the end.  The requests
do not meet in `Trace` and `OnEarlyDrop`, so one is enough.  The load `counter`
lets three requests, the handles and the emitter meet at the counter; the frames
of the bodies are left out since no guard moves with them.

**timeout_stack.**  The deadline is longer than two idle timeouts, so that both
timers can be the first to elapse, at every phase of one another; the call's
timeout and the service's answer may fall on the same tick.

**coded_bodies.**  Three frames allow an empty one at the
start, in the middle and at the end; one byte per frame and two distinct bytes
show what is dropped, repeated or reordered; two bytes per frame of a body from
elsewhere put an end mark and what follows it into one frame or into two.

**compression_stack** has four loads that vary one side each (`MCCompressionStack`).
The long `Accept-Encoding` headers are tried on requests that no server decodes
(`headers`), since the choice is made before and does not depend on the rest; a few
of them go all the way (`settings`), with every response of at most one line.  Whether
the handler asks for pass-through and whether a request has a length is left to
`requests`, since nothing behind the handler depends on it.
`requests` and `responses` have every combination of up to two and three
`Content-Encoding` lines, the same coding repeated included.  **coded_twice** checks
on such requests what the documentation promises and several lines break (section 5).

**serve_dir.**  One change is enough to make any cached knowledge of the call
(the directory check, the open file, the metadata) stale, and it may happen at
every point; the change touches only the paths the call can still look at.
The trees have variants present, missing, empty, and longer than the file they
stand for.  The copy in the client's cache is any of the revisions in the tree,
or one that is gone.

**cross_origin.**  The second fetch is a `GET` and only follows if the cache has
something for it; otherwise it would repeat the first.  Settings are those of
`CorsLayer::new`, `permissive` and `very_permissive`, every kind of origin rule,
a custom `Vary`, and predicates.

**Deadlock** is checked in every run: the only states without progress are those
in which the request is over.

**Fairness.**  It is assumed of the executor, which polls a woken task
(`FollowRedirect`, `Timeout`, `CrossOrigin`) and keeps the emitter and a thread
inside a drop running (`ObservedService`); of the queue of the semaphore and of
callers who were told that the service is ready, and of the authorizer, the files
and the service they then wait for (`Readiness`); of time, which advances (`Timeout`);
of callers that go on to poll a body (`RoundTrip` and so `ForeignBody`, `ServeDir`); and of
inner futures, backend calls, the fallback and the origin check, which complete
(`FollowRedirect`, `ServeDir`, `CrossOrigin`).  It is not assumed of the inner
service in `Timeout`, whose point is that it may never answer, nor of callers who
may drop something or never make another request, nor of the owners of handles.  In
`Readiness` nobody owes a cancellation either, so a wait that only a cancellation would
end counts as one that does not end; `Stranded` names the states from which it does not.
In the models with wakers a
task is polled only if its waker was called, so a lost wake-up is a violation of
`Resolves`, `WaitEnds` or `FetchEnds` and is not repaired by fairness.

## 4. Proofs

A theorem holds for every value of the constants that satisfies the named
assumptions, so without the bounds of section 3.  TLC evaluates the assumptions on
every run and checked each inductive invariant before it was proved.  Every proof
has the same shape: a lemma for the initial states, one for each action or group of
actions, a theorem `Spec => []Inv` (`Invariance`, `JInvariance`, `AlwaysAccounted`,
`Timing`, `CounterIsSound`, `RequestsAreSound`, `BodiesAreSound`, `CompressionIsSound`,
`ServeDirIsSound`, `CrossOriginIsSound`, `StackIsSound`,
`ExchangeIsSound`), and the property from the invariant.  Every invariant and every action
property that a passing run checks is stated by a theorem.

### Redirects

`FollowRedirectProofs` proves, for every set of URIs, methods, statuses, header
sets, extensions and configurations and for every limit:

| Theorem | States |
|---|---|
| `TypeCorrect` | `Spec => []TypeOK` |
| `LimitHolds` | `Spec => []WithinLimit`: at most `limit` redirected requests |
| `CredentialsConfined` | `Spec => []CredentialsStayHome` |
| `FilteringCumulative` | `Spec => []FilteringIsCumulative` |
| `RequestUriCorrect` | `Spec => []RequestUriIsEffective` |
| `ImplementsRedirectChain` | `Spec => IsRedirectChain`, that is `Spec => Chain!Spec` |
| `PayloadConsistent` | `Spec => []PayloadAgrees` |
| `OutcomeIsExplained` | `Spec => []OutcomeExplained` |

The assumptions are those on the constants (`UrisAssumption`, `LayersAssumption`,
`MaxLimitAssumption`, `HeadersAssumption`, `MethodsAssumption`,
`StatusesAssumption`): the sets have the types the code's types give them.

The inductive invariant is

    IInv == TypeOK /\ InFlight /\ Budget /\ CredentialsStayHome
              /\ FilteringIsCumulative /\ RequestUriIsEffective

- `WithinLimit` is not inductive: a state with the whole budget left after the
  last request would satisfy it and violate it one step later.  `Budget` says that
  requests sent and budget left together stay within the limit.
- `CredentialsStayHome` needs to know that the headers of the *next* request come
  from the last one: `InFlight` ties the fields of the future to `sent[Len(sent)]`.
  With it, a request that follows one with no credentials has none, and one that
  follows a request still at home is filtered as soon as the next URI has another
  origin.  `FilterCredentials` compares neighbours only; that it is enough for the
  whole chain is the induction.
- `RequestUriIsEffective` needs `uri = sent[Len(sent)].uri`, again `InFlight`.
- The refinement needs the same invariant: what a hop carries is compared with
  what the fields of the future hold, which `InFlight` ties to the last request,
  and its hops left with the budget.  `CallStarts` and `FollowHops` map the two
  steps that send a request, every other step ends the chain or stutters
  (`StepRefines`).

The lemmas are one for each policy (`LimitedOutcome`, `FilterCredentialsOutcome`,
`RedirectOutcome`), for filtering (`FilterOnlyRemoves`), for `eq_origin`
(`SameOriginSameTuple`: origins it accepts are equal as RFC 6454 tuples), and one
for each group of actions (`ResolvePreserves`, `CallPreserves`,
`FollowPreserves`), which `NextPreserves` combines.

`PayloadAgrees` and `OutcomeExplained` are proved from a second invariant on top of
`IInv`, `JInv`: it adds `Remembered`, which says what the fields of the future know of
the last request.  A `BodyRepr::None` means that the last request had data (an empty
body can always be cloned), and the budget is exact, not only bounded; without that
a policy that stops early would be compatible with the invariant.

### Readiness

`ReadinessProofs` proves, for any number of callers and permits, any bound on the
hops and every stack with at most one `FollowRedirect` layer
(`StacksAssumption`):

| Theorem | States |
|---|---|
| `ReadyBeforeCall` | `Spec => []OnlyReadyIsCalled` |
| `PermitsAccounted` | `Spec => []PermitsServeRequests` |

Neither is inductive: nothing in them says where the permit is while a request is
on its way.  `Accounted(c)` does, for every state of a caller and for the permits
that are there for its request (`Rest`, all but a `Leftover`): with its own
service when it is ready, in the future of the layer it is suspended in, with the
limited service while it runs, in the `Oneshot` before a hop, and nowhere while it
waits.  For an answered request it says that there is at most one permit, that it is
with the caller's own service only if a gate at the top refused the request, where
FollowRedirect does not see the answer, and that a permit in FollowRedirect's own
future, under an answer that is a redirection, was left by a gate that FollowRedirect
calls directly (`GateBelow`).  Every other permit is below FollowRedirect and dropped
with the answered future.  `BelowFollow` says that the later requests of a chain stay
below FollowRedirect, so that the service in its field is not moved again and a
leftover is never taken for the permit of a request.

The core of the proof is `DescendAccounted`: wherever a call comes to rest, each layer
it passed handed the permit on and left the leftover alone.  `StackFacts` says where the
one FollowRedirect is, `OthersAccounted` that the steps of one caller leave the others
alone.

### Timers

The second part of `ReadinessProofs`, for all three durations, zero included
(`TimeoutAssumption`), and any number of ticks, frames and late polls:

| Theorem | States |
|---|---|
| `TimeoutsAreNeverEarly` | `TimeoutSpec => []NeverEarly` |
| `NothingIsLate` | `TimeoutSpec => NeverLate`, an action property |

A `Sleep` knows how long it has left, the properties speak of how long the caller
has waited.  `CallClock`, `DeadlineClock` and `IdleClock` say that the two agree for
as long as a poll can still look at the sleep.  The idle sleep agrees with the wait
only while the deadline has not elapsed: afterwards a poll leaves it running though
nobody waits for a frame.  `StillOut` (what made the last poll time out still does)
is what makes a timeout final.

### Observers

`ObservedServiceProofs`, for every set of requests, every classifier, response,
sequence of frames, number of polls and number of handles (`LoadsAssumption`):

| Theorem | States |
|---|---|
| `CounterMissesNone` | `Spec => []CountIsBounded` |
| `EmitterMissesNone` | `Spec => []EmitterStopsLast` |
| `TraceIsExact` | `Spec => []CallbacksAreExact` |
| `EveryEndIsReported` | `Spec => []EndIsReported` |

The counter and the strong count of the `Arc` are two numbers that move at
different moments of a drop.  `CounterInv` relates each to a set of requests: the
count to the guards that are held, the strong count to the guards whose field is
still there, plus the handles and the emitter's clone (`Counted`).  `CountIsBounded`
follows, since whoever has a future or a body in progress holds its guard and only
those who still have one of the two do.  The emitter
stops when the strong count is one, so its own clone is the last.

The callbacks of `Trace` live in `Option`s that are emptied as they are called.
`RequestInv` says for each request what the remaining options mean: before the
response all are there (`BeforeResponse`), afterwards `on_eos` is there exactly until
an end was seen, `classify_eos` only while the body is open (`AfterResponse`), and
`on_failure` was called for what the classifier has rejected so far (`Judged`).
`Armed` says that a guard of `OnEarlyDrop` is armed exactly while what it guards is
unfinished.

### Coded bodies

`RoundTripProofs`, for every body, every number and length of its frames, every cut of
it that a codec makes, any number of empty frames on the way (`RoundTripAssumption`):

| Theorem | States |
|---|---|
| `DeliveryIsAlwaysFaithful` | `Spec => []DeliveryIsFaithful` |
| `VerdictIsAlwaysRight` | `Spec => []VerdictIsRight` |

`Spec` is that of `ForeignBody`, with both kinds of behaviour, and `BodyInv` says that
one begun as a round trip satisfies `TripInv` and one begun with a foreign body
`ForeignInv`, to the end.

Both properties compare texts, that is frames whose boundaries are forgotten, while
the code only ever sees pieces.

`TripInv` follows the text of the response through the pipeline.  `Flow` says that
what the caller has, what the decoder holds, its chunk, the wire, what the encoder
holds, its chunk and the frames it has not polled are neighbouring pieces of the text
or of the encoded text: each begins where the one before ends, so that no byte is
lost, repeated or out of order.  A step moves the boundary between two neighbours.
`EncoderIs`, `AppIs`, `WireIs`, `DecoderIs` and `SeenIs` say which ends and errors may
be where, and what the flags of `WrapBody` know of them; `Ledger` that trailers are at
one place at a time.  A prefix of the text alone would not be inductive: it does not
say what the decoder will add.

`ForeignInv` follows the decoder through a body it can trust in nothing: k frames are
taken and c bytes are decoded (`At`), the state of the codec is a function of those c
bytes (`CodecIs`), `read_some_data` of those k frames (`DataIs`), the set-aside frame
and the trailers are accounted for (`EndsAre`), and what was handed out, with what is
held, is what the c bytes decode to (`OutputIs`).  Once the decoder has finished, the
verdict is that of `WellFormed`, which is `Decodable` with the positions of the end
marks named (`Judged`).  Where a poll ends the body, one lemma for each way to end it
shows that the verdict drawn from k, c and the flags is the one drawn from the whole
body, the part nobody has looked at included.

`FlattenSeq` and `Plain` are recursive functions.  Their equations may be used because
functions that satisfy them exist, which is shown by induction on the length
(`GluedExists`, `StrippedExists`).

### Negotiation and headers

`CompressionStackProofs`, for all settings of the three middleware, all
`Accept-Encoding` headers and codings, any number of `Content-Encoding` lines and every
size bound (`StackAssumption` of `CompressionStack`):

| Theorem | States |
|---|---|
| `HeadersAlwaysTellTheTruth` | `Spec => []HeadersTellTheTruth` |
| `BothSidesCanAlwaysRead` | `Spec => []BothSidesCanRead` |
| `ChoiceIsAlwaysBest` | `Spec => []ChoiceIsBest` |

The assumption on messages is that a client and a handler tell the truth about the
bodies they make.  `CompressionInv` says that the request at each stage is what the
middleware so far make of the client's, and that the encoding chosen for a header that
`Decompression` wrote is one that both sides have (`RequestIs`); that the response is
likewise made from the handler's (`ResponseIs`); and why a request was refused
(`HandlerIs`).  Where the properties excuse a message, it is because its body has more
codings than its first line names (`FirstLineSaysAll`), which is when the code goes
wrong; with its lines still in place it is not excused.  The encoding chosen is the heart of `TransparentToClient`: `WrittenParts` shows that
`from_headers` never ends with a 406 or with a foreign encoding for such a header,
from `PreferredParts`, which shows that a greatest element of the list exists and is
chosen.

`ChoiceIsAlwaysBest` has an invariant of its own: `ChoiceInv` says that from `Compression` on
the encoding is what `from_headers` makes of the header that arrived.  The rest is
about that one operator: what it returns is acceptable to the client
(`ChoiceIsAcceptable`), and for a header that does not contradict itself it is a best
one by the definition of `Negotiation` (`ChoiceIsTheBest`), which speaks of weights of
names and not of lists.

### Files

`ServeDirProofs`, for every file system, configuration and request, and any number
of changes between any two backend calls (`ServeDirAssumption`):

| Theorem | States |
|---|---|
| `BestIsAlwaysFound` | `Spec => []BestIsFound` |
| `LengthIsAlwaysTrue` | `Spec => []LengthIsTrue` |
| `ConditionsAreAlwaysKept` | `Spec => []ConditionsAreKept` |

`ServeDirInv` is the conjunction of seven parts.  `World`: a revision stands for one
content, in the file system, the open file, its metadata and the client's copy, and
new revisions are unused; this is what makes an `ETag` mean something.  `Looping`:
before each turn of the opening loop the path is the target again, and every
encoding that was given up had no file; `AfterMiss` removes an extension and an
encoding together, and that the two stay in step is the induction.  `Chosen` is the
result of the loop.  `Streaming`: how far the body was read, and that an open file
nobody wrote to is the one whose metadata was read.  `Explained`: headers and
conditions were computed from that same metadata.  `Phases` and `Refused` are about
calls that end otherwise.

### Pages

`CrossOriginProofs`, for all origins, settings of `CorsLayer` and `CsrfLayer`,
clients and any number of fetches (`CrossOriginAssumption`):

| Theorem | States |
|---|---|
| `AccessIsAlwaysExact` | `Spec => []AccessIsExact` |
| `HandlerIsAlwaysProtected` | `Spec => []HandlerIsProtected` |
| `OriginIsAskedOnce` | `Spec => []NeverRepolled` |

`CrossOriginInv` needs four things that the properties do not say.  `Polling`: the
headers collected by the future are those of `call`, with the origin's exactly when
the check is marked complete.  `Cached` and `Served`: every response in the cache is
one that `Cors` makes for the request it is stored under, and what a browser sees is
the answer to its own request or to one that `Vary` equates with it; the lemmas then
show that equated requests get the same grant.  `Passed`: beyond the preflight only
with the grant of the settings.  `Reach`: the handler was called if and only if
`verify` let the request pass.

### A stack of middleware

`MiddlewareStackProofs`, for stacks of any depth, every request and every path
(`StackAssumption` of `MiddlewareStack`):

| Theorem | States |
|---|---|
| `PathIsAlwaysNormal` | `Spec => []PathIsNormal` |
| `PanicIsAlwaysContained` | `Spec => []PanicIsContained` |
| `RequestIdIsAlwaysCarried` | `Spec => []RequestIdIsCarried` |
| `SecretsAreAlwaysMarked` | `Spec => []SecretsStayMarked` |
| `GatesAlwaysDecide` | `Spec => []GatesDecide` |
| `BodyIsAlwaysWithinLimit` | `Spec => []BodyWithinLimit` |

`StackInv` holds the two histories together: `Shape` (which calls and results
exist), `Messages` (URIs keep their type through every layer), `Normal` (each
`NormalizePath` layer passed on its function of what it was given), and `Fates`.
`PanicIsContained` is about the whole stack; `Fate(i, b, r)` is the same verdict about
the part of the stack from layer i on, so that one layer at a time can be added on
the way up.  The path lemmas show what trimming leaves at both ends of any sequence,
by the least and the greatest index of another character.

The other four properties compare messages at two places of the stack, possibly far
apart.  `ExchangeInv` adds to `StackInv` the history of every layer: the request below
a layer is what its `call` made of the one above (`Passed`), the result above is what
its future made of the one below and of what it kept (`Returned`), or the layer
answered itself (`Refused`); the headers and bodies keep their form (`Contents`), and
what the handler has read of the body is within every limit around it (`Reading`).
From one layer to the next the properties then follow by the lemmas about that step,
and over any distance by induction on the depth:

- `RequestIdIsAlwaysCarried`: the id goes down from `SetRequestId` to the handler
  (`IdGoesIn`), is kept by the future of `PropagateRequestId`, and comes up again
  (`IdComesBack`), through layers that do not touch the header or the extension.
- `SecretsAreAlwaysMarked`: no layer that leaves a header alone unmarks its values, in
  either direction, and a value that `PropagateHeader` copies keeps its mark.
- `GatesAlwaysDecide`: a layer that lets a request pass was satisfied by it as it
  arrived there, so the outermost gate that is not is the one that answers; the
  operators of `RequestGates` agree with the definition of a violation in terms of
  values and ranges (`AcceptIs`, `ViolatesIs`).
- `BodyIsAlwaysWithinLimit`: `Through` is monotone and `Limited` stops at its limit, so
  that a failing read means a body that is too long at the place of some limit, and
  the wrappers a request has gathered are those of the layers it passed (`WrapsIs`,
  `WrappedIs`).

### What the assumptions say

- Types: the settings, requests, messages, trees and loads that TLC or a theorem
  ranges over have the types of the code.
- Facts of the code: the origins of `AllowOrigin::list` contain no `*`, where `list`
  panics (`OriginType`).
- Encoding of absence: no origin or host is written like a missing header or a
  wildcard, no coding is the empty string, no path is `NoPath`.
- `World` at the start: two files with the same revision have the same length, and
  `FirstRev` is above all revisions in use.

### Induction over data

The operators that compute with sequences (`FromHeaders`, `preferred_encoding`,
`Size`, `Through`, `Plain`, ...) are written with recursive functions or with `CHOOSE`
and a set, and no theorem that takes an operator as a parameter is used.  An induction
is over a *set* of numbers: those for which the claim holds contain 0 and with n also
n + 1, so they are all numbers (`FromZero`, by the least number that is missing).

### What is only model-checked

- `Resolves`, `CallsEnd`, `EmitterStops`, `WaitEnds`, `Ends`, `Answered` and `FetchEnds`:
  liveness under fairness, out of the prover's reach.
- The three violated runs.

## 5. What the code does that a reader may not expect

Three runs show disagreements between the code and its documentation:

- `observed_body_error`: with the HTTP classifiers a body that fails is never
  reported to `on_failure`, which `trace/mod.rs` says it is.
- `in_flight_consumed`: a request whose body was consumed, or failed, is counted as in
  flight until the body is dropped, while the head of `metrics/in_flight_requests.rs`
  says that the request is complete when its body is consumed or an error happens.
  `CountIsBounded` says what does hold of the count.
- `coded_twice`: with several `Content-Encoding` lines the first coding is undone and
  all lines are removed (`decompression/request/service.rs:65`,
  `decompression/future.rs:70`), so that a handler, or a client, is given a body that is
  still coded, or was decoded in the wrong order, and nothing that says so.

Others were met while modelling and are part of the models:

- A validator that answers with a redirection (`validate_request.rs:391`) below
  FollowRedirect leaves the permit of its inner service unused in the future's `service`
  field (`follow_redirect/mod.rs:272`), while the next request waits for a clone to
  become ready (`:383`).  The caller waits with a permit in hand, and if the service
  admits one request only, it waits for ever (`Leftover` in `PermitsServeRequests`,
  `Stranded` in `CallsEnd`).  An authorizer or a service that answers with a redirection
  has taken the permit into its own future, and that is dropped first.
- `BodyIntoStream::poll_frame` polls the inner body again after it returned `None`
  (`compression_utils.rs:371`), which a comment in the same file says must not happen
  (`TailPolls`).
- The documentation of `run_emitter` says that it loops forever; it returns when
  it is the last owner of the counter (`EmitterStopsLast`, `EmitterStops`).
- What follows the end mark in the same frame of a compressed body is dropped
  without an error, while the same bytes in a frame of their own are one
  (`compression_utils.rs:245`).  `Decodable` describes the line that is drawn.
- A body of empty data frames only fails to decode, one without any frame decodes
  to nothing.
- `SizeAbove` compresses bodies of exactly the minimum size (`>=`), where its
  documentation says larger ones.
- A repeated element of `Accept-Encoding` counts by its first weight when there is
  a wildcard and by its greatest when there is none; `ChoiceIsBest` promises the
  best encoding for consistent headers and an acceptable one for the others.
- A file name with a NUL byte gives 404 to `GET` and 500 to `HEAD`.  `If-Range` is
  not looked at.  A range of an empty file that is served as a range reads with a
  limit of one byte.
- When the allowed origin is a constant, `Vary` does not announce that credentials
  depend on the origin through a predicate, and a custom `Vary` that does not name
  the origin is taken as it is: `Announced` excludes both from `AccessIsExact`.  A credentials
  predicate beside a wildcard origin is not
  refused by `ensure_usable_cors_rules`.
- An `Access-Control-Allow-Origin` header that the handler set itself survives
  where `Cors` has nothing to say (`HandlerGrants`).
- A caller that keeps its service and whose request is refused in `call` (by
  `ValidateRequestHeader`, `RequestBodyLimit`, or `ServeDir` for another method)
  leaves the readiness it reserved unused until its next request; with enough such
  idle callers nobody else gets a permit (`Stranded` in `CallsEnd`).
- `ServeDir` holds the ready fallback, and its permit, while it looks for the file.
- `append_trailing_slash` leaves `//a/` as it is and turns `//a` into `/a/`; the `*`
  of `OPTIONS` becomes `/*/`.
- `DefaultResponseForPanic` is documented to have an empty body; it is "Service
  panicked".  A panic of the response body is not caught by `CatchPanic`.
- A body that `map_request_body` makes longer outside of `RequestBodyLimit` is cut
  at the `Content-Length` of the original.
- The extension `RequestId` may hold the id of another `SetRequestId` layer with
  another header, or the caller's where the caller set one itself and a different
  header; `RequestIdIsCarried` is about one header and leaves that caller out.
- A layer below `SetSensitiveRequestHeaders` that writes a listed header
  (`SetRequestHeader`, `AddAuthorization` without `as_sensitive`) writes it unmarked.
- For a browser without `Sec-Fetch-Site`, `Csrf` compares hosts only, so that a page
  of the same host under the other of `http` and `https` passes; origins of any other
  scheme do not.

## 6. What is not modelled

- Text: header and URI syntax, percent-decoding, MIME types, log lines, span
  fields, latencies, the bytes of codecs.  Requests arrive split into what the code
  decides on.
- Readiness of the middleware that forward `call` at once: it is that of the inner
  service.  More than one `FollowRedirect` in a stack of `Readiness`.
- `follow_redirect`'s closures other than `CloneBodyFn`; custom classifiers and
  callbacks; `MapFailureClass`.
- Compression levels, `size_hint` and the accessors of bodies; request-side
  timeouts, which wrap request bodies in the same two types.
- `ServeDir`: several entity tags in one header, Windows device names, custom
  backends beyond what `Backend`'s results allow.
- `Cors`: `Max-Age`.  `Csrf`: custom rejection responses, several `Origin` lines.
- `MiddlewareStack`: base64 and the text of credentials, parsing of media types
  (lines are named with the ranges they have), functions of a user other than the
  samples named in the model, panics outside of the handler.
- `MapFailureClass`, which applies a user's function to a failure class; builders,
  extension traits and macros, which have no behaviour of their own.

## 7. Plan

Done, in this order: redirects with their proofs, observers, timers, coded bodies,
negotiation and headers, files, pages; readiness with its proofs, the stack of small
middleware, and the abstract chain of redirects; then the proofs about timers,
observers, the rest of redirects, pages, the stack, files and compression;
then the rest of the stack, the choice of an encoding, and the coded bodies, so that
no invariant and no action property of a run is without a theorem.

What is left is liveness, which stays with TLC.  A next step for the model is
`BestIsFound` where a file changed during the loop of variants: it then promises the
right variant for its `Content-Encoding`, and not which of them.
