# Verification of service-gateway

TLA+ modules that model the gateway under `src/`, TLC runs that check them on
small instances, and TLAPS proofs of the properties that hold for every
instance. Line numbers refer to the files under `src/`.

The program is an HTTP gateway. Requests to `/gateway` are looked up in a
database, checked, forwarded to the API registered for their path and logged to
Kafka (the dynamic gateway); requests to `/` are forwarded along routes that
are declared in code or listed in a YAML file. A correlation header,
`X-Fw-Header`, goes along with every request and answer.

## 1. Inventory

| Component | State | Operations | Talks to |
|---|---|---|---|
| Entry point, `cmd/gateway/main.go` | server, deferred calls | load configuration, build tracer, table, repository, publisher, register routes, serve, signal, `Shutdown` (5 s), exit | everything |
| Log publisher, `kafkax/producer.go` | channel of 1000 events, `closed`, one goroutine, Kafka writer | `Publish`, `loop`, `Close` | handlers (channel), Kafka |
| Circuit breaker, `middleware/circuitbreaker.go` | state, failures, lastFailure, probing, under a mutex | `allow`, `onResult` around an unlocked call | next handler |
| Rate limiter, `middleware/ratelimiter.go` | a token bucket of x/time/rate | `Middleware` (asks), `WaitMiddleware` (waits up to a limit) | next handler |
| `FwHeaderTrace`, `middleware/fw_header_trace.go`, and `header/header.go` | per request: the header it made | ensure on the way in, bump and overwrite on the way out | every handler's `ResponseWriter` |
| Dynamic gateway, `handlers/gateway_dynamic.go` | per request only | `Post`, `returnlog` | repository, publisher, upstream |
| Repository, `store/mariadb/mariadb.go` | the tables, edited by others; a pool of connections | `New`, five queries, `checkControlCodes`, `Close` | MariaDB |
| Code gateway, `gateway/gateway.go`, `gateway/validation.go` | routes (fixed) | `toPattern`; `Handler`: validate, acknowledge, forward | adapter, a goroutine per acknowledged request |
| HTTP adapter, `router/adapter/http/http.go` | HTTP client | `Proxy`, `BuildUpstreamPath` | upstream |
| Router, `router/router.go` | tables (fixed) | `compliePattern`, `MatchRoute` | code gateway, YAML fallback |
| Body limit, `middleware/body_limit.go` | none | limit | next handler's reads |
| Proxy headers, httpx, observability, configuration, tracing | none | | |
| `proto/` | generated, imported by nobody | | |

A request passes the access log, `FwHeaderTrace`, the proxy headers and the body
limit on its way to the mux; breaker and rate limiter are there to be put into
this chain, but `main.go` (325-328) has them commented out.

What is hard in it:

- **Concurrency.** Handlers share the publisher (a channel) and, where it is
  used, the breaker (a mutex held only around the decision and around the
  result). Nothing else of the program is shared by two requests. An
  acknowledged request goes on in a goroutine that outlives its handler, whose
  end cancels its context and closes its body. Requests that wait for the rate
  limiter hold reservations of tokens that have not come yet.
- **Start.** Seven steps that may each fail, some by `log.Fatal`, some by a panic.
- **Shutdown.** Signal, `Shutdown` with a time limit, deferred `Close`, while
  handlers publish and Kafka may not answer.
- **Change underneath.** A request makes up to seven statements against tables
  that others edit, outside any transaction.
- **Failure.** Any query, write, read or call may fail or time out; several
  errors are dropped on purpose; a handler may panic, which net/http recovers.
- **Time.** `ReadTimeout`, `WriteTimeout`, the timeouts of two HTTP clients, and
  queries that have none; who sees first that somebody has left?
- **Headers.** Two writers of `X-Fw-Header` per answer and three kinds of bump.
- **Edges.** A full channel, a threshold of zero, a probe that never reports,
  a body that passes the limit while it is read, an answer that is cut short,
  strings compared as moments, patterns rewritten twice.

What makes the parts correct, in short: the publisher never blocks a request,
keeps the order of each handler's events, and stops cleanly; the breaker gives
the upstream its pause whatever results come late, and closes again; a request
goes upstream only after every check has been passed since it arrived, and its
answer is traced and logged consistently; the process ends once it is told to;
a client is answered once and truthfully, never takes part of an answer of
declared length for the whole, and a validated route forwards what has been
validated; the limiter keeps its rate, bounds the line of those who wait and
refuses nobody without need.

`PROJECT.json` lists every component with what is modelled of it, and every
hazard with its line and the properties about it.

## 2. Modules

| Module | Models | Composition |
|---|---|---|
| `LossyLog` | what `Publisher` promises: a best-effort FIFO log | abstract |
| `Publisher` | `producer.go` 142-193 | implements `LossyLog` |
| `Lifecycle` | `main()`, handlers as users of log and repository | composes `Publisher` by INSTANCE |
| `AdmissionGate` | what a breaker promises its upstream | abstract |
| `CircuitBreaker` | `circuitbreaker.go` | implements `AdmissionGate` |
| `RateLimiter` | `ratelimiter.go` and the bucket it uses | alone |
| `FwHeader` | the functions of `header.go` | data |
| `Repository` | the queries of `mariadb.go` and the tables | extends `FwHeader` |
| `DynamicGateway` | `FwHeaderTrace`, `Post`, `returnlog` | extends `Repository` |
| `Exchange` | what a gateway promises client and upstream of one request | abstract |
| `CodeGateway` | body limit, `gateway.Handler`, YAML fallback, `Proxy` | implements `Exchange` |
| `ControlCodes` | `checkControlCodes` | alone |
| `Routing` | `toPattern`, `compliePattern`, `MatchRoute`, `BuildUpstreamPath` | alone |
| `Algorithms` | one request through both | composes `ControlCodes` and `Routing` by INSTANCE |
| `Deadlines` | the timeouts around the handlers of both gateways | alone |

`MC*` modules give the constants values for TLC; `*Proofs` modules hold the
theorems. Three of the `MC*` modules hold two systems side by side that share
nothing, so that one run checks both: `MCMiddleware` (`CircuitBreaker` and
`RateLimiter`) and `MCLifecycle` (`Lifecycle` and `Deadlines`) choose in their
initial state which of the two a behaviour is about, and in `MCCodeGateway`
(`CodeGateway` and `Algorithms`) one of them has an input of no consequence. The
names of what the modules define at top level are distinct for this. Operators
commented "Mutated form" are not part of a specification: each is a plausible bug,
and `PROJECT.json` names the property that finds it.

### Publisher

`ch` is `p.ch`; `loop` and `closer` are the control points of `loop()` and
`Close()`; `current` is the event inside `WriteMessages`. A call of `Publish`
is one `select`, hence one step: `Enqueue`, `Drop` or `SendOnClosed` (a panic).
`loop()` takes the two steps select and write; `ExitSignalled` is enabled
together with `Receive`, as Go picks any ready case. Every statement of `Close`
is a step. `written`, `failed`, `dropped` are histories. The payload is the
pair of handler and call number. `written` means that `WriteMessages` returned
nil; retries inside kafka-go, which may store an event twice or store one that
is reported as failed, are behind that call and not modelled.

### Lifecycle

The control points of `main()` around an instance of `Publisher`. `open` is the
stack of deferred calls: the tracer's shutdown, `repo.Close` and `pub.Close`, each
pushed by the step that acquires the resource and popped when `main` returns or
panics. `StartFails` and `ListenFails` are `log.Fatal`, which runs none of them.
`Register` follows the calls of the mux in order, and `Panics` is the pattern
that is there already, or one that does not compile (`NewTable`). `PatternLists`
holds the list that `main` has, with `/` twice, and the same without the second,
so that serving and stopping are reached too. With `kafka` false the publisher is
`Noop()`. A handler is accepted, queries, publishes and finishes; `busy` is what
`Shutdown` waits for, and `orphaned` who queried a closed repository. A panic of a
handler ends its request, not the process. A signal before `signal.Notify` (line
348) kills the process at any point of the start and is left out; so are the
calls that set up the client and the middleware, which cannot fail.

### CircuitBreaker

`allow` and `onResult` run under the mutex and are one step each; between them
the request is in `req`, as "passed" or "probe" (what the code does not
remember). Time is `Tick`; `age` is the time since `cb.lastFailure`, capped at
`OpenTimeout`, beyond which the code cannot tell. `Panic` skips `onResult`.
The main program has the line that installs the breaker commented out
(`main.go` 325-328): it is modelled as the package offers it.

### RateLimiter

Time passes in ticks and a token comes every `Interval` of them, so `credit`, the
content of the bucket, is a number of ticks; it is below zero when tokens to come
have been reserved. A waiting request has the distance to its token (`until`) and
to the end of its context (`left`). `Returned` is what `Reservation.Cancel` gives
back: less than a token if others have reserved after it, nothing once its time
has come. `Reserve` refuses a request whose token would come after its time limit.
Timers run up to `Late` ticks after they are due. Rates are whole numbers
of ticks to a token; float rounding is not modelled.

### FwHeader, Repository, DynamicGateway

A header is a record of the three items that matter; a generated TCID is a pair
of request and place, distinct by construction as eight random characters make
it. A query is the set of results it may return on the current tables, always
including an error. The tables hold one path, since a request asks for one.
`Post` is cut into steps at its queries and at the upstream call; what happens
between two of them is local and belongs to the step. `Prepare` refuses an API
without a host, and may refuse one with a host, whose URL with the one of the
body need not parse (`gateway_dynamic.go` 277). The order of checks, logs,
early returns and header writes is the code's, with both calls of
`WriteHeader` on success. `EditTables` changes any one row between two steps.
`seen` records which approvals held since the request arrived.

Requests share only the tables, which they do not write, and the publisher,
which never makes them wait and is modelled apart. One request and an
environment that edits therefore show every behaviour of a request: `RunsAlone`
proves it, for the module is parameterised by the set of requests.

### ControlCodes

A string of digits is a sequence of two-digit numbers, so comparing them
element by element compares as Go does. The module exists because the code
compares a moment with its date to ends without one: `RefusedInWindow` is what the
comments promise, `RefusedByMonth` what the comparison amounts to.

### CodeGateway

One request and all that runs for it: handler, background goroutine, client and
upstream. A route is what its handling depends on: its table, whether it
validates, acknowledges, has one of the two session names, has a `path_rewrite`. A
read of the body gives all of it, or a part and an error; `Returned` says that
net/http has cancelled the context and closed the body, which the background still
uses. `Write` is the client's writer for the handler and the discarding one for
the background. Contents are "nothing", "part", "keyed", "valid", "invalid" or
"session": a body that is cut off leaves a part that is no document, or, when it
is cut in trailing white space or in a second document, a complete one, and that
may have a key ("keyed"); `SessionOf` finds the session in a whole body and in
such a part alike, as `Proxy` drops the error of the read. `reply` is what the
client has of the upstream's answer: the session header, a declared length
(`sized` says that the upstream declared one) and the body, which it sees to be
broken only against a declared length. An answer that net/http's client unzips
loses its length like a chunked one. Redirects and retries inside that client are
not modelled.

`Exchange` is the same request as client and upstream see it, without routes and
goroutines: refuse, acknowledge, call, give up, respond, deliver. Its `acceptable`
is what the upstream takes: the client's whole valid body on a validated route,
anything on another.

### Routing

A path is a sequence of segments and a segment a tuple of the pieces the code
looks at, so that `{id:7}` is one segment of five pieces. `toPattern` gives every
variable a regular expression; `SegmentMatches` says what `compliePattern` makes
of it: `{name}` matches any segment, `{name:rx}` only itself with a value in place
of `rx`. Prefixes are compared as strings, so `/api/update` matches
`/api/updates`. The loop of `applyPathParams` is one step per variable, taken in
any order, since Go walks over a map in any; `todo` holds the variables it has yet
to come to, and `Send` is the end of the loop. `TypedVariablesServe` is what the
comments promise of typed variables, `VariablesNeedBraces` what the two functions
amount to. Not modelled: metacharacters in the text of a pattern, the
type `path`, whose expression spans segments, and variables that are a part of a
segment.

### Deadlines

One request on its connection. `writeBy` is the connection's write deadline, set
when the header has been read; `callBy` the client's. `watched` says that net/http
has read the body to its end and so notices a client that leaves, which cancels
the context (`Cancelled`), the only thing that bounds a query. A part-read body is
not watched. The dynamic gateway looks up its first log point before it reads the
body; while that query hangs a client with a body is not noticed. Only small
answers are modelled, which net/http keeps until the handler returns. Only waiting
takes time, and clocks stop at `MaxTime`.

## 3. Runs

Constants are in the `.cfg` files and the `MC*` modules; each run finishes within
about half a minute. A passing run checks invariants, refinement and liveness of
its components together.

| Run | Bounds | Shows |
|---|---|---|
| `publisher` | 2 handlers, channel of 2, 3 calls each | order, accounting, closing; handlers never wait, `Close` returns, the backlog moves; refinement of `LossyLog` |
| `middleware`: breaker | 3 requests, threshold argument 0 (so 5), timeout of 3 ticks, 1 panic | consistency, refinement of `AdmissionGate`, recovery |
| `middleware`: limiter | 4 clients, 2 ticks to a token, bucket of 2, limit of 4 ticks, timers 1 late | rate, bounded queue, justified refusals, waits that end |
| `gateway` | 1 request, 2 APIs in 2 groups, 1 hosted, 1 edit | approvals, trace, log, end of requests |
| `lifecycle`: process | 2 handlers, channel of 1, 2 calls, both lists of patterns, Kafka or not | start, shutdown, end of the process |
| `lifecycle`: one request | the seconds of `gateway.yaml`: 5, 5, 5 and 2, up to 20 | what a timeout tells the client, how long a handler is held |
| `proxy`: code gateway | 7 kinds of route, all shapes of a request | forwarding, answers, sessions, end of handler and background; refinement of `Exchange` |
| `proxy`: algorithms | 2 hours, 2 seconds, 2 dates; fixed paths and all values of 3 patterns, 2 methods | substitution of path variables |

Why these are enough. With a channel of 2 and 6 events the channel is empty,
partly full, full and overrun, and two handlers suffice for an order to go
wrong; three requests are the least with which one is stale while two probes
overlap; three ticks are the least at which a stale failure falls strictly inside
a pause. Four clients drain a bucket of two, queue behind each other so that the
reservation of one is cancelled under another, and one finds the line full: the
bound of the queue is 3 here, for 4 clients. One
edit between any two queries withdraws or grants any approval, or
replaces the API found by another (an edit assigns a whole row); more of them
are covered by the proofs. In `window`, 20:25:11 is among the moments because it
reads like a year and a month. Among the values of a path variable are ones that
read like variables. Twenty seconds are more than
the 17 of the longest proxied request. A capacity of 1000
differs in no branch. `MaxCalls`, `MaxEdits`, `MaxPanics` and `MaxTime` are the
bounds on the environment. Deadlock is checked for the middlewares, which run for
ever; the other systems stop when their requests or their process
are over.

Runs that expect a violation show where the code does other than its comments
say; `PROJECT.json` quotes each.

| Run | What happens |
|---|---|
| `publisher_drain` | `Close` returns with accepted events unwritten |
| `breaker_panic` | a probe that panics leaves the breaker in Half-Open for ever |
| `lifecycle_publish` | after a `Shutdown` that timed out, `Publish` panics |
| `proxy_ack` | an acknowledged request is never forwarded |
| `window` | an API with control code 08 is open inside its window of the day: the window is compared with year and month |
| `typed` | `/api/v1/users/7` falls through to the YAML routes, for `/api/v1/users/{id:int}` is matched literally, braces included |
| `tcid` | a caller that sends a TCID is answered with another |

### Other differences from the comments

Reading the code for the models showed these too. The models have the code's
behaviour in each, but where said otherwise; none has a run of its own.

- `main.go` 302: `/` is registered at 207 already, and the mux panics, so `main` as
  it is ends before it listens. `Lifecycle` takes this list of patterns and one
  without the repetition; `OrderlyExit` says what the panic leaves closed.
- `gateway_dynamic.go` 309: a POST without data has no upstream body, and reading
  it for the outbound log, if that is switched on, panics; the caller gets no
  answer (`panicked` in `DynamicGateway`). 320 speaks of restoring the body.
- `http.go` 192 escapes a value before it goes into `url.URL.Path`, which is escaped
  again when it is sent, so a space arrives as `%2520`. `Routing` ends at the path.
- `main.go` 116-129: `require_session` of a route is read from the file and never
  reaches the table; `Proxy` goes by the name of a route instead (`CodeGateway` does
  what `Proxy` does).
- `http.go` 20 speaks of a client with timeouts; at 35 it exceeds the
  `WriteTimeout`, and so does the dynamic gateway's from the moment it starts: the
  502 of an upstream that is late is written to a connection that takes nothing
  any more (`TimeoutIsSilent`).
- `mariadb.go` 37-46: the connection has no timeouts. A query that hangs holds its
  handler until the client is seen to leave, for a POST not before its body is
  read (`LeavingFreesHandler`).
- `main.go` 101, 136, 177 and 343: `log.Fatal` skips what has been deferred, the
  publisher's backlog included (excepted from `OrderlyExit`).
- `ratelimiter.go` 92: a request that gives up its place while others wait behind
  it forfeits its token, which nobody gets (`Returned`; `RefusalIsJust` says so).
- `http.go` 170: a client of an answer without a declared length takes a part for
  the whole (`DeclaredIsWhole` is about the others).
- `circuitbreaker.go` 144: a late success of a request from before the breaker
  opened closes it while the probe is still out. 125: a late failure reopens it,
  and after the pause a second probe joins the first. `ImplementsGate` and
  `RecoveryUnlessPanic` say what is left of the promise.
- `fw_header_trace.go` 13-14 calls the TCID the only correlation id;
  `gateway_dynamic.go` 113 makes a second one, and the events of one request bear
  one or the other. 16: the event of an error answer keeps the hop number of the
  request (`gateway_dynamic.go` 502).
- `gateway_dynamic.go` 133 names four types of event; type 22, what was received
  from the upstream, is never written. 95: the service code of the caller is
  overwritten before the role check can see it.
- `main.go` 232, with `http.go` 60: the error of reading a body is dropped, and
  the part read is forwarded as a whole. `ForwardedIsChecked` shows that a route
  that validates is safe from this. On the route that saves users a part may still
  be a complete document with a key, and then its session is told with the answer
  to the part (`SessionIsForwarded` says with which bodies that is so).
- `body_limit.go` 19: a body that passes the limit while it is read is answered
  400 or forwarded in part, never 413.
- `configs/gateway.yaml` 111-118 enables a circuit breaker and a rate limiter; no
  code reads that, and `main.go` 325-328 has both commented out.
- `main.go` 226, with `http.go` 53: the query string is lost (not in the model).
- `mariadb.go` 34: with the database disabled every query of the mock says yes.

### Fairness

Weak fairness is assumed only of what Go or a timeout moves on: a handler inside
`Publish` (never blocks), `loop` (each write has `cfg.Timeout`), `Close` once it
is called, `main` between its start or the signal and its exit, the steps of a
gateway request between its queries (`ReadTimeout` and the client's timeout bound
them), `Handle` and `Proxy` (`ReadTimeout` and the client's `Timeout`), and in
`Deadlines` what the handler does by itself once a deadline or the context has
come. Queries of the database have no timeout, so their answers are not part of
`DynamicGateway`'s fairness; `EveryRequestEnds` has them as a premise, and
`LeavingFreesHandler` says what holds without it. In `Publisher` the specification
is fair to the handlers alone, and `CloseReturns` and `BacklogMoves` state the
fairness of `loop` and `Close` they need, so that `HandlersFinish` shows that
publishing does not depend on `loop`. For the limiter: time passes and timers that
are due run. For the breaker's recovery: the clock, requests that end, and
requests that keep arriving. Nothing is assumed of Kafka, of the upstream's
answer, of a client, of signals or of who edits the tables.

## 4. Proofs

Every invariant of a passing run is proved for all values of the constants, and
so are the three refinements. All constants are arbitrary,
but for the named assumptions: a positive capacity,
natural bounds, an integer threshold, a positive interval and burst, a finite set
of requests for the limiter, `GroupOf` a function, the gateway's code
not the empty one, only YAML routes with the two session names, a dynamic
timeout of at least the `WriteTimeout` (in the program both are 5 s), windows of
numbers of two digits, and paths and patterns that are sequences of pieces of
text, none of the code's patterns empty.

- **`PublisherProofs`.** `TypeOK`, then `HandoverInv`: the three stretches of an
  event's way, `written`, `current` and `ch`, are each ordered, each precedes
  the next, and none holds an event of a call not made. `HandlerOrder` alone is
  not inductive, since an event moves into `written` from `current` and there
  from `ch`. `EveryEventAccounted` says that the places of an event are a partition
  of the calls that have returned. `WriterClosedLast` is inductive with the types.
  `PublisherImplementsLossyLog` maps each step to a step of `LossyLog`
  (`current \o ch` is what is pending) and needs `WriterClosedLast`, because
  nothing may be delivered once the log has stopped.
- **`LifecycleProofs`.** `ShutdownInv` says who may be busy at which point of
  `main`; `DrainedIsSafe` follows because a send on a closed channel, or a query of
  a closed repository, needs a busy handler. `OrderlyExit` rests on what `open` is
  at each point (`OpenInv`) and on a loop that is quiet unless the publisher is
  open (`LogInv`). `ImplementsPublisher`: every step of the process is one of
  `Publisher` or leaves it alone, so the theorems about `Publisher` carry over:
  `ProcessKeepsEvents` and `ProcessImplementsLossyLog` state them of the process,
  with its start, signals and shutdown, by an INSTANCE of `PublisherProofs`.
- **`CircuitBreakerProofs`.** `BreakerInv` with the types is inductive; late
  results are covered because it never mentions who sent them. `ProbeAlive`
  needs it. `BreakerImplementsGate` maps the wait of the gate to what is left of
  `OpenTimeout` since the later of the last probe and the last opening.
  `PauseTheorem` says the same as an observer with a stop watch sees it, who may
  start at any moment: while the breaker is not closed at most 1 + w / `OpenTimeout`
  requests get through in w ticks, and from the moment it opens w / `OpenTimeout`.
  `RecoveryTheorem` is what `RecoveryUnlessPanic` rests on besides fairness: while
  the upstream is healthy `Distance` from being closed never grows, and the clock,
  arrivals and results each bring it down where they are what is waited for. Until
  a handler panics, `ProbeAlive` has a probe there whose result is to come.
- **`RateLimiterProofs`.** `RateBound` says nothing of the tokens that waiting
  requests have reserved and will use. The invariant adds that reserved tokens come
  an interval apart, none after the bucket is back at zero, and that the bound holds
  when all requests with a token in the next d ticks have been let through, for
  every d. `RefusalIsJust` is inductive with the types.
  `WindowTheorem` follows for an observer who starts at any moment: in w ticks at
  most `Burst` + (w + `Late`) / `Interval` requests get through. `QueueBound`
  counts who waits: no more than 1 + (`MaxWait` + `Late`) / `Interval`, since their
  tokens are an interval apart and none is further off than its time limit.
- **`DeadlinesProofs`.** The write deadline never lies further off than one that
  begins now, so it is over when a call that begins now times out.
- **`DynamicGatewayProofs`.** `ApprovedInv` ties how far a request has got to the
  approvals in `seen`, and says that `seen` holds all that the tables say now, so
  a query that succeeds has its approval there. `TraceInv` says where the two
  headers are at each point. `RecordInv` says which events have been logged at
  each point, by how the log points were switched; from it follow
  `LoggedAsAnswered` and `TrailComplete`. All are proved per request. `RunsAlone`:
  what one request and the tables do among any number of others is a behaviour of
  the gateway with that request alone. Every function is cut down to the one
  request; a step of another is then a stutter and an edit is an edit.
- **`CodeGatewayProofs`.** The inductive invariant says that the background starts
  only after a 202 (`Handover`), that the call is made by the one thread that then
  waits (`OneCall`), that past the validation `raw` is the client's body
  (`Passed`), what a declared length in `reply` rests on, and that a session is in
  `reply` exactly when the upstream's answer is that of the saving route to a body
  in which it was found. `StatusIsTrue`, a part of it, is no property of a run:
  the exchange implies it (`ExchangeIsTrue`). `GatewayImplementsExchange` maps
  each step of handler and background to one of `Exchange` or to none, and needs
  besides that a body is copied only behind the upstream's status (`Relayed`).
- **`AlgorithmsProofs`.** The first two theorems say what the code does in place
  of the two claims that `window` and `typed` refute. `WindowTheorem`: comparing
  sequences of two-digit numbers element by element is comparing three numbers,
  which a case distinction on the first that differs shows; hence what the missing
  end of a moment amounts to. `BracesTheorem`: a segment rewritten by `toPattern`
  and read by `compliePattern` matches itself, braces included
  (`SegmentInBraces`), and `MatchRoute` returns a route that matches, if there is
  one. `SubstitutionTheorem`: at every point of the loop the variables that are
  not in `todo` have been replaced and the others have not; a value that was put
  in is escaped and so has no brace, and no later step can take it for a variable.
  The loop needs no induction over the path, since each of its steps is an action.

Only model-checked: every liveness property, since liveness under fairness and
ENABLED are out of the prover's reach, and so is induction over data; of the
recovery of the breaker the part without fairness is proved. No module declares a
recursive operator. `PauseTheorem`, `RecoveryTheorem`,
`WindowTheorem` of the limiter, `RunsAlone` and the two `Process`
theorems say more than any property of a run, and no run checks them; nor
`WindowTheorem` and `BracesTheorem` of the algorithms, which describe code whose
comments say otherwise.

## 5. Not modelled

- The translation of the configuration into options, SASL and TLS set-up; the mock
  repository; the pool of 20 database connections, but as queries that take any
  time; what the tracing exporter does.
- Access log, health check, X-Forwarded-* headers, JSON answers: no state and no
  order that could go wrong. The generated gRPC code is imported by nobody.
- Text formats (`Parse`, `Serialize`, JSON, SQL) are represented by what they keep
  and lose.
- What kafka-go does inside one call of `WriteMessages`, partitions among it, and
  what net/http's client does inside one `Do` (redirects, repeated attempts).
- Real time, but for the ticks of `CircuitBreaker`, `RateLimiter` and `Deadlines`;
  elsewhere a timeout may happen at any moment.

What is left of the program is pure text processing and library code; the
behaviours that steps of several actors can reach are in the modules above.
