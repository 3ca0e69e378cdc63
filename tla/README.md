# OxyRoute in TLA+

OxyRoute is a web framework for the RSGI server Granian: a native extension in Rust
(`src/src/*.rs`) that registers routes and dispatches requests, and a Python package
(`src/oxyroute/*.py`) around it. This directory models the parts of it that keep shared
state or whose order of steps matters, checks them with TLC on small instances, and proves
the central results with TLAPS for every value of the constants.

`PROJECT.json` is the index: components, runs, the source lines behind every definition,
hazards, mutants, findings and theorems. Paths below are relative to the repository root.

## 1. Inventory

| Component | State | Operations | Module |
|---|---|---|---|
| Route registry (`src/state.rs`, `src/lib.rs`) | route lists, seven per-method routers, method masks, OpenAPI document, compiled tables, `frozen`, published snapshot | `add_route`, `add_websocket_route`, `freeze`, every setter, `ensure_compiled_snapshot`, matching | `Registry`, `Matchit` |
| Locks | interpreter lock (GIL), `RwLock<AppState>`, mutexes of the OpenAPI document and of `active_websockets` | the lock operations of every native call that takes one of them | `LockOrder` |
| HTTP dispatch (`src/dispatch.rs`) | one request's progress: gates, user code called, responses sent | `try_rsgi_sync_short_circuit`, `run_trivial_sync_route`, `run_rsgi`, `send_python_error(_sync)` | `Dispatch` |
| Rate limiter (`src/rate_limit.rs`) | shards of token buckets | `RateLimiter::check` | `RateLimiter` |
| Dependencies (`src/dependency.rs`, `src/lib.rs`) | graph, in-degrees, work list, order | duplicate check, `topological_sort`, reordering, keyword arguments | `Dependencies` |
| Admission (`src/lib.rs`) | `in_flight`, `max_concurrency`, guards | `handle_rsgi`, `set_max_concurrency`, `InFlightGuard::drop` | `Admission`, `ConcurrencyLimit` |
| WebSockets (`src/websocket.rs`, `oxyroute/_ws.py`, `src/dispatch.rs`) | table of connections, ids; per object: transport, closed flag, write lock | `run_rsgi_websocket`, `accept`, `receive*`, `send_*`, `close`, `shutdown_websockets` | `WebSocket` |
| Database pool (`src/db.rs`, `src/lib.rs`) | the pool in the state and in the snapshots of requests | `setup_database`, `close_database`, `DBQuery` | `Configuration` |
| OpenAPI document (`src/openapi.rs`, `src/lib.rs`) | the document and its cached text | `add_route`, `set_openapi_*`, `openapi_json`, `GET /openapi.json` | `Configuration`; its operations also in `Registry` |
| Adaptive limiter (`oxyroute/resilience.py`) | latency window, average, current limit | `on_request_completed` | `AdaptiveLimiter` |
| CORS (`src/cors.rs`, `oxyroute/cors.py`) | none: a configuration, compiled or not | preflight and response headers, natively and in Python | `Cors` |
| Path parameters (`src/params.rs`) | none | `value_for_path_param` | `Coercion` |
| JSON (`src/schema.rs`) | none | `write_py_json`, its fallback, `json_bytes_to_py` | `Json` |
| Streaming, SSE, static files | none of their own | start a response through the protocol object | only as steps of `Dispatch` |
| JWT, security headers, CSRF, form and query parameters | none | pure functions of strings and bytes | only their place in the pipeline |
| APIRouter, test client, docs page, buffer pool, environment | nothing shared at run time | | not modelled |

How they interact. Granian calls `App.__rsgi__`, which calls the native `handle_rsgi` with
the GIL. `handle_rsgi` counts the request (Admission), takes the published snapshot
(Registry) and tries the synchronous short circuit (Dispatch); if that declines, it returns
a future that runs `run_rsgi` on a tokio worker, without the GIL except where it calls
Python. `run_rsgi` matches the path (Registry), asks the route's rate limiter (RateLimiter),
calls the dependencies in the order fixed at registration (Dependencies) and the handler, or
hands a WebSocket scope to `run_rsgi_websocket` (WebSocket). Queries run on the pool of the
request's snapshot (Configuration). After the request the access log hook may feed its latency
to the adaptive limiter, which moves the limit of Admission. Registration and configuration
may go on at the same time from Python threads, under the state's reader-writer lock
(LockOrder).

What is hard, and what correctness means there:

* registration in two critical sections, failing half way, while requests hold older
  snapshots: indexes must lead to their own entries, tables must not be stale;
* two kinds of threads with four kinds of locks: no circle of waiting;
* two dispatch paths, five kinds of user code, and a dozen places that answer: gates before
  user code, the right order, exactly one answer, an end;
* a clock read before the lock is taken, evictions at capacity;
* a lock-free counter whose guard crosses threads;
* tasks that send, receive, close and are cancelled on one connection, while the peer leaves
  and a shutdown drains the table;
* a pool that is replaced or closed between two awaits, while requests with older snapshots
  still query it; a cached text that several setters must drop, one of which can fail half way;
* a feedback loop in floating point that must neither leave its range nor stay down for ever;
* two implementations of one thing, of which the faster is taken when it can be: CORS and JSON.

`PROJECT.json` lists these under "hazards", each at its line.

## 2. Modules

### Registry, Matchit and Routing

`Registry` has one variable per field of `AppState` that routing uses, the declaration each
registering thread has in progress (`job`) and the progress of each request (`req`). The two
critical sections of `add_route` are two actions (`BeginAdd` with the frozen check,
`CommitAddRoute` with the insertion); between them the code calls into Python, where another
thread may run. `CommitAddRoute` follows the order of the code: push the entry, parse JSON
arguments (may fail), write the OpenAPI operation, ask the router (may fail), set the mask,
discard the compiled tables, publish. Indexes count from 1.

A request takes the snapshot on arrival. On the synchronous path everything happens with the
GIL held, in one step (`HandleRsgiSync`); on the asynchronous path the match is a later step,
with the tables of the snapshot (`MatchSnapshot`) or, if it has none, with the tables of the
state at that time (`MatchCurrent`). `Matchit` models the external `matchit` 0.7 router from
how the code uses it: static segments win over parameters, leftmost first, and two templates
conflict when they are equal or name a parameter differently at the first place where they
differ. Catch-alls behave like parameters here. A panic of `snapshot_routers` is an outcome
of the request; with the release profile (`panic = "abort"`) it ends the process.

`Routing` is the abstract specification, routing as a user of `docs/routing.md` sees it, where
snapshots are only an optimisation (lines 24-29): a table per method from templates to
declarations, in which a route is served from one moment on, and requests each answered from
one table as a whole. It knows neither indexes, compiled tables,
masks nor publication. In `Registry`, `Abstract` instantiates it: `ServedBy` reads the table
through the indexes, `ViewOf` sees a request that holds a snapshot as one that holds the tables
its snapshot serves. `ImplementsRouting` says that every step is a registration, an arrival or an
answer of `Routing`, or changes nothing there. What the code adds to the promise is in `Routing`
too, as the failures it allows: "route index" and the panic, only for a request that kept no
table, and the panic only when some templates are `Ambiguous`.

### LockOrder

A call is a script of lock operations; threads interleave them. The reader-writer lock is
parking_lot's: a writer sets its bit, new readers then wait, and the writer waits for the
readers that are in (`Drain`). Python bytecode inside a call may hand the GIL over
(`Bytecode`). `ensure_compiled_snapshot`, `setup_database` and the setters take the GIL
before the state lock. Three calls do not follow that order, `UndisciplinedCalls`:
`add_exception_handler`, which calls `inspect.iscoroutinefunction` under the write lock
(`src/lib.rs:743-751`), `register_websocket`, which enters a connection in
`active_websockets` (`src/dispatch.rs:2087-2091`), and `shutdown_wrapped`, the shutdown of
WebSockets whose protocol object is a Python wrapper. Left out are locks that never wait for
another: the routers and masks, taken under the write lock only, and the shards of a rate
limiter. Python objects that a call drops under a lock (the old middleware, say) are assumed to
have no destructor written in Python.

### RateLimiter

One shard; shards share nothing and a key always hashes to the same one. One unit of tokens
is refilled per tick, a request costs `Cost` units: the integers replace `f64` exactly as
long as the sums are exact. Reading the clock and taking the lock are two steps. `ledger` and
`promise` are history variables for the properties.

### Dispatch

One request, with an action per stage of the pipeline. Configuration and route come from the
snapshot and do not change during a request, so they are chosen in `Init`; what user code
does, what a gate finds and whether the protocol object accepts a response are chosen when
they happen. The body, headers and HEAD are abstract. `sent` holds what the protocol object
accepted, `ran` the user code in order. A synchronous exception handler list walk and the
asynchronous one differ in the code (async handlers are skipped, mapping errors continue the
walk, a refused response raises), and in the model (`TryExceptionHandler`, `SendHandled`).

### Dependencies

`add_route`'s treatment of a `dependencies` list as a state machine over Kahn's algorithm
with its work list used as a stack, and `Kwargs`, what `run_rsgi` passes to each factory.
Names are numbers in the order in which the code sorts the strings.

### Configuration

What an application can change while it serves. A pool is named after the `setup_database` call
that opened it, and a snapshot is the pool it holds; `setup_database` and `close_database` are
tokio tasks with one action per piece between two awaits (`BeginSetup`, `Connected`, `Install`;
`BeginClose`, `Take`, `MarkClosed`, `Drained`), and the failures and cancellations there.
`sqlx`'s pool is external: closing marks it closed at once and waits for the connections in
use, and a pool nobody refers to is closed. A request keeps the snapshot it arrived with and
acquires a connection per `DBQuery`.

The document is the number of changes made to it, so that the cached text can be compared with
it; `torn` remembers a `set_openapi_info` that raised after it had changed something.

### Admission and ConcurrencyLimit

Each atomic operation of `handle_rsgi` is a step; the counter wraps at `Wrap` = 2^w.
`handle_rsgi` holds the GIL, except where Python code called by the short circuit gives it
away; guards of asynchronous requests are dropped without it. `ConcurrencyLimit` is the
abstract specification: one atomic decision per request, against the limit in force, which
counts admitted requests only. `Admission!Decision` is the refinement mapping; the decision
happens at the `fetch_add`.

### WebSocket

`run_rsgi_websocket` as phases of a connection, the `WebSocket` object as used by tasks that
interleave at each await, the table `active_websockets` and its drain. `asyncio.Lock` is
first-in first-out and can be cancelled while waiting. Frames carry no data.

### AdaptiveLimiter

`on_request_completed` as the access log hook calls it, in fixed point: limits and `Alpha` in
units of 1/`Scale`, latencies in one unit of time, divisions rounded down. Only the minimum of
the window of samples is read, so the window is kept as the age of every latency. The latency of
the handlers (`load`) changes when it likes, and refused requests arrive in between.

### Cors, Coercion and Json

Conversions as operators, each applied to every input of a small set that a variable chooses in
`Init` (`NONE` of `Option` when another job runs). `Cors` has both implementations, the compiled
one and the one of `CORSConfig`; names carry their case. A configuration compiles if its class is
*named* `CORSConfig` (`src/lib.rs:792-796`) and `max_age` fits; it is assumed to have the methods
of `CORSConfig`, whatever its class, and not to change after `set_cors`. The Python layer is
`apply_cors` with a `chain`, whose answers, refusals included, then get the headers of a normal
response merged (`src/dispatch.rs:723-729`, `src/dispatch.rs:1793-1814`); response middlewares
and the security headers, which these answers pass and the native ones do not, are left out. So
`CorsAgrees` says how the layers agree and how they differ: the same decision, the same reason,
the same headers on other responses, and on preflights exactly the headers of a normal response
more in Python. It leaves out one configuration, `allow_origins` as the tuple `("*",)` without
credentials (`WildcardTuple`), which `from_py` takes for a wildcard and `cors.py:48` does not.
Its assumptions type what the native layer reads (`ConfigsAssumption`, `RequestsAssumption`) and
keep `NONE` apart from a value (`NoneAssumption`).
`Coercion` reads a path segment piece by piece, with scaled-down `i64` and `f64`. `Json` has the
native writer with its limits, the fallback to `json.dumps` and the reader, on parse trees instead
of text. Python objects are finite trees: the parts of an object are objects
(`ObjectsAssumption`) of a smaller `Height` (`HeightAssumption`); an object that contains itself
is not considered (both writers refuse it, the native one by its nesting limit). The reader is
applied to what was written and the parts of that (`Texts`). What the property expects of the
way back is `Carried`: the object with tuples as lists, or `ERROR` where JSON cannot carry it.
Everything recursive in the two modules is a recursive function, so that it can be proved about.

`MCAlgorithms` puts the sequential algorithms (`Dependencies`, `AdaptiveLimiter` and these
three) side by side; `job` says which one a behaviour runs.

## 3. Runs

| Run | Bounds | What it shows |
|---|---|---|
| `registry` | GET, POST; `/a`, `/:x`, `/:y`; path `/a`; 2 registering threads, 1 request, 2 registrations | the registry implements `Routing`; indexes lead to their own entries, a request gets its own handler; 404, 405 and `Allow` agree with what would be routed; what is served is documented; freeze is final but for the declarations it overtakes, and its tables answer every later request |
| `lock_order` | 3 threads, nine of the twelve calls: all but `UndisciplinedCalls` | these calls never deadlock, and every one returns |
| `rate_limiter` | 3 keys for 2 entries, 2 workers, limit 2, cost 3 ticks, seconds of 2 ticks, 4 ticks | grants and memory are bounded, Retry-After is kept |
| `dispatch` | five routes (trivial, every gate, form, streaming, static file), up to 2 middlewares of each phase, up to 2 exception handlers | gates, order, one answer, an answer, filtering, termination |
| `algorithms` | dependencies: every list of up to 3 entries over 3 names with any parameters and `**kwargs`, every graph of 4 distinct names; limiter: limits 1 to 8, latencies 10 and 40, refusals of latency 1, window 10, 2 changes; CORS: up to 2 origins, in a list or not, and headers, preflights with up to 2 headers; segments of up to 5 pieces, integers -12 to 11; objects up to 4 deep where 3 are written natively | each factory once, after what it takes, cycles reported exactly; the limit stays in range and recovers; both CORS layers decide alike and differ in known headers only; coercion loses nothing; both JSON writers mean the same and what they write is read back |
| `configuration` | 3 calls of `setup_database` or `close_database`, 2 requests, 1 connection, 1 query per route, 1 change of the document | requests get open pools, a close is final, pools are released, closes return, the text served is current |
| `admission` | 3 requests, limits 0 to 2, counter modulo 8 | exact counter, atomic decision, back to zero |
| `websocket` | 2 connections, 2 tasks on the first | table exact, one close per origin, sends serialised and not starved, failures close with 1011 |

Why the bounds suffice: every interesting case needs one more of something than the bound of
the structure it stresses (three keys for two entries, two registrations so that one that failed
is followed by one that did not and a request arrives between two, three requests for limits up to two, three threads so
that a waiting writer stands between a reader and the GIL, three database calls so that two
setups meet a close and a setup two closes, two requests so that one waits for the connection of
the other, five pieces so that a number has a sign and a digit more than the largest integer). Three templates are enough for
both kinds of conflict and for a static segment that shadows a parameter; the one path fits all
of them, and the declaration that fails half way fails on the JSON arguments or in the router.
HEAD, unsupported methods, paths that fit fewer templates and more requests are left to the
theorems, which hold for any of them. Theorems remove the bounds for the properties they cover.

Symmetry is used for registering threads, keys and workers, in runs without liveness.
Deadlock is checked in `lock_order`, `rate_limiter`, `admission` and `configuration`, where some
action is always enabled; the other specifications end (a request is answered, a list sorted, registrations used
up), so their configurations switch it off.

Fairness. `lock_order`: strong fairness of a lock operation, as parking_lot's eventual
fairness and the interpreter's switch interval provide; a thread is not obliged to enter
calls. `dispatch`: weak fairness of the request, which means that user code returns and that
the runtime polls a ready future. `admission`: threads inside `handle_rsgi` run on, Python
code gives the GIL back (strong, because others may take it in between), futures end; nothing
about arrivals or the operator. `websocket`: tokio and asyncio run what can run and a send of
the transport ends, with an error if need be; nothing about handlers and peers.
`configuration`: the database answers or fails, a wait for a connection times out, tokio runs
its ready tasks, an unreferenced pool is dropped, and a request that was accepted ends; nothing
about who calls what. A WebSocket or an event stream that stays open keeps its snapshot for as
long, so `PoolsReleased` speaks of applications whose requests end. `algorithms`:
requests keep being answered, which is what the limiter is fed with.

Every property of these runs has a mutant in `PROJECT.json`: a plausible error in a mapped
definition that makes TLC report the property violated.

### Runs that find a violation

* `registry_panic`. `GET /:x` and `POST /:y` are each accepted by their own router, but
  `snapshot_routers` merges all templates in one router and `.expect`s that to work
  (`src/state.rs:282`): the first request, or `freeze()`, panics.
* `registry_stale`. A request whose snapshot has no tables is matched against newer tables;
  a route added in between has an index the request's route list lacks, and the request fails
  with "route index" (`src/dispatch.rs:786`), although the comment at `src/lib.rs:610` says
  snapshots are kept fresh.
* `lock_handler`. `add_exception_handler` takes the write lock and then runs
  `inspect.iscoroutinefunction` under it (`src/lib.rs:743-751`). If the interpreter switches
  there to a thread that needs the state while it holds the GIL (a request in `handle_rsgi`, or a
  second `add_exception_handler`), both wait for ever; `CHANGELOG.md:40` describes the opposite
  order as the rule that prevents this.
* `lock_opening`. `run_rsgi_websocket` takes the state lock before the GIL
  (`src/dispatch.rs:2087-2091`), the order the comment at `src/dispatch.rs:382` warns of; it
  deadlocks with a first request that compiles the tables.

### Other divergences noticed, without a run of their own

* The rate limit is evaluated after Python request middleware (`src/dispatch.rs:641`,
  `src/dispatch.rs:805`), while `docs/rate-limiting.md:5` says before entering Python.
* The `Allow` list is the mask of the best template: with `GET /a` and `POST /:x`, a `PUT /a`
  is told `GET, HEAD` only, while the comment at `src/state.rs:341` says "All HTTP methods
  that match `path`". `AllowIsHonest` states what does hold.
* `frozen` is checked in the first critical section of `add_route` only: with two threads a
  route can be added after `freeze()` returned (`docs/routing.md:28`). `FreezeIsFinal` states
  what is left: only declarations that were past the check add an entry, one each, and once they
  are over the tables stay.
* The OpenAPI operation of a route whose router insertion failed stays in the document
  (`src/lib.rs:583-606`, `docs/openapi.md:5`).
* A token bucket grants up to twice the limit within one window; `docs/rate-limiting.md`
  speaks of a limit per window.
* A handler that raises after it started a stream cannot be answered with a 500, though the
  error path tries (`docs/handlers.md:78`, `src/dispatch.rs:1424`).
* On the synchronous path async exception handlers are skipped (`src/dispatch.rs:172-178`,
  `CHANGELOG.md:111`).
* Dependencies run in a topological order whose ties are broken by name, not in declaration
  order (comment on `PyDepends`, `src/lib.rs`).
* `shutdown_websockets` calls `protocol.close` under two locks; with `access_log_hook` the
  protocol is a Python wrapper, and running Python there can deadlock (`ShutdownWrapped`).
* A WebSocket that registers after the drain of a shutdown is not told to go away.
* `set_openapi_info` with malformed servers JSON changes the description and leaves the
  cached text of the document in place (`src/lib.rs:711-730`); `ServedTextIsDocument` excludes
  that case by `torn`.
* A `setup_database` that overlaps a `close_database` leaves its pool installed, and a second
  `close_database` returns before the first has finished (`CloseQuiesces` speaks of the call
  that took the pool).
* `set_cors` alone answers preflights natively, though `docs/cors.md:8` speaks of merging
  response headers only; `apply_cors` without `chain` installs no middleware, though
  `docs/cors.md:7` says so, so that a configuration that is not compiled (a class of another name, a
  negative `max_age`) leaves preflights unanswered. A native preflight carries neither the
  security headers nor `Access-Control-Expose-Headers`, and passes no response middleware.
* A refused preflight carries `Access-Control-Allow-Origin`, and what else marks a normal
  response, when the Python layer refuses a method or header of an allowed origin, and nothing
  when the native layer does (`src/dispatch.rs:629-637`).
* `set_cors` compares the name of the class only (`src/lib.rs:792-796`): a subclass that is called
  `CORSConfig` too is compiled, and the methods it overrides are never called. The tuple `("*",)`
  means any origin when it is compiled and none when it is not (`oxyroute/cors.py:48`).
* A body integer beyond 64 bits reaches the handler as a float, unlike with `json.loads`
  (`Carried` is `ERROR` there); a path segment with more digits than `f64`
  holds becomes infinity (`Coercion!ParsedFloat`).
* 2xx answers that are streams are sampled by the adaptive limiter with their whole duration.

## 4. Proofs

Eight modules, checked by `tlapm` to the last leaf. No assumption beyond the named `ASSUME`s
of the component modules, all of which TLC evaluates in the runs: sets of constants have the
obvious types, numbers are positive where the code parses them so, `NONE` is no value of the
program, and the counter's range exceeds the number of requests.

* `RegistryProofs`. `StateInv` = types, resolved indexes and fresh tables together is
  inductive: resolving alone is not, since a stale table or a short snapshot would carry an
  unresolved index to a later state. From it `TypeCorrect`, `IndexesAlwaysResolve`,
  `TablesAlwaysFresh`. `ReqInv` adds that a request's snapshot is a prefix of the present
  lists and that a snapshot with tables resolves them; with `SelectedUnique` (a path selects at
  most one template) it gives `AlwaysOwnHandler` and `CompleteSnapshotsSuffice`: the
  "route index" error can only meet a request that arrived before any tables were compiled.
  `MasksMatch` (the masks name a method of a template exactly when a router of that method holds
  it) gives `AllowAlwaysHonest`: the template selected from the merged router need not be the one
  the method's own router selects, but that router selects one. `AlwaysDocumented` rests on the
  operation being written before the router is asked. `FreezeFinal` holds for any
  number of registering threads: after `freeze()` no declaration passes the check, an entry comes
  only from one that had passed it, and once those are over the compiled tables stay and the
  panic and the "route index" error of section 3 are out of reach of requests that arrive later. Of the panic,
  `PanicAlwaysExplained` says whom it can meet at all: routers hold no two templates they would
  refuse (`RoutersAgree`), so the clash is between templates of two methods.

  `RegistryImplementsRouting` proves the refinement, with one lemma per kind of step. A
  registration appends to the lists, so what the old indexes lead to is unchanged (`ServedStays`)
  and the new index leads to the new entry (`ServedInsert`). A request with compiled tables finds
  what its own lists serve (`KeptIsServed`, where fresh tables are needed). A request without
  them, matched in newer tables, either gets the entry that is served now (`MatchUnique`: the
  merged router and the method's own agree on what they answer) or an index its lists lack. The
  panic needs `MasksMatch` in its strong form, that the masks name routed templates only: two
  templates that clash there clash in `Routing` (`PanicIsAmbiguous`). `TablesAlwaysFresh`,
  `MasksMatch` and the type of indexes are the invariants the refinement stands on.
* `LockOrderProofs`. `HeldInv`: a thread holds at most what its script has taken and not
  dropped. A thread then only waits for threads whose next operation ranks higher, so a circle
  of waiting would need an infinite ascent among four ranks: `DisciplinedNoDeadlock`, for any
  number of threads and any disciplined set of calls. That the calls are disciplined follows
  from how their scripts are built: `Nested` scripts (guards that nest in the order of the
  ranks) are closed under guards and concatenation, so `OrderedCallsNoDeadlock` holds for the
  calls of `lock_order` without a hypothesis. `UndisciplinedExactly` proves that nothing else was
  left out and nothing needlessly: a script breaks the order if and only if it is one of the three
  of `UndisciplinedCalls`. Two of these deadlock in `lock_handler` and `lock_opening`.
* `RateLimiterProofs`. `LimiterInv` adds to the types, per bucket, that grants plus tokens are
  bounded by capacity, time and set-back, and that a promised time refills one request. From
  it the bounds on grants and on the shard, and that Retry-After is honoured.
* `DispatchProofs`. `GateInv` records which gates a stage implies, `OrderInv` that the calls so
  far are the scheduled prefix, `AnswerInv` that before the end only user code has sent,
  `FilterInv` that the last calls are those of the response middlewares passed so far,
  `ErrorInv` that control never leaves the error path. One step per action. `TypeCorrect`,
  `GuardsHold`, `OrderHolds`, `AnswersHold`, `FiltersHold`, `ErrorsStopPipeline`;
  `NeverLeftSilent` is read off `AnswerInv`, which is why that one is about every stage and not
  the end alone.
* `AdmissionProofs`. `AdmissionInv`: while a request is being decided it holds the GIL and the
  limit it read is the limit in force, and `in_flight` is the cardinality of the counted
  requests. `CounterAlwaysExact`, and `AdmissionIsAtomic`: every step of the protocol is a
  step of `ConcurrencyLimit` or changes nothing of it.
* `ConfigurationProofs`. `Lifecycle` (what is installed was opened by its own setup and has been
  taken by nobody; what a close took is installed no more, and its state follows the close) is
  inductive together with the types. From it `PublishedPoolAlwaysOpen` and
  `CloseAlwaysQuiesces`: for that the pool must not come back after it was taken, which
  `PublishedPoolOpen` alone does not exclude. `ServedTextAlwaysCurrent` is inductive as it stands.
* `AlgorithmProofs`, about the sequential algorithms for any input.
  * Dependencies. `SortInv`, the invariant of the loop: the work list and the order so far list
    disjoint sets of nodes, each once; a node's in-degree is the number of its prerequisites not
    yet in the order; it is in one of the two exactly when it has reached zero; and what stands
    in the order stands after its prerequisites. `KahnInv` carries this to the end:
    `AcceptedOnce`, `ParametersSupplied`. `CyclesExactlyRefused`, in both directions: what is
    left when the work list is empty has a prerequisite each in what is left, which is a circle
    (`LeftoverIsCircular`), and an order of all nodes gives the earliest member of a supposed
    circle no prerequisite in it (`AcceptedHasNoCircle`). The initial work list is sorted by name,
    which the model says by `CHOOSE`; `SortingExists` proves that there is such a list.
  * Adaptive limiter. `LimitAlwaysInRange` for every limit, window, `Alpha`, `Smoothing` and
    scale: the clamp bounds the scaled limit, and truncation of a number between two multiples
    of `Scale` stays between them.
  * CORS. `NativeAgreesWithPython`, for every configuration that compiles, except `WildcardTuple`,
    and every request. `PreflightsAgree` follows the checks in their order: both sides refuse at
    the same one, or grant with headers that differ in `Access-Control-Expose-Headers` alone; the
    Python layer's answer has the headers of a normal response in either case, a native refusal
    has none.
  * Path parameters. `SegmentsRebuilt`, for every segment and every `MaxInt`: reading digits
    undoes writing a number (`NumeralsReadBack`), and writing undoes reading unless there are
    leading zeros (`CanonicalIsWritten`), which `is_valid_integer_literal` excludes
    (`LiteralIsCanonical`).

  * JSON. `JsonAlwaysKept`, for objects of any depth and width and any limits, in two inductions
    over objects. The native writer writes what `json.dumps` writes, or refuses
    (`NativeOrRefused`): it may give up at a key or a part after it has written half of the text,
    but nothing it writes of a part depends on the depth. What JSON carries is written and read
    back (`CarriedIsRead`): the nesting limit of the reader is the one of `Carried`, and a part
    that is refused makes the whole one refused, in the reader as in the writers.

  Where these arguments need induction they use the least-number principle on a set of
  counterexamples (`LeastNumber`), which is first-order, or `RankInduction` over a set of those
  that have the property. That the six recursive functions of `Coercion` and `Json` exist at all,
  so that they satisfy their own definitions, is `RecursionHasSolution`, a lemma about any
  recursion that descends in a rank: the length of the digits, the number, the height of the
  object. The reader descends too, although a text has no height: its rank is the least height of
  an object with that text (`TextRank`), and the parts of a text are texts of a smaller rank
  (`TextParts`).
* `WebSocketProofs`. `TableInv`: ids are never shared, so an entry of the table belongs to one
  connection for good, and removing by id cannot remove another's; from it `LiveAlwaysReachable`
  and `TableAlwaysHoldsLive`. `LockInv`: a task that is sending holds the write lock of its
  object (`SendsAlwaysSerialised`). `CloseInv` ties each close code sent to what keeps it from
  being sent again: the object's flag, the table entry that is gone, the phase of the handler
  (`AlwaysClosedOnce`).

`TypeCorrect` in five of the modules proves what the runs no longer check separately.

Every invariant and every action property of the passing runs is stated by a theorem. Only
model-checked: all liveness (`CallsReturn`, `Terminates`, `DrainsToZero`, `WaitersProceed`,
`FailureCloses`, `PoolsReleased`, `CloseReturns`, `Recovers`), which TLAPS does not handle under
fairness.

## 5. Not modelled

String and byte functions (token decoding and extraction of credentials, header merging and
sanitising, security headers, form and query parsing, rate strings, key extraction, binding of
query arguments and decoding of rows, the schema of bodies): pure, and better served by tests.
The contents of the OpenAPI document and of responses. Chunks and heartbeats of streams.
Transactions inside the database. Cancellation of the `run_rsgi_websocket` future itself.
Rounding of `f64` token sums and of the adaptive limiter's averages beyond its fixed point.

## 6. Plan

1. Done: registry, locks, limiter, dispatch, dependencies, admission, WebSockets, the
   configuration that changes while serving, the adaptive limiter, CORS, path parameters, JSON,
   and the proofs above.
2. Next modules: streams with chunks, heartbeats and disconnects; a composition of `Admission`
   and `Dispatch`, in which a slot is held exactly while a request is unanswered.
3. Next proofs: with the composition of item 2, that a slot is held exactly while a request is
   unanswered. Liveness stays with TLC.
