------------------------------ MODULE Dispatch ------------------------------
(***************************************************************************)
(* One HTTP request through src/dispatch.rs: the synchronous short circuit *)
(* (try_rsgi_sync_short_circuit, run_trivial_sync_route) and, when it      *)
(* declines, the asynchronous pipeline (run_rsgi), down to the responses   *)
(* passed to the RSGI protocol object.                                     *)
(*                                                                         *)
(* The application's configuration and the matched route are fixed by the  *)
(* snapshot the request took, so they are chosen in Init.  What user code  *)
(* does (middleware, dependency, handler, exception handler), what a gate  *)
(* finds in the request and whether the server's protocol object accepts a *)
(* response are chosen when they happen.  HEAD, header merging and the     *)
(* conversion of values to bodies are abstracted: mapping a return value   *)
(* either gives a response, finds the stream marker or raises.             *)
(***************************************************************************)
EXTENDS Naturals, Sequences

CONSTANTS Routes,           \* the routes a request may match
          MaxMiddleware,    \* bound on the middlewares of each phase
          MaxHandlers       \* bound on the registered exception handlers

\* A Python exception, as the error path tells them apart.
Errors == {"HTTPException", "other"}

\* RouteEntry: what the pipeline does for a route.  body is what add_route's flags and
\* the handler's signature make it read; protocol says the handler takes the protocol.
RouteEntry ==
    [is_async : BOOLEAN, require_jwt : BOOLEAN, rate_limited : BOOLEAN,
     body : {"unread", "raw", "json", "form"}, dependencies : Nat, protocol : BOOLEAN]

ASSUME RoutesAssumption == Routes \subseteq RouteEntry
ASSUME MiddlewareAssumption == MaxMiddleware \in Nat
ASSUME HandlersAssumption == MaxHandlers \in Nat

\* An entry of exception_handlers: the errors that are instances of its type.
ExceptionHandler == [catches : (SUBSET Errors) \ {{}}, is_async : BOOLEAN]

\* What a request asks for, as the snapshot's tables and flags answer it.  A preflight is
\* one the native CORS configuration answers; without it OPTIONS is a method like others.
Targets == {"not_http", "preflight", "openapi", "missing", "other_method",
            "unknown_method", "route"}

\* add_route's trivial_sync (a handler without protocol stands for params_compatible).
TrivialSync(r) ==
    /\ ~r.is_async /\ ~r.require_jwt /\ ~r.rate_limited
    /\ r.body = "unread" /\ r.dependencies = 0 /\ ~r.protocol

VARIABLES
    app,      \* the snapshot: middleware counts, exception handlers, header configuration
    target,   \* what the request asks for
    route,    \* the route it matches, when it matches one
    mode,     \* "sync" in try_rsgi_sync_short_circuit, "async" in run_rsgi
    pc,       \* the next stage
    i,        \* position in the loop over middlewares, dependencies or handlers
    passed,   \* gates the request has passed
    mapped,   \* HandlerMap of the last return value: "none", "value", "sent"
    err,      \* the error being reported: "none" or one of Errors
    ran,      \* history: user code called, in order
    sent,     \* responses the protocol object accepted, in order
    outcome   \* "running"; "returned" or "raised" to the server

chosen == <<app, target, route>>
vars == <<app, target, route, mode, pc, i, passed, mapped, err, ran, sent, outcome>>

Call(what, n) == [what |-> what, n |-> n]
Response(by, status) == [by |-> by, status |-> status]

\* The snapshot's configuration: how many middlewares of each phase, the exception
\* handlers, and whether CORS or security headers are absent, compiled to native form
\* or left to a Python object.
Snapshots ==
    [request_middleware : 0 .. MaxMiddleware, response_middleware : 0 .. MaxMiddleware,
     exception_handlers : UNION {[1 .. n -> ExceptionHandler] : n \in 0 .. MaxHandlers},
     header_config : {"none", "native", "python"}]

Init ==
    /\ app \in Snapshots
    /\ target \in Targets
    /\ target = "preflight" => app.header_config = "native"
    /\ route \in Routes
    /\ mode = "sync"
    /\ pc = "start"
    /\ i = 0
    /\ passed = {}
    /\ mapped = "none"
    /\ err = "none"
    /\ ran = <<>>
    /\ sent = <<>>
    /\ outcome = "running"

-----------------------------------------------------------------------------
(* Building blocks.                                                        *)

Goto(stage, n) == pc' = stage /\ i' = n

Finish(how) == Goto("done", 0) /\ outcome' = how

\* response::send_*: a response returned as the result of the request.  When the
\* protocol object raises, the exception leaves run_rsgi.
Reply(status) ==
    /\ \/ sent' = Append(sent, Response("framework", status)) /\ Finish("returned")
       \/ sent' = sent /\ Finish("raised")
    /\ UNCHANGED <<mode, passed, mapped, err, ran>>

\* Control enters send_python_error or send_python_error_sync with error e.
Fail(e) ==
    /\ err' = e
    /\ Goto("error", Len(app.exception_handlers))
    /\ UNCHANGED outcome

\* A gate lets the request through to the next stage.
Pass(gates, stage) ==
    /\ passed' = passed \cup gates
    /\ Goto(stage, 1)
    /\ UNCHANGED <<mode, mapped, err, ran, sent, outcome>>

-----------------------------------------------------------------------------
(* try_rsgi_sync_short_circuit.                                            *)

HasMiddleware == app.request_middleware > 0 \/ app.response_middleware > 0

\* Neither http nor websocket: ignored.
IgnoreNonHttp ==
    /\ pc = "start" /\ target = "not_http"
    /\ Finish("returned")
    /\ UNCHANGED <<chosen, mode, passed, mapped, err, ran, sent>>

\* A CORS preflight is answered before anything else, allowed or refused.
AnswerPreflight ==
    /\ pc = "start" /\ target = "preflight"
    /\ Reply("204") \/ Reply("400")
    /\ UNCHANGED chosen

PlainTarget == target \in Targets \ {"not_http", "preflight"}

\* The request continues in run_rsgi.
Defer ==
    /\ mode' = "async"
    /\ Goto("openapi", 0)
    /\ UNCHANGED <<chosen, passed, mapped, err, ran, sent, outcome>>

DeferForMiddleware == pc = "start" /\ PlainTarget /\ HasMiddleware /\ Defer

SyncStart == pc = "start" /\ PlainTarget /\ ~HasMiddleware

\* GET or HEAD of the built-in document, by either path.
AnswerOpenapi ==
    /\ target = "openapi"
    /\ SyncStart \/ pc = "openapi"
    /\ Reply("200")
    /\ UNCHANGED chosen

\* A request no route serves, by either path; an unknown method raises ValueError.
AnswerUnmatched ==
    /\ SyncStart \/ pc = "match"
    /\ \/ target = "missing" /\ Reply("404")
       \/ target = "other_method" /\ Reply("405")
       \/ /\ target = "unknown_method"
          /\ Finish("raised")
          /\ UNCHANGED <<mode, passed, mapped, err, ran, sent>>
    /\ UNCHANGED chosen

\* A route that needs run_rsgi, or headers only Python can compute.
DeferRoute ==
    /\ SyncStart /\ target = "route"
    /\ app.header_config = "python" \/ ~TrivialSync(route)
    /\ Defer

\* run_trivial_sync_route: straight to the handler.
StartTrivialRoute ==
    /\ SyncStart /\ target = "route"
    /\ app.header_config # "python" /\ TrivialSync(route)
    /\ Goto("call", 0)
    /\ UNCHANGED <<chosen, mode, passed, mapped, err, ran, sent, outcome>>

-----------------------------------------------------------------------------
(* run_rsgi up to the handler.                                             *)

EnterMiddleware ==
    /\ pc = "openapi" /\ target # "openapi"
    /\ Goto("middleware", 1)
    /\ UNCHANGED <<chosen, mode, passed, mapped, err, ran, sent, outcome>>

\* One request middleware: it declines (None), answers with a value, answers through the
\* protocol object itself and returns the marker, or raises.
RequestMiddleware ==
    /\ pc = "middleware" /\ i <= app.request_middleware
    /\ ran' = Append(ran, Call("request_middleware", i))
    /\ \/ Goto("middleware", i + 1) /\ UNCHANGED <<mapped, err, sent, outcome>>
       \/ mapped' = "value" /\ Goto("map", 0) /\ UNCHANGED <<err, sent, outcome>>
       \/ /\ mapped' = "sent" /\ Goto("map", 0)
          /\ sent' = Append(sent, Response("user", "middleware"))
          /\ UNCHANGED <<err, outcome>>
       \/ \E e \in Errors : Fail(e) /\ UNCHANGED <<mapped, sent>>
    /\ UNCHANGED <<chosen, mode, passed>>

LeaveMiddleware ==
    /\ pc = "middleware" /\ i > app.request_middleware
    /\ Goto("match", 0)
    /\ UNCHANGED <<chosen, mode, passed, mapped, err, ran, sent, outcome>>

\* The matched entry is taken from the snapshot; an index it lacks raises "route index".
MatchRoute ==
    /\ pc = "match" /\ target = "route"
    /\ \/ Goto("limit", 0) /\ UNCHANGED outcome
       \/ Finish("raised")
    /\ UNCHANGED <<chosen, mode, passed, mapped, err, ran, sent>>

\* RateLimiter::check, when the route has one.
RateLimit ==
    /\ pc = "limit"
    /\ \/ ~route.rate_limited /\ Pass({}, "length")
       \/ route.rate_limited /\ (Pass({"limit"}, "length") \/ Reply("429"))
    /\ UNCHANGED chosen

\* A declared Content-Length over the limit is refused before the body is read.
DeclaredLength ==
    /\ pc = "length"
    /\ \/ route.body = "unread" /\ Pass({}, "jwt")
       \/ route.body # "unread" /\ (Pass({}, "body") \/ Reply("413"))
    /\ UNCHANGED chosen

\* The body is read: a read that fails leaves run_rsgi, a body over the limit is refused.
ReadBody ==
    /\ pc = "body"
    /\ \/ Pass({"size"}, "jwt")
       \/ Reply("413")
       \/ Finish("raised") /\ UNCHANGED <<mode, passed, mapped, err, ran, sent>>
    /\ UNCHANGED chosen

\* Mutant: a route without a usable token is served like one that needs none.
JwtOptional ==
    /\ pc = "jwt"
    /\ \/ Pass({}, "form")
       \/ route.require_jwt /\ (Pass({"jwt"}, "form") \/ Reply("401"))
    /\ UNCHANGED chosen

\* A token from the Authorization header or the cookie that decodes, or 401.
Jwt ==
    /\ pc = "jwt"
    /\ \/ ~route.require_jwt /\ Pass({}, "form")
       \/ route.require_jwt /\ (Pass({"jwt"}, "form") \/ Reply("401"))
    /\ UNCHANGED chosen

\* A form body is parsed: 400 without a content type or when malformed, 415 for another
\* type; an empty one, or a method without a body, is an empty form.
Form ==
    /\ pc = "form"
    /\ \/ Pass({}, "context")
       \/ route.body = "form" /\ (Reply("400") \/ Reply("415"))
       \/ /\ route.body = "form"
          /\ Fail("other") /\ UNCHANGED <<mode, passed, mapped, ran, sent>>
    /\ UNCHANGED chosen

\* The request object that dependencies may ask for.
RequestContext ==
    /\ pc = "context"
    /\ \/ Pass({}, "dependencies")
       \/ /\ route.dependencies > 0
          /\ Fail("other") /\ UNCHANGED <<mode, passed, mapped, ran, sent>>
    /\ UNCHANGED chosen

\* Mutant: the last dependency is left out.
DependencyButLast ==
    /\ pc = "dependencies" /\ i <= route.dependencies
    /\ \/ /\ i < route.dependencies
          /\ ran' = Append(ran, Call("dependency", i))
          /\ Goto("dependencies", i + 1)
       \/ /\ i = route.dependencies
          /\ Goto("dependencies", i + 1)
          /\ UNCHANGED ran
    /\ UNCHANGED <<chosen, mode, passed, mapped, err, sent, outcome>>

\* Mutant: the error of a dependency is noted and the next one is called.
DependencyErrorIgnored ==
    /\ pc = "dependencies" /\ i <= route.dependencies
    /\ ran' = Append(ran, Call("dependency", i))
    /\ Goto("dependencies", i + 1)
    /\ err' \in {err} \cup Errors
    /\ UNCHANGED <<chosen, mode, passed, mapped, sent, outcome>>

\* One dependency in topological order: called, awaited when async, and a DBQuery it
\* returned executed; the first failure is reported.
Dependency ==
    /\ pc = "dependencies" /\ i <= route.dependencies
    /\ ran' = Append(ran, Call("dependency", i))
    /\ \/ Goto("dependencies", i + 1) /\ UNCHANGED <<err, outcome>>
       \/ \E e \in Errors : Fail(e)
    /\ UNCHANGED <<chosen, mode, passed, mapped, sent>>

LeaveDependencies ==
    /\ pc = "dependencies" /\ i > route.dependencies
    /\ Goto("call", 0)
    /\ UNCHANGED <<chosen, mode, passed, mapped, err, ran, sent, outcome>>

-----------------------------------------------------------------------------
(* The handler and its response.                                           *)

\* A JSON body that does not parse or validate, before the handler is called.
RejectJson ==
    /\ pc = "call" /\ route.body = "json"
    /\ Reply("400") \/ Reply("422")
    /\ UNCHANGED chosen

\* The handler is called; an async one runs when its coroutine is awaited.  A sync one
\* may answer through the protocol object and return the marker (StaticFiles).
CallHandler ==
    /\ pc = "call"
    /\ ran' = Append(ran, Call("handler", 0))
    /\ \/ route.is_async /\ Goto("await", 0) /\ UNCHANGED <<mapped, err, outcome>>
          /\ UNCHANGED sent
       \/ ~route.is_async /\ mapped' = "value" /\ Goto("map", 0)
          /\ UNCHANGED <<err, sent, outcome>>
       \/ ~route.is_async /\ route.protocol /\ mapped' = "sent" /\ Goto("map", 0)
          /\ sent' = Append(sent, Response("user", "file"))
          /\ UNCHANGED <<err, outcome>>
       \/ \E e \in Errors : Fail(e) /\ UNCHANGED <<mapped, sent>>
    /\ UNCHANGED <<chosen, mode, passed>>

\* stream_bytes, stream_text, send_sse: the handler starts the response itself.
StartStream ==
    /\ pc = "await" /\ route.protocol /\ sent = <<>>
    /\ sent' = Append(sent, Response("user", "stream"))
    /\ UNCHANGED <<chosen, mode, pc, i, passed, mapped, err, ran, outcome>>

\* The coroutine ends: with the helper's marker after a stream, with a value otherwise,
\* or with an exception at any point, also in the middle of a stream.
AwaitHandler ==
    /\ pc = "await"
    /\ \/ /\ mapped' = IF sent = <<>> THEN "value" ELSE "sent"
          /\ Goto("map", 0) /\ UNCHANGED <<err, outcome>>
       \/ \E e \in Errors : Fail(e) /\ UNCHANGED mapped
    /\ UNCHANGED <<chosen, mode, passed, ran, sent>>

\* Mutant: the response goes straight to the headers.
MapReturnUnfiltered ==
    /\ pc = "map"
    /\ Goto("merge", 0)
    /\ UNCHANGED <<chosen, mode, passed, mapped, err, ran, sent, outcome>>

\* map_handler_return: the marker needs no further work than a no-op merge; a value may
\* fail to convert.
MapReturn ==
    /\ pc = "map"
    /\ \/ mapped = "sent" /\ Goto("merge", 0) /\ UNCHANGED <<err, outcome>>
       \/ mapped = "value" /\ Goto("filter", 1) /\ UNCHANGED <<err, outcome>>
       \/ mapped = "value" /\ Fail("other")
    /\ UNCHANGED <<chosen, mode, passed, mapped, ran, sent>>

\* One response middleware: its return value is mapped in turn; the marker ends the loop.
ResponseMiddleware ==
    /\ pc = "filter" /\ i <= app.response_middleware
    /\ ran' = Append(ran, Call("response_middleware", i))
    /\ \/ Goto("filter", i + 1) /\ UNCHANGED <<mapped, err, outcome>>
       \/ mapped' = "sent" /\ Goto("merge", 0) /\ UNCHANGED <<err, outcome>>
       \/ \E e \in Errors : Fail(e) /\ UNCHANGED mapped
    /\ UNCHANGED <<chosen, mode, passed, sent>>

LeaveFilter ==
    /\ pc = "filter" /\ i > app.response_middleware
    /\ Goto("merge", 0)
    /\ UNCHANGED <<chosen, mode, passed, mapped, err, ran, sent, outcome>>

\* merge_config_response_headers: only a Python configuration object can raise.
MergeHeaders ==
    /\ pc = "merge"
    /\ \/ Goto("send", 0) /\ UNCHANGED <<err, outcome>>
       \/ mapped = "value" /\ app.header_config = "python" /\ Fail("other")
    /\ UNCHANGED <<chosen, mode, passed, mapped, ran, sent>>

\* Mutant: a response the protocol object refuses counts as sent.
SendUnchecked ==
    /\ pc = "send"
    /\ \/ mapped = "value" /\ sent' = Append(sent, Response("framework", "mapped"))
       \/ sent' = sent
    /\ Finish("returned")
    /\ UNCHANGED <<chosen, mode, passed, mapped, err, ran>>

\* send_handler_map_inline.
SendMapped ==
    /\ pc = "send"
    /\ \/ mapped = "sent" /\ Finish("returned") /\ UNCHANGED <<err, sent>>
       \/ /\ mapped = "value"
          /\ sent' = Append(sent, Response("framework", "mapped"))
          /\ Finish("returned") /\ UNCHANGED err
       \/ mapped = "value" /\ Fail("other") /\ UNCHANGED sent
    /\ UNCHANGED <<chosen, mode, passed, mapped, ran>>

-----------------------------------------------------------------------------
(* send_python_error and send_python_error_sync.                           *)

\* Mutant: after a handler that raised, the walk starts again from the last one.
TryExceptionHandlerAgain ==
    /\ pc = "error" /\ i > 0
    /\ LET h == app.exception_handlers[i] IN
       \/ err \notin h.catches /\ Goto("error", i - 1) /\ UNCHANGED ran
       \/ /\ err \in h.catches
          /\ ran' = (IF ran # <<>> /\ ran[Len(ran)] = Call("exception_handler", i)
                     THEN ran ELSE Append(ran, Call("exception_handler", i)))
          /\ Goto("error", Len(app.exception_handlers)) \/ Goto("error_map", i)
    /\ UNCHANGED <<chosen, mode, passed, mapped, err, sent, outcome>>

\* The handlers are tried from the last registered: one that does not catch the error, or
\* raises when called, is skipped; so is an async one on the synchronous path.
TryExceptionHandler ==
    /\ pc = "error" /\ i > 0
    /\ LET h == app.exception_handlers[i] IN
       \/ err \notin h.catches /\ Goto("error", i - 1) /\ UNCHANGED ran
       \/ /\ err \in h.catches /\ mode = "sync" /\ h.is_async
          /\ Goto("error", i - 1) /\ UNCHANGED ran
       \/ /\ err \in h.catches /\ ~(mode = "sync" /\ h.is_async)
          /\ ran' = Append(ran, Call("exception_handler", i))
          /\ \/ Goto("error", i - 1)
             \/ Goto(IF h.is_async THEN "error_await" ELSE "error_map", i)
    /\ UNCHANGED <<chosen, mode, passed, mapped, err, sent, outcome>>

\* The coroutine of an async exception handler; its own exception is a 500.
AwaitExceptionHandler ==
    /\ pc = "error_await"
    /\ \/ Goto("error_map", i) /\ UNCHANGED <<mode, passed, mapped, err, ran, sent, outcome>>
       \/ Reply("500")
    /\ UNCHANGED chosen

\* Mutant: after the handler's response was sent, the default one is sent as well.
SendHandledAndDefault ==
    /\ pc = "error_map"
    /\ \/ sent' = Append(sent, Response("framework", "handled"))
       \/ sent' = sent
    /\ Goto("error_default", 0)
    /\ UNCHANGED <<chosen, mode, passed, mapped, err, ran, outcome>>

\* The handler's return value is mapped and sent.  When mapping fails, run_rsgi falls back
\* to the default response and the synchronous path tries the next handler; when the
\* protocol object refuses the response, run_rsgi falls back too and the synchronous path
\* raises.
SendHandled ==
    /\ pc = "error_map"
    /\ \/ /\ sent' = Append(sent, Response("framework", "handled"))
          /\ Finish("returned") /\ UNCHANGED mapped
       \/ mapped' = "sent" /\ Finish("returned") /\ UNCHANGED sent
       \/ mode = "async" /\ Goto("error_default", 0) /\ UNCHANGED <<mapped, sent, outcome>>
       \/ mode = "sync" /\ Goto("error", i - 1) /\ UNCHANGED <<mapped, sent, outcome>>
       \/ mode = "sync" /\ Finish("raised") /\ UNCHANGED <<mapped, sent>>
    /\ UNCHANGED <<chosen, mode, passed, err, ran>>

NoExceptionHandler ==
    /\ pc = "error" /\ i = 0
    /\ Goto("error_default", 0)
    /\ UNCHANGED <<chosen, mode, passed, mapped, err, ran, sent, outcome>>

\* The payload of an HTTPException, or 500; a payload whose headers hold a line break
\* counts as none.
SendDefault ==
    /\ pc = "error_default"
    /\ Reply("500") \/ (err = "HTTPException" /\ Reply("payload"))
    /\ UNCHANGED chosen

-----------------------------------------------------------------------------

Next ==
    \/ IgnoreNonHttp \/ AnswerPreflight \/ DeferForMiddleware \/ AnswerOpenapi
    \/ AnswerUnmatched \/ DeferRoute \/ StartTrivialRoute
    \/ EnterMiddleware \/ RequestMiddleware \/ LeaveMiddleware \/ MatchRoute
    \/ RateLimit \/ DeclaredLength \/ ReadBody \/ Jwt \/ Form
    \/ RequestContext \/ Dependency \/ LeaveDependencies
    \/ RejectJson \/ CallHandler \/ StartStream \/ AwaitHandler
    \/ MapReturn \/ ResponseMiddleware \/ LeaveFilter \/ MergeHeaders \/ SendMapped
    \/ TryExceptionHandler \/ NoExceptionHandler \/ AwaitExceptionHandler
    \/ SendHandled \/ SendDefault

Spec == Init /\ [][Next]_vars

\* User code that is called returns, and the runtime polls a ready request again.
FairSpec == Spec /\ WF_vars(Next)

-----------------------------------------------------------------------------
(* Properties.                                                             *)

Stages == {"start", "openapi", "middleware", "match", "limit", "length", "body", "jwt",
           "form", "context", "dependencies", "call", "await", "map", "filter", "merge",
           "send", "error", "error_await", "error_map", "error_default", "done"}

UserCode == {"request_middleware", "dependency", "handler", "response_middleware",
             "exception_handler"}

Calls == [what : UserCode, n : Nat]
Statuses == {"200", "204", "400", "401", "404", "405", "413", "415", "422", "429", "500",
             "payload", "mapped", "handled", "middleware", "stream", "file"}
Responses == [by : {"framework", "user"}, status : Statuses]

\* The types of the variables; the walk over the exception handlers stays within them.
TypeOK ==
    /\ app \in Snapshots /\ target \in Targets /\ route \in Routes
    /\ mode \in {"sync", "async"} /\ pc \in Stages /\ i \in Nat
    /\ passed \subseteq {"limit", "size", "jwt"}
    /\ mapped \in {"none", "value", "sent"}
    /\ err \in {"none"} \cup Errors
    /\ ran \in Seq(Calls)
    /\ sent \in Seq(Responses)
    /\ outcome \in {"running", "returned", "raised"}
    /\ (pc = "done") = (outcome # "running")
    /\ pc \in {"error", "error_await", "error_map"} =>
          i <= Len(app.exception_handlers) /\ err # "none"
    /\ pc \in {"error_await", "error_map"} => i > 0

\* The gates add_route asked for.
Required ==
    (IF route.rate_limited THEN {"limit"} ELSE {})
        \cup (IF route.body # "unread" THEN {"size"} ELSE {})
        \cup (IF route.require_jwt THEN {"jwt"} ELSE {})

\* No dependency and no handler runs for a request that has not passed every gate its
\* route asks for: the rate limit, the body limit and the token.  The synchronous short
\* circuit, which has none of the gates, never takes such a route.
UserCodeGuarded ==
    \A k \in DOMAIN ran :
        ran[k].what \in {"dependency", "handler"} => Required \subseteq passed

\* The j-th piece of user code on the way to the handler.
Scheduled(j) ==
    IF j <= app.request_middleware THEN Call("request_middleware", j)
    ELSE Call("dependency", j - app.request_middleware)

\* When the handler runs, exactly the request middlewares and then the dependencies have
\* run before it, each once and in order: a middleware that answered or failed, or a
\* dependency that failed, keeps the handler from running.
PipelineOrder ==
    \A k \in DOMAIN ran : ran[k].what = "handler" =>
        /\ k = app.request_middleware + route.dependencies + 1
        /\ \A j \in 1 .. (k - 1) : ran[j] = Scheduled(j)

\* Of all the places that send a response, at most one does so in a request.
AnsweredOnce ==
    \A j, k \in DOMAIN sent : sent[j].by = "framework" /\ sent[k].by = "framework" => j = k

\* A request is left without a response only if the server is told by an exception, or
\* user code returned the marker that says it has answered.
NeverSilent ==
    pc = "done" /\ target # "not_http" /\ sent = <<>> => outcome = "raised" \/ mapped = "sent"

\* A mapped response, of the handler or of a request middleware, has been through every
\* response middleware, in order.
MappedWasFiltered ==
    (\E k \in DOMAIN sent : sent[k].status = "mapped") =>
        \A n \in 1 .. app.response_middleware :
            LET at == Len(ran) - app.response_middleware + n
            IN  at > 0 /\ ran[at] = Call("response_middleware", n)

\* Once an error is being reported only exception handlers run.
ErrorStopsPipeline ==
    [][err # "none" /\ ran' # ran => ran'[Len(ran')].what = "exception_handler"]_vars

\* Every request comes to an end: no loop over middlewares, dependencies or exception
\* handlers goes round in place.
Terminates == <>(pc = "done")

=============================================================================
