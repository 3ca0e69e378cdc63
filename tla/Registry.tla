------------------------------ MODULE Registry ------------------------------
(***************************************************************************)
(* AppState of src/state.rs and the operations of src/lib.rs that change   *)
(* its route tables, together with the requests that read them.            *)
(*                                                                         *)
(* A registration runs in two critical sections: the frozen check under    *)
(* the read lock (lib.rs:424-431), and the insertion under the write lock  *)
(* (lib.rs:531-612); in between, add_route calls into Python, where        *)
(* another thread may take the interpreter lock.  A request takes the      *)
(* published snapshot on arrival (lib.rs:927) and matches its path later,  *)
(* possibly on another thread, against the tables compiled in the snapshot *)
(* or, when the snapshot has none, against tables compiled at that moment. *)
(***************************************************************************)
EXTENDS Naturals, Sequences, Matchit

CONSTANTS Methods,          \* method strings callers pass to add_route and clients send
          Templates,        \* path templates
          Paths,            \* request paths
          Registrars,       \* threads that call add_route, add_websocket_route, freeze
          Requests,         \* requests and WebSocket handshakes
          MaxRoutes         \* bound on the registrations the model performs

ASSUME MethodsAssumption ==
    /\ Methods \subseteq STRING
    /\ "WS" \notin Methods
ASSUME TemplatesAssumption ==
    Templates \subseteq Seq([kind : {"static", "param"}, name : STRING])
ASSUME MaxRoutesAssumption == MaxRoutes \in Nat

\* The per-method routers of AppState.  HEAD shares the router of GET.
Tables == {"GET", "POST", "PUT", "PATCH", "DELETE", "OPTIONS", "WS"}

\* The methods of MethodMask.
HttpMethods == (Tables \ {"WS"}) \cup {"HEAD"}

\* map_method_router and router_for_compiled: the router a method uses, as an option.
RouterFor(method) ==
    IF method \in {"GET", "HEAD"} THEN {"GET"} ELSE {method} \cap Tables

\* MethodMask::from_method: a GET route also answers HEAD.
MaskOf(method) == IF method = "GET" THEN {"GET", "HEAD"} ELSE {method} \cap HttpMethods

VARIABLES
    routes,       \* AppState.routes: the method and path each entry was registered with
    ws_routes,    \* AppState.websocket_routes
    router,       \* the seven Mutex<Router<usize>> of AppState; an index counts from 1
    masks,        \* AppState.path_method_masks
    openapi,      \* operations of the OpenAPI document: <<method, path>> -> index of
                  \* the route whose registration wrote the operation
    compiled,     \* AppState.compiled: {} or {tables}
    frozen,       \* AppState.frozen
    snapshot,     \* AppState.snapshot (FrozenState): [routes, ws_routes, compiled]
    job,          \* per registrar: {} or {the declaration past its frozen check}
    req           \* per request: its progress

vars == <<routes, ws_routes, router, masks, openapi, compiled, frozen,
          snapshot, job, req>>

EmptyTable == [t \in {} |-> 0]

\* FrozenState as rebuild_snapshot fills it, from the values given.
FrozenState(rs, ws, c) == [routes |-> rs, ws_routes |-> ws, compiled |-> c]

\* A request, the snapshot it took, the tables it was matched with and the result.
Request(stage, method, path, snap, tables, outcome, index) ==
    [stage |-> stage, method |-> method, path |-> path, snap |-> snap,
     tables |-> tables, outcome |-> outcome, index |-> index]

NewRequest == Request("new", "none", <<>>, FrozenState(<<>>, <<>>, {}), {}, "none", 0)

\* AppState::new.
Init ==
    /\ routes = <<>>
    /\ ws_routes = <<>>
    /\ router = [m \in Tables |-> EmptyTable]
    /\ masks = [t \in {} |-> {}]
    /\ openapi = [k \in {} |-> 0]
    /\ compiled = {}
    /\ frozen = FALSE
    /\ snapshot = FrozenState(<<>>, <<>>, {})
    /\ job = [p \in Registrars |-> {}]
    /\ req = [r \in Requests |-> NewRequest]

-----------------------------------------------------------------------------
(* Compiled tables.                                                        *)

\* snapshot_routers asserts that all templates, of every method, fit one router.
AllPathsInsertable(ms) ==
    \A t, u \in DOMAIN ms : t # u => ~Conflicts(t, u)

\* snapshot_routers: a copy of the routers and the merged all_paths router.
SnapshotRouters(rt, ms) == [router |-> rt, all_paths |-> ms]

\* ensure_compiled_snapshot: the tables of the state, compiled now when there are
\* none; {} when compiling them panics.  A release build (panic = "abort") ends there;
\* the model goes on, as a build that unwinds does.
EnsureCompiled ==
    IF compiled # {} THEN compiled
    ELSE IF AllPathsInsertable(masks) THEN {SnapshotRouters(router, masks)} ELSE {}

\* What ensure_compiled_snapshot leaves in the state: freshly compiled tables are published.
PublishCompiled ==
    /\ compiled' = EnsureCompiled
    /\ snapshot' = IF compiled # EnsureCompiled
                   THEN FrozenState(routes, ws_routes, EnsureCompiled) ELSE snapshot

\* match_route_compiled and match_ws_route_compiled: the indexes found, at most one.
MatchRoute(tables, method, path) ==
    UNION {{tables.router[m][t] : t \in Selected(tables.router[m], path)} :
              m \in RouterFor(method)}

\* Mutant: the per-router probe includes the WebSocket router.
MethodsMatchingAnyRouter(tables, path) ==
    UNION {MaskOf(m) \cup ({m} \cap {"WS"}) : m \in {n \in Tables : HasMatch(tables.router[n], path)}}

\* methods_matching_path_compiled: the mask of the best template, else one probe per router.
MethodsMatchingPath(tables, path) ==
    IF UNION {tables.all_paths[t] : t \in Selected(tables.all_paths, path)} # {}
    THEN UNION {tables.all_paths[t] : t \in Selected(tables.all_paths, path)}
    ELSE UNION {MaskOf(m) : m \in {n \in Tables \ {"WS"} : HasMatch(tables.router[n], path)}}

-----------------------------------------------------------------------------
(* Registration.                                                           *)

\* Mutant: registration does not look at the frozen flag.
BeginAddUnchecked(p) ==
    /\ job[p] = {}
    /\ \E m \in Methods \cup {"WS"}, t \in Templates :
          job' = [job EXCEPT ![p] = {[method |-> m, path |-> t]}]
    /\ UNCHANGED <<routes, ws_routes, router, masks, openapi, compiled, frozen, snapshot, req>>

\* add_route / add_websocket_route up to the first call into Python: the frozen check.
BeginAdd(p) ==
    /\ job[p] = {}
    /\ ~frozen
    /\ \E m \in Methods \cup {"WS"}, t \in Templates :
          job' = [job EXCEPT ![p] = {[method |-> m, path |-> t]}]
    /\ UNCHANGED <<routes, ws_routes, router, masks, openapi, compiled, frozen, snapshot, req>>

\* add_route and add_websocket_route return an error before the write lock: a missing
\* JWT secret, a dependency cycle, an unreadable handler signature.
AbortAdd(p) ==
    /\ job[p] # {}
    /\ job' = [job EXCEPT ![p] = {}]
    /\ UNCHANGED <<routes, ws_routes, router, masks, openapi, compiled, frozen, snapshot, req>>

\* Mutant: the index of the entry pushed before this one.
IndexOfLast(rs) == Len(rs)

\* Mutant: the index is taken after the push.
IndexAfterPush(rs) == Len(rs) + 2

\* The index of the entry about to be pushed.
NextIndex(rs) == Len(rs) + 1

\* Mutant: the compiled tables survive a registration.
KeepCompiled(c) == c

\* A registration discards the compiled tables.
Invalidate(c) == {}

\* path_method_masks.entry(path).or_default().insert_method(method).
InsertMethod(ms, t, method) ==
    Insert(ms, t, MaskOf(method) \cup (IF t \in DOMAIN ms THEN ms[t] ELSE {}))

\* Mutant: the path item is replaced, with the operations of its other methods.
OpenapiReplacePath(doc, method, path, idx) ==
    [k \in ({x \in DOMAIN doc : x[2] # path} \cup {<<method, path>>}) |->
        IF k = <<method, path>> THEN idx ELSE doc[k]]

\* openapi_add_path: the operation of a method and path, written over an earlier one.
OpenapiAddPath(doc, method, path, idx) ==
    [k \in (DOMAIN doc \cup {<<method, path>>}) |->
        IF k = <<method, path>> THEN idx ELSE doc[k]]

\* add_route under the write lock.  The entry is pushed before anything can fail;
\* the OpenAPI operation is written before the router is asked.
CommitAddRoute(p) ==
    \E j \in job[p] :
        LET idx == NextIndex(routes)
            rs  == Append(routes, [method |-> j.method, path |-> j.path])
        IN  /\ j.method # "WS"
            /\ Len(routes) + Len(ws_routes) < MaxRoutes
            /\ job' = [job EXCEPT ![p] = {}]
            /\ routes' = rs
            /\ UNCHANGED <<ws_routes, frozen, req>>
            /\ \/ \* body_schema_json, a tag or extra_params_json is malformed
                  UNCHANGED <<router, masks, openapi, compiled, snapshot>>
               \/ \* unsupported HTTP method, or the router refuses the path
                  /\ \A m \in RouterFor(j.method) : ~CanInsert(router[m], j.path)
                  /\ openapi' = OpenapiAddPath(openapi, j.method, j.path, idx)
                  /\ UNCHANGED <<router, masks, compiled, snapshot>>
               \/ \E m \in RouterFor(j.method) :
                  /\ CanInsert(router[m], j.path)
                  /\ openapi' = OpenapiAddPath(openapi, j.method, j.path, idx)
                  /\ router' = [router EXCEPT ![m] = Insert(router[m], j.path, idx)]
                  /\ masks' = InsertMethod(masks, j.path, j.method)
                  /\ compiled' = Invalidate(compiled)
                  /\ snapshot' = FrozenState(rs, ws_routes, Invalidate(compiled))

\* add_websocket_route under the write lock.
CommitAddWebsocketRoute(p) ==
    \E j \in job[p] :
        LET ws == Append(ws_routes, [method |-> j.method, path |-> j.path])
        IN  /\ j.method = "WS"
            /\ Len(routes) + Len(ws_routes) < MaxRoutes
            /\ job' = [job EXCEPT ![p] = {}]
            /\ ws_routes' = ws
            /\ UNCHANGED <<routes, masks, openapi, frozen, req>>
            /\ \/ /\ ~CanInsert(router["WS"], j.path)
                  /\ UNCHANGED <<router, compiled, snapshot>>
               \/ /\ CanInsert(router["WS"], j.path)
                  /\ router' = [router EXCEPT !["WS"] =
                                   Insert(router["WS"], j.path, NextIndex(ws_routes))]
                  /\ compiled' = Invalidate(compiled)
                  /\ snapshot' = FrozenState(routes, ws, Invalidate(compiled))

\* freeze.  The flag is set first and stays set when snapshot_routers panics.
Freeze(p) ==
    /\ job[p] = {}
    /\ frozen' = TRUE
    /\ compiled' = EnsureCompiled
    /\ snapshot' = IF EnsureCompiled = {} THEN snapshot
                   ELSE FrozenState(routes, ws_routes, EnsureCompiled)
    /\ UNCHANGED <<routes, ws_routes, router, masks, openapi, job, req>>

\* set_cors, set_middleware, set_openapi_served, setup_database ...: every configuration
\* setter republishes the snapshot, entries left behind by a failed add_route included.
Reconfigure ==
    /\ snapshot' = FrozenState(routes, ws_routes, compiled)
    /\ UNCHANGED <<routes, ws_routes, router, masks, openapi, compiled, frozen, job, req>>

-----------------------------------------------------------------------------
(* Requests.                                                               *)

\* The lists a matched index is looked up in.
EntriesFor(snap, method) == IF method = "WS" THEN snap.ws_routes ELSE snap.routes

\* What matching decides: the handler to call, 404, 405, an unsupported method, the
\* polite close of an unknown WebSocket path, or the "route index" exception.
Outcome(snap, tables, method, path) ==
    LET found == MatchRoute(tables, method, path)
    IN  CASE RouterFor(method) = {}                            -> "unsupported"
          [] found # {} /\ found \subseteq DOMAIN EntriesFor(snap, method) -> "dispatch"
          [] found # {} /\ ~(found \subseteq DOMAIN EntriesFor(snap, method)) -> "route index"
          [] found = {} /\ method = "WS"                       -> "closed"
          [] OTHER -> IF MethodsMatchingPath(tables, path) = {} THEN "404" ELSE "405"

\* The index handed to the dispatcher, 0 for none.
FoundIndex(tables, method, path) ==
    IF MatchRoute(tables, method, path) = {} THEN 0
    ELSE CHOOSE i \in MatchRoute(tables, method, path) : TRUE

\* handle_rsgi takes the published snapshot.
Arrived(method, path) == Request("arrived", method, path, snapshot, {}, "none", 0)

\* The request answered from the tables given.
Answered(q, tables) ==
    Request("done", q.method, q.path, q.snap, {tables},
            Outcome(q.snap, tables, q.method, q.path),
            FoundIndex(tables, q.method, q.path))

\* The request whose tables could not be compiled.
Panicked(q) == Request("done", q.method, q.path, q.snap, {}, "panic", 0)

\* handle_rsgi of a request the synchronous path declines at once (a WebSocket, or
\* middleware is configured): the snapshot is taken now and used later.
HandleRsgiAsync(r) ==
    /\ req[r].stage = "new"
    /\ \E m \in Methods \cup {"WS"}, p \in Paths :
          req' = [req EXCEPT ![r] = Arrived(m, p)]
    /\ UNCHANGED <<routes, ws_routes, router, masks, openapi, compiled, frozen, snapshot, job>>

\* handle_rsgi with try_rsgi_sync_short_circuit, in one step: the interpreter lock, which
\* every writer of the state holds too, is held throughout.  A route that is not trivial
\* is left to the asynchronous path, which starts again from the same snapshot.
HandleRsgiSync(r) ==
    /\ req[r].stage = "new"
    /\ PublishCompiled
    /\ \E m \in Methods, p \in Paths :
          \/ /\ EnsureCompiled = {}
             /\ req' = [req EXCEPT ![r] = Panicked(Arrived(m, p))]
          \/ \E tables \in EnsureCompiled :
                req' = [req EXCEPT ![r] = Answered(Arrived(m, p), tables)]
          \/ \E tables \in EnsureCompiled :
                /\ Answered(Arrived(m, p), tables).outcome = "dispatch"
                /\ req' = [req EXCEPT ![r] = Arrived(m, p)]
    /\ UNCHANGED <<routes, ws_routes, router, masks, openapi, frozen, job>>

\* run_rsgi and run_rsgi_websocket with the tables of the request's own snapshot.
MatchSnapshot(r) ==
    /\ req[r].stage = "arrived"
    /\ \E tables \in req[r].snap.compiled :
          req' = [req EXCEPT ![r] = Answered(req[r], tables)]
    /\ UNCHANGED <<routes, ws_routes, router, masks, openapi, compiled, frozen, snapshot, job>>

\* run_rsgi and run_rsgi_websocket when the request's snapshot has no tables: they come
\* from the state as it is now.  The read-locked probe and the second look under the
\* write lock amount to one step at the moment of the look that returns.
MatchCurrent(r) ==
    /\ req[r].stage = "arrived"
    /\ req[r].snap.compiled = {}
    /\ PublishCompiled
    /\ \/ /\ EnsureCompiled = {}
          /\ req' = [req EXCEPT ![r] = Panicked(req[r])]
       \/ \E tables \in EnsureCompiled :
             req' = [req EXCEPT ![r] = Answered(req[r], tables)]
    /\ UNCHANGED <<routes, ws_routes, router, masks, openapi, frozen, job>>

-----------------------------------------------------------------------------
Next ==
    \/ \E p \in Registrars : BeginAdd(p) \/ AbortAdd(p) \/ CommitAddRoute(p)
                             \/ CommitAddWebsocketRoute(p) \/ Freeze(p)
    \/ Reconfigure
    \/ \E r \in Requests : HandleRsgiAsync(r) \/ HandleRsgiSync(r)
                           \/ MatchSnapshot(r) \/ MatchCurrent(r)

Spec == Init /\ [][Next]_vars

-----------------------------------------------------------------------------
(* Properties.                                                             *)

RouteEntry == [method : Methods \cup {"WS"}, path : Templates]

\* The state of the registry is well-formed.
TypeOK ==
    /\ routes \in Seq(RouteEntry)
    /\ ws_routes \in Seq(RouteEntry)
    /\ DOMAIN router = Tables
    /\ \A m \in Tables : \A t \in DOMAIN router[m] : t \in Templates /\ router[m][t] \in Nat \ {0}
    /\ \A t \in DOMAIN masks : t \in Templates /\ masks[t] \subseteq HttpMethods
    /\ frozen \in BOOLEAN
    /\ job \in [Registrars -> SUBSET RouteEntry]
    /\ snapshot.routes \in Seq(RouteEntry)
    /\ snapshot.ws_routes \in Seq(RouteEntry)

\* The entry a router of the tables leads to is the one registered for that router and
\* template: rs and ws are long enough, and hold it at the index.
Resolves(rt, rs, ws) ==
    /\ \A m \in Tables \ {"WS"} : \A t \in DOMAIN rt[m] :
          /\ rt[m][t] \in DOMAIN rs
          /\ rs[rt[m][t]].path = t
          /\ m \in RouterFor(rs[rt[m][t]].method)
    /\ \A t \in DOMAIN rt["WS"] :
          /\ rt["WS"][t] \in DOMAIN ws
          /\ ws[rt["WS"][t]].path = t
          /\ "WS" \in RouterFor(ws[rt["WS"][t]].method)

\* Every index stored in a router leads to the entry of its own registration, although
\* add_route pushes entries that never reach a router; and everything that is routed is
\* covered by the published snapshot, so tables compiled from it can be used with it.
IndexesResolve ==
    /\ Resolves(router, routes, ws_routes)
    /\ Resolves(router, snapshot.routes, snapshot.ws_routes)

\* Compiled tables, once published, are those of the routers as they are now: a
\* registration is visible to every request that arrives after it, no stale table
\* survives an add_route, and the snapshot carries the tables of the state.
TablesFresh ==
    /\ \A c \in compiled : c = SnapshotRouters(router, masks)
    /\ snapshot.compiled = compiled

\* A request is given the handler of the best template for its path, even when its
\* snapshot and the tables it matched with were published at different times.
DispatchedToOwnHandler ==
    \A r \in Requests : req[r].outcome = "dispatch" =>
        LET e == EntriesFor(req[r].snap, req[r].method)[req[r].index]
        IN  \E tables \in req[r].tables, m \in RouterFor(req[r].method) :
                /\ Selected(tables.router[m], req[r].path) = {e.path}
                /\ m \in RouterFor(e.method)

\* A request whose snapshot came with its tables never ends in the "route index" error.
CompleteSnapshotIsSelfContained ==
    \A r \in Requests : req[r].outcome = "route index" => req[r].snap.compiled = {}

\* 405 lists only methods that would be routed, never the one that was refused; and a
\* path is 404 only when no method at all would be routed.
AllowIsHonest ==
    \A r \in Requests : \A tables \in req[r].tables :
        LET answers(m) == MatchRoute(tables, m, req[r].path) # {}
            allow      == MethodsMatchingPath(tables, req[r].path)
        IN  /\ req[r].outcome = "405" => /\ \A m \in allow : m \in HttpMethods /\ answers(m)
                                         /\ req[r].method \notin allow
            /\ req[r].outcome = "404" => ~\E m \in HttpMethods : answers(m)

\* Every route that is served is described by the OpenAPI document.
RoutedIsDocumented ==
    \A m \in Tables \ {"WS"} : \A t \in DOMAIN router[m] :
        \E k \in DOMAIN openapi : k[2] = t /\ m \in RouterFor(k[1])

\* A step answers no request with a panic, and one that arrives keeps the compiled tables.
AnsweredFromTables ==
    \A r \in Requests : req'[r] # req[r] =>
        /\ req'[r].outcome # "panic"
        /\ req[r].stage = "new" => /\ req'[r].snap.compiled = compiled
                                  /\ req'[r].outcome # "route index"

\* Frozen, and every declaration that was past its frozen check has come to its end.
Quiet == frozen /\ \A p \in Registrars : job[p] = {}

\* A step of a frozen registry lets no declaration past the frozen check and adds an entry
\* only for one that is past it, which is then over.  When it is quiet, compiled tables stay,
\* and requests are answered from them.
Final ==
    frozen =>
       /\ frozen'
       /\ \A p \in Registrars : job'[p] \subseteq job[p]
       /\ routes' # routes \/ ws_routes' # ws_routes =>
             \E p \in Registrars : job[p] # {} /\ job'[p] = {}
       /\ Quiet /\ compiled # {} => compiled' = compiled /\ AnsweredFromTables

\* freeze() is final, but for the declarations it overtakes: the flag is checked before
\* add_route's validation and not again when it writes, so a thread that was in between
\* still adds its one route.  Once these are over no entry is registered any more, and the
\* tables, once compiled, answer every later request, whatever is configured: none is lost
\* to the panic or to an index its lists do not know.
FreezeIsFinal == [][Final]_vars

\* The .expect("snapshot all_paths") of snapshot_routers never panics.
NoCompilePanic == \A r \in Requests : req[r].outcome # "panic"

\* A request matched while routes are being added is never left with an index its
\* snapshot does not know.
NoRouteIndexError == \A r \in Requests : req[r].outcome # "route index"


-----------------------------------------------------------------------------
(* What the routes look like from outside.                                 *)

\* What routers serve: at each template, the entry its index leads to.
ServedBy(rt, rs, ws) ==
    [m \in Tables |->
        [t \in DOMAIN rt[m] |-> IF m = "WS" THEN ws[rt[m][t]] ELSE rs[rt[m][t]]]]

\* A request with the tables of its snapshot, and the handler it was given.
ViewOf(q) ==
    [stage |-> q.stage, method |-> q.method, path |-> q.path,
     kept |-> {ServedBy(c.router, q.snap.routes, q.snap.ws_routes) : c \in q.snap.compiled},
     result |-> q.outcome,
     handler |-> IF q.outcome = "dispatch"
                 THEN {EntriesFor(q.snap, q.method)[q.index]} ELSE {}]

Abstract == INSTANCE Routing
    WITH served <- ServedBy(router, routes, ws_routes),
         request <- [r \in Requests |-> ViewOf(req[r])]

\* Registration is atomic and a request is answered from one table as a whole, by the
\* handler registered for the template it matched, although an entry, its index, the
\* document, the masks, the compiled tables and the snapshot are written one by one, some
\* of them for registrations that fail, and a request reads them at different times.
ImplementsRouting == Abstract!Spec
=============================================================================
