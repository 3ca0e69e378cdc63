--------------------------- MODULE Configuration ---------------------------
(***************************************************************************)
(* What an application can change while it serves: the OpenAPI document    *)
(* with its cached text, and the PostgreSQL pool (setters of src/lib.rs,   *)
(* rebuild_snapshot of src/state.rs), against requests that keep the       *)
(* snapshot they arrived with (src/dispatch.rs) and run DBQuery            *)
(* dependencies on its pool (src/db.rs).                                   *)
(*                                                                         *)
(* A pool is named after the setup_database call that opened it, and a     *)
(* snapshot is the pool it holds.  The document is the number of changes   *)
(* made to it: every change gives a text that was never served before.     *)
(***************************************************************************)
EXTENDS Naturals, FiniteSets

CONSTANTS Tasks,            \* the calls of setup_database and close_database
          Requests,         \* request slots, reused
          MaxConnections,   \* max_connections of every pool
          MaxQueries,       \* DBQuery dependencies of a route
          MaxEdits,         \* bound: changes of the document
          NONE              \* Option::None

ASSUME ConfigurationAssumption ==
    /\ NONE \notin Tasks
    /\ MaxConnections \in Nat \ {0}
    /\ MaxQueries \in Nat
    /\ MaxEdits \in Nat

VARIABLES
    db_pool,            \* AppState.db_pool
    snapshot,           \* AppState.snapshot: db_pool as last published
    document,           \* AppState.openapi.0
    text,               \* AppState.openapi.1: none, or the document it was made from
    torn,               \* history: a set_openapi_info that raised has changed the
                        \* document since this text was made
    pool,               \* task -> "absent", "open" or "closed"
    task,               \* task -> [pc, pool], pool being the one close_database took
    req                 \* request -> [pc, snapshot, queries]

state_vars == <<db_pool, snapshot>>
openapi_vars == <<document, text, torn>>
vars == <<state_vars, openapi_vars, pool, task, req>>

\* A free request slot.
NoRequest == [pc |-> "idle", snapshot |-> NONE, queries |-> 0]

TaskStates == {"idle", "connecting", "connected", "installed", "failed",
               "close", "taken", "draining", "returned", "cancelled"}
RequestStates == {"idle", "running", "acquiring", "querying"}

Init ==
    /\ db_pool = NONE
    /\ snapshot = NONE
    /\ document = 0
    /\ text = NONE
    /\ torn = FALSE
    /\ pool = [t \in Tasks |-> "absent"]
    /\ task = [t \in Tasks |-> [pc |-> "idle", pool |-> NONE]]
    /\ req = [r \in Requests |-> NoRequest]

\* rebuild_snapshot, at the end of a write section.
RebuildSnapshot == snapshot' = db_pool'

-----------------------------------------------------------------------------
(* The OpenAPI document, under the mutex of AppState.openapi.              *)

\* What a call that stores these fields adds to the count of changes.
Changes(stored) == IF stored = {} THEN 0 ELSE 1

\* Mutant: the cached text is kept.
EditCached(n) ==
    /\ document + n <= MaxEdits
    /\ document' = document + n
    /\ UNCHANGED <<text, torn>>

\* An edit followed by `oa.1 = None`.
Edit(n) ==
    /\ document + n <= MaxEdits
    /\ document' = document + n
    /\ text' = NONE
    /\ torn' = FALSE

\* openapi_add_path in add_route, whose last step republishes.
AddRoute ==
    /\ Edit(1)
    /\ UNCHANGED db_pool
    /\ RebuildSnapshot
    /\ UNCHANGED <<pool, task, req>>

\* set_openapi_title, set_openapi_version, and an add_route whose path the router refuses
\* after the operation was added.
SetOpenapiField ==
    /\ Edit(1)
    /\ UNCHANGED <<state_vars, pool, task, req>>

\* set_openapi_info with well-formed arguments: it drops the text even when none is given.
SetOpenapiInfo ==
    /\ \E given \in SUBSET {"description", "contact", "servers"} : Edit(Changes(given))
    /\ UNCHANGED <<state_vars, pool, task, req>>

\* set_openapi_info raising on contact or servers: the arguments before it are stored
\* and the text stays.
SetOpenapiInfoRaises ==
    /\ \E stored \in {{}, {"description"}, {"contact"}, {"description", "contact"}} :
          /\ document + Changes(stored) <= MaxEdits
          /\ document' = document + Changes(stored)
          /\ torn' = (torn \/ (stored # {} /\ text # NONE))
    /\ UNCHANGED <<text, state_vars, pool, task, req>>

\* openapi_json and GET /openapi.json: make the text if there is none, and hand it out.
MakeText == text' = IF text = NONE THEN document ELSE text

OpenapiJson ==
    /\ MakeText
    /\ UNCHANGED <<document, torn, state_vars, pool, task, req>>

-----------------------------------------------------------------------------
(* setup_database and close_database: tokio tasks.                         *)

TaskStep(t, from, to) ==
    /\ task[t].pc = from
    /\ task' = [task EXCEPT ![t].pc = to]

BeginSetup(t) ==
    /\ TaskStep(t, "idle", "connecting")
    /\ UNCHANGED <<state_vars, openapi_vars, pool, req>>

\* PgPoolOptions::connect fails, or the awaiting Python task is cancelled.
ConnectFails(t) ==
    /\ TaskStep(t, "connecting", "failed")
    /\ UNCHANGED <<state_vars, openapi_vars, pool, req>>

Connected(t) ==
    /\ TaskStep(t, "connecting", "connected")
    /\ pool' = [pool EXCEPT ![t] = "open"]
    /\ UNCHANGED <<state_vars, openapi_vars, req>>

\* Mutant: the new pool is stored but not published.
InstallUnpublished(t) ==
    /\ TaskStep(t, "connected", "installed")
    /\ db_pool' = t
    /\ UNCHANGED <<snapshot, openapi_vars, pool, req>>

\* The write section of setup_database: whatever pool was there is overwritten.
Install(t) ==
    /\ TaskStep(t, "connected", "installed")
    /\ db_pool' = t
    /\ RebuildSnapshot
    /\ UNCHANGED <<openapi_vars, pool, req>>

BeginClose(t) ==
    /\ TaskStep(t, "idle", "close")
    /\ UNCHANGED <<state_vars, openapi_vars, pool, req>>

\* Mutant: the pool is taken but the snapshot still hands it out.
TakeUnpublished(t) ==
    /\ task[t].pc = "close"
    /\ task' = [task EXCEPT ![t] = [pc   |-> IF db_pool = NONE THEN "returned" ELSE "taken",
                                    pool |-> db_pool]]
    /\ db_pool' = NONE
    /\ UNCHANGED <<snapshot, openapi_vars, pool, req>>

\* Mutant: close_database waits for a setup that is under way, or to come.
TakeWaiting(t) ==
    /\ task[t].pc = "close" /\ db_pool # NONE
    /\ task' = [task EXCEPT ![t] = [pc |-> "taken", pool |-> db_pool]]
    /\ db_pool' = NONE
    /\ RebuildSnapshot
    /\ UNCHANGED <<openapi_vars, pool, req>>

\* The write section of close_database; without a pool there is nothing to wait for.
Take(t) ==
    /\ task[t].pc = "close"
    /\ task' = [task EXCEPT ![t] = [pc   |-> IF db_pool = NONE THEN "returned" ELSE "taken",
                                    pool |-> db_pool]]
    /\ db_pool' = NONE
    /\ RebuildSnapshot
    /\ UNCHANGED <<openapi_vars, pool, req>>

\* Pool::close marks the pool closed when it is called ...
MarkClosed(t) ==
    /\ TaskStep(t, "taken", "draining")
    /\ pool' = [pool EXCEPT ![task[t].pool] = "closed"]
    /\ UNCHANGED <<state_vars, openapi_vars, req>>

QueriesOn(p) == {r \in Requests : req[r].pc = "querying" /\ req[r].snapshot = p}

\* Mutant: close() is called but not awaited.
DrainedAtOnce(t) ==
    /\ TaskStep(t, "draining", "returned")
    /\ UNCHANGED <<state_vars, openapi_vars, pool, req>>

\* ... and its future waits for every connection.
Drained(t) ==
    /\ QueriesOn(task[t].pool) = {}
    /\ TaskStep(t, "draining", "returned")
    /\ UNCHANGED <<state_vars, openapi_vars, pool, req>>

\* The awaiting Python task is cancelled while the pool drains.
CancelClose(t) ==
    /\ TaskStep(t, "draining", "cancelled")
    /\ UNCHANGED <<state_vars, openapi_vars, pool, req>>

Holds(r, p) == req[r].pc # "idle" /\ req[r].snapshot = p

\* Dropping the last handle of an open pool closes it.
DropPool(p) ==
    /\ pool[p] = "open"
    /\ p \notin {db_pool, snapshot}
    /\ \A r \in Requests : ~Holds(r, p)
    /\ task[p].pc # "connected"
    /\ \A t \in Tasks : ~(task[t].pc = "taken" /\ task[t].pool = p)
    /\ pool' = [pool EXCEPT ![p] = "closed"]
    /\ UNCHANGED <<state_vars, openapi_vars, task, req>>

-----------------------------------------------------------------------------
(* Requests.                                                               *)

RequestStep(r, from, to) ==
    /\ req[r].pc = from
    /\ req' = [req EXCEPT ![r].pc = to]

\* The request is answered and drops its snapshot.
End(r, from) ==
    /\ req[r].pc = from
    /\ req' = [req EXCEPT ![r] = NoRequest]

\* handle_rsgi: hot_snapshot.
Arrive(r) ==
    /\ req[r].pc = "idle"
    /\ \E n \in 0 .. MaxQueries :
          req' = [req EXCEPT ![r] = [pc |-> "running", snapshot |-> snapshot, queries |-> n]]
    /\ UNCHANGED <<state_vars, openapi_vars, pool, task>>

\* GET /openapi.json: served if the snapshot says so, with the text of the state.
GetOpenapi(r) ==
    /\ End(r, "running")
    /\ MakeText
    /\ UNCHANGED <<document, torn, state_vars, pool, task>>

\* A dependency returned a DBQuery.  Without a pool it fails, else it needs a connection.
UseDatabase(r) ==
    /\ req[r].queries > 0
    /\ IF req[r].snapshot = NONE
          THEN End(r, "running")
          ELSE /\ req[r].pc = "running"
               /\ req' = [req EXCEPT ![r].pc = "acquiring", ![r].queries = req[r].queries - 1]
    /\ UNCHANGED <<state_vars, openapi_vars, pool, task>>

Acquire(r) ==
    /\ RequestStep(r, "acquiring", "querying")
    /\ pool[req[r].snapshot] = "open"
    /\ Cardinality(QueriesOn(req[r].snapshot)) < MaxConnections
    /\ UNCHANGED <<state_vars, openapi_vars, pool, task>>

\* The pool is closed, or the wait for a connection times out: a 500.
AcquireFails(r) ==
    /\ End(r, "acquiring")
    /\ UNCHANGED <<state_vars, openapi_vars, pool, task>>

\* execute_query returns rows, and the next dependency is resolved ...
QueryReturns(r) ==
    /\ RequestStep(r, "querying", "running")
    /\ UNCHANGED <<state_vars, openapi_vars, pool, task>>

\* ... or it fails, or the client leaves and the future is dropped.
QueryFails(r) ==
    /\ End(r, "querying")
    /\ UNCHANGED <<state_vars, openapi_vars, pool, task>>

\* The request needs the pool no more, and is answered.
EndRequest(r) ==
    /\ End(r, "running")
    /\ UNCHANGED <<state_vars, openapi_vars, pool, task>>

-----------------------------------------------------------------------------
Openapi == \/ AddRoute \/ SetOpenapiField
           \/ SetOpenapiInfo \/ SetOpenapiInfoRaises \/ OpenapiJson

Database(t) == \/ BeginSetup(t) \/ ConnectFails(t) \/ Connected(t) \/ Install(t)
               \/ BeginClose(t) \/ Take(t) \/ MarkClosed(t) \/ Drained(t) \/ CancelClose(t)
               \/ DropPool(t)

Request(r) == \/ Arrive(r) \/ GetOpenapi(r) \/ UseDatabase(r) \/ Acquire(r)
              \/ AcquireFails(r) \/ QueryReturns(r) \/ QueryFails(r) \/ EndRequest(r)

Next == \/ Openapi
        \/ \E t \in Tasks : Database(t)
        \/ \E r \in Requests : Request(r)

\* tokio runs its ready tasks, the interpreter lock is handed over, the driver drops an
\* unreferenced pool, and a request that was accepted is worked on until it ends: the
\* database answers or fails, and a wait for a connection times out.  That it ends is not
\* true of a WebSocket or an event stream that its peer keeps open: those are not considered.
Fairness ==
    /\ \A t \in Tasks : /\ WF_vars(Connected(t) \/ ConnectFails(t)) /\ WF_vars(Install(t))
                        /\ WF_vars(Take(t)) /\ WF_vars(MarkClosed(t))
                        /\ WF_vars(Drained(t)) /\ WF_vars(DropPool(t))
    /\ \A r \in Requests : /\ WF_vars(AcquireFails(r))
                           /\ WF_vars(QueryReturns(r) \/ QueryFails(r))
                           /\ WF_vars(EndRequest(r))

Spec == Init /\ [][Next]_vars /\ Fairness

-----------------------------------------------------------------------------
(* Properties.                                                             *)

TypeOK ==
    /\ db_pool \in Tasks \cup {NONE}
    /\ snapshot \in Tasks \cup {NONE}
    /\ document \in 0 .. MaxEdits
    /\ text \in (0 .. MaxEdits) \cup {NONE}
    /\ torn \in BOOLEAN
    /\ pool \in [Tasks -> {"absent", "open", "closed"}]
    /\ task \in [Tasks -> [pc : TaskStates, pool : Tasks \cup {NONE}]]
    /\ req \in [Requests -> [pc : RequestStates, snapshot : Tasks \cup {NONE},
                             queries : 0 .. MaxQueries]]

\* A request that arrives is given an open pool or none: never one that a close_database,
\* however it interleaves with setups and with requests, has already closed.
PublishedPoolOpen == snapshot # NONE => pool[snapshot] = "open"

\* When close_database has returned, the pool it took is closed and installed nowhere, and
\* no request is running a query on it, although requests with older snapshots still know
\* the pool.  A second close_database that finds no pool returns without waiting.
CloseQuiesces ==
    \A t \in Tasks : task[t].pc = "returned" /\ task[t].pool # NONE =>
        /\ pool[task[t].pool] = "closed"
        /\ task[t].pool \notin {db_pool, snapshot}
        /\ QueriesOn(task[t].pool) = {}

\* The text served for /openapi.json describes the document as it is, whatever changed it
\* since, except after a set_openapi_info that raised half way.
ServedTextIsDocument == text # NONE /\ ~torn => text = document

\* A pool that is no longer installed, taken by close_database or overwritten by a second
\* setup_database, is closed in the end.
PoolsReleased ==
    \A p \in Tasks : pool[p] = "open" /\ task[p].pc = "installed" /\ db_pool # p
                        ~> pool[p] = "closed"

\* close_database always returns, unless its caller is cancelled: no request can keep a
\* closed pool busy for ever.
CloseReturns ==
    \A t \in Tasks : task[t].pc = "close" ~> task[t].pc \in {"returned", "cancelled"}

=============================================================================
