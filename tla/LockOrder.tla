----------------------------- MODULE LockOrder -----------------------------
(***************************************************************************)
(* The locks a native OxyRoute call takes, and the order it takes them in: *)
(* the interpreter lock, the reader-writer lock of AppState (parking_lot), *)
(* the mutex of active_websockets and the mutex of the OpenAPI document.   *)
(*                                                                         *)
(* A call is a script of lock operations; guards are scopes, so scripts    *)
(* nest.  The interpreter lock is reentrant for the thread that holds it,  *)
(* so a script takes it only where the thread does not have it yet.  The   *)
(* mutexes of the per-method routers and of path_method_masks are left     *)
(* out: they are only taken under the write lock; so are the shards of a   *)
(* rate limiter, under which nothing else is taken.  Objects that a call   *)
(* drops under a lock are assumed to have no destructor in Python.         *)
(***************************************************************************)
EXTENDS Naturals, Sequences

CONSTANTS Threads,          \* event-loop threads and tokio workers
          Calls             \* the calls the threads make: names of Scripts

Locks == {"gil", "read", "write", "ws", "openapi"}

Take(l) == [do |-> "take", lock |-> l]
Drop(l) == [do |-> "drop", lock |-> l]

\* A writer that has set the writer bit waits for the readers to leave.
Drain == [do |-> "drain", lock |-> "write"]

Ops == [do : {"take", "drop", "drain"}, lock : Locks]

\* The scope of a guard.
With(l, body) == <<Take(l)>> \o body \o <<Drop(l)>>
Write(body)   == <<Take("write"), Drain>> \o body \o <<Drop("write")>>

\* Python bytecode: the interpreter may hand its lock to another thread.
Bytecode == <<Drop("gil"), Take("gil")>>

-----------------------------------------------------------------------------
(* The calls.                                                              *)

\* add_route (add_websocket_route is the same without the document): the frozen check; the
\* insertion.  Between them inspect.iscoroutinefunction runs bytecode.
AddRoute == With("gil", With("read", <<>>)) \o With("gil", Write(With("openapi", <<>>)))

\* freeze, add_middleware, set_openapi_served, set_middleware, set_cors and
\* set_security_headers (which look at their argument before they lock), and the last step
\* of setup_database and close_database: no bytecode runs under the write lock.
Setter == With("gil", Write(<<>>))

\* add_exception_handler asks inspect.iscoroutinefunction, a Python function, under the
\* write lock.
AddExceptionHandler == With("gil", Write(Bytecode))

\* handle_rsgi when the snapshot has its tables.
HandleRsgi == With("gil", With("read", <<>>))

\* handle_rsgi whose synchronous path compiles the tables.
HandleRsgiCompile == With("gil", With("read", <<>>) \o With("read", <<>>) \o Write(<<>>))

\* Mutant: the write lock before the interpreter lock.
RunRsgiLockFirst == With("read", <<>>) \o Write(With("gil", <<>>))

\* ensure_compiled_snapshot called from run_rsgi on a tokio worker.
RunRsgiCompile == With("read", <<>>) \o With("gil", Write(<<>>))

\* GET /openapi.json on the synchronous path; openapi_json and the set_openapi_ functions
\* for title, version and info take the second half of it.
OpenapiSync == With("gil", With("read", <<>>) \o With("read", With("openapi", <<>>)))

\* GET /openapi.json in run_rsgi.
OpenapiAsync == With("read", With("openapi", <<>>))

\* run_rsgi_websocket enters the connection in active_websockets.
RegisterWebsocket == With("read", With("gil", With("ws", <<>>)))

\* ActiveWsGuard::drop.
DropActiveWsGuard == With("read", With("ws", <<>>))

\* shutdown_websockets with the server's own protocol objects, whose close is native.
ShutdownWebsockets == With("gil", With("read", With("ws", <<>>)))

\* shutdown_websockets when access_log_hook wraps the protocol: close is Python code.
ShutdownWrapped == With("gil", With("read", With("ws", Bytecode)))

Scripts ==
    [add_route             |-> AddRoute,
     setter                |-> Setter,
     add_exception_handler |-> AddExceptionHandler,
     handle_rsgi           |-> HandleRsgi,
     handle_rsgi_compile   |-> HandleRsgiCompile,
     run_rsgi_compile      |-> RunRsgiCompile,
     openapi_sync          |-> OpenapiSync,
     openapi_async         |-> OpenapiAsync,
     register_websocket    |-> RegisterWebsocket,
     drop_ws_guard         |-> DropActiveWsGuard,
     shutdown_websockets   |-> ShutdownWebsockets,
     shutdown_wrapped      |-> ShutdownWrapped]

\* The calls that take the interpreter lock while they hold a lock of the extension.
UndisciplinedCalls == {"add_exception_handler", "register_websocket", "shutdown_wrapped"}

ASSUME CallsAssumption == Calls \subseteq DOMAIN Scripts

-----------------------------------------------------------------------------
VARIABLES call,   \* per thread: the call it is in, "idle" between calls
          pc,     \* per thread: the operation it is at
          held    \* per thread: the locks it holds; "write" from the writer bit on

vars == <<call, pc, held>>

Holders(l) == {t \in Threads : l \in held[t]}

Current(t) == Scripts[call[t]][pc[t]]

Busy(t) == call[t] # "idle"

\* The threads that keep operation op from completing.  A reader waits for a writer
\* that has set its bit, whether or not that writer still waits for readers itself.
Blockers(op) ==
    CASE op.do = "drop"                       -> {}
      [] op.do = "drain"                      -> Holders("read")
      [] op.do = "take" /\ op.lock = "read"   -> Holders("write")
      [] op.do = "take" /\ op.lock # "read"   -> Holders(op.lock)

Init ==
    /\ call = [t \in Threads |-> "idle"]
    /\ pc = [t \in Threads |-> 1]
    /\ held = [t \in Threads |-> {}]

\* A thread enters one of the calls.
Enter(t) ==
    /\ ~Busy(t)
    /\ \E c \in Calls : call' = [call EXCEPT ![t] = c]
    /\ pc' = [pc EXCEPT ![t] = 1]
    /\ UNCHANGED held

\* The thread performs its next lock operation.
Step(t) ==
    /\ Busy(t)
    /\ pc[t] \in DOMAIN Scripts[call[t]]
    /\ Blockers(Current(t)) = {}
    /\ pc' = [pc EXCEPT ![t] = @ + 1]
    /\ held' = [held EXCEPT ![t] = CASE Current(t).do = "take"  -> @ \cup {Current(t).lock}
                                     [] Current(t).do = "drop"  -> @ \ {Current(t).lock}
                                     [] Current(t).do = "drain" -> @]
    /\ UNCHANGED call

\* The call returns.
Return(t) ==
    /\ Busy(t)
    /\ pc[t] \notin DOMAIN Scripts[call[t]]
    /\ call' = [call EXCEPT ![t] = "idle"]
    /\ pc' = [pc EXCEPT ![t] = 1]
    /\ UNCHANGED held

Next == \E t \in Threads : Enter(t) \/ Step(t) \/ Return(t)

\* parking_lot hands a lock over eventually, and the interpreter forces a switch: a
\* thread that can take its lock again and again takes it in the end.
Fairness == \A t \in Threads : SF_vars(Step(t)) /\ WF_vars(Return(t))

Spec == Init /\ [][Next]_vars

FairSpec == Spec /\ Fairness

-----------------------------------------------------------------------------
(* Properties.                                                             *)

\* Threads are in a call of their own or idle, and locks are locks.
TypeOK ==
    /\ call \in [Threads -> Calls \cup {"idle"}]
    /\ pc \in [Threads -> Nat]
    /\ held \in [Threads -> SUBSET Locks]

\* A thread between two calls holds nothing: every path out of a call drops its guards.
IdleHoldsNothing == \A t \in Threads : ~Busy(t) => held[t] = {}

\* What a thread waits for at the moment.
WaitsFor(t) ==
    IF Busy(t) /\ pc[t] \in DOMAIN Scripts[call[t]] THEN Blockers(Current(t)) ELSE {}

\* No group of threads waits for one another: neither two threads that take the
\* interpreter lock and the state lock in opposite orders (the deadlock of issue #205),
\* nor a cycle through a third thread or through the WebSocket mutex.  It holds of the
\* calls outside UndisciplinedCalls.
NoDeadlock ==
    \A S \in SUBSET Threads : (\A t \in S : WaitsFor(t) \cap S # {}) => S = {}

\* The order the comments on ensure_compiled_snapshot and setup_database ask for: the
\* interpreter lock first, then the state lock, then a mutex.
Rank(l) == CASE l = "gil" -> 1 [] l \in {"read", "write"} -> 2 [] l \in {"ws", "openapi"} -> 4

\* The locks a script holds when it reaches operation i.
HeldAt(s, i) ==
    {l \in Locks : \E j \in 1 .. (i - 1) : /\ s[j].do = "take" /\ s[j].lock = l
                                           /\ \A k \in (j + 1) .. (i - 1) : s[k] # Drop(l)}

Ordered(s) ==
    \A i \in DOMAIN s : \A l \in HeldAt(s, i) :
        /\ s[i].do = "take"  => Rank(l) < Rank(s[i].lock)
        /\ s[i].do = "drain" => l \in {"gil", "write"}

Balanced(s) == HeldAt(s, Len(s) + 1) = {}

\* Every call takes its locks in the one order and gives them all back: the condition
\* under which NoDeadlock holds for any number of threads.
Disciplined == \A c \in Calls : Ordered(Scripts[c]) /\ Balanced(Scripts[c])

\* At run time: what a thread is about to take ranks above everything it holds, and a
\* writer that waits for the readers holds nothing a reader might want but the GIL.
OrderFollowed ==
    \A t \in Threads : Busy(t) /\ pc[t] \in DOMAIN Scripts[call[t]] =>
        \A l \in held[t] :
            /\ Current(t).do = "take"  => Rank(l) < Rank(Current(t).lock)
            /\ Current(t).do = "drain" => l \in {"gil", "write"}

\* Every call returns, when nobody makes one of the undisciplined calls.
CallsReturn == \A t \in Threads : Busy(t) ~> ~Busy(t)
=============================================================================
