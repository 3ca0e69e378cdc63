---------------------------- MODULE MCLockOrder ----------------------------
(* Instances of LockOrder for TLC.                                         *)
EXTENDS LockOrder

\* The calls that never take the interpreter lock under a lock of the extension.
OrderedCalls == DOMAIN Scripts \ UndisciplinedCalls

\* A WebSocket is opened while the first request compiles the tables.
OpeningCalls == {"register_websocket", "run_rsgi_compile"}

\* An exception handler is added while a request arrives.
HandlerCalls == {"add_exception_handler", "handle_rsgi"}
=============================================================================
