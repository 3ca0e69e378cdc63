------------------------------ MODULE WebSocket ------------------------------
(***************************************************************************)
(* WebSocket connections: run_rsgi_websocket (src/dispatch.rs), the        *)
(* WebSocket object its handler gets (src/websocket.rs, oxyroute/_ws.py),  *)
(* the table active_websockets, and App::shutdown_websockets (src/lib.rs). *)
(*                                                                         *)
(* Each connection's handler runs asyncio tasks that use the WebSocket     *)
(* object at will; an await inside one of its methods is where tasks, the  *)
(* peer and a shutdown get their turn.  Frames carry no data.  The server's *)
(* protocol and transport objects, and asyncio.Lock, are external.         *)
(***************************************************************************)
EXTENDS Naturals, Sequences, FiniteSets

CONSTANTS Connections,
          Tasks,     \* connection -> the tasks of its handler
          Nobody     \* the write lock is free

AllTasks == UNION {Tasks[c] : c \in Connections}

ASSUME TasksAssumption == Nobody \notin AllTasks

VARIABLES
    phase,        \* connection -> where run_rsgi_websocket is
    next_ws_id,   \* AppState.next_ws_id
    ws_id,        \* connection -> its id, once it has one
    active,       \* AppState.active_websockets: entries [id, conn], one per id
    transport,    \* connection -> WebSocket.transport is set
    closed,       \* connection -> WebSocket.closed
    lock,         \* connection -> the task that holds WebSocket.write_lock
    waiters,      \* connection -> tasks waiting for it, first come first served
    task,         \* connection -> task -> the await it is in, "idle" outside
    closes,       \* connection -> codes passed to protocol.close, in order
    peer          \* connection -> "open" or "gone"

dispatch == <<phase, next_ws_id, ws_id, active>>
object == <<transport, closed, lock, waiters, task>>
vars == <<phase, next_ws_id, ws_id, active, transport, closed, lock, waiters, task, closes, peer>>

Init ==
    /\ phase = [c \in Connections |-> "new"]
    /\ next_ws_id = 0
    /\ ws_id = [c \in Connections |-> 0]
    /\ active = {}
    /\ transport = [c \in Connections |-> FALSE]
    /\ closed = [c \in Connections |-> FALSE]
    /\ lock = [c \in Connections |-> Nobody]
    /\ waiters = [c \in Connections |-> <<>>]
    /\ task = [c \in Connections |-> [t \in Tasks[c] |-> "idle"]]
    /\ closes = [c \in Connections |-> <<>>]
    /\ peer = [c \in Connections |-> "open"]

-----------------------------------------------------------------------------
(* run_rsgi_websocket.                                                     *)

\* protocol.close(code); what the call raises is ignored.
CloseProtocol(c, code) == closes' = [closes EXCEPT ![c] = Append(@, code)]

Advance(c, to) == phase' = [phase EXCEPT ![c] = to]

\* The path is matched and the Origin header checked: no route closes with 1000, a
\* refused origin with 1008, and an index the snapshot does not know raises.
Open(c) ==
    /\ phase[c] = "new"
    /\ \/ \E code \in {1000, 1008} : CloseProtocol(c, code) /\ Advance(c, "refused")
       \/ Advance(c, "refused") /\ UNCHANGED closes
       \/ Advance(c, "opened") /\ UNCHANGED closes
    /\ UNCHANGED <<next_ws_id, ws_id, active, object, peer>>

\* Mutant: the id is the number of connections.
NumberBySize(c) ==
    /\ phase[c] = "opened"
    /\ ws_id' = [ws_id EXCEPT ![c] = Cardinality(active)]
    /\ Advance(c, "numbered")
    /\ UNCHANGED <<next_ws_id, active, object, closes, peer>>

\* next_ws_id.fetch_add, before the interpreter lock is taken.
Number(c) ==
    /\ phase[c] = "opened"
    /\ ws_id' = [ws_id EXCEPT ![c] = next_ws_id]
    /\ next_ws_id' = next_ws_id + 1
    /\ Advance(c, "numbered")
    /\ UNCHANGED <<active, object, closes, peer>>

\* HashMap::insert: an entry with the same id is replaced.
Register(c) ==
    /\ phase[c] = "numbered"
    /\ active' = {e \in active : e.id # ws_id[c]} \cup {[id |-> ws_id[c], conn |-> c]}
    /\ Advance(c, "registered")
    /\ UNCHANGED <<next_ws_id, ws_id, object, closes, peer>>

\* The WebSocket object is made and the handler called with it.
CallHandler(c) ==
    /\ phase[c] = "registered"
    /\ Advance(c, "running")
    /\ UNCHANGED <<next_ws_id, ws_id, active, object, closes, peer>>

\* The handler, or its coroutine, returns or raises.  Tasks it started may outlive it.
EndHandler(c) ==
    /\ phase[c] = "running"
    /\ Advance(c, "leaving") \/ Advance(c, "failed")
    /\ UNCHANGED <<next_ws_id, ws_id, active, object, closes, peer>>

\* Mutant: a connection the handler has closed is not closed again.
CloseFailedOnce(c) ==
    /\ phase[c] = "failed"
    /\ IF closed[c] THEN UNCHANGED closes ELSE CloseProtocol(c, 1011)
    /\ Advance(c, "leaving")
    /\ UNCHANGED <<next_ws_id, ws_id, active, object, peer>>

\* An error of the handler closes the connection with 1011.
CloseFailed(c) ==
    /\ phase[c] = "failed"
    /\ CloseProtocol(c, 1011)
    /\ Advance(c, "leaving")
    /\ UNCHANGED <<next_ws_id, ws_id, active, object, peer>>

\* Mutant: the guard is not dropped on the way out.
LeaveRegistered(c) ==
    /\ phase[c] = "leaving"
    /\ Advance(c, "done")
    /\ UNCHANGED <<next_ws_id, ws_id, active, object, closes, peer>>

\* ActiveWsGuard::drop as run_rsgi_websocket returns.
Leave(c) ==
    /\ phase[c] = "leaving"
    /\ active' = {e \in active : e.id # ws_id[c]}
    /\ Advance(c, "done")
    /\ UNCHANGED <<next_ws_id, ws_id, object, closes, peer>>

\* shutdown_websockets: every connection in the table is closed with 1001 and removed.
ShutdownWebsockets ==
    /\ active # {}
    /\ closes' = [c \in Connections |->
                     IF \E e \in active : e.conn = c THEN Append(closes[c], 1001) ELSE closes[c]]
    /\ active' = {}
    /\ UNCHANGED <<phase, next_ws_id, ws_id, object, peer>>

-----------------------------------------------------------------------------
(* The WebSocket object, used by the tasks of a handler that has started.  *)

\* The connection is over for the transport: its awaits return.
Ended(c) == peer[c] = "gone" \/ closes[c] # <<>>

Await(c, t, what) == task' = [task EXCEPT ![c][t] = what]

\* A task of a running handler, or one it left behind, is between two awaits.
Free(c, t) == phase[c] \in {"running", "failed", "leaving", "done"} /\ task[c][t] = "idle"

\* accept: the handshake is awaited, then the transport stored.
Accept(c, t) ==
    /\ Free(c, t)
    /\ Await(c, t, "accept")
    /\ UNCHANGED <<dispatch, transport, closed, lock, waiters, closes, peer>>

Accepted(c, t) ==
    /\ task[c][t] = "accept"
    /\ transport' = [transport EXCEPT ![c] = TRUE] \/ UNCHANGED transport
    /\ Await(c, t, "idle")
    /\ UNCHANGED <<dispatch, closed, lock, waiters, closes, peer>>

\* receive, receive_text and receive_bytes; before accept they raise.
Receive(c, t) ==
    /\ Free(c, t) /\ transport[c]
    /\ Await(c, t, "receive")
    /\ UNCHANGED <<dispatch, transport, closed, lock, waiters, closes, peer>>

\* A frame, of the wanted kind or not, or an error of the transport.
ReceiveFrame(c, t) ==
    /\ task[c][t] = "receive"
    /\ Await(c, t, "idle")
    /\ UNCHANGED <<dispatch, transport, closed, lock, waiters, closes, peer>>

\* A close message: the object is marked closed and the call raises.
ReceiveClose(c, t) ==
    /\ task[c][t] = "receive" /\ Ended(c)
    /\ closed' = [closed EXCEPT ![c] = TRUE]
    /\ Await(c, t, "idle")
    /\ UNCHANGED <<dispatch, transport, lock, waiters, closes, peer>>

\* Mutant: the lock is not taken.
SendUnlocked(c, t) ==
    /\ Free(c, t) /\ transport[c]
    /\ Await(c, t, "send")
    /\ UNCHANGED <<dispatch, transport, closed, lock, waiters, closes, peer>>

\* send_text, send_bytes and send_json up to async with lock: a free lock nobody waits
\* for is taken at once.
Send(c, t) ==
    /\ Free(c, t) /\ transport[c]
    /\ IF lock[c] = Nobody /\ waiters[c] = <<>>
       THEN /\ lock' = [lock EXCEPT ![c] = t]
            /\ Await(c, t, "send")
            /\ UNCHANGED waiters
       ELSE /\ waiters' = [waiters EXCEPT ![c] = Append(@, t)]
            /\ Await(c, t, "wait")
            /\ UNCHANGED lock
    /\ UNCHANGED <<dispatch, transport, closed, closes, peer>>

\* asyncio.Lock wakes its first waiter, which then holds the lock.
TakeLock(c, t) ==
    /\ task[c][t] = "wait" /\ lock[c] = Nobody /\ Head(waiters[c]) = t
    /\ lock' = [lock EXCEPT ![c] = t]
    /\ waiters' = [waiters EXCEPT ![c] = Tail(@)]
    /\ Await(c, t, "send")
    /\ UNCHANGED <<dispatch, transport, closed, closes, peer>>

\* Mutant: the lock is not released when the transport raises.
SentUnreleased(c, t) ==
    /\ task[c][t] = "send"
    /\ lock' = [lock EXCEPT ![c] = IF Ended(c) THEN t ELSE Nobody]
    /\ Await(c, t, "idle")
    /\ UNCHANGED <<dispatch, transport, closed, waiters, closes, peer>>

\* The transport has sent the frame or raised, or the task was cancelled: async with
\* releases the lock on every way out.
Sent(c, t) ==
    /\ task[c][t] = "send"
    /\ lock' = [lock EXCEPT ![c] = Nobody]
    /\ Await(c, t, "idle")
    /\ UNCHANGED <<dispatch, transport, closed, waiters, closes, peer>>

\* A task waiting for a frame or for the lock is cancelled.
Cancel(c, t) ==
    /\ task[c][t] \in {"accept", "receive", "wait"}
    /\ waiters' = [waiters EXCEPT ![c] = SelectSeq(@, LAMBDA u : u # t)]
    /\ Await(c, t, "idle")
    /\ UNCHANGED <<dispatch, transport, closed, lock, closes, peer>>

\* Mutant: the flag is read, and set only after protocol.close.
CloseUnflagged(c, t) ==
    /\ Free(c, t) /\ ~closed[c] /\ Len(closes[c]) < 3
    /\ CloseProtocol(c, 1000)
    /\ UNCHANGED <<dispatch, object, peer>>

\* close: the flag is tested and set in one step; only the first call closes.
Close(c, t) ==
    /\ Free(c, t) /\ ~closed[c]
    /\ closed' = [closed EXCEPT ![c] = TRUE]
    /\ CloseProtocol(c, 1000)
    /\ UNCHANGED <<dispatch, transport, lock, waiters, task, peer>>

PeerLeaves(c) ==
    /\ peer[c] = "open" /\ transport[c]
    /\ peer' = [peer EXCEPT ![c] = "gone"]
    /\ UNCHANGED <<dispatch, object, closes>>

-----------------------------------------------------------------------------
Next ==
    \/ ShutdownWebsockets
    \/ \E c \in Connections :
          \/ Open(c) \/ Number(c) \/ Register(c) \/ CallHandler(c) \/ EndHandler(c)
          \/ CloseFailed(c) \/ Leave(c) \/ PeerLeaves(c)
          \/ \E t \in Tasks[c] :
                \/ Accept(c, t) \/ Accepted(c, t) \/ Receive(c, t) \/ ReceiveFrame(c, t)
                \/ ReceiveClose(c, t) \/ Send(c, t) \/ TakeLock(c, t) \/ Sent(c, t)
                \/ Cancel(c, t) \/ Close(c, t)

Spec == Init /\ [][Next]_vars

\* Tokio runs run_rsgi_websocket on; asyncio runs a task that can go on; a transport's
\* send ends, with an error if need be.  Nothing is assumed of handlers or peers.
Fairness ==
    \A c \in Connections :
        /\ WF_vars(Number(c) \/ Register(c) \/ CallHandler(c) \/ CloseFailed(c) \/ Leave(c))
        /\ \A t \in Tasks[c] : WF_vars(TakeLock(c, t)) /\ WF_vars(Sent(c, t))
                            /\ WF_vars(ReceiveClose(c, t))

FairSpec == Spec /\ Fairness

-----------------------------------------------------------------------------
(* Properties.                                                             *)

Phases == {"new", "opened", "numbered", "registered", "running", "failed", "leaving", "done",
           "refused"}

\* The types of the variables.
TypeOK ==
    /\ phase \in [Connections -> Phases]
    /\ next_ws_id \in Nat
    /\ ws_id \in [Connections -> Nat]
    /\ active \subseteq [id : Nat, conn : Connections]
    /\ transport \in [Connections -> BOOLEAN]
    /\ closed \in [Connections -> BOOLEAN]
    /\ lock \in [Connections -> AllTasks \cup {Nobody}]
    /\ waiters \in [Connections -> Seq(AllTasks)]
    /\ \A c \in Connections :
          task[c] \in [Tasks[c] -> {"idle", "accept", "receive", "wait", "send"}]
    /\ closes \in [Connections -> Seq({1000, 1001, 1008, 1011})]
    /\ peer \in [Connections -> {"open", "gone"}]

Codes(c) == {closes[c][k] : k \in DOMAIN closes[c]}
CountOf(c, code) == Cardinality({k \in DOMAIN closes[c] : closes[c][k] = code})

Live(c) == phase[c] \in {"registered", "running", "failed", "leaving"}

\* A shutdown overlooks no connection whose handler may be running: it is in the table,
\* or a shutdown has told it to go away.
LiveIsReachable ==
    \A c \in Connections : Live(c) => [id |-> ws_id[c], conn |-> c] \in active \/ 1001 \in Codes(c)

\* The table holds no connection that is over (a leak, and a protocol object kept alive),
\* and so a shutdown never closes one.
TableHoldsLive == \A e \in active : Live(e.conn) /\ e.id = ws_id[e.conn]

\* At most one close of each origin: shutdown tells a connection once, the handler's own
\* close goes out once whatever its tasks do concurrently.
ClosedOnce ==
    \A c \in Connections : \A code \in {1000, 1001, 1011} : CountOf(c, code) <= 1

\* Frames are not interleaved: one task of a connection is in the transport's send at a time.
SendsSerialised ==
    \A c \in Connections : \A t, u \in Tasks[c] : task[c][t] = "send" /\ task[c][u] = "send" => t = u

\* A send that waits for its turn gets it, although other tasks are cancelled while they
\* wait and although the connection may end under the one that sends.
WaitersProceed ==
    \A c \in Connections : \A t \in Tasks[c] : task[c][t] = "wait" ~> task[c][t] # "wait"

\* "If the handler raises before completing, OxyRoute logs the error and calls
\* protocol.close(1011)" (docs/websocket.md), and the connection leaves the table.
FailureCloses ==
    \A c \in Connections :
        phase[c] = "failed" ~> phase[c] = "done" /\ 1011 \in Codes(c) /\ \A e \in active : e.conn # c

=============================================================================
