---------------------------- MODULE MCWebSocket -----------------------------
(* Two connections: the tasks of one compete for its WebSocket object,   *)
(* the other competes with it for the connection table.                    *)
EXTENDS WebSocket, TLC

CONSTANTS c1, c2, t1, t2

MCConnections == {c1, c2}

MCTasks == (c1 :> {t1, t2}) @@ (c2 :> {})
=============================================================================
