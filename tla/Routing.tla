------------------------------ MODULE Routing ------------------------------
(***************************************************************************)
(* What registering and matching promise (docs/routing.md): a route is     *)
(* served from one moment on, by the handler it was registered with, and a *)
(* request is answered from one table of routes as a whole, the one served *)
(* when it arrived or the one served now.  There are no indexes, snapshots *)
(* or compiled tables here, and a registration cannot fail half way.       *)
(***************************************************************************)
EXTENDS Matchit

CONSTANTS Methods, Templates, Paths, Requests,
          Tables, HttpMethods, RouterFor(_)

VARIABLES served,    \* router -> template -> the entry registered for it
          request    \* per request: its progress and answer

vars == <<served, request>>

Entry == [method : Methods \cup {"WS"}, path : Templates]

\* kept is {} or {the table of its arrival}; handler is {} or {the entry called}.
View(stage, method, path, kept, result, handler) ==
    [stage |-> stage, method |-> method, path |-> path, kept |-> kept,
     result |-> result, handler |-> handler]

Init ==
    /\ served = [m \in Tables |-> [t \in {} |-> 0]]
    /\ request = [r \in Requests |-> View("new", "none", <<>>, {}, "none", {})]

\* The handlers of the best template, at most one.
Handlers(table, method, path) ==
    UNION {{table[m][t] : t \in Selected(table[m], path)} : m \in RouterFor(method)}

\* Some method is routed.
Routed(table, path) == \E h \in HttpMethods : Handlers(table, h, path) # {}

Result(table, method, path) ==
    CASE Handlers(table, method, path) # {} -> "dispatch"
      [] RouterFor(method) = {}             -> "unsupported"
      [] OTHER -> IF method = "WS" THEN "closed"
                  ELSE IF Routed(table, path) THEN "405" ELSE "404"

\* A request answered from a table.
Answered(q, table) ==
    View("done", q.method, q.path, q.kept, Result(table, q.method, q.path),
         Handlers(table, q.method, q.path))

Failed(q, result) == View("done", q.method, q.path, q.kept, result, {})

Arrived(method, path, kept) == View("arrived", method, path, kept, "none", {})

Register(m, e) ==
    /\ m \in RouterFor(e.method)
    /\ CanInsert(served[m], e.path)
    /\ served' = [served EXCEPT ![m] = Insert(served[m], e.path, e)]
    /\ UNCHANGED request

\* A request arrives, with the table served now or with none.
Arrive(r, method, path, kept) ==
    /\ request[r].stage = "new"
    /\ request' = [request EXCEPT ![r] = Arrived(method, path, kept)]
    /\ UNCHANGED served

\* A request that arrives is answered at once, from the table served now.
ArriveAndAnswer(r, method, path, kept) ==
    /\ request[r].stage = "new"
    /\ request' = [request EXCEPT ![r] = Answered(Arrived(method, path, kept), served)]
    /\ UNCHANGED served

\* One that waited is answered from the table it kept; without one, from the table served now.
Answer(r) ==
    /\ request[r].stage = "arrived"
    /\ \E table \in IF request[r].kept = {} THEN {served} ELSE request[r].kept :
          request' = [request EXCEPT ![r] = Answered(request[r], table)]
    /\ UNCHANGED served

\* Routes of two methods whose templates one router would refuse.
Ambiguous ==
    \E m, n \in Tables \ {"WS"} : \E t \in DOMAIN served[m], u \in DOMAIN served[n] :
        t # u /\ Conflicts(t, u)

\* What can go wrong: a request that kept no table is lost to a route added while it
\* waited, or to templates that contradict each other.
Fail(r) ==
    /\ request[r].stage = "arrived"
    /\ request[r].kept = {}
    /\ \/ request' = [request EXCEPT ![r] = Failed(request[r], "route index")]
       \/ /\ Ambiguous
          /\ request' = [request EXCEPT ![r] = Failed(request[r], "panic")]
    /\ UNCHANGED served

ArriveAndFail(r, method, path) ==
    /\ request[r].stage = "new"
    /\ Ambiguous
    /\ request' = [request EXCEPT ![r] = Failed(Arrived(method, path, {}), "panic")]
    /\ UNCHANGED served

Next ==
    \/ \E m \in Tables, e \in Entry : Register(m, e)
    \/ \E r \in Requests : Answer(r) \/ Fail(r)
    \/ \E r \in Requests, method \in Methods \cup {"WS"}, path \in Paths :
          \/ \E kept \in {{}, {served}} :
                Arrive(r, method, path, kept) \/ ArriveAndAnswer(r, method, path, kept)
          \/ ArriveAndFail(r, method, path)

Spec == Init /\ [][Next]_vars
=============================================================================
