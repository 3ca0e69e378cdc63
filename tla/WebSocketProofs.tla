-------------------------- MODULE WebSocketProofs --------------------------
(***************************************************************************)
(* The table of connections is exact, every origin closes a connection at  *)
(* most once, and sends are serialised, for any number of connections and  *)
(* tasks.                                                                  *)
(*                                                                         *)
(* TableInv says that ids are never shared, which is why an entry of the   *)
(* table belongs to one connection for good.  CloseInv ties the codes a    *)
(* connection was closed with to what keeps them from being sent again:    *)
(* the flag of the WebSocket object, the entry in the table, the phase of  *)
(* the handler.  LockInv says that a task that sends has the lock.         *)
(***************************************************************************)
EXTENDS WebSocket, FiniteSetTheorems, TLAPS

Code == {1000, 1001, 1008, 1011}

\* The connections that have an id.
Numbered(c) == phase[c] \in {"numbered", "registered", "running", "failed", "leaving", "done"}

TableTypes ==
    /\ phase \in [Connections -> Phases]
    /\ next_ws_id \in Nat
    /\ ws_id \in [Connections -> Nat]
    /\ active \subseteq [id : Nat, conn : Connections]
    /\ closes \in [Connections -> Seq(Code)]

IdsUnique ==
    \A c \in Connections : Numbered(c) =>
        /\ ws_id[c] < next_ws_id
        /\ \A d \in Connections : Numbered(d) /\ ws_id[c] = ws_id[d] => c = d

TableInv == TableTypes /\ IdsUnique /\ TableHoldsLive /\ LiveIsReachable

\* A code occurs at one place of what was sent.
AtMostOnce(c, code) ==
    \A j, k \in DOMAIN closes[c] : closes[c][j] = code /\ closes[c][k] = code => j = k

CloseInv ==
    /\ closed = [c \in Connections |-> closed[c]]
    /\ \A c \in Connections :
        /\ phase[c] \in {"new", "opened", "numbered"} => closes[c] = <<>>
        /\ 1000 \in Codes(c) => closed[c] \/ phase[c] = "refused"
        /\ 1001 \in Codes(c) => \A e \in active : e.conn # c
        /\ 1011 \in Codes(c) => phase[c] \in {"leaving", "done"}
        /\ \A code \in {1000, 1001, 1011} : AtMostOnce(c, code)

LockInv ==
    /\ lock = [c \in Connections |-> lock[c]]
    /\ task = [c \in Connections |-> task[c]]
    /\ \A c \in Connections :
        /\ task[c] = [t \in Tasks[c] |-> task[c][t]]
        /\ \A t \in Tasks[c] : task[c][t] = "send" => lock[c] = t

\* What the tasks do to their WebSocket object leaves the connection alone; only close
\* sends something.
TaskStep(c, t) ==
    \/ Accept(c, t) \/ Accepted(c, t) \/ Receive(c, t) \/ ReceiveFrame(c, t)
    \/ ReceiveClose(c, t) \/ Send(c, t) \/ TakeLock(c, t) \/ Sent(c, t) \/ Cancel(c, t)

\* The steps by what they change.
LEMMA NextCases ==
    ASSUME [Next]_vars
    PROVE  \/ ShutdownWebsockets
           \/ \E c \in Connections :
                 \/ Open(c) \/ Number(c) \/ Register(c) \/ CallHandler(c) \/ EndHandler(c)
                 \/ CloseFailed(c) \/ Leave(c)
                 \/ \E t \in Tasks[c] : TaskStep(c, t) \/ Close(c, t)
           \/ UNCHANGED <<dispatch, object, closes>>
<1>1. CASE UNCHANGED vars
  BY <1>1 DEF vars, dispatch, object
<1>2. ASSUME NEW c \in Connections, PeerLeaves(c)
      PROVE  UNCHANGED <<dispatch, object, closes>>
  BY <1>2 DEF PeerLeaves
<1> QED
  BY <1>1, <1>2, Zenon DEF Next, TaskStep

LEMMA TaskStepKeeps ==
    ASSUME NEW c \in Connections, NEW t \in Tasks[c], TaskStep(c, t)
    PROVE  UNCHANGED <<dispatch, closes>>
  BY DEF TaskStep, Accept, Accepted, Receive, ReceiveFrame, ReceiveClose, Send, TakeLock, Sent,
         Cancel, dispatch

-----------------------------------------------------------------------------
(* The codes of a connection.                                              *)

LEMMA AppendCode ==
    ASSUME NEW s \in Seq(Code), NEW x \in Code, NEW r, r = Append(s, x)
    PROVE  /\ r \in Seq(Code) /\ Len(r) = Len(s) + 1 /\ DOMAIN r = 1 .. (Len(s) + 1)
           /\ \A k \in DOMAIN s : r[k] = s[k]
           /\ r[Len(s) + 1] = x
           /\ {r[k] : k \in DOMAIN r} = {s[k] : k \in DOMAIN s} \cup {x}
<1>1. /\ r \in Seq(Code) /\ Len(r) = Len(s) + 1 /\ DOMAIN r = 1 .. (Len(s) + 1)
      /\ \A k \in DOMAIN s : r[k] = s[k]
      /\ r[Len(s) + 1] = x
  OBVIOUS
<1>2. DOMAIN r = DOMAIN s \cup {Len(s) + 1} /\ Len(s) \in Nat
  BY <1>1
<1> QED
  BY <1>1, <1>2

\* What a close adds to the codes of its connection.
LEMMA CloseAdds ==
    ASSUME TableTypes, NEW c \in Connections, NEW code \in Code, CloseProtocol(c, code)
    PROVE  /\ closes' \in [Connections -> Seq(Code)]
           /\ closes'[c] = Append(closes[c], code)
           /\ Codes(c)' = Codes(c) \cup {code}
           /\ \A d \in Connections \ {c} : closes'[d] = closes[d] /\ Codes(d)' = Codes(d)
<1>1. /\ closes' = [closes EXCEPT ![c] = Append(closes[c], code)]
      /\ closes \in [Connections -> Seq(Code)]
  BY DEF CloseProtocol, TableTypes
<1>2. closes[c] \in Seq(Code)
  BY <1>1
<1>3. PICK r : r = Append(closes[c], code)
  OBVIOUS
<1>4. r \in Seq(Code) /\ {r[k] : k \in DOMAIN r} = {closes[c][k] : k \in DOMAIN closes[c]} \cup {code}
  BY <1>2, <1>3, AppendCode
<1>5. closes'[c] = r /\ \A d \in Connections \ {c} : closes'[d] = closes[d]
  BY <1>1, <1>3
<1>6. closes' \in [Connections -> Seq(Code)]
  BY <1>1, <1>3, <1>4
<1> QED
  BY <1>3, <1>4, <1>5, <1>6 DEF Codes

-----------------------------------------------------------------------------
(* The table.                                                              *)

\* A step that keeps the table, the ids and who is live, and forgets no code.
LEMMA TableKept ==
    ASSUME TableInv, UNCHANGED <<next_ws_id, ws_id, active>>,
           phase' \in [Connections -> Phases],
           \A c \in Connections : (Live(c)' <=> Live(c)) /\ (Numbered(c)' => Numbered(c)),
           closes' \in [Connections -> Seq(Code)],
           \A c \in Connections : Codes(c) \subseteq Codes(c)'
    PROVE  TableInv'
<1>1. TableTypes'
  BY DEF TableInv, TableTypes
<1>2. IdsUnique'
  BY DEF TableInv, IdsUnique
<1>3. TableHoldsLive'
  <2>1. \A e \in active : e.conn \in Connections
    BY DEF TableInv, TableTypes
  <2> QED
    BY <2>1 DEF TableInv, TableHoldsLive
<1>4. LiveIsReachable'
  BY DEF TableInv, LiveIsReachable
<1> QED
  BY <1>1, <1>2, <1>3, <1>4 DEF TableInv

LEMMA TableInit == Init => TableInv
<1> SUFFICES ASSUME Init PROVE TableInv
  OBVIOUS
<1>1. TableTypes
  BY DEF Init, TableTypes, Phases
<1>2. \A c \in Connections : ~Numbered(c) /\ ~Live(c)
  BY DEF Init, Numbered, Live
<1> QED
  BY <1>1, <1>2 DEF Init, TableInv, IdsUnique, TableHoldsLive, LiveIsReachable

LEMMA TableNext == TableInv /\ [Next]_vars => TableInv'
<1> SUFFICES ASSUME TableInv, [Next]_vars PROVE TableInv'
  OBVIOUS
<1> USE DEF dispatch
<1>0. TableTypes /\ IdsUnique /\ TableHoldsLive /\ LiveIsReachable
  BY DEF TableInv
<1>1. CASE UNCHANGED <<dispatch, closes>>
  <2>1. phase' = phase /\ closes' = closes /\ UNCHANGED <<next_ws_id, ws_id, active>>
    BY <1>1
  <2>2. \A c \in Connections : /\ (Live(c)' <=> Live(c)) /\ (Numbered(c)' => Numbered(c))
                               /\ Codes(c) \subseteq Codes(c)'
    BY <2>1 DEF Live, Numbered, Codes
  <2>3. phase' \in [Connections -> Phases] /\ closes' \in [Connections -> Seq(Code)]
    BY <1>0, <2>1 DEF TableTypes
  <2> QED
    BY <2>1, <2>2, <2>3, TableKept
<1>2. CASE ShutdownWebsockets
  <2>1. /\ active' = {} /\ UNCHANGED <<phase, next_ws_id, ws_id>>
        /\ closes' = [c \in Connections |->
                       IF \E e \in active : e.conn = c THEN Append(closes[c], 1001) ELSE closes[c]]
    BY <1>2 DEF ShutdownWebsockets
  <2>2. ASSUME NEW c \in Connections
        PROVE  /\ closes'[c] \in Seq(Code) /\ Codes(c) \subseteq Codes(c)'
               /\ (\E e \in active : e.conn = c) => 1001 \in Codes(c)'
    <3>1. closes[c] \in Seq(Code)
      BY <1>0 DEF TableTypes
    <3>2. CASE \E e \in active : e.conn = c
      <4>1. closes'[c] = Append(closes[c], 1001) /\ 1001 \in Code
        BY <2>1, <3>2 DEF Code
      <4> QED
        BY <3>1, <4>1, AppendCode DEF Codes
    <3>3. CASE ~\E e \in active : e.conn = c
      BY <2>1, <3>1, <3>3 DEF Codes
    <3> QED
      BY <3>2, <3>3
  <2>3. closes' \in [Connections -> Seq(Code)]
    BY <2>1, <2>2
  <2>4. TableTypes' /\ IdsUnique' /\ TableHoldsLive'
    BY <1>0, <2>1, <2>3 DEF TableTypes, IdsUnique, TableHoldsLive, Numbered
  <2>5. LiveIsReachable'
    <3> SUFFICES ASSUME NEW c \in Connections, Live(c)' PROVE 1001 \in Codes(c)'
      BY DEF LiveIsReachable
    <3>1. [id |-> ws_id[c], conn |-> c] \in active \/ 1001 \in Codes(c)
      BY <1>0, <2>1 DEF LiveIsReachable, Live
    <3> QED
      BY <2>2, <3>1
  <2> QED
    BY <2>4, <2>5 DEF TableInv
<1>3. ASSUME NEW c \in Connections, NEW to \in Phases, Advance(c, to),
             UNCHANGED <<next_ws_id, ws_id, active>>,
             \/ UNCHANGED closes
             \/ \E code \in Code : CloseProtocol(c, code),
             \/ phase[c] = "new" /\ to \in {"refused", "opened"}
             \/ Live(c) /\ to \in {"running", "failed", "leaving"}
      PROVE  TableInv'
  <2>1. phase' = [phase EXCEPT ![c] = to] /\ phase \in [Connections -> Phases]
    BY <1>0, <1>3 DEF Advance, TableTypes
  <2>2. phase' \in [Connections -> Phases]
    BY <2>1
  <2>3. \A d \in Connections : (Live(d)' <=> Live(d)) /\ (Numbered(d)' => Numbered(d))
    BY <1>3, <2>1 DEF Live, Numbered
  <2>4. closes' \in [Connections -> Seq(Code)] /\ \A d \in Connections : Codes(d) \subseteq Codes(d)'
    <3>1. CASE UNCHANGED closes
      BY <1>0, <3>1 DEF TableTypes, Codes
    <3>2. ASSUME NEW code \in Code, CloseProtocol(c, code)
          PROVE  closes' \in [Connections -> Seq(Code)]
                   /\ \A d \in Connections : Codes(d) \subseteq Codes(d)'
      BY <1>0, <3>2, CloseAdds
    <3> QED
      BY <1>3, <3>1, <3>2
  <2> QED
    BY <1>3, <2>2, <2>3, <2>4, TableKept
<1>4. ASSUME NEW c \in Connections, Open(c)
      PROVE  TableInv'
  <2>1. {1000, 1008} \subseteq Code /\ {"refused", "opened"} \subseteq Phases
    BY DEF Code, Phases
  <2>2. phase[c] = "new" /\ UNCHANGED <<next_ws_id, ws_id, active>>
    BY <1>4 DEF Open
  <2>3. CASE Advance(c, "refused") /\ \E code \in {1000, 1008} : CloseProtocol(c, code)
    BY <1>3, <2>1, <2>2, <2>3
  <2>4. CASE Advance(c, "refused") /\ UNCHANGED closes
    BY <1>3, <2>1, <2>2, <2>4
  <2>5. CASE Advance(c, "opened") /\ UNCHANGED closes
    BY <1>3, <2>1, <2>2, <2>5
  <2> QED
    BY <1>4, <2>3, <2>4, <2>5 DEF Open
<1>5. ASSUME NEW c \in Connections, CallHandler(c) \/ EndHandler(c)
      PROVE  TableInv'
  <2>1. /\ Live(c) /\ UNCHANGED <<next_ws_id, ws_id, active, closes>>
        /\ \E to \in {"running", "failed", "leaving"} : Advance(c, to)
    BY <1>5 DEF CallHandler, EndHandler, Live
  <2> QED
    BY <1>3, <2>1 DEF Phases
<1>6. ASSUME NEW c \in Connections, CloseFailed(c)
      PROVE  TableInv'
  <2>1. /\ Live(c) /\ UNCHANGED <<next_ws_id, ws_id, active>>
        /\ Advance(c, "leaving") /\ CloseProtocol(c, 1011)
    BY <1>6 DEF CloseFailed, Live
  <2>2. 1011 \in Code /\ "leaving" \in Phases
    BY DEF Code, Phases
  <2> QED
    BY <1>3, <2>1, <2>2
<1>7. ASSUME NEW c \in Connections, NEW t \in Tasks[c], Close(c, t)
      PROVE  TableInv'
  <2>1. UNCHANGED <<phase, next_ws_id, ws_id, active>> /\ CloseProtocol(c, 1000) /\ 1000 \in Code
    BY <1>7 DEF Close, Code
  <2>2. closes' \in [Connections -> Seq(Code)] /\ \A d \in Connections : Codes(d) \subseteq Codes(d)'
    BY <1>0, <2>1, CloseAdds
  <2>3. \A d \in Connections : (Live(d)' <=> Live(d)) /\ (Numbered(d)' => Numbered(d))
    BY <2>1 DEF Live, Numbered
  <2>4. phase' \in [Connections -> Phases]
    BY <1>0, <2>1 DEF TableTypes
  <2> QED
    BY <2>1, <2>2, <2>3, <2>4, TableKept
<1>8. ASSUME NEW c \in Connections, Number(c)
      PROVE  TableInv'
  <2>1. /\ phase[c] = "opened" /\ phase' = [phase EXCEPT ![c] = "numbered"]
        /\ ws_id' = [ws_id EXCEPT ![c] = next_ws_id] /\ next_ws_id' = next_ws_id + 1
        /\ UNCHANGED <<active, closes>>
    BY <1>8 DEF Number, Advance
  <2>2. TableTypes'
    BY <1>0, <2>1 DEF TableTypes, Phases
  <2>3. \A d \in Connections : d # c => phase'[d] = phase[d] /\ ws_id'[d] = ws_id[d]
    BY <1>0, <2>1 DEF TableTypes
  <2>4. phase'[c] = "numbered" /\ ws_id'[c] = next_ws_id /\ next_ws_id \in Nat
    BY <1>0, <2>1 DEF TableTypes
  <2>5. \A d \in Connections : ws_id[d] \in Nat
    BY <1>0 DEF TableTypes
  <2>6. IdsUnique'
    BY <1>0, <2>1, <2>3, <2>4, <2>5 DEF IdsUnique, Numbered
  <2>7. \A d \in Connections : (Live(d)' <=> Live(d)) /\ Codes(d)' = Codes(d)
    BY <2>1, <2>3, <2>4 DEF Live, Codes
  <2>8. ~Live(c)
    BY <2>1 DEF Live
  <2>9. TableHoldsLive'
    <3>1. \A e \in active : e.conn \in Connections /\ e.conn # c
      BY <1>0, <2>8 DEF TableTypes, TableHoldsLive
    <3> QED
      BY <1>0, <2>1, <2>3, <2>7, <3>1 DEF TableHoldsLive
  <2>10. LiveIsReachable'
    BY <1>0, <2>1, <2>3, <2>7, <2>8 DEF LiveIsReachable
  <2> QED
    BY <2>2, <2>6, <2>9, <2>10 DEF TableInv
<1>9. ASSUME NEW c \in Connections, Register(c)
      PROVE  TableInv'
  <2> DEFINE entry == [id |-> ws_id[c], conn |-> c]
  <2>1. /\ phase[c] = "numbered" /\ phase' = [phase EXCEPT ![c] = "registered"]
        /\ active' = {e \in active : e.id # ws_id[c]} \cup {entry}
        /\ UNCHANGED <<next_ws_id, ws_id, closes>>
    BY <1>9 DEF Register, Advance
  <2>2. TableTypes'
    BY <1>0, <2>1 DEF TableTypes, Phases
  <2>3. /\ phase'[c] = "registered" /\ ws_id' = ws_id
        /\ \A d \in Connections : d # c => phase'[d] = phase[d]
    BY <1>0, <2>1 DEF TableTypes
  <2>4. IdsUnique'
    BY <1>0, <2>1, <2>3 DEF IdsUnique, Numbered
  <2>5. entry.id = ws_id[c] /\ entry.conn = c
    OBVIOUS
  <2>6. TableHoldsLive'
    <3> SUFFICES ASSUME NEW e \in active' PROVE Live(e.conn)' /\ e.id = ws_id[e.conn]
      BY <2>3 DEF TableHoldsLive
    <3>1. CASE e = entry
      BY <2>3, <2>5, <3>1 DEF Live
    <3>2. CASE e \in active
      <4>1. e.conn \in Connections /\ Live(e.conn) /\ e.id = ws_id[e.conn]
        BY <1>0, <3>2 DEF TableTypes, TableHoldsLive
      <4>2. e.conn # c
        BY <2>1, <4>1 DEF Live
      <4> QED
        BY <2>3, <4>1, <4>2 DEF Live
    <3> QED
      BY <2>1, <3>1, <3>2
  <2>7. LiveIsReachable'
    <3> SUFFICES ASSUME NEW d \in Connections, Live(d)'
                 PROVE  [id |-> ws_id[d], conn |-> d] \in active' \/ 1001 \in Codes(d)
      BY <2>1, <2>3 DEF LiveIsReachable, Codes
    <3>1. CASE d = c
      BY <2>1, <3>1
    <3>2. CASE d # c
      <4>1. Live(d) /\ Numbered(d) /\ Numbered(c)
        BY <2>1, <2>3, <3>2 DEF Live, Numbered
      <4>2. ws_id[d] # ws_id[c]
        BY <1>0, <3>2, <4>1 DEF IdsUnique
      <4> QED
        BY <1>0, <2>1, <4>1, <4>2 DEF LiveIsReachable
    <3> QED
      BY <3>1, <3>2
  <2> QED
    BY <2>2, <2>4, <2>6, <2>7 DEF TableInv
<1>10. ASSUME NEW c \in Connections, Leave(c)
       PROVE  TableInv'
  <2>1. /\ phase[c] = "leaving" /\ phase' = [phase EXCEPT ![c] = "done"]
        /\ active' = {e \in active : e.id # ws_id[c]}
        /\ UNCHANGED <<next_ws_id, ws_id, closes>>
    BY <1>10 DEF Leave, Advance
  <2>2. TableTypes'
    BY <1>0, <2>1 DEF TableTypes, Phases
  <2>3. /\ phase'[c] = "done" /\ ws_id' = ws_id
        /\ \A d \in Connections : d # c => phase'[d] = phase[d]
    BY <1>0, <2>1 DEF TableTypes
  <2>4. IdsUnique'
    BY <1>0, <2>1, <2>3 DEF IdsUnique, Numbered
  <2>5. TableHoldsLive'
    <3> SUFFICES ASSUME NEW e \in active' PROVE Live(e.conn)' /\ e.id = ws_id[e.conn]
      BY <2>3 DEF TableHoldsLive
    <3>1. e.conn \in Connections /\ Live(e.conn) /\ e.id = ws_id[e.conn] /\ e.id # ws_id[c]
      BY <1>0, <2>1 DEF TableTypes, TableHoldsLive
    <3> QED
      BY <2>3, <3>1 DEF Live
  <2>6. LiveIsReachable'
    <3> SUFFICES ASSUME NEW d \in Connections, Live(d)'
                 PROVE  [id |-> ws_id[d], conn |-> d] \in active' \/ 1001 \in Codes(d)
      BY <2>1, <2>3 DEF LiveIsReachable, Codes
    <3>1. d # c
      BY <2>3 DEF Live
    <3>2. Live(d) /\ Numbered(d) /\ Numbered(c)
      BY <2>1, <2>3, <3>1 DEF Live, Numbered
    <3>3. ws_id[d] # ws_id[c]
      BY <1>0, <3>1, <3>2 DEF IdsUnique
    <3> QED
      BY <1>0, <2>1, <3>2, <3>3 DEF LiveIsReachable
  <2> QED
    BY <2>2, <2>4, <2>5, <2>6 DEF TableInv
<1>11. ASSUME NEW c \in Connections, NEW t \in Tasks[c], TaskStep(c, t)
       PROVE  TableInv'
  BY <1>1, <1>11, TaskStepKeeps
<1> QED
  BY <1>1, <1>2, <1>4, <1>5, <1>6, <1>7, <1>8, <1>9, <1>10, <1>11, NextCases

\* A shutdown overlooks no connection whose handler may be running.
THEOREM LiveAlwaysReachable == Spec => []LiveIsReachable
<1>1. TableInv => LiveIsReachable
  BY DEF TableInv
<1> QED
  BY <1>1, TableInit, TableNext, PTL DEF Spec

\* The table holds no connection that is over.
THEOREM TableAlwaysHoldsLive == Spec => []TableHoldsLive
<1>1. TableInv => TableHoldsLive
  BY DEF TableInv
<1> QED
  BY <1>1, TableInit, TableNext, PTL DEF Spec

-----------------------------------------------------------------------------
(* The write lock.                                                         *)

\* What a step of one task changes.
LEMMA LockKept ==
    ASSUME LockInv, NEW c \in Connections, NEW t \in Tasks[c],
           NEW what, Await(c, t, what), NEW holder,
           lock' = [lock EXCEPT ![c] = holder],
           what = "send" => holder = t,
           \A u \in Tasks[c] \ {t} : task[c][u] = "send" => holder = u
    PROVE  LockInv'
<1>1. task' = [task EXCEPT ![c][t] = what]
  BY DEF Await
<1>2. /\ task = [d \in Connections |-> task[d]] /\ lock = [d \in Connections |-> lock[d]]
      /\ \A d \in Connections : task[d] = [u \in Tasks[d] |-> task[d][u]]
  BY DEF LockInv
<1>3. /\ task' = [d \in Connections |-> task'[d]] /\ lock' = [d \in Connections |-> lock'[d]]
      /\ lock'[c] = holder /\ task'[c] = [task[c] EXCEPT ![t] = what]
      /\ \A d \in Connections \ {c} : task'[d] = task[d] /\ lock'[d] = lock[d]
  BY <1>1, <1>2
<1>4. /\ task'[c] = [u \in Tasks[c] |-> task'[c][u]] /\ task'[c][t] = what
      /\ \A u \in Tasks[c] \ {t} : task'[c][u] = task[c][u]
  BY <1>2, <1>3
<1>5. ASSUME NEW d \in Connections
      PROVE  /\ task'[d] = [u \in Tasks[d] |-> task'[d][u]]
             /\ \A u \in Tasks[d] : task'[d][u] = "send" => lock'[d] = u
  <2>1. CASE d = c
    BY <1>3, <1>4, <2>1
  <2>2. CASE d # c
    <3>1. task'[d] = task[d] /\ lock'[d] = lock[d]
      BY <1>3, <2>2
    <3>2. \A u \in Tasks[d] : task[d][u] = "send" => lock[d] = u
      BY DEF LockInv
    <3> QED
      BY <1>2, <3>1, <3>2
  <2> QED
    BY <2>1, <2>2
<1> QED
  BY <1>3, <1>5 DEF LockInv

LEMMA LockInit == Init => LockInv
  BY DEF Init, LockInv

LEMMA LockNext == LockInv /\ [Next]_vars => LockInv'
<1> SUFFICES ASSUME LockInv, [Next]_vars PROVE LockInv'
  OBVIOUS
<1>0. lock = [c \in Connections |-> lock[c]]
  BY DEF LockInv
<1>1. CASE UNCHANGED <<lock, task>>
  BY <1>1 DEF LockInv
<1>2. ASSUME NEW c \in Connections, NEW t \in Tasks[c], TaskStep(c, t)
      PROVE  LockInv'
  <2>1. \A u \in Tasks[c] : task[c][u] = "send" => lock[c] = u
    BY DEF LockInv
  <2>2. lock = [lock EXCEPT ![c] = lock[c]]
    BY <1>0
  <2>3. CASE /\ \E what \in {"idle", "accept", "receive", "wait"} : Await(c, t, what)
             /\ UNCHANGED lock
    BY <2>1, <2>2, <2>3, LockKept
  <2>4. CASE Send(c, t)
    <3>1. CASE lock[c] = Nobody /\ waiters[c] = <<>>
      <4>1. Await(c, t, "send") /\ lock' = [lock EXCEPT ![c] = t]
        BY <2>4, <3>1 DEF Send
      <4>2. \A u \in Tasks[c] : task[c][u] # "send"
        <5>1. \A u \in Tasks[c] : u # Nobody
          BY TasksAssumption DEF AllTasks
        <5> QED
          BY <2>1, <3>1, <5>1
      <4> QED
        BY <4>1, <4>2, LockKept
    <3>2. CASE ~(lock[c] = Nobody /\ waiters[c] = <<>>)
      BY <2>3, <2>4, <3>2 DEF Send
    <3> QED
      BY <3>1, <3>2
  <2>5. CASE TakeLock(c, t)
    <3>1. Await(c, t, "send") /\ lock' = [lock EXCEPT ![c] = t] /\ lock[c] = Nobody
      BY <2>5 DEF TakeLock
    <3>2. \A u \in Tasks[c] : task[c][u] # "send"
      <4>1. \A u \in Tasks[c] : u # Nobody
        BY TasksAssumption DEF AllTasks
      <4> QED
        BY <2>1, <3>1, <4>1
    <3>3. \A u \in Tasks[c] \ {t} : task[c][u] = "send" => t = u
      BY <3>2
    <3> QED
      BY <3>1, <3>3, LockKept
  <2>6. CASE Sent(c, t)
    <3>1. Await(c, t, "idle") /\ lock' = [lock EXCEPT ![c] = Nobody] /\ task[c][t] = "send"
      BY <2>6 DEF Sent
    <3>2. \A u \in Tasks[c] \ {t} : task[c][u] = "send" => Nobody = u
      BY <2>1, <3>1
    <3> QED
      BY <3>1, <3>2, LockKept
  <2>7. CASE \/ Accept(c, t) \/ Accepted(c, t) \/ Receive(c, t) \/ ReceiveFrame(c, t)
             \/ ReceiveClose(c, t) \/ Cancel(c, t)
    BY <2>3, <2>7 DEF Accept, Accepted, Receive, ReceiveFrame, ReceiveClose, Cancel
  <2> QED
    BY <1>2, <2>4, <2>5, <2>6, <2>7 DEF TaskStep
<1>3. ASSUME NEW c \in Connections,
             \/ Open(c) \/ Number(c) \/ Register(c) \/ CallHandler(c) \/ EndHandler(c)
             \/ CloseFailed(c) \/ Leave(c) \/ \E t \in Tasks[c] : Close(c, t)
      PROVE  UNCHANGED <<lock, task>>
  BY <1>3 DEF Open, Number, Register, CallHandler, EndHandler, CloseFailed, Leave, Close, object
<1>4. ShutdownWebsockets => UNCHANGED <<lock, task>>
  BY DEF ShutdownWebsockets, object
<1>5. UNCHANGED <<dispatch, object, closes>> => UNCHANGED <<lock, task>>
  BY DEF object
<1> QED
  BY <1>1, <1>2, <1>3, <1>4, <1>5, NextCases

\* Frames of one connection are not interleaved, however many tasks send.
THEOREM SendsAlwaysSerialised == Spec => []SendsSerialised
<1>1. LockInv => SendsSerialised
  BY DEF LockInv, SendsSerialised
<1> QED
  BY <1>1, LockInit, LockNext, PTL DEF Spec

-----------------------------------------------------------------------------
(* The codes sent.                                                         *)

\* What CloseInv says of one connection.
ClosesOf(c) ==
    /\ phase[c] \in {"new", "opened", "numbered"} => closes[c] = <<>>
    /\ 1000 \in Codes(c) => closed[c] \/ phase[c] = "refused"
    /\ 1001 \in Codes(c) => \A e \in active : e.conn # c
    /\ 1011 \in Codes(c) => phase[c] \in {"leaving", "done"}
    /\ \A code \in {1000, 1001, 1011} : AtMostOnce(c, code)

LEMMA EmptyCodes == \A c \in Connections : closes[c] = <<>> => Codes(c) = {}
  BY DEF Codes

\* A code that was not sent yet is sent once after one more close.
LEMMA AtMostOnceAppend ==
    ASSUME NEW c \in Connections, closes[c] \in Seq(Code), NEW code \in Code, code \notin Codes(c),
           closes'[c] = Append(closes[c], code),
           NEW k \in {1000, 1001, 1011}, AtMostOnce(c, k)
    PROVE  AtMostOnce(c, k)'
<1>1. PICK r : r = closes'[c]
  OBVIOUS
<1>2. /\ DOMAIN r = 1 .. (Len(closes[c]) + 1) /\ r[Len(closes[c]) + 1] = code
      /\ \A i \in DOMAIN closes[c] : r[i] = closes[c][i]
  BY <1>1, AppendCode
<1>3. DOMAIN closes[c] = 1 .. Len(closes[c]) /\ Len(closes[c]) \in Nat
  OBVIOUS
<1>4. \A i \in DOMAIN closes[c] : closes[c][i] # code
  BY DEF Codes
<1>5. \A i \in DOMAIN r : i \in DOMAIN closes[c] \/ i = Len(closes[c]) + 1
  BY <1>2, <1>3
<1>6. ASSUME NEW i \in DOMAIN r, NEW j \in DOMAIN r, r[i] = k, r[j] = k
      PROVE  i = j
  <2>1. CASE i \in DOMAIN closes[c] /\ j \in DOMAIN closes[c]
    BY <1>2, <1>6, <2>1 DEF AtMostOnce
  <2>2. CASE i = Len(closes[c]) + 1 /\ j \in DOMAIN closes[c]
    BY <1>2, <1>4, <1>6, <2>2
  <2>3. CASE j = Len(closes[c]) + 1 /\ i \in DOMAIN closes[c]
    BY <1>2, <1>4, <1>6, <2>3
  <2> QED
    BY <1>5, <2>1, <2>2, <2>3
<1> QED
  BY <1>1, <1>6 DEF AtMostOnce

\* A step that touches neither the phase of d, its codes nor its entries.
LEMMA ClosesKept ==
    ASSUME NEW d \in Connections, ClosesOf(d),
           phase'[d] = phase[d], closes'[d] = closes[d], closed[d] => closed'[d],
           \A e \in active' : e \in active \/ e.conn # d
    PROVE  ClosesOf(d)'
<1>1. Codes(d)' = Codes(d) /\ \A code \in {1000, 1001, 1011} : AtMostOnce(d, code)'
  BY DEF Codes, AtMostOnce, ClosesOf
<1> QED
  BY <1>1 DEF ClosesOf

\* A step that sends a code the connection was not sent before.
LEMMA ClosesAdded ==
    ASSUME TableTypes, NEW c \in Connections, ClosesOf(c), NEW code \in Code,
           closes'[c] = Append(closes[c], code), code \notin Codes(c),
           phase'[c] \notin {"new", "opened", "numbered"},
           code = 1000 => closed'[c] \/ phase'[c] = "refused",
           code = 1001 => \A e \in active' : e.conn # c,
           code = 1011 => phase'[c] \in {"leaving", "done"},
           1000 \in Codes(c) => closed'[c] \/ phase'[c] = "refused",
           1001 \in Codes(c) => \A e \in active' : e.conn # c,
           1011 \in Codes(c) => phase'[c] \in {"leaving", "done"}
    PROVE  ClosesOf(c)'
<1>1. closes[c] \in Seq(Code)
  BY DEF TableTypes
<1>2. PICK r : r = Append(closes[c], code)
  OBVIOUS
<1>3. {r[k] : k \in DOMAIN r} = Codes(c) \cup {code}
  BY <1>1, <1>2, AppendCode DEF Codes
<1>4. Codes(c)' = Codes(c) \cup {code}
  BY <1>2, <1>3 DEF Codes
<1>5. \A k \in {1000, 1001, 1011} : AtMostOnce(c, k)'
  BY <1>1, AtMostOnceAppend DEF ClosesOf
<1> QED
  BY <1>4, <1>5 DEF ClosesOf

LEMMA CloseInit == Init => CloseInv
<1> SUFFICES ASSUME Init PROVE CloseInv
  OBVIOUS
<1>1. \A c \in Connections : closes[c] = <<>>
  BY DEF Init
<1>2. \A c \in Connections : Codes(c) = {} /\ \A code : AtMostOnce(c, code)
  BY <1>1 DEF Codes, AtMostOnce
<1>3. closed = [c \in Connections |-> closed[c]]
  BY DEF Init
<1> QED
  BY <1>1, <1>2, <1>3 DEF CloseInv

LEMMA CloseNext == TableInv /\ CloseInv /\ [Next]_vars => CloseInv'
<1> SUFFICES ASSUME TableInv, CloseInv, [Next]_vars PROVE CloseInv'
  OBVIOUS
<1> USE DEF dispatch, object
<1>0. /\ TableTypes /\ TableHoldsLive /\ closed = [d \in Connections |-> closed[d]]
      /\ \A d \in Connections : ClosesOf(d)
  BY DEF TableInv, CloseInv, ClosesOf
<1>a. ASSUME \A d \in Connections : ClosesOf(d)', closed' = [d \in Connections |-> closed'[d]]
      PROVE  CloseInv'
  BY <1>a DEF CloseInv, ClosesOf
<1>b. ASSUME NEW c \in Connections, NEW to, Advance(c, to)
      PROVE  phase'[c] = to /\ \A d \in Connections \ {c} : phase'[d] = phase[d]
  BY <1>0, <1>b DEF Advance, TableTypes
<1>c. ASSUME NEW c \in Connections, NEW code \in Code, CloseProtocol(c, code)
      PROVE  /\ closes'[c] = Append(closes[c], code)
             /\ \A d \in Connections \ {c} : closes'[d] = closes[d]
  BY <1>0, <1>c, CloseAdds
<1>d. {1000, 1001, 1008, 1011} \subseteq Code
  BY DEF Code
<1>1. CASE UNCHANGED <<dispatch, object, closes>>
  <2>1. \A d \in Connections : ClosesOf(d)'
    BY <1>0, <1>1, ClosesKept
  <2> QED
    BY <1>0, <1>1, <1>a, <2>1
<1>2. ASSUME NEW c \in Connections, NEW t \in Tasks[c], TaskStep(c, t)
      PROVE  CloseInv'
  <2>1. UNCHANGED <<phase, active, closes>>
    BY <1>2, TaskStepKeeps
  <2>2. closed' = closed \/ closed' = [closed EXCEPT ![c] = TRUE]
    BY <1>2 DEF TaskStep, Accept, Accepted, Receive, ReceiveFrame, ReceiveClose, Send, TakeLock,
                Sent, Cancel
  <2>3. /\ closed' = [d \in Connections |-> closed'[d]]
        /\ \A d \in Connections : closed[d] => closed'[d]
    BY <1>0, <2>2
  <2>4. \A d \in Connections : ClosesOf(d)'
    BY <1>0, <2>1, <2>3, ClosesKept
  <2> QED
    BY <1>a, <2>3, <2>4
<1>3. CASE ShutdownWebsockets
  <2>1. /\ active' = {} /\ phase' = phase /\ closed' = closed
        /\ closes' = [c \in Connections |->
                       IF \E e \in active : e.conn = c THEN Append(closes[c], 1001) ELSE closes[c]]
    BY <1>3 DEF ShutdownWebsockets
  <2>2. ASSUME NEW d \in Connections
        PROVE  ClosesOf(d)'
    <3>1. CASE \E e \in active : e.conn = d
      <4>1. closes'[d] = Append(closes[d], 1001) /\ Live(d)
        BY <1>0, <2>1, <3>1 DEF TableHoldsLive
      <4>2. 1001 \notin Codes(d)
        BY <1>0, <3>1 DEF ClosesOf
      <4>3. phase'[d] \notin {"new", "opened", "numbered"}
        BY <2>1, <4>1 DEF Live
      <4>4. /\ 1000 \in Codes(d) => closed'[d] \/ phase'[d] = "refused"
            /\ 1011 \in Codes(d) => phase'[d] \in {"leaving", "done"}
            /\ \A e \in active' : e.conn # d
        BY <1>0, <2>1 DEF ClosesOf
      <4> QED
        BY <1>0, <1>d, <4>1, <4>2, <4>3, <4>4, ClosesAdded
    <3>2. CASE ~\E e \in active : e.conn = d
      <4>1. closes'[d] = closes[d]
        BY <2>1, <3>2
      <4> QED
        BY <1>0, <2>1, <4>1, ClosesKept
    <3> QED
      BY <3>1, <3>2
  <2> QED
    BY <1>0, <1>a, <2>1, <2>2
<1>4. ASSUME NEW c \in Connections, Open(c)
      PROVE  CloseInv'
  <2>1. phase[c] = "new" /\ UNCHANGED <<active, closed>>
    BY <1>4 DEF Open
  <2>2. closes[c] = <<>> /\ Codes(c) = {}
    BY <1>0, <2>1, EmptyCodes DEF ClosesOf
  <2>3. ASSUME NEW code \in {1000, 1008}, CloseProtocol(c, code), Advance(c, "refused")
        PROVE  \A d \in Connections : ClosesOf(d)'
    <3>1. /\ phase'[c] = "refused" /\ closes'[c] = Append(closes[c], code) /\ code \in Code
          /\ \A d \in Connections \ {c} : phase'[d] = phase[d] /\ closes'[d] = closes[d]
      BY <1>b, <1>c, <1>d, <2>3
    <3>2. /\ code \notin {1001, 1011} /\ code \notin Codes(c) /\ 1000 \notin Codes(c)
          /\ 1001 \notin Codes(c) /\ 1011 \notin Codes(c)
          /\ phase'[c] \notin {"new", "opened", "numbered"}
      BY <2>2, <3>1
    <3>3. ClosesOf(c)'
      BY <1>0, <3>1, <3>2, ClosesAdded
    <3>4. \A d \in Connections \ {c} : ClosesOf(d)'
      BY <1>0, <2>1, <3>1, ClosesKept
    <3> QED
      BY <3>3, <3>4
  <2>4. ASSUME NEW to \in {"refused", "opened"}, Advance(c, to), UNCHANGED closes
        PROVE  \A d \in Connections : ClosesOf(d)'
    <3>1. /\ phase'[c] = to /\ closes' = closes
          /\ \A d \in Connections \ {c} : phase'[d] = phase[d]
      BY <1>b, <2>4
    <3>2. Codes(c)' = {} /\ \A code : AtMostOnce(c, code)'
      BY <2>2, <3>1 DEF Codes, AtMostOnce
    <3>3. ClosesOf(c)'
      BY <2>2, <3>1, <3>2 DEF ClosesOf
    <3>4. \A d \in Connections \ {c} : ClosesOf(d)'
      BY <1>0, <2>1, <3>1, ClosesKept
    <3> QED
      BY <3>3, <3>4
  <2>5. \A d \in Connections : ClosesOf(d)'
    BY <1>4, <2>3, <2>4 DEF Open
  <2> QED
    BY <1>0, <1>a, <2>1, <2>5
<1>5. ASSUME NEW c \in Connections, Number(c) \/ Register(c)
      PROVE  CloseInv'
  <2>1. /\ phase[c] \in {"opened", "numbered"} /\ UNCHANGED <<closed, closes>>
        /\ \E to \in {"numbered", "registered"} : Advance(c, to)
        /\ \A e \in active' : e \in active \/ e.conn = c
    BY <1>5 DEF Number, Register
  <2>2. closes[c] = <<>>
    BY <1>0, <2>1 DEF ClosesOf
  <2>3. closes'[c] = <<>> /\ Codes(c)' = {} /\ \A code : AtMostOnce(c, code)'
    BY <2>1, <2>2 DEF Codes, AtMostOnce
  <2>4. ClosesOf(c)'
    BY <2>3 DEF ClosesOf
  <2>5. \A d \in Connections \ {c} : phase'[d] = phase[d]
    BY <1>b, <2>1
  <2>6. \A d \in Connections \ {c} : ClosesOf(d)'
    BY <1>0, <2>1, <2>5, ClosesKept
  <2> QED
    BY <1>0, <1>a, <2>1, <2>4, <2>6
<1>6. ASSUME NEW c \in Connections, CallHandler(c) \/ EndHandler(c) \/ Leave(c)
      PROVE  CloseInv'
  <2>1. /\ UNCHANGED <<closed, closes>> /\ active' \subseteq active
        /\ \/ phase[c] = "registered" /\ Advance(c, "running")
           \/ phase[c] = "running" /\ (Advance(c, "leaving") \/ Advance(c, "failed"))
           \/ phase[c] = "leaving" /\ Advance(c, "done")
    BY <1>6 DEF CallHandler, EndHandler, Leave
  <2>2. /\ \/ phase[c] = "registered" /\ phase'[c] = "running"
           \/ phase[c] = "running" /\ phase'[c] \in {"leaving", "failed"}
           \/ phase[c] = "leaving" /\ phase'[c] = "done"
        /\ \A d \in Connections \ {c} : phase'[d] = phase[d]
    BY <1>b, <2>1
  <2>3. Codes(c)' = Codes(c) /\ \A code \in {1000, 1001, 1011} : AtMostOnce(c, code)'
    BY <1>0, <2>1 DEF Codes, AtMostOnce, ClosesOf
  <2>4. ClosesOf(c)'
    BY <1>0, <2>1, <2>2, <2>3 DEF ClosesOf
  <2>5. \A d \in Connections \ {c} : ClosesOf(d)'
    BY <1>0, <2>1, <2>2, ClosesKept
  <2> QED
    BY <1>0, <1>a, <2>1, <2>4, <2>5
<1>7. ASSUME NEW c \in Connections, CloseFailed(c)
      PROVE  CloseInv'
  <2>1. /\ phase[c] = "failed" /\ UNCHANGED <<active, closed>>
        /\ Advance(c, "leaving") /\ CloseProtocol(c, 1011)
    BY <1>7 DEF CloseFailed
  <2>2. /\ phase'[c] = "leaving" /\ closes'[c] = Append(closes[c], 1011)
        /\ \A d \in Connections \ {c} : phase'[d] = phase[d] /\ closes'[d] = closes[d]
    BY <1>b, <1>c, <1>d, <2>1
  <2>3. /\ 1011 \notin Codes(c)
        /\ 1000 \in Codes(c) => closed'[c]
        /\ 1001 \in Codes(c) => \A e \in active' : e.conn # c
    BY <1>0, <2>1 DEF ClosesOf
  <2>4. ClosesOf(c)'
    BY <1>0, <1>d, <2>2, <2>3, ClosesAdded
  <2>5. \A d \in Connections \ {c} : ClosesOf(d)'
    BY <1>0, <2>1, <2>2, ClosesKept
  <2> QED
    BY <1>0, <1>a, <2>1, <2>4, <2>5
<1>8. ASSUME NEW c \in Connections, NEW t \in Tasks[c], Close(c, t)
      PROVE  CloseInv'
  <2>1. /\ phase[c] \in {"running", "failed", "leaving", "done"} /\ ~closed[c]
        /\ UNCHANGED <<phase, active>> /\ CloseProtocol(c, 1000)
        /\ closed' = [closed EXCEPT ![c] = TRUE]
    BY <1>8 DEF Close, Free
  <2>2. /\ closes'[c] = Append(closes[c], 1000)
        /\ \A d \in Connections \ {c} : closes'[d] = closes[d]
    BY <1>c, <1>d, <2>1
  <2>3. /\ closed'[c] /\ closed' = [d \in Connections |-> closed'[d]]
        /\ \A d \in Connections \ {c} : closed'[d] = closed[d]
    BY <1>0, <2>1
  <2>4. /\ 1000 \notin Codes(c)
        /\ 1001 \in Codes(c) => \A e \in active' : e.conn # c
        /\ 1011 \in Codes(c) => phase'[c] \in {"leaving", "done"}
    BY <1>0, <2>1 DEF ClosesOf
  <2>5. ClosesOf(c)'
    BY <1>0, <1>d, <2>1, <2>2, <2>3, <2>4, ClosesAdded
  <2>6. ASSUME NEW d \in Connections \ {c}
        PROVE  ClosesOf(d)'
    <3>1. phase'[d] = phase[d] /\ closes'[d] = closes[d] /\ (closed[d] => closed'[d])
      BY <2>1, <2>2, <2>3
    <3> QED
      BY <1>0, <2>1, <3>1, ClosesKept
  <2> QED
    BY <1>a, <2>3, <2>5, <2>6
<1> QED
  BY <1>1, <1>2, <1>3, <1>4, <1>5, <1>6, <1>7, <1>8, NextCases

\* Shutdown tells a connection once, its handler's close goes out once, and so does the
\* close for a handler that failed.
THEOREM AlwaysClosedOnce == Spec => []ClosedOnce
<1>1. ASSUME CloseInv
      PROVE  ClosedOnce
  <2> SUFFICES ASSUME NEW c \in Connections, NEW code \in {1000, 1001, 1011}
               PROVE  CountOf(c, code) <= 1
    BY DEF ClosedOnce
  <2> DEFINE places == {k \in DOMAIN closes[c] : closes[c][k] = code}
  <2>1. \A j, k \in places : j = k
    BY <1>1 DEF CloseInv, AtMostOnce
  <2>2. places = {} \/ \E k : places = {k}
    BY <2>1
  <2> HIDE DEF places
  <2>3. Cardinality(places) \in {0, 1}
    <3>1. CASE places = {}
      BY <3>1, FS_EmptySet
    <3>2. ASSUME NEW k, places = {k}
          PROVE  Cardinality(places) = 1
      <4>1. IsFiniteSet({}) /\ Cardinality({}) = 0
        BY FS_EmptySet
      <4>2. Cardinality({} \cup {k}) = Cardinality({}) + 1
        BY <4>1, FS_AddElement
      <4>3. {} \cup {k} = places
        BY <3>2
      <4> QED
        BY <4>1, <4>2, <4>3
    <3> QED
      BY <2>2, <3>1, <3>2
  <2> QED
    BY <2>3 DEF CountOf, places
<1> QED
  BY <1>1, TableInit, TableNext, CloseInit, CloseNext, PTL DEF Spec
=============================================================================
