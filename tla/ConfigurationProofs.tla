------------------------ MODULE ConfigurationProofs ------------------------
(***************************************************************************)
(* Proofs about Configuration: for any tasks, requests and bounds.         *)
(*                                                                         *)
(* The inductive invariant has two independent halves.  Lifecycle says     *)
(* that a pool is installed once, by its own setup_database, and that a    *)
(* close_database has taken a pool which is installed no more; it is what  *)
(* keeps the pool another task closes from being the installed one.        *)
(* ServedTextIsDocument is inductive as it stands.                         *)
(***************************************************************************)
EXTENDS Configuration, TLAPS

OpenapiTypes ==
    /\ document \in 0 .. MaxEdits
    /\ text \in (0 .. MaxEdits) \cup {NONE}
    /\ torn \in BOOLEAN

DatabaseTypes ==
    /\ db_pool \in Tasks \cup {NONE}
    /\ pool \in [Tasks -> {"absent", "open", "closed"}]
    /\ task \in [Tasks -> [pc : TaskStates, pool : Tasks \cup {NONE}]]
    /\ req \in [Requests -> [pc : RequestStates, snapshot : Tasks \cup {NONE},
                             queries : 0 .. MaxQueries]]

Installed ==
    /\ snapshot = db_pool
    /\ db_pool # NONE => pool[db_pool] = "open" /\ task[db_pool].pc = "installed"

Quiet(p) == \A r \in Requests : ~(req[r].pc = "querying" /\ req[r].snapshot = p)

TaskInv(t) ==
    /\ task[t].pc = "connected" => pool[t] = "open"
    /\ task[t].pool # NONE =>
          task[task[t].pool].pc = "installed" /\ db_pool # task[t].pool
    /\ task[t].pc \in {"taken", "draining"} => task[t].pool # NONE
    /\ task[t].pc \in {"draining", "returned"} /\ task[t].pool # NONE =>
          pool[task[t].pool] = "closed"
    /\ task[t].pc = "returned" /\ task[t].pool # NONE => Quiet(task[t].pool)

Lifecycle == Installed /\ \A t \in Tasks : TaskInv(t)

OpenapiInv == OpenapiTypes /\ ServedTextIsDocument
DatabaseInv == DatabaseTypes /\ Lifecycle
IInv == OpenapiInv /\ DatabaseInv

database_vars == <<state_vars, pool, task, req>>

-----------------------------------------------------------------------------
LEMMA InitIInv == Init => IInv
<1> SUFFICES ASSUME Init PROVE IInv
  OBVIOUS
<1> USE ConfigurationAssumption DEF Init
<1>1. OpenapiInv
  <2>1. document = 0 /\ text = NONE /\ ~torn
    OBVIOUS
  <2>2. torn \in BOOLEAN
    OBVIOUS
  <2> QED BY <2>1, <2>2 DEF OpenapiInv, OpenapiTypes, ServedTextIsDocument
<1>2. DatabaseTypes
  BY DEF DatabaseTypes, NoRequest, TaskStates, RequestStates
<1>3. Lifecycle
  BY DEF Lifecycle, Installed, TaskInv
<1> QED BY <1>1, <1>2, <1>3 DEF IInv, DatabaseInv

\* Every step on the document: an edit, a call that raises, or making the text.
LEMMA OpenapiStep ==
  ASSUME OpenapiInv, (\E n \in 0 .. 1 : Edit(n)) \/ SetOpenapiInfoRaises \/ OpenapiJson
                     \/ (\E r \in Requests : GetOpenapi(r)) \/ UNCHANGED openapi_vars
  PROVE  OpenapiInv'
<1> USE ConfigurationAssumption DEF OpenapiInv, OpenapiTypes, ServedTextIsDocument
<1>1. CASE \E n \in 0 .. 1 : Edit(n)
  <2>1. PICK n \in 0 .. 1 : Edit(n)
    BY <1>1
  <2>2. document + n <= MaxEdits /\ document' = document + n /\ text' = NONE
    BY <2>1 DEF Edit
  <2>3. torn' = FALSE
    BY <2>1 DEF Edit
  <2>4. document' \in 0 .. MaxEdits
    BY <2>2
  <2> QED BY <2>2, <2>3, <2>4
<1>2. CASE SetOpenapiInfoRaises
  <2>1. PICK stored \in {{}, {"description"}, {"contact"}, {"description", "contact"}} :
            /\ document + Changes(stored) <= MaxEdits
            /\ document' = document + Changes(stored)
            /\ torn' = (torn \/ (stored # {} /\ text # NONE))
    BY <1>2 DEF SetOpenapiInfoRaises
  <2>2. text' = text
    BY <1>2 DEF SetOpenapiInfoRaises
  <2>3. Changes(stored) \in 0 .. 1 /\ (Changes(stored) = 0 <=> stored = {})
    BY DEF Changes
  <2>4. document' \in 0 .. MaxEdits /\ (stored = {} => document' = document)
    BY <2>1, <2>3
  <2>5. torn' \in BOOLEAN /\ (~torn' => ~torn /\ (stored = {} \/ text = NONE))
    BY <2>1
  <2>6. ServedTextIsDocument'
    BY <2>2, <2>4, <2>5
  <2> QED BY <2>2, <2>4, <2>5, <2>6
<1>3. CASE OpenapiJson \/ \E r \in Requests : GetOpenapi(r)
  BY <1>3 DEF OpenapiJson, GetOpenapi, MakeText
<1>4. CASE UNCHANGED openapi_vars
  BY <1>4 DEF openapi_vars
<1> QED BY <1>1, <1>2, <1>3, <1>4

-----------------------------------------------------------------------------
(* setup_database and close_database.                                      *)

\* What a step of task t between two states of its own does to the types.
LEMMA TaskStepTypes ==
  ASSUME DatabaseTypes, NEW t \in Tasks, NEW from, NEW to \in TaskStates, TaskStep(t, from, to)
  PROVE  /\ task' \in [Tasks -> [pc : TaskStates, pool : Tasks \cup {NONE}]]
         /\ task[t].pc = from /\ task'[t].pc = to
         /\ \A u \in Tasks : task'[u].pool = task[u].pool /\ (u # t => task'[u] = task[u])
  BY DEF DatabaseTypes, TaskStep

LEMMA SetupStep ==
  ASSUME DatabaseInv, NEW t \in Tasks,
         BeginSetup(t) \/ ConnectFails(t) \/ Connected(t) \/ Install(t)
  PROVE  DatabaseInv'
<1> USE ConfigurationAssumption DEF DatabaseInv, Lifecycle
<1>0. DatabaseTypes /\ \A u \in Tasks : task[u].pool \in Tasks \cup {NONE}
  BY DEF DatabaseTypes
<1>i. Installed /\ \A u \in Tasks : TaskInv(u)
  OBVIOUS
<1>1. CASE BeginSetup(t) \/ ConnectFails(t)
  <2>1. TaskStep(t, "idle", "connecting") \/ TaskStep(t, "connecting", "failed")
    BY <1>1 DEF BeginSetup, ConnectFails
  <2>2. UNCHANGED <<db_pool, snapshot, pool, req>>
    BY <1>1 DEF BeginSetup, ConnectFails, state_vars
  <2>3. /\ task' \in [Tasks -> [pc : TaskStates, pool : Tasks \cup {NONE}]]
        /\ task[t].pc \in {"idle", "connecting"} /\ task'[t].pc \in {"connecting", "failed"}
        /\ \A u \in Tasks : task'[u].pool = task[u].pool /\ (u # t => task'[u] = task[u])
    BY <1>0, <2>1, TaskStepTypes DEF TaskStates
  <2>4. DatabaseTypes'
    BY <2>2, <2>3 DEF DatabaseTypes
  <2>5. Lifecycle'
    <3>1. Installed'
      BY <1>0, <1>i, <2>2, <2>3 DEF DatabaseTypes, Installed
    <3>2. ASSUME NEW u \in Tasks PROVE TaskInv(u)'
      <4>1. TaskInv(u) /\ TaskInv(t) /\ Installed
        BY <1>i
      <4>2. task[u].pool # NONE =>
               task[u].pool \in Tasks /\ task'[task[u].pool].pc = "installed"
        BY <4>1, <1>0, <2>3 DEF TaskInv
      <4>3. CASE u = t
        BY <4>1, <4>2, <4>3, <2>2, <2>3 DEF TaskInv
      <4>4. CASE u # t
        BY <4>1, <4>2, <4>4, <2>2, <2>3 DEF TaskInv, Quiet
      <4> QED BY <4>3, <4>4
    <3> QED BY <3>1, <3>2
  <2> QED BY <2>4, <2>5
<1>2. CASE Connected(t)
  <2>1. TaskStep(t, "connecting", "connected") /\ pool' = [pool EXCEPT ![t] = "open"]
    BY <1>2 DEF Connected
  <2>2. UNCHANGED <<db_pool, snapshot, req>>
    BY <1>2 DEF Connected, state_vars
  <2>3. /\ task' \in [Tasks -> [pc : TaskStates, pool : Tasks \cup {NONE}]]
        /\ task[t].pc = "connecting" /\ task'[t].pc = "connected"
        /\ \A u \in Tasks : task'[u].pool = task[u].pool /\ (u # t => task'[u] = task[u])
    BY <1>0, <2>1, TaskStepTypes DEF TaskStates
  <2>4. /\ pool' \in [Tasks -> {"absent", "open", "closed"}]
        /\ pool'[t] = "open" /\ \A u \in Tasks : u # t => pool'[u] = pool[u]
    BY <1>0, <2>1 DEF DatabaseTypes
  <2>5. DatabaseTypes'
    BY <1>0, <2>2, <2>3, <2>4 DEF DatabaseTypes
  <2>6. Lifecycle'
    <3>1. Installed'
      BY <1>0, <1>i, <2>2, <2>3, <2>4 DEF DatabaseTypes, Installed
    <3>2. ASSUME NEW u \in Tasks PROVE TaskInv(u)'
      <4>1. TaskInv(u) /\ TaskInv(t) /\ Installed
        BY <1>i
      <4>2. task[u].pool # NONE =>
               /\ task[u].pool \in Tasks /\ task[u].pool # t
               /\ task'[task[u].pool].pc = "installed"
        BY <4>1, <1>0, <2>3 DEF TaskInv
      <4>3. CASE u = t
        BY <4>1, <4>2, <4>3, <2>2, <2>3, <2>4 DEF TaskInv, Quiet
      <4>4. CASE u # t
        BY <4>1, <4>2, <4>4, <2>2, <2>3, <2>4 DEF TaskInv, Quiet
      <4> QED BY <4>3, <4>4
    <3> QED BY <3>1, <3>2
  <2> QED BY <2>5, <2>6
<1>3. CASE Install(t)
  <2>1. TaskStep(t, "connected", "installed") /\ db_pool' = t /\ snapshot' = t
    BY <1>3 DEF Install, RebuildSnapshot
  <2>2. UNCHANGED <<pool, req>>
    BY <1>3 DEF Install
  <2>3. /\ task' \in [Tasks -> [pc : TaskStates, pool : Tasks \cup {NONE}]]
        /\ task[t].pc = "connected" /\ task'[t].pc = "installed"
        /\ \A u \in Tasks : task'[u].pool = task[u].pool /\ (u # t => task'[u] = task[u])
    BY <1>0, <2>1, TaskStepTypes DEF TaskStates
  <2>4. DatabaseTypes'
    BY <1>0, <2>1, <2>2, <2>3 DEF DatabaseTypes
  <2>5. Lifecycle'
    <3>1. Installed'
      BY <1>0, <1>i, <2>1, <2>2, <2>3 DEF DatabaseTypes, Installed, TaskInv
    <3>2. ASSUME NEW u \in Tasks PROVE TaskInv(u)'
      <4>1. TaskInv(u) /\ TaskInv(t) /\ Installed
        BY <1>i
      <4>2. task[u].pool # NONE =>
               /\ task[u].pool \in Tasks /\ task[u].pool # t
               /\ task'[task[u].pool].pc = "installed"
        BY <4>1, <1>0, <2>3 DEF TaskInv
      <4>3. CASE u = t
        BY <4>1, <4>2, <4>3, <2>1, <2>2, <2>3 DEF TaskInv, Quiet
      <4>4. CASE u # t
        BY <4>1, <4>2, <4>4, <2>1, <2>2, <2>3 DEF TaskInv, Quiet
      <4> QED BY <4>3, <4>4
    <3> QED BY <3>1, <3>2
  <2> QED BY <2>4, <2>5
<1> QED BY <1>1, <1>2, <1>3

LEMMA CloseStep ==
  ASSUME DatabaseInv, NEW t \in Tasks,
         BeginClose(t) \/ Take(t) \/ MarkClosed(t) \/ Drained(t) \/ CancelClose(t)
         \/ DropPool(t)
  PROVE  DatabaseInv'
<1> USE ConfigurationAssumption DEF DatabaseInv, Lifecycle
<1>0. DatabaseTypes /\ \A u \in Tasks : task[u].pool \in Tasks \cup {NONE}
  BY DEF DatabaseTypes
<1>i. Installed /\ \A u \in Tasks : TaskInv(u)
  OBVIOUS
<1>1. CASE BeginClose(t) \/ CancelClose(t)
  <2>1. TaskStep(t, "idle", "close") \/ TaskStep(t, "draining", "cancelled")
    BY <1>1 DEF BeginClose, CancelClose
  <2>2. UNCHANGED <<db_pool, snapshot, pool, req>>
    BY <1>1 DEF BeginClose, CancelClose, state_vars
  <2>3. /\ task' \in [Tasks -> [pc : TaskStates, pool : Tasks \cup {NONE}]]
        /\ task[t].pc \in {"idle", "draining"} /\ task'[t].pc \in {"close", "cancelled"}
        /\ \A u \in Tasks : task'[u].pool = task[u].pool /\ (u # t => task'[u] = task[u])
    BY <1>0, <2>1, TaskStepTypes DEF TaskStates
  <2>4. DatabaseTypes'
    BY <1>0, <2>2, <2>3 DEF DatabaseTypes
  <2>5. Lifecycle'
    <3>1. Installed'
      BY <1>0, <1>i, <2>2, <2>3 DEF DatabaseTypes, Installed
    <3>2. ASSUME NEW u \in Tasks PROVE TaskInv(u)'
      <4>1. TaskInv(u) /\ TaskInv(t) /\ Installed
        BY <1>i
      <4>2. task[u].pool # NONE =>
               task[u].pool \in Tasks /\ task'[task[u].pool].pc = "installed"
        BY <4>1, <1>0, <2>3 DEF TaskInv
      <4>3. CASE u = t
        BY <4>1, <4>2, <4>3, <2>2, <2>3 DEF TaskInv
      <4>4. CASE u # t
        BY <4>1, <4>2, <4>4, <2>2, <2>3 DEF TaskInv, Quiet
      <4> QED BY <4>3, <4>4
    <3> QED BY <3>1, <3>2
  <2> QED BY <2>4, <2>5
<1>2. CASE Take(t)
  <2>1. /\ task[t].pc = "close"
        /\ task' = [task EXCEPT ![t] = [pc   |-> IF db_pool = NONE THEN "returned" ELSE "taken",
                                        pool |-> db_pool]]
        /\ db_pool' = NONE /\ snapshot' = NONE
    BY <1>2 DEF Take, RebuildSnapshot
  <2>2. UNCHANGED <<pool, req>>
    BY <1>2 DEF Take
  <2>3. /\ task' \in [Tasks -> [pc : TaskStates, pool : Tasks \cup {NONE}]]
        /\ task'[t].pc = (IF db_pool = NONE THEN "returned" ELSE "taken")
        /\ task'[t].pool = db_pool
        /\ \A u \in Tasks : u # t => task'[u] = task[u]
    BY <1>0, <2>1 DEF DatabaseTypes, TaskStates
  <2>4. DatabaseTypes'
    BY <1>0, <2>1, <2>2, <2>3 DEF DatabaseTypes
  <2>5. Lifecycle'
    <3>1. Installed'
      BY <1>0, <1>i, <2>1, <2>2, <2>3 DEF DatabaseTypes, Installed
    <3>2. ASSUME NEW u \in Tasks PROVE TaskInv(u)'
      <4>1. TaskInv(u) /\ TaskInv(t) /\ Installed
        BY <1>i
      <4>2. /\ task[u].pool # NONE =>
                  /\ task[u].pool \in Tasks /\ task[u].pool # t
                  /\ task'[task[u].pool].pc = "installed"
            /\ db_pool # NONE => db_pool # t /\ task'[db_pool].pc = "installed"
        BY <4>1, <1>0, <2>1, <2>3 DEF TaskInv, Installed, DatabaseTypes
      <4>3. CASE u = t
        BY <4>1, <4>2, <4>3, <2>1, <2>2, <2>3 DEF TaskInv, Quiet
      <4>4. CASE u # t
        BY <4>1, <4>2, <4>4, <2>1, <2>2, <2>3 DEF TaskInv, Quiet
      <4> QED BY <4>3, <4>4
    <3> QED BY <3>1, <3>2
  <2> QED BY <2>4, <2>5
<1>3. CASE MarkClosed(t)
  <2>1. /\ TaskStep(t, "taken", "draining")
        /\ pool' = [pool EXCEPT ![task[t].pool] = "closed"]
    BY <1>3 DEF MarkClosed
  <2>2. UNCHANGED <<db_pool, snapshot, req>>
    BY <1>3 DEF MarkClosed, state_vars
  <2>3. /\ task' \in [Tasks -> [pc : TaskStates, pool : Tasks \cup {NONE}]]
        /\ task[t].pc = "taken" /\ task'[t].pc = "draining"
        /\ \A u \in Tasks : task'[u].pool = task[u].pool /\ (u # t => task'[u] = task[u])
    BY <1>0, <2>1, TaskStepTypes DEF TaskStates
  <2>4. task[t].pool \in Tasks /\ task[task[t].pool].pc = "installed" /\ db_pool # task[t].pool
    BY <1>0, <1>i, <2>3 DEF TaskInv
  <2>5. /\ pool' \in [Tasks -> {"absent", "open", "closed"}]
        /\ pool'[task[t].pool] = "closed"
        /\ \A u \in Tasks : u # task[t].pool => pool'[u] = pool[u]
    BY <1>0, <2>1, <2>4 DEF DatabaseTypes
  <2>6. DatabaseTypes'
    BY <1>0, <2>2, <2>3, <2>5 DEF DatabaseTypes
  <2>7. Lifecycle'
    <3>1. Installed'
      BY <1>0, <1>i, <2>2, <2>3, <2>4, <2>5 DEF DatabaseTypes, Installed
    <3>2. ASSUME NEW u \in Tasks PROVE TaskInv(u)'
      <4>1. TaskInv(u) /\ TaskInv(t) /\ Installed
        BY <1>i
      <4>2. task[u].pool # NONE =>
               task[u].pool \in Tasks /\ task'[task[u].pool].pc = "installed"
        BY <4>1, <1>0, <2>3 DEF TaskInv
      <4>3. pool[u] = "open" /\ task[u].pc = "connected" => pool'[u] = "open"
        BY <2>4, <2>5
      <4>4. task[u].pool # NONE /\ pool[task[u].pool] = "closed" => pool'[task[u].pool] = "closed"
        BY <4>2, <2>5
      <4>5. CASE u = t
        BY <4>1, <4>2, <4>5, <2>2, <2>3, <2>5 DEF TaskInv
      <4>6. CASE u # t
        BY <4>1, <4>2, <4>3, <4>4, <4>6, <2>2, <2>3 DEF TaskInv, Quiet
      <4> QED BY <4>5, <4>6
    <3> QED BY <3>1, <3>2
  <2> QED BY <2>6, <2>7
<1>4. CASE Drained(t)
  <2>1. TaskStep(t, "draining", "returned") /\ Quiet(task[t].pool)
    BY <1>4 DEF Drained, QueriesOn, Quiet
  <2>2. UNCHANGED <<db_pool, snapshot, pool, req>>
    BY <1>4 DEF Drained, state_vars
  <2>3. /\ task' \in [Tasks -> [pc : TaskStates, pool : Tasks \cup {NONE}]]
        /\ task[t].pc = "draining" /\ task'[t].pc = "returned"
        /\ \A u \in Tasks : task'[u].pool = task[u].pool /\ (u # t => task'[u] = task[u])
    BY <1>0, <2>1, TaskStepTypes DEF TaskStates
  <2>4. DatabaseTypes'
    BY <1>0, <2>2, <2>3 DEF DatabaseTypes
  <2>5. Lifecycle'
    <3>1. Installed'
      BY <1>0, <1>i, <2>1, <2>2, <2>3 DEF DatabaseTypes, Installed
    <3>2. ASSUME NEW u \in Tasks PROVE TaskInv(u)'
      <4>1. TaskInv(u) /\ TaskInv(t) /\ Installed
        BY <1>i
      <4>2. task[u].pool # NONE =>
               task[u].pool \in Tasks /\ task'[task[u].pool].pc = "installed"
        BY <4>1, <1>0, <2>3 DEF TaskInv
      <4>3. CASE u = t
        BY <4>1, <4>2, <4>3, <2>1, <2>2, <2>3 DEF TaskInv, Quiet
      <4>4. CASE u # t
        BY <4>1, <4>2, <4>4, <2>1, <2>2, <2>3 DEF TaskInv, Quiet
      <4> QED BY <4>3, <4>4
    <3> QED BY <3>1, <3>2
  <2> QED BY <2>4, <2>5
<1>5. CASE DropPool(t)
  <2>1. /\ t # db_pool /\ task[t].pc # "connected"
        /\ pool' = [pool EXCEPT ![t] = "closed"]
        /\ UNCHANGED <<db_pool, snapshot, task, req>>
    BY <1>5 DEF DropPool, state_vars
  <2>2. /\ pool' \in [Tasks -> {"absent", "open", "closed"}]
        /\ pool'[t] = "closed" /\ \A u \in Tasks : u # t => pool'[u] = pool[u]
    BY <1>0, <2>1 DEF DatabaseTypes
  <2>3. DatabaseTypes'
    BY <1>0, <2>1, <2>2 DEF DatabaseTypes
  <2>4. Lifecycle'
    <3>1. Installed'
      BY <1>0, <1>i, <2>1, <2>2 DEF DatabaseTypes, Installed
    <3>2. ASSUME NEW u \in Tasks PROVE TaskInv(u)'
      <4>1. TaskInv(u) /\ TaskInv(t) /\ Installed
        BY <1>i
      <4>2. \A p \in Tasks : pool[p] = "closed" => pool'[p] = "closed"
        BY <2>2
      <4>3. task[u].pool \in Tasks \cup {NONE} /\ (task[u].pc = "connected" => u # t)
        BY <1>0, <2>1 DEF DatabaseTypes
      <4> QED BY <4>1, <4>2, <4>3, <2>1, <2>2 DEF TaskInv, Quiet
    <3> QED BY <3>1, <3>2
  <2> QED BY <2>3, <2>4
<1> QED BY <1>1, <1>2, <1>3, <1>4, <1>5

-----------------------------------------------------------------------------
(* Requests: only a request that acquires a connection can disturb a       *)
(* close_database that has returned, and the pool it needs is open.        *)

\* What a step of request r does, as far as the invariant tells.
LEMMA RequestTypes ==
  ASSUME DatabaseInv, NEW r \in Requests, Request(r)
  PROVE  /\ UNCHANGED <<db_pool, snapshot, pool, task>>
         /\ DatabaseTypes'
         /\ \A q \in Requests : q # r => req'[q] = req[q]
<1> USE ConfigurationAssumption
<1>0. DatabaseTypes /\ snapshot = db_pool
  BY DEF DatabaseInv, Lifecycle, Installed
<1>1. UNCHANGED <<db_pool, snapshot, pool, task>>
  BY DEF Request, Arrive, GetOpenapi, UseDatabase, Acquire, AcquireFails, QueryReturns,
         QueryFails, EndRequest, state_vars
<1>2. \E x \in [pc : RequestStates, snapshot : Tasks \cup {NONE}, queries : 0 .. MaxQueries] :
         req' = [req EXCEPT ![r] = x]
  <2> DEFINE Slot == [pc : RequestStates, snapshot : Tasks \cup {NONE},
                      queries : 0 .. MaxQueries]
  <2>1. req \in [Requests -> Slot] /\ req[r] \in Slot
    BY <1>0 DEF DatabaseTypes
  <2>2. NoRequest \in Slot
    BY DEF NoRequest, RequestStates
  <2>3. CASE Arrive(r)
    <3>1. PICK n \in 0 .. MaxQueries :
             req' = [req EXCEPT ![r] = [pc |-> "running", snapshot |-> snapshot, queries |-> n]]
      BY <2>3 DEF Arrive
    <3>2. [pc |-> "running", snapshot |-> snapshot, queries |-> n] \in Slot
      BY <1>0 DEF DatabaseTypes, RequestStates
    <3> QED BY <3>1, <3>2
  <2>4. CASE UseDatabase(r)
    <3>1. CASE End(r, "running")
      BY <2>2, <3>1 DEF End
    <3>2. CASE req' = [req EXCEPT ![r].pc = "acquiring", ![r].queries = req[r].queries - 1]
      <4>1. req[r].queries - 1 \in 0 .. MaxQueries
        BY <2>1, <2>4 DEF UseDatabase
      <4>2. [req[r] EXCEPT !.pc = "acquiring", !.queries = req[r].queries - 1] \in Slot
        BY <2>1, <4>1 DEF RequestStates
      <4>3. req' = [req EXCEPT ![r] = [req[r] EXCEPT !.pc = "acquiring",
                                                     !.queries = req[r].queries - 1]]
        BY <2>1, <3>2
      <4> QED BY <4>2, <4>3
    <3> QED BY <2>4, <3>1, <3>2 DEF UseDatabase
  <2>5. CASE Acquire(r) \/ QueryReturns(r)
    <3>1. PICK to \in RequestStates : req' = [req EXCEPT ![r].pc = to]
      BY <2>5 DEF Acquire, QueryReturns, RequestStep, RequestStates
    <3>2. [req[r] EXCEPT !.pc = to] \in Slot
      BY <2>1, <3>1
    <3>3. req' = [req EXCEPT ![r] = [req[r] EXCEPT !.pc = to]]
      BY <2>1, <3>1
    <3> QED BY <3>2, <3>3
  <2>6. CASE GetOpenapi(r) \/ AcquireFails(r) \/ QueryFails(r) \/ EndRequest(r)
    BY <2>2, <2>6 DEF GetOpenapi, AcquireFails, QueryFails, EndRequest, End
  <2> QED BY <2>3, <2>4, <2>5, <2>6 DEF Request
<1>3. PICK x \in [pc : RequestStates, snapshot : Tasks \cup {NONE}, queries : 0 .. MaxQueries] :
         req' = [req EXCEPT ![r] = x]
  BY <1>2
<1>4. DatabaseTypes'
  BY <1>0, <1>1, <1>3 DEF DatabaseTypes
<1>5. \A q \in Requests : q # r => req'[q] = req[q]
  BY <1>0, <1>3 DEF DatabaseTypes
<1> QED BY <1>1, <1>4, <1>5

\* A request that is querying after its step was querying before it on the same pool, or
\* has just acquired a connection of an open pool.
LEMMA QueryingAfter ==
  ASSUME DatabaseInv, NEW r \in Requests, Request(r), req'[r].pc = "querying"
  PROVE  req'[r].snapshot = req[r].snapshot /\ pool[req[r].snapshot] = "open"
<1>0. req \in [Requests -> [pc : RequestStates, snapshot : Tasks \cup {NONE},
                            queries : 0 .. MaxQueries]]
  BY DEF DatabaseInv, DatabaseTypes
<1>1. \A from : ~End(r, from)
  BY <1>0 DEF End, NoRequest
<1>2. ~Arrive(r)
  BY <1>0 DEF Arrive
<1>3. ~UseDatabase(r)
  BY <1>0, <1>1 DEF UseDatabase
<1>4. ~QueryReturns(r)
  BY <1>0 DEF QueryReturns, RequestStep
<1>5. Acquire(r)
  BY <1>1, <1>2, <1>3, <1>4 DEF Request, GetOpenapi, AcquireFails, QueryFails, EndRequest
<1> QED BY <1>0, <1>5 DEF Acquire, RequestStep

LEMMA DatabaseRequestStep ==
  ASSUME DatabaseInv, NEW r \in Requests, Request(r)
  PROVE  DatabaseInv'
<1>1. /\ UNCHANGED <<db_pool, snapshot, pool, task>>
      /\ DatabaseTypes'
      /\ \A q \in Requests : q # r => req'[q] = req[q]
  BY RequestTypes
<1>i. Installed /\ \A u \in Tasks : TaskInv(u)
  BY DEF DatabaseInv, Lifecycle
<1>2. Installed'
  BY <1>1, <1>i DEF Installed
<1>3. ASSUME NEW u \in Tasks PROVE TaskInv(u)'
  <2>1. TaskInv(u)
    BY <1>i
  <2>2. ASSUME task[u].pc = "returned", task[u].pool # NONE PROVE Quiet(task[u].pool)'
    <3>1. Quiet(task[u].pool) /\ pool[task[u].pool] = "closed"
      BY <2>1, <2>2 DEF TaskInv
    <3>2. ASSUME NEW q \in Requests, req'[q].pc = "querying", req'[q].snapshot = task[u].pool
          PROVE  FALSE
      <4>1. CASE q # r
        BY <1>1, <3>1, <3>2, <4>1 DEF Quiet
      <4>2. CASE q = r
        <5>1. req'[r].snapshot = req[r].snapshot /\ pool[req[r].snapshot] = "open"
          BY <3>2, <4>2, QueryingAfter
        <5> QED BY <3>1, <3>2, <4>2, <5>1
      <4> QED BY <4>1, <4>2
    <3> QED BY <1>1, <3>2 DEF Quiet
  <2> QED BY <1>1, <2>1, <2>2 DEF TaskInv
<1> QED BY <1>1, <1>2, <1>3 DEF DatabaseInv, Lifecycle

-----------------------------------------------------------------------------
\* A step that leaves the pools, the tasks and the requests alone.
LEMMA DatabaseStutter ==
  ASSUME DatabaseInv, UNCHANGED <<db_pool, pool, task, req>>, snapshot' \in {snapshot, db_pool}
  PROVE  DatabaseInv'
<1> USE DEF DatabaseInv, Lifecycle
<1>1. DatabaseTypes'
  BY DEF DatabaseTypes
<1>2. Installed'
  BY DEF Installed
<1>3. ASSUME NEW u \in Tasks PROVE TaskInv(u)'
  <2>1. TaskInv(u)
    OBVIOUS
  <2> QED BY <2>1 DEF TaskInv, Quiet
<1> QED BY <1>1, <1>2, <1>3

LEMMA NextKeepsOpenapi == OpenapiInv /\ [Next]_vars => OpenapiInv'
<1> SUFFICES ASSUME OpenapiInv, [Next]_vars PROVE OpenapiInv'
  OBVIOUS
<1>1. CASE AddRoute \/ SetOpenapiField
  <2>1. Edit(1)
    BY <1>1 DEF AddRoute, SetOpenapiField
  <2>2. \E n \in 0 .. 1 : Edit(n)
    BY <2>1
  <2> QED BY <2>2, OpenapiStep
<1>2. CASE SetOpenapiInfo
  <2>1. PICK given \in SUBSET {"description", "contact", "servers"} : Edit(Changes(given))
    BY <1>2 DEF SetOpenapiInfo
  <2>2. Changes(given) \in 0 .. 1
    BY DEF Changes
  <2> QED BY <2>1, <2>2, OpenapiStep
<1>3. CASE SetOpenapiInfoRaises \/ OpenapiJson
  BY <1>3, OpenapiStep
<1>4. ASSUME NEW t \in Tasks, Database(t) PROVE OpenapiInv'
  <2>1. UNCHANGED openapi_vars
    BY <1>4 DEF Database, BeginSetup, ConnectFails, Connected, Install, BeginClose, Take,
                MarkClosed, Drained, CancelClose, DropPool
  <2> QED BY <2>1, OpenapiStep
<1>5. ASSUME NEW r \in Requests, Request(r) PROVE OpenapiInv'
  <2>1. GetOpenapi(r) \/ UNCHANGED openapi_vars
    BY <1>5 DEF Request, Arrive, UseDatabase, Acquire, AcquireFails, QueryReturns,
                QueryFails, EndRequest
  <2> QED BY <2>1, OpenapiStep
<1>6. CASE UNCHANGED vars
  <2>1. UNCHANGED openapi_vars
    BY <1>6 DEF vars
  <2> QED BY <2>1, OpenapiStep
<1> QED BY <1>1, <1>2, <1>3, <1>4, <1>5, <1>6 DEF Next, Openapi

LEMMA NextKeepsDatabase == DatabaseInv /\ [Next]_vars => DatabaseInv'
<1> SUFFICES ASSUME DatabaseInv, [Next]_vars PROVE DatabaseInv'
  OBVIOUS
<1>1. CASE Openapi
  <2>1. /\ UNCHANGED <<db_pool, pool, task, req>>
        /\ snapshot' \in {snapshot, db_pool}
    BY <1>1 DEF Openapi, AddRoute, RebuildSnapshot, SetOpenapiField, SetOpenapiInfo,
                SetOpenapiInfoRaises, OpenapiJson, state_vars
  <2> QED BY <2>1, DatabaseStutter
<1>2. ASSUME NEW t \in Tasks, Database(t) PROVE DatabaseInv'
  BY <1>2, SetupStep, CloseStep DEF Database
<1>3. ASSUME NEW r \in Requests, Request(r) PROVE DatabaseInv'
  BY <1>3, DatabaseRequestStep
<1>4. CASE UNCHANGED vars
  <2>1. /\ UNCHANGED <<db_pool, pool, task, req>>
        /\ snapshot' \in {snapshot, db_pool}
    BY <1>4 DEF vars, state_vars
  <2> QED BY <2>1, DatabaseStutter
<1> QED BY <1>1, <1>2, <1>3, <1>4 DEF Next

LEMMA Invariance == Spec => []IInv
<1>1. IInv /\ [Next]_vars => IInv'
  BY NextKeepsOpenapi, NextKeepsDatabase DEF IInv
<1> QED BY InitIInv, <1>1, PTL DEF Spec

-----------------------------------------------------------------------------
\* Every variable stays in its type; a pool, a task or a request never gets a value the
\* code cannot give it.
THEOREM TypeCorrect == Spec => []TypeOK
<1>1. IInv => TypeOK
  BY DEF IInv, OpenapiInv, OpenapiTypes, DatabaseInv, DatabaseTypes, Lifecycle, Installed, TypeOK
<1> QED BY Invariance, <1>1, PTL

\* setup_database and close_database publish under the write lock: however many of them
\* overlap, the pool a request finds in its snapshot when it arrives is open.
THEOREM PublishedPoolAlwaysOpen == Spec => []PublishedPoolOpen
<1>1. IInv => PublishedPoolOpen
  BY DEF IInv, DatabaseInv, Lifecycle, Installed, PublishedPoolOpen
<1> QED BY Invariance, <1>1, PTL

\* close_database, once returned, leaves nothing running on the pool it took, for any
\* number of requests that still hold an older snapshot.
THEOREM CloseAlwaysQuiesces == Spec => []CloseQuiesces
<1>1. ASSUME IInv PROVE CloseQuiesces
  <2> SUFFICES ASSUME NEW t \in Tasks, task[t].pc = "returned", task[t].pool # NONE
               PROVE  /\ pool[task[t].pool] = "closed"
                      /\ task[t].pool \notin {db_pool, snapshot}
                      /\ QueriesOn(task[t].pool) = {}
    BY DEF CloseQuiesces
  <2>1. TaskInv(t) /\ snapshot = db_pool
    BY <1>1 DEF IInv, DatabaseInv, Lifecycle, Installed
  <2> QED BY <2>1 DEF TaskInv, Quiet, QueriesOn
<1> QED BY Invariance, <1>1, PTL

\* Every edit of the document drops the cached text in the same locked section, so the
\* text handed out is that of the document, unless set_openapi_info raised half way.
THEOREM ServedTextAlwaysCurrent == Spec => []ServedTextIsDocument
<1>1. IInv => ServedTextIsDocument
  BY DEF IInv, OpenapiInv
<1> QED BY Invariance, <1>1, PTL

=============================================================================
