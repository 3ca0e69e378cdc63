--------------------------- MODULE RegistryProofs ---------------------------
(***************************************************************************)
(* Theorems about Registry, for any methods, templates, threads, requests  *)
(* and number of registrations.                                            *)
(***************************************************************************)
EXTENDS Registry, TLAPS

StateInv == TypeOK /\ IndexesResolve /\ TablesFresh

-----------------------------------------------------------------------------
(* Tables and route lists.                                                 *)

\* Appending entries keeps every index of a router where it was.
LEMMA ResolvesAppend ==
    ASSUME NEW rt, NEW rs \in Seq(RouteEntry), NEW ws \in Seq(RouteEntry),
           NEW e \in RouteEntry, Resolves(rt, rs, ws)
    PROVE  Resolves(rt, Append(rs, e), ws) /\ Resolves(rt, rs, Append(ws, e))
<1>1. \A i \in DOMAIN rs : i \in DOMAIN Append(rs, e) /\ Append(rs, e)[i] = rs[i]
  OBVIOUS
<1>2. \A i \in DOMAIN ws : i \in DOMAIN Append(ws, e) /\ Append(ws, e)[i] = ws[i]
  OBVIOUS
<1> QED
  BY <1>1, <1>2 DEF Resolves

\* The routers of a method are tables of HTTP routes.
LEMMA RouterForTables ==
    \A m : /\ RouterFor(m) \subseteq Tables
           /\ m # "WS" => RouterFor(m) \subseteq Tables \ {"WS"}
  BY DEF RouterFor, Tables

LEMMA MaskOfHttp == \A m : MaskOf(m) \subseteq HttpMethods
  BY DEF MaskOf, HttpMethods, Tables

\* A template inserted in an HTTP router with the index of the entry pushed for it resolves.
LEMMA ResolvesInsertRoute ==
    ASSUME NEW rt, DOMAIN rt = Tables, NEW rs \in Seq(RouteEntry), NEW ws \in Seq(RouteEntry),
           NEW e \in RouteEntry, Resolves(rt, rs, ws), e.method # "WS",
           NEW m \in RouterFor(e.method)
    PROVE  Resolves([rt EXCEPT ![m] = Insert(rt[m], e.path, NextIndex(rs))], Append(rs, e), ws)
<1> DEFINE rt2 == [rt EXCEPT ![m] = Insert(rt[m], e.path, NextIndex(rs))]
           rs2 == Append(rs, e)
<1>1. m \in Tables \ {"WS"}
  BY RouterForTables
<1>2. Resolves(rt, rs2, ws)
  BY ResolvesAppend
<1>3. NextIndex(rs) \in DOMAIN rs2 /\ rs2[NextIndex(rs)] = e
  BY DEF NextIndex
<1>4. rt2["WS"] = rt["WS"] /\ \A n \in Tables \ {m} : rt2[n] = rt[n]
  BY <1>1 DEF Tables
<1>5. rt2[m] = Insert(rt[m], e.path, NextIndex(rs))
  BY <1>1
<1>6. DOMAIN rt2[m] = DOMAIN rt[m] \cup {e.path}
  BY <1>5 DEF Insert
<1>7. \A t \in DOMAIN rt2[m] : rt2[m][t] = IF t = e.path THEN NextIndex(rs) ELSE rt[m][t]
  BY <1>5, <1>6 DEF Insert
<1> HIDE DEF rt2, rs2
<1>8. ASSUME NEW n \in Tables \ {"WS"}, NEW t \in DOMAIN rt2[n]
      PROVE  rt2[n][t] \in DOMAIN rs2 /\ rs2[rt2[n][t]].path = t
             /\ n \in RouterFor(rs2[rt2[n][t]].method)
  <2>1. CASE n # m
    BY <2>1, <1>2, <1>4 DEF Resolves
  <2>2. CASE n = m /\ t = e.path
    BY <2>2, <1>3, <1>7
  <2>3. CASE n = m /\ t # e.path
    BY <2>3, <1>1, <1>2, <1>6, <1>7 DEF Resolves
  <2> QED
    BY <2>1, <2>2, <2>3
<1>9. Resolves(rt2, rs2, ws)
  BY <1>2, <1>4, <1>8 DEF Resolves
<1> QED
  BY <1>9 DEF rt2, rs2

\* The same for the WebSocket router.
LEMMA ResolvesInsertWebsocket ==
    ASSUME NEW rt, DOMAIN rt = Tables, NEW rs \in Seq(RouteEntry), NEW ws \in Seq(RouteEntry),
           NEW e \in RouteEntry, Resolves(rt, rs, ws), e.method = "WS"
    PROVE  Resolves([rt EXCEPT !["WS"] = Insert(rt["WS"], e.path, NextIndex(ws))],
                    rs, Append(ws, e))
<1> DEFINE rt2 == [rt EXCEPT !["WS"] = Insert(rt["WS"], e.path, NextIndex(ws))]
           ws2 == Append(ws, e)
<1>1. Resolves(rt, rs, ws2)
  BY ResolvesAppend
<1>2. NextIndex(ws) \in DOMAIN ws2 /\ ws2[NextIndex(ws)] = e
  BY DEF NextIndex
<1>3. \A n \in Tables \ {"WS"} : rt2[n] = rt[n]
  OBVIOUS
<1>4. rt2["WS"] = Insert(rt["WS"], e.path, NextIndex(ws))
  BY DEF Tables
<1> HIDE DEF rt2, ws2
<1>5. \A t \in DOMAIN rt2["WS"] : /\ rt2["WS"][t] \in DOMAIN ws2
                                  /\ ws2[rt2["WS"][t]].path = t
                                  /\ "WS" \in RouterFor(ws2[rt2["WS"][t]].method)
  <2>1. "WS" \in RouterFor(e.method)
    BY DEF RouterFor, Tables
  <2> QED
    BY <1>1, <1>2, <1>4, <2>1 DEF Resolves, Insert
<1>6. Resolves(rt2, rs, ws2)
  BY <1>1, <1>3, <1>5 DEF Resolves
<1> QED
  BY <1>6 DEF rt2, ws2

-----------------------------------------------------------------------------
(* The inductive invariant of the registry.                                *)

LEMMA InitStateInv == Init => StateInv
<1> SUFFICES ASSUME Init PROVE StateInv
  OBVIOUS
<1>1. TypeOK
  <2>1. snapshot.routes = <<>> /\ snapshot.ws_routes = <<>>
    BY DEF Init, FrozenState
  <2>2. <<>> \in Seq(RouteEntry)
    OBVIOUS
  <2>3. job \in [Registrars -> SUBSET RouteEntry] /\ frozen \in BOOLEAN
    BY DEF Init
  <2>4. DOMAIN router = Tables /\ \A m \in Tables : DOMAIN router[m] = {}
    BY DEF Init, EmptyTable
  <2>5. DOMAIN masks = {} /\ routes = <<>> /\ ws_routes = <<>>
    BY DEF Init
  <2> QED
    BY <2>1, <2>2, <2>3, <2>4, <2>5 DEF TypeOK
<1>2. IndexesResolve
  BY DEF Init, IndexesResolve, Resolves, EmptyTable, Tables
<1>3. TablesFresh
  BY DEF Init, TablesFresh, FrozenState
<1> QED
  BY <1>1, <1>2, <1>3 DEF StateInv

\* Compiling the tables, where it happens, keeps the invariant: used by freeze and by
\* requests.
LEMMA PublishStateInv ==
    ASSUME StateInv, UNCHANGED <<routes, ws_routes, router, masks>>,
           frozen' \in BOOLEAN, job' \in [Registrars -> SUBSET RouteEntry],
           compiled' = EnsureCompiled,
           \/ snapshot' = FrozenState(routes, ws_routes, EnsureCompiled)
           \/ snapshot' = snapshot /\ compiled = EnsureCompiled
    PROVE  StateInv'
<1>1. \A c \in EnsureCompiled : c = SnapshotRouters(router, masks)
  BY DEF StateInv, TablesFresh, EnsureCompiled
<1>2. TablesFresh'
  BY <1>1 DEF StateInv, TablesFresh, FrozenState
<1>3. IndexesResolve'
  BY DEF StateInv, IndexesResolve, FrozenState
<1>4. TypeOK'
  BY DEF StateInv, TypeOK, FrozenState
<1> QED
  BY <1>2, <1>3, <1>4 DEF StateInv

\* add_route keeps the invariant, on its three ways out of the write lock.
LEMMA CommitAddRouteStateInv ==
    ASSUME StateInv, NEW p \in Registrars, CommitAddRoute(p)
    PROVE  StateInv'
<1>1. PICK j \in job[p] : CommitAddRoute(p)!(j)
  BY DEF CommitAddRoute
<1> DEFINE e  == [method |-> j.method, path |-> j.path]
           rs == Append(routes, e)
<1>2. j \in RouteEntry /\ e \in RouteEntry /\ e.method = j.method /\ e.path = j.path
  BY DEF StateInv, TypeOK, RouteEntry
<1>3. rs \in Seq(RouteEntry) /\ routes' = rs /\ ws_routes' = ws_routes /\ frozen' = frozen
  BY <1>1, <1>2 DEF StateInv, TypeOK
<1>4. job' \in [Registrars -> SUBSET RouteEntry]
  BY <1>1 DEF StateInv, TypeOK
<1>5. Resolves(router, rs, ws_routes)
  BY <1>2, ResolvesAppend DEF StateInv, TypeOK, IndexesResolve
<1>6. CASE UNCHANGED <<router, masks, compiled, snapshot>>
  <2>1. TypeOK'
    BY <1>3, <1>4, <1>6 DEF StateInv, TypeOK
  <2>2. IndexesResolve'
    BY <1>3, <1>5, <1>6 DEF StateInv, IndexesResolve
  <2>3. TablesFresh'
    BY <1>6 DEF StateInv, TablesFresh
  <2> QED
    BY <2>1, <2>2, <2>3 DEF StateInv
<1>7. CASE \E m \in RouterFor(j.method) :
              /\ router' = [router EXCEPT ![m] = Insert(router[m], j.path, NextIndex(routes))]
              /\ masks' = InsertMethod(masks, j.path, j.method)
              /\ compiled' = Invalidate(compiled)
              /\ snapshot' = FrozenState(rs, ws_routes, Invalidate(compiled))
  <2>1. PICK m \in RouterFor(j.method) :
              /\ router' = [router EXCEPT ![m] = Insert(router[m], j.path, NextIndex(routes))]
              /\ masks' = InsertMethod(masks, j.path, j.method)
              /\ compiled' = Invalidate(compiled)
              /\ snapshot' = FrozenState(rs, ws_routes, Invalidate(compiled))
    BY <1>7
  <2>2. j.method # "WS" /\ m \in Tables
    BY <1>1, RouterForTables
  <2>3. Resolves(router', rs, ws_routes)
    BY <1>2, <2>1, <2>2, ResolvesInsertRoute DEF StateInv, TypeOK, IndexesResolve
  <2>4. snapshot'.routes = rs /\ snapshot'.ws_routes = ws_routes /\ snapshot'.compiled = compiled'
        /\ compiled' = {}
    BY <2>1 DEF FrozenState, Invalidate
  <2>5. NextIndex(routes) \in Nat \ {0}
    BY DEF StateInv, TypeOK, NextIndex
  <2>6. DOMAIN router' = Tables
        /\ \A n \in Tables : \A t \in DOMAIN router'[n] :
              t \in Templates /\ router'[n][t] \in Nat \ {0}
    <3>1. DOMAIN router = Tables /\ j.path \in Templates
      BY <1>2 DEF StateInv, TypeOK, RouteEntry
    <3>2. \A n \in Tables \ {m} : router'[n] = router[n]
      BY <2>1, <3>1
    <3>3. router'[m] = Insert(router[m], j.path, NextIndex(routes))
      BY <2>1, <2>2, <3>1
    <3>4. \A t \in DOMAIN router'[m] : t \in Templates /\ router'[m][t] \in Nat \ {0}
      BY <2>2, <2>5, <3>1, <3>3 DEF StateInv, TypeOK, Insert
    <3>5. DOMAIN router' = Tables
      BY <2>1, <3>1
    <3>6. \A n \in Tables : \A t \in DOMAIN router[n] :
              t \in Templates /\ router[n][t] \in Nat \ {0}
      BY DEF StateInv, TypeOK
    <3> QED
      BY <3>2, <3>4, <3>5, <3>6
  <2>7. \A t \in DOMAIN masks' : t \in Templates /\ masks'[t] \subseteq HttpMethods
    BY <1>2, <2>1, MaskOfHttp DEF StateInv, TypeOK, InsertMethod, Insert, RouteEntry
  <2>8. TypeOK'
    BY <1>3, <1>4, <2>4, <2>6, <2>7 DEF StateInv, TypeOK
  <2>9. IndexesResolve'
    BY <1>3, <2>3, <2>4 DEF IndexesResolve
  <2>10. TablesFresh'
    BY <2>4 DEF TablesFresh
  <2> QED
    BY <2>8, <2>9, <2>10 DEF StateInv
<1> QED
  BY <1>1, <1>6, <1>7

\* add_websocket_route keeps the invariant.
LEMMA CommitAddWebsocketRouteStateInv ==
    ASSUME StateInv, NEW p \in Registrars, CommitAddWebsocketRoute(p)
    PROVE  StateInv'
<1>1. PICK j \in job[p] : CommitAddWebsocketRoute(p)!(j)
  BY DEF CommitAddWebsocketRoute
<1> DEFINE e  == [method |-> j.method, path |-> j.path]
           ws == Append(ws_routes, e)
<1>2. j \in RouteEntry /\ e \in RouteEntry /\ e.path = j.path /\ e.method = "WS"
  BY <1>1 DEF StateInv, TypeOK, RouteEntry
<1>3. /\ ws \in Seq(RouteEntry) /\ ws_routes' = ws
      /\ routes' = routes /\ frozen' = frozen /\ masks' = masks
  BY <1>1, <1>2 DEF StateInv, TypeOK
<1>4. job' \in [Registrars -> SUBSET RouteEntry]
  BY <1>1 DEF StateInv, TypeOK
<1>5. Resolves(router, routes, ws)
  BY <1>2, ResolvesAppend DEF StateInv, TypeOK, IndexesResolve
<1>6. CASE UNCHANGED <<router, compiled, snapshot>>
  <2>1. TypeOK'
    BY <1>3, <1>4, <1>6 DEF StateInv, TypeOK
  <2>2. IndexesResolve'
    BY <1>3, <1>5, <1>6 DEF StateInv, IndexesResolve
  <2>3. TablesFresh'
    BY <1>3, <1>6 DEF StateInv, TablesFresh
  <2> QED
    BY <2>1, <2>2, <2>3 DEF StateInv
<1>7. CASE /\ router' = [router EXCEPT !["WS"] =
                            Insert(router["WS"], j.path, NextIndex(ws_routes))]
           /\ compiled' = Invalidate(compiled)
           /\ snapshot' = FrozenState(routes, ws, Invalidate(compiled))
  <2>1. Resolves(router', routes, ws)
    BY <1>2, <1>7, ResolvesInsertWebsocket DEF StateInv, TypeOK, IndexesResolve
  <2>2. snapshot'.routes = routes /\ snapshot'.ws_routes = ws /\ snapshot'.compiled = compiled'
        /\ compiled' = {}
    BY <1>7 DEF FrozenState, Invalidate
  <2>3. DOMAIN router' = Tables
        /\ \A n \in Tables : \A t \in DOMAIN router'[n] :
              t \in Templates /\ router'[n][t] \in Nat \ {0}
    <3>1. DOMAIN router = Tables /\ j.path \in Templates /\ "WS" \in Tables
          /\ NextIndex(ws_routes) \in Nat \ {0}
      BY <1>2 DEF StateInv, TypeOK, RouteEntry, Tables, NextIndex
    <3>2. \A n \in Tables \ {"WS"} : router'[n] = router[n]
      BY <1>7, <3>1
    <3>3. router'["WS"] = Insert(router["WS"], j.path, NextIndex(ws_routes))
      BY <1>7, <3>1
    <3>4. \A t \in DOMAIN router'["WS"] : t \in Templates /\ router'["WS"][t] \in Nat \ {0}
      BY <3>1, <3>3 DEF StateInv, TypeOK, Insert
    <3>5. DOMAIN router' = Tables
      BY <1>7, <3>1
    <3>6. \A n \in Tables : \A t \in DOMAIN router[n] :
              t \in Templates /\ router[n][t] \in Nat \ {0}
      BY DEF StateInv, TypeOK
    <3> QED
      BY <3>2, <3>4, <3>5, <3>6
  <2>4. TypeOK'
    BY <1>3, <1>4, <2>2, <2>3 DEF StateInv, TypeOK
  <2>5. IndexesResolve'
    BY <1>3, <2>1, <2>2 DEF IndexesResolve
  <2>6. TablesFresh'
    BY <2>2 DEF TablesFresh
  <2> QED
    BY <2>4, <2>5, <2>6 DEF StateInv
<1> QED
  BY <1>1, <1>6, <1>7

\* Every step of the registry and of its requests keeps the invariant.
LEMMA NextStateInv == StateInv /\ [Next]_vars => StateInv'
<1> SUFFICES ASSUME StateInv, [Next]_vars PROVE StateInv'
  OBVIOUS
<1>1. ASSUME NEW p \in Registrars, BeginAdd(p) PROVE StateInv'
  <2>1. job' \in [Registrars -> SUBSET RouteEntry]
    <3>1. PICK m \in Methods \cup {"WS"}, t \in Templates :
             job' = [job EXCEPT ![p] = {[method |-> m, path |-> t]}]
      BY <1>1 DEF BeginAdd
    <3>2. [method |-> m, path |-> t] \in RouteEntry
      BY DEF RouteEntry
    <3> QED
      BY <3>1, <3>2 DEF StateInv, TypeOK
  <2> QED
    BY <1>1, <2>1 DEF BeginAdd, StateInv, TypeOK, IndexesResolve, TablesFresh
<1>2. ASSUME NEW p \in Registrars, AbortAdd(p) PROVE StateInv'
  <2>1. job' \in [Registrars -> SUBSET RouteEntry]
    BY <1>2 DEF AbortAdd, StateInv, TypeOK
  <2> QED
    BY <1>2, <2>1 DEF AbortAdd, StateInv, TypeOK, IndexesResolve, TablesFresh
<1>3. ASSUME NEW p \in Registrars, Freeze(p) PROVE StateInv'
  <2>1. job' \in [Registrars -> SUBSET RouteEntry] /\ frozen' \in BOOLEAN
    BY <1>3 DEF Freeze, StateInv, TypeOK
  <2>2. EnsureCompiled = {} => compiled = EnsureCompiled
    BY DEF EnsureCompiled
  <2> QED
    BY <1>3, <2>1, <2>2, PublishStateInv DEF Freeze
<1>4. ASSUME Reconfigure PROVE StateInv'
  BY <1>4 DEF Reconfigure, StateInv, TypeOK, IndexesResolve, TablesFresh, FrozenState
<1>5. ASSUME NEW r \in Requests,
             HandleRsgiAsync(r) \/ MatchSnapshot(r)
      PROVE  StateInv'
  BY <1>5 DEF HandleRsgiAsync, MatchSnapshot, StateInv, TypeOK, IndexesResolve, TablesFresh
<1>6. ASSUME NEW r \in Requests, HandleRsgiSync(r) \/ MatchCurrent(r)
      PROVE  StateInv'
  <2>1. job' \in [Registrars -> SUBSET RouteEntry] /\ frozen' \in BOOLEAN
    BY <1>6 DEF HandleRsgiSync, MatchCurrent, StateInv, TypeOK
  <2>2. /\ compiled' = EnsureCompiled
        /\ \/ snapshot' = FrozenState(routes, ws_routes, EnsureCompiled)
           \/ snapshot' = snapshot /\ compiled = EnsureCompiled
        /\ UNCHANGED <<routes, ws_routes, router, masks>>
    BY <1>6 DEF HandleRsgiSync, MatchCurrent, PublishCompiled
  <2> QED
    BY <2>1, <2>2, PublishStateInv
<1>7. CASE UNCHANGED vars
  BY <1>7 DEF vars, StateInv, TypeOK, IndexesResolve, TablesFresh
<1> QED
  BY <1>1, <1>2, <1>3, <1>4, <1>5, <1>6, <1>7, CommitAddRouteStateInv,
     CommitAddWebsocketRouteStateInv DEF Next

\* The registry is well-formed in every reachable state.
THEOREM TypeCorrect == Spec => []TypeOK
<1>1. StateInv => TypeOK
  BY DEF StateInv
<1> QED
  BY <1>1, InitStateInv, NextStateInv, PTL DEF Spec

\* Every index a router holds leads to the entry registered under its template and
\* method, in the route list and in the published snapshot, whatever registrations fail.
THEOREM IndexesAlwaysResolve == Spec => []IndexesResolve
<1>1. StateInv => IndexesResolve
  BY DEF StateInv
<1> QED
  BY <1>1, InitStateInv, NextStateInv, PTL DEF Spec

\* Published tables are never stale, whatever threads register, freeze and reconfigure.
THEOREM TablesAlwaysFresh == Spec => []TablesFresh
<1>1. StateInv => TablesFresh
  BY DEF StateInv
<1> QED
  BY <1>1, InitStateInv, NextStateInv, PTL DEF Spec

-----------------------------------------------------------------------------
(* Requests.                                                               *)

\* What a sequence holds.
LEMMA ElementOfSeq ==
    ASSUME NEW S, NEW s \in Seq(S), NEW i \in DOMAIN s
    PROVE  s[i] \in S
  OBVIOUS

\* A router selects at most one template for a path.
LEMMA SelectedUnique ==
    ASSUME NEW rt, DOMAIN rt \subseteq Templates, NEW path,
           NEW t \in Selected(rt, path)
    PROVE  Selected(rt, path) = {t}
<1> SUFFICES ASSUME NEW u \in Selected(rt, path), u # t PROVE FALSE
  OBVIOUS
<1>1. /\ t \in DOMAIN rt /\ u \in DOMAIN rt
      /\ Fits(t, path) /\ Fits(u, path) /\ Preferred(t, u) /\ Preferred(u, t)
  BY DEF Selected
<1>2. PICK i \in DOMAIN t : FirstDiff(t, u, i) /\ t[i].kind = "static"
  BY <1>1 DEF Preferred
<1>3. PICK k \in DOMAIN u : FirstDiff(u, t, k) /\ u[k].kind = "static"
  BY <1>1 DEF Preferred
<1>4. /\ t \in Seq([kind : {"static", "param"}, name : STRING])
      /\ u \in Seq([kind : {"static", "param"}, name : STRING])
  BY <1>1, TemplatesAssumption
<1>5. i \in Nat /\ k \in Nat /\ i \in DOMAIN u /\ k \in DOMAIN t /\ i >= 1 /\ k >= 1
  BY <1>2, <1>3, <1>4 DEF FirstDiff
<1>6. i = k
  <2>1. ~(k < i)
    <3> SUFFICES ASSUME k < i PROVE FALSE
      OBVIOUS
    <3>1. k \in 1 .. (i - 1)
      BY <1>5
    <3> QED
      BY <3>1, <1>2, <1>3 DEF FirstDiff
  <2>2. ~(i < k)
    <3> SUFFICES ASSUME i < k PROVE FALSE
      OBVIOUS
    <3>1. i \in 1 .. (k - 1)
      BY <1>5
    <3> QED
      BY <3>1, <1>2, <1>3 DEF FirstDiff
  <2> QED
    BY <2>1, <2>2, <1>5
<1>7. t[i].name = path[i] /\ u[i].name = path[i] /\ t[i].kind = u[i].kind
  BY <1>1, <1>2, <1>3, <1>5, <1>6 DEF Fits
<1>8. /\ t[i] \in [kind : {"static", "param"}, name : STRING]
      /\ u[i] \in [kind : {"static", "param"}, name : STRING]
  BY <1>4, <1>5, ElementOfSeq, Zenon
<1>9. t[i] = u[i]
  BY <1>7, <1>8
<1> QED
  BY <1>2, <1>9 DEF FirstDiff

\* Every entry of rs is where it was in the longer list all.
Within(rs, all) == \A i \in DOMAIN rs : i \in DOMAIN all /\ all[i] = rs[i]

\* A snapshot is a moment of the past of a state with these lists.
SnapOf(sn, rs, ws) ==
    /\ sn.routes \in Seq(RouteEntry) /\ sn.ws_routes \in Seq(RouteEntry)
    /\ Within(sn.routes, rs) /\ Within(sn.ws_routes, ws)
    /\ \A c \in sn.compiled : Resolves(c.router, sn.routes, sn.ws_routes)

\* What the two properties say of one finished request.
OwnHandler(q) ==
    q.outcome = "dispatch" =>
        \E tables \in q.tables, m \in RouterFor(q.method) :
            /\ Selected(tables.router[m], q.path) =
                  {EntriesFor(q.snap, q.method)[q.index].path}
            /\ m \in RouterFor(EntriesFor(q.snap, q.method)[q.index].method)

SelfContained(q) == q.outcome = "route index" => q.snap.compiled = {}

\* A request between its arrival and its end carries a snapshot of the past; a finished
\* one was given its own handler.
RequestInv(q, rs, ws) ==
    /\ q.stage = "arrived" => SnapOf(q.snap, rs, ws)
    /\ q.stage # "done" => q.outcome = "none"
    /\ OwnHandler(q)
    /\ SelfContained(q)

ReqInv ==
    /\ SnapOf(snapshot, routes, ws_routes)
    /\ DOMAIN req = Requests
    /\ \A r \in Requests : RequestInv(req[r], routes, ws_routes)

\* A matched index stands for a selected template.
LEMMA FoundIndexSelected ==
    ASSUME NEW tables, NEW method, NEW path, MatchRoute(tables, method, path) # {}
    PROVE  \E m \in RouterFor(method) : \E t \in Selected(tables.router[m], path) :
              FoundIndex(tables, method, path) = tables.router[m][t]
<1>1. FoundIndex(tables, method, path) \in MatchRoute(tables, method, path)
  BY DEF FoundIndex
<1> QED
  BY <1>1 DEF MatchRoute

\* Routers that resolve hold templates.
LEMMA ResolvedTemplates ==
    ASSUME NEW rt, NEW rs \in Seq(RouteEntry), NEW ws \in Seq(RouteEntry), Resolves(rt, rs, ws)
    PROVE  \A m \in Tables : DOMAIN rt[m] \subseteq Templates
<1> SUFFICES ASSUME NEW m \in Tables, NEW u \in DOMAIN rt[m] PROVE u \in Templates
  OBVIOUS
<1>1. \A l \in Seq(RouteEntry) : \A x \in DOMAIN l : l[x].path \in Templates
  <2>1. \A l \in Seq(RouteEntry) : \A x \in DOMAIN l : l[x] \in RouteEntry
    BY ElementOfSeq
  <2> QED
    BY <2>1 DEF RouteEntry
<1>2. CASE m = "WS"
  <2>1. rt[m][u] \in DOMAIN ws /\ ws[rt[m][u]].path = u
    BY <1>2 DEF Resolves
  <2> QED
    BY <1>1, <2>1
<1>3. CASE m # "WS"
  <2>1. rt[m][u] \in DOMAIN rs /\ rs[rt[m][u]].path = u
    BY <1>3 DEF Resolves
  <2> QED
    BY <1>1, <2>1
<1> QED
  BY <1>2, <1>3

\* Matching gives a request its own handler, when its snapshot is a moment of the past of
\* the lists the tables were compiled with.
LEMMA AnsweredOwnHandler ==
    ASSUME NEW q, NEW tables, NEW rs \in Seq(RouteEntry), NEW ws \in Seq(RouteEntry),
           SnapOf(q.snap, rs, ws), Resolves(tables.router, rs, ws)
    PROVE  OwnHandler(Answered(q, tables))
<1> DEFINE a     == Answered(q, tables)
           found == MatchRoute(tables, q.method, q.path)
           i     == FoundIndex(tables, q.method, q.path)
           known == EntriesFor(q.snap, q.method)
           all   == IF q.method = "WS" THEN ws ELSE rs
<1>1. /\ a.outcome = Outcome(q.snap, tables, q.method, q.path) /\ a.index = i
      /\ a.tables = {tables} /\ a.method = q.method /\ a.path = q.path /\ a.snap = q.snap
  BY DEF Answered, Request
<1> SUFFICES ASSUME Outcome(q.snap, tables, q.method, q.path) = "dispatch"
             PROVE  \E m \in RouterFor(q.method) :
                       /\ Selected(tables.router[m], q.path) = {known[i].path}
                       /\ m \in RouterFor(known[i].method)
  BY <1>1 DEF OwnHandler
<1>2. found # {} /\ found \subseteq DOMAIN known
  BY DEF Outcome
<1>3a. PICK m \in RouterFor(q.method) : \E t \in Selected(tables.router[m], q.path) :
         i = tables.router[m][t]
  BY <1>2, FoundIndexSelected
<1>3. PICK t \in Selected(tables.router[m], q.path) : i = tables.router[m][t]
  BY <1>3a
<1>4. i \in found
  BY <1>2 DEF FoundIndex
<1>5. m \in Tables /\ (q.method = "WS" => m = "WS") /\ (q.method # "WS" => m # "WS")
  BY <1>3 DEF RouterFor, Tables
<1>6. t \in DOMAIN tables.router[m]
  BY <1>3 DEF Selected
<1>7. i \in DOMAIN all /\ all[i].path = t /\ m \in RouterFor(all[i].method)
  <2>1. CASE q.method = "WS"
    BY <2>1, <1>3, <1>5, <1>6 DEF Resolves
  <2>2. CASE q.method # "WS"
    BY <2>2, <1>3, <1>5, <1>6 DEF Resolves
  <2> QED
    BY <2>1, <2>2
<1>8. known[i] = all[i]
  <2>1. Within(known, all)
    BY DEF SnapOf, EntriesFor
  <2> QED
    BY <1>2, <1>4, <2>1 DEF Within
<1>9. DOMAIN tables.router[m] \subseteq Templates
  BY <1>5, ResolvedTemplates
<1>10. Selected(tables.router[m], q.path) = {t}
  BY <1>3, <1>9, SelectedUnique
<1> QED
  BY <1>3, <1>7, <1>8, <1>10

\* Tables that resolve in a snapshot only find indexes the snapshot knows.
LEMMA ResolvedIsKnown ==
    ASSUME NEW sn, NEW tables, NEW method, NEW path,
           Resolves(tables.router, sn.routes, sn.ws_routes)
    PROVE  MatchRoute(tables, method, path) \subseteq DOMAIN EntriesFor(sn, method)
<1> SUFFICES ASSUME NEW m \in RouterFor(method), NEW t \in Selected(tables.router[m], path)
             PROVE  tables.router[m][t] \in DOMAIN EntriesFor(sn, method)
  BY DEF MatchRoute
<1>1. m \in Tables /\ (method = "WS" => m = "WS") /\ (method # "WS" => m # "WS")
  BY DEF RouterFor, Tables
<1>2. t \in DOMAIN tables.router[m]
  BY DEF Selected
<1> QED
  BY <1>1, <1>2 DEF Resolves, EntriesFor

\* A request matched with the tables of its own snapshot ends without "route index".
LEMMA AnsweredSelfContained ==
    ASSUME NEW q, NEW tables,
           q.snap.compiled = {}
             \/ Resolves(tables.router, q.snap.routes, q.snap.ws_routes)
    PROVE  SelfContained(Answered(q, tables))
<1>1. /\ Answered(q, tables).outcome = Outcome(q.snap, tables, q.method, q.path)
      /\ Answered(q, tables).snap = q.snap
  BY DEF Answered, Request
<1>2. CASE q.snap.compiled = {}
  BY <1>1, <1>2 DEF SelfContained
<1>3. CASE Resolves(tables.router, q.snap.routes, q.snap.ws_routes)
  <2>1. MatchRoute(tables, q.method, q.path) \subseteq DOMAIN EntriesFor(q.snap, q.method)
    BY <1>3, ResolvedIsKnown
  <2>2. Outcome(q.snap, tables, q.method, q.path) # "route index"
    BY <2>1 DEF Outcome
  <2> QED
    BY <1>1, <2>2 DEF SelfContained
<1> QED
  BY <1>2, <1>3

\* A list within another is within every extension of it.
LEMMA SnapOfAppend ==
    ASSUME NEW sn, NEW rs \in Seq(RouteEntry), NEW ws \in Seq(RouteEntry),
           NEW e \in RouteEntry, SnapOf(sn, rs, ws)
    PROVE  SnapOf(sn, Append(rs, e), ws) /\ SnapOf(sn, rs, Append(ws, e))
<1>1. \A i \in DOMAIN rs : i \in DOMAIN Append(rs, e) /\ Append(rs, e)[i] = rs[i]
  OBVIOUS
<1>2. \A i \in DOMAIN ws : i \in DOMAIN Append(ws, e) /\ Append(ws, e)[i] = ws[i]
  OBVIOUS
<1> QED
  BY <1>1, <1>2 DEF SnapOf, Within

\* Requests keep their invariant while the route lists stand still or grow.
LEMMA UntouchedRequests ==
    ASSUME TypeOK, ReqInv, req' = req, SnapOf(snapshot', routes', ws_routes'),
           \A sn : SnapOf(sn, routes, ws_routes) => SnapOf(sn, routes', ws_routes')
    PROVE  ReqInv'
  BY DEF ReqInv, RequestInv

\* One request moves on, the lists stand still.
LEMMA MovedRequest ==
    ASSUME ReqInv, NEW r \in Requests, NEW q, req' = [req EXCEPT ![r] = q],
           RequestInv(q, routes, ws_routes), UNCHANGED <<routes, ws_routes>>,
           SnapOf(snapshot', routes, ws_routes)
    PROVE  ReqInv'
<1>1. DOMAIN req' = Requests
  BY DEF ReqInv
<1>2. \A u \in Requests : req'[u] = IF u = r THEN q ELSE req[u]
  BY DEF ReqInv
<1>3. \A u \in Requests : RequestInv(req'[u], routes', ws_routes')
  BY <1>2 DEF ReqInv
<1> QED
  BY <1>1, <1>3 DEF ReqInv

\* The snapshot published with freshly compiled tables is one of the present.
LEMMA PublishedIsPresent ==
    ASSUME StateInv, ReqInv
    PROVE  /\ \A c \in EnsureCompiled : Resolves(c.router, routes, ws_routes)
           /\ SnapOf(FrozenState(routes, ws_routes, EnsureCompiled), routes, ws_routes)
           /\ SnapOf(FrozenState(routes, ws_routes, compiled), routes, ws_routes)
<1>1. \A c \in EnsureCompiled : c.router = router
  BY DEF StateInv, TablesFresh, EnsureCompiled, SnapshotRouters
<1>2. \A c \in compiled : c.router = router
  BY DEF StateInv, TablesFresh, SnapshotRouters
<1>3. Resolves(router, routes, ws_routes)
  BY DEF StateInv, IndexesResolve
<1> QED
  BY <1>1, <1>2, <1>3 DEF StateInv, TypeOK, SnapOf, Within, FrozenState

\* A registration keeps the invariant of the requests.
LEMMA CommitReqInv ==
    ASSUME StateInv, ReqInv, NEW p \in Registrars,
           CommitAddRoute(p) \/ CommitAddWebsocketRoute(p)
    PROVE  ReqInv'
<1>0. /\ routes \in Seq(RouteEntry) /\ ws_routes \in Seq(RouteEntry) /\ req' = req
      /\ job[p] \subseteq RouteEntry
  BY DEF CommitAddRoute, CommitAddWebsocketRoute, StateInv, TypeOK
<1>1. /\ \A sn : SnapOf(sn, routes, ws_routes) => SnapOf(sn, routes', ws_routes')
      /\ routes' \in Seq(RouteEntry) /\ ws_routes' \in Seq(RouteEntry)
  <2>1. CASE CommitAddRoute(p)
    <3>1. PICK j \in job[p] : /\ routes' = Append(routes, [method |-> j.method, path |-> j.path])
                              /\ ws_routes' = ws_routes
      BY <2>1 DEF CommitAddRoute
    <3>2. [method |-> j.method, path |-> j.path] \in RouteEntry
      BY <1>0, <3>1 DEF RouteEntry
    <3> HIDE DEF RouteEntry
    <3> QED
      BY <1>0, <3>1, <3>2, SnapOfAppend
  <2>2. CASE CommitAddWebsocketRoute(p)
    <3>1. PICK j \in job[p] : /\ ws_routes' = Append(ws_routes, [method |-> j.method, path |-> j.path])
                              /\ routes' = routes
      BY <2>2 DEF CommitAddWebsocketRoute
    <3>2. [method |-> j.method, path |-> j.path] \in RouteEntry
      BY <1>0, <3>1 DEF RouteEntry
    <3> QED
      BY <1>0, <3>1, <3>2, SnapOfAppend
  <2> QED
    BY <2>1, <2>2
<1>2. snapshot' = snapshot \/ snapshot' = FrozenState(routes', ws_routes', {})
  BY DEF CommitAddRoute, CommitAddWebsocketRoute, Invalidate
<1>3. SnapOf(snapshot', routes', ws_routes')
  <2>1. CASE snapshot' = snapshot
    BY <1>1, <2>1 DEF ReqInv
  <2>2. CASE snapshot' = FrozenState(routes', ws_routes', {})
    BY <1>1, <2>2 DEF SnapOf, FrozenState, Within
  <2> QED
    BY <1>2, <2>1, <2>2
<1> QED
  BY <1>0, <1>1, <1>3, UntouchedRequests DEF StateInv

\* A request matched with the tables of ensure_compiled_snapshot or of its own snapshot
\* ends well.
LEMMA AnsweredRequestInv ==
    ASSUME StateInv, ReqInv, NEW q, NEW tables, SnapOf(q.snap, routes, ws_routes),
           \/ tables \in q.snap.compiled
           \/ tables \in EnsureCompiled /\ q.snap.compiled = {}
           \/ tables \in EnsureCompiled /\ q.snap = snapshot
    PROVE  RequestInv(Answered(q, tables), routes, ws_routes)
<1>1. Answered(q, tables).stage = "done"
  BY DEF Answered, Request
<1>2. \/ Resolves(tables.router, q.snap.routes, q.snap.ws_routes)
      \/ q.snap.compiled = {} /\ Resolves(tables.router, routes, ws_routes)
  <2>1. CASE tables \in q.snap.compiled
    BY <2>1 DEF SnapOf
  <2>2. CASE tables \in EnsureCompiled /\ q.snap.compiled = {}
    BY <2>2, PublishedIsPresent
  <2>3. CASE tables \in EnsureCompiled /\ q.snap = snapshot /\ q.snap.compiled # {}
    <3>1. q.snap.compiled = compiled /\ EnsureCompiled = compiled
      BY <2>3 DEF StateInv, TablesFresh, EnsureCompiled
    <3> QED
      BY <2>3, <3>1 DEF SnapOf
  <2> QED
    BY <2>1, <2>2, <2>3
<1>3. Resolves(tables.router, routes, ws_routes)
  <2>1. CASE Resolves(tables.router, q.snap.routes, q.snap.ws_routes)
    BY <2>1 DEF SnapOf, Within, Resolves
  <2> QED
    BY <1>2, <2>1
<1>4. OwnHandler(Answered(q, tables))
  BY <1>3, AnsweredOwnHandler DEF StateInv, TypeOK
<1>5. SelfContained(Answered(q, tables))
  BY <1>2, AnsweredSelfContained
<1> QED
  BY <1>1, <1>4, <1>5 DEF RequestInv

LEMMA ArrivedRequestInv ==
    ASSUME StateInv, ReqInv, NEW m, NEW x
    PROVE  /\ RequestInv(Arrived(m, x), routes, ws_routes)
           /\ Arrived(m, x).snap = snapshot
           /\ SnapOf(Arrived(m, x).snap, routes, ws_routes)
  BY DEF ReqInv, RequestInv, Arrived, Request, OwnHandler, SelfContained

LEMMA PanickedRequestInv ==
    ASSUME NEW q
    PROVE  RequestInv(Panicked(q), routes, ws_routes)
  BY DEF RequestInv, Panicked, Request, OwnHandler, SelfContained

\* Every step keeps the invariant of the requests.
LEMMA NextReqInv == StateInv /\ ReqInv /\ [Next]_vars => ReqInv'
<1> SUFFICES ASSUME StateInv, ReqInv, [Next]_vars PROVE ReqInv'
  OBVIOUS
<1>0. TypeOK /\ SnapOf(snapshot, routes, ws_routes)
  BY DEF StateInv, ReqInv
<1>1. ASSUME NEW p \in Registrars, BeginAdd(p) \/ AbortAdd(p) PROVE ReqInv'
  BY <1>0, <1>1, UntouchedRequests DEF BeginAdd, AbortAdd
<1>2. ASSUME NEW p \in Registrars, Freeze(p) PROVE ReqInv'
  <2>1. SnapOf(snapshot', routes, ws_routes)
    BY <1>0, <1>2, PublishedIsPresent DEF Freeze
  <2> QED
    BY <1>0, <1>2, <2>1, UntouchedRequests DEF Freeze
<1>3. ASSUME Reconfigure PROVE ReqInv'
  <2>1. SnapOf(snapshot', routes, ws_routes)
    BY <1>3, PublishedIsPresent DEF Reconfigure
  <2> QED
    BY <1>0, <1>3, <2>1, UntouchedRequests DEF Reconfigure
<1>4. ASSUME NEW r \in Requests, HandleRsgiAsync(r) PROVE ReqInv'
  <2>1. PICK m, x : req' = [req EXCEPT ![r] = Arrived(m, x)]
    BY <1>4 DEF HandleRsgiAsync
  <2> QED
    BY <1>0, <1>4, <2>1, ArrivedRequestInv, MovedRequest DEF HandleRsgiAsync
<1>5. ASSUME PublishCompiled PROVE SnapOf(snapshot', routes, ws_routes)
  BY <1>0, <1>5, PublishedIsPresent DEF PublishCompiled
<1>6. ASSUME NEW r \in Requests, HandleRsgiSync(r) PROVE ReqInv'
  <2>1. PICK m, x :
           \/ req' = [req EXCEPT ![r] = Panicked(Arrived(m, x))]
           \/ \E tables \in EnsureCompiled :
                 req' = [req EXCEPT ![r] = Answered(Arrived(m, x), tables)]
           \/ req' = [req EXCEPT ![r] = Arrived(m, x)]
    BY <1>6 DEF HandleRsgiSync
  <2>2. SnapOf(snapshot', routes, ws_routes) /\ UNCHANGED <<routes, ws_routes>>
    BY <1>5, <1>6 DEF HandleRsgiSync
  <2>3. CASE req' = [req EXCEPT ![r] = Panicked(Arrived(m, x))]
    BY <2>2, <2>3, PanickedRequestInv, MovedRequest
  <2>4. CASE \E tables \in EnsureCompiled :
                req' = [req EXCEPT ![r] = Answered(Arrived(m, x), tables)]
    <3>1. PICK tables \in EnsureCompiled :
             req' = [req EXCEPT ![r] = Answered(Arrived(m, x), tables)]
      BY <2>4
    <3>2. RequestInv(Answered(Arrived(m, x), tables), routes, ws_routes)
      BY ArrivedRequestInv, AnsweredRequestInv
    <3> QED
      BY <2>2, <3>1, <3>2, MovedRequest
  <2>5. CASE req' = [req EXCEPT ![r] = Arrived(m, x)]
    BY <2>2, <2>5, ArrivedRequestInv, MovedRequest
  <2> QED
    BY <2>1, <2>3, <2>4, <2>5
<1>7. ASSUME NEW r \in Requests, MatchSnapshot(r) PROVE ReqInv'
  <2>1. PICK tables \in req[r].snap.compiled : req' = [req EXCEPT ![r] = Answered(req[r], tables)]
    BY <1>7 DEF MatchSnapshot
  <2>2. SnapOf(req[r].snap, routes, ws_routes)
    BY <1>7 DEF MatchSnapshot, ReqInv, RequestInv
  <2>3. RequestInv(Answered(req[r], tables), routes, ws_routes)
    BY <2>1, <2>2, AnsweredRequestInv
  <2> QED
    BY <1>0, <1>7, <2>1, <2>3, MovedRequest DEF MatchSnapshot
<1>8. ASSUME NEW r \in Requests, MatchCurrent(r) PROVE ReqInv'
  <2>1. SnapOf(req[r].snap, routes, ws_routes) /\ req[r].snap.compiled = {}
    BY <1>8 DEF MatchCurrent, ReqInv, RequestInv
  <2>2. SnapOf(snapshot', routes, ws_routes) /\ UNCHANGED <<routes, ws_routes>>
    BY <1>5, <1>8 DEF MatchCurrent
  <2>3. CASE req' = [req EXCEPT ![r] = Panicked(req[r])]
    BY <2>2, <2>3, PanickedRequestInv, MovedRequest
  <2>4. CASE \E tables \in EnsureCompiled : req' = [req EXCEPT ![r] = Answered(req[r], tables)]
    <3>1. PICK tables \in EnsureCompiled : req' = [req EXCEPT ![r] = Answered(req[r], tables)]
      BY <2>4
    <3>2. RequestInv(Answered(req[r], tables), routes, ws_routes)
      BY <2>1, AnsweredRequestInv
    <3> QED
      BY <2>2, <3>1, <3>2, MovedRequest
  <2> QED
    BY <1>8, <2>3, <2>4 DEF MatchCurrent
<1>9. CASE UNCHANGED vars
  BY <1>0, <1>9, UntouchedRequests DEF vars
<1> QED
  BY <1>1, <1>2, <1>3, <1>4, <1>6, <1>7, <1>8, <1>9, CommitReqInv DEF Next

LEMMA InitReqInv == Init => ReqInv
<1> SUFFICES ASSUME Init PROVE ReqInv
  OBVIOUS
<1>1. SnapOf(snapshot, routes, ws_routes)
  BY DEF Init, SnapOf, FrozenState, Within
<1>2. DOMAIN req = Requests /\ \A r \in Requests : req[r] = NewRequest
  BY DEF Init
<1>3. RequestInv(NewRequest, routes, ws_routes)
  BY DEF RequestInv, NewRequest, Request, OwnHandler, SelfContained
<1> QED
  BY <1>1, <1>2, <1>3 DEF ReqInv

\* A request is always given the handler registered for the best template of its path,
\* although its snapshot and its tables may be of different times.
THEOREM AlwaysOwnHandler == Spec => []DispatchedToOwnHandler
<1>1. StateInv /\ ReqInv => DispatchedToOwnHandler
  BY DEF ReqInv, RequestInv, OwnHandler, DispatchedToOwnHandler
<1> QED
  BY <1>1, InitStateInv, NextStateInv, InitReqInv, NextReqInv, PTL DEF Spec

\* A request whose snapshot carries its tables never ends in the "route index" error.
THEOREM CompleteSnapshotsSuffice == Spec => []CompleteSnapshotIsSelfContained
<1>1. StateInv /\ ReqInv => CompleteSnapshotIsSelfContained
  BY DEF ReqInv, RequestInv, SelfContained, CompleteSnapshotIsSelfContained
<1> QED
  BY <1>1, InitStateInv, NextStateInv, InitReqInv, NextReqInv, PTL DEF Spec

-----------------------------------------------------------------------------
(* The OpenAPI document and the Allow header.                              *)

\* add_route writes the operation before it asks the router, so whatever is routed is
\* documented, in every state and however registrations fail.
LEMMA CommitAddRouteDocumented ==
    ASSUME StateInv, RoutedIsDocumented, NEW p \in Registrars, CommitAddRoute(p)
    PROVE  RoutedIsDocumented'
<1>1. PICK j \in job[p] : CommitAddRoute(p)!(j)
  BY DEF CommitAddRoute
<1>2. DOMAIN router = Tables
  BY DEF StateInv, TypeOK
<1>3. CASE UNCHANGED <<router, openapi>>
  BY <1>3 DEF RoutedIsDocumented
<1>4. CASE /\ openapi' = OpenapiAddPath(openapi, j.method, j.path, NextIndex(routes))
           /\ \/ router' = router
              \/ \E m \in RouterFor(j.method) :
                    router' = [router EXCEPT ![m] = Insert(router[m], j.path, NextIndex(routes))]
  <2>1. /\ DOMAIN openapi' = DOMAIN openapi \cup {<<j.method, j.path>>}
        /\ <<j.method, j.path>>[1] = j.method /\ <<j.method, j.path>>[2] = j.path
    BY <1>4 DEF OpenapiAddPath
  <2>2. ASSUME NEW n \in Tables \ {"WS"}, NEW t \in DOMAIN router'[n]
        PROVE  t \in DOMAIN router[n] \/ (t = j.path /\ n \in RouterFor(j.method))
    <3>1. CASE router' = router
      BY <2>2, <3>1
    <3>2. ASSUME NEW m \in RouterFor(j.method),
                 router' = [router EXCEPT ![m] = Insert(router[m], j.path, NextIndex(routes))]
          PROVE  t \in DOMAIN router[n] \/ (t = j.path /\ n \in RouterFor(j.method))
      <4>1. CASE n = m
        <5>1. router'[n] = Insert(router[m], j.path, NextIndex(routes))
          BY <1>2, <3>2, <4>1
        <5>2. DOMAIN router'[n] = DOMAIN router[m] \cup {j.path}
          BY <5>1 DEF Insert
        <5> QED
          BY <4>1, <5>2
      <4>2. CASE n # m
        <5>1. router'[n] = router[n]
          BY <1>2, <3>2, <4>2
        <5> QED
          BY <5>1
      <4> QED
        BY <4>1, <4>2
    <3> QED
      BY <1>4, <3>1, <3>2
  <2> QED
    BY <2>1, <2>2 DEF RoutedIsDocumented
<1> QED
  BY <1>1, <1>3, <1>4

LEMMA NextDocumented ==
    StateInv /\ RoutedIsDocumented /\ [Next]_vars => RoutedIsDocumented'
<1> SUFFICES ASSUME StateInv, RoutedIsDocumented, [Next]_vars PROVE RoutedIsDocumented'
  OBVIOUS
<1>1. ASSUME NEW p \in Registrars, CommitAddWebsocketRoute(p) PROVE RoutedIsDocumented'
  <2>1. openapi' = openapi /\ \A m \in Tables \ {"WS"} : router'[m] = router[m]
    BY <1>1 DEF CommitAddWebsocketRoute, StateInv, TypeOK
  <2> QED
    BY <2>1 DEF RoutedIsDocumented
<1>2. CASE UNCHANGED <<router, openapi>>
  BY <1>2 DEF RoutedIsDocumented
<1> QED
  BY <1>1, <1>2, CommitAddRouteDocumented
     DEF Next, vars, BeginAdd, AbortAdd, Freeze, Reconfigure, HandleRsgiAsync, HandleRsgiSync,
         MatchSnapshot, MatchCurrent

\* Every route that is served is described by the OpenAPI document.
THEOREM AlwaysDocumented == Spec => []RoutedIsDocumented
<1>1. Init => RoutedIsDocumented
  BY DEF Init, RoutedIsDocumented, EmptyTable
<1> QED
  BY <1>1, InitStateInv, NextStateInv, NextDocumented, PTL DEF Spec

\* The masks say of a template exactly for which methods a router holds it: none too
\* many, and no routed template without an entry.
MasksMatch(rt, ms) ==
    /\ \A t \in DOMAIN ms : \A h \in ms[t] :
          h \in HttpMethods /\ \E m \in RouterFor(h) : t \in DOMAIN rt[m]
    /\ \A t \in DOMAIN ms : ms[t] # {}
    /\ \A m \in Tables \ {"WS"} : DOMAIN rt[m] \subseteq DOMAIN ms

\* What AllowIsHonest says of one request.
Honest(q) ==
    \A tables \in q.tables :
        /\ q.outcome = "405" =>
              /\ \A m \in MethodsMatchingPath(tables, q.path) :
                    m \in HttpMethods /\ MatchRoute(tables, m, q.path) # {}
              /\ q.method \notin MethodsMatchingPath(tables, q.path)
        /\ q.outcome = "404" => ~\E m \in HttpMethods : MatchRoute(tables, m, q.path) # {}

HonestInv ==
    /\ MasksMatch(router, masks)
    /\ DOMAIN req = Requests
    /\ \A r \in Requests :
          /\ \A c \in req[r].snap.compiled : MasksMatch(c.router, c.all_paths)
          /\ Honest(req[r])

\* A method matches when one of its routers selects a template.
LEMMA MatchRouteNonempty ==
    ASSUME NEW tables, NEW method, NEW path
    PROVE  MatchRoute(tables, method, path) # {}
              <=> \E m \in RouterFor(method) : Selected(tables.router[m], path) # {}
<1>1. ASSUME NEW m \in RouterFor(method), NEW t \in Selected(tables.router[m], path)
      PROVE  tables.router[m][t] \in MatchRoute(tables, method, path)
  BY DEF MatchRoute
<1>2. ASSUME NEW i \in MatchRoute(tables, method, path)
      PROVE  \E m \in RouterFor(method) : \E t \in Selected(tables.router[m], path) : TRUE
  BY DEF MatchRoute
<1> QED
  BY <1>1, <1>2

\* The router of a method of the mask of a router is that router.
LEMMA MaskRouter ==
    \A m \in Tables \ {"WS"} :
        /\ m \in MaskOf(m)
        /\ \A h \in MaskOf(m) : h \in HttpMethods /\ m \in RouterFor(h)
  BY DEF Tables, MaskOf, RouterFor, HttpMethods

\* Every method that methods_matching_path names is routed, although the template chosen
\* from the merged router need not be the one the method's own router selects.
LEMMA AllowedAnswers ==
    ASSUME NEW tables, NEW path, MasksMatch(tables.router, tables.all_paths),
           NEW h \in MethodsMatchingPath(tables, path)
    PROVE  h \in HttpMethods /\ MatchRoute(tables, h, path) # {}
<1>1. CASE \E t \in Selected(tables.all_paths, path) : h \in tables.all_paths[t]
  <2>1. PICK t \in Selected(tables.all_paths, path) : h \in tables.all_paths[t]
    BY <1>1
  <2>2. t \in DOMAIN tables.all_paths
    BY DEF Selected
  <2>3. PICK m \in RouterFor(h) : t \in DOMAIN tables.router[m]
    BY <2>1, <2>2 DEF MasksMatch
  <2>4. h \in HttpMethods /\ m \in Tables \ {"WS"}
    <3>1. h \in HttpMethods
      BY <2>1, <2>2 DEF MasksMatch
    <3> QED
      BY <3>1, <2>3 DEF HttpMethods, Tables, RouterFor
  <2>5. DOMAIN tables.router[m] \subseteq DOMAIN tables.all_paths
    BY <2>4 DEF MasksMatch
  <2>6. t \in Selected(tables.router[m], path)
    BY <2>1, <2>3, <2>5 DEF Selected
  <2> QED
    BY <2>3, <2>4, <2>6, MatchRouteNonempty
<1>2. CASE \E m \in Tables \ {"WS"} : HasMatch(tables.router[m], path) /\ h \in MaskOf(m)
  <2>1. PICK m \in Tables \ {"WS"} : HasMatch(tables.router[m], path) /\ h \in MaskOf(m)
    BY <1>2
  <2> QED
    BY <2>1, MaskRouter, MatchRouteNonempty DEF HasMatch
<1> QED
  BY <1>1, <1>2 DEF MethodsMatchingPath

\* When methods_matching_path names no method, none is routed.
LEMMA NoneAllowed ==
    ASSUME NEW tables, NEW path, MethodsMatchingPath(tables, path) = {},
           NEW h \in HttpMethods
    PROVE  MatchRoute(tables, h, path) = {}
<1> SUFFICES ASSUME MatchRoute(tables, h, path) # {} PROVE FALSE
  OBVIOUS
<1>1. PICK m \in RouterFor(h) : HasMatch(tables.router[m], path)
  BY MatchRouteNonempty DEF HasMatch
<1>2. m \in Tables \ {"WS"}
  BY DEF HttpMethods, Tables, RouterFor
<1>3. m \in UNION {MaskOf(n) : n \in {k \in Tables \ {"WS"} : HasMatch(tables.router[k], path)}}
  BY <1>1, <1>2, MaskRouter
<1> QED
  BY <1>3 DEF MethodsMatchingPath

\* So a request answered from tables whose masks match is answered honestly.
LEMMA AnsweredHonest ==
    ASSUME NEW q, NEW tables, MasksMatch(tables.router, tables.all_paths)
    PROVE  Honest(Answered(q, tables))
<1>1. /\ Answered(q, tables).outcome = Outcome(q.snap, tables, q.method, q.path)
      /\ Answered(q, tables).tables = {tables}
      /\ Answered(q, tables).method = q.method /\ Answered(q, tables).path = q.path
  BY DEF Answered, Request
<1>2. ASSUME Outcome(q.snap, tables, q.method, q.path) = "405"
      PROVE  MatchRoute(tables, q.method, q.path) = {}
  BY <1>2 DEF Outcome
<1>3. ASSUME Outcome(q.snap, tables, q.method, q.path) = "404"
      PROVE  MethodsMatchingPath(tables, q.path) = {}
  BY <1>3 DEF Outcome
<1> QED
  BY <1>1, <1>2, <1>3, AllowedAnswers, NoneAllowed DEF Honest

\* add_route keeps routers and masks together.
LEMMA InsertKeepsMasks ==
    ASSUME NEW rt, DOMAIN rt = Tables, NEW ms, MasksMatch(rt, ms), NEW t, NEW method,
           method # "WS", NEW m \in RouterFor(method), NEW value
    PROVE  MasksMatch([rt EXCEPT ![m] = Insert(rt[m], t, value)], InsertMethod(ms, t, method))
<1> DEFINE rt2 == [rt EXCEPT ![m] = Insert(rt[m], t, value)]
           ms2 == InsertMethod(ms, t, method)
<1>1. m \in Tables \ {"WS"}
  BY RouterForTables
<1>2. \A n \in Tables : DOMAIN rt2[n] = DOMAIN rt[n] \cup (IF n = m THEN {t} ELSE {})
  BY <1>1 DEF Insert
<1>3. DOMAIN ms2 = DOMAIN ms \cup {t}
  BY DEF InsertMethod, Insert
<1>4. \A u \in DOMAIN ms2 : \A h \in ms2[u] :
         (u \in DOMAIN ms /\ h \in ms[u]) \/ (u = t /\ h \in MaskOf(method))
  BY DEF InsertMethod, Insert
<1>5. \A h \in MaskOf(method) : h \in HttpMethods /\ m \in RouterFor(h)
  BY DEF MaskOf, RouterFor, HttpMethods, Tables
<1>6. \A u \in DOMAIN ms2 : ms2[u] # {}
  <2>1. MaskOf(method) # {}
    BY <1>1 DEF RouterFor, MaskOf, HttpMethods, Tables
  <2> QED
    BY <2>1 DEF InsertMethod, Insert, MasksMatch
<1> HIDE DEF rt2, ms2
<1>7. ASSUME NEW u \in DOMAIN ms2, NEW h \in ms2[u]
      PROVE  h \in HttpMethods /\ \E n \in RouterFor(h) : u \in DOMAIN rt2[n]
  <2>1. CASE u \in DOMAIN ms /\ h \in ms[u]
    <3>1. PICK n \in RouterFor(h) : u \in DOMAIN rt[n]
      BY <2>1 DEF MasksMatch
    <3>2. h \in HttpMethods /\ n \in Tables
      BY <2>1, RouterForTables DEF MasksMatch
    <3> QED
      BY <1>2, <3>1, <3>2
  <2>2. CASE u = t /\ h \in MaskOf(method)
    BY <1>1, <1>2, <1>5, <2>2
  <2> QED
    BY <1>4, <2>1, <2>2
<1>8. \A n \in Tables \ {"WS"} : DOMAIN rt2[n] \subseteq DOMAIN ms2
  BY <1>2, <1>3 DEF MasksMatch
<1>9. MasksMatch(rt2, ms2)
  BY <1>6, <1>7, <1>8 DEF MasksMatch
<1> QED
  BY <1>9 DEF rt2, ms2

\* Registrations keep routers and masks together; a WebSocket route is in no mask.
LEMMA CommitKeepsMasks ==
    ASSUME StateInv, MasksMatch(router, masks), NEW p \in Registrars,
           CommitAddRoute(p) \/ CommitAddWebsocketRoute(p)
    PROVE  MasksMatch(router, masks)'
<1>1. DOMAIN router = Tables
  BY DEF StateInv, TypeOK
<1>2. CASE UNCHANGED <<router, masks>>
  BY <1>2
<1>3. CASE CommitAddRoute(p) /\ ~UNCHANGED <<router, masks>>
  <2>1. PICK j \in job[p] : /\ j.method # "WS"
                            /\ \E m \in RouterFor(j.method) :
                                  /\ router' = [router EXCEPT ![m] =
                                                   Insert(router[m], j.path, NextIndex(routes))]
                                  /\ masks' = InsertMethod(masks, j.path, j.method)
    BY <1>3 DEF CommitAddRoute
  <2>2. PICK m \in RouterFor(j.method) :
           /\ router' = [router EXCEPT ![m] = Insert(router[m], j.path, NextIndex(routes))]
           /\ masks' = InsertMethod(masks, j.path, j.method)
    BY <2>1
  <2> QED
    BY <1>1, <2>1, <2>2, InsertKeepsMasks
<1>4. CASE CommitAddWebsocketRoute(p) /\ ~UNCHANGED <<router, masks>>
  <2>1. masks' = masks /\ \A m \in Tables \ {"WS"} : router'[m] = router[m]
    BY <1>1, <1>4 DEF CommitAddWebsocketRoute
  <2>2. \A h \in HttpMethods : RouterFor(h) \subseteq Tables \ {"WS"}
    BY DEF HttpMethods, RouterFor, Tables
  <2> QED
    BY <2>1, <2>2 DEF MasksMatch
<1> QED
  BY <1>2, <1>3, <1>4

\* One request moves on.
LEMMA MovedHonest ==
    ASSUME HonestInv, NEW r \in Requests, NEW q, req' = [req EXCEPT ![r] = q],
           MasksMatch(router, masks)', Honest(q),
           \A c \in q.snap.compiled : MasksMatch(c.router, c.all_paths)
    PROVE  HonestInv'
<1>1. \A u \in Requests : req'[u] = IF u = r THEN q ELSE req[u]
  BY DEF HonestInv
<1> QED
  BY <1>1 DEF HonestInv

\* The tables a request may be answered from.
LEMMA PresentTablesMatch ==
    ASSUME StateInv, HonestInv
    PROVE  /\ \A c \in EnsureCompiled : MasksMatch(c.router, c.all_paths)
           /\ \A c \in snapshot.compiled : MasksMatch(c.router, c.all_paths)
  BY DEF HonestInv, StateInv, TablesFresh, EnsureCompiled, SnapshotRouters

LEMMA NextHonestInv == StateInv /\ HonestInv /\ [Next]_vars => HonestInv'
<1> SUFFICES ASSUME StateInv, HonestInv, [Next]_vars PROVE HonestInv'
  OBVIOUS
<1>0. /\ \A m, x : /\ Arrived(m, x).snap = snapshot
                   /\ Honest(Arrived(m, x)) /\ Honest(Panicked(Arrived(m, x)))
                   /\ Panicked(Arrived(m, x)).snap = snapshot
      /\ \A q : Honest(Panicked(q)) /\ Panicked(q).snap = q.snap
      /\ \A q, tables : Answered(q, tables).snap = q.snap
  BY DEF Arrived, Panicked, Answered, Request, Honest
<1>1. CASE UNCHANGED <<router, masks, req>>
  BY <1>1 DEF HonestInv
<1>2. ASSUME NEW p \in Registrars, CommitAddRoute(p) \/ CommitAddWebsocketRoute(p)
      PROVE  HonestInv'
  <2>1. req' = req /\ MasksMatch(router, masks)'
    BY <1>2, CommitKeepsMasks DEF CommitAddRoute, CommitAddWebsocketRoute, HonestInv
  <2> QED
    BY <2>1 DEF HonestInv
<1>3. ASSUME NEW r \in Requests, HandleRsgiAsync(r) PROVE HonestInv'
  <2>1. PICK m, x : req' = [req EXCEPT ![r] = Arrived(m, x)]
    BY <1>3 DEF HandleRsgiAsync
  <2>2. MasksMatch(router, masks)'
    BY <1>3 DEF HandleRsgiAsync, HonestInv
  <2> QED
    BY <1>0, <2>1, <2>2, PresentTablesMatch, MovedHonest
<1>4. ASSUME NEW r \in Requests, HandleRsgiSync(r) PROVE HonestInv'
  <2>1. PICK m, x :
           \/ req' = [req EXCEPT ![r] = Panicked(Arrived(m, x))]
           \/ \E tables \in EnsureCompiled :
                 req' = [req EXCEPT ![r] = Answered(Arrived(m, x), tables)]
           \/ req' = [req EXCEPT ![r] = Arrived(m, x)]
    BY <1>4 DEF HandleRsgiSync
  <2>2. MasksMatch(router, masks)'
    BY <1>4 DEF HandleRsgiSync, HonestInv
  <2>3. CASE req' = [req EXCEPT ![r] = Panicked(Arrived(m, x))]
    BY <1>0, <2>2, <2>3, PresentTablesMatch, MovedHonest
  <2>4. CASE \E tables \in EnsureCompiled :
                req' = [req EXCEPT ![r] = Answered(Arrived(m, x), tables)]
    <3>1. PICK tables \in EnsureCompiled :
             req' = [req EXCEPT ![r] = Answered(Arrived(m, x), tables)]
      BY <2>4
    <3>2. Honest(Answered(Arrived(m, x), tables))
      BY PresentTablesMatch, AnsweredHonest
    <3>3. Answered(Arrived(m, x), tables).snap = snapshot
      BY <1>0
    <3>4. \A c \in Answered(Arrived(m, x), tables).snap.compiled : MasksMatch(c.router, c.all_paths)
      BY <3>3, PresentTablesMatch
    <3> QED
      BY <2>2, <3>1, <3>2, <3>4, MovedHonest
  <2>5. CASE req' = [req EXCEPT ![r] = Arrived(m, x)]
    BY <1>0, <2>2, <2>5, PresentTablesMatch, MovedHonest
  <2> QED
    BY <2>1, <2>3, <2>4, <2>5
<1>5. ASSUME NEW r \in Requests, MatchSnapshot(r) \/ MatchCurrent(r) PROVE HonestInv'
  <2>1. MasksMatch(router, masks)' /\ \A c \in req[r].snap.compiled : MasksMatch(c.router, c.all_paths)
    BY <1>5 DEF MatchSnapshot, MatchCurrent, HonestInv
  <2>2. CASE req' = [req EXCEPT ![r] = Panicked(req[r])]
    BY <1>0, <2>1, <2>2, MovedHonest
  <2>3. CASE \E tables \in req[r].snap.compiled \cup EnsureCompiled :
                req' = [req EXCEPT ![r] = Answered(req[r], tables)]
    <3>1. PICK tables \in req[r].snap.compiled \cup EnsureCompiled :
             req' = [req EXCEPT ![r] = Answered(req[r], tables)]
      BY <2>3
    <3>2. Honest(Answered(req[r], tables))
      BY <2>1, PresentTablesMatch, AnsweredHonest
    <3> QED
      BY <1>0, <2>1, <3>1, <3>2, MovedHonest
  <2> QED
    BY <1>5, <2>2, <2>3 DEF MatchSnapshot, MatchCurrent
<1> QED
  BY <1>1, <1>2, <1>3, <1>4, <1>5
     DEF Next, vars, BeginAdd, AbortAdd, Freeze, Reconfigure

LEMMA InitHonestInv == Init => HonestInv
<1> SUFFICES ASSUME Init PROVE HonestInv
  OBVIOUS
<1>1. MasksMatch(router, masks)
  BY DEF Init, MasksMatch, EmptyTable
<1>2. \A r \in Requests : req[r].snap.compiled = {} /\ req[r].tables = {}
  BY DEF Init, NewRequest, Request, FrozenState
<1>3. DOMAIN req = Requests
  BY DEF Init
<1> QED
  BY <1>1, <1>2, <1>3 DEF HonestInv, Honest

\* 405 lists only methods that are routed and never the one refused, and 404 is given only
\* for a path that no method routes, whatever is registered while the request waits.
THEOREM AllowAlwaysHonest == Spec => []AllowIsHonest
<1>1. HonestInv => AllowIsHonest
  BY DEF HonestInv, Honest, AllowIsHonest
<1> QED
  BY <1>1, InitHonestInv, InitStateInv, NextStateInv, NextHonestInv, PTL DEF Spec

-----------------------------------------------------------------------------
(* Refinement: the registry implements Routing.                            *)

\* Both specifications match paths with the operators of Matchit.
LEMMA SameMatching ==
    /\ \A t, u : Abstract!Conflicts(t, u) <=> Conflicts(t, u)
    /\ \A table, path : Abstract!Selected(table, path) = Selected(table, path)
    /\ \A table, t : Abstract!CanInsert(table, t) <=> CanInsert(table, t)
    /\ \A table, t, value : Abstract!Insert(table, t, value) = Insert(table, t, value)
<1>1. /\ \A t, u, i : Abstract!FirstDiff(t, u, i) <=> FirstDiff(t, u, i)
      /\ \A t, path : Abstract!Fits(t, path) <=> Fits(t, path)
  BY DEF Abstract!FirstDiff, FirstDiff, Abstract!Fits, Fits
<1>2. /\ \A t, u : Abstract!Preferred(t, u) <=> Preferred(t, u)
      /\ \A t, u : Abstract!Conflicts(t, u) <=> Conflicts(t, u)
  BY <1>1 DEF Abstract!Conflicts, Conflicts, Abstract!Preferred, Preferred
<1>3. \A table, path : Abstract!Selected(table, path) = Selected(table, path)
  BY <1>1, <1>2 DEF Abstract!Selected, Selected
<1>4. \A table, t : Abstract!CanInsert(table, t) <=> CanInsert(table, t)
  BY <1>2 DEF Abstract!CanInsert, CanInsert
<1>5. \A table, t, value : Abstract!Insert(table, t, value) = Insert(table, t, value)
  BY DEF Abstract!Insert, Insert
<1> QED
  BY <1>2, <1>3, <1>4, <1>5

\* What routers serve stays what it is while the lists grow.
LEMMA ServedWithin ==
    ASSUME NEW rt, NEW rs, NEW ws, NEW rs2, NEW ws2,
           Resolves(rt, rs, ws), Within(rs, rs2), Within(ws, ws2)
    PROVE  ServedBy(rt, rs2, ws2) = ServedBy(rt, rs, ws)
<1>1. \A m \in Tables : \A t \in DOMAIN rt[m] :
         (IF m = "WS" THEN ws2[rt[m][t]] ELSE rs2[rt[m][t]])
            = (IF m = "WS" THEN ws[rt[m][t]] ELSE rs[rt[m][t]])
  BY DEF Resolves, Within
<1> QED
  BY <1>1 DEF ServedBy

\* The list the indexes of a method lead into.
ListFor(rs, ws, method) == IF method = "WS" THEN ws ELSE rs

\* What compiled tables serve, with the lists given.
Offered(tables, rs, ws) == ServedBy(tables.router, rs, ws)

\* The handlers of a served table are the entries the matched indexes lead to.
LEMMA HandlersFound ==
    ASSUME NEW tables, NEW rs, NEW ws, NEW method, NEW path
    PROVE  /\ Abstract!Handlers(Offered(tables, rs, ws), method, path) = {}
                 <=> MatchRoute(tables, method, path) = {}
           /\ \A i : MatchRoute(tables, method, path) = {i} =>
                 Abstract!Handlers(Offered(tables, rs, ws), method, path)
                    = {ListFor(rs, ws, method)[i]}
<1> DEFINE table == Offered(tables, rs, ws)
           all   == ListFor(rs, ws, method)
<1>1. \A m \in RouterFor(method) : m \in Tables /\ (m = "WS" <=> method = "WS")
  BY DEF RouterFor, Tables
<1>2. ASSUME NEW m \in RouterFor(method)
      PROVE  /\ Selected(table[m], path) = Selected(tables.router[m], path)
             /\ \A t \in Selected(tables.router[m], path) :
                   table[m][t] = all[tables.router[m][t]]
  <2>1. table[m] = [t \in DOMAIN tables.router[m] |->
                       IF m = "WS" THEN ws[tables.router[m][t]] ELSE rs[tables.router[m][t]]]
    BY <1>1 DEF Offered, ServedBy
  <2>2. DOMAIN table[m] = DOMAIN tables.router[m]
    BY <2>1
  <2>3. \A t \in DOMAIN tables.router[m] : table[m][t] = all[tables.router[m][t]]
    BY <1>1, <2>1 DEF ListFor
  <2> HIDE DEF table, all
  <2>4. Selected(table[m], path) = Selected(tables.router[m], path)
    BY <2>2 DEF Selected
  <2> QED
    BY <2>3, <2>4 DEF Selected
<1> HIDE DEF table, all
<1>3. Abstract!Handlers(table, method, path)
         = UNION {{table[m][t] : t \in Selected(table[m], path)} : m \in RouterFor(method)}
  BY SameMatching DEF Abstract!Handlers
<1>4. ASSUME NEW e \in Abstract!Handlers(table, method, path)
      PROVE  e \in {all[i] : i \in MatchRoute(tables, method, path)}
  <2>1. PICK m \in RouterFor(method) : e \in {table[m][t] : t \in Selected(table[m], path)}
    BY <1>3
  <2>2. PICK t \in Selected(tables.router[m], path) : e = all[tables.router[m][t]]
    BY <1>2, <2>1
  <2>3. tables.router[m][t] \in MatchRoute(tables, method, path)
    BY DEF MatchRoute
  <2> QED
    BY <2>2, <2>3
<1>5. ASSUME NEW i \in MatchRoute(tables, method, path)
      PROVE  all[i] \in Abstract!Handlers(table, method, path)
  <2>1. PICK m \in RouterFor(method) : \E t \in Selected(tables.router[m], path) :
           i = tables.router[m][t]
    BY DEF MatchRoute
  <2>2. PICK t \in Selected(tables.router[m], path) : i = tables.router[m][t]
    BY <2>1
  <2>3. all[i] = table[m][t] /\ t \in Selected(table[m], path)
    BY <1>2, <2>2
  <2> QED
    BY <1>3, <2>3
<1>6. Abstract!Handlers(table, method, path)
         = {all[i] : i \in MatchRoute(tables, method, path)}
  BY <1>4, <1>5
<1> QED
  <2>1. Abstract!Handlers(table, method, path) = {} <=> MatchRoute(tables, method, path) = {}
    BY <1>6
  <2>2. \A i : MatchRoute(tables, method, path) = {i} =>
           Abstract!Handlers(table, method, path) = {all[i]}
    BY <1>6
  <2> QED
    BY <2>1, <2>2 DEF table, all

\* Matching finds at most one index.
LEMMA MatchUnique ==
    ASSUME NEW tables, \A m \in Tables : DOMAIN tables.router[m] \subseteq Templates,
           NEW method, NEW path, NEW i \in MatchRoute(tables, method, path)
    PROVE  MatchRoute(tables, method, path) = {i}
<1>1. \A m, n \in RouterFor(method) : m = n /\ m \in Tables
  BY DEF RouterFor, Tables
<1>2. PICK m \in RouterFor(method) : \E t \in Selected(tables.router[m], path) :
         i = tables.router[m][t]
  BY DEF MatchRoute
<1>3. PICK t \in Selected(tables.router[m], path) : i = tables.router[m][t]
  BY <1>2
<1>4. Selected(tables.router[m], path) = {t}
  BY <1>1, <1>3, SelectedUnique
<1>5. ASSUME NEW k \in MatchRoute(tables, method, path) PROVE k = i
  BY <1>1, <1>3, <1>4 DEF MatchRoute
<1> QED
  BY <1>5

\* A request whose snapshot does not know the index that was found is lost.
LEMMA LostView ==
    ASSUME NEW q, NEW tables, Outcome(q.snap, tables, q.method, q.path) = "route index"
    PROVE  ViewOf(Answered(q, tables)) = Abstract!Failed(ViewOf(q), "route index")
BY DEF ViewOf, Answered, Request, Abstract!Failed, Abstract!View

\* Any other answered from resolved tables is told what the served table tells.
LEMMA AnsweredView ==
    ASSUME NEW q, NEW tables, NEW rs \in Seq(RouteEntry), NEW ws \in Seq(RouteEntry),
           SnapOf(q.snap, rs, ws), Resolves(tables.router, rs, ws),
           MasksMatch(tables.router, tables.all_paths),
           Outcome(q.snap, tables, q.method, q.path) # "route index"
    PROVE  ViewOf(Answered(q, tables)) = Abstract!Answered(ViewOf(q), Offered(tables, rs, ws))
<1> DEFINE a     == Answered(q, tables)
           table == Offered(tables, rs, ws)
           found == MatchRoute(tables, q.method, q.path)
           known == EntriesFor(q.snap, q.method)
           all   == ListFor(rs, ws, q.method)
           told  == Outcome(q.snap, tables, q.method, q.path)
           i     == FoundIndex(tables, q.method, q.path)
           called == IF told = "dispatch" THEN {known[i]} ELSE {}
           kept  == {ServedBy(c.router, q.snap.routes, q.snap.ws_routes) : c \in q.snap.compiled}
<1>1. ViewOf(a) = [stage |-> "done", method |-> q.method, path |-> q.path, kept |-> kept,
                   result |-> told, handler |-> called]
  BY DEF ViewOf, Answered, Request
<1>2. /\ ViewOf(q).method = q.method /\ ViewOf(q).path = q.path /\ ViewOf(q).kept = kept
  BY DEF ViewOf
<1>3. \A k : found = {k} => Abstract!Handlers(table, q.method, q.path) = {all[k]}
  BY HandlersFound
<1>4. Abstract!Handlers(table, q.method, q.path) = {} <=> found = {}
  BY HandlersFound
<1>5. found # {} => told = "dispatch"
  BY DEF Outcome
<1>6. found = {} =>
        told = IF RouterFor(q.method) = {} THEN "unsupported"
               ELSE IF q.method = "WS" THEN "closed"
               ELSE IF MethodsMatchingPath(tables, q.path) = {} THEN "404" ELSE "405"
  <2>1. q.method = "WS" => RouterFor(q.method) # {}
    BY DEF RouterFor, Tables
  <2> QED
    BY <2>1 DEF Outcome
<1>7. called = Abstract!Handlers(table, q.method, q.path)
  <2>1. CASE found = {}
    BY <1>4, <1>6, <2>1
  <2>2. CASE found # {}
    <3>1. i \in found /\ found \subseteq DOMAIN known
      BY <1>5, <2>2 DEF FoundIndex, Outcome
    <3>2. found = {i}
      BY <3>1, MatchUnique, ResolvedTemplates
    <3>3. known[i] = all[i]
      BY <3>1 DEF SnapOf, EntriesFor, ListFor, Within
    <3> HIDE DEF called, found, all, known, i, table
    <3>4. called = {known[i]}
      BY <1>5, <2>2 DEF called
    <3> QED
      BY <1>3, <3>2, <3>3, <3>4
  <2> QED
    BY <2>1, <2>2
<1>8. Abstract!Routed(table, q.path) <=> MethodsMatchingPath(tables, q.path) # {}
  <2>1. \A h : Abstract!Handlers(table, h, q.path) = {} <=> MatchRoute(tables, h, q.path) = {}
    BY HandlersFound
  <2> HIDE DEF table
  <2> QED
    BY <2>1, AllowedAnswers, NoneAllowed DEF Abstract!Routed
<1>9. Abstract!Result(table, q.method, q.path) = told
  <2>1. found # {} => RouterFor(q.method) # {}
    BY DEF MatchRoute
  <2> HIDE DEF found, told, table
  <2> QED
    BY <1>4, <1>5, <1>6, <1>8, <2>1 DEF Abstract!Result
<1>10. Abstract!Answered(ViewOf(q), table)
         = [stage |-> "done", method |-> q.method, path |-> q.path, kept |-> kept,
            result |-> told, handler |-> called]
  <2> HIDE DEF table, kept, told, called
  <2> QED
    BY <1>2, <1>7, <1>9 DEF Abstract!Answered, Abstract!View
<1> HIDE DEF kept, told, called, table
<1> QED
  BY <1>1, <1>10 DEF table

\* The tables of a snapshot, of its own lists or of the lists now, serve the same.
LEMMA KeptIsServed ==
    ASSUME StateInv, ReqInv
    PROVE  /\ \A c \in snapshot.compiled :
                 ServedBy(c.router, snapshot.routes, snapshot.ws_routes)
                    = ServedBy(router, routes, ws_routes)
           /\ \A c \in EnsureCompiled : c.router = router
           /\ ServedBy(router, snapshot.routes, snapshot.ws_routes)
                 = ServedBy(router, routes, ws_routes)
<1>1. /\ \A c \in snapshot.compiled : c.router = router
      /\ \A c \in EnsureCompiled : c.router = router
  BY DEF StateInv, TablesFresh, EnsureCompiled, SnapshotRouters
<1>2. ServedBy(router, routes, ws_routes)
         = ServedBy(router, snapshot.routes, snapshot.ws_routes)
  BY ServedWithin DEF StateInv, IndexesResolve, ReqInv, SnapOf
<1> QED
  BY <1>1, <1>2

\* Compiling panics only on routes of two methods that one router would refuse.
LEMMA PanicIsAmbiguous ==
    ASSUME MasksMatch(router, masks), EnsureCompiled = {}
    PROVE  Abstract!Ambiguous
<1> DEFINE table == ServedBy(router, routes, ws_routes)
<1>1. PICK t, u \in DOMAIN masks : t # u /\ Conflicts(t, u)
  BY DEF EnsureCompiled, AllPathsInsertable
<1>2. \A x \in DOMAIN masks : \E m \in Tables \ {"WS"} : x \in DOMAIN router[m]
  <2> TAKE x \in DOMAIN masks
  <2>1. PICK h \in masks[x] : h \in HttpMethods /\ \E m \in RouterFor(h) : x \in DOMAIN router[m]
    BY DEF MasksMatch
  <2>2. RouterFor(h) \subseteq Tables \ {"WS"}
    BY <2>1, RouterForTables DEF HttpMethods, Tables
  <2> QED
    BY <2>1, <2>2
<1>3. \A m \in Tables : DOMAIN table[m] = DOMAIN router[m]
  BY DEF ServedBy
<1> HIDE DEF table
<1>4. \E m, n \in Tables \ {"WS"} : \E x \in DOMAIN table[m], y \in DOMAIN table[n] :
         x # y /\ Abstract!Conflicts(x, y)
  BY <1>1, <1>2, <1>3, SameMatching
<1> QED
  BY <1>4 DEF Abstract!Ambiguous, table

\* A router that stands still serves what it served.
LEMMA ServedStays ==
    ASSUME NEW rt, NEW rs, NEW ws, Resolves(rt, rs, ws),
           NEW rs2, NEW ws2, Within(rs, rs2), Within(ws, ws2),
           NEW rt2, NEW n \in Tables, rt2[n] = rt[n]
    PROVE  ServedBy(rt2, rs2, ws2)[n] = ServedBy(rt, rs, ws)[n]
<1>1. \A x \in DOMAIN rt[n] :
         (IF n = "WS" THEN ws2[rt[n][x]] ELSE rs2[rt[n][x]])
            = (IF n = "WS" THEN ws[rt[n][x]] ELSE rs[rt[n][x]])
  BY DEF Resolves, Within
<1> QED
  BY <1>1 DEF ServedBy

\* An index inserted in a router inserts the entry it leads to in what is served.
LEMMA ServedInsert ==
    ASSUME NEW rt, NEW rs, NEW ws, Resolves(rt, rs, ws),
           NEW rs2, NEW ws2, Within(rs, rs2), Within(ws, ws2),
           NEW m \in Tables, NEW t, NEW i, NEW rt2, rt2[m] = Insert(rt[m], t, i)
    PROVE  ServedBy(rt2, rs2, ws2)[m] = Insert(ServedBy(rt, rs, ws)[m], t, ListFor(rs2, ws2, m)[i])
<1> DEFINE old   == ServedBy(rt, rs2, ws2)
           new   == ServedBy(rt2, rs2, ws2)
           Row(f) == [x \in DOMAIN f |-> IF m = "WS" THEN ws2[f[x]] ELSE rs2[f[x]]]
<1>1. old[m] = Row(rt[m]) /\ new[m] = Row(Insert(rt[m], t, i))
  BY DEF ServedBy
<1>2. old[m] = ServedBy(rt, rs, ws)[m]
  BY ServedStays
<1> HIDE DEF new, old
<1>3. Row(Insert(rt[m], t, i)) = Insert(Row(rt[m]), t, ListFor(rs2, ws2, m)[i])
  BY DEF Insert, ListFor
<1> QED
  BY <1>1, <1>2, <1>3 DEF new

\* A registration inserts one entry in one served table, or nothing.
LEMMA CommitRegisters ==
    ASSUME StateInv, DOMAIN req = Requests, NEW p \in Registrars,
           CommitAddRoute(p) \/ CommitAddWebsocketRoute(p)
    PROVE  Abstract!Next \/ UNCHANGED Abstract!vars
<1> DEFINE now  == ServedBy(router, routes, ws_routes)
           then == ServedBy(router', routes', ws_routes')
<1>1. PICK j \in job[p] : \/ CommitAddRoute(p)!(j)
                          \/ CommitAddWebsocketRoute(p)!(j)
  BY DEF CommitAddRoute, CommitAddWebsocketRoute
<1> DEFINE e == [method |-> j.method, path |-> j.path]
<1>2. /\ j \in RouteEntry /\ e \in RouteEntry /\ e.method = j.method /\ e.path = j.path
      /\ routes \in Seq(RouteEntry) /\ ws_routes \in Seq(RouteEntry)
      /\ DOMAIN router = Tables /\ Resolves(router, routes, ws_routes)
  BY DEF StateInv, TypeOK, IndexesResolve, RouteEntry
<1>3. req' = req
  BY <1>1
<1>4. /\ routes' = routes \/ routes' = Append(routes, e)
      /\ ws_routes' = ws_routes \/ ws_routes' = Append(ws_routes, e)
  BY <1>1
<1>5. Within(routes, routes') /\ Within(ws_routes, ws_routes')
  <2>1. \A l \in Seq(RouteEntry) : \A x \in RouteEntry : Within(l, l) /\ Within(l, Append(l, x))
    BY DEF Within
  <2> HIDE DEF e
  <2> QED
    BY <1>2, <1>4, <2>1
<1>6. CASE router' = router
  <2>1. then = now
    BY <1>2, <1>5, <1>6, ServedWithin
  <2> QED
    BY <1>3, <2>1 DEF Abstract!vars
<1>7. CASE \E m \in RouterFor(e.method) : \E i :
              /\ CanInsert(router[m], e.path)
              /\ router' = [router EXCEPT ![m] = Insert(router[m], e.path, i)]
              /\ e = IF m = "WS" THEN ws_routes'[i] ELSE routes'[i]
  <2>1. PICK m \in RouterFor(e.method) : \E i :
              /\ CanInsert(router[m], e.path)
              /\ router' = [router EXCEPT ![m] = Insert(router[m], e.path, i)]
              /\ e = IF m = "WS" THEN ws_routes'[i] ELSE routes'[i]
    BY <1>7
  <2>1a. PICK i :
              /\ CanInsert(router[m], e.path)
              /\ router' = [router EXCEPT ![m] = Insert(router[m], e.path, i)]
              /\ e = IF m = "WS" THEN ws_routes'[i] ELSE routes'[i]
    BY <2>1
  <2>2. m \in Tables
    BY RouterForTables
  <2> HIDE DEF e
  <2>3. then = [now EXCEPT ![m] = Insert(now[m], e.path, e)]
    <3>1. router'[m] = Insert(router[m], e.path, i) /\ \A n \in Tables \ {m} : router'[n] = router[n]
      BY <1>2, <2>1a, <2>2
    <3>2. then[m] = Insert(now[m], e.path, ListFor(routes', ws_routes', m)[i])
      BY <1>2, <1>5, <2>2, <3>1, ServedInsert
    <3>3. e = ListFor(routes', ws_routes', m)[i]
      BY <2>1a DEF ListFor
    <3>4. ASSUME NEW n \in Tables, n # m PROVE then[n] = now[n]
      BY <1>2, <1>5, <3>1, <3>4, ServedStays
    <3>5. then = [n \in Tables |-> then[n]] /\ now = [n \in Tables |-> now[n]]
      BY DEF ServedBy
    <3> HIDE DEF then, now
    <3> QED
      BY <3>2, <3>3, <3>4, <3>5
  <2>4. DOMAIN now[m] = DOMAIN router[m]
    BY <2>2 DEF ServedBy
  <2> HIDE DEF now, then
  <2>5. Abstract!CanInsert(now[m], e.path)
    BY <2>1a, <2>4, SameMatching DEF CanInsert
  <2>6. then = [now EXCEPT ![m] = Abstract!Insert(now[m], e.path, e)]
    BY <2>3, SameMatching
  <2>7. Abstract!Register(m, e)
    BY <1>3, <2>1a, <2>5, <2>6 DEF Abstract!Register, now, then
  <2>8. e \in Abstract!Entry
    BY <1>2 DEF Abstract!Entry, RouteEntry
  <2> QED
    BY <2>2, <2>7, <2>8 DEF Abstract!Next
<1>8. router' = router
      \/ \E m \in RouterFor(e.method) : \E i :
              /\ CanInsert(router[m], e.path)
              /\ router' = [router EXCEPT ![m] = Insert(router[m], e.path, i)]
              /\ e = IF m = "WS" THEN ws_routes'[i] ELSE routes'[i]
  <2>1. CASE CommitAddRoute(p)!(j) /\ router' # router
    <3>1. PICK m \in RouterFor(j.method) :
             /\ CanInsert(router[m], j.path)
             /\ router' = [router EXCEPT ![m] = Insert(router[m], j.path, NextIndex(routes))]
      BY <2>1
    <3>2. m # "WS" /\ routes' = Append(routes, e)
      BY <2>1, RouterForTables
    <3> HIDE DEF e
    <3>3. routes'[NextIndex(routes)] = e
      BY <1>2, <3>2 DEF NextIndex
    <3> QED
      BY <1>2, <3>1, <3>2, <3>3
  <2>2. CASE CommitAddWebsocketRoute(p)!(j) /\ router' # router
    <3>1. /\ CanInsert(router["WS"], j.path) /\ j.method = "WS"
          /\ router' = [router EXCEPT !["WS"] =
                           Insert(router["WS"], j.path, NextIndex(ws_routes))]
          /\ ws_routes' = Append(ws_routes, e)
      BY <2>2
    <3>2. "WS" \in RouterFor(j.method)
      BY <3>1 DEF RouterFor, Tables
    <3> HIDE DEF e
    <3>3. ws_routes'[NextIndex(ws_routes)] = e
      BY <1>2, <3>1 DEF NextIndex
    <3> QED
      BY <1>2, <3>1, <3>2, <3>3
  <2> QED
    BY <1>1, <2>1, <2>2
<1> QED
  BY <1>6, <1>7, <1>8

\* One request moves on in both specifications.
LEMMA MovedView ==
    ASSUME DOMAIN req = Requests, NEW r \in Requests, NEW q, req' = [req EXCEPT ![r] = q]
    PROVE  [u \in Requests |-> ViewOf(req[u])]'
              = [[u \in Requests |-> ViewOf(req[u])] EXCEPT ![r] = ViewOf(q)]
<1>1. \A u \in Requests : req'[u] = IF u = r THEN q ELSE req[u]
  OBVIOUS
<1>2. \A u \in Requests : ViewOf(req[u])' = ViewOf(req'[u])
  BY DEF ViewOf
<1>3. \A u \in Requests : ViewOf(req[u])' = IF u = r THEN ViewOf(q) ELSE ViewOf(req[u])
  BY <1>1, <1>2
<1> QED
  BY <1>3

\* A request arrives with the table served now, or with none.
LEMMA ArrivedView ==
    ASSUME StateInv, ReqInv, NEW m, NEW x
    PROVE  \E kept \in {{}, {ServedBy(router, routes, ws_routes)}} :
              ViewOf(Arrived(m, x)) = Abstract!Arrived(m, x, kept)
<1> DEFINE kept == {ServedBy(c.router, snapshot.routes, snapshot.ws_routes) :
                       c \in snapshot.compiled}
<1>1. ViewOf(Arrived(m, x)) = Abstract!Arrived(m, x, kept)
  BY DEF ViewOf, Arrived, Request, Abstract!Arrived, Abstract!View
<1>2. kept = {} \/ kept = {ServedBy(router, routes, ws_routes)}
  BY KeptIsServed
<1> QED
  BY <1>1, <1>2

\* A request that is answered on arrival is answered from the table served now.
LEMMA AnsweredAtOnceView ==
    ASSUME StateInv, ReqInv, HonestInv, NEW m, NEW x, NEW tables \in EnsureCompiled
    PROVE  ViewOf(Answered(Arrived(m, x), tables))
              = Abstract!Answered(ViewOf(Arrived(m, x)), ServedBy(router, routes, ws_routes))
<1> DEFINE q == Arrived(m, x)
<1>1. q.snap = snapshot
  BY DEF Arrived, Request
<1>2. tables.router = router
  BY KeptIsServed
<1>3. Resolves(tables.router, snapshot.routes, snapshot.ws_routes)
  BY <1>2 DEF StateInv, IndexesResolve
<1>4. SnapOf(q.snap, snapshot.routes, snapshot.ws_routes)
  BY <1>1 DEF ReqInv, SnapOf, Within
<1>5. MasksMatch(tables.router, tables.all_paths)
  BY PresentTablesMatch
<1>6. snapshot.routes \in Seq(RouteEntry) /\ snapshot.ws_routes \in Seq(RouteEntry)
  BY DEF StateInv, TypeOK
<1> HIDE DEF q
<1>7. Outcome(q.snap, tables, q.method, q.path) # "route index"
  BY <1>1, <1>3, ResolvedIsKnown DEF Outcome
<1>8. ViewOf(Answered(q, tables))
         = Abstract!Answered(ViewOf(q), Offered(tables, snapshot.routes, snapshot.ws_routes))
  BY <1>3, <1>4, <1>5, <1>6, <1>7, AnsweredView
<1>9. Offered(tables, snapshot.routes, snapshot.ws_routes) = ServedBy(router, routes, ws_routes)
  BY <1>2, KeptIsServed DEF Offered
<1> QED
  BY <1>8, <1>9 DEF q

LEMMA PanickedView == \A q : ViewOf(Panicked(q)) = Abstract!Failed(ViewOf(q), "panic")
BY DEF ViewOf, Panicked, Request, Abstract!Failed, Abstract!View

\* Requests answered later.
LEMMA MatchSnapshotRefines ==
    ASSUME StateInv, ReqInv, HonestInv, NEW r \in Requests, MatchSnapshot(r)
    PROVE  Abstract!Next
<1> DEFINE q     == req[r]
           table(c) == ServedBy(c.router, q.snap.routes, q.snap.ws_routes)
<1>1. PICK tables \in q.snap.compiled : req' = [req EXCEPT ![r] = Answered(q, tables)]
  BY DEF MatchSnapshot
<1>2. q.stage = "arrived" /\ DOMAIN req = Requests /\ SnapOf(q.snap, routes, ws_routes)
  BY DEF MatchSnapshot, ReqInv, RequestInv
<1>3. /\ SnapOf(q.snap, q.snap.routes, q.snap.ws_routes)
      /\ Resolves(tables.router, q.snap.routes, q.snap.ws_routes)
      /\ q.snap.routes \in Seq(RouteEntry) /\ q.snap.ws_routes \in Seq(RouteEntry)
  BY <1>1, <1>2 DEF SnapOf, Within
<1>4. MasksMatch(tables.router, tables.all_paths)
  BY <1>1 DEF HonestInv
<1>5. ViewOf(q).stage = "arrived" /\ table(tables) \in ViewOf(q).kept
  BY <1>1, <1>2 DEF ViewOf
<1>6. Offered(tables, q.snap.routes, q.snap.ws_routes) = table(tables)
  BY DEF Offered
<1>7. ServedBy(router, routes, ws_routes)' = ServedBy(router, routes, ws_routes)
  BY DEF MatchSnapshot, ServedBy
<1> HIDE DEF q
<1>8. Outcome(q.snap, tables, q.method, q.path) # "route index"
  BY <1>3, ResolvedIsKnown DEF Outcome
<1>9. ViewOf(Answered(q, tables))
         = Abstract!Answered(ViewOf(q), Offered(tables, q.snap.routes, q.snap.ws_routes))
  BY <1>3, <1>4, <1>8, AnsweredView
<1>10. [u \in Requests |-> ViewOf(req[u])]'
          = [[u \in Requests |-> ViewOf(req[u])] EXCEPT ![r] = ViewOf(Answered(q, tables))]
  BY <1>1, <1>2, MovedView
<1> HIDE DEF table
<1>11. Abstract!Answer(r)
  BY <1>5, <1>6, <1>7, <1>9, <1>10 DEF Abstract!Answer, q
<1> QED
  BY <1>11 DEF Abstract!Next

LEMMA MatchCurrentRefines ==
    ASSUME StateInv, ReqInv, HonestInv, NEW r \in Requests, MatchCurrent(r)
    PROVE  Abstract!Next
<1> DEFINE q   == req[r]
           now == ServedBy(router, routes, ws_routes)
<1>1. \/ EnsureCompiled = {} /\ req' = [req EXCEPT ![r] = Panicked(q)]
      \/ \E tables \in EnsureCompiled : req' = [req EXCEPT ![r] = Answered(q, tables)]
  BY DEF MatchCurrent
<1>2. /\ q.stage = "arrived" /\ q.snap.compiled = {}
      /\ DOMAIN req = Requests /\ SnapOf(q.snap, routes, ws_routes)
  BY DEF MatchCurrent, ReqInv, RequestInv
<1>3. ViewOf(q).stage = "arrived" /\ ViewOf(q).kept = {}
  BY <1>2 DEF ViewOf
<1>4. now' = now
  BY DEF MatchCurrent, ServedBy
<1> HIDE DEF q, now
<1>5. CASE EnsureCompiled = {} /\ req' = [req EXCEPT ![r] = Panicked(q)]
  <2>1. [u \in Requests |-> ViewOf(req[u])]'
           = [[u \in Requests |-> ViewOf(req[u])] EXCEPT ![r] = ViewOf(Panicked(q))]
    BY <1>2, <1>5, MovedView
  <2>2. Abstract!Ambiguous
    BY <1>5, PanicIsAmbiguous DEF HonestInv
  <2>3. Abstract!Fail(r)
    BY <1>3, <1>4, <2>1, <2>2, PanickedView DEF Abstract!Fail, q, now
  <2> QED
    BY <2>3 DEF Abstract!Next
<1>6. ASSUME NEW tables \in EnsureCompiled, req' = [req EXCEPT ![r] = Answered(q, tables)]
      PROVE  Abstract!Next
  <2>1. [u \in Requests |-> ViewOf(req[u])]'
           = [[u \in Requests |-> ViewOf(req[u])] EXCEPT ![r] = ViewOf(Answered(q, tables))]
    BY <1>2, <1>6, MovedView
  <2>2. Resolves(tables.router, routes, ws_routes) /\ MasksMatch(tables.router, tables.all_paths)
    BY <1>6, PublishedIsPresent, PresentTablesMatch
  <2>3. routes \in Seq(RouteEntry) /\ ws_routes \in Seq(RouteEntry)
    BY DEF StateInv, TypeOK
  <2>4. Offered(tables, routes, ws_routes) = now
    BY <1>6, KeptIsServed DEF Offered, now
  <2>5. \/ ViewOf(Answered(q, tables)) = Abstract!Failed(ViewOf(q), "route index")
        \/ ViewOf(Answered(q, tables)) = Abstract!Answered(ViewOf(q), now)
    <3>1. CASE Outcome(q.snap, tables, q.method, q.path) = "route index"
      BY <3>1, LostView
    <3>2. CASE Outcome(q.snap, tables, q.method, q.path) # "route index"
      <4>1. ViewOf(Answered(q, tables))
               = Abstract!Answered(ViewOf(q), Offered(tables, routes, ws_routes))
        BY <1>2, <2>2, <2>3, <3>2, AnsweredView
      <4> QED
        BY <2>4, <4>1
    <3> QED
      BY <3>1, <3>2
  <2>6. CASE ViewOf(Answered(q, tables)) = Abstract!Failed(ViewOf(q), "route index")
    <3>1. Abstract!Fail(r)
      BY <1>3, <1>4, <2>1, <2>6 DEF Abstract!Fail, q, now
    <3> QED
      BY <3>1 DEF Abstract!Next
  <2>7. CASE ViewOf(Answered(q, tables)) = Abstract!Answered(ViewOf(q), now)
    <3>1. Abstract!Answer(r)
      BY <1>3, <1>4, <2>1, <2>7 DEF Abstract!Answer, q, now
    <3> QED
      BY <3>1 DEF Abstract!Next
  <2> QED
    BY <2>5, <2>6, <2>7
<1> QED
  BY <1>1, <1>5, <1>6

\* Requests that arrive.
LEMMA HandleRsgiRefines ==
    ASSUME StateInv, ReqInv, HonestInv, NEW r \in Requests,
           HandleRsgiAsync(r) \/ HandleRsgiSync(r)
    PROVE  Abstract!Next
<1> DEFINE now == ServedBy(router, routes, ws_routes)
           views == [u \in Requests |-> ViewOf(req[u])]
<1>1. PICK m \in Methods \cup {"WS"}, x \in Paths :
         \/ EnsureCompiled = {} /\ req' = [req EXCEPT ![r] = Panicked(Arrived(m, x))]
         \/ \E tables \in EnsureCompiled :
               req' = [req EXCEPT ![r] = Answered(Arrived(m, x), tables)]
         \/ req' = [req EXCEPT ![r] = Arrived(m, x)]
  BY DEF HandleRsgiAsync, HandleRsgiSync
<1>2. views[r].stage = "new" /\ DOMAIN req = Requests
  BY DEF HandleRsgiAsync, HandleRsgiSync, ReqInv, ViewOf
<1>3. now' = now
  BY DEF HandleRsgiAsync, HandleRsgiSync, ServedBy
<1>4. PICK kept \in {{}, {now}} : ViewOf(Arrived(m, x)) = Abstract!Arrived(m, x, kept)
  BY ArrivedView
<1>5. ASSUME NEW q, req' = [req EXCEPT ![r] = q] PROVE views' = [views EXCEPT ![r] = ViewOf(q)]
  BY <1>2, <1>5, MovedView
<1> HIDE DEF now, views
<1>6. CASE EnsureCompiled = {} /\ req' = [req EXCEPT ![r] = Panicked(Arrived(m, x))]
  <2>1. views' = [views EXCEPT ![r] = Abstract!Failed(ViewOf(Arrived(m, x)), "panic")]
    BY <1>5, <1>6, PanickedView
  <2>2. ViewOf(Arrived(m, x)) = Abstract!Arrived(m, x, {})
    <3>1. snapshot.compiled = {}
      BY <1>6 DEF StateInv, TablesFresh, EnsureCompiled
    <3> QED
      BY <3>1 DEF ViewOf, Arrived, Request, Abstract!Arrived, Abstract!View
  <2>3. Abstract!Ambiguous
    BY <1>6, PanicIsAmbiguous DEF HonestInv
  <2>4. Abstract!ArriveAndFail(r, m, x)
    BY <1>2, <1>3, <2>1, <2>2, <2>3 DEF Abstract!ArriveAndFail, now, views
  <2> QED
    BY <2>4 DEF Abstract!Next
<1>7. ASSUME NEW tables \in EnsureCompiled,
             req' = [req EXCEPT ![r] = Answered(Arrived(m, x), tables)]
      PROVE  Abstract!Next
  <2>1. ViewOf(Answered(Arrived(m, x), tables)) = Abstract!Answered(Abstract!Arrived(m, x, kept), now)
    BY <1>4, AnsweredAtOnceView DEF now
  <2>2. Abstract!ArriveAndAnswer(r, m, x, kept)
    BY <1>2, <1>3, <1>5, <1>7, <2>1 DEF Abstract!ArriveAndAnswer, now, views
  <2> QED
    BY <2>2 DEF Abstract!Next, now
<1>8. CASE req' = [req EXCEPT ![r] = Arrived(m, x)]
  <2>1. Abstract!Arrive(r, m, x, kept)
    BY <1>2, <1>3, <1>4, <1>5, <1>8 DEF Abstract!Arrive, now, views
  <2> QED
    BY <2>1 DEF Abstract!Next, now
<1> QED
  BY <1>1, <1>6, <1>7, <1>8

\* Every step of the registry and of its requests is a step of Routing, or none.
LEMMA StepRefines ==
    StateInv /\ ReqInv /\ HonestInv /\ [Next]_vars => [Abstract!Next]_(Abstract!vars)
<1> SUFFICES ASSUME StateInv, ReqInv, HonestInv, [Next]_vars
             PROVE  [Abstract!Next]_(Abstract!vars)
  OBVIOUS
<1>1. CASE UNCHANGED <<routes, ws_routes, router, req>>
  BY <1>1 DEF Abstract!vars
<1>2. ASSUME NEW p \in Registrars, CommitAddRoute(p) \/ CommitAddWebsocketRoute(p)
      PROVE  [Abstract!Next]_(Abstract!vars)
  BY <1>2, CommitRegisters DEF ReqInv
<1>3. ASSUME NEW r \in Requests, HandleRsgiAsync(r) \/ HandleRsgiSync(r)
      PROVE  Abstract!Next
  BY <1>3, HandleRsgiRefines
<1>4. ASSUME NEW r \in Requests, MatchSnapshot(r) \/ MatchCurrent(r)
      PROVE  Abstract!Next
  BY <1>4, MatchSnapshotRefines, MatchCurrentRefines
<1> QED
  BY <1>1, <1>2, <1>3, <1>4 DEF Next, vars, BeginAdd, AbortAdd, Freeze, Reconfigure

\* The registry with its lists, indexes, masks, compiled tables and snapshots implements
\* Routing: registration is atomic, a request is answered from one table as a whole.
THEOREM RegistryImplementsRouting == Spec => ImplementsRouting
<1>1. Init => Abstract!Init
  <2> SUFFICES ASSUME Init PROVE Abstract!Init
    OBVIOUS
  <2>1. ServedBy(router, routes, ws_routes) = [m \in Tables |-> [t \in {} |-> 0]]
    BY DEF Init, ServedBy, EmptyTable
  <2>2. [r \in Requests |-> ViewOf(req[r])]
           = [r \in Requests |-> Abstract!View("new", "none", <<>>, {}, "none", {})]
    BY DEF Init, ViewOf, NewRequest, Request, FrozenState, Abstract!View
  <2> QED
    BY <2>1, <2>2 DEF Abstract!Init
<1> QED
  BY <1>1, StepRefines, InitStateInv, NextStateInv, InitReqInv, NextReqInv,
     InitHonestInv, NextHonestInv, PTL DEF Spec, ImplementsRouting, Abstract!Spec

-----------------------------------------------------------------------------
(* freeze().                                                               *)

\* A request that arrives is dispatched from the published snapshot.
LEMMA ArrivedFields ==
    ASSUME NEW m, NEW x
    PROVE  /\ Arrived(m, x).outcome = "none" /\ Arrived(m, x).snap = snapshot
           /\ \A tables : Answered(Arrived(m, x), tables).snap = snapshot
  BY DEF Arrived, Answered, Request

\* No answer is a panic.
LEMMA AnsweredNoPanic ==
    ASSUME NEW q, NEW tables
    PROVE  Answered(q, tables).outcome # "panic"
<1>1. Outcome(q.snap, tables, q.method, q.path) # "panic"
  BY DEF Outcome
<1> QED
  BY <1>1 DEF Answered, Request

\* One request moves on over compiled tables.
LEMMA FrozenMove ==
    ASSUME ReqInv, NEW r \in Requests, NEW q, req' = [req EXCEPT ![r] = q],
           q.outcome # "panic",
           req[r].stage = "new" => q.snap.compiled = compiled /\ q.outcome # "route index"
    PROVE  AnsweredFromTables
  BY DEF ReqInv, AnsweredFromTables

\* With the tables of freeze() in place, every step of a request is answered from tables.
LEMMA FrozenRequests ==
    ASSUME StateInv, ReqInv, NEW r \in Requests, compiled # {},
           HandleRsgiAsync(r) \/ HandleRsgiSync(r) \/ MatchSnapshot(r) \/ MatchCurrent(r)
    PROVE  compiled' = compiled /\ AnsweredFromTables
<1>1. EnsureCompiled = compiled /\ snapshot.compiled = compiled
  BY DEF EnsureCompiled, StateInv, TablesFresh
<1>2. \A m, x : \A tables \in compiled : Answered(Arrived(m, x), tables).outcome # "route index"
  <2> SUFFICES ASSUME NEW m, NEW x, NEW tables \in compiled
               PROVE  Answered(Arrived(m, x), tables).outcome # "route index"
    OBVIOUS
  <2>1. SnapOf(snapshot, routes, ws_routes)
    BY DEF ReqInv
  <2>2. Resolves(tables.router, snapshot.routes, snapshot.ws_routes)
    BY <1>1, <2>1 DEF SnapOf
  <2>3. SelfContained(Answered(Arrived(m, x), tables))
    BY <2>2, ArrivedFields, AnsweredSelfContained
  <2> QED
    BY <1>1, <2>3, ArrivedFields DEF SelfContained
<1>3. compiled' = compiled
  BY <1>1 DEF HandleRsgiAsync, HandleRsgiSync, MatchSnapshot, MatchCurrent, PublishCompiled
<1>4. CASE HandleRsgiAsync(r)
  <2>1. PICK m, x : req' = [req EXCEPT ![r] = Arrived(m, x)]
    BY <1>4 DEF HandleRsgiAsync
  <2> DEFINE q == Arrived(m, x)
  <2>2. q.outcome = "none" /\ q.snap.compiled = compiled
    BY <1>1, ArrivedFields
  <2> HIDE DEF q
  <2>3. req' = [req EXCEPT ![r] = q]
    BY <2>1 DEF q
  <2> QED
    BY <1>3, <2>2, <2>3, FrozenMove
<1>5. CASE HandleRsgiSync(r)
  <2>1. PICK m, x :
            \/ EnsureCompiled = {}
            \/ \E tables \in EnsureCompiled : req' = [req EXCEPT ![r] = Answered(Arrived(m, x), tables)]
            \/ req' = [req EXCEPT ![r] = Arrived(m, x)]
    BY <1>5 DEF HandleRsgiSync
  <2>2. ASSUME NEW tables \in compiled, req' = [req EXCEPT ![r] = Answered(Arrived(m, x), tables)]
        PROVE  compiled' = compiled /\ AnsweredFromTables
    <3> DEFINE q == Answered(Arrived(m, x), tables)
    <3>1. q.outcome # "panic" /\ q.outcome # "route index" /\ q.snap.compiled = compiled
      BY <1>1, <1>2, ArrivedFields, AnsweredNoPanic
    <3> HIDE DEF q
    <3>2. req' = [req EXCEPT ![r] = q]
      BY <2>2 DEF q
    <3> QED
      BY <1>3, <3>1, <3>2, FrozenMove
  <2>3. CASE req' = [req EXCEPT ![r] = Arrived(m, x)]
    <3> DEFINE q == Arrived(m, x)
    <3>1. q.outcome = "none" /\ q.snap.compiled = compiled
      BY <1>1, ArrivedFields
    <3> HIDE DEF q
    <3>2. req' = [req EXCEPT ![r] = q]
      BY <2>3 DEF q
    <3> QED
      BY <1>3, <3>1, <3>2, FrozenMove
  <2> QED
    BY <1>1, <2>1, <2>2, <2>3
<1>6. CASE MatchSnapshot(r) \/ MatchCurrent(r)
  <2>1. PICK tables : req' = [req EXCEPT ![r] = Answered(req[r], tables)]
    BY <1>1, <1>6 DEF MatchSnapshot, MatchCurrent
  <2> DEFINE q == Answered(req[r], tables)
  <2>2. req[r].stage # "new"
    BY <1>6 DEF MatchSnapshot, MatchCurrent
  <2>3. q.outcome # "panic"
    BY AnsweredNoPanic
  <2> HIDE DEF q
  <2>4. req' = [req EXCEPT ![r] = q]
    BY <2>1 DEF q
  <2> QED
    BY <1>3, <2>2, <2>3, <2>4, FrozenMove
<1> QED
  BY <1>4, <1>5, <1>6

\* freeze() is final, for any number of registering threads: it can be overtaken only by the
\* declarations past their frozen check, each of which adds at most its one entry; once they
\* are over nothing is registered, and the compiled tables answer every later request.
THEOREM FreezeFinal == Spec => FreezeIsFinal
<1>1. ASSUME StateInv, ReqInv, [Next]_vars
      PROVE  Final
  <2>. SUFFICES ASSUME frozen PROVE Final
    BY DEF Final
  <2>. DOMAIN job = Registrars
    BY <1>1 DEF StateInv, TypeOK
  <2>1. ASSUME NEW p \in Registrars, BeginAdd(p) PROVE Final
    BY <2>1 DEF BeginAdd
  <2>2. ASSUME NEW p \in Registrars, AbortAdd(p) PROVE Final
    <3>1. UNCHANGED <<routes, ws_routes, frozen>> /\ ~Quiet
      BY <2>2 DEF AbortAdd, Quiet
    <3>2. \A q \in Registrars : job'[q] \subseteq job[q]
      BY <2>2 DEF AbortAdd
    <3>. QED
      BY <3>1, <3>2 DEF Final
  <2>3. ASSUME NEW p \in Registrars, CommitAddRoute(p) \/ CommitAddWebsocketRoute(p)
        PROVE  Final
    <3>1. frozen' = frozen /\ job[p] # {} /\ job' = [job EXCEPT ![p] = {}]
      BY <2>3 DEF CommitAddRoute, CommitAddWebsocketRoute
    <3>2. ~Quiet
      BY <3>1 DEF Quiet
    <3>3. job'[p] = {} /\ \A q \in Registrars : job'[q] \subseteq job[q]
      BY <3>1
    <3>. QED
      BY <3>1, <3>2, <3>3 DEF Final
  <2>4. ASSUME NEW p \in Registrars, Freeze(p) PROVE Final
    <3>1. UNCHANGED <<routes, ws_routes, job, req>> /\ frozen' /\ (compiled # {} => compiled' = compiled)
      BY <2>4 DEF Freeze, EnsureCompiled
    <3>. QED
      BY <3>1 DEF Final, AnsweredFromTables
  <2>5. CASE UNCHANGED <<routes, ws_routes, frozen, compiled, job, req>>
    BY <2>5 DEF Final, AnsweredFromTables
  <2>6. ASSUME NEW r \in Requests,
               HandleRsgiAsync(r) \/ HandleRsgiSync(r) \/ MatchSnapshot(r) \/ MatchCurrent(r)
        PROVE  Final
    <3>1. UNCHANGED <<routes, ws_routes, frozen, job>>
      BY <2>6 DEF HandleRsgiAsync, HandleRsgiSync, MatchSnapshot, MatchCurrent
    <3>2. compiled # {} => compiled' = compiled /\ AnsweredFromTables
      BY <1>1, <2>6, FrozenRequests
    <3>. QED
      BY <3>1, <3>2 DEF Final
  <2>. QED
    BY <1>1, <2>1, <2>2, <2>3, <2>4, <2>5, <2>6 DEF Next, vars, Reconfigure
<1>2. StateInv /\ ReqInv /\ [Next]_vars => [Final]_vars
  BY <1>1
<1>. QED
  BY <1>2, InitStateInv, InitReqInv, NextStateInv, NextReqInv, PTL DEF Spec, FreezeIsFinal

-----------------------------------------------------------------------------
(* The panic of snapshot_routers.                                          *)

\* No router holds two templates that it would have refused.
RoutersAgree ==
    \A m \in Tables : \A t, u \in DOMAIN router[m] : t # u => ~Conflicts(t, u)

\* Templates that two routers hold and one would refuse.
Clash ==
    \E m, n \in Tables \ {"WS"} :
        /\ m # n
        /\ \E t \in DOMAIN router[m], u \in DOMAIN router[n] : t # u /\ Conflicts(t, u)

\* A request has panicked over the compiled tables only where such templates are routed.
PanicExplained == NoCompilePanic \/ Clash

LEMMA ConflictsSymmetric == \A t, u : Conflicts(t, u) => Conflicts(u, t)
  BY DEF Conflicts, FirstDiff

\* A template that a router accepted agrees with those before it.
LEMMA InsertAgrees ==
    ASSUME RoutersAgree, DOMAIN router = Tables, NEW m \in Tables, NEW t, NEW i,
           CanInsert(router[m], t), router' = [router EXCEPT ![m] = Insert(router[m], t, i)]
    PROVE  RoutersAgree' /\ \A n \in Tables : DOMAIN router[n] \subseteq DOMAIN router'[n]
<1>1. \A n \in Tables : router'[n] = IF n = m THEN Insert(router[m], t, i) ELSE router[n]
  OBVIOUS
<1>2. DOMAIN Insert(router[m], t, i) = DOMAIN router[m] \cup {t}
  BY DEF Insert
<1>3. \A u \in DOMAIN router[m] : ~Conflicts(t, u) /\ ~Conflicts(u, t)
  BY ConflictsSymmetric DEF CanInsert
<1>4. \A x, y \in DOMAIN router'[m] : x # y => ~Conflicts(x, y)
  BY <1>1, <1>2, <1>3 DEF RoutersAgree
<1>5. \A n \in Tables : n # m => router'[n] = router[n]
  BY <1>1
<1> QED
  BY <1>1, <1>2, <1>4, <1>5 DEF RoutersAgree

\* Registrations keep the routers in agreement and remove no template.
LEMMA NextRoutersAgree ==
    ASSUME TypeOK, RoutersAgree, [Next]_vars
    PROVE  RoutersAgree' /\ \A n \in Tables : DOMAIN router[n] \subseteq DOMAIN router'[n]
<1>0. DOMAIN router = Tables
  BY DEF TypeOK
<1>1. CASE UNCHANGED router
  BY <1>1 DEF RoutersAgree
<1>2. ASSUME NEW p \in Registrars, CommitAddRoute(p), router' # router
      PROVE  RoutersAgree' /\ \A n \in Tables : DOMAIN router[n] \subseteq DOMAIN router'[n]
  <2>1. PICK j \in job[p] : \E m \in RouterFor(j.method) :
            /\ CanInsert(router[m], j.path)
            /\ router' = [router EXCEPT ![m] = Insert(router[m], j.path, NextIndex(routes))]
    BY <1>2 DEF CommitAddRoute
  <2>2. PICK m \in RouterFor(j.method) :
            /\ CanInsert(router[m], j.path)
            /\ router' = [router EXCEPT ![m] = Insert(router[m], j.path, NextIndex(routes))]
    BY <2>1
  <2>3. m \in Tables
    BY DEF RouterFor, Tables
  <2> QED
    BY <1>0, <2>2, <2>3, InsertAgrees
<1>3. ASSUME NEW p \in Registrars, CommitAddWebsocketRoute(p), router' # router
      PROVE  RoutersAgree' /\ \A n \in Tables : DOMAIN router[n] \subseteq DOMAIN router'[n]
  <2>1. PICK j \in job[p] :
            /\ CanInsert(router["WS"], j.path)
            /\ router' = [router EXCEPT !["WS"] = Insert(router["WS"], j.path, NextIndex(ws_routes))]
    BY <1>3 DEF CommitAddWebsocketRoute
  <2>2. "WS" \in Tables
    BY DEF Tables
  <2> QED
    BY <1>0, <2>1, <2>2, InsertAgrees
<1> QED
  BY <1>1, <1>2, <1>3 DEF Next, vars, BeginAdd, AbortAdd, Freeze, Reconfigure, HandleRsgiAsync,
     HandleRsgiSync, MatchSnapshot, MatchCurrent

\* Tables that cannot be compiled hold templates of two methods that clash.
LEMMA PanicIsClash ==
    ASSUME MasksMatch(router, masks), RoutersAgree, EnsureCompiled = {}
    PROVE  Clash
<1>1. PICK t, u \in DOMAIN masks : t # u /\ Conflicts(t, u)
  BY DEF EnsureCompiled, AllPathsInsertable
<1>2. ASSUME NEW x \in DOMAIN masks PROVE \E m \in Tables \ {"WS"} : x \in DOMAIN router[m]
  <2>1. PICK h \in masks[x] : h \in HttpMethods /\ \E m \in RouterFor(h) : x \in DOMAIN router[m]
    BY DEF MasksMatch
  <2>2. RouterFor(h) \subseteq Tables \ {"WS"}
    BY <2>1, RouterForTables DEF HttpMethods, Tables
  <2> QED
    BY <2>1, <2>2
<1>3. PICK m, n \in Tables \ {"WS"} : t \in DOMAIN router[m] /\ u \in DOMAIN router[n]
  BY <1>2
<1>4. m # n
  BY <1>1, <1>3 DEF RoutersAgree
<1> QED
  BY <1>1, <1>3, <1>4 DEF Clash

\* What keeps the property: only a step that finds no tables panics.
LEMMA NextPanicExplained ==
    ASSUME StateInv, HonestInv, RoutersAgree, PanicExplained, [Next]_vars
    PROVE  PanicExplained'
<1>1. Clash => Clash'
  BY NextRoutersAgree DEF StateInv, Clash
<1>2. CASE UNCHANGED req
  BY <1>1, <1>2 DEF PanicExplained, NoCompilePanic
<1>3. ASSUME NEW r \in Requests,
             HandleRsgiAsync(r) \/ HandleRsgiSync(r) \/ MatchSnapshot(r) \/ MatchCurrent(r)
      PROVE  PanicExplained'
  <2>1. CASE EnsureCompiled = {}
    BY <1>1, <2>1, PanicIsClash DEF HonestInv, PanicExplained
  <2>2. CASE EnsureCompiled # {}
    <3>1. \E q : req' = [req EXCEPT ![r] = q] /\ q.outcome # "panic"
      <4>1. CASE HandleRsgiAsync(r)
        BY <4>1, ArrivedFields DEF HandleRsgiAsync
      <4>2. CASE HandleRsgiSync(r)
        <5>1. PICK m, x :
                  \/ \E tables : req' = [req EXCEPT ![r] = Answered(Arrived(m, x), tables)]
                  \/ req' = [req EXCEPT ![r] = Arrived(m, x)]
          BY <2>2, <4>2 DEF HandleRsgiSync
        <5> QED
          BY <5>1, ArrivedFields, AnsweredNoPanic
      <4>3. CASE MatchSnapshot(r) \/ MatchCurrent(r)
        <5>1. PICK tables : req' = [req EXCEPT ![r] = Answered(req[r], tables)]
          BY <2>2, <4>3 DEF MatchSnapshot, MatchCurrent
        <5> QED
          BY <5>1, AnsweredNoPanic
      <4> QED
        BY <1>3, <4>1, <4>2, <4>3
    <3>2. PICK q : req' = [req EXCEPT ![r] = q] /\ q.outcome # "panic"
      BY <3>1
    <3>3. \A u \in Requests : req'[u] = IF u = r THEN q ELSE req[u]
      BY <3>2 DEF HonestInv
    <3>4. NoCompilePanic => NoCompilePanic'
      BY <3>2, <3>3 DEF NoCompilePanic
    <3> QED
      BY <1>1, <3>4 DEF PanicExplained
  <2> QED
    BY <2>1, <2>2
<1> QED
  BY <1>2, <1>3 DEF Next, vars, BeginAdd, AbortAdd, CommitAddRoute, CommitAddWebsocketRoute,
     Freeze, Reconfigure

\* The panic of .expect("snapshot all_paths") in snapshot_routers meets an application only if
\* it has routed, under two methods, templates that no single router would take: one that
\* names its parameters alike, or has routes of one method only, never sees it.
THEOREM PanicAlwaysExplained == Spec => []PanicExplained
<1>1. Init => RoutersAgree /\ PanicExplained
  <2> SUFFICES ASSUME Init PROVE RoutersAgree /\ PanicExplained
    OBVIOUS
  <2>1. RoutersAgree
    BY DEF Init, RoutersAgree, EmptyTable
  <2>2. \A r \in Requests : req[r].outcome = "none"
    BY DEF Init, NewRequest, Request
  <2> QED
    BY <2>1, <2>2 DEF PanicExplained, NoCompilePanic
<1>2. /\ StateInv /\ HonestInv /\ RoutersAgree /\ PanicExplained /\ [Next]_vars
      => RoutersAgree' /\ PanicExplained'
  BY NextRoutersAgree, NextPanicExplained DEF StateInv
<1> QED
  BY <1>1, <1>2, InitStateInv, NextStateInv, InitHonestInv, NextHonestInv, PTL DEF Spec

=============================================================================
