-------------------------- MODULE LockOrderProofs --------------------------
(***************************************************************************)
(* Calls that take their locks in one order never deadlock, however many   *)
(* threads make them.                                                      *)
(***************************************************************************)
EXTENDS LockOrder, TLAPS

\* A thread holds at most what its script has taken and not yet dropped.
HeldInv ==
    \A t \in Threads :
        /\ ~Busy(t) => held[t] = {}
        /\ Busy(t) => /\ pc[t] \in 1 .. (Len(Scripts[call[t]]) + 1)
                      /\ held[t] \subseteq HeldAt(Scripts[call[t]], pc[t])

\* The scripts are sequences of lock operations: what With, Write and Bytecode build.
LEMMA ScriptsType == \A c \in Calls : Scripts[c] \in Seq(Ops)
<1>1. \A l \in Locks : Take(l) \in Ops /\ Drop(l) \in Ops
  BY DEF Take, Drop, Ops, Locks
<1>2. Drain \in Ops
  BY DEF Drain, Ops, Locks
<1>3. \A s \in Seq(Ops), l \in Locks : With(l, s) \in Seq(Ops)
  BY <1>1 DEF With
<1>4. \A s \in Seq(Ops) : Write(s) \in Seq(Ops)
  BY <1>1, <1>2 DEF Write, Locks
<1>5. Bytecode \in Seq(Ops) /\ <<>> \in Seq(Ops)
  BY <1>1 DEF Bytecode, Locks
<1>6. \A s, u \in Seq(Ops) : s \o u \in Seq(Ops)
  OBVIOUS
<1>7. {"gil", "read", "ws", "openapi"} \subseteq Locks
  BY DEF Locks
<1>a. AddRoute \in Seq(Ops)
  BY <1>3, <1>4, <1>5, <1>6, <1>7, Zenon DEF AddRoute
<1>b. Setter \in Seq(Ops) /\ HandleRsgi \in Seq(Ops) /\ HandleRsgiCompile \in Seq(Ops)
  BY <1>3, <1>4, <1>5, <1>6, <1>7 DEF Setter, HandleRsgi, HandleRsgiCompile
<1>f. AddExceptionHandler \in Seq(Ops)
  BY <1>3, <1>4, <1>5, <1>7 DEF AddExceptionHandler
<1>c. RunRsgiCompile \in Seq(Ops) /\ OpenapiSync \in Seq(Ops) /\ OpenapiAsync \in Seq(Ops)
  BY <1>3, <1>4, <1>5, <1>6, <1>7 DEF RunRsgiCompile, OpenapiSync, OpenapiAsync
<1>d. RegisterWebsocket \in Seq(Ops) /\ DropActiveWsGuard \in Seq(Ops)
  BY <1>3, <1>4, <1>5, <1>6, <1>7 DEF RegisterWebsocket, DropActiveWsGuard
<1>e. ShutdownWebsockets \in Seq(Ops) /\ ShutdownWrapped \in Seq(Ops)
  BY <1>3, <1>4, <1>5, <1>6, <1>7 DEF ShutdownWebsockets, ShutdownWrapped
<1> QED
  BY <1>a, <1>b, <1>c, <1>d, <1>e, <1>f, CallsAssumption DEF Scripts

\* "idle" is not the name of a call.
LEMMA IdleIsNoCall == "idle" \notin Calls
  BY CallsAssumption DEF Scripts

\* How the locks held by a script change with one operation.
LEMMA HeldAtStep ==
    ASSUME NEW s \in Seq(Ops), NEW i \in DOMAIN s
    PROVE  /\ s[i].do = "take"  => HeldAt(s, i) \cup {s[i].lock} \subseteq HeldAt(s, i + 1)
           /\ s[i].do = "drop"  => HeldAt(s, i) \ {s[i].lock} \subseteq HeldAt(s, i + 1)
           /\ s[i].do = "drain" => HeldAt(s, i) \subseteq HeldAt(s, i + 1)
<1>0. i \in 1 .. Len(s) /\ i \in Nat /\ s[i] \in Ops
  OBVIOUS
<1>1. ASSUME NEW l \in HeldAt(s, i), s[i] # Drop(l)
      PROVE  l \in HeldAt(s, i + 1)
  <2>1. PICK j \in 1 .. (i - 1) : /\ s[j].do = "take" /\ s[j].lock = l
                                  /\ \A k \in (j + 1) .. (i - 1) : s[k] # Drop(l)
    BY DEF HeldAt
  <2>2. j \in 1 .. (i + 1 - 1)
    BY <1>0
  <2>3. \A k \in (j + 1) .. (i + 1 - 1) : s[k] # Drop(l)
    BY <1>0, <1>1, <2>1
  <2>4. l \in Locks
    BY DEF HeldAt
  <2>5. \E m \in 1 .. (i + 1 - 1) : /\ s[m].do = "take" /\ s[m].lock = l
                                   /\ \A k \in (m + 1) .. (i + 1 - 1) : s[k] # Drop(l)
    BY <2>1, <2>2, <2>3
  <2> QED
    BY <2>4, <2>5 DEF HeldAt
<1>2. s[i].do = "take" => s[i].lock \in HeldAt(s, i + 1)
  <2>1. i \in 1 .. (i + 1 - 1) /\ (i + 1) .. (i + 1 - 1) = {}
    BY <1>0
  <2> QED
    BY <1>0, <2>1 DEF HeldAt, Ops
<1>3. ASSUME NEW l, s[i] = Drop(l)
      PROVE  s[i].do = "drop" /\ s[i].lock = l
  BY <1>3 DEF Drop
<1>4. s[i].do # "drop" => HeldAt(s, i) \subseteq HeldAt(s, i + 1)
  BY <1>1, <1>3
<1>5. s[i].do = "drop" => HeldAt(s, i) \ {s[i].lock} \subseteq HeldAt(s, i + 1)
  BY <1>1, <1>3
<1> QED
  BY <1>2, <1>4, <1>5

\* No thread is at an operation before a script begins.
LEMMA HeldAtFirst == \A s : HeldAt(s, 1) = {}
  BY DEF HeldAt

-----------------------------------------------------------------------------
\* The lock bookkeeping is an invariant: held never exceeds what the scripts have taken.
LEMMA HeldInvariant == Disciplined => (Spec => [](TypeOK /\ HeldInv))
<1> SUFFICES ASSUME Disciplined
             PROVE  Spec => [](TypeOK /\ HeldInv)
  OBVIOUS
<1>1. Init => TypeOK /\ HeldInv
  BY IdleIsNoCall DEF Init, TypeOK, HeldInv, Busy
<1>2. TypeOK /\ HeldInv /\ [Next]_vars => (TypeOK /\ HeldInv)'
  <2> SUFFICES ASSUME TypeOK, HeldInv, [Next]_vars
               PROVE  TypeOK' /\ HeldInv'
    OBVIOUS
  <2>1. ASSUME NEW t \in Threads, Enter(t)
        PROVE  TypeOK' /\ HeldInv'
    <3>1. PICK c \in Calls : call' = [call EXCEPT ![t] = c]
      BY <2>1 DEF Enter
    <3>2. TypeOK'
      BY <2>1, <3>1 DEF Enter, TypeOK
    <3>3. held[t] = {} /\ ~Busy(t)
      BY <2>1 DEF Enter, HeldInv
    <3>4. Len(Scripts[c]) + 1 \in Nat /\ 1 \in 1 .. (Len(Scripts[c]) + 1)
      BY ScriptsType
    <3>5. ASSUME NEW u \in Threads
          PROVE  /\ (~Busy(u))' => held'[u] = {}
                 /\ Busy(u)' => /\ pc'[u] \in 1 .. (Len(Scripts[call'[u]]) + 1)
                                /\ held'[u] \subseteq HeldAt(Scripts[call'[u]], pc'[u])
      <4>1. CASE u = t
        BY <4>1, <2>1, <3>1, <3>3, <3>4 DEF Enter, TypeOK
      <4>2. CASE u # t
        <5>1. call'[u] = call[u] /\ pc'[u] = pc[u] /\ held'[u] = held[u]
          BY <4>2, <2>1, <3>1 DEF Enter, TypeOK
        <5> QED
          BY <5>1 DEF HeldInv, Busy
      <4> QED
        BY <4>1, <4>2
    <3> QED
      BY <3>2, <3>5 DEF HeldInv
  <2>2. ASSUME NEW t \in Threads, Step(t)
        PROVE  TypeOK' /\ HeldInv'
    <3> DEFINE s == Scripts[call[t]]
    <3>1. call[t] \in Calls /\ s \in Seq(Ops) /\ pc[t] \in DOMAIN s /\ s[pc[t]] \in Ops
      BY <2>2, ScriptsType DEF Step, Busy, TypeOK
    <3>2. held'[t] = CASE s[pc[t]].do = "take"  -> held[t] \cup {s[pc[t]].lock}
                       [] s[pc[t]].do = "drop"  -> held[t] \ {s[pc[t]].lock}
                       [] s[pc[t]].do = "drain" -> held[t]
      BY <2>2 DEF Step, Current, TypeOK
    <3>3. s[pc[t]].do \in {"take", "drop", "drain"} /\ s[pc[t]].lock \in Locks
      BY <3>1 DEF Ops
    <3>4. held[t] \subseteq HeldAt(s, pc[t])
      BY <2>2 DEF Step, HeldInv
    <3>5. held'[t] \subseteq HeldAt(s, pc[t] + 1)
      <4> HIDE DEF s
      <4> QED
        BY <3>1, <3>2, <3>3, <3>4, HeldAtStep
    <3>6. pc'[t] = pc[t] + 1 /\ call' = call
      BY <2>2 DEF Step, TypeOK
    <3>7. pc[t] + 1 \in 1 .. (Len(s) + 1)
      BY <3>1
    <3>8. held'[t] \subseteq Locks
      BY <3>2, <3>3 DEF TypeOK
    <3>9. TypeOK'
      <4>1. pc' \in [Threads -> Nat]
        BY <2>2 DEF Step, TypeOK
      <4>2. held' \in [Threads -> SUBSET Locks]
        <5>1. \E h : held' = [held EXCEPT ![t] = h]
          BY <2>2 DEF Step
        <5> QED
          BY <5>1, <3>8 DEF TypeOK
      <4> QED
        BY <4>1, <4>2, <3>6 DEF TypeOK
    <3>10. ASSUME NEW u \in Threads, u # t
           PROVE  call'[u] = call[u] /\ pc'[u] = pc[u] /\ held'[u] = held[u]
      BY <2>2, <3>10 DEF Step, TypeOK
    <3>11. ASSUME NEW u \in Threads
           PROVE  /\ (~Busy(u))' => held'[u] = {}
                  /\ Busy(u)' => /\ pc'[u] \in 1 .. (Len(Scripts[call'[u]]) + 1)
                                 /\ held'[u] \subseteq HeldAt(Scripts[call'[u]], pc'[u])
      <4>1. CASE u = t
        BY <4>1, <2>2, <3>5, <3>6, <3>7 DEF Step, Busy
      <4>2. CASE u # t
        BY <4>2, <3>10 DEF HeldInv, Busy
      <4> QED
        BY <4>1, <4>2
    <3> QED
      BY <3>9, <3>11 DEF HeldInv
  <2>3. ASSUME NEW t \in Threads, Return(t)
        PROVE  TypeOK' /\ HeldInv'
    <3> DEFINE s == Scripts[call[t]]
    <3>1. call[t] \in Calls /\ s \in Seq(Ops)
      BY <2>3, ScriptsType DEF Return, Busy, TypeOK
    <3>2. pc[t] = Len(s) + 1
      <4>1. pc[t] \in 1 .. (Len(s) + 1) /\ pc[t] \notin DOMAIN s
        BY <2>3 DEF Return, HeldInv
      <4> QED
        BY <4>1, <3>1
    <3>3. held[t] = {}
      BY <2>3, <3>1, <3>2 DEF Return, HeldInv, Disciplined, Balanced
    <3>4. TypeOK'
      BY <2>3 DEF Return, TypeOK
    <3>5. ASSUME NEW u \in Threads
          PROVE  /\ (~Busy(u))' => held'[u] = {}
                 /\ Busy(u)' => /\ pc'[u] \in 1 .. (Len(Scripts[call'[u]]) + 1)
                                /\ held'[u] \subseteq HeldAt(Scripts[call'[u]], pc'[u])
      <4>1. CASE u = t
        BY <4>1, <2>3, <3>3 DEF Return, Busy, TypeOK
      <4>2. CASE u # t
        <5>1. call'[u] = call[u] /\ pc'[u] = pc[u] /\ held'[u] = held[u]
          BY <4>2, <2>3 DEF Return, TypeOK
        <5> QED
          BY <5>1 DEF HeldInv, Busy
      <4> QED
        BY <4>1, <4>2
    <3> QED
      BY <3>4, <3>5 DEF HeldInv
  <2>4. CASE UNCHANGED vars
    BY <2>4 DEF vars, TypeOK, HeldInv, Busy
  <2> QED
    BY <2>1, <2>2, <2>3, <2>4 DEF Next
<1> QED
  BY <1>1, <1>2, PTL DEF Spec

\* How far up the lock order a waiting thread is.
WaitRank(op) == IF op.do = "drain" THEN 3 ELSE Rank(op.lock)

\* A thread waits only for threads that are further up the order, or not waiting.
LEMMA WaitsUpward ==
    ASSUME Disciplined, TypeOK, HeldInv, NEW t \in Threads, NEW u \in WaitsFor(t),
           WaitsFor(u) # {}
    PROVE  /\ WaitRank(Current(t)) \in {1, 2, 3, 4}
           /\ WaitRank(Current(u)) \in {1, 2, 3, 4}
           /\ WaitRank(Current(t)) < WaitRank(Current(u))
<1> DEFINE a == Current(t)
           b == Current(u)
<1>1. u \in Threads /\ a \in Ops /\ a.do # "drop" /\ Busy(t)
  <2>1. Busy(t) /\ pc[t] \in DOMAIN Scripts[call[t]] /\ u \in Blockers(Current(t))
    BY DEF WaitsFor
  <2>2. Current(t) \in Ops
    BY <2>1, ScriptsType DEF Current, Busy, TypeOK
  <2>3. Current(t).do # "drop" /\ u \in Threads
    BY <2>1, <2>2 DEF Blockers, Holders, Ops
  <2> QED
    BY <2>1, <2>2, <2>3
<1>2. b \in Ops /\ b.do # "drop" /\ Busy(u) /\ pc[u] \in DOMAIN Scripts[call[u]]
  <2>1. Busy(u) /\ pc[u] \in DOMAIN Scripts[call[u]] /\ Blockers(Current(u)) # {}
    BY DEF WaitsFor
  <2>2. Current(u) \in Ops
    BY <1>1, <2>1, ScriptsType DEF Current, Busy, TypeOK
  <2> QED
    BY <2>1, <2>2 DEF Blockers
<1>3. \E l \in held[u] : \/ a.do = "drain" /\ l = "read"
                         \/ a.do = "take" /\ a.lock = "read" /\ l = "write"
                         \/ a.do = "take" /\ a.lock # "read" /\ l = a.lock
  <2>1. u \in Blockers(a)
    BY DEF WaitsFor
  <2> HIDE DEF a
  <2> QED
    BY <1>1, <2>1 DEF Blockers, Holders, Ops
<1>4. \A l \in held[u] : /\ b.do = "take" => Rank(l) < Rank(b.lock)
                         /\ b.do = "drain" => l \in {"gil", "write"}
  <2>1. held[u] \subseteq HeldAt(Scripts[call[u]], pc[u])
    BY <1>1, <1>2 DEF HeldInv
  <2>2. call[u] \in Calls
    BY <1>1, <1>2 DEF Busy, TypeOK
  <2> QED
    BY <1>2, <2>1, <2>2 DEF Disciplined, Ordered, Current
<1>5. a.lock \in Locks /\ b.lock \in Locks
      /\ a.do \in {"take", "drain"} /\ b.do \in {"take", "drain"}
  BY <1>1, <1>2 DEF Ops
<1> HIDE DEF a, b
<1>6. WaitRank(a) \in {1, 2, 3, 4} /\ WaitRank(b) \in {1, 2, 3, 4} /\ WaitRank(a) < WaitRank(b)
  BY <1>3, <1>4, <1>5 DEF WaitRank, Rank, Locks
<1> QED
  BY <1>6 DEF a, b

\* With one lock order no group of threads waits for one another.
LEMMA OrderPreventsDeadlock == Disciplined /\ TypeOK /\ HeldInv => NoDeadlock
<1> SUFFICES ASSUME Disciplined, TypeOK, HeldInv,
                    NEW S \in SUBSET Threads, \A t \in S : WaitsFor(t) \cap S # {}
             PROVE  S = {}
  BY DEF NoDeadlock
<1> DEFINE R(t) == WaitRank(Current(t))
<1>1. \A t \in S : \E u \in S : R(t) \in {1, 2, 3, 4} /\ R(u) \in {1, 2, 3, 4} /\ R(t) < R(u)
  <2> TAKE t \in S
  <2>1. PICK u \in S : u \in WaitsFor(t)
    OBVIOUS
  <2>2. WaitsFor(u) # {}
    OBVIOUS
  <2> QED
    BY <2>1, <2>2, WaitsUpward
<1> HIDE DEF R
<1>2. \A t \in S : R(t) # 4
  BY <1>1
<1>3. \A t \in S : R(t) # 3
  BY <1>1, <1>2
<1>4. \A t \in S : R(t) # 2
  BY <1>1, <1>2, <1>3
<1> QED
  BY <1>1, <1>2, <1>3, <1>4

\* Calls that take the interpreter lock, then the state lock, then a mutex, and give all
\* of them back, never deadlock, for every number of threads.
THEOREM DisciplinedNoDeadlock == Disciplined => (Spec => []NoDeadlock)
<1> SUFFICES ASSUME Disciplined PROVE Spec => []NoDeadlock
  OBVIOUS
<1>1. TypeOK /\ HeldInv => NoDeadlock
  BY OrderPreventsDeadlock
<1> QED
  BY <1>1, HeldInvariant, PTL

\* Threads whose calls take their locks in order follow that order at run time.
THEOREM DisciplinedOrderFollowed == Disciplined => (Spec => []OrderFollowed)
<1> SUFFICES ASSUME Disciplined PROVE Spec => []OrderFollowed
  OBVIOUS
<1>1. ASSUME TypeOK, HeldInv
      PROVE  OrderFollowed
  <2> SUFFICES ASSUME NEW t \in Threads, Busy(t), pc[t] \in DOMAIN Scripts[call[t]],
                      NEW l \in held[t]
               PROVE  /\ Current(t).do = "take"  => Rank(l) < Rank(Current(t).lock)
                      /\ Current(t).do = "drain" => l \in {"gil", "write"}
    BY DEF OrderFollowed
  <2>1. held[t] \subseteq HeldAt(Scripts[call[t]], pc[t])
    BY <1>1 DEF HeldInv
  <2>2. call[t] \in Calls
    BY <1>1 DEF Busy, TypeOK
  <2> QED
    BY <2>1, <2>2 DEF Disciplined, Ordered, Current
<1> QED
  BY <1>1, HeldInvariant, PTL

\* Calls that give back all they take leave an idle thread without locks.
THEOREM DisciplinedIdleHoldsNothing == Disciplined => (Spec => []IdleHoldsNothing)
<1> SUFFICES ASSUME Disciplined PROVE Spec => []IdleHoldsNothing
  OBVIOUS
<1>1. HeldInv => IdleHoldsNothing
  BY DEF HeldInv, IdleHoldsNothing
<1> QED
  BY <1>1, HeldInvariant, PTL

-----------------------------------------------------------------------------
(* The calls of the extension are disciplined, whatever their scripts are  *)
(* made of: guards that nest in the order of the ranks, and guards one     *)
(* after the other.                                                        *)

\* A script that keeps to the order by itself and takes only what ranks above L; it waits
\* for readers only if a thread may hold what ranks L.
Nested(s, L) ==
    /\ s \in Seq(Ops) /\ Ordered(s) /\ Balanced(s)
    /\ \A i \in DOMAIN s : /\ s[i].do = "take"  => L < Rank(s[i].lock)
                           /\ s[i].do = "drain" => L < 2

\* What SMT knows of a concatenation, for scripts that are not given by name.
LEMMA ConcatElements ==
    ASSUME NEW s \in Seq(Ops), NEW u \in Seq(Ops)
    PROVE  /\ s \o u \in Seq(Ops)
           /\ Len(s \o u) = Len(s) + Len(u)
           /\ \A i \in 1 .. Len(s) : (s \o u)[i] = s[i]
           /\ \A i \in 1 .. Len(u) : (s \o u)[Len(s) + i] = u[i]
  OBVIOUS

\* What one script after the other holds.
LEMMA HeldAtConcat ==
    ASSUME NEW s \in Seq(Ops), NEW u \in Seq(Ops), NEW i \in 1 .. (Len(s) + Len(u) + 1)
    PROVE  /\ i <= Len(s) + 1 => HeldAt(s \o u, i) \subseteq HeldAt(s, i)
           /\ i > Len(s) =>
                HeldAt(s \o u, i) \subseteq HeldAt(s, Len(s) + 1) \cup HeldAt(u, i - Len(s))
<1> DEFINE c == s \o u
<1>1. /\ \A k \in 1 .. Len(s) : c[k] = s[k]
      /\ \A k \in 1 .. Len(u) : c[Len(s) + k] = u[k]
      /\ Len(s) \in Nat /\ Len(u) \in Nat
  OBVIOUS
<1> HIDE DEF c
<1> SUFFICES ASSUME NEW l \in HeldAt(c, i)
             PROVE  /\ i <= Len(s) + 1 => l \in HeldAt(s, i)
                    /\ i > Len(s) => l \in HeldAt(s, Len(s) + 1) \cup HeldAt(u, i - Len(s))
  BY DEF c
<1>2. PICK j \in 1 .. (i - 1) : /\ c[j].do = "take" /\ c[j].lock = l
                                /\ \A k \in (j + 1) .. (i - 1) : c[k] # Drop(l)
  BY DEF HeldAt
<1>3. l \in Locks
  BY DEF HeldAt
<1>4. ASSUME i <= Len(s) + 1
      PROVE  l \in HeldAt(s, i)
  <2>1. \A k \in 1 .. (i - 1) : c[k] = s[k]
    BY <1>1, <1>4
  <2>2. s[j].do = "take" /\ s[j].lock = l /\ \A k \in (j + 1) .. (i - 1) : s[k] # Drop(l)
    BY <1>2, <2>1
  <2> QED
    BY <1>3, <2>2 DEF HeldAt
<1>5. ASSUME i > Len(s), j <= Len(s)
      PROVE  l \in HeldAt(s, Len(s) + 1)
  <2>1. s[j].do = "take" /\ s[j].lock = l /\ \A k \in (j + 1) .. Len(s) : s[k] # Drop(l)
    BY <1>1, <1>2, <1>5
  <2>2. j \in 1 .. (Len(s) + 1 - 1) /\ Len(s) + 1 - 1 = Len(s)
    BY <1>1, <1>5
  <2> QED
    BY <1>3, <2>1, <2>2 DEF HeldAt
<1>6. ASSUME i > Len(s), j > Len(s)
      PROVE  l \in HeldAt(u, i - Len(s))
  <2> DEFINE m == j - Len(s)
  <2>1. m \in 1 .. (i - Len(s) - 1) /\ m \in 1 .. Len(u) /\ j = Len(s) + m
    BY <1>1, <1>6
  <2>2. u[m].do = "take" /\ u[m].lock = l
    BY <1>1, <1>2, <2>1
  <2>3. ASSUME NEW k \in (m + 1) .. (i - Len(s) - 1)
        PROVE  u[k] # Drop(l)
    <3>1. k \in 1 .. Len(u) /\ Len(s) + k \in (j + 1) .. (i - 1)
      BY <1>1, <1>6, <2>1
    <3> QED
      BY <1>1, <1>2, <3>1
  <2> QED
    BY <1>3, <2>1, <2>2, <2>3 DEF HeldAt
<1> QED
  BY <1>1, <1>4, <1>5, <1>6

\* A lock is not held right after it was dropped.
LEMMA HeldAtDropped ==
    ASSUME NEW s \in Seq(Ops), NEW i \in DOMAIN s, NEW l, s[i] = Drop(l)
    PROVE  l \notin HeldAt(s, i + 1)
<1> SUFFICES ASSUME l \in HeldAt(s, i + 1) PROVE FALSE
  OBVIOUS
<1>1. PICK j \in 1 .. (i + 1 - 1) : /\ s[j].do = "take" /\ s[j].lock = l
                                    /\ \A k \in (j + 1) .. (i + 1 - 1) : s[k] # Drop(l)
  BY DEF HeldAt
<1>2. s[i].do = "drop" /\ i \in Nat
  BY DEF Drop
<1>3. j # i
  BY <1>1, <1>2
<1> QED
  BY <1>1, <1>2, <1>3

\* Two scripts that keep to the order keep to it one after the other.
LEMMA NestedConcat ==
    ASSUME NEW L \in Nat, NEW s, NEW u, Nested(s, L), Nested(u, L)
    PROVE  Nested(s \o u, L)
<1> DEFINE c == s \o u
<1>1. s \in Seq(Ops) /\ u \in Seq(Ops)
  BY DEF Nested
<1>2. /\ c \in Seq(Ops) /\ Len(c) = Len(s) + Len(u)
      /\ Len(s) \in Nat /\ Len(u) \in Nat
      /\ \A i \in 1 .. Len(s) : c[i] = s[i]
      /\ \A i \in 1 .. Len(u) : c[Len(s) + i] = u[i]
  BY <1>1
<1>3. \A i \in 1 .. Len(s) : HeldAt(c, i) \subseteq HeldAt(s, i)
  BY <1>1, <1>2, HeldAtConcat
<1>4. HeldAt(s, Len(s) + 1) = {} /\ HeldAt(u, Len(u) + 1) = {}
  BY DEF Nested, Balanced
<1>5. ASSUME NEW i \in 1 .. (Len(u) + 1)
      PROVE  HeldAt(c, Len(s) + i) \subseteq HeldAt(u, i)
  <2>1. Len(s) + i \in 1 .. (Len(s) + Len(u) + 1) /\ Len(s) + i > Len(s)
        /\ (Len(s) + i) - Len(s) = i
    BY <1>2
  <2> QED
    BY <1>1, <1>4, <2>1, HeldAtConcat
<1> HIDE DEF c
<1>6. ASSUME NEW i \in 1 .. Len(c)
      PROVE  \/ i \in 1 .. Len(s)
             \/ \E k \in 1 .. Len(u) : i = Len(s) + k
  <2>1. CASE i <= Len(s)
    BY <2>1, <1>2
  <2>2. CASE i > Len(s)
    <3>1. i - Len(s) \in 1 .. Len(u) /\ i = Len(s) + (i - Len(s))
      BY <2>2, <1>2
    <3> QED
      BY <3>1
  <2> QED
    BY <2>1, <2>2, <1>2
<1>7. Ordered(c)
  <2> SUFFICES ASSUME NEW i \in 1 .. Len(c), NEW l \in HeldAt(c, i)
               PROVE  /\ c[i].do = "take"  => Rank(l) < Rank(c[i].lock)
                      /\ c[i].do = "drain" => l \in {"gil", "write"}
    BY <1>2 DEF Ordered
  <2>1. CASE i \in 1 .. Len(s)
    BY <2>1, <1>1, <1>2, <1>3 DEF Nested, Ordered
  <2>2. ASSUME NEW k \in 1 .. Len(u), i = Len(s) + k
        PROVE  /\ c[i].do = "take"  => Rank(l) < Rank(c[i].lock)
               /\ c[i].do = "drain" => l \in {"gil", "write"}
    <3>1. k \in DOMAIN u /\ l \in HeldAt(u, k) /\ c[i] = u[k]
      BY <2>2, <1>1, <1>2, <1>5
    <3> QED
      BY <3>1 DEF Nested, Ordered
  <2> QED
    BY <2>1, <2>2, <1>6
<1>8. Balanced(c)
  <2>1. Len(u) + 1 \in 1 .. (Len(u) + 1) /\ Len(c) + 1 = Len(s) + (Len(u) + 1)
    BY <1>2
  <2> QED
    BY <2>1, <1>4, <1>5 DEF Balanced
<1>9. \A i \in DOMAIN c : /\ c[i].do = "take"  => L < Rank(c[i].lock)
                          /\ c[i].do = "drain" => L < 2
  <2> SUFFICES ASSUME NEW i \in 1 .. Len(c)
               PROVE  /\ c[i].do = "take"  => L < Rank(c[i].lock)
                      /\ c[i].do = "drain" => L < 2
    BY <1>2
  <2>1. CASE i \in 1 .. Len(s)
    BY <2>1, <1>1, <1>2 DEF Nested
  <2>2. ASSUME NEW k \in 1 .. Len(u), i = Len(s) + k
        PROVE  /\ c[i].do = "take"  => L < Rank(c[i].lock)
               /\ c[i].do = "drain" => L < 2
    <3>1. k \in DOMAIN u /\ c[i] = u[k]
      BY <2>2, <1>1, <1>2
    <3> QED
      BY <3>1 DEF Nested
  <2> QED
    BY <2>1, <2>2, <1>6
<1> QED
  BY <1>2, <1>7, <1>8, <1>9 DEF Nested, c

\* A guard around a script: p takes lock l, the script runs, and l is dropped.
LEMMA NestedScope ==
    ASSUME NEW L \in Nat, NEW l \in Locks, L < Rank(l),
           NEW p \in Seq(Ops), Ordered(p),
           \A i \in 1 .. (Len(p) + 1) : HeldAt(p, i) \subseteq {l},
           \A i \in DOMAIN p : /\ p[i].do = "take"  => L < Rank(p[i].lock)
                               /\ p[i].do = "drain" => L < 2,
           NEW s, Nested(s, Rank(l))
    PROVE  Nested(p \o s \o <<Drop(l)>>, L)
<1>0. SUFFICES ASSUME NEW q, q = p \o s, NEW d, d = <<Drop(l)>>, NEW c, c = q \o d
             PROVE  Nested(c, L)
  OBVIOUS
<1>1. /\ s \in Seq(Ops) /\ Rank(l) \in {1, 2, 4}
      /\ d \in Seq(Ops) /\ Len(d) = 1 /\ d[1] = Drop(l)
  BY <1>0 DEF Nested, Rank, Locks, Drop, Ops
<1>2. /\ q \in Seq(Ops) /\ Len(q) = Len(p) + Len(s)
      /\ Len(p) \in Nat /\ Len(s) \in Nat
      /\ \A i \in 1 .. Len(p) : q[i] = p[i]
      /\ \A i \in 1 .. Len(s) : q[Len(p) + i] = s[i]
  BY <1>0, <1>1
<1>3. \A i \in 1 .. Len(p) : HeldAt(q, i) \subseteq HeldAt(p, i)
  BY <1>1, <1>2, HeldAtConcat, <1>0
<1>4. ASSUME NEW i \in 1 .. (Len(s) + 1)
      PROVE  HeldAt(q, Len(p) + i) \subseteq {l} \cup HeldAt(s, i)
  <2>1. Len(p) + i \in 1 .. (Len(p) + Len(s) + 1) /\ Len(p) + i > Len(p)
        /\ (Len(p) + i) - Len(p) = i /\ Len(p) + 1 \in 1 .. (Len(p) + 1)
    BY <1>2
  <2>2. HeldAt(p, Len(p) + 1) \subseteq {l}
    BY <2>1
  <2> QED
    BY <1>1, <2>1, <2>2, HeldAtConcat, <1>0
<1>5. HeldAt(q, Len(q) + 1) \subseteq {l}
  <2>1. Len(s) + 1 \in 1 .. (Len(s) + 1) /\ Len(q) + 1 = Len(p) + (Len(s) + 1)
    BY <1>2
  <2>2. HeldAt(s, Len(s) + 1) = {}
    BY DEF Nested, Balanced
  <2> QED
    BY <2>1, <2>2, <1>4
<1>6. /\ c \in Seq(Ops) /\ Len(c) = Len(q) + 1 /\ Len(q) \in Nat
      /\ \A i \in 1 .. Len(q) : c[i] = q[i]
      /\ c[Len(q) + 1] = Drop(l)
  <2>1. /\ c \in Seq(Ops) /\ Len(c) = Len(q) + Len(d) /\ Len(q) \in Nat
        /\ \A i \in 1 .. Len(q) : c[i] = q[i]
        /\ \A i \in 1 .. Len(d) : c[Len(q) + i] = d[i]
    BY <1>0, <1>1, <1>2, ConcatElements
  <2> QED
    BY <1>1, <2>1
<1>7. ASSUME NEW i \in 1 .. Len(q)
      PROVE  HeldAt(c, i) \subseteq HeldAt(q, i)
  <2>1. i \in 1 .. (Len(q) + Len(d) + 1) /\ i <= Len(q) + 1
    BY <1>1, <1>6
  <2> QED
    BY <1>1, <1>2, <2>1, HeldAtConcat, <1>0
<1>8. Balanced(c)
  <2>1. HeldAt(d, 2) = {}
    BY <1>1 DEF HeldAt, Drop
  <2>2. HeldAt(c, Len(q) + 2) \subseteq HeldAt(q, Len(q) + 1) \cup HeldAt(d, 2)
    <3>1. ASSUME NEW k \in 1 .. (Len(q) + Len(d) + 1), k > Len(q), k - Len(q) = 2
          PROVE  HeldAt(c, k) \subseteq HeldAt(q, Len(q) + 1) \cup HeldAt(d, 2)
      BY <1>0, <1>1, <1>2, <3>1, HeldAtConcat
    <3>2. /\ Len(q) + 2 \in 1 .. (Len(q) + Len(d) + 1) /\ Len(q) + 2 > Len(q)
          /\ (Len(q) + 2) - Len(q) = 2
      BY <1>1, <1>6
    <3> QED
      BY <3>1, <3>2
  <2>3. l \notin HeldAt(c, Len(q) + 2)
    <3>1. Len(q) + 1 \in DOMAIN c /\ (Len(q) + 1) + 1 = Len(q) + 2
      BY <1>6
    <3> QED
      BY <1>6, <3>1, HeldAtDropped
  <2>4. Len(c) + 1 = Len(q) + 2
    BY <1>6
  <2> QED
    BY <1>5, <2>1, <2>2, <2>3, <2>4 DEF Balanced
<1>9. ASSUME NEW i \in 1 .. Len(c)
      PROVE  \/ i \in 1 .. Len(p) /\ c[i] = p[i] /\ HeldAt(c, i) \subseteq HeldAt(p, i)
             \/ \E k \in 1 .. Len(s) : c[i] = s[k] /\ HeldAt(c, i) \subseteq {l} \cup HeldAt(s, k)
             \/ c[i] = Drop(l)
  <2>1. CASE i <= Len(p)
    BY <2>1, <1>2, <1>3, <1>6, <1>7
  <2>2. CASE i > Len(p) /\ i <= Len(q)
    <3>1. i - Len(p) \in 1 .. Len(s) /\ i = Len(p) + (i - Len(p)) /\ i \in 1 .. Len(q)
      BY <2>2, <1>2
    <3>2. PICK k \in 1 .. Len(s) : i = Len(p) + k
      BY <3>1
    <3>3. k \in 1 .. (Len(s) + 1)
      BY <1>2
    <3>4. c[i] = s[k]
      BY <3>1, <3>2, <1>2, <1>6
    <3>5. HeldAt(c, i) \subseteq {l} \cup HeldAt(s, k)
      BY <3>1, <3>2, <3>3, <1>4, <1>7
    <3> QED
      BY <3>4, <3>5
  <2>3. CASE i > Len(q)
    BY <2>3, <1>6
  <2> QED
    BY <2>1, <2>2, <2>3, <1>2, <1>6
<1>10. ASSUME NEW i \in 1 .. Len(c), NEW k \in 1 .. Len(s), c[i] = s[k]
       PROVE  /\ s[k].do = "take"  => Rank(l) < Rank(s[k].lock) /\ L < Rank(s[k].lock)
              /\ s[k].do = "drain" => L < 2 /\ l = "gil"
  <2>1. k \in DOMAIN s
    BY <1>2
  <2>2. s[k].do = "take" => Rank(l) < Rank(s[k].lock)
    BY <2>1 DEF Nested
  <2>3. s[k].do = "drain" => Rank(l) < 2
    BY <2>1 DEF Nested
  <2>4. s[k].lock \in Locks
    <3>1. s[k] \in Ops
      BY <1>1, <2>1
    <3> QED
      BY <3>1 DEF Ops
  <2>5. Rank(s[k].lock) \in {1, 2, 4}
    BY <2>4 DEF Rank, Locks
  <2>6. Rank(l) < 2 => l = "gil"
    BY DEF Rank, Locks
  <2> QED
    BY <1>1, <2>2, <2>3, <2>5, <2>6
<1>11. Drop(l).do = "drop"
  BY DEF Drop
<1>12. Ordered(c)
  <2> SUFFICES ASSUME NEW i \in 1 .. Len(c), NEW m \in HeldAt(c, i)
               PROVE  /\ c[i].do = "take"  => Rank(m) < Rank(c[i].lock)
                      /\ c[i].do = "drain" => m \in {"gil", "write"}
    BY <1>6 DEF Ordered
  <2>1. CASE i \in 1 .. Len(p) /\ c[i] = p[i] /\ HeldAt(c, i) \subseteq HeldAt(p, i)
    <3>1. i \in DOMAIN p /\ m \in HeldAt(p, i)
      BY <2>1
    <3> QED
      BY <2>1, <3>1 DEF Ordered
  <2>2. ASSUME NEW k \in 1 .. Len(s), c[i] = s[k], HeldAt(c, i) \subseteq {l} \cup HeldAt(s, k)
        PROVE  /\ c[i].do = "take"  => Rank(m) < Rank(c[i].lock)
               /\ c[i].do = "drain" => m \in {"gil", "write"}
    <3>1. CASE m = l
      BY <3>1, <2>2, <1>10
    <3>2. CASE m \in HeldAt(s, k)
      BY <3>2, <2>2, <1>1 DEF Nested, Ordered
    <3> QED
      BY <3>1, <3>2, <2>2
  <2> QED
    BY <2>1, <2>2, <1>9, <1>11
<1>13. \A i \in DOMAIN c : /\ c[i].do = "take"  => L < Rank(c[i].lock)
                           /\ c[i].do = "drain" => L < 2
  <2> SUFFICES ASSUME NEW i \in 1 .. Len(c)
               PROVE  /\ c[i].do = "take"  => L < Rank(c[i].lock)
                      /\ c[i].do = "drain" => L < 2
    BY <1>6
  <2>1. CASE i \in 1 .. Len(p) /\ c[i] = p[i]
    BY <2>1
  <2>2. ASSUME NEW k \in 1 .. Len(s), c[i] = s[k]
        PROVE  /\ c[i].do = "take"  => L < Rank(c[i].lock)
               /\ c[i].do = "drain" => L < 2
    BY <2>2, <1>10
  <2> QED
    BY <2>1, <2>2, <1>9, <1>11
<1> QED
  BY <1>6, <1>8, <1>12, <1>13 DEF Nested

\* Guards nest in the order of their ranks.
LEMMA NestedWith ==
    ASSUME NEW L \in Nat, NEW l \in Locks, L < Rank(l), NEW s, Nested(s, Rank(l))
    PROVE  Nested(With(l, s), L)
<1> DEFINE p == <<Take(l)>>
<1>1. p \in Seq(Ops) /\ Len(p) = 1 /\ p[1] = Take(l)
  BY DEF Take, Ops
<1> HIDE DEF p
<1>2. HeldAt(p, 1) = {} /\ HeldAt(p, 2) \subseteq {l}
  BY <1>1 DEF HeldAt, Take
<1>3. Ordered(p) /\ \A i \in DOMAIN p : /\ p[i].do = "take"  => L < Rank(p[i].lock)
                                        /\ p[i].do = "drain" => L < 2
  BY <1>1, <1>2 DEF Ordered, Take
<1>4. \A i \in 1 .. (Len(p) + 1) : HeldAt(p, i) \subseteq {l}
  BY <1>1, <1>2
<1>5. Nested(p \o s \o <<Drop(l)>>, L)
  BY <1>1, <1>3, <1>4, NestedScope
<1> QED
  BY <1>5 DEF With, p

LEMMA NestedWrite ==
    ASSUME NEW L \in Nat, L < 2, NEW s, Nested(s, 2)
    PROVE  Nested(Write(s), L)
<1> DEFINE p == <<Take("write"), Drain>>
<1>1. p \in Seq(Ops) /\ Len(p) = 2 /\ p[1] = Take("write") /\ p[2] = Drain
  BY DEF Take, Drain, Ops, Locks
<1>2. Rank("write") = 2 /\ "write" \in Locks
  BY DEF Rank, Locks
<1> HIDE DEF p
<1>3. HeldAt(p, 1) = {} /\ HeldAt(p, 2) \subseteq {"write"} /\ HeldAt(p, 3) \subseteq {"write"}
  BY <1>1 DEF HeldAt, Take, Drain
<1>4. Ordered(p) /\ \A i \in DOMAIN p : /\ p[i].do = "take"  => L < Rank(p[i].lock)
                                        /\ p[i].do = "drain" => L < 2
  BY <1>1, <1>2, <1>3 DEF Ordered, Take, Drain
<1>5. \A i \in 1 .. (Len(p) + 1) : HeldAt(p, i) \subseteq {"write"}
  BY <1>1, <1>3
<1>6. Nested(p \o s \o <<Drop("write")>>, L)
  BY <1>1, <1>2, <1>4, <1>5, NestedScope
<1> QED
  BY <1>6 DEF Write, p

LEMMA NestedEmpty == \A L : Nested(<<>>, L)
  BY DEF Nested, Ordered, Balanced, HeldAt

\* Every call that takes no interpreter lock under a lock of the extension is ordered.
LEMMA OrderedScripts ==
    \A c \in DOMAIN Scripts \ UndisciplinedCalls : Ordered(Scripts[c]) /\ Balanced(Scripts[c])
<1>1. /\ Rank("gil") = 1 /\ Rank("read") = 2 /\ Rank("ws") = 4 /\ Rank("openapi") = 4
      /\ {"gil", "read", "ws", "openapi"} \subseteq Locks
  BY DEF Rank, Locks
<1>2. Nested(With("openapi", <<>>), 2) /\ Nested(With("ws", <<>>), 2)
  BY <1>1, NestedEmpty, NestedWith
<1>3. \A L \in {0, 1} : Nested(With("read", <<>>), L)
  BY <1>1, NestedEmpty, NestedWith
<1>4. \A L \in {0, 1} : Nested(Write(<<>>), L)
  BY NestedEmpty, NestedWrite
<1>5. \A s : Nested(s, 1) => Nested(With("gil", s), 0)
  BY <1>1, NestedWith
<1>6. \A s : Nested(s, 2) => Nested(With("read", s), 0) /\ Nested(With("read", s), 1)
  BY <1>1, NestedWith
<1>7. \A s : Nested(s, 2) => Nested(Write(s), 1)
  BY NestedWrite
<1>8. \A s, u, L : L \in {0, 1} /\ Nested(s, L) /\ Nested(u, L) => Nested(s \o u, L)
  BY NestedConcat
<1>a. Nested(AddRoute, 0)
  <2> DEFINE r == With("read", <<>>)
             w == Write(With("openapi", <<>>))
  <2>1. Nested(r, 1) /\ Nested(w, 1)
    BY <1>2, <1>3, <1>7
  <2>2. AddRoute = With("gil", r) \o With("gil", w)
    BY DEF AddRoute
  <2> QED
    BY <1>5, <1>8, <2>1, <2>2
<1>b. Nested(Setter, 0)
  BY <1>4, <1>5 DEF Setter
<1>c. Nested(HandleRsgi, 0)
  BY <1>3, <1>5 DEF HandleRsgi
<1>d. Nested(HandleRsgiCompile, 0)
  BY <1>3, <1>4, <1>5, <1>8 DEF HandleRsgiCompile
<1>e. Nested(RunRsgiCompile, 0)
  BY <1>3, <1>4, <1>5, <1>8 DEF RunRsgiCompile
<1>f. Nested(OpenapiSync, 0)
  BY <1>2, <1>3, <1>5, <1>6, <1>8 DEF OpenapiSync
<1>g. Nested(OpenapiAsync, 0)
  BY <1>2, <1>6 DEF OpenapiAsync
<1>h. Nested(DropActiveWsGuard, 0)
  BY <1>2, <1>6 DEF DropActiveWsGuard
<1>i. Nested(ShutdownWebsockets, 0)
  BY <1>2, <1>5, <1>6 DEF ShutdownWebsockets
<1> QED
  BY <1>a, <1>b, <1>c, <1>d, <1>e, <1>f, <1>g, <1>h, <1>i
     DEF Scripts, Nested, UndisciplinedCalls

\* The operations of a scope, one by one.
LEMMA WithElements ==
    ASSUME NEW l \in Locks, NEW s \in Seq(Ops)
    PROVE  /\ With(l, s) \in Seq(Ops)
           /\ Len(With(l, s)) = Len(s) + 2
           /\ With(l, s)[1] = Take(l)
           /\ \A i \in 1 .. Len(s) : With(l, s)[i + 1] = s[i]
<1> DEFINE p == <<Take(l)>>
           q == <<Drop(l)>>
<1>1. p \in Seq(Ops) /\ q \in Seq(Ops) /\ Len(p) = 1 /\ Len(q) = 1 /\ p[1] = Take(l)
  BY DEF Take, Drop, Ops
<1> HIDE DEF p, q
<1> DEFINE c == p \o s
           d == c \o q
<1>2. /\ c \in Seq(Ops) /\ Len(c) = Len(p) + Len(s) /\ Len(s) \in Nat
      /\ \A i \in 1 .. Len(p) : c[i] = p[i]
      /\ \A i \in 1 .. Len(s) : c[Len(p) + i] = s[i]
  <2>1. p \in Seq(Ops) /\ s \in Seq(Ops) /\ Len(s) \in Nat
    BY <1>1
  <2> QED
    BY <2>1, ConcatElements
<1> HIDE DEF c
<1>3. /\ d \in Seq(Ops) /\ Len(d) = Len(c) + Len(q)
      /\ \A i \in 1 .. Len(c) : d[i] = c[i]
  BY <1>1, <1>2, ConcatElements
<1> HIDE DEF d
<1>4. Len(d) = Len(s) + 2 /\ d[1] = Take(l)
  BY <1>1, <1>2, <1>3
<1>5. ASSUME NEW i \in 1 .. Len(s)
      PROVE  d[i + 1] = s[i]
  <2>1. i + 1 = Len(p) + i /\ i + 1 \in 1 .. Len(c)
    BY <1>1, <1>2
  <2> QED
    BY <1>2, <1>3, <2>1
<1>6. With(l, s) = d
  BY DEF With, d, c, p, q
<1> QED
  BY <1>3, <1>4, <1>5, <1>6

LEMMA WriteElements ==
    ASSUME NEW s \in Seq(Ops)
    PROVE  /\ Write(s) \in Seq(Ops)
           /\ Len(Write(s)) = Len(s) + 3
           /\ Write(s)[1] = Take("write") /\ Write(s)[2] = Drain
           /\ \A i \in 1 .. Len(s) : Write(s)[i + 2] = s[i]
<1> DEFINE p == <<Take("write"), Drain>>
           q == <<Drop("write")>>
<1>1. /\ p \in Seq(Ops) /\ q \in Seq(Ops) /\ Len(p) = 2 /\ Len(q) = 1
      /\ p[1] = Take("write") /\ p[2] = Drain
  BY DEF Take, Drop, Drain, Ops, Locks
<1> HIDE DEF p, q
<1> DEFINE c == p \o s
           d == c \o q
<1>2. /\ c \in Seq(Ops) /\ Len(c) = Len(p) + Len(s) /\ Len(s) \in Nat
      /\ \A i \in 1 .. Len(p) : c[i] = p[i]
      /\ \A i \in 1 .. Len(s) : c[Len(p) + i] = s[i]
  <2>1. p \in Seq(Ops) /\ s \in Seq(Ops) /\ Len(s) \in Nat
    BY <1>1
  <2> QED
    BY <2>1, ConcatElements
<1> HIDE DEF c
<1>3. /\ d \in Seq(Ops) /\ Len(d) = Len(c) + Len(q)
      /\ \A i \in 1 .. Len(c) : d[i] = c[i]
  BY <1>1, <1>2, ConcatElements
<1> HIDE DEF d
<1>4. Len(d) = Len(s) + 3 /\ d[1] = Take("write") /\ d[2] = Drain
  BY <1>1, <1>2, <1>3
<1>5. ASSUME NEW i \in 1 .. Len(s)
      PROVE  d[i + 2] = s[i]
  <2>1. i + 2 = Len(p) + i /\ i + 2 \in 1 .. Len(c)
    BY <1>1, <1>2
  <2> QED
    BY <1>2, <1>3, <2>1
<1>6. Write(s) = d
  BY DEF Write, d, c, p, q
<1> QED
  BY <1>3, <1>4, <1>5, <1>6

\* A script that takes the interpreter lock while it holds another lock is not ordered.
LEMMA GilTakenLate ==
    ASSUME NEW s, NEW i \in DOMAIN s, s[i] = Take("gil"), NEW l \in HeldAt(s, i)
    PROVE  ~Ordered(s)
<1>1. l \in Locks /\ Rank("gil") = 1 /\ s[i].do = "take" /\ s[i].lock = "gil"
  BY DEF HeldAt, Take, Rank
<1>2. ~(Rank(l) < 1)
  BY <1>1 DEF Locks, Rank
<1> QED
  BY <1>1, <1>2 DEF Ordered

\* What Bytecode does to the interpreter lock.
LEMMA BytecodeElements ==
    /\ Bytecode \in Seq(Ops) /\ Len(Bytecode) = 2
    /\ Bytecode[1] = Drop("gil") /\ Bytecode[2] = Take("gil")
  BY DEF Bytecode, Take, Drop, Ops, Locks

\* The calls left out of OrderedCallsNoDeadlock are exactly those that break the order:
\* add_exception_handler, which asks inspect under the write lock, run_rsgi_websocket when it
\* enters the connection, and shutdown_websockets when close is Python code.
THEOREM UndisciplinedExactly ==
    \A c \in DOMAIN Scripts : c \in UndisciplinedCalls <=> ~Ordered(Scripts[c])
<1>0. /\ {"gil", "read", "ws", "write"} \subseteq Locks /\ <<>> \in Seq(Ops)
      /\ Drop("gil") # Drop("read") /\ Drop("gil") # Drop("write") /\ Drain # Drop("write")
      /\ \A l, m \in Locks : Take(l) # Drop(m)
      /\ \A l \in Locks : Take(l).do = "take" /\ Take(l).lock = l
  BY DEF Locks, Take, Drop, Drain
<1>1. ~Ordered(AddExceptionHandler)
  <2> DEFINE w == Write(Bytecode)
             s == With("gil", w)
  <2>1. /\ w \in Seq(Ops) /\ Len(w) = 5 /\ w[1] = Take("write") /\ w[2] = Drain
        /\ w[3] = Drop("gil") /\ w[4] = Take("gil")
    <3>1. 1 \in 1 .. Len(Bytecode) /\ 2 \in 1 .. Len(Bytecode)
      BY BytecodeElements
    <3>2. w[1 + 2] = Bytecode[1] /\ w[2 + 2] = Bytecode[2]
      BY <3>1, BytecodeElements, WriteElements
    <3>3. w \in Seq(Ops) /\ Len(w) = Len(Bytecode) + 3 /\ w[1] = Take("write") /\ w[2] = Drain
      BY BytecodeElements, WriteElements
    <3> HIDE DEF w
    <3> QED
      BY <3>2, <3>3, BytecodeElements
  <2> HIDE DEF w
  <2>2. /\ s \in Seq(Ops) /\ Len(s) = 7 /\ s[2] = Take("write") /\ s[3] = Drain
        /\ s[4] = Drop("gil") /\ s[5] = Take("gil")
    <3>1. {1, 2, 3, 4} \subseteq 1 .. Len(w) /\ "gil" \in Locks
      BY <1>0, <2>1
    <3>2. \A i \in 1 .. Len(w) : s[i + 1] = w[i]
      BY <2>1, <3>1, WithElements
    <3>3. s \in Seq(Ops) /\ Len(s) = Len(w) + 2
      BY <2>1, <3>1, WithElements
    <3> HIDE DEF s
    <3>4. s[1 + 1] = w[1] /\ s[2 + 1] = w[2] /\ s[3 + 1] = w[3] /\ s[4 + 1] = w[4]
      BY <3>1, <3>2
    <3> QED
      BY <2>1, <3>3, <3>4
  <2>3. AddExceptionHandler = s
    BY DEF AddExceptionHandler, s, w
  <2> HIDE DEF s
  <2>4. "write" \in HeldAt(s, 5)
    <3>1. \A k \in (2 + 1) .. (5 - 1) : s[k] # Drop("write")
      <4>1. (2 + 1) .. (5 - 1) = {3, 4}
        OBVIOUS
      <4> QED
        BY <1>0, <2>2, <4>1
    <3>2. 2 \in 1 .. (5 - 1) /\ s[2].do = "take" /\ s[2].lock = "write" /\ "write" \in Locks
      BY <1>0, <2>2
    <3> QED
      BY <3>1, <3>2 DEF HeldAt
  <2> QED
    BY <2>2, <2>3, <2>4, GilTakenLate
<1>2. ~Ordered(RegisterWebsocket)
  <2> DEFINE e == <<>>
             u == With("ws", e)
             g == With("gil", u)
             s == With("read", g)
  <2>0. e \in Seq(Ops)
    OBVIOUS
  <2> HIDE DEF e
  <2>1. u \in Seq(Ops) /\ Len(u) \in Nat
    <3>1. u \in Seq(Ops)
      BY <1>0, <2>0, WithElements
    <3> QED
      BY <3>1
  <2> HIDE DEF u
  <2>2. g \in Seq(Ops) /\ Len(g) = Len(u) + 2 /\ g[1] = Take("gil")
    BY <1>0, <2>1, WithElements
  <2> HIDE DEF g
  <2>3. s \in Seq(Ops) /\ Len(s) = Len(g) + 2 /\ s[1] = Take("read") /\ s[2] = Take("gil")
    <3>1. 1 \in 1 .. Len(g)
      BY <2>1, <2>2
    <3>2. s[1 + 1] = g[1]
      BY <1>0, <2>2, <3>1, WithElements
    <3> QED
      BY <1>0, <2>2, <3>2, WithElements
  <2>4. RegisterWebsocket = s
    BY DEF RegisterWebsocket, s, g, u, e
  <2> HIDE DEF s
  <2>5. "read" \in HeldAt(s, 2)
    <3>1. \A k \in (1 + 1) .. (2 - 1) : s[k] # Drop("read")
      OBVIOUS
    <3>2. 1 \in 1 .. (2 - 1) /\ s[1].do = "take" /\ s[1].lock = "read" /\ "read" \in Locks
      BY <1>0, <2>3
    <3> QED
      BY <3>1, <3>2 DEF HeldAt
  <2> QED
    BY <2>1, <2>2, <2>3, <2>4, <2>5, GilTakenLate
<1>3. ~Ordered(ShutdownWrapped)
  <2> DEFINE u == With("ws", Bytecode)
             v == With("read", u)
             s == With("gil", v)
  <2>1. /\ u \in Seq(Ops) /\ Len(u) = 4 /\ u[1] = Take("ws")
        /\ u[2] = Drop("gil") /\ u[3] = Take("gil")
    <3>1. 1 \in 1 .. Len(Bytecode) /\ 2 \in 1 .. Len(Bytecode)
      BY BytecodeElements
    <3>2. u[1 + 1] = Bytecode[1] /\ u[2 + 1] = Bytecode[2]
      BY <1>0, <3>1, BytecodeElements, WithElements
    <3>3. u \in Seq(Ops) /\ Len(u) = Len(Bytecode) + 2 /\ u[1] = Take("ws")
      BY <1>0, BytecodeElements, WithElements
    <3> HIDE DEF u
    <3> QED
      BY <3>2, <3>3, BytecodeElements
  <2> HIDE DEF u
  <2>2. /\ v \in Seq(Ops) /\ Len(v) = 6 /\ v[1] = Take("read") /\ v[2] = Take("ws")
        /\ v[3] = Drop("gil") /\ v[4] = Take("gil")
    <3>1. {1, 2, 3} \subseteq 1 .. Len(u)
      BY <2>1
    <3>2. \A i \in 1 .. Len(u) : v[i + 1] = u[i]
      BY <1>0, <2>1, WithElements
    <3>3. v \in Seq(Ops) /\ Len(v) = Len(u) + 2 /\ v[1] = Take("read")
      BY <1>0, <2>1, WithElements
    <3> HIDE DEF v
    <3>4. v[1 + 1] = u[1] /\ v[2 + 1] = u[2] /\ v[3 + 1] = u[3]
      BY <3>1, <3>2
    <3> QED
      BY <2>1, <3>3, <3>4
  <2> HIDE DEF v
  <2>3. /\ s \in Seq(Ops) /\ Len(s) = 8 /\ s[2] = Take("read") /\ s[3] = Take("ws")
        /\ s[4] = Drop("gil") /\ s[5] = Take("gil")
    <3>1. {1, 2, 3, 4} \subseteq 1 .. Len(v)
      BY <2>2
    <3>2. \A i \in 1 .. Len(v) : s[i + 1] = v[i]
      BY <1>0, <2>2, WithElements
    <3>3. s \in Seq(Ops) /\ Len(s) = Len(v) + 2
      BY <1>0, <2>2, WithElements
    <3> HIDE DEF s
    <3>4. s[1 + 1] = v[1] /\ s[2 + 1] = v[2] /\ s[3 + 1] = v[3] /\ s[4 + 1] = v[4]
      BY <3>1, <3>2
    <3> QED
      BY <2>2, <3>3, <3>4
  <2>4. ShutdownWrapped = s
    BY DEF ShutdownWrapped, s, v, u
  <2> HIDE DEF s
  <2>5. "read" \in HeldAt(s, 5)
    <3>1. \A k \in (2 + 1) .. (5 - 1) : s[k] # Drop("read")
      <4>1. (2 + 1) .. (5 - 1) = {3, 4}
        OBVIOUS
      <4> QED
        BY <1>0, <2>3, <4>1
    <3>2. 2 \in 1 .. (5 - 1) /\ s[2].do = "take" /\ s[2].lock = "read" /\ "read" \in Locks
      BY <1>0, <2>3
    <3> QED
      BY <3>1, <3>2 DEF HeldAt
  <2> QED
    BY <2>3, <2>4, <2>5, GilTakenLate
<1> QED
  BY <1>1, <1>2, <1>3, OrderedScripts DEF UndisciplinedCalls, Scripts

\* The native calls never deadlock, for every number of threads, as long as nobody adds an
\* exception handler, no WebSocket is opened and shutdown_websockets meets no wrapped
\* protocol object.  With one of these calls the runs lock_handler and lock_opening find a
\* deadlock.
THEOREM OrderedCallsNoDeadlock ==
    Calls \subseteq DOMAIN Scripts \ UndisciplinedCalls => (Spec => []NoDeadlock)
  BY OrderedScripts, DisciplinedNoDeadlock DEF Disciplined
=============================================================================
