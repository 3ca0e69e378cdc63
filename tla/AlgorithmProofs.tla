-------------------------- MODULE AlgorithmProofs --------------------------
(***************************************************************************)
(* Proofs about the sequential algorithms: the ordering of dependencies,   *)
(* for any names and any declarations; the adaptive limiter, for any       *)
(* limits, parameters and latencies and any precision Scale; the two       *)
(* implementations of CORS, for any configuration and request; path        *)
(* parameters, for any segment and any width of integers; and JSON, for    *)
(* any objects of any depth and any limits.                                *)
(***************************************************************************)
EXTENDS Dependencies, AdaptiveLimiter, Cors, Coercion, Json, FiniteSetTheorems,
        FunctionTheorems, SequenceTheorems, WellFoundedInduction, TLAPS

-----------------------------------------------------------------------------
(* Numbers.                                                                *)

\* The least-number principle, from the library's theorem on well-founded relations.
LEMMA LeastNumber ==
  ASSUME NEW T, T \subseteq Nat, T # {}
  PROVE  \E x \in T : \A y \in T : x <= y
<1> DEFINE R == {ss \in Nat \X Nat : ss[1] < ss[2]}
<1>1. IsWellFoundedOn(R, Nat)
  BY NatLessThanWellFounded DEF OpToRel
<1>2. \A x, y \in Nat : y < x => <<y, x>> \in R
  OBVIOUS
<1> HIDE DEF R
<1>3. PICK x \in T : \A y \in T : ~(<<y, x>> \in R)
  BY <1>1, WFMin
<1>4. ASSUME NEW y \in T PROVE x <= y
  <2>1. x \in Nat /\ y \in Nat /\ ~(<<y, x>> \in R)
    BY <1>3
  <2>2. ~(y < x)
    BY <1>2, <2>1
  <2> QED BY <2>1, <2>2
<1> QED BY <1>4

\* Induction on a rank: what holds for a member when it holds for all those of smaller rank
\* holds for all.
LEMMA RankInduction ==
  ASSUME NEW D, NEW rank \in [D -> Nat], NEW Holds,
         \A x \in D : (\A y \in D : rank[y] < rank[x] => y \in Holds) => x \in Holds
  PROVE  D \subseteq Holds
<1> DEFINE Fails == D \ Holds
           Ranks == {rank[x] : x \in Fails}
<1> SUFFICES ASSUME Fails # {} PROVE FALSE
  OBVIOUS
<1>1. Ranks \subseteq Nat /\ Ranks # {}
  OBVIOUS
<1>2. PICK n \in Ranks : \A m \in Ranks : n <= m
  <2> HIDE DEF Ranks
  <2> QED BY <1>1, LeastNumber
<1>3. PICK x \in Fails : n = rank[x]
  OBVIOUS
<1>4. PICK y \in D : rank[y] < rank[x] /\ y \notin Holds
  OBVIOUS
<1>5. rank[y] \in Ranks /\ rank[y] \in Nat /\ rank[x] \in Nat
  BY <1>4
<1> HIDE DEF Ranks, Fails
<1> QED BY <1>2, <1>3, <1>4, <1>5

-----------------------------------------------------------------------------
(* Recursive functions.                                                    *)

DumpsOnce(v, f) ==
    IF v.type = "dict"
    THEN Mapping("object", [k \in DOMAIN v.pairs |->
                               <<DumpsKey(v.pairs[k][1]), f[v.pairs[k][2]]>>])
    ELSE IF v.type \in {"list", "tuple"}
    THEN Sequence("array", [k \in DOMAIN v.members |-> f[v.members[k]]])
    ELSE DumpsScalar(v)

WriteOnce(p, f) ==
    LET v == p[1]
        Inner(member) == f[<<member, p[2] + 1>>]
    IN  IF p[2] > MaxDepth THEN ERROR
        ELSE IF v.type = "dict"
        THEN Mapping("object", [k \in DOMAIN v.pairs |->
                                   <<Key(v.pairs[k][1]), Inner(v.pairs[k][2])>>])
        ELSE IF v.type \in {"list", "tuple"}
        THEN Sequence("array", [k \in DOMAIN v.members |-> Inner(v.members[k])])
        ELSE Scalar(v)

ReadOnce(p, f) ==
    LET j == p[1]
        Inner(part) == f[<<part, p[2] + 1>>]
    IN  IF j.type \in {"array", "object"} /\ p[2] + 1 >= MaxDepth THEN ERROR
        ELSE IF j.type = "array"
        THEN Sequence("list", [k \in DOMAIN j.members |-> Inner(j.members[k])])
        ELSE IF j.type = "object"
        THEN Mapping("dict", [k \in DOMAIN j.pairs |->
                                 <<ReadScalar(j.pairs[k][1]), Inner(j.pairs[k][2])>>])
        ELSE ReadScalar(j)

CarryOnce(p, f) ==
    LET v == p[1]
        Inner(part) == f[<<part, p[2] + 1>>]
        key(k) == v.pairs[k][1]
    IN  IF v.type \in {"list", "tuple", "dict"} /\ p[2] + 1 >= MaxDepth THEN ERROR
        ELSE IF v.type \in {"list", "tuple"}
        THEN Sequence("list", [k \in DOMAIN v.members |-> Inner(v.members[k])])
        ELSE IF v.type = "dict"
        THEN Mapping("dict", [k \in DOMAIN v.pairs |->
                 <<IF key(k).type = "str" /\ Carries(key(k)) THEN key(k) ELSE ERROR,
                   Inner(v.pairs[k][2])>>])
        ELSE IF Carries(v) THEN v ELSE ERROR

\* The bodies of the recursive functions, where f stands for the recursive calls.
Body(name, x, f) ==
    CASE name = "Magnitude" ->
           IF x = <<>> THEN 0 ELSE 10 * f[Front(x)] + DigitValue(Last(x))
      [] name = "Numeral" ->
           IF x < 10 THEN <<Digits[x + 1]>> ELSE Append(f[x \div 10], Digits[(x % 10) + 1])
      [] name = "Dumps" -> DumpsOnce(x, f)
      [] name = "WritePyJson" -> WriteOnce(x, f)
      [] name = "JsonBytesToPy" -> ReadOnce(x, f)
      [] name = "Carried" -> CarryOnce(x, f)

\* On D, every call is about something of a smaller rank.
Descends(name, D, rank) ==
    /\ rank \in [D -> Nat]
    /\ \A x \in D : \A f, g :
          (\A y \in D : rank[y] < rank[x] => f[y] = g[y]) => Body(name, x, f) = Body(name, x, g)

Solves(f, name, D) == f = [x \in D |-> Body(name, x, f)]

\* A recursive definition that descends has a solution: the union of the solutions up to
\* each rank, which agree where they overlap.
LEMMA RecursionHasSolution ==
  ASSUME NEW name, NEW D, NEW rank, Descends(name, D, rank)
  PROVE  \E f : Solves(f, name, D)
<1> DEFINE Below(n) == {x \in D : rank[x] < n}
<1>1. /\ rank \in [D -> Nat]
      /\ \A x \in D : \A f, g :
            (\A y \in D : rank[y] < rank[x] => f[y] = g[y]) => Body(name, x, f) = Body(name, x, g)
  BY DEF Descends
<1>2. ASSUME NEW m \in Nat, NEW n \in Nat, m <= n, NEW f, NEW g,
             Solves(f, name, Below(m)), Solves(g, name, Below(n))
      PROVE  \A z \in Below(m) : f[z] = g[z]
  <2> DEFINE Agree == {z \in D : z \in Below(m) => f[z] = g[z]}
  <2>1. ASSUME NEW x \in D, \A y \in D : rank[y] < rank[x] => y \in Agree
        PROVE  x \in Agree
    <3> SUFFICES ASSUME x \in Below(m) PROVE f[x] = g[x]
      OBVIOUS
    <3>1. x \in Below(n)
      BY <1>1, <1>2
    <3>2. f[x] = Body(name, x, f) /\ g[x] = Body(name, x, g)
      BY <1>2, <3>1 DEF Solves
    <3>3. \A y \in D : rank[y] < rank[x] => f[y] = g[y]
      BY <1>1, <2>1
    <3> QED BY <1>1, <3>2, <3>3
  <2>2. D \subseteq Agree
    <3> HIDE DEF Agree
    <3> QED BY <1>1, <2>1, RankInduction
  <2> QED BY <2>2
<1>3. ASSUME NEW n \in Nat PROVE \E f : Solves(f, name, Below(n))
  <2> DEFINE Solved == {k \in Nat : \E f : Solves(f, name, Below(k))}
             id == [k \in Nat |-> k]
  <2>1. ASSUME NEW k \in Nat, \A j \in Nat : j < k => j \in Solved
        PROVE  k \in Solved
    <3>1. CASE k = 0
      <4>1. Below(0) = {}
        BY <1>1
      <4>2. Solves([x \in Below(0) |-> 0], name, Below(0))
        BY <4>1 DEF Solves
      <4> QED BY <3>1, <4>2
    <3>2. CASE k # 0
      <4>1. k - 1 \in Nat /\ k - 1 < k
        BY <3>2
      <4>2. PICK g : Solves(g, name, Below(k - 1))
        BY <2>1, <4>1
      <4> DEFINE f == [x \in Below(k) |-> Body(name, x, g)]
      <4>3. ASSUME NEW x \in Below(k) PROVE Body(name, x, g) = Body(name, x, f)
        <5>1. ASSUME NEW y \in D, rank[y] < rank[x] PROVE g[y] = f[y]
          <6>1. y \in Below(k - 1) /\ y \in Below(k)
            BY <1>1, <4>1, <5>1
          <6> QED BY <4>2, <6>1 DEF Solves
        <5> HIDE DEF f
        <5> QED BY <1>1, <5>1
      <4>4. Solves(f, name, Below(k))
        <5> DEFINE h == [x \in Below(k) |-> Body(name, x, f)]
        <5>1. f = h
          <6>1. \A x \in Below(k) : f[x] = h[x]
            BY <4>3
          <6> QED BY <4>3
        <5> QED BY <5>1 DEF Solves
      <4> QED BY <4>4
    <3> QED BY <3>1, <3>2
  <2>2. \A k \in Nat : (\A j \in Nat : id[j] < id[k] => j \in Solved) => k \in Solved
    <3> HIDE DEF Solved
    <3> QED BY <2>1
  <2>3. id \in [Nat -> Nat]
    OBVIOUS
  <2>4. Nat \subseteq Solved
    <3> HIDE DEF id, Solved
    <3> QED BY <2>2, <2>3, RankInduction
  <2> QED BY <2>4
<1> DEFINE upto(n) == CHOOSE f : Solves(f, name, Below(n))
           whole == [x \in D |-> upto(rank[x] + 1)[x]]
<1>4. ASSUME NEW n \in Nat PROVE Solves(upto(n), name, Below(n))
  <2> HIDE DEF Below
  <2> QED BY <1>3
<1>5. ASSUME NEW x \in D PROVE whole[x] = Body(name, x, whole)
  <2> DEFINE n == rank[x] + 1
  <2>1. n \in Nat /\ x \in Below(n) /\ rank[x] \in Nat
    BY <1>1
  <2>2. upto(n)[x] = Body(name, x, upto(n))
    <3>1. Solves(upto(n), name, Below(n))
      <4> HIDE DEF upto, n, Below
      <4> QED BY <1>4, <2>1
    <3> HIDE DEF upto, n
    <3> QED BY <2>1, <3>1 DEF Solves
  <2>3. ASSUME NEW y \in D, rank[y] < rank[x] PROVE upto(n)[y] = whole[y]
    <3> DEFINE m == rank[y] + 1
    <3>1. m \in Nat /\ m <= n /\ y \in Below(m)
      BY <1>1, <2>1, <2>3
    <3>2. Solves(upto(m), name, Below(m)) /\ Solves(upto(n), name, Below(n))
      <4> HIDE DEF upto, n, m, Below
      <4> QED BY <1>4, <2>1, <3>1
    <3>3. upto(m)[y] = upto(n)[y]
      <4> HIDE DEF upto, n, m, Below
      <4> QED BY <1>2, <2>1, <3>1, <3>2
    <3> HIDE DEF upto
    <3> QED BY <3>3
  <2>4. Body(name, x, upto(n)) = Body(name, x, whole)
    <3> HIDE DEF upto, whole, n
    <3> QED BY <1>1, <2>3
  <2> HIDE DEF upto
  <2> QED BY <2>2, <2>4
<1>6. Solves(whole, name, D)
  <2>1. whole = [x \in D |-> whole[x]]
    OBVIOUS
  <2> HIDE DEF whole
  <2>2. [x \in D |-> whole[x]] = [x \in D |-> Body(name, x, whole)]
    BY <1>5
  <2> QED BY <2>1, <2>2 DEF Solves
<1> HIDE DEF whole
<1> QED BY <1>6

-----------------------------------------------------------------------------
(* Sequences that list a set.                                              *)

\* s lists the members of S, each once.
Lists(s, S) == s \in Seq(S) /\ ToSet(s) = S /\ IsInjective(s)

LEMMA ListedByPosition ==
  ASSUME NEW S, NEW s, Lists(s, S)
  PROVE  /\ Len(s) \in Nat /\ DOMAIN s = 1 .. Len(s)
         /\ \A k \in 1 .. Len(s) : s[k] \in S
         /\ \A x \in S : \E k \in 1 .. Len(s) : s[k] = x
         /\ \A j, k \in 1 .. Len(s) : s[j] = s[k] => j = k
<1>1. s \in Seq(S) /\ ToSet(s) = S /\ IsInjective(s)
  BY DEF Lists
<1>2. Len(s) \in Nat /\ DOMAIN s = 1 .. Len(s)
  BY <1>1, LenProperties
<1>3. S = {s[k] : k \in 1 .. Len(s)}
  BY <1>1, <1>2 DEF ToSet
<1> QED BY <1>1, <1>2, <1>3 DEF IsInjective

\* The converse of ListedByPosition.
LEMMA ListsByPosition ==
  ASSUME NEW S, NEW n \in Nat, NEW s \in [1 .. n -> S],
         \A x \in S : \E k \in 1 .. n : s[k] = x,
         \A j, k \in 1 .. n : s[j] = s[k] => j = k
  PROVE  Lists(s, S) /\ Len(s) = n
<1>1. s \in Seq(S) /\ DOMAIN s = 1 .. n
  BY SeqDef
<1>2. Len(s) = n
  BY <1>1, LenProperties
<1>3. ToSet(s) = S
  BY <1>1 DEF ToSet
<1>4. IsInjective(s)
  BY <1>1 DEF IsInjective
<1> QED BY <1>1, <1>2, <1>3, <1>4 DEF Lists

\* A list is as long as the set is large.
LEMMA ListLength ==
  ASSUME NEW S, NEW s, Lists(s, S)
  PROVE  IsFiniteSet(S) /\ Len(s) = Cardinality(S)
<1>1. /\ Len(s) \in Nat /\ s \in [1 .. Len(s) -> S]
      /\ \A j, k \in 1 .. Len(s) : s[j] = s[k] => j = k
      /\ \A x \in S : \E k \in 1 .. Len(s) : s[k] = x
  <2>1. s \in [1 .. Len(s) -> S]
    BY LenProperties DEF Lists
  <2> QED BY <2>1, ListedByPosition
<1>2. s \in Bijection(1 .. Len(s), S)
  BY <1>1, Fun_IsBij
<1>3. ExistsBijection(1 .. Len(s), S)
  BY <1>2 DEF ExistsBijection
<1> QED BY <1>1, <1>3, FS_NatBijection, FS_CountingElements

\* Pushing a new element.
LEMMA AppendLists ==
  ASSUME NEW S, NEW s, NEW x, Lists(s, S), x \notin S
  PROVE  /\ Lists(Append(s, x), S \cup {x})
         /\ Len(Append(s, x)) = Len(s) + 1 /\ Append(s, x)[Len(s) + 1] = x
         /\ \A k \in 1 .. Len(s) : Append(s, x)[k] = s[k]
<1> DEFINE T == S \cup {x}
           t == Append(s, x)
           n == Len(s) + 1
<1>1. s \in Seq(T) /\ x \in T
  BY SeqMonotonic DEF Lists
<1>2. /\ t \in Seq(T) /\ Len(t) = n /\ t[n] = x
      /\ \A k \in 1 .. Len(s) : t[k] = s[k]
  BY <1>1, AppendProperties
<1>3. Len(s) \in Nat /\ n \in Nat
  BY ListedByPosition
<1>4. t \in [1 .. n -> T]
  BY <1>2, LenProperties
<1>5. \A y \in T : \E k \in 1 .. n : t[k] = y
  BY <1>2, <1>3, ListedByPosition
<1>6. \A j, k \in 1 .. n : t[j] = t[k] => j = k
  BY <1>2, <1>3, ListedByPosition
<1> HIDE DEF t, n, T
<1>7. Lists(t, T)
  BY <1>3, <1>4, <1>5, <1>6, ListsByPosition
<1> QED BY <1>2, <1>7 DEF t, n, T

\* Popping the last element.
LEMMA FrontLists ==
  ASSUME NEW S, NEW s, Lists(s, S), s # <<>>
  PROVE  Lists(Front(s), S \ {Last(s)}) /\ Last(s) \in S
<1> DEFINE n == Len(s) - 1
           T == S \ {Last(s)}
<1>1. n \in Nat /\ Last(s) = s[n + 1] /\ n + 1 = Len(s) /\ n + 1 \in 1 .. Len(s)
  BY EmptySeq DEF Lists, Last
<1>2. Last(s) \in S
  BY <1>1, ListedByPosition
<1>3. \A k \in 1 .. n : s[k] \in T
  BY <1>1, ListedByPosition
<1>4. /\ Front(s) \in Seq(T) /\ Len(Front(s)) = n
      /\ \A k \in 1 .. n : Front(s)[k] = s[k]
  <2>1. 1 \in Int /\ n \in Int /\ \A i \in 1 .. n : s[i] \in T
    BY <1>1, <1>3
  <2>2. /\ SubSeq(s, 1, n) \in Seq(T)
        /\ Len(SubSeq(s, 1, n)) = IF 1 <= n THEN n - 1 + 1 ELSE 0
        /\ \A i \in 1 .. n - 1 + 1 : SubSeq(s, 1, n)[i] = s[1 + i - 1]
    BY <2>1, SubSeqProperties
  <2>3. n - 1 + 1 = n /\ (IF 1 <= n THEN n - 1 + 1 ELSE 0) = n /\ \A i \in 1 .. n : 1 + i - 1 = i
    BY <1>1
  <2>4. Front(s) = SubSeq(s, 1, n)
    BY DEF Front
  <2> HIDE DEF n, T
  <2> QED BY <2>2, <2>3, <2>4
<1>5. Front(s) \in [1 .. n -> T]
  BY <1>4, LenProperties
<1>6. \A y \in T : \E k \in 1 .. n : Front(s)[k] = y
  <2> SUFFICES ASSUME NEW y \in T PROVE \E k \in 1 .. n : Front(s)[k] = y
    OBVIOUS
  <2>1. PICK k \in 1 .. Len(s) : s[k] = y
    BY ListedByPosition
  <2>2. k \in 1 .. n
    BY <1>1, <2>1
  <2> QED BY <1>4, <2>1, <2>2
<1>7. \A j, k \in 1 .. n : Front(s)[j] = Front(s)[k] => j = k
  BY <1>1, <1>4, ListedByPosition
<1> HIDE DEF n, T
<1>8. Lists(Front(s), T)
  BY <1>1, <1>5, <1>6, <1>7, ListsByPosition
<1> QED BY <1>2, <1>8 DEF T

LEMMA ReverseLists ==
  ASSUME NEW S, NEW s, Lists(s, S)
  PROVE  Lists(Reverse(s), S)
<1> DEFINE n == Len(s)
<1>1. n \in Nat
  BY ListedByPosition
<1>2. \A k \in 1 .. n : n - k + 1 \in 1 .. n /\ Reverse(s)[k] = s[n - k + 1]
  BY <1>1 DEF Reverse
<1>3. Reverse(s) \in [1 .. n -> S]
  BY <1>1, ListedByPosition DEF Reverse
<1>4. \A y \in S : \E k \in 1 .. n : Reverse(s)[k] = y
  <2> SUFFICES ASSUME NEW y \in S PROVE \E k \in 1 .. n : Reverse(s)[k] = y
    OBVIOUS
  <2>1. PICK k \in 1 .. n : s[k] = y
    BY ListedByPosition
  <2>2. n - k + 1 \in 1 .. n /\ n - (n - k + 1) + 1 = k
    BY <1>1
  <2> QED BY <1>2, <2>1, <2>2
<1>5. \A j, k \in 1 .. n : Reverse(s)[j] = Reverse(s)[k] => j = k
  <2> SUFFICES ASSUME NEW j \in 1 .. n, NEW k \in 1 .. n, Reverse(s)[j] = Reverse(s)[k]
               PROVE  j = k
    OBVIOUS
  <2>1. /\ n - j + 1 \in 1 .. n /\ n - k + 1 \in 1 .. n
        /\ s[n - j + 1] = s[n - k + 1]
    BY <1>2
  <2>2. \A x, y \in 1 .. n : s[x] = s[y] => x = y
    BY ListedByPosition
  <2>3. n - j + 1 = n - k + 1
    <3> HIDE DEF n
    <3> QED BY <2>1, <2>2
  <2> QED BY <1>1, <2>3
<1> HIDE DEF n
<1> QED BY <1>1, <1>3, <1>4, <1>5, ListsByPosition

LEMMA ConcatLists ==
  ASSUME NEW S, NEW T, NEW s, NEW t, Lists(s, S), Lists(t, T), S \cap T = {}
  PROVE  Lists(s \o t, S \cup T)
<1> DEFINE m == Len(s)
           n == Len(t)
           U == S \cup T
           u == s \o t
           l == m + n
<1>1. m \in Nat /\ n \in Nat /\ l \in Nat
  BY ListedByPosition
<1>2. s \in Seq(U) /\ t \in Seq(U)
  BY SeqMonotonic DEF Lists
<1>3. /\ u \in Seq(U) /\ Len(u) = l
      /\ \A k \in 1 .. l : u[k] = IF k <= m THEN s[k] ELSE t[k - m]
  BY <1>2, ConcatProperties
<1>4. u \in [1 .. l -> U]
  BY <1>3, LenProperties
<1>5. \A y \in U : \E k \in 1 .. l : u[k] = y
  <2> SUFFICES ASSUME NEW y \in U PROVE \E k \in 1 .. l : u[k] = y
    OBVIOUS
  <2>1. CASE y \in S
    <3>1. PICK k \in 1 .. m : s[k] = y
      BY <2>1, ListedByPosition
    <3>2. k \in 1 .. l /\ k <= m
      BY <1>1
    <3> HIDE DEF u, m, n, l
    <3> QED BY <1>3, <3>1, <3>2
  <2>2. CASE y \in T
    <3>1. PICK k \in 1 .. n : t[k] = y
      BY <2>2, ListedByPosition
    <3> DEFINE i == m + k
    <3>2. i \in 1 .. l /\ ~(i <= m) /\ i - m = k
      BY <1>1
    <3> HIDE DEF u, m, n, i, l
    <3> QED BY <1>3, <3>1, <3>2
  <2> QED BY <2>1, <2>2
<1>6. \A j, k \in 1 .. l : u[j] = u[k] => j = k
  <2> SUFFICES ASSUME NEW j \in 1 .. l, NEW k \in 1 .. l, u[j] = u[k]
               PROVE  j = k
    OBVIOUS
  <2>1. \A i \in 1 .. l : i <= m => i \in 1 .. m /\ u[i] = s[i] /\ u[i] \in S
    <3> HIDE DEF u
    <3> QED BY <1>1, <1>3, ListedByPosition
  <2>2. \A i \in 1 .. l : ~(i <= m) => i - m \in 1 .. n /\ u[i] = t[i - m] /\ u[i] \in T
    <3> HIDE DEF u
    <3> QED BY <1>1, <1>3, ListedByPosition
  <2> HIDE DEF u
  <2>3. CASE j <= m /\ k <= m
    BY <2>1, <2>3, ListedByPosition
  <2>4. CASE ~(j <= m) /\ ~(k <= m)
    <3>1. j - m = k - m
      BY <2>2, <2>4, ListedByPosition
    <3> QED BY <1>1, <3>1
  <2>5. (j <= m) <=> (k <= m)
    BY <2>1, <2>2
  <2> QED BY <2>3, <2>4, <2>5
<1> HIDE DEF m, n, U, u, l
<1>7. l \in Nat
  BY <1>1
<1>8. Lists(u, U)
  BY <1>4, <1>5, <1>6, <1>7, ListsByPosition
<1> QED BY <1>8 DEF u, U

\* A set of numbers can be sorted: each one's place is the count of those up to it.
LEMMA SortingExists ==
  ASSUME NEW S \in SUBSET Nat, IsFiniteSet(S)
  PROVE  \E s \in [1 .. Cardinality(S) -> S] :
            \A j, k \in 1 .. Cardinality(S) : j < k => s[j] < s[k]
<1> DEFINE n == Cardinality(S)
           upto(x) == {y \in S : y <= x}
           rank == [x \in S |-> Cardinality(upto(x))]
<1>1. n \in Nat /\ IsFiniteSet(1 .. n) /\ Cardinality(1 .. n) = n
  <2>1. n \in Nat
    BY FS_CardinalityType
  <2> HIDE DEF n
  <2>2. IsFiniteSet(1 .. n) /\ Cardinality(1 .. n) = IF 1 > n THEN 0 ELSE n - 1 + 1
    BY <2>1, FS_Interval
  <2> QED BY <2>1, <2>2
<1>2. \A x \in S : IsFiniteSet(upto(x)) /\ Cardinality(upto(x)) \in 1 .. n
  <2> SUFFICES ASSUME NEW x \in S
               PROVE  IsFiniteSet(upto(x)) /\ Cardinality(upto(x)) \in 1 .. n
    OBVIOUS
  <2>1. IsFiniteSet(upto(x)) /\ Cardinality(upto(x)) <= n
    BY FS_Subset
  <2>2. x \in upto(x)
    OBVIOUS
  <2>3. Cardinality(upto(x)) # 0
    BY <2>1, <2>2, FS_EmptySet
  <2>4. Cardinality(upto(x)) \in Nat
    BY <2>1, FS_CardinalityType
  <2> HIDE DEF upto, n
  <2> QED BY <1>1, <2>1, <2>3, <2>4
<1>3. \A x, y \in S : x < y => rank[x] < rank[y]
  <2> SUFFICES ASSUME NEW x \in S, NEW y \in S, x < y PROVE rank[x] < rank[y]
    OBVIOUS
  <2>0. x \in Nat /\ y \in Nat /\ \A z \in S : z \in Nat
    OBVIOUS
  <2>1. upto(x) \in SUBSET upto(y) /\ y \in upto(y) /\ y \notin upto(x)
    <3>1. y <= y /\ ~(y <= x)
      BY <2>0
    <3>2. \A z \in upto(x) : z \in upto(y)
      BY <2>0
    <3> QED BY <3>1, <3>2
  <2>2. /\ Cardinality(upto(x)) <= Cardinality(upto(y))
        /\ Cardinality(upto(y)) = Cardinality(upto(x)) => upto(y) = upto(x)
    BY <1>2, <2>1, FS_Subset
  <2>3. Cardinality(upto(x)) \in 1 .. n /\ Cardinality(upto(y)) \in 1 .. n
    BY <1>2
  <2>4. rank[x] = Cardinality(upto(x)) /\ rank[y] = Cardinality(upto(y))
    OBVIOUS
  <2> HIDE DEF upto, rank, n
  <2> QED BY <1>1, <2>1, <2>2, <2>3, <2>4
<1>4. rank \in [S -> 1 .. n]
  BY <1>2
<1> HIDE DEF n, upto, rank
<1>5. \A x, y \in S : rank[x] = rank[y] => x = y
  <2> SUFFICES ASSUME NEW x \in S, NEW y \in S, rank[x] = rank[y] PROVE x = y
    OBVIOUS
  <2>1. rank[x] \in Int /\ ~(rank[x] < rank[y]) /\ ~(rank[y] < rank[x])
    BY <1>1, <1>4
  <2>2. ~(x < y) /\ ~(y < x)
    BY <1>3, <2>1
  <2> QED BY <2>2
<1>6. rank \in Injection(S, 1 .. n)
  BY <1>4, <1>5, Fun_IsInj
<1>7. Cardinality(S) = Cardinality(1 .. n)
  BY <1>1 DEF n
<1>8. rank \in Surjection(S, 1 .. n)
  BY <1>1, <1>6, <1>7, FS_Injection
<1>9. rank \in Bijection(S, 1 .. n)
  BY <1>6, <1>8 DEF Bijection
<1> DEFINE s == Inverse(rank, S, 1 .. n)
<1>10. s \in Bijection(1 .. n, S) /\ \A x \in S : s[rank[x]] = x
  BY <1>9, Fun_BijInverse
<1>11. s \in [1 .. n -> S]
  BY <1>10 DEF Bijection, Injection
<1>12. \A j \in 1 .. n : rank[s[j]] = j
  <2> SUFFICES ASSUME NEW j \in 1 .. n PROVE rank[s[j]] = j
    OBVIOUS
  <2>1. PICK x \in S : rank[x] = j
    BY <1>8 DEF Surjection
  <2> HIDE DEF s
  <2> QED BY <1>10, <2>1
<1> HIDE DEF s
<1>13. \A j, k \in 1 .. n : j < k => s[j] < s[k]
  <2> SUFFICES ASSUME NEW j \in 1 .. n, NEW k \in 1 .. n, j < k PROVE s[j] < s[k]
    OBVIOUS
  <2>1. s[j] \in S /\ s[k] \in S /\ rank[s[j]] = j /\ rank[s[k]] = k
    BY <1>11, <1>12
  <2>2. s[j] # s[k]
    BY <2>1
  <2>3. ~(s[k] < s[j])
    <3>1. ~(rank[s[k]] < rank[s[j]])
      BY <1>1, <2>1
    <3>2. ASSUME NEW x \in S, NEW y \in S, ~(rank[x] < rank[y]) PROVE ~(x < y)
      BY <1>3, <3>2
    <3> QED BY <2>1, <3>1, <3>2
  <2>4. s[j] \in Nat /\ s[k] \in Nat
    BY <2>1
  <2> QED BY <2>2, <2>3, <2>4
<1> QED BY <1>11, <1>13 DEF n

LEMMA SortedLists ==
  ASSUME NEW S \in SUBSET Nat, IsFiniteSet(S)
  PROVE  Lists(Sorted(S), S)
<1> DEFINE n == Cardinality(S)
           s == Sorted(S)
<1>1. s \in [1 .. n -> S] /\ \A j, k \in 1 .. n : j < k => s[j] < s[k]
  BY SortingExists DEF Sorted
<1>2. n \in Nat
  BY FS_CardinalityType
<1>3. IsFiniteSet(1 .. n) /\ Cardinality(1 .. n) = n
  <2> HIDE DEF n
  <2>1. IsFiniteSet(1 .. n) /\ Cardinality(1 .. n) = IF 1 > n THEN 0 ELSE n - 1 + 1
    BY <1>2, FS_Interval
  <2> QED BY <1>2, <2>1
<1>4. Cardinality(1 .. n) = Cardinality(S)
  BY <1>3
<1> HIDE DEF n, s
<1>5. \A j, k \in 1 .. n : s[j] = s[k] => j = k
  <2> SUFFICES ASSUME NEW j \in 1 .. n, NEW k \in 1 .. n, s[j] = s[k] PROVE j = k
    OBVIOUS
  <2>1. s[j] \in Nat
    BY <1>1
  <2>2. ~(j < k) /\ ~(k < j)
    BY <1>1, <2>1
  <2> QED BY <1>2, <2>2
<1>6. s \in Injection(1 .. n, S)
  BY <1>1, <1>5, Fun_IsInj
<1>7. s \in Surjection(1 .. n, S)
  BY <1>4, <1>6, FS_Injection
<1>8. \A x \in S : \E k \in 1 .. n : s[k] = x
  BY <1>7 DEF Surjection
<1>9. Lists(s, S)
  BY <1>1, <1>2, <1>5, <1>8, ListsByPosition
<1> QED BY <1>9 DEF s

-----------------------------------------------------------------------------
(* The invariant of topological_sort.                                      *)

ordered == ToSet(order)
queued == ToSet(queue)

\* A name's degree counts its prerequisites that are still to come; it has been queued
\* once there are none, and what is ordered has all its prerequisites before it.
SortInv ==
    /\ ~HasDuplicate
    /\ Lists(order, ordered) /\ Lists(queue, queued)
    /\ ordered \cup queued \subseteq nodes /\ ordered \cap queued = {}
    /\ in_degree \in [nodes -> Nat]
    /\ \A n \in nodes :
          /\ in_degree[n] = Cardinality(Prerequisites(n) \ ordered)
          /\ in_degree[n] = 0 <=> n \in ordered \cup queued
    /\ \A k \in DOMAIN order : Prerequisites(order[k]) \subseteq {order[j] : j \in 1 .. (k - 1)}

KahnInv ==
    /\ declared \in Declarations
    /\ pc \in {"parse", "duplicate", "sort", "accepted", "cycle"}
    /\ pc = "parse" => order = <<>>
    /\ pc \in {"sort", "accepted", "cycle"} => SortInv
    /\ pc \in {"accepted", "cycle"} => queue = <<>>
    /\ pc = "accepted" => Len(order) = Cardinality(nodes)
    /\ pc = "cycle" => Len(order) # Cardinality(nodes)


-----------------------------------------------------------------------------
(* The graph.                                                              *)

\* The names are finitely many numbers, and as many as the entries if none is repeated.
LEMMA NodesCounted ==
  ASSUME declared \in Declarations
  PROVE  /\ Len(declared) \in Nat /\ DOMAIN declared = 1 .. Len(declared)
         /\ IsFiniteSet(nodes) /\ nodes \in SUBSET Nat
         /\ ~HasDuplicate => Cardinality(nodes) = Len(declared)
<1> DEFINE n == Len(declared)
           name == [k \in 1 .. n |-> declared[k].name]
<1>1. declared \in Seq(DependencyEntry)
  BY DeclarationsAssumption
<1>2. n \in Nat /\ DOMAIN declared = 1 .. n /\ declared \in [1 .. n -> DependencyEntry]
  BY <1>1, LenProperties
<1>3. \A k \in 1 .. n : declared[k].name \in Nat
  BY <1>2, NamesAssumption DEF DependencyEntry
<1>4. nodes = {declared[k].name : k \in 1 .. n}
  BY <1>2 DEF nodes
<1>5. name \in [1 .. n -> nodes] /\ \A x \in nodes : \E k \in 1 .. n : name[k] = x
  BY <1>4
<1>6. ~HasDuplicate => \A j, k \in 1 .. n : name[j] = name[k] => j = k
  <2> SUFFICES ASSUME ~HasDuplicate, NEW j \in 1 .. n, NEW k \in 1 .. n, name[j] = name[k]
               PROVE  j = k
    OBVIOUS
  <2>1. ~(j < k) /\ ~(k < j)
    BY <1>2 DEF HasDuplicate
  <2> QED BY <1>2, <2>1
<1>7. IsFiniteSet(1 .. n) /\ Cardinality(1 .. n) = n
  <2> HIDE DEF n
  <2>1. IsFiniteSet(1 .. n) /\ Cardinality(1 .. n) = IF 1 > n THEN 0 ELSE n - 1 + 1
    BY <1>2, FS_Interval
  <2> QED BY <1>2, <2>1
<1> HIDE DEF n, name
<1>8. name \in Surjection(1 .. n, nodes)
  BY <1>5, Fun_IsSurj
<1>9. /\ IsFiniteSet(nodes)
      /\ Cardinality(nodes) = Cardinality(1 .. n) <=> name \in Injection(1 .. n, nodes)
  BY <1>7, <1>8, FS_Surjection
<1>10. ~HasDuplicate => name \in Injection(1 .. n, nodes)
  BY <1>5, <1>6, Fun_IsInj
<1> QED BY <1>2, <1>3, <1>4, <1>7, <1>9, <1>10 DEF n

LEMMA GraphUnchanged ==
  ASSUME UNCHANGED declared
  PROVE  /\ nodes' = nodes /\ HasDuplicate' = HasDuplicate
         /\ \A n : Prerequisites(n)' = Prerequisites(n)
BY DEF nodes, HasDuplicate, Prerequisites, IsPrerequisite

LEMMA PrerequisitesFinite ==
  ASSUME declared \in Declarations, NEW n, NEW S
  PROVE  /\ Prerequisites(n) \subseteq nodes
         /\ IsFiniteSet(Prerequisites(n) \ S)
         /\ Cardinality(Prerequisites(n) \ S) \in Nat
         /\ Cardinality(Prerequisites(n) \ S) = 0 <=> Prerequisites(n) \subseteq S
<1>1. Prerequisites(n) \subseteq nodes
  BY DEF Prerequisites
<1>2. Prerequisites(n) \ S \in SUBSET nodes
  BY <1>1
<1>3. IsFiniteSet(Prerequisites(n) \ S)
  BY <1>2, NodesCounted, FS_Subset
<1>4. Cardinality(Prerequisites(n) \ S) \in Nat
  BY <1>3, FS_CardinalityType
<1>5. Cardinality(Prerequisites(n) \ S) = 0 <=> Prerequisites(n) \ S = {}
  BY <1>3, FS_EmptySet
<1> QED BY <1>1, <1>3, <1>4, <1>5

-----------------------------------------------------------------------------
(* The steps.                                                              *)

LEMMA StartSortKeeps ==
  ASSUME KahnInv, StartSort
  PROVE  SortInv'
<1> DEFINE ready == {n \in nodes : Prerequisites(n) = {}}
<1>1. /\ declared \in Declarations /\ declared' = declared
      /\ ~HasDuplicate /\ order = <<>> /\ order' = <<>>
      /\ in_degree' = [n \in nodes |-> Cardinality(Prerequisites(n))]
      /\ queue' = Sorted(ready)
  BY DEF KahnInv, StartSort
<1>2. /\ nodes' = nodes /\ ~HasDuplicate'
      /\ \A n : Prerequisites(n)' = Prerequisites(n)
  BY <1>1, GraphUnchanged
<1>3. IsFiniteSet(ready) /\ ready \in SUBSET Nat
  BY <1>1, NodesCounted, FS_Subset
<1>4. Lists(queue', ready)
  BY <1>1, <1>3, SortedLists
<1>5. queued' = ready
  BY <1>4 DEF Lists, queued
<1>6. order' \in Seq({}) /\ DOMAIN order' = {}
  <2>1. <<>> \in Seq({}) /\ DOMAIN <<>> = {}
    OBVIOUS
  <2> QED BY <1>1, <2>1
<1>7. ordered' = {} /\ Lists(order', {})
  BY <1>6 DEF ordered, ToSet, Lists, IsInjective
<1>8. \A n \in nodes : /\ Prerequisites(n) \ {} = Prerequisites(n)
                       /\ in_degree'[n] = Cardinality(Prerequisites(n) \ {})
                       /\ in_degree'[n] \in Nat
                       /\ in_degree'[n] = 0 <=> n \in ready
  <2> SUFFICES ASSUME NEW n \in nodes
               PROVE  /\ Prerequisites(n) \ {} = Prerequisites(n)
                      /\ in_degree'[n] = Cardinality(Prerequisites(n) \ {})
                      /\ in_degree'[n] \in Nat
                      /\ in_degree'[n] = 0 <=> n \in ready
    OBVIOUS
  <2>1. Prerequisites(n) \ {} = Prerequisites(n) /\ in_degree'[n] = Cardinality(Prerequisites(n))
    BY <1>1
  <2>2. /\ Cardinality(Prerequisites(n) \ {}) \in Nat
        /\ Cardinality(Prerequisites(n) \ {}) = 0 <=> Prerequisites(n) \subseteq {}
    BY <1>1, PrerequisitesFinite
  <2>3. Prerequisites(n) \subseteq {} <=> Prerequisites(n) = {}
    OBVIOUS
  <2> QED BY <2>1, <2>2, <2>3
<1>9. in_degree' \in [nodes -> Nat]
  BY <1>1, <1>8
<1> HIDE DEF ready
<1>10. Lists(order', ordered') /\ Lists(queue', queued')
  BY <1>4, <1>5, <1>7
<1>11. ordered' \cup queued' \subseteq nodes' /\ ordered' \cap queued' = {}
  BY <1>2, <1>5, <1>7 DEF ready
<1>12. \A n \in nodes' : /\ in_degree'[n] = Cardinality(Prerequisites(n)' \ ordered')
                         /\ in_degree'[n] = 0 <=> n \in ordered' \cup queued'
  BY <1>2, <1>5, <1>7, <1>8
<1>13. \A k \in DOMAIN order' : Prerequisites(order[k])' \subseteq {order'[j] : j \in 1 .. (k - 1)}
  BY <1>6
<1> QED BY ONLY <1>2, <1>9, <1>10, <1>11, <1>12, <1>13 DEF SortInv, Lists

\* A turn of the loop: the popped name is accounted for in the degrees of its dependents,
\* and the ones it completes have neither been ordered nor queued before.
LEMMA PopKeeps ==
  ASSUME KahnInv, Pop
  PROVE  SortInv'
<1> DEFINE node == Last(queue)
           degree == [n \in nodes |-> IF n \in Dependents(node) THEN in_degree[n] - 1
                                                                 ELSE in_degree[n]]
           next_nodes == {n \in Dependents(node) : degree[n] = 0}
           rest == queued \ {node}
           now == ordered \cup {node}
<1>1. /\ declared \in Declarations /\ declared' = declared /\ queue # <<>> /\ SortInv
      /\ order' = Append(order, node) /\ in_degree' = degree
      /\ queue' = Front(queue) \o Reverse(Sorted(next_nodes))
  BY DEF KahnInv, Pop
<1>2. /\ nodes' = nodes /\ ~HasDuplicate'
      /\ \A n : Prerequisites(n)' = Prerequisites(n)
  BY <1>1, GraphUnchanged DEF SortInv
<1>3. /\ in_degree \in [nodes -> Nat]
      /\ Lists(order, ordered) /\ Lists(queue, queued)
      /\ ordered \cup queued \subseteq nodes /\ ordered \cap queued = {}
      /\ \A k \in DOMAIN order :
            Prerequisites(order[k]) \subseteq {order[j] : j \in 1 .. (k - 1)}
  BY <1>1 DEF SortInv
<1>4. \A n \in nodes : /\ in_degree[n] \in Nat
                       /\ in_degree[n] = Cardinality(Prerequisites(n) \ ordered)
                       /\ in_degree[n] = 0 <=> n \in ordered \cup queued
  BY <1>1 DEF SortInv
<1>5. Lists(Front(queue), rest) /\ node \in queued
  BY <1>1, <1>3, FrontLists
<1> HIDE DEF node
<1>6. node \in nodes /\ node \notin ordered /\ Prerequisites(node) \subseteq ordered
  <2>1. node \in nodes /\ node \notin ordered /\ in_degree[node] = 0
    BY <1>3, <1>5, <1>4
  <2>2. Cardinality(Prerequisites(node) \ ordered) = 0
    BY <1>4, <2>1
  <2> QED BY <1>1, <2>1, <2>2, PrerequisitesFinite
<1>7. \A n : n \in Dependents(node) <=> n \in nodes /\ node \in Prerequisites(n)
  BY <1>6 DEF Dependents, Prerequisites
<1>8. \A n \in Dependents(node) : n \in nodes /\ in_degree[n] >= 1 /\ n \notin ordered \cup queued
  <2> SUFFICES ASSUME NEW n \in Dependents(node)
               PROVE  n \in nodes /\ in_degree[n] >= 1 /\ n \notin ordered \cup queued
    OBVIOUS
  <2>1. n \in nodes /\ ~(Prerequisites(n) \subseteq ordered)
    BY <1>6, <1>7
  <2>2. Cardinality(Prerequisites(n) \ ordered) # 0
    BY <1>1, <2>1, PrerequisitesFinite
  <2>3. in_degree[n] # 0 /\ in_degree[n] \in Nat
    BY <1>4, <2>1, <2>2
  <2>4. n \notin ordered \cup queued
    BY <1>4, <2>1, <2>3
  <2>5. in_degree[n] >= 1
    BY <2>3
  <2> QED BY <2>1, <2>4, <2>5
<1>9. \A n \in nodes : degree[n] \in Nat /\ degree[n] = Cardinality(Prerequisites(n) \ now)
  <2> SUFFICES ASSUME NEW n \in nodes
               PROVE  degree[n] \in Nat /\ degree[n] = Cardinality(Prerequisites(n) \ now)
    OBVIOUS
  <2> DEFINE before == Prerequisites(n) \ ordered
  <2>1. IsFiniteSet(before) /\ in_degree[n] = Cardinality(before) /\ in_degree[n] \in Nat
    BY <1>1, <1>4, PrerequisitesFinite
  <2>2. Prerequisites(n) \ now = before \ {node}
    OBVIOUS
  <2>3. Cardinality(before \ {node}) =
          IF node \in before THEN Cardinality(before) - 1 ELSE Cardinality(before)
    BY <2>1, FS_RemoveElement
  <2>4. node \in before <=> n \in Dependents(node)
    BY <1>6, <1>7
  <2>5. degree[n] = IF n \in Dependents(node) THEN in_degree[n] - 1 ELSE in_degree[n]
    OBVIOUS
  <2>6. n \in Dependents(node) => in_degree[n] >= 1
    BY <1>8
  <2> HIDE DEF before, degree, now
  <2>7. degree[n] \in Nat /\ degree[n] = Cardinality(before \ {node})
    BY <2>1, <2>3, <2>4, <2>5, <2>6
  <2> QED BY <2>2, <2>7
<1>10. \A n \in nodes : degree[n] = 0 <=> n \in now \cup (rest \cup next_nodes)
  <2> SUFFICES ASSUME NEW n \in nodes
               PROVE  degree[n] = 0 <=> n \in now \cup (rest \cup next_nodes)
    OBVIOUS
  <2>1. CASE n \in Dependents(node)
    <3>1. degree[n] = 0 <=> n \in next_nodes
      BY <2>1
    <3>2. n \notin now \cup rest
      BY <1>5, <1>8, <2>1
    <3> HIDE DEF degree, now, rest, next_nodes
    <3> QED BY <3>1, <3>2
  <2>2. CASE n \notin Dependents(node)
    <3>1. degree[n] = in_degree[n] /\ n \notin next_nodes
      BY <2>2
    <3>2. n \in now \cup rest <=> n \in ordered \cup queued
      BY <1>5
    <3>3. in_degree[n] = 0 <=> n \in ordered \cup queued
      BY <1>4
    <3> HIDE DEF degree, now, rest, next_nodes
    <3> QED BY <3>1, <3>2, <3>3
  <2> QED BY <2>1, <2>2
<1>11. next_nodes \subseteq nodes /\ next_nodes \cap (ordered \cup queued) = {}
  BY <1>8
<1> HIDE DEF degree, next_nodes
<1>12. IsFiniteSet(next_nodes) /\ next_nodes \in SUBSET Nat
  BY <1>1, <1>11, NodesCounted, FS_Subset
<1>13. Lists(Reverse(Sorted(next_nodes)), next_nodes)
  BY <1>12, SortedLists, ReverseLists
<1>14. Lists(queue', rest \cup next_nodes)
  <2>1. rest \cap next_nodes = {}
    BY <1>11
  <2> HIDE DEF rest
  <2> QED BY <1>1, <1>5, <1>13, <2>1, ConcatLists
<1>15. queued' = rest \cup next_nodes
  BY <1>14 DEF Lists, queued
<1>16. /\ Lists(order', now)
       /\ Len(order') = Len(order) + 1 /\ order'[Len(order) + 1] = node
       /\ \A k \in 1 .. Len(order) : order'[k] = order[k]
  BY <1>1, <1>3, <1>6, AppendLists
<1>17. ordered' = now
  BY <1>16 DEF Lists, ordered
<1>18. in_degree' \in [nodes -> Nat]
  BY <1>1, <1>9 DEF degree
<1>19. \A n \in nodes' : /\ in_degree'[n] = Cardinality(Prerequisites(n)' \ ordered')
                         /\ in_degree'[n] = 0 <=> n \in ordered' \cup queued'
  <2> HIDE DEF now, rest
  <2> QED BY <1>1, <1>2, <1>9, <1>10, <1>15, <1>17
<1>20. Lists(order', ordered') /\ Lists(queue', queued')
  BY <1>14, <1>15, <1>16, <1>17
<1>21. ordered' \cup queued' \subseteq nodes' /\ ordered' \cap queued' = {}
  BY <1>2, <1>3, <1>5, <1>6, <1>11, <1>15, <1>17
<1>22. \A k \in DOMAIN order' :
          Prerequisites(order[k])' \subseteq {order'[j] : j \in 1 .. (k - 1)}
  <2> SUFFICES ASSUME NEW k \in 1 .. (Len(order) + 1), NEW m \in Prerequisites(order'[k])
               PROVE  \E j \in 1 .. (k - 1) : order'[j] = m
    <3>1. DOMAIN order' = 1 .. (Len(order) + 1)
      BY <1>16, ListedByPosition
    <3>2. \A k : Prerequisites(order[k])' = Prerequisites(order'[k])
      BY <1>1 DEF nodes, Prerequisites, IsPrerequisite
    <3> QED BY <3>1, <3>2
  <2>1. Len(order) \in Nat /\ DOMAIN order = 1 .. Len(order)
    BY <1>3, ListedByPosition
  <2>2. CASE k \in 1 .. Len(order)
    <3>1. PICK j \in 1 .. (k - 1) : order[j] = m
      BY <1>3, <1>16, <2>1, <2>2
    <3>2. j \in 1 .. Len(order)
      BY <2>1, <2>2
    <3> QED BY <1>16, <3>1, <3>2
  <2>3. CASE k = Len(order) + 1
    <3>1. m \in ordered
      BY <1>6, <1>16, <2>3
    <3>2. PICK j \in 1 .. Len(order) : order[j] = m
      BY <1>3, <3>1, ListedByPosition
    <3>3. j \in 1 .. (k - 1)
      BY <2>1, <2>3
    <3> QED BY <1>16, <3>2, <3>3
  <2> QED BY <2>1, <2>2, <2>3
<1> QED BY ONLY <1>2, <1>18, <1>19, <1>20, <1>21, <1>22 DEF SortInv, Lists

LEMMA InitKahnInv == Init => KahnInv
  BY DEF Init, KahnInv

\* The verdict leaves the graph and the order as they are.
LEMMA SortInvStutters ==
  ASSUME SortInv, UNCHANGED <<declared, in_degree, queue, order>>
  PROVE  SortInv'
<1>1. /\ nodes' = nodes /\ ~HasDuplicate' /\ ordered' = ordered /\ queued' = queued
      /\ \A n : Prerequisites(n)' = Prerequisites(n)
  BY GraphUnchanged DEF SortInv, ordered, queued
<1>2. order' = order /\ queue' = queue /\ in_degree' = in_degree
  OBVIOUS
<1>3. \A k : Prerequisites(order[k])' = Prerequisites(order[k])
  BY DEF nodes, Prerequisites, IsPrerequisite
<1> QED BY <1>1, <1>2, <1>3 DEF SortInv, Lists

LEMMA NextKeepsKahnInv == KahnInv /\ [Next]_vars => KahnInv'
<1> SUFFICES ASSUME KahnInv, [Next]_vars PROVE KahnInv'
  OBVIOUS
<1>1. CASE RejectDuplicate
  BY <1>1 DEF RejectDuplicate, KahnInv
<1>2. CASE StartSort
  <2>1. SortInv'
    BY <1>2, StartSortKeeps
  <2>2. declared' = declared /\ pc' = "sort"
    BY <1>2 DEF StartSort
  <2> QED BY <2>1, <2>2 DEF KahnInv
<1>3. CASE Pop
  <2>1. SortInv'
    BY <1>3, PopKeeps
  <2>2. declared' = declared /\ pc' = "sort"
    BY <1>3 DEF Pop
  <2> QED BY <2>1, <2>2 DEF KahnInv
<1>4. CASE Accept \/ RejectCycle
  <2>1. /\ UNCHANGED <<declared, in_degree, queue, order>> /\ queue = <<>> /\ SortInv
        /\ \/ pc' = "accepted" /\ Len(order) = Cardinality(nodes)
           \/ pc' = "cycle" /\ Len(order) # Cardinality(nodes)
    BY <1>4 DEF Accept, RejectCycle, KahnInv
  <2>2. SortInv' /\ nodes' = nodes
    BY <2>1, SortInvStutters, GraphUnchanged
  <2>3. Len(order') = Len(order) /\ Cardinality(nodes') = Cardinality(nodes)
    BY <2>1, <2>2
  <2> QED BY <2>1, <2>2, <2>3 DEF KahnInv
<1>5. CASE UNCHANGED vars
  <2>1. UNCHANGED <<declared, in_degree, queue, order>> /\ pc' = pc
    BY <1>5 DEF vars
  <2>2. SortInv => SortInv'
    BY <2>1, SortInvStutters
  <2>3. nodes' = nodes
    BY <2>1, GraphUnchanged
  <2>4. Len(order') = Len(order) /\ Cardinality(nodes') = Cardinality(nodes)
    BY <2>1, <2>3
  <2> QED BY <2>1, <2>2, <2>4 DEF KahnInv
<1> QED BY <1>1, <1>2, <1>3, <1>4, <1>5 DEF Next

LEMMA KahnInvHolds == Spec => []KahnInv
BY InitKahnInv, NextKeepsKahnInv, PTL DEF Spec

-----------------------------------------------------------------------------
(* The verdicts.                                                           *)

\* An accepted order lists the names of the declaration.
LEMMA AcceptedOrder ==
  ASSUME KahnInv, pc = "accepted"
  PROVE  /\ Lists(order, nodes)
         /\ Len(order) = Len(declared)
<1>1. /\ SortInv /\ Lists(order, ordered) /\ ordered \in SUBSET nodes /\ declared \in Declarations
      /\ ~HasDuplicate /\ Len(order) = Cardinality(nodes)
  BY DEF KahnInv, SortInv
<1>2. IsFiniteSet(nodes) /\ Cardinality(nodes) = Len(declared)
  BY <1>1, NodesCounted
<1>3. Len(order) = Cardinality(ordered)
  BY <1>1, ListLength
<1>4. ordered = nodes
  BY <1>1, <1>2, <1>3, FS_Subset
<1> QED BY <1>1, <1>2, <1>4

\* src/lib.rs, add_route: storing the entries in the computed order, through a map by
\* name, neither loses nor repeats one, so an accepted route calls each factory once.
THEOREM AcceptedOnce == Spec => []EachOnce
<1>1. KahnInv => EachOnce
  <2> SUFFICES ASSUME KahnInv, pc = "accepted"
               PROVE  /\ Len(order) = Len(declared)
                      /\ {order[k] : k \in DOMAIN order} = nodes
    BY DEF EachOnce
  <2> QED BY AcceptedOrder DEF Lists, ToSet
<1> QED BY <1>1, KahnInvHolds, PTL

\* src/dispatch.rs, run_rsgi: each factory of an accepted route is passed the output of
\* every dependency its signature names, however the dependencies were declared.
THEOREM ParametersSupplied == Spec => []NeedsSupplied
<1>1. KahnInv => NeedsSupplied
  <2> SUFFICES ASSUME KahnInv, pc = "accepted", NEW k \in DOMAIN order,
                      NEW m \in Prerequisites(order[k])
               PROVE  m \in Kwargs(k)
    BY DEF NeedsSupplied
  <2>1. SortInv /\ ~HasDuplicate /\ declared \in Declarations
    BY DEF KahnInv, SortInv
  <2>2. PICK j \in 1 .. (k - 1) : order[j] = m
    BY <2>1 DEF SortInv
  <2>3. PICK d \in DOMAIN declared :
           declared[d].name = order[k] /\ m \in declared[d].factory_params
    BY DEF Prerequisites, IsPrerequisite
  <2>4. \A e \in DOMAIN declared : declared[e].name = order[k] => e = d
    <3> SUFFICES ASSUME NEW e \in DOMAIN declared, declared[e].name = order[k] PROVE e = d
      OBVIOUS
    <3>1. ~(e < d) /\ ~(d < e)
      BY <2>1, <2>3 DEF HasDuplicate
    <3>2. e \in Int /\ d \in Int
      BY <2>1, NodesCounted
    <3> QED BY <3>1, <3>2
  <2>5. Entry(order[k]) = declared[d]
    BY <2>3, <2>4 DEF Entry
  <2> QED BY <2>2, <2>3, <2>5 DEF Kwargs
<1> QED BY <1>1, KahnInvHolds, PTL

\* What is left when the list is exhausted waits for itself.
LEMMA LeftoverIsCircular ==
  ASSUME KahnInv, pc = "cycle"
  PROVE  Circular(nodes \ ordered)
<1>1. /\ SortInv /\ declared \in Declarations /\ queue = <<>>
      /\ Lists(order, ordered) /\ Len(order) # Cardinality(nodes)
      /\ ordered \subseteq nodes
      /\ \A n \in nodes : /\ in_degree[n] = Cardinality(Prerequisites(n) \ ordered)
                          /\ in_degree[n] = 0 <=> n \in ordered \cup queued
  BY DEF KahnInv, SortInv
<1>2. queued = {}
  BY <1>1 DEF queued, ToSet
<1>3. nodes \ ordered # {}
  <2> SUFFICES ASSUME ordered = nodes PROVE FALSE
    BY <1>1
  <2> QED BY <1>1, ListLength
<1>4. ASSUME NEW n \in nodes \ ordered PROVE \E m \in nodes \ ordered : IsPrerequisite(m, n)
  <2>1. Cardinality(Prerequisites(n) \ ordered) # 0
    BY <1>1, <1>2
  <2>2. ~(Prerequisites(n) \subseteq ordered)
    BY <1>1, <2>1, PrerequisitesFinite
  <2> QED BY <2>2 DEF Prerequisites
<1> QED BY <1>3, <1>4 DEF Circular

\* In an accepted order the first name of a set waits for nothing of the set.
LEMMA AcceptedHasNoCircle ==
  ASSUME KahnInv, pc = "accepted", NEW S \in SUBSET nodes
  PROVE  ~Circular(S)
<1> SUFFICES ASSUME Circular(S) PROVE FALSE
  OBVIOUS
<1> DEFINE places == {k \in 1 .. Len(order) : order[k] \in S}
<1>1. Lists(order, nodes) /\ SortInv
  BY AcceptedOrder DEF KahnInv
<1>2. Len(order) \in Nat /\ DOMAIN order = 1 .. Len(order)
  BY <1>1, ListedByPosition
<1>3. places # {} /\ places \subseteq Nat
  <2>1. PICK n \in S : TRUE
    BY DEF Circular
  <2>2. PICK k \in 1 .. Len(order) : order[k] = n
    BY <1>1, <2>1, ListedByPosition
  <2> QED BY <1>2, <2>2
<1>4. PICK first \in places : \A k \in places : first <= k
  BY <1>3, LeastNumber
<1>5. PICK m \in S : IsPrerequisite(m, order[first])
  BY DEF Circular
<1>6. m \in Prerequisites(order[first])
  BY <1>5 DEF Prerequisites, IsPrerequisite
<1>7. PICK j \in 1 .. (first - 1) : order[j] = m
  BY <1>1, <1>2, <1>6 DEF SortInv
<1>8. first \in Nat /\ first <= Len(order)
  BY <1>2
<1>9. j \in 1 .. Len(order) /\ ~(first <= j)
  BY <1>2, <1>7, <1>8
<1>10. j \in places
  BY <1>5, <1>7, <1>9
<1> QED BY <1>4, <1>9, <1>10

\* docs/dependencies.md, "Any circular dependencies are detected and rejected": Kahn's
\* algorithm refuses the declarations that contain a circle and no others.
THEOREM CyclesExactlyRefused == Spec => []CycleVerdictExact
<1>1. KahnInv => CycleVerdictExact
  <2> SUFFICES ASSUME KahnInv PROVE CycleVerdictExact
    OBVIOUS
  <2>1. pc = "cycle" => \E S \in SUBSET nodes : Circular(S)
    <3>1. nodes \ ordered \in SUBSET nodes
      OBVIOUS
    <3> QED BY <3>1, LeftoverIsCircular
  <2>2. pc = "accepted" => \A S \in SUBSET nodes : ~Circular(S)
    BY AcceptedHasNoCircle
  <2> QED BY <2>1, <2>2 DEF CycleVerdictExact
<1> QED BY <1>1, KahnInvHolds, PTL


-----------------------------------------------------------------------------
(* The adaptive limiter.                                                   *)

\* LimitInRange is about what set_max_concurrency was given; it follows from the clamp on
\* current_limit, of which it is the integer part.  That the clamp is given a number at all
\* needs the average of the latencies to be positive and the window to hold a least sample.
LimiterInv ==
    /\ current_limit \in Int
    /\ min_limit * Scale <= current_limit /\ current_limit <= max_limit * Scale
    /\ max_concurrency = Truncated(current_limit)
    /\ avg_rtt \in Nat
    /\ age \in [Samples -> Nat]
    /\ load \in Latencies

-----------------------------------------------------------------------------
(* Its arithmetic.                                                         *)

LEMMA Limits ==
  /\ min_limit \in Nat \ {0} /\ max_limit \in Nat \ {0} /\ min_limit <= max_limit
  /\ rtt_window_size \in Nat /\ rtt_window_size >= 10
  BY LimiterAssumption DEF min_limit, max_limit, rtt_window_size, Greatest

LEMMA SamplesArePositive == Samples \subseteq Nat \ {0}
  BY LimiterAssumption DEF Samples

\* The integer part of a number between two whole ones lies between them.
LEMMA TruncatedBetween ==
  ASSUME NEW limit \in Int, NEW a \in Int, NEW b \in Int,
         a * Scale <= limit, limit <= b * Scale
  PROVE  Truncated(limit) \in a .. b
<1>1. Scale \in Nat \ {0}
  BY LimiterAssumption
<1>2. a <= limit \div Scale /\ limit \div Scale <= b /\ limit \div Scale \in Int
  BY <1>1
<1> QED BY <1>2 DEF Truncated

\* Clamping is what keeps the limit in its range, whatever is clamped.
LEMMA ClampBounds ==
  ASSUME NEW limit \in Int
  PROVE  /\ Clamp(limit) \in Int
         /\ min_limit * Scale <= Clamp(limit) /\ Clamp(limit) <= max_limit * Scale
<1>1. min_limit * Scale \in Int /\ max_limit * Scale \in Int
  BY Limits, LimiterAssumption
<1>2. min_limit * Scale <= max_limit * Scale
  BY Limits, LimiterAssumption
<1> QED BY <1>1, <1>2 DEF Clamp, Greatest, Least

\* A smoothed value is a number, and positive if the old and the new one are.
LEMMA SmoothType ==
  ASSUME NEW old \in Int, NEW new \in Int
  PROVE  /\ Smooth(old, new) \in Int
         /\ old >= 1 /\ new >= 1 => Smooth(old, new) >= 1
<1>1. Smoothing \in 0 .. 100
  BY LimiterAssumption
<1>2. (100 - Smoothing) * old + Smoothing * new \in Int
  BY <1>1
<1>3. Smooth(old, new) \in Int
  BY <1>2 DEF Smooth
<1>4. ASSUME old >= 1, new >= 1 PROVE ((100 - Smoothing) * old + Smoothing * new) \div 100 >= 1
  BY <1>1, <1>4
<1> QED BY <1>3, <1>4 DEF Smooth

LEMMA SqrtType ==
  ASSUME NEW x \in Int
  PROVE  Sqrt(x) \in Nat
<1> DEFINE roots == {n \in 1 .. x * Scale : n * n <= x * Scale}
<1>1. x * Scale \in Int
  BY LimiterAssumption
<1>2. IsFiniteSet(1 .. x * Scale)
  BY <1>1, FS_Interval
<1>3. IsFiniteSet(roots)
  BY <1>2, FS_Subset
<1> QED BY <1>3, FS_CardinalityType DEF Sqrt

\* The gradient step yields a limit in the range.
LEMMA AdjustBounds ==
  ASSUME NEW limit \in Int, NEW min_rtt \in Nat \ {0}, NEW avg \in Nat \ {0}
  PROVE  /\ Adjust(limit, min_rtt, avg) \in Int
         /\ min_limit * Scale <= Adjust(limit, min_rtt, avg)
         /\ Adjust(limit, min_rtt, avg) <= max_limit * Scale
<1> DEFINE headroom == Greatest(Alpha, Sqrt(limit))
           target == (limit * Least(min_rtt, avg)) \div avg + headroom
<1>1. headroom \in Int
  BY SqrtType, LimiterAssumption DEF Greatest
<1>2. limit * Least(min_rtt, avg) \in Int
  BY DEF Least
<1>3. (limit * Least(min_rtt, avg)) \div avg \in Int
  BY <1>2
<1>4. target \in Int
  BY <1>1, <1>3
<1>5. Smooth(limit, target) \in Int
  BY <1>4, SmoothType
<1>6. Adjust(limit, min_rtt, avg) = Clamp(Smooth(limit, target))
  BY DEF Adjust
<1> HIDE DEF target
<1> QED BY <1>5, <1>6, ClampBounds

-----------------------------------------------------------------------------
(* The window of samples.                                                  *)

\* As long as the window holds a sample, there is a least one.
LEMMA MinRttIsSample ==
  ASSUME NEW ages \in [Samples -> Nat], \E l \in Samples : ages[l] < rtt_window_size
  PROVE  MinRtt(ages) \in Samples
<1> DEFINE window == {l \in Samples : ages[l] < rtt_window_size}
<1>1. window \subseteq Nat /\ window # {}
  BY SamplesArePositive
<1>2. PICK l \in window : \A k \in window : l <= k
  BY <1>1, LeastNumber
<1>3. \E m \in Samples : /\ ages[m] < rtt_window_size
                         /\ \A k \in Samples : ages[k] < rtt_window_size => m <= k
  BY <1>2
<1> QED BY <1>3 DEF MinRtt

LEMMA Append1Type ==
  ASSUME age \in [Samples -> Nat], NEW latency \in Samples
  PROVE  /\ Append1(latency) \in [Samples -> Nat]
         /\ Append1(latency)[latency] < rtt_window_size
<1>1. \A l \in Samples : Least(age[l] + 1, rtt_window_size) \in Nat
  BY Limits DEF Least
<1>2. Append1(latency) \in [Samples -> Nat]
  BY <1>1 DEF Append1
<1>3. Append1(latency)[latency] = 0
  BY DEF Append1
<1> QED BY <1>2, <1>3, Limits

-----------------------------------------------------------------------------
LEMMA InitLimiterInv == LimiterInit => LimiterInv
<1> SUFFICES ASSUME LimiterInit PROVE LimiterInv
  OBVIOUS
<1> DEFINE initial == Least(Greatest(InitialLimit, min_limit), max_limit)
<1>1. initial \in Int /\ min_limit <= initial /\ initial <= max_limit
  BY Limits, LimiterAssumption DEF Least, Greatest
<1>2. current_limit = initial * Scale
  BY DEF LimiterInit
<1> HIDE DEF initial
<1>3. /\ current_limit \in Int
      /\ min_limit * Scale <= current_limit /\ current_limit <= max_limit * Scale
  BY <1>1, <1>2, Limits, LimiterAssumption
<1>4. max_concurrency = Truncated(current_limit) /\ avg_rtt \in Nat /\ load \in Latencies
  BY DEF LimiterInit
<1>5. age \in [Samples -> Nat]
  BY Limits DEF LimiterInit
<1> QED BY <1>3, <1>4, <1>5 DEF LimiterInv

\* A sample moves the limit within its range; any other answer leaves it alone.
LEMMA CompletedStep ==
  ASSUME LimiterInv, NEW latency \in Samples, NEW status,
         OnRequestCompleted(latency, status), load' \in Latencies
  PROVE  LimiterInv'
<1>1. CASE IsSampled(status)
  <2>1. /\ age' = Append1(latency)
        /\ avg_rtt' = IF avg_rtt = 0 THEN latency ELSE Smooth(avg_rtt, latency)
        /\ current_limit' = Adjust(current_limit, MinRtt(age'), avg_rtt')
        /\ max_concurrency' = Truncated(current_limit')
    BY <1>1 DEF OnRequestCompleted
  <2>2. age' \in [Samples -> Nat] /\ MinRtt(age') \in Nat \ {0}
    <3>1. age' \in [Samples -> Nat] /\ age'[latency] < rtt_window_size
      BY <2>1, Append1Type DEF LimiterInv
    <3> QED BY <3>1, MinRttIsSample, SamplesArePositive
  <2>3. avg_rtt' \in Nat \ {0}
    <3>1. latency \in Nat \ {0} /\ avg_rtt \in Nat
      BY SamplesArePositive DEF LimiterInv
    <3>2. CASE avg_rtt = 0
      BY <2>1, <3>1, <3>2
    <3>3. CASE avg_rtt # 0
      <4>1. avg_rtt \in Int /\ avg_rtt >= 1 /\ latency \in Int /\ latency >= 1
        BY <3>1, <3>3
      <4>2. Smooth(avg_rtt, latency) \in Int /\ Smooth(avg_rtt, latency) >= 1
        BY <4>1, SmoothType
      <4> QED BY <2>1, <3>3, <4>2
    <3> QED BY <3>2, <3>3
  <2>4. /\ current_limit' \in Int
        /\ min_limit * Scale <= current_limit' /\ current_limit' <= max_limit * Scale
    BY <2>1, <2>2, <2>3, AdjustBounds DEF LimiterInv
  <2> QED BY <2>1, <2>2, <2>3, <2>4 DEF LimiterInv
<1>2. CASE ~IsSampled(status)
  BY <1>2 DEF OnRequestCompleted, LimiterInv
<1> QED BY <1>1, <1>2

LEMMA NextKeepsLimiterInv == LimiterInv /\ [LimiterNext]_limiter_vars => LimiterInv'
<1> SUFFICES ASSUME LimiterInv, [LimiterNext]_limiter_vars PROVE LimiterInv'
  OBVIOUS
<1>0. load \in Samples /\ ShedLatency \in Samples /\ load \in Latencies
  BY DEF LimiterInv, Samples
<1>1. CASE Answer
  BY <1>0, <1>1, CompletedStep DEF Answer
<1>2. CASE Reject
  BY <1>0, <1>2, CompletedStep DEF Reject
<1>3. CASE Shift
  BY <1>3 DEF Shift, LimiterInv
<1>4. CASE UNCHANGED limiter_vars
  BY <1>4 DEF limiter_vars, LimiterInv
<1> QED BY <1>1, <1>2, <1>3, <1>4 DEF LimiterNext

\* resilience.py:71: whatever latencies are measured and in whatever order, the integer that
\* set_max_concurrency is given lies between the configured limits, so it is never 0.
THEOREM LimitAlwaysInRange == LimiterSpec => []LimitInRange
<1>1. LimiterInv => LimitInRange
  <2> SUFFICES ASSUME LimiterInv PROVE LimitInRange
    OBVIOUS
  <2>1. /\ current_limit \in Int /\ min_limit \in Int /\ max_limit \in Int
        /\ min_limit * Scale <= current_limit /\ current_limit <= max_limit * Scale
    BY Limits DEF LimiterInv
  <2>2. Truncated(current_limit) \in min_limit .. max_limit
    BY <2>1, TruncatedBetween
  <2> QED BY <2>2 DEF LimiterInv, LimitInRange
<1> QED BY InitLimiterInv, NextKeepsLimiterInv, <1>1, PTL DEF LimiterSpec


-----------------------------------------------------------------------------
(* CORS.                                                                   *)

LEMMA ConfigTyped ==
  ASSUME NEW c \in CORSConfigs
  PROVE  /\ c.allow_origins \in Seq(STRING) /\ c.allow_headers \in Seq(Name)
         /\ c.allow_methods \in Seq(Name)
         /\ \A h \in ToSet(c.allow_headers) : h \in Name /\ (h.name = "*" => h = Star)
<1>1. c \in CORSConfig /\ \A h \in ToSet(c.allow_headers) : h.name = "*" => h = Star
  BY ConfigsAssumption
<1>2. /\ c.allow_origins \in Seq(STRING) /\ c.allow_headers \in Seq(Name)
      /\ c.allow_methods \in Seq(Name)
  BY <1>1 DEF CORSConfig
<1>3. \A h \in ToSet(c.allow_headers) : h \in Name
  BY <1>2, LenProperties DEF ToSet
<1> QED BY <1>1, <1>2, <1>3

LEMMA MembersOfSeq ==
  ASSUME NEW S, NEW s \in Seq(S)
  PROVE  \A x : Contains(s, x) <=> x \in ToSet(s)
BY LenProperties DEF Contains, ToSet

LEMMA OnlyMember ==
  ASSUME NEW S, NEW s \in Seq(S), NEW x, Contains(s, x), Len(s) = 1
  PROVE  s = <<x>>
<1>1. s \in [1 .. 1 -> S] /\ \A i \in 1 .. 1 : i = 1
  BY LenProperties
<1>2. s[1] = x
  BY DEF Contains
<1> QED BY <1>1, <1>2

\* The two select the same origin, wildcards and credentials included.
LEMMA SelectionAgrees ==
  ASSUME NEW c \in CORSConfigs, ~WildcardTuple(c), NEW origin \in STRING
  PROVE  SelectAllowOrigin(c, origin) = PySelectAllowOrigin(c, origin)
<1> DEFINE origins == c.allow_origins
           wildcard == Contains(origins, "*")
           any == ~c.allow_credentials /\ c.origins_list /\ origins = <<"*">>
<1>1. origins \in Seq(STRING)
  BY ConfigTyped
<1>2. \A x : Contains(origins, x) <=> x \in ToSet(origins)
  BY <1>1, MembersOfSeq
<1>3. (wildcard /\ Len(origins) = 1) <=> origins = <<"*">>
  <2>1. wildcard /\ Len(origins) = 1 => origins = <<"*">>
    BY <1>1, OnlyMember
  <2>2. Contains(<<"*">>, "*") /\ Len(<<"*">>) = 1
    BY DEF Contains
  <2>3. origins = <<"*">> => wildcard /\ Len(origins) = 1
    BY <2>2
  <2> QED BY <2>1, <2>3
<1>4. SelectAllowOrigin(c, origin) =
        IF origin = "" THEN NONE
        ELSE IF any THEN "*"
        ELSE IF origin \in ToSet(origins) THEN origin ELSE NONE
  <2>1. any <=> ~c.allow_credentials /\ wildcard /\ Len(origins) = 1
    BY <1>3 DEF WildcardTuple
  <2> QED BY <1>2, <2>1 DEF SelectAllowOrigin
<1>5. PySelectAllowOrigin(c, origin) =
        IF any /\ origin # "" THEN "*"
        ELSE IF origin \in ToSet(origins) \ {""} THEN origin ELSE NONE
  BY DEF PySelectAllowOrigin
<1>6. origin \in ToSet(origins) \ {""} <=> origin \in ToSet(origins) /\ origin # ""
  OBVIOUS
<1> HIDE DEF origins, any
<1>7. CASE origin = ""
  BY <1>4, <1>5, <1>7
<1>8. CASE origin # "" /\ any
  BY <1>4, <1>5, <1>8
<1>9. CASE origin # "" /\ ~any /\ origin \in ToSet(origins)
  BY <1>4, <1>5, <1>6, <1>9
<1>10. CASE origin # "" /\ ~any /\ origin \notin ToSet(origins)
  BY <1>4, <1>5, <1>6, <1>10
<1> QED BY <1>7, <1>8, <1>9, <1>10

\* They admit the same request headers.
LEMMA RequestHeadersAgree ==
  ASSUME NEW c \in CORSConfigs, NEW asked \in Seq(Name), c.allow_headers # <<Star>>
  PROVE  LET lower == Folded({h \in ToSet(c.allow_headers) : h.name # "*"})
         IN  PreflightAllowHeaders(c, asked) =
               IF \E h \in ToSet(asked) : h.name \notin lower THEN NONE
               ELSE IF asked = <<>> THEN c.allow_headers ELSE asked
<1> DEFINE listed == ToSet(c.allow_headers)
           lower == Folded({h \in listed : h.name # "*"})
<1>1. {h \in listed : h.name # "*"} = listed \ {Star}
  BY ConfigTyped DEF Star
<1>2. lower = Folded(listed \ {Star})
  BY <1>1
<1>3. Folded(ToSet(asked)) \subseteq lower <=> ~\E h \in ToSet(asked) : h.name \notin lower
  BY DEF Folded
<1>4. asked = <<>> => ToSet(asked) = {}
  BY DEF ToSet
<1>5. PreflightAllowHeaders(c, asked) =
        IF asked = <<>> THEN c.allow_headers
        ELSE IF Folded(ToSet(asked)) \subseteq Folded(listed \ {Star}) THEN asked ELSE NONE
  BY DEF PreflightAllowHeaders
<1> HIDE DEF listed, lower
<1> QED BY <1>2, <1>3, <1>4, <1>5 DEF lower, listed

LEMMA PairsAgree ==
  ASSUME NEW c \in CORSConfigs, ~WildcardTuple(c), NEW r \in CorsRequests
  PROVE  ResponseHeaderPairs(c, r) = PyResponseHeaderPairs(c, r)
<1>1. r.origin \in STRING
  BY RequestsAssumption
<1>2. SelectAllowOrigin(c, r.origin) = PySelectAllowOrigin(c, r.origin)
  BY <1>1, SelectionAgrees
<1> QED BY <1>2 DEF ResponseHeaderPairs, PyResponseHeaderPairs

\* A preflight is refused at the same check, natively without headers, or granted with
\* the same headers; the pairs of a normal response come on top in the Python layer.
LEMMA PreflightsAgree ==
  ASSUME NEW c \in CORSConfigs, ~WildcardTuple(c), NEW r \in CorsRequests
  PROVE  LET native == HandlePreflight(c, r)
             python == PyPreflight(c, r)
         IN  /\ native.status = python.status /\ native.why = python.why
             /\ python.headers = native.headers \cup ResponseHeaderPairs(c, r)
             /\ native.status = 204 =>
                    \A h \in python.headers \ native.headers : h[1] = "expose_headers"
             /\ native.status = 400 => native.headers = {}
<1> DEFINE selected == SelectAllowOrigin(c, r.origin)
           acah == PreflightAllowHeaders(c, r.headers)
           lower == Folded({h \in ToSet(c.allow_headers) : h.name # "*"})
           known == r.method.name \in Folded(ToSet(c.allow_methods))
           barred == c.allow_headers # <<Star>> /\ \E h \in ToSet(r.headers) : h.name \notin lower
           pyacah == IF c.allow_headers = <<Star>> \/ r.headers = <<>>
                     THEN c.allow_headers ELSE r.headers
           maxAge == When(c.max_age # NONE, <<"max_age", c.max_age>>)
           credentials == When(c.allow_credentials, <<"allow_credentials", TRUE>>)
           exposed == When(c.expose_headers # <<>>, <<"expose_headers", c.expose_headers>>)
           vary == When(selected # "*", <<"vary", "Origin">>)
           pairs == ResponseHeaderPairs(c, r)
           native == {<<"allow_origin", selected>>, <<"allow_methods", c.allow_methods>>,
                      <<"allow_headers", acah>>} \cup credentials \cup maxAge \cup vary
           python == pairs
                     \cup {<<"allow_methods", c.allow_methods>>, <<"allow_headers", pyacah>>}
                     \cup maxAge
<1>1. r.origin \in STRING /\ r.headers \in Seq(Name)
  BY RequestsAssumption
<1>2. selected = PySelectAllowOrigin(c, r.origin)
  BY <1>1, SelectionAgrees
<1>3. c.allow_headers # NONE /\ r.headers # NONE
  BY <1>1, ConfigTyped, NoneAssumption
<1>4. (acah = NONE <=> barred) /\ (~barred => acah = pyacah)
  <2>1. CASE c.allow_headers = <<Star>>
    <3>1. acah = c.allow_headers /\ ~barred /\ pyacah = c.allow_headers
      BY <2>1 DEF PreflightAllowHeaders
    <3> QED BY <1>3, <3>1
  <2>2. CASE c.allow_headers # <<Star>>
    <3>1. acah = IF \E h \in ToSet(r.headers) : h.name \notin lower THEN NONE
                 ELSE IF r.headers = <<>> THEN c.allow_headers ELSE r.headers
      BY <1>1, <2>2, RequestHeadersAgree
    <3> HIDE DEF acah, lower
    <3> QED BY <1>3, <2>2, <3>1
  <2> QED BY <2>1, <2>2
<1>5. HandlePreflight(c, r) =
        IF ~known THEN Refused("method", {})
        ELSE IF selected = NONE THEN Refused("origin", {})
        ELSE IF acah = NONE THEN Refused("headers", {})
        ELSE Granted(native)
  BY DEF HandlePreflight
<1>6. known <=> \E m \in ToSet(c.allow_methods) : m.name = r.method.name
  BY DEF Folded
<1>7. PyPreflight(c, r) =
        IF ~known THEN Refused("method", pairs)
        ELSE IF selected = NONE THEN Refused("origin", pairs)
        ELSE IF barred THEN Refused("headers", pairs)
        ELSE Granted(python)
  <2>1. PyResponseHeaderPairs(c, r) = pairs
    BY PairsAgree
  <2> HIDE DEF known, selected, maxAge, pairs
  <2> QED BY <1>2, <1>6, <2>1 DEF PyPreflight, maxAge, pyacah, python, barred, lower
<1>8. ~barred /\ selected # NONE => python = native \cup pairs /\ python = native \cup exposed
  <2> SUFFICES ASSUME ~barred, selected # NONE
               PROVE  python = native \cup pairs /\ python = native \cup exposed
    OBVIOUS
  <2>1. acah = pyacah
    BY <1>4
  <2>2. pairs = {<<"allow_origin", selected>>} \cup credentials \cup exposed \cup vary
    BY DEF ResponseHeaderPairs
  <2> HIDE DEF acah, pyacah, credentials, exposed, vary, maxAge, selected, pairs
  <2> QED BY <2>1, <2>2
<1>9. \A h \in exposed : h[1] = "expose_headers"
  BY DEF When
<1>10. /\ \A why, headers : /\ Refused(why, headers).status = 400
                            /\ Refused(why, headers).why = why
                            /\ Refused(why, headers).headers = headers
       /\ \A headers : /\ Granted(headers).status = 204
                       /\ Granted(headers).why = "granted"
                       /\ Granted(headers).headers = headers
  BY DEF Refused, Granted
<1>11. pairs = {} \cup pairs
  OBVIOUS
<1> HIDE DEF known, selected, acah, barred, native, python, exposed, pairs
<1>12. CASE ~known
  BY <1>5, <1>7, <1>10, <1>11, <1>12 DEF pairs
<1>13. CASE known /\ selected = NONE
  BY <1>5, <1>7, <1>10, <1>11, <1>13 DEF pairs
<1>14. CASE known /\ selected # NONE /\ barred
  BY <1>4, <1>5, <1>7, <1>10, <1>11, <1>14 DEF pairs
<1>15. CASE known /\ selected # NONE /\ ~barred
  <2>1. HandlePreflight(c, r) = Granted(native) /\ PyPreflight(c, r) = Granted(python)
    BY <1>4, <1>5, <1>7, <1>15
  <2>2. \A h \in python \ native : h[1] = "expose_headers"
    BY <1>8, <1>9, <1>15
  <2> QED BY <1>8, <1>10, <1>15, <2>1, <2>2 DEF pairs
<1> QED BY <1>12, <1>13, <1>14, <1>15

\* src/cors.rs and oxyroute/cors.py, for every configuration that set_cors compiles except
\* ("*",) without credentials, and every request: a preflight is granted or refused at the
\* same check by both layers, and other responses get the same headers.  The answers to a
\* preflight are not the same: the Python layer adds the headers of a normal response, to
\* refusals too, which the native layer sends without any.
THEOREM NativeAgreesWithPython == CorsInit => CorsAgrees
<1> SUFFICES ASSUME CorsInit, exchange # NONE, ~WildcardTuple(exchange.config)
             PROVE  CorsAgrees
  BY DEF CorsAgrees
<1>1. exchange.config \in CORSConfigs /\ exchange.request \in CorsRequests
  BY DEF CorsInit
<1> QED BY <1>1, PreflightsAgree, PairsAgree DEF CorsAgrees

-----------------------------------------------------------------------------
(* Path parameters: reading an integer undoes writing it.                  *)

LEMMA DigitsRead ==
  /\ \A k \in 0 .. 9 : Digits[k + 1] \in Digit /\ DigitValue(Digits[k + 1]) = k
  /\ \A d \in Digit : DigitValue(d) \in 0 .. 9 /\ Digits[DigitValue(d) + 1] = d
  /\ Digits[1] = "0" /\ "0" \in Digit /\ "-" \notin Digit /\ "true" \notin Digit /\ "false" \notin Digit
<1>1. \A j, k \in 1 .. 10 : Digits[j] = Digits[k] => j = k
  BY DEF Digits
<1>2. \A k \in 1 .. 10 : Digits[k] \notin {"-", "true", "false"}
  BY DEF Digits
<1>3. Digits[1] = "0"
  BY DEF Digits
<1>4. ASSUME NEW k \in 1 .. 10 PROVE DigitValue(Digits[k]) = k - 1
  <2>1. (CHOOSE i \in 1 .. 10 : Digits[i] = Digits[k]) = k
    BY <1>1
  <2> QED BY <2>1 DEF DigitValue
<1>5. \A k \in 0 .. 9 : k + 1 \in 1 .. 10 /\ k + 1 - 1 = k
  OBVIOUS
<1>6. \A k \in 1 .. 10 : k - 1 \in 0 .. 9 /\ k - 1 + 1 = k
  OBVIOUS
<1>7. 1 \in 1 .. 10
  OBVIOUS
<1> QED BY <1>2, <1>3, <1>4, <1>5, <1>6, <1>7 DEF Digit

\* All but the last digit.
LEMMA FrontOfDigits ==
  ASSUME NEW S, NEW s \in Seq(S), s # <<>>
  PROVE  /\ Front(s) \in Seq(S) /\ Len(Front(s)) = Len(s) - 1 /\ Last(s) \in S
         /\ Len(s) \in Nat \ {0} /\ s = Append(Front(s), Last(s))
         /\ \A k \in 1 .. Len(s) - 1 : Front(s)[k] = s[k]
<1>1. Len(s) \in Nat \ {0}
  BY EmptySeq
<1>2. \A i \in 1 .. Len(s) : s[i] \in S
  BY ElementOfSeq
<1>3. /\ SubSeq(s, 1, Len(s) - 1) \in Seq(S)
      /\ Len(SubSeq(s, 1, Len(s) - 1)) = Len(s) - 1
      /\ \A k \in 1 .. Len(s) - 1 : SubSeq(s, 1, Len(s) - 1)[k] = s[k]
  <2>1. \A i \in 1 .. Len(s) - 1 : s[i] \in S
    BY <1>1, <1>2
  <2> DEFINE n == Len(s) - 1
  <2>2. /\ n \in Int /\ 1 \in Int /\ n - 1 + 1 = n /\ (IF 1 <= n THEN n - 1 + 1 ELSE 0) = n
        /\ \A i \in 1 .. n : 1 + i - 1 = i
    <3>1. n \in Nat
      BY <1>1
    <3> HIDE DEF n
    <3> QED BY <3>1
  <2>3. /\ SubSeq(s, 1, Len(s) - 1) \in Seq(S)
        /\ Len(SubSeq(s, 1, Len(s) - 1)) = IF 1 <= Len(s) - 1 THEN Len(s) - 1 - 1 + 1 ELSE 0
        /\ \A i \in 1 .. Len(s) - 1 - 1 + 1 : SubSeq(s, 1, Len(s) - 1)[i] = s[1 + i - 1]
    BY <2>1, <2>2, SubSeqProperties
  <2> QED BY <2>2, <2>3
<1>4. Front(s) = SubSeq(s, 1, Len(s) - 1) /\ Last(s) = s[Len(s)] /\ Last(s) \in S
  BY <1>1, <1>2 DEF Front, Last
<1>5. s = Append(Front(s), Last(s))
  <2> DEFINE t == Append(Front(s), Last(s))
  <2>1. /\ t \in Seq(S) /\ Len(t) = Len(Front(s)) + 1
        /\ \A i \in 1 .. Len(Front(s)) : t[i] = Front(s)[i]
        /\ t[Len(Front(s)) + 1] = Last(s)
    BY <1>3, <1>4, AppendProperties
  <2>2. Len(Front(s)) = Len(s) - 1 /\ Len(s) - 1 + 1 = Len(s)
    BY <1>1, <1>3, <1>4
  <2>3. ASSUME NEW i \in 1 .. Len(s) PROVE s[i] = t[i]
    <3> HIDE DEF t
    <3>1. CASE i = Len(s)
      BY <1>4, <2>1, <2>2, <3>1
    <3>2. CASE i # Len(s)
      <4>1. i \in 1 .. Len(s) - 1
        BY <1>1, <3>2
      <4> QED BY <1>3, <1>4, <2>1, <2>2, <4>1
    <3> QED BY <3>1, <3>2
  <2> HIDE DEF t
  <2>4. s = t
    BY <2>1, <2>2, <2>3, SeqEqual
  <2> QED BY <2>4 DEF t
<1> QED BY <1>1, <1>3, <1>4, <1>5

\* What the digits stand for, unfolded once.
LEMMA MagnitudeUnfolds ==
  ASSUME NEW s \in Seq(Digit)
  PROVE  /\ Magnitude[s] \in Nat
         /\ Magnitude[s] = IF s = <<>> THEN 0 ELSE 10 * Magnitude[Front(s)] + DigitValue(Last(s))
<1> DEFINE D == Seq(Digit)
           rank == [x \in D |-> Len(x)]
           Unfold(x, f) == IF x = <<>> THEN 0 ELSE 10 * f[Front(x)] + DigitValue(Last(x))
           Solution(f) == f = [digits \in Seq(Digit) |->
               IF digits = <<>> THEN 0 ELSE 10 * f[Front(digits)] + DigitValue(Last(digits))]
<1>1. ASSUME NEW x \in D, x # <<>>
      PROVE  /\ Front(x) \in D /\ rank[Front(x)] < rank[x] /\ DigitValue(Last(x)) \in 0 .. 9
  <2>1. /\ Front(x) \in D /\ Len(Front(x)) = Len(x) - 1 /\ Len(x) \in Nat /\ Last(x) \in Digit
    BY <1>1, FrontOfDigits
  <2> QED BY <2>1, DigitsRead
<1>2. \A x, f : Body("Magnitude", x, f) = Unfold(x, f)
  BY DEF Body
<1>3. rank \in [D -> Nat]
  BY LenProperties
<1>4. Descends("Magnitude", D, rank)
  <2>1. ASSUME NEW x \in D, NEW f, NEW g, \A y \in D : rank[y] < rank[x] => f[y] = g[y]
        PROVE  Unfold(x, f) = Unfold(x, g)
    <3> HIDE DEF D, rank
    <3> QED BY <1>1, <2>1
  <2> HIDE DEF D, rank, Unfold
  <2> QED BY <1>2, <1>3, <2>1 DEF Descends
<1>5. PICK f : Solves(f, "Magnitude", D)
  <2> HIDE DEF D, rank, Solution
  <2> QED BY <1>4, RecursionHasSolution
<1>6. Solution(f)
  BY <1>2, <1>5 DEF Solves
<1>7. Magnitude = CHOOSE g : Solution(g)
  BY DEF Magnitude
<1>8. Solution(Magnitude)
  <2> HIDE DEF Solution
  <2> QED BY <1>6, <1>7
<1>9. ASSUME NEW x \in D PROVE Magnitude[x] = Unfold(x, Magnitude)
  BY <1>8
<1> DEFINE Typed == {x \in D : Magnitude[x] \in Nat}
<1>10. ASSUME NEW x \in D, \A y \in D : rank[y] < rank[x] => y \in Typed PROVE x \in Typed
  <2> SUFFICES Magnitude[x] \in Nat
    OBVIOUS
  <2>1. CASE x = <<>>
    <3>1. Magnitude[x] = 0
      BY <1>9, <2>1
    <3> QED BY <3>1
  <2>2. CASE x # <<>>
    <3>1. Magnitude[Front(x)] \in Nat /\ DigitValue(Last(x)) \in 0 .. 9
      <4> HIDE DEF rank, D
      <4> QED BY <1>1, <1>10, <2>2
    <3>2. Magnitude[x] = 10 * Magnitude[Front(x)] + DigitValue(Last(x))
      BY <1>9, <2>2
    <3> HIDE DEF rank, D
    <3> QED BY <3>1, <3>2
  <2> QED BY <2>1, <2>2
<1>11. D \subseteq Typed
  <2> HIDE DEF D, rank, Typed
  <2> QED BY <1>3, <1>10, RankInduction
<1> QED BY <1>9, <1>11

\* The way Python writes a natural number, unfolded once.
LEMMA NumeralUnfolds ==
  ASSUME NEW n \in Nat
  PROVE  /\ Numeral[n] \in Seq(Digit)
         /\ Numeral[n] = IF n < 10 THEN <<Digits[n + 1]>>
                         ELSE Append(Numeral[n \div 10], Digits[(n % 10) + 1])
<1> DEFINE rank == [k \in Nat |-> k]
           Unfold(k, f) == IF k < 10 THEN <<Digits[k + 1]>>
                           ELSE Append(f[k \div 10], Digits[(k % 10) + 1])
           Solution(f) == f = [k \in Nat |->
               IF k < 10 THEN <<Digits[k + 1]>> ELSE Append(f[k \div 10], Digits[(k % 10) + 1])]
<1>1. ASSUME NEW k \in Nat, ~(k < 10)
      PROVE  k \div 10 \in Nat /\ rank[k \div 10] < rank[k] /\ Digits[(k % 10) + 1] \in Digit
  <2>1. k \div 10 \in Nat /\ k \div 10 < k /\ k % 10 \in 0 .. 9
    BY <1>1
  <2> QED BY <2>1, DigitsRead
<1>2. \A k, f : Body("Numeral", k, f) = Unfold(k, f)
  BY DEF Body
<1>3. rank \in [Nat -> Nat]
  OBVIOUS
<1>4. Descends("Numeral", Nat, rank)
  <2>1. ASSUME NEW k \in Nat, NEW f, NEW g, \A y \in Nat : rank[y] < rank[k] => f[y] = g[y]
        PROVE  Unfold(k, f) = Unfold(k, g)
    <3> HIDE DEF rank
    <3> QED BY <1>1, <2>1
  <2> HIDE DEF rank, Unfold
  <2> QED BY <1>2, <1>3, <2>1 DEF Descends
<1>5. PICK f : Solves(f, "Numeral", Nat)
  <2> HIDE DEF rank, Solution
  <2> QED BY <1>4, RecursionHasSolution
<1>6. Solution(f)
  BY <1>2, <1>5 DEF Solves
<1>7. Numeral = CHOOSE g : Solution(g)
  BY DEF Numeral
<1>8. Solution(Numeral)
  <2> HIDE DEF Solution
  <2> QED BY <1>6, <1>7
<1>9. ASSUME NEW k \in Nat PROVE Numeral[k] = Unfold(k, Numeral)
  BY <1>8
<1> DEFINE Typed == {k \in Nat : Numeral[k] \in Seq(Digit)}
<1>10. ASSUME NEW k \in Nat, \A y \in Nat : rank[y] < rank[k] => y \in Typed PROVE k \in Typed
  <2> SUFFICES Numeral[k] \in Seq(Digit)
    OBVIOUS
  <2>1. CASE k < 10
    <3>1. Digits[k + 1] \in Digit
      BY <2>1, DigitsRead
    <3>2. Numeral[k] = <<Digits[k + 1]>>
      BY <1>9, <2>1
    <3> HIDE DEF rank
    <3> QED BY <3>1, <3>2
  <2>2. CASE ~(k < 10)
    <3>1. Numeral[k \div 10] \in Seq(Digit) /\ Digits[(k % 10) + 1] \in Digit
      <4> HIDE DEF rank
      <4> QED BY <1>1, <1>10, <2>2
    <3>2. Numeral[k] = Append(Numeral[k \div 10], Digits[(k % 10) + 1])
      BY <1>9, <2>2
    <3> DEFINE front == Numeral[k \div 10]
               last == Digits[(k % 10) + 1]
    <3>3. Append(front, last) \in Seq(Digit)
      <4> HIDE DEF rank, front, last
      <4>1. front \in Seq(Digit) /\ last \in Digit
        BY <3>1 DEF front, last
      <4> QED BY <4>1, AppendProperties
    <3> QED BY <3>2, <3>3
  <2> QED BY <2>1, <2>2
<1>11. Nat \subseteq Typed
  <2> HIDE DEF rank, Typed
  <2> QED BY <1>3, <1>10, RankInduction
<1> QED BY <1>9, <1>11

\* Digits that stand for a number in the way Python writes it: no leading zeros.
Canonical(s) == s \in Seq(Digit) /\ s # <<>> /\ (Len(s) > 1 => s[1] # "0")

LEMMA MagnitudeOfAppend ==
  ASSUME NEW s \in Seq(Digit), NEW d \in Digit
  PROVE  Magnitude[Append(s, d)] = 10 * Magnitude[s] + DigitValue(d)
<1> DEFINE t == Append(s, d)
<1>1. t \in Seq(Digit) /\ t # <<>>
  BY AppendProperties
<1>2. Front(t) \in Seq(Digit) /\ Last(t) \in Digit /\ t = Append(Front(t), Last(t))
  <2> HIDE DEF t
  <2> QED BY <1>1, FrontOfDigits
<1>3. Front(t) = s /\ Last(t) = d
  BY <1>2, AppendInjective
<1> HIDE DEF t
<1>4. Magnitude[t] = 10 * Magnitude[Front(t)] + DigitValue(Last(t))
  BY <1>1, MagnitudeUnfolds
<1> QED BY <1>3, <1>4 DEF t

LEMMA MagnitudeOfDigit ==
  ASSUME NEW d \in Digit
  PROVE  Magnitude[<<d>>] = DigitValue(d)
<1>1. <<>> \in Seq(Digit) /\ Append(<<>>, d) = <<d>>
  BY EmptySeq
<1>2. Magnitude[<<>>] = 0
  BY <1>1, MagnitudeUnfolds
<1>3. Magnitude[Append(<<>>, d)] = 10 * Magnitude[<<>>] + DigitValue(d)
  BY <1>1, MagnitudeOfAppend
<1>4. DigitValue(d) \in 0 .. 9
  BY DigitsRead
<1> QED BY <1>1, <1>2, <1>3, <1>4

LEMMA NumeralOfZero == Numeral[0] = <<"0">>
<1>1. 0 \in Nat /\ 0 < 10 /\ Digits[0 + 1] = "0"
  BY DigitsRead
<1>2. Numeral[0] = IF 0 < 10 THEN <<Digits[0 + 1]>>
                   ELSE Append(Numeral[0 \div 10], Digits[(0 % 10) + 1])
  <2> DEFINE zero == 0
  <2>1. zero \in Nat
    OBVIOUS
  <2> HIDE DEF zero
  <2>2. Numeral[zero] = IF zero < 10 THEN <<Digits[zero + 1]>>
                        ELSE Append(Numeral[zero \div 10], Digits[(zero % 10) + 1])
    BY <2>1, NumeralUnfolds
  <2> QED BY <2>2 DEF zero
<1> QED BY <1>1, <1>2

\* What Python writes is read back, and has no leading zeros.
LEMMA NumeralsReadBack ==
  ASSUME NEW n \in Nat
  PROVE  /\ Magnitude[Numeral[n]] = n
         /\ Canonical(Numeral[n])
         /\ Numeral[n][1] = "0" => n = 0
<1> DEFINE Good(k) == /\ Magnitude[Numeral[k]] = k /\ Numeral[k] # <<>>
                      /\ Numeral[k][1] = "0" => k = 0
           Bad == {k \in Nat : ~Good(k)}
<1>1. ASSUME NEW k \in Nat, k < 10 PROVE Good(k)
  <2> DEFINE d == Digits[k + 1]
  <2>1. d \in Digit /\ DigitValue(d) = k
    BY <1>1, DigitsRead
  <2>2. Numeral[k] = <<d>>
    BY <1>1, NumeralUnfolds
  <2>3. Magnitude[<<d>>] = k
    BY <2>1, MagnitudeOfDigit
  <2>4. d = "0" => k = 0
    <3>1. DigitValue("0") = 0
      <4>1. 0 \in 0 .. 9 /\ 0 + 1 = 1
        OBVIOUS
      <4> QED BY <4>1, DigitsRead
    <3> QED BY <2>1, <3>1
  <2> HIDE DEF d
  <2> QED BY <2>2, <2>3, <2>4
<1>2. ASSUME NEW k \in Nat, k >= 10, Good(k \div 10) PROVE Good(k)
  <2> DEFINE q == k \div 10
             d == Digits[(k % 10) + 1]
  <2>1. q \in Nat /\ q # 0 /\ k % 10 \in 0 .. 9 /\ k = 10 * q + (k % 10)
    BY <1>2
  <2>2. d \in Digit /\ DigitValue(d) = k % 10
    BY <2>1, DigitsRead
  <2>3. Numeral[q] \in Seq(Digit) /\ Numeral[k] = Append(Numeral[q], d)
    <3>1. ~(k < 10)
      BY <1>2
    <3>2. Numeral[k] = IF k < 10 THEN <<Digits[k + 1]>>
                       ELSE Append(Numeral[k \div 10], Digits[(k % 10) + 1])
      BY NumeralUnfolds
    <3>3. Numeral[q] \in Seq(Digit)
      <4> HIDE DEF q
      <4> QED BY <2>1, NumeralUnfolds
    <3> QED BY <3>1, <3>2, <3>3
  <2>4. Magnitude[Append(Numeral[q], d)] = 10 * Magnitude[Numeral[q]] + DigitValue(d)
    BY <2>2, <2>3, MagnitudeOfAppend
  <2>5. Magnitude[Numeral[q]] = q /\ Numeral[q] # <<>> /\ Numeral[q][1] # "0"
    BY <1>2, <2>1
  <2>6. Numeral[k] # <<>> /\ Numeral[k][1] = Numeral[q][1]
    <3>1. Len(Numeral[q]) \in Nat \ {0}
      BY <2>3, <2>5, EmptySeq
    <3>2. 1 \in 1 .. Len(Numeral[q])
      BY <3>1
    <3> HIDE DEF q, d
    <3> QED BY <2>2, <2>3, <3>2, AppendProperties
  <2> HIDE DEF q, d
  <2> QED BY <2>1, <2>2, <2>3, <2>4, <2>5, <2>6
<1>3. Bad = {}
  <2> SUFFICES ASSUME Bad # {} PROVE FALSE
    OBVIOUS
  <2>1. PICK k \in Bad : \A j \in Bad : k <= j
    <3>1. Bad \subseteq Nat
      OBVIOUS
    <3> HIDE DEF Bad
    <3> QED BY <3>1, LeastNumber
  <2>2. k \in Nat /\ ~Good(k)
    OBVIOUS
  <2> HIDE DEF Good
  <2>3. k >= 10 /\ ~Good(k \div 10)
    BY <1>1, <1>2, <2>2
  <2>4. k \div 10 \in Nat /\ k \div 10 < k
    BY <2>2, <2>3
  <2>5. k \div 10 \in Bad
    BY <2>3, <2>4
  <2> HIDE DEF Bad
  <2> QED BY <2>1, <2>2, <2>4, <2>5
<1>4. Good(n)
  <2> HIDE DEF Good
  <2> QED BY <1>3
<1>5. Numeral[n] \in Seq(Digit)
  BY NumeralUnfolds
<1>6. Len(Numeral[n]) > 1 => Numeral[n][1] # "0"
  <2> SUFFICES ASSUME Numeral[n][1] = "0" PROVE ~(Len(Numeral[n]) > 1)
    OBVIOUS
  <2>1. n = 0
    BY <1>4
  <2> QED BY <2>1, NumeralOfZero
<1> QED BY <1>4, <1>5, <1>6 DEF Canonical

\* What is read, Python writes in the same way, unless it has leading zeros.
LEMMA CanonicalIsWritten ==
  ASSUME NEW s, Canonical(s)
  PROVE  Numeral[Magnitude[s]] = s
<1> DEFINE Bad == {t \in Seq(Digit) : Canonical(t) /\ Numeral[Magnitude[t]] # t}
           Lengths == {Len(t) : t \in Bad}
<1>1. ASSUME NEW t, Canonical(t), Len(t) = 1 PROVE Numeral[Magnitude[t]] = t
  <2>1. PICK d \in Digit : t = <<d>>
    <3>1. t \in Seq(Digit) /\ 1 \in 1 .. Len(t)
      BY <1>1 DEF Canonical
    <3>2. t[1] \in Digit
      BY <3>1, ElementOfSeq
    <3>3. t = <<t[1]>>
      <4>1. t \in [1 .. 1 -> Digit]
        BY <1>1, <3>1, LenProperties
      <4> QED BY <4>1
    <3> QED BY <3>2, <3>3
  <2>2. Magnitude[t] = DigitValue(d)
    BY <2>1, MagnitudeOfDigit
  <2>3. DigitValue(d) \in 0 .. 9 /\ Digits[DigitValue(d) + 1] = d
    BY DigitsRead
  <2> QED BY <2>1, <2>2, <2>3, NumeralUnfolds
<1>2. ASSUME NEW t, Canonical(t), Len(t) > 1,
             Canonical(Front(t)) => Numeral[Magnitude[Front(t)]] = Front(t)
      PROVE  Numeral[Magnitude[t]] = t
  <2> DEFINE e == Front(t)
             d == Last(t)
             m == Magnitude[e]
  <2>1. /\ e \in Seq(Digit) /\ Len(e) = Len(t) - 1 /\ d \in Digit /\ t = Append(e, d)
        /\ \A k \in 1 .. Len(t) - 1 : e[k] = t[k]
    BY <1>2, FrontOfDigits DEF Canonical
  <2>2. Len(t) \in Nat /\ 1 \in 1 .. Len(t) - 1
    BY <1>2, LenProperties DEF Canonical
  <2>3. e[1] = t[1] /\ t[1] # "0" /\ e # <<>>
    <3>1. e # <<>>
      BY <2>1, <2>2, EmptySeq
    <3> HIDE DEF e, d
    <3> QED BY <1>2, <2>1, <2>2, <3>1 DEF Canonical
  <2> HIDE DEF e, d
  <2>4. Canonical(e)
    BY <2>1, <2>3 DEF Canonical
  <2>5. Numeral[m] = e
    BY <1>2, <2>4 DEF e
  <2>6. m \in Nat /\ m # 0
    <3>1. m \in Nat
      BY <2>1, MagnitudeUnfolds
    <3>2. m = 0 => e[1] = "0"
      BY <2>5, NumeralOfZero
    <3> HIDE DEF m
    <3> QED BY <2>3, <3>1, <3>2
  <2>7. Magnitude[t] = 10 * m + DigitValue(d)
    BY <2>1, MagnitudeOfAppend
  <2> HIDE DEF m
  <2>8. DigitValue(d) \in 0 .. 9 /\ Digits[DigitValue(d) + 1] = d
    BY <2>1, DigitsRead
  <2> DEFINE v == DigitValue(d)
             n == 10 * m + v
  <2>9. n \in Nat /\ ~(n < 10) /\ n \div 10 = m /\ n % 10 = v
    <3> HIDE DEF v
    <3>1. v \in 0 .. 9
      BY <2>8 DEF v
    <3> QED BY <2>6, <3>1
  <2>10. Numeral[n] = Append(Numeral[n \div 10], Digits[(n % 10) + 1])
    <3> HIDE DEF n
    <3> QED BY <2>9, NumeralUnfolds
  <2>11. Digits[(n % 10) + 1] = d
    <3> HIDE DEF n
    <3> QED BY <2>8, <2>9
  <2>12. Magnitude[t] = n
    BY <2>7
  <2> HIDE DEF n
  <2> QED BY <2>1, <2>5, <2>9, <2>10, <2>11, <2>12
<1>3. Bad = {}
  <2> SUFFICES ASSUME Bad # {} PROVE FALSE
    OBVIOUS
  <2>1. Lengths \subseteq Nat /\ Lengths # {}
    BY LenProperties
  <2>2. PICK n \in Lengths : \A j \in Lengths : n <= j
    <3> HIDE DEF Lengths
    <3> QED BY <2>1, LeastNumber
  <2>3. PICK t \in Bad : n = Len(t)
    OBVIOUS
  <2>4. t \in Seq(Digit) /\ Canonical(t) /\ Numeral[Magnitude[t]] # t
    BY <2>3
  <2>5. Front(t) \in Seq(Digit) /\ Len(Front(t)) = Len(t) - 1 /\ Len(t) \in Nat \ {0}
    BY <2>4, FrontOfDigits DEF Canonical
  <2>6. Len(t) > 1
    <3>1. Len(t) # 1
      <4> HIDE DEF Bad, Lengths
      <4> QED BY <1>1, <2>4
    <3> QED BY <2>5, <3>1
  <2>7. Front(t) \in Bad
    BY <1>2, <2>4, <2>5, <2>6
  <2>8. Len(Front(t)) \in Lengths
    BY <2>7
  <2> HIDE DEF Lengths, Bad
  <2> QED BY <2>2, <2>3, <2>5, <2>8
<1>4. s \in Seq(Digit)
  BY DEF Canonical
<1> QED BY <1>3, <1>4

\* The pieces a segment is made of, with those the code looks for among them.
Piece == STRING \cup Digit \cup {"-", "true", "false"}

LEMMA PiecesOfSegments == Seq(Digit) \subseteq Seq(Piece) /\ Seq(STRING) \subseteq Seq(Piece)
BY SeqMonotonic DEF Piece

\* is_valid_integer_literal accepts a canonical run of digits, with or without a sign.
LEMMA LiteralIsCanonical ==
  ASSUME NEW s \in Seq(Piece)
  PROVE  IsValidIntegerLiteral(s) <=>
            Canonical(Unsigned(s)) /\ ~(IsNegative(s) /\ Unsigned(s) = <<"0">>)
<1> DEFINE u == Unsigned(s)
<1>1. u \in Seq(Piece)
  <2>1. CASE IsNegative(s)
    <3>1. s # <<>> /\ u = Tail(s)
      BY <2>1 DEF IsNegative, Unsigned
    <3> QED BY <3>1, HeadTailProperties
  <2>2. CASE ~IsNegative(s)
    BY <2>2 DEF Unsigned
  <2> QED BY <2>1, <2>2
<1> HIDE DEF u
<1>2. Len(u) \in Nat /\ DOMAIN u = 1 .. Len(u) /\ u \in [1 .. Len(u) -> Piece]
  BY <1>1, LenProperties
<1>3. (\A k \in DOMAIN u : IsDigit(u[k])) <=> u \in Seq(Digit)
  <2>1. ASSUME \A k \in DOMAIN u : IsDigit(u[k]) PROVE u \in Seq(Digit)
    <3>1. u \in [1 .. Len(u) -> Digit]
      BY <1>2, <2>1 DEF IsDigit
    <3> QED BY <1>2, <3>1, SeqDef
  <2>2. ASSUME u \in Seq(Digit) PROVE \A k \in DOMAIN u : IsDigit(u[k])
    BY <1>2, <2>2, ElementOfSeq DEF IsDigit
  <2> QED BY <2>1, <2>2
<1>4. IsValidIntegerLiteral(s) <=>
        /\ u # <<>> /\ ~(Len(u) > 1 /\ u[1] = "0") /\ ~(IsNegative(s) /\ u = <<"0">>)
        /\ \A k \in DOMAIN u : IsDigit(u[k])
  BY DEF IsValidIntegerLiteral, u
<1>5. Canonical(u) <=> u \in Seq(Digit) /\ u # <<>> /\ ~(Len(u) > 1 /\ u[1] = "0")
  BY DEF Canonical
<1>6. IsValidIntegerLiteral(s) <=> Canonical(u) /\ ~(IsNegative(s) /\ u = <<"0">>)
  BY <1>3, <1>4, <1>5
<1> QED BY <1>6 DEF u

\* A sign, and what follows it.
LEMMA SignedText ==
  ASSUME NEW s \in Seq(Piece), NEW t \in Seq(Piece)
  PROVE  (s = <<"-">> \o t) <=> (IsNegative(s) /\ Tail(s) = t)
<1>1. <<"-">> \in Seq(Piece) /\ Len(<<"-">>) = 1 /\ <<"-">>[1] = "-"
  BY DEF Piece
<1> DEFINE w == <<"-">> \o t
<1>2. /\ w \in Seq(Piece) /\ Len(w) = 1 + Len(t) /\ Len(t) \in Nat
      /\ \A i \in 1 .. 1 + Len(t) : w[i] = IF i <= 1 THEN "-" ELSE t[i - 1]
  <2>1. /\ w \in Seq(Piece) /\ Len(w) = Len(<<"-">>) + Len(t)
        /\ \A i \in 1 .. Len(<<"-">>) + Len(t) :
              w[i] = IF i <= Len(<<"-">>) THEN <<"-">>[i] ELSE t[i - Len(<<"-">>)]
    BY <1>1, ConcatProperties
  <2>2. Len(t) \in Nat
    BY LenProperties
  <2> HIDE DEF w
  <2>3. ASSUME NEW i \in 1 .. 1 + Len(t) PROVE w[i] = IF i <= 1 THEN "-" ELSE t[i - 1]
    BY <1>1, <2>1, <2>2
  <2> QED BY <1>1, <2>1, <2>2, <2>3
<1> HIDE DEF w
<1>3. w[1] = "-" /\ \A i \in 1 .. Len(t) : w[i + 1] = t[i]
  <2>1. 1 \in 1 .. 1 + Len(t) /\ \A i \in 1 .. Len(t) : i + 1 \in 1 .. 1 + Len(t) /\ ~(i + 1 <= 1)
                                                        /\ i + 1 - 1 = i
    BY <1>2
  <2> QED BY <1>2, <2>1
<1>4. ASSUME s = w PROVE IsNegative(s) /\ Tail(s) = t
  <2>1. s # <<>>
    BY <1>2, <1>4, EmptySeq
  <2>2. Head(s) = "-"
    <3>1. Head(s) = s[1]
      OBVIOUS
    <3> QED BY <1>3, <1>4, <3>1
  <2>3. Tail(s) \in Seq(Piece) /\ Len(Tail(s)) = Len(t)
        /\ \A i \in 1 .. Len(Tail(s)) : Tail(s)[i] = s[i + 1]
    <3>1. /\ Tail(s) \in Seq(Piece) /\ Len(Tail(s)) = Len(s) - 1
          /\ \A i \in 1 .. Len(Tail(s)) : Tail(s)[i] = s[i + 1]
      BY <2>1, HeadTailProperties
    <3>2. Len(s) - 1 = Len(t)
      BY <1>2, <1>4
    <3> QED BY <3>1, <3>2
  <2>4. \A i \in 1 .. Len(Tail(s)) : Tail(s)[i] = t[i]
    BY <1>3, <1>4, <2>3
  <2>5. Tail(s) = t
    BY <2>3, <2>4, SeqEqual
  <2> QED BY <2>1, <2>2, <2>5 DEF IsNegative
<1>5. ASSUME IsNegative(s), Tail(s) = t PROVE s = w
  <2>1. s # <<>> /\ Head(s) = "-"
    BY <1>5 DEF IsNegative
  <2>2. Len(s) = Len(w) /\ \A i \in 1 .. Len(t) : t[i] = s[i + 1]
    <3>1. Len(t) = Len(s) - 1 /\ \A i \in 1 .. Len(t) : t[i] = s[i + 1]
      BY <1>5, <2>1, HeadTailProperties
    <3>2. Len(s) \in Nat
      BY LenProperties
    <3> QED BY <1>2, <3>1, <3>2
  <2>3. s[1] = "-"
    <3>1. Head(s) = s[1]
      OBVIOUS
    <3> QED BY <2>1, <3>1
  <2>4. ASSUME NEW i \in 1 .. Len(s) PROVE s[i] = w[i]
    <3>1. CASE i = 1
      BY <1>3, <2>3, <3>1
    <3>2. CASE i # 1
      <4>1. i - 1 \in 1 .. Len(t) /\ i - 1 + 1 = i
        BY <1>2, <2>2, <3>2
      <4>2. t[i - 1] = s[i - 1 + 1] /\ w[i - 1 + 1] = t[i - 1]
        BY <1>3, <2>2, <4>1
      <4> QED BY <4>1, <4>2
    <3> QED BY <3>1, <3>2
  <2> QED BY <1>2, <2>2, <2>4, SeqEqual
<1> QED BY <1>4, <1>5 DEF w

\* A literal is written back as it was, and only for the number it stands for.
LEMMA LiteralsAreDecimals ==
  ASSUME NEW s \in Seq(Piece)
  PROVE  /\ IsValidIntegerLiteral(s) => Parsed(s) \in Int /\ Decimal(Parsed(s)) = s
         /\ \A n \in Int : Decimal(n) = s => IsValidIntegerLiteral(s) /\ Parsed(s) = n
<1>1. ASSUME IsValidIntegerLiteral(s), IsNegative(s)
      PROVE  Parsed(s) \in Int /\ Decimal(Parsed(s)) = s
  <2> DEFINE u == Tail(s)
             m == Magnitude[u]
  <2>1. Unsigned(s) = u /\ Parsed(s) = - m
    BY <1>1 DEF Unsigned, Parsed
  <2>2. Canonical(u) /\ u # <<"0">>
    BY <1>1, <2>1, LiteralIsCanonical
  <2>3. m \in Nat /\ Numeral[m] = u
    BY <2>2, MagnitudeUnfolds, CanonicalIsWritten DEF Canonical
  <2>4. m # 0
    BY <2>2, <2>3, NumeralOfZero
  <2>5. s = <<"-">> \o u
    <3>1. u \in Seq(Piece)
      BY <2>2, PiecesOfSegments DEF Canonical
    <3> QED BY <1>1, <3>1, SignedText
  <2> HIDE DEF u, m
  <2>6. - m \in Int /\ - m < 0 /\ - (- m) = m
    BY <2>3, <2>4
  <2>7. Decimal(- m) = <<"-">> \o Numeral[- (- m)]
    BY <2>6 DEF Decimal
  <2> QED BY <2>1, <2>3, <2>5, <2>6, <2>7
<1>2. ASSUME IsValidIntegerLiteral(s), ~IsNegative(s)
      PROVE  Parsed(s) \in Int /\ Decimal(Parsed(s)) = s
  <2>1. Unsigned(s) = s /\ Parsed(s) = Magnitude[s]
    BY <1>2 DEF Unsigned, Parsed
  <2>2. Canonical(s)
    BY <1>2, <2>1, LiteralIsCanonical
  <2>3. Magnitude[s] \in Nat /\ Numeral[Magnitude[s]] = s
    BY <2>2, MagnitudeUnfolds, CanonicalIsWritten DEF Canonical
  <2>4. ~(Magnitude[s] < 0)
    BY <2>3
  <2> QED BY <2>1, <2>3, <2>4 DEF Decimal
<1>3. ASSUME NEW n \in Int, n < 0, Decimal(n) = s PROVE IsValidIntegerLiteral(s) /\ Parsed(s) = n
  <2> DEFINE m == - n
             u == Numeral[m]
  <2>1. m \in Nat /\ m # 0 /\ - m = n
    BY <1>3
  <2>2. s = <<"-">> \o u
    BY <1>3 DEF Decimal
  <2> HIDE DEF m
  <2>3. Magnitude[u] = m /\ Canonical(u)
    BY <2>1, NumeralsReadBack
  <2>4. Magnitude[<<"0">>] = 0
    <3>1. 0 \in Nat
      OBVIOUS
    <3>2. Magnitude[Numeral[0]] = 0
      BY <3>1, NumeralsReadBack
    <3> QED BY <3>2, NumeralOfZero
  <2> HIDE DEF u
  <2>5. u # <<"0">>
    BY <2>1, <2>3, <2>4
  <2>6. u \in Seq(Piece)
    BY <2>3, PiecesOfSegments DEF Canonical
  <2>7. IsNegative(s) /\ Tail(s) = u
    BY <2>2, <2>6, SignedText
  <2>8. Unsigned(s) = u /\ Parsed(s) = - Magnitude[u]
    BY <2>7 DEF Unsigned, Parsed
  <2>9. IsValidIntegerLiteral(s)
    BY <2>3, <2>5, <2>8, LiteralIsCanonical
  <2> QED BY <2>1, <2>3, <2>8, <2>9
<1>4. ASSUME NEW n \in Nat, Decimal(n) = s PROVE IsValidIntegerLiteral(s) /\ Parsed(s) = n
  <2>1. s = Numeral[n]
    <3>1. ~(n < 0)
      OBVIOUS
    <3> QED BY <1>4, <3>1 DEF Decimal
  <2>2. Magnitude[s] = n /\ Canonical(s)
    BY <2>1, NumeralsReadBack
  <2>3. ~IsNegative(s)
    <3>1. s # <<>> /\ Head(s) \in Digit
      BY <2>2, HeadTailProperties DEF Canonical
    <3> QED BY <3>1, DigitsRead DEF IsNegative
  <2>4. Unsigned(s) = s /\ Parsed(s) = Magnitude[s]
    BY <2>3 DEF Unsigned, Parsed
  <2> QED BY <2>2, <2>3, <2>4, LiteralIsCanonical
<1>5. \A n \in Int : n < 0 \/ n \in Nat
  OBVIOUS
<1> QED BY <1>1, <1>2, <1>3, <1>4, <1>5

\* "true" and "false" are not literals.
LEMMA WordsAreNotLiterals ==
  ASSUME NEW word \in {"true", "false"}
  PROVE  ~IsValidIntegerLiteral(<<word>>)
<1>1. <<word>> \in Seq(Piece) /\ <<word>> # <<>> /\ Head(<<word>>) = word /\ Len(<<word>>) = 1
      /\ <<word>>[1] = word
  BY DEF Piece
<1>2. Unsigned(<<word>>) = <<word>>
  BY <1>1 DEF Unsigned, IsNegative
<1>3. <<word>> \notin Seq(Digit)
  <2> SUFFICES ASSUME <<word>> \in Seq(Digit) PROVE FALSE
    OBVIOUS
  <2>1. 1 \in 1 .. Len(<<word>>)
    BY <1>1
  <2>2. word \in Digit
    BY <1>1, <2>1, ElementOfSeq
  <2> QED BY <2>2, DigitsRead
<1> QED BY <1>1, <1>2, <1>3, LiteralIsCanonical DEF Canonical

\* src/params.rs: whatever the segment and however wide the integers, a handler can rebuild it
\* from an int or a str; the segments that become ints are those Python writes for an i64.
THEOREM SegmentsRebuilt == CoercionInit => CoercionExact
<1> SUFFICES ASSUME CoercionInit PROVE CoercionExact
  OBVIOUS
<1> DEFINE param == ValueForPathParam(segment)
           asInt == IsValidIntegerLiteral(segment) /\ FitsI64(Parsed(segment))
           range == -(MaxInt + 1) .. MaxInt
<1>1. segment \in Seq(Piece)
  BY SegmentsAssumption, PiecesOfSegments DEF CoercionInit
<1>2. range \subseteq Int
  BY WidthsAssumption
<1>3. asInt <=> \E n \in range : Decimal(n) = segment
  <2>1. ASSUME asInt PROVE \E n \in range : Decimal(n) = segment
    BY <1>1, <2>1, LiteralsAreDecimals DEF FitsI64
  <2>2. ASSUME NEW n \in range, Decimal(n) = segment PROVE asInt
    <3> HIDE DEF range
    <3>1. IsValidIntegerLiteral(segment) /\ Parsed(segment) = n
      BY <1>1, <1>2, <2>2, LiteralsAreDecimals
    <3> QED BY <3>1 DEF FitsI64, range
  <2> QED BY <2>1, <2>2
<1>4. asInt => segment # <<"true">> /\ segment # <<"false">>
  BY WordsAreNotLiterals
<1> HIDE DEF range
<1>5. /\ asInt => param.type = "int" /\ param.value = Parsed(segment)
      /\ ~asInt => param.type # "int"
      /\ param.type = "str" => param.value = segment
  <2>1. asInt => param = [type |-> "int", value |-> Parsed(segment)]
    BY <1>4 DEF ValueForPathParam
  <2>2. \/ param = [type |-> "bool", value |-> TRUE]
        \/ param = [type |-> "bool", value |-> FALSE]
        \/ asInt
        \/ param = [type |-> "float", value |-> ParsedFloat(segment)]
        \/ param = [type |-> "str", value |-> segment]
    BY DEF ValueForPathParam
  <2> HIDE DEF param, asInt
  <2> QED BY <2>1, <2>2
<1>6. asInt => Decimal(Parsed(segment)) = segment
  BY <1>1, LiteralsAreDecimals
<1>7. /\ param.type = "int" <=> \E n \in range : Decimal(n) = segment
      /\ param.type = "int" => Decimal(param.value) = segment
      /\ param.type = "str" => param.value = segment
  <2> HIDE DEF param, asInt
  <2> QED BY <1>3, <1>5, <1>6
<1> QED BY <1>7 DEF CoercionExact, range

-----------------------------------------------------------------------------
(* JSON.  The recursive functions of Json.tla, unfolded once each: objects *)
(* are finite trees, and the parts of a text are the texts of parts.       *)

\* The parts of an object are objects nested less deep, and the keys of a dict are scalars.
LEMMA ObjectParts ==
  ASSUME NEW v \in Objects
  PROVE  /\ Height(v) \in Nat
         /\ v.type \in {"list", "tuple"} => \A k \in DOMAIN v.members :
               /\ v.members[k] \in Objects
               /\ Height(v.members[k]) \in Nat /\ Height(v.members[k]) < Height(v)
         /\ v.type = "dict" => \A k \in DOMAIN v.pairs :
               /\ v.pairs[k][2] \in Objects /\ v.pairs[k][1] \in PyScalar
               /\ Height(v.pairs[k][2]) \in Nat /\ Height(v.pairs[k][2]) < Height(v)
         /\ v.type \notin {"list", "tuple", "dict"} => v \in PyScalar
<1>1. v \in PyObject(Objects)
  BY ObjectsAssumption
<1>2. /\ \A s \in PyScalar : s.type \notin {"list", "tuple", "dict"}
      /\ v \in PyScalar
           \/ v \in [type : {"list", "tuple"}, members : Seq(Objects)]
           \/ v \in [type : {"dict"}, pairs : Seq(PyScalar \X Objects)]
  <2>1. \A s \in PyScalar : s.type \notin {"list", "tuple", "dict"}
    BY DEF PyScalar
  <2>2. v \in PyScalar
           \/ v \in [type : {"list", "tuple"}, members : Seq(Objects)]
           \/ v \in [type : {"dict"}, pairs : Seq(PyScalar \X Objects)]
    BY <1>1 DEF PyObject
  <2> QED BY <2>1, <2>2
<1>3. \A S : \A s \in Seq(S) : \A k \in DOMAIN s : s[k] \in S
  BY LenProperties, ElementOfSeq
<1>4. \A part \in Parts(v) : Height(part) < Height(v)
  BY HeightAssumption
<1>5. \A w \in Objects : Height(w) \in Nat
  BY HeightAssumption
<1>6. ASSUME v.type \in {"list", "tuple"}, NEW k \in DOMAIN v.members
      PROVE  v.members[k] \in Objects /\ Height(v.members[k]) < Height(v)
  <2>1. v.members \in Seq(Objects)
    BY <1>2, <1>6
  <2>2. v.members[k] \in Parts(v)
    BY <1>6 DEF Parts
  <2> QED BY <1>3, <1>4, <1>6, <2>1, <2>2
<1>7. ASSUME v.type = "dict", NEW k \in DOMAIN v.pairs
      PROVE  /\ v.pairs[k][2] \in Objects /\ v.pairs[k][1] \in PyScalar
             /\ Height(v.pairs[k][2]) < Height(v)
  <2>1. v.pairs \in Seq(PyScalar \X Objects)
    BY <1>2, <1>7
  <2>2. v.pairs[k][2] \in Parts(v)
    BY <1>7 DEF Parts
  <2>3. v.pairs[k] \in PyScalar \X Objects
    BY <1>3, <1>7, <2>1
  <2> QED BY <1>4, <2>2, <2>3
<1>8. v.type \notin {"list", "tuple", "dict"} => v \in PyScalar
  BY <1>2
<1> QED BY <1>5, <1>6, <1>7, <1>8

\* What a scalar is.
LEMMA ScalarForm ==
  ASSUME NEW v \in PyScalar
  PROVE  /\ v.type \in {"null", "true", "false", "other", "int", "float", "str"}
         /\ v.type \in {"null", "true", "false", "other"} => v = [type |-> v.type]
         /\ v.type = "int" => v = [type |-> "int", value |-> v.value]
         /\ v.type \in {"float", "str"} => v = [type |-> v.type, text |-> v.text]
BY DEF PyScalar

-----------------------------------------------------------------------------

LEMMA DumpsUnfolds ==
  ASSUME NEW v \in Objects
  PROVE  Dumps[v] = DumpsOnce(v, Dumps)
<1> DEFINE rank == [x \in Objects |-> Height(x)]
           Solution(f) == f = [x \in Objects |-> DumpsOnce(x, f)]
<1>1. ASSUME NEW x \in Objects, NEW f, NEW g, \A y \in Objects : rank[y] < rank[x] => f[y] = g[y]
      PROVE  DumpsOnce(x, f) = DumpsOnce(x, g)
  <2>1. \A y \in Objects : Height(y) < Height(x) => f[y] = g[y]
    BY <1>1
  <2>2. CASE x.type = "dict"
    <3> DEFINE pf == [k \in DOMAIN x.pairs |-> <<DumpsKey(x.pairs[k][1]), f[x.pairs[k][2]]>>]
               pg == [k \in DOMAIN x.pairs |-> <<DumpsKey(x.pairs[k][1]), g[x.pairs[k][2]]>>]
    <3>1. \A k \in DOMAIN x.pairs : f[x.pairs[k][2]] = g[x.pairs[k][2]]
      BY <2>1, <2>2, ObjectParts
    <3>2. pf = pg
      BY <3>1
    <3>3. DumpsOnce(x, f) = Mapping("object", pf) /\ DumpsOnce(x, g) = Mapping("object", pg)
      BY <2>2 DEF DumpsOnce
    <3> HIDE DEF pf, pg
    <3> QED BY <3>2, <3>3
  <2>3. CASE x.type \in {"list", "tuple"}
    <3> DEFINE mf == [k \in DOMAIN x.members |-> f[x.members[k]]]
               mg == [k \in DOMAIN x.members |-> g[x.members[k]]]
    <3>1. \A k \in DOMAIN x.members : f[x.members[k]] = g[x.members[k]]
      BY <2>1, <2>3, ObjectParts
    <3>2. mf = mg
      BY <3>1
    <3>3. DumpsOnce(x, f) = Sequence("array", mf) /\ DumpsOnce(x, g) = Sequence("array", mg)
      BY <2>3 DEF DumpsOnce
    <3> HIDE DEF mf, mg
    <3> QED BY <3>2, <3>3
  <2>4. CASE x.type \notin {"dict", "list", "tuple"}
    BY <2>4 DEF DumpsOnce
  <2> QED BY <2>2, <2>3, <2>4
<1>2. \A x, f : Body("Dumps", x, f) = DumpsOnce(x, f)
  BY DEF Body
<1>3. rank \in [Objects -> Nat]
  BY ObjectParts
<1>4. Descends("Dumps", Objects, rank)
  <2> HIDE DEF rank
  <2> QED BY <1>1, <1>2, <1>3 DEF Descends
<1>5. PICK f : Solves(f, "Dumps", Objects)
  <2> HIDE DEF rank
  <2> QED BY <1>4, RecursionHasSolution
<1>6. Solution(f)
  BY <1>2, <1>5 DEF Solves
<1>7. Dumps = CHOOSE g : Solution(g)
  BY DEF Dumps, DumpsOnce
<1>8. Solution(Dumps)
  <2> HIDE DEF Solution
  <2> QED BY <1>6, <1>7
<1> QED BY <1>8

LEMMA WritePyJsonUnfolds ==
  ASSUME NEW v \in Objects, NEW d \in Nat
  PROVE  WritePyJson[<<v, d>>] = WriteOnce(<<v, d>>, WritePyJson)
<1> DEFINE D == Objects \X Nat
           rank == [x \in D |-> Height(x[1])]
           Solution(f) == f = [x \in D |-> WriteOnce(x, f)]
<1>1. ASSUME NEW x \in D, NEW f, NEW g, \A y \in D : rank[y] < rank[x] => f[y] = g[y]
      PROVE  WriteOnce(x, f) = WriteOnce(x, g)
  <2> DEFINE w == x[1]
             e == x[2] + 1
  <2>1. /\ w \in Objects /\ e \in Nat
        /\ \A y \in Objects : Height(y) < Height(w) => f[<<y, e>>] = g[<<y, e>>]
    <3>1. \A y \in Objects : <<y, e>> \in D /\ rank[<<y, e>>] = Height(y) /\ rank[x] = Height(w)
      OBVIOUS
    <3> QED BY <1>1, <3>1
  <2>2. CASE w.type = "dict"
    <3> DEFINE key(k) == Key(w.pairs[k][1])
               pf == [k \in DOMAIN w.pairs |-> <<key(k), f[<<w.pairs[k][2], e>>]>>]
               pg == [k \in DOMAIN w.pairs |-> <<key(k), g[<<w.pairs[k][2], e>>]>>]
    <3>1. \A k \in DOMAIN w.pairs : f[<<w.pairs[k][2], e>>] = g[<<w.pairs[k][2], e>>]
      <4> HIDE DEF w, e
      <4> QED BY <2>1, <2>2, ObjectParts
    <3>2. pf = pg
      BY <3>1
    <3>3. Mapping("object", pf) = Mapping("object", pg) => WriteOnce(x, f) = WriteOnce(x, g)
      BY <2>2 DEF WriteOnce
    <3> HIDE DEF pf, pg
    <3> QED BY <3>2, <3>3
  <2>3. CASE w.type \in {"list", "tuple"}
    <3> DEFINE mf == [k \in DOMAIN w.members |-> f[<<w.members[k], e>>]]
               mg == [k \in DOMAIN w.members |-> g[<<w.members[k], e>>]]
    <3>1. \A k \in DOMAIN w.members : f[<<w.members[k], e>>] = g[<<w.members[k], e>>]
      <4> HIDE DEF w, e
      <4> QED BY <2>1, <2>3, ObjectParts
    <3>2. mf = mg
      BY <3>1
    <3>3. Sequence("array", mf) = Sequence("array", mg) => WriteOnce(x, f) = WriteOnce(x, g)
      BY <2>3 DEF WriteOnce
    <3> HIDE DEF mf, mg
    <3> QED BY <3>2, <3>3
  <2>4. CASE w.type \notin {"dict", "list", "tuple"}
    BY <2>4 DEF WriteOnce
  <2> QED BY <2>2, <2>3, <2>4
<1>2. \A x, f : Body("WritePyJson", x, f) = WriteOnce(x, f)
  BY DEF Body
<1>3. rank \in [D -> Nat]
  BY ObjectParts
<1>4. Descends("WritePyJson", D, rank)
  <2> HIDE DEF D, rank
  <2> QED BY <1>1, <1>2, <1>3 DEF Descends
<1>5. PICK f : Solves(f, "WritePyJson", D)
  <2> HIDE DEF D, rank
  <2> QED BY <1>4, RecursionHasSolution
<1>6. Solution(f)
  BY <1>2, <1>5 DEF Solves
<1>7. WritePyJson = CHOOSE g : Solution(g)
  BY DEF WritePyJson, WriteOnce
<1>8. Solution(WritePyJson)
  <2> HIDE DEF Solution
  <2> QED BY <1>6, <1>7
<1>9. <<v, d>> \in D
  OBVIOUS
<1> HIDE DEF D
<1> QED BY <1>8, <1>9

LEMMA CarriedUnfolds ==
  ASSUME NEW v \in Objects, NEW d \in Nat
  PROVE  Carried[<<v, d>>] = CarryOnce(<<v, d>>, Carried)
<1> DEFINE D == Objects \X Nat
           rank == [x \in D |-> Height(x[1])]
           Solution(f) == f = [x \in D |-> CarryOnce(x, f)]
<1>1. ASSUME NEW x \in D, NEW f, NEW g, \A y \in D : rank[y] < rank[x] => f[y] = g[y]
      PROVE  CarryOnce(x, f) = CarryOnce(x, g)
  <2> DEFINE w == x[1]
             e == x[2] + 1
  <2>1. /\ w \in Objects /\ e \in Nat
        /\ \A y \in Objects : Height(y) < Height(w) => f[<<y, e>>] = g[<<y, e>>]
    <3>1. \A y \in Objects : <<y, e>> \in D /\ rank[<<y, e>>] = Height(y) /\ rank[x] = Height(w)
      OBVIOUS
    <3> QED BY <1>1, <3>1
  <2>2. CASE w.type = "dict"
    <3> DEFINE key(k) == IF w.pairs[k][1].type = "str" /\ Carries(w.pairs[k][1])
                         THEN w.pairs[k][1] ELSE ERROR
               pf == [k \in DOMAIN w.pairs |-> <<key(k), f[<<w.pairs[k][2], e>>]>>]
               pg == [k \in DOMAIN w.pairs |-> <<key(k), g[<<w.pairs[k][2], e>>]>>]
    <3>1. \A k \in DOMAIN w.pairs : f[<<w.pairs[k][2], e>>] = g[<<w.pairs[k][2], e>>]
      <4> HIDE DEF w, e
      <4> QED BY <2>1, <2>2, ObjectParts
    <3>2. pf = pg
      BY <3>1
    <3>3. Mapping("dict", pf) = Mapping("dict", pg) => CarryOnce(x, f) = CarryOnce(x, g)
      BY <2>2 DEF CarryOnce
    <3> HIDE DEF pf, pg
    <3> QED BY <3>2, <3>3
  <2>3. CASE w.type \in {"list", "tuple"}
    <3> DEFINE mf == [k \in DOMAIN w.members |-> f[<<w.members[k], e>>]]
               mg == [k \in DOMAIN w.members |-> g[<<w.members[k], e>>]]
    <3>1. \A k \in DOMAIN w.members : f[<<w.members[k], e>>] = g[<<w.members[k], e>>]
      <4> HIDE DEF w, e
      <4> QED BY <2>1, <2>3, ObjectParts
    <3>2. mf = mg
      BY <3>1
    <3>3. Sequence("list", mf) = Sequence("list", mg) => CarryOnce(x, f) = CarryOnce(x, g)
      BY <2>3 DEF CarryOnce
    <3> HIDE DEF mf, mg
    <3> QED BY <3>2, <3>3
  <2>4. CASE w.type \notin {"dict", "list", "tuple"}
    BY <2>4 DEF CarryOnce
  <2> QED BY <2>2, <2>3, <2>4
<1>2. \A x, f : Body("Carried", x, f) = CarryOnce(x, f)
  BY DEF Body
<1>3. rank \in [D -> Nat]
  BY ObjectParts
<1>4. Descends("Carried", D, rank)
  <2> HIDE DEF D, rank
  <2> QED BY <1>1, <1>2, <1>3 DEF Descends
<1>5. PICK f : Solves(f, "Carried", D)
  <2> HIDE DEF D, rank
  <2> QED BY <1>4, RecursionHasSolution
<1>6. Solution(f)
  BY <1>2, <1>5 DEF Solves
<1>7. Carried = CHOOSE g : Solution(g)
  BY DEF Carried, CarryOnce
<1>8. Solution(Carried)
  <2> HIDE DEF Solution
  <2> QED BY <1>6, <1>7
<1>9. <<v, d>> \in D
  OBVIOUS
<1> HIDE DEF D
<1> QED BY <1>8, <1>9

\* An array or an object is what it is made of, unless a part failed.
LEMMA ContainerForm ==
  ASSUME NEW type, NEW parts
  PROVE  /\ Sequence(type, parts) = ERROR \/ Sequence(type, parts) = [type |-> type, members |-> parts]
         /\ Mapping(type, parts) = ERROR \/ Mapping(type, parts) = [type |-> type, pairs |-> parts]
         /\ ERROR.type = "error"
<1>1. ERROR.type = "error"
  BY DEF ERROR
<1> QED BY <1>1 DEF Sequence, Mapping

\* The text of a scalar is a scalar's.
LEMMA DumpsScalarForm ==
  ASSUME NEW v \in PyScalar
  PROVE  DumpsScalar(v).type \notin {"array", "object"}
<1>1. v.type \in {"null", "true", "false", "other", "int", "float", "str"}
  BY ScalarForm
<1>2. CASE v.type \in {"null", "true", "false"}
  BY <1>2 DEF DumpsScalar
<1>3. CASE v.type = "int"
  BY <1>3 DEF DumpsScalar, Integer
<1>4. CASE v.type = "float"
  BY <1>4 DEF DumpsScalar, Fractional
<1>5. CASE v.type = "str"
  BY <1>5 DEF DumpsScalar, String
<1>6. CASE v.type = "other"
  BY <1>6 DEF DumpsScalar, ERROR
<1> QED BY <1>1, <1>2, <1>3, <1>4, <1>5, <1>6

\* The text of an array is that of a list or tuple, and the text of an object that of a dict,
\* part by part.
LEMMA DumpsParts ==
  ASSUME NEW v \in Objects
  PROVE  /\ Dumps[v].type = "array" =>
              /\ v.type \in {"list", "tuple"}
              /\ DOMAIN Dumps[v].members = DOMAIN v.members
              /\ \A k \in DOMAIN v.members : Dumps[v].members[k] = Dumps[v.members[k]]
         /\ Dumps[v].type = "object" =>
              /\ v.type = "dict"
              /\ DOMAIN Dumps[v].pairs = DOMAIN v.pairs
              /\ \A k \in DOMAIN v.pairs :
                 Dumps[v].pairs[k] = <<DumpsKey(v.pairs[k][1]), Dumps[v.pairs[k][2]]>>
<1>1. Dumps[v] = DumpsOnce(v, Dumps)
  BY DumpsUnfolds
<1>2. CASE v.type = "dict"
  <2> DEFINE pairs == [k \in DOMAIN v.pairs |-> <<DumpsKey(v.pairs[k][1]), Dumps[v.pairs[k][2]]>>]
  <2>1. Dumps[v] = Mapping("object", pairs)
    BY <1>1, <1>2 DEF DumpsOnce
  <2>2. Dumps[v].type = "error" \/ (Dumps[v].type = "object" /\ Dumps[v].pairs = pairs)
    <3> HIDE DEF pairs
    <3> QED BY <2>1, ContainerForm
  <2>3. /\ DOMAIN pairs = DOMAIN v.pairs
        /\ \A k \in DOMAIN v.pairs : pairs[k] = <<DumpsKey(v.pairs[k][1]), Dumps[v.pairs[k][2]]>>
    OBVIOUS
  <2> HIDE DEF pairs
  <2> QED BY <1>2, <2>2, <2>3
<1>3. CASE v.type \in {"list", "tuple"}
  <2> DEFINE members == [k \in DOMAIN v.members |-> Dumps[v.members[k]]]
  <2>1. Dumps[v] = Sequence("array", members)
    BY <1>1, <1>3 DEF DumpsOnce
  <2>2. Dumps[v].type = "error" \/ (Dumps[v].type = "array" /\ Dumps[v].members = members)
    <3> HIDE DEF members
    <3> QED BY <2>1, ContainerForm
  <2>3. /\ DOMAIN members = DOMAIN v.members
        /\ \A k \in DOMAIN v.members : members[k] = Dumps[v.members[k]]
    OBVIOUS
  <2> HIDE DEF members
  <2> QED BY <1>3, <2>2, <2>3
<1>4. CASE v.type \notin {"dict", "list", "tuple"}
  <2>1. Dumps[v] = DumpsScalar(v) /\ v \in PyScalar
    BY <1>1, <1>4, ObjectParts DEF DumpsOnce
  <2> QED BY <2>1, DumpsScalarForm
<1> QED BY <1>2, <1>3, <1>4

\* The least height of an object with this text.
TextRank(j) ==
    CHOOSE n \in Nat : /\ \E v \in Objects : Dumps[v] = j /\ Height(v) = n
                       /\ \A v \in Objects : Dumps[v] = j => n <= Height(v)

LEMMA TextRankLeast ==
  ASSUME NEW j \in Texts
  PROVE  /\ TextRank(j) \in Nat
         /\ \E v \in Objects : Dumps[v] = j /\ Height(v) = TextRank(j)
         /\ \A v \in Objects : Dumps[v] = j => TextRank(j) <= Height(v)
<1> DEFINE Written == {v \in Objects : Dumps[v] = j}
           Heights == {Height(v) : v \in Written}
           Smallest(n) == /\ \E v \in Objects : Dumps[v] = j /\ Height(v) = n
                       /\ \A v \in Objects : Dumps[v] = j => n <= Height(v)
<1>1. Heights \subseteq Nat
  BY ObjectParts
<1>2. Heights # {}
  BY DEF Texts
<1>3. PICK n \in Heights : \A m \in Heights : n <= m
  <2> HIDE DEF Heights
  <2> QED BY <1>1, <1>2, LeastNumber
<1>4. n \in Nat /\ Smallest(n)
  BY <1>1, <1>3
<1>5. TextRank(j) = CHOOSE m \in Nat : Smallest(m)
  BY DEF TextRank
<1>6. TextRank(j) \in Nat /\ Smallest(TextRank(j))
  <2> HIDE DEF Smallest
  <2> QED BY <1>4, <1>5
<1> QED BY <1>6

\* The parts of a text are texts of a smaller rank.
LEMMA TextParts ==
  ASSUME NEW j \in Texts
  PROVE  /\ j.type = "array" => \A k \in DOMAIN j.members :
               j.members[k] \in Texts /\ TextRank(j.members[k]) < TextRank(j)
         /\ j.type = "object" => \A k \in DOMAIN j.pairs :
               j.pairs[k][2] \in Texts /\ TextRank(j.pairs[k][2]) < TextRank(j)
<1>1. PICK v \in Objects : Dumps[v] = j /\ Height(v) = TextRank(j)
  BY TextRankLeast
<1>2. ASSUME NEW w \in Objects, Height(w) < Height(v)
      PROVE  Dumps[w] \in Texts /\ TextRank(Dumps[w]) < TextRank(j)
  <2>1. Dumps[w] \in Texts
    BY DEF Texts
  <2>2. TextRank(Dumps[w]) \in Nat /\ TextRank(Dumps[w]) <= Height(w)
    BY <2>1, TextRankLeast
  <2>3. Height(w) \in Nat /\ Height(v) \in Nat
    BY ObjectParts
  <2> QED BY <1>1, <1>2, <2>1, <2>2, <2>3
<1>3. ASSUME j.type = "array", NEW k \in DOMAIN j.members
      PROVE  j.members[k] \in Texts /\ TextRank(j.members[k]) < TextRank(j)
  <2>1. /\ v.type \in {"list", "tuple"} /\ k \in DOMAIN v.members
        /\ j.members[k] = Dumps[v.members[k]]
    BY <1>1, <1>3, DumpsParts
  <2>2. v.members[k] \in Objects /\ Height(v.members[k]) < Height(v)
    BY <2>1, ObjectParts
  <2> QED BY <1>2, <2>1, <2>2
<1>4. ASSUME j.type = "object", NEW k \in DOMAIN j.pairs
      PROVE  j.pairs[k][2] \in Texts /\ TextRank(j.pairs[k][2]) < TextRank(j)
  <2>1. /\ v.type = "dict" /\ k \in DOMAIN v.pairs
        /\ j.pairs[k] = <<DumpsKey(v.pairs[k][1]), Dumps[v.pairs[k][2]]>>
    BY <1>1, <1>4, DumpsParts
  <2>2. v.pairs[k][2] \in Objects /\ Height(v.pairs[k][2]) < Height(v)
    BY <2>1, ObjectParts
  <2>3. j.pairs[k][2] = Dumps[v.pairs[k][2]]
    BY <2>1
  <2> QED BY <1>2, <2>2, <2>3
<1> QED BY <1>3, <1>4

LEMMA JsonBytesToPyUnfolds ==
  ASSUME NEW j \in Texts, NEW d \in Nat
  PROVE  JsonBytesToPy[<<j, d>>] = ReadOnce(<<j, d>>, JsonBytesToPy)
<1> DEFINE D == Texts \X Nat
           rank == [x \in D |-> TextRank(x[1])]
           Solution(f) == f = [x \in D |-> ReadOnce(x, f)]
<1>1. ASSUME NEW x \in D, NEW f, NEW g, \A y \in D : rank[y] < rank[x] => f[y] = g[y]
      PROVE  ReadOnce(x, f) = ReadOnce(x, g)
  <2> DEFINE t == x[1]
             e == x[2] + 1
  <2>1. /\ t \in Texts /\ e \in Nat
        /\ \A y \in Texts : TextRank(y) < TextRank(t) => f[<<y, e>>] = g[<<y, e>>]
    <3>1. \A y \in Texts : <<y, e>> \in D /\ rank[<<y, e>>] = TextRank(y) /\ rank[x] = TextRank(t)
      OBVIOUS
    <3> QED BY <1>1, <3>1
  <2>2. CASE t.type = "object"
    <3> DEFINE pf == [k \in DOMAIN t.pairs |-> <<ReadScalar(t.pairs[k][1]), f[<<t.pairs[k][2], e>>]>>]
               pg == [k \in DOMAIN t.pairs |-> <<ReadScalar(t.pairs[k][1]), g[<<t.pairs[k][2], e>>]>>]
    <3>1. \A k \in DOMAIN t.pairs : f[<<t.pairs[k][2], e>>] = g[<<t.pairs[k][2], e>>]
      <4> HIDE DEF t, e
      <4> QED BY <2>1, <2>2, TextParts
    <3>2. pf = pg
      BY <3>1
    <3>3. Mapping("dict", pf) = Mapping("dict", pg) => ReadOnce(x, f) = ReadOnce(x, g)
      BY <2>2 DEF ReadOnce
    <3> HIDE DEF pf, pg
    <3> QED BY <3>2, <3>3
  <2>3. CASE t.type = "array"
    <3> DEFINE mf == [k \in DOMAIN t.members |-> f[<<t.members[k], e>>]]
               mg == [k \in DOMAIN t.members |-> g[<<t.members[k], e>>]]
    <3>1. \A k \in DOMAIN t.members : f[<<t.members[k], e>>] = g[<<t.members[k], e>>]
      <4> HIDE DEF t, e
      <4> QED BY <2>1, <2>3, TextParts
    <3>2. mf = mg
      BY <3>1
    <3>3. Sequence("list", mf) = Sequence("list", mg) => ReadOnce(x, f) = ReadOnce(x, g)
      BY <2>3 DEF ReadOnce
    <3> HIDE DEF mf, mg
    <3> QED BY <3>2, <3>3
  <2>4. CASE t.type \notin {"object", "array"}
    BY <2>4 DEF ReadOnce
  <2> QED BY <2>2, <2>3, <2>4
<1>2. \A x, f : Body("JsonBytesToPy", x, f) = ReadOnce(x, f)
  BY DEF Body
<1>3. rank \in [D -> Nat]
  BY TextRankLeast
<1>4. Descends("JsonBytesToPy", D, rank)
  <2> HIDE DEF D, rank
  <2> QED BY <1>1, <1>2, <1>3 DEF Descends
<1>5. PICK f : Solves(f, "JsonBytesToPy", D)
  <2> HIDE DEF D, rank
  <2> QED BY <1>4, RecursionHasSolution
<1>6. Solution(f)
  BY <1>2, <1>5 DEF Solves
<1>7. JsonBytesToPy = CHOOSE g : Solution(g)
  BY DEF JsonBytesToPy, ReadOnce
<1>8. Solution(JsonBytesToPy)
  <2> HIDE DEF Solution
  <2> QED BY <1>6, <1>7
<1>9. <<j, d>> \in D
  OBVIOUS
<1> HIDE DEF D
<1> QED BY <1>8, <1>9

\* What the native writer writes of a scalar is what json.dumps writes: a number for an
\* integer, and a bool for a bool.  A key it takes is text to both.
LEMMA NativeScalar ==
  ASSUME NEW v \in PyScalar
  PROVE  /\ Scalar(v) # ERROR => Scalar(v) = DumpsScalar(v)
         /\ Key(v) # ERROR => Key(v) = DumpsKey(v)
<1>1. v.type \in {"null", "true", "false", "other", "int", "float", "str"}
  BY ScalarForm
<1>2. Scalar(v) # ERROR => Scalar(v) = DumpsScalar(v)
  <2>1. CASE v.type \in {"null", "true", "false"}
    BY <2>1 DEF Scalar, DumpsScalar
  <2>2. CASE v.type = "int"
    BY <2>2 DEF Scalar, DumpsScalar, IsInt, IntValue
  <2>3. CASE v.type = "float"
    BY <2>3 DEF Scalar, DumpsScalar, IsInt
  <2>4. CASE v.type = "str"
    BY <2>4 DEF Scalar, DumpsScalar, IsInt
  <2>5. CASE v.type = "other"
    BY <2>5 DEF Scalar, IsInt
  <2> QED BY <1>1, <2>1, <2>2, <2>3, <2>4, <2>5
<1> QED BY <1>2 DEF Key, DumpsKey

\* The native writer writes an object as json.dumps does, or refuses it.
LEMMA NativeOrRefused ==
  ASSUME NEW v \in Objects, NEW d \in Nat, WritePyJson[<<v, d>>] # ERROR
  PROVE  WritePyJson[<<v, d>>] = Dumps[v]
<1> DEFINE Agrees(w) == \A e \in Nat : WritePyJson[<<w, e>>] # ERROR => WritePyJson[<<w, e>>] = Dumps[w]
           Holds == {w \in Objects : Agrees(w)}
           rank == [w \in Objects |-> Height(w)]
<1>1. ASSUME NEW w \in Objects, \A y \in Objects : rank[y] < rank[w] => y \in Holds
      PROVE  w \in Holds
  <2>1. ASSUME NEW y \in Objects, Height(y) < Height(w), NEW e \in Nat, WritePyJson[<<y, e>>] # ERROR
        PROVE  WritePyJson[<<y, e>>] = Dumps[y]
    BY <1>1, <2>1
  <2>2. ASSUME NEW e \in Nat, WritePyJson[<<w, e>>] # ERROR
        PROVE  WritePyJson[<<w, e>>] = Dumps[w]
    <3> HIDE DEF rank, Holds
    <3>1. e + 1 \in Nat
      OBVIOUS
    <3>2. WritePyJson[<<w, e>>] = WriteOnce(<<w, e>>, WritePyJson) /\ Dumps[w] = DumpsOnce(w, Dumps)
      BY WritePyJsonUnfolds, DumpsUnfolds
    <3>3. CASE w.type = "dict"
      <4> DEFINE pw == [k \in DOMAIN w.pairs |->
                           <<Key(w.pairs[k][1]), WritePyJson[<<w.pairs[k][2], e + 1>>]>>]
                 pd == [k \in DOMAIN w.pairs |-> <<DumpsKey(w.pairs[k][1]), Dumps[w.pairs[k][2]]>>]
      <4>1. WritePyJson[<<w, e>>] = ERROR \/ WritePyJson[<<w, e>>] = Mapping("object", pw)
        BY <3>2, <3>3 DEF WriteOnce
      <4>2. Dumps[w] = Mapping("object", pd)
        BY <3>2, <3>3 DEF DumpsOnce
      <4>3. \A k \in DOMAIN pw : pw[k][1] # ERROR /\ pw[k][2] # ERROR
        <5> HIDE DEF pw
        <5> QED BY <2>2, <4>1 DEF Mapping
      <4>4. ASSUME NEW k \in DOMAIN w.pairs PROVE pw[k] = pd[k]
        <5>1. Key(w.pairs[k][1]) # ERROR /\ WritePyJson[<<w.pairs[k][2], e + 1>>] # ERROR
          BY <4>3
        <5>2. /\ w.pairs[k][2] \in Objects /\ w.pairs[k][1] \in PyScalar
              /\ Height(w.pairs[k][2]) < Height(w)
          BY <3>3, ObjectParts
        <5>3. Key(w.pairs[k][1]) = DumpsKey(w.pairs[k][1])
          BY <5>1, <5>2, NativeScalar
        <5>4. WritePyJson[<<w.pairs[k][2], e + 1>>] = Dumps[w.pairs[k][2]]
          BY <2>1, <3>1, <5>1, <5>2
        <5> QED BY <5>3, <5>4
      <4>5. pw = pd
        BY <4>4
      <4> HIDE DEF pw, pd
      <4> QED BY <2>2, <4>1, <4>2, <4>5
    <3>4. CASE w.type \in {"list", "tuple"}
      <4> DEFINE mw == [k \in DOMAIN w.members |-> WritePyJson[<<w.members[k], e + 1>>]]
                 md == [k \in DOMAIN w.members |-> Dumps[w.members[k]]]
      <4>1. WritePyJson[<<w, e>>] = ERROR \/ WritePyJson[<<w, e>>] = Sequence("array", mw)
        BY <3>2, <3>4 DEF WriteOnce
      <4>2. Dumps[w] = Sequence("array", md)
        BY <3>2, <3>4 DEF DumpsOnce
      <4>3. \A k \in DOMAIN mw : mw[k] # ERROR
        <5> HIDE DEF mw
        <5> QED BY <2>2, <4>1 DEF Sequence
      <4>4. ASSUME NEW k \in DOMAIN w.members PROVE mw[k] = md[k]
        <5>1. WritePyJson[<<w.members[k], e + 1>>] # ERROR
          BY <4>3
        <5>2. w.members[k] \in Objects /\ Height(w.members[k]) < Height(w)
          BY <3>4, ObjectParts
        <5> QED BY <2>1, <3>1, <5>1, <5>2
      <4>5. mw = md
        BY <4>4
      <4> HIDE DEF mw, md
      <4> QED BY <2>2, <4>1, <4>2, <4>5
    <3>5. CASE w.type \notin {"dict", "list", "tuple"}
      <4>1. w \in PyScalar
        BY <3>5, ObjectParts
      <4>2. WritePyJson[<<w, e>>] = Scalar(w)
        BY <2>2, <3>2, <3>5 DEF WriteOnce
      <4>3. Dumps[w] = DumpsScalar(w)
        BY <3>2, <3>5 DEF DumpsOnce
      <4> QED BY <2>2, <4>1, <4>2, <4>3, NativeScalar
    <3> QED BY <3>3, <3>4, <3>5
  <2> QED BY <2>2
<1>2. rank \in [Objects -> Nat]
  BY ObjectParts
<1>3. Objects \subseteq Holds
  <2> HIDE DEF rank, Holds
  <2> QED BY <1>1, <1>2, RankInduction
<1>4. Agrees(v)
  BY <1>3
<1> QED BY <1>4

\* A scalar that JSON carries is written, and read back as it was.
LEMMA CarriedScalar ==
  ASSUME NEW v \in PyScalar, Carries(v)
  PROVE  /\ DumpsScalar(v) # ERROR /\ ReadScalar(DumpsScalar(v)) = v
         /\ v.type = "str" => DumpsKey(v) = DumpsScalar(v)
<1>1. CASE v.type \in {"null", "true", "false"}
  <2>1. v = [type |-> v.type] /\ DumpsScalar(v) = v
    BY <1>1, ScalarForm DEF DumpsScalar
  <2>2. v # ERROR
    BY <1>1 DEF ERROR
  <2>3. ReadScalar(v) = v
    BY <1>1 DEF ReadScalar
  <2> QED BY <1>1, <2>1, <2>2, <2>3
<1>2. CASE v.type = "int"
  <2> DEFINE j == DumpsScalar(v)
  <2>1. v = [type |-> "int", value |-> v.value] /\ v.value \in -(MaxI64 + 1) .. MaxU64
    BY <1>2, ScalarForm DEF Carries
  <2>2. j = [type |-> "integer", value |-> v.value]
    BY <1>2 DEF DumpsScalar, Integer
  <2>3. j.type = "integer" /\ j.value = v.value
    BY <2>2
  <2> HIDE DEF j
  <2>4. j # ERROR
    BY <2>3, ContainerForm
  <2>5. ReadScalar(j) = [type |-> "int", value |-> v.value]
    BY <2>1, <2>3 DEF ReadScalar
  <2> QED BY <1>2, <2>1, <2>4, <2>5 DEF j
<1>3. CASE v.type = "float"
  <2> DEFINE j == DumpsScalar(v)
  <2>1. v = [type |-> "float", text |-> v.text] /\ v.text \notin NotFinite
    BY <1>3, ScalarForm DEF Carries
  <2>2. j = [type |-> "number", text |-> v.text]
    BY <1>3 DEF DumpsScalar, Fractional
  <2>3. j.type = "number" /\ j.text = v.text
    BY <2>2
  <2> HIDE DEF j
  <2>4. j # ERROR
    BY <2>3, ContainerForm
  <2>5. ReadScalar(j) = [type |-> "float", text |-> v.text]
    BY <2>1, <2>3 DEF ReadScalar
  <2> QED BY <1>3, <2>1, <2>4, <2>5 DEF j
<1>4. CASE v.type = "str"
  <2> DEFINE j == DumpsScalar(v)
  <2>1. v = [type |-> "str", text |-> v.text] /\ v.text # "surrogate"
    BY <1>4, ScalarForm DEF Carries
  <2>2. j = [type |-> "string", text |-> v.text]
    BY <1>4 DEF DumpsScalar, String
  <2>3. j.type = "string" /\ j.text = v.text
    BY <2>2
  <2>4. DumpsKey(v) = j
    BY <1>4 DEF DumpsKey
  <2> HIDE DEF j
  <2>5. j # ERROR
    BY <2>3, ContainerForm
  <2>6. ReadScalar(j) = [type |-> "str", text |-> v.text]
    BY <2>1, <2>3 DEF ReadScalar
  <2> QED BY <2>1, <2>4, <2>5, <2>6 DEF j
<1> QED BY <1>1, <1>2, <1>3, <1>4 DEF Carries

\* What JSON carries, json.dumps writes, and the reader reads back.
LEMMA CarriedIsRead ==
  ASSUME NEW v \in Objects, NEW d \in Nat, Carried[<<v, d>>] # ERROR
  PROVE  Dumps[v] # ERROR /\ JsonBytesToPy[<<Dumps[v], d>>] = Carried[<<v, d>>]
<1> DEFINE Returns(w) == \A e \in Nat : Carried[<<w, e>>] # ERROR =>
                            Dumps[w] # ERROR /\ JsonBytesToPy[<<Dumps[w], e>>] = Carried[<<w, e>>]
           Holds == {w \in Objects : Returns(w)}
           rank == [w \in Objects |-> Height(w)]
<1>1. ASSUME NEW w \in Objects, \A y \in Objects : rank[y] < rank[w] => y \in Holds
      PROVE  w \in Holds
  <2>1. ASSUME NEW y \in Objects, Height(y) < Height(w), NEW e \in Nat, Carried[<<y, e>>] # ERROR
        PROVE  Dumps[y] # ERROR /\ JsonBytesToPy[<<Dumps[y], e>>] = Carried[<<y, e>>]
    BY <1>1, <2>1
  <2>2. ASSUME NEW e \in Nat, Carried[<<w, e>>] # ERROR
        PROVE  Dumps[w] # ERROR /\ JsonBytesToPy[<<Dumps[w], e>>] = Carried[<<w, e>>]
    <3> HIDE DEF rank, Holds
    <3>1. e + 1 \in Nat /\ Dumps[w] \in Texts
      BY DEF Texts
    <3>2. /\ Carried[<<w, e>>] = CarryOnce(<<w, e>>, Carried) /\ Dumps[w] = DumpsOnce(w, Dumps)
          /\ JsonBytesToPy[<<Dumps[w], e>>] = ReadOnce(<<Dumps[w], e>>, JsonBytesToPy)
      BY <3>1, CarriedUnfolds, DumpsUnfolds, JsonBytesToPyUnfolds
    <3>3. CASE w.type = "dict"
      <4> DEFINE key(k) == w.pairs[k][1]
                 kept == [k \in DOMAIN w.pairs |->
                           <<IF key(k).type = "str" /\ Carries(key(k)) THEN key(k) ELSE ERROR,
                             Carried[<<w.pairs[k][2], e + 1>>]>>]
                 pd == [k \in DOMAIN w.pairs |-> <<DumpsKey(key(k)), Dumps[w.pairs[k][2]]>>]
                 pr == [k \in DOMAIN pd |-> <<ReadScalar(pd[k][1]), JsonBytesToPy[<<pd[k][2], e + 1>>]>>]
      <4>1. ~(e + 1 >= MaxDepth) /\ Carried[<<w, e>>] = Mapping("dict", kept)
        BY <2>2, <3>2, <3>3 DEF CarryOnce
      <4>2. Dumps[w] = Mapping("object", pd)
        BY <3>2, <3>3 DEF DumpsOnce
      <4>3. \A k \in DOMAIN kept : kept[k][1] # ERROR /\ kept[k][2] # ERROR
        <5> HIDE DEF kept
        <5> QED BY <2>2, <4>1 DEF Mapping
      <4>4. ASSUME NEW k \in DOMAIN w.pairs
            PROVE  pd[k][1] # ERROR /\ pd[k][2] # ERROR /\ pr[k] = kept[k]
        <5>1. key(k).type = "str" /\ Carries(key(k)) /\ Carried[<<w.pairs[k][2], e + 1>>] # ERROR
          BY <4>3
        <5>2. w.pairs[k][2] \in Objects /\ key(k) \in PyScalar /\ Height(w.pairs[k][2]) < Height(w)
          BY <3>3, ObjectParts
        <5>3. DumpsKey(key(k)) # ERROR /\ ReadScalar(DumpsKey(key(k))) = key(k)
          BY <5>1, <5>2, CarriedScalar
        <5>4. /\ Dumps[w.pairs[k][2]] # ERROR
              /\ JsonBytesToPy[<<Dumps[w.pairs[k][2]], e + 1>>] = Carried[<<w.pairs[k][2], e + 1>>]
          BY <2>1, <3>1, <5>1, <5>2
        <5> QED BY <5>1, <5>3, <5>4
      <4>5. pr = kept
        BY <4>4
      <4>6. DOMAIN pd = DOMAIN w.pairs
        OBVIOUS
      <4>7. Dumps[w] = [type |-> "object", pairs |-> pd]
        <5> HIDE DEF pd
        <5> QED BY <4>2, <4>4, <4>6 DEF Mapping
      <4>8. Dumps[w].type = "object" /\ Dumps[w].pairs = pd
        BY <4>7
      <4>9. JsonBytesToPy[<<Dumps[w], e>>] = Mapping("dict", pr)
        <5> HIDE DEF pd
        <5> QED BY <3>2, <4>1, <4>8 DEF ReadOnce
      <4> HIDE DEF kept, pd, pr
      <4>10. Dumps[w] # ERROR
        BY <4>8, ContainerForm
      <4> QED BY <4>1, <4>5, <4>9, <4>10
    <3>4. CASE w.type \in {"list", "tuple"}
      <4> DEFINE mc == [k \in DOMAIN w.members |-> Carried[<<w.members[k], e + 1>>]]
                 md == [k \in DOMAIN w.members |-> Dumps[w.members[k]]]
                 mr == [k \in DOMAIN md |-> JsonBytesToPy[<<md[k], e + 1>>]]
      <4>1. ~(e + 1 >= MaxDepth) /\ Carried[<<w, e>>] = Sequence("list", mc)
        BY <2>2, <3>2, <3>4 DEF CarryOnce
      <4>2. Dumps[w] = Sequence("array", md)
        BY <3>2, <3>4 DEF DumpsOnce
      <4>3. \A k \in DOMAIN mc : mc[k] # ERROR
        <5> HIDE DEF mc
        <5> QED BY <2>2, <4>1 DEF Sequence
      <4>4. ASSUME NEW k \in DOMAIN w.members PROVE md[k] # ERROR /\ mr[k] = mc[k]
        <5>1. Carried[<<w.members[k], e + 1>>] # ERROR
          BY <4>3
        <5>2. w.members[k] \in Objects /\ Height(w.members[k]) < Height(w)
          BY <3>4, ObjectParts
        <5>3. /\ Dumps[w.members[k]] # ERROR
              /\ JsonBytesToPy[<<Dumps[w.members[k]], e + 1>>] = Carried[<<w.members[k], e + 1>>]
          BY <2>1, <3>1, <5>1, <5>2
        <5> QED BY <5>3
      <4>5. mr = mc
        BY <4>4
      <4>6. DOMAIN md = DOMAIN w.members
        OBVIOUS
      <4>7. Dumps[w] = [type |-> "array", members |-> md]
        <5> HIDE DEF md
        <5> QED BY <4>2, <4>4, <4>6 DEF Sequence
      <4>8. Dumps[w].type = "array" /\ Dumps[w].members = md
        BY <4>7
      <4>9. JsonBytesToPy[<<Dumps[w], e>>] = Sequence("list", mr)
        <5> HIDE DEF md
        <5> QED BY <3>2, <4>1, <4>8 DEF ReadOnce
      <4> HIDE DEF mc, md, mr
      <4>10. Dumps[w] # ERROR
        BY <4>8, ContainerForm
      <4> QED BY <4>1, <4>5, <4>9, <4>10
    <3>5. CASE w.type \notin {"dict", "list", "tuple"}
      <4>1. w \in PyScalar
        BY <3>5, ObjectParts
      <4>2. Carries(w) /\ Carried[<<w, e>>] = w
        BY <2>2, <3>2, <3>5 DEF CarryOnce
      <4>3. Dumps[w] = DumpsScalar(w)
        BY <3>2, <3>5 DEF DumpsOnce
      <4>4. JsonBytesToPy[<<Dumps[w], e>>] = ReadScalar(Dumps[w])
        BY <3>2, <4>1, <4>3, DumpsScalarForm DEF ReadOnce
      <4> QED BY <4>1, <4>2, <4>3, <4>4, CarriedScalar
    <3> QED BY <3>3, <3>4, <3>5
  <2> QED BY <2>2
<1>2. rank \in [Objects -> Nat]
  BY ObjectParts
<1>3. Objects \subseteq Holds
  <2> HIDE DEF rank, Holds
  <2> QED BY <1>1, <1>2, RankInduction
<1>4. Returns(v)
  BY <1>3
<1> QED BY <1>4

\* The response of py_to_json_bytes_or_fallback means what json.dumps would have written,
\* whichever of the two wrote it and however deep or wide the object is; and json_bytes_to_py
\* reads it back as the same object, with tuples as lists, if JSON can carry the object.
THEOREM JsonAlwaysKept == JsonInit => JsonMeaningKept
<1> SUFFICES ASSUME object \in Objects PROVE JsonMeaningKept
  BY DEF JsonInit
<1> DEFINE written == PyToJsonBytesOrFallback(object)
           carried == Carried[<<object, 0>>]
<1>1. 0 \in Nat
  OBVIOUS
<1>2. written = Dumps[object]
  BY <1>1, NativeOrRefused DEF PyToJsonBytesOrFallback
<1>3. carried # ERROR => JsonBytesToPy[<<written, 0>>] = carried
  BY <1>1, <1>2, CarriedIsRead
<1> QED BY <1>2, <1>3 DEF JsonMeaningKept

=============================================================================
