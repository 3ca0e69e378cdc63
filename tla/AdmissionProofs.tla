-------------------------- MODULE AdmissionProofs ---------------------------
(***************************************************************************)
(* Proofs about Admission: the counter is exact, and admission is the      *)
(* atomic decision of ConcurrencyLimit, for any number of requests.        *)
(***************************************************************************)
EXTENDS Admission, FiniteSetTheorems, TLAPS

\* The requests the counter stands for.
Counted == {r \in Requests : pc[r] \in {"guarded", "async", "compare", "uncount"}}

\* handle_rsgi decides with the GIL, so one request at a time, and with the limit that is
\* in force; what it compares is what the counter was.
DecideInv ==
    \A r \in Requests :
        /\ pc[r] \in {"count", "compare", "uncount", "shed"} => gil = r
        /\ pc[r] = "count" => max_c[r] = max_concurrency

AdmissionInv == TypeOK /\ DecideInv /\ in_flight = Cardinality(Counted)

\* The counter does not wrap while it counts requests.
LEMMA AddIsExact ==
    ASSUME TypeOK, NEW n \in {-1, 1}, in_flight + n \in 0 .. (Wrap - 1)
    PROVE  Add(n) = in_flight + n
BY WrapAssumption DEF TypeOK, Add

\* Any set of requests is finite, and smaller than the range of the counter.
LEMMA RequestSets ==
    ASSUME NEW S \in SUBSET Requests
    PROVE  /\ IsFiniteSet(S)
           /\ Cardinality(S) \in Nat
           /\ Cardinality(S) <= Cardinality(Requests)
           /\ Cardinality(Requests) < Wrap
<1>1. IsFiniteSet(S) /\ Cardinality(S) <= Cardinality(Requests)
  BY RequestsAssumption, FS_Subset
<1>. QED
  BY <1>1, FS_CardinalityType, WrapAssumption

\* A request that is counted for the first time.
LEMMA CountMore ==
    ASSUME AdmissionInv, NEW r \in Requests, r \notin Counted,
           Counted' = Counted \cup {r}
    PROVE  Add(1) = Cardinality(Counted') /\ Add(1) \in 0 .. (Wrap - 1)
<1>1. Counted \in SUBSET Requests /\ Counted' \in SUBSET Requests
  BY DEF Counted
<1>2. Cardinality(Counted') = Cardinality(Counted) + 1
  BY <1>1, RequestSets, FS_AddElement
<1>3. in_flight + 1 \in 0 .. (Wrap - 1)
  BY <1>1, <1>2, RequestSets, WrapAssumption DEF AdmissionInv
<1>. QED
  BY <1>2, <1>3, AddIsExact DEF AdmissionInv

\* A request that gives its count back.
LEMMA CountLess ==
    ASSUME AdmissionInv, NEW r \in Requests, r \in Counted,
           Counted' = Counted \ {r}
    PROVE  Add(-1) = Cardinality(Counted') /\ Add(-1) \in 0 .. (Wrap - 1)
<1>1. Counted \in SUBSET Requests /\ Counted' \in SUBSET Requests
  BY DEF Counted
<1>2. Cardinality(Counted') = Cardinality(Counted) - 1
  BY <1>1, RequestSets, FS_RemoveElement
<1>3. in_flight + (-1) \in 0 .. (Wrap - 1)
  BY <1>1, <1>2, RequestSets, WrapAssumption DEF AdmissionInv
<1>. QED
  BY <1>2, <1>3, AddIsExact DEF AdmissionInv

LEMMA InitAdmissionInv == Init => AdmissionInv
<1>. SUFFICES ASSUME Init PROVE AdmissionInv
  OBVIOUS
<1>1. Counted = {}
  BY DEF Init, Counted
<1>2. Cardinality({}) = 0
  BY FS_EmptySet
<1>3. 0 \in 0 .. (Wrap - 1)
  BY RequestSets, FS_CardinalityType, WrapAssumption
<1>. QED
  BY <1>1, <1>2, <1>3, LimitsAssumption DEF Init, AdmissionInv, TypeOK, DecideInv

LEMMA NextAdmissionInv == AdmissionInv /\ [Next]_vars => AdmissionInv'
<1>. SUFFICES ASSUME AdmissionInv, [Next]_vars PROVE AdmissionInv'
  OBVIOUS
<1>. USE DEF AdmissionInv
<1>1. ASSUME NEW n \in Limits, SetMaxConcurrency(n) PROVE AdmissionInv'
  <2>1. Counted' = Counted
    BY <1>1 DEF SetMaxConcurrency, Counted
  <2>. QED
    BY <1>1, <2>1, RequestsAssumption DEF SetMaxConcurrency, TypeOK, DecideInv
<1>2. ASSUME NEW r \in Requests, Load(r) PROVE AdmissionInv'
  <2>1. Counted' = Counted
    BY <1>2 DEF Load, Counted, TypeOK
  <2>. QED
    BY <1>2, <2>1, RequestsAssumption DEF Load, TypeOK, DecideInv
<1>3. ASSUME NEW r \in Requests, Count(r) PROVE AdmissionInv'
  <2>1. r \notin Counted /\ Counted' = Counted \cup {r}
    BY <1>3 DEF Count, Counted, TypeOK
  <2>2. in_flight' = Cardinality(Counted') /\ in_flight' \in 0 .. (Wrap - 1)
    BY <1>3, <2>1, CountMore DEF Count
  <2>. QED
    BY <1>3, <2>2 DEF Count, TypeOK, DecideInv
<1>4. ASSUME NEW r \in Requests, Compare(r) PROVE AdmissionInv'
  <2>1. Counted' = Counted
    BY <1>4 DEF Compare, Counted, TypeOK
  <2>. QED
    BY <1>4, <2>1 DEF Compare, TypeOK, DecideInv
<1>5. ASSUME NEW r \in Requests, Uncount(r) PROVE AdmissionInv'
  <2>1. r \in Counted /\ Counted' = Counted \ {r}
    BY <1>5 DEF Uncount, Counted, TypeOK
  <2>2. in_flight' = Cardinality(Counted') /\ in_flight' \in 0 .. (Wrap - 1)
    BY <1>5, <2>1, CountLess DEF Uncount
  <2>. QED
    BY <1>5, <2>2 DEF Uncount, TypeOK, DecideInv
<1>6. ASSUME NEW r \in Requests, SendShed(r) PROVE AdmissionInv'
  <2>1. Counted' = Counted
    BY <1>6 DEF SendShed, Counted, TypeOK
  <2>. QED
    BY <1>6, <2>1 DEF SendShed, TypeOK, DecideInv
<1>7. ASSUME NEW r \in Requests, ReleaseGil(r) PROVE AdmissionInv'
  <2>1. Counted' = Counted
    BY <1>7 DEF ReleaseGil, Counted
  <2>. QED
    BY <1>7, <2>1 DEF ReleaseGil, TypeOK, DecideInv
<1>8. ASSUME NEW r \in Requests, RetakeGil(r) PROVE AdmissionInv'
  <2>1. Counted' = Counted
    BY <1>8 DEF RetakeGil, Counted
  <2>. QED
    BY <1>8, <2>1, RequestsAssumption DEF RetakeGil, TypeOK, DecideInv
<1>9. ASSUME NEW r \in Requests, EndSync(r) PROVE AdmissionInv'
  <2>1. r \in Counted /\ Counted' = Counted \ {r}
    BY <1>9 DEF EndSync, Counted, TypeOK
  <2>2. in_flight' = Cardinality(Counted') /\ in_flight' \in 0 .. (Wrap - 1)
    BY <1>9, <2>1, CountLess DEF EndSync
  <2>. QED
    BY <1>9, <2>2 DEF EndSync, TypeOK, DecideInv
<1>10. ASSUME NEW r \in Requests, Defer(r) PROVE AdmissionInv'
  <2>1. Counted' = Counted
    BY <1>10 DEF Defer, Counted, TypeOK
  <2>. QED
    BY <1>10, <2>1 DEF Defer, TypeOK, DecideInv
<1>11. ASSUME NEW r \in Requests, EndAsync(r) PROVE AdmissionInv'
  <2>1. r \in Counted /\ Counted' = Counted \ {r}
    BY <1>11 DEF EndAsync, Counted, TypeOK
  <2>2. in_flight' = Cardinality(Counted') /\ in_flight' \in 0 .. (Wrap - 1)
    BY <1>11, <2>1, CountLess DEF EndAsync
  <2>. QED
    BY <1>11, <2>2 DEF EndAsync, TypeOK, DecideInv
<1>12. CASE UNCHANGED vars
  BY <1>12 DEF vars, Counted, TypeOK, DecideInv
<1>. QED
  BY <1>1, <1>2, <1>3, <1>4, <1>5, <1>6, <1>7, <1>8, <1>9, <1>10, <1>11, <1>12 DEF Next

LEMMA AdmissionInvariant == Spec => []AdmissionInv
BY InitAdmissionInv, NextAdmissionInv, PTL DEF Spec

\* Type correctness: in particular the counter stays in the range of an AtomicUsize.
THEOREM TypeCorrect == Spec => []TypeOK
<1>1. AdmissionInv => TypeOK
  BY DEF AdmissionInv
<1>. QED
  BY <1>1, AdmissionInvariant, PTL

\* The counter counts the live guards and the requests being decided.
THEOREM CounterAlwaysExact == Spec => []InFlightExact
<1>1. AdmissionInv => InFlightExact
  <2>. SUFFICES ASSUME AdmissionInv PROVE InFlightExact
    OBVIOUS
  <2>1. Guards \in SUBSET Requests /\ Undecided \in SUBSET Requests
    BY DEF Guards, Undecided
  <2>2. Counted = Guards \cup Undecided /\ Guards \cap Undecided = {}
    BY DEF Counted, Guards, Undecided
  <2>3. /\ IsFiniteSet(Guards) /\ Cardinality(Guards) \in Nat
        /\ IsFiniteSet(Undecided) /\ Cardinality(Undecided) \in Nat
    BY <2>1, RequestSets
  <2>4. Cardinality(Guards \cup Undecided)
          = Cardinality(Guards) + Cardinality(Undecided) - Cardinality(Guards \cap Undecided)
    BY <2>3, FS_Union
  <2>5. Cardinality(Guards \cap Undecided) = 0
    BY <2>2, FS_EmptySet
  <2>. QED
    BY <2>2, <2>3, <2>4, <2>5 DEF AdmissionInv, InFlightExact
<1>. QED
  BY <1>1, AdmissionInvariant, PTL

-----------------------------------------------------------------------------
(* Refinement.                                                             *)

\* A step after which every request has the decision it had leaves the abstract state
\* alone.
LEMMA SameDecisions ==
    ASSUME UNCHANGED max_concurrency,
           \A r \in Requests : Decision(r)' = Decision(r)
    PROVE  UNCHANGED Abstract!vars
BY DEF Abstract!vars

\* A request that leaves, admitted or shed, and no other decision changes.
LEMMA RequestLeaves ==
    ASSUME NEW r \in Requests, UNCHANGED max_concurrency,
           Decision(r) # "none", Decision(r)' = "none",
           \A s \in Requests \ {r} : Decision(s)' = Decision(s)
    PROVE  Abstract!Next
<1>1. Abstract!Leave(r)
  BY DEF Abstract!Leave
<1>. QED
  BY <1>1 DEF Abstract!Next

\* Both specifications count with the Cardinality of FiniteSets.
LEMMA SameCardinality == \A S : Abstract!Cardinality(S) = Cardinality(S)
BY DEF Abstract!Cardinality, Cardinality, Abstract!IsFiniteSet, IsFiniteSet

\* Counting a request is the decision: nobody else is being decided, so the counter is
\* the number of admitted requests and the limit read is the limit in force.
LEMMA CountDecides ==
    ASSUME AdmissionInv, NEW r \in Requests, Count(r)
    PROVE  Abstract!Next
<1>1. \A s \in Requests \ {r} : pc[s] \in {"idle", "guarded", "async"} /\ Decision(s)' = Decision(s)
  BY DEF AdmissionInv, TypeOK, DecideInv, Count, Decision
<1>2. pc[r] = "count" /\ Decision(r) = "none" /\ max_c[r] = max_concurrency
      /\ max_concurrency \in Nat
  BY LimitsAssumption DEF AdmissionInv, TypeOK, DecideInv, Count, Decision
<1>3. Counted = Abstract!Admitted
  BY <1>1, <1>2 DEF Counted, Abstract!Admitted, Decision
<1>4. Decision(r)' = IF Abstract!Full THEN "shed" ELSE "admitted"
  <2>1. Cardinality(Abstract!Admitted) = in_flight /\ in_flight \in Nat
    BY <1>3 DEF AdmissionInv, TypeOK
  <2>2. current'[r] = in_flight /\ max_c'[r] = max_concurrency
        /\ pc'[r] = IF max_concurrency > 0 THEN "compare" ELSE "guarded"
    BY <1>2 DEF AdmissionInv, TypeOK, Count
  <2>3. Abstract!Full <=> max_concurrency > 0 /\ in_flight >= max_concurrency
    BY <2>1, SameCardinality DEF Abstract!Full
  <2>. QED
    BY <1>2, <2>1, <2>2, <2>3 DEF Decision
<1>5. max_concurrency' = max_concurrency
  BY DEF Count
<1>6. CASE Abstract!Full
  <2>1. Abstract!Shed(r)
    BY <1>1, <1>2, <1>4, <1>5, <1>6 DEF Abstract!Shed
  <2>. QED
    BY <2>1 DEF Abstract!Next
<1>7. CASE ~Abstract!Full
  <2>1. Abstract!Admit(r)
    BY <1>1, <1>2, <1>4, <1>5, <1>7 DEF Abstract!Admit
  <2>. QED
    BY <2>1 DEF Abstract!Next
<1>. QED
  BY <1>6, <1>7

\* Every step of the detailed specification is a step of the abstract one, or none.
LEMMA StepRefines == AdmissionInv /\ [Next]_vars => [Abstract!Next]_(Abstract!vars)
<1>. SUFFICES ASSUME AdmissionInv, [Next]_vars
              PROVE  [Abstract!Next]_(Abstract!vars)
  OBVIOUS
<1>. USE DEF AdmissionInv
<1>1. ASSUME NEW n \in Limits, SetMaxConcurrency(n) PROVE Abstract!Next
  <2>1. Abstract!SetLimit(n)
    BY <1>1 DEF SetMaxConcurrency, Abstract!SetLimit, Decision
  <2>. QED
    BY <2>1 DEF Abstract!Next
<1>2. ASSUME NEW r \in Requests, Load(r) PROVE UNCHANGED Abstract!vars
  BY <1>2, SameDecisions DEF Load, Decision, TypeOK
<1>3. ASSUME NEW r \in Requests, Count(r) PROVE Abstract!Next
  BY <1>3, CountDecides
<1>4. ASSUME NEW r \in Requests, Compare(r) PROVE UNCHANGED Abstract!vars
  BY <1>4, SameDecisions DEF Compare, Decision, TypeOK
<1>5. ASSUME NEW r \in Requests, Uncount(r) PROVE UNCHANGED Abstract!vars
  BY <1>5, SameDecisions DEF Uncount, Decision, TypeOK
<1>6. ASSUME NEW r \in Requests, SendShed(r) PROVE Abstract!Next
  BY <1>6, RequestLeaves DEF SendShed, Decision, TypeOK
<1>7. ASSUME NEW r \in Requests, ReleaseGil(r) PROVE UNCHANGED Abstract!vars
  BY <1>7, SameDecisions DEF ReleaseGil, Decision
<1>8. ASSUME NEW r \in Requests, RetakeGil(r) PROVE UNCHANGED Abstract!vars
  BY <1>8, SameDecisions DEF RetakeGil, Decision
<1>9. ASSUME NEW r \in Requests, EndSync(r) PROVE Abstract!Next
  BY <1>9, RequestLeaves DEF EndSync, Decision, TypeOK
<1>10. ASSUME NEW r \in Requests, Defer(r) PROVE UNCHANGED Abstract!vars
  BY <1>10, SameDecisions DEF Defer, Decision, TypeOK
<1>11. ASSUME NEW r \in Requests, EndAsync(r) PROVE Abstract!Next
  BY <1>11, RequestLeaves DEF EndAsync, Decision, TypeOK
<1>12. CASE UNCHANGED vars
  BY <1>12, SameDecisions DEF vars, Decision
<1>. QED
  BY <1>1, <1>2, <1>3, <1>4, <1>5, <1>6, <1>7, <1>8, <1>9, <1>10, <1>11, <1>12 DEF Next

\* Admission is atomic: handle_rsgi implements ConcurrencyLimit.
THEOREM AdmissionIsAtomic == Spec => ImplementsLimit
<1>1. Init => Abstract!Init
  BY DEF Init, Abstract!Init, Decision
<1>. QED
  BY <1>1, StepRefines, AdmissionInvariant, PTL DEF Spec, ImplementsLimit, Abstract!Spec
=============================================================================
